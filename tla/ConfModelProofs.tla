--------------------------- MODULE ConfModelProofs ---------------------------
(***************************************************************************)
(* Proofs about the table for any plugins, any prices, and any number of   *)
(* shops and components.                                                   *)
(***************************************************************************)
EXTENDS ConfModel, SequenceTheorems, TLAPS

\* A function on 1..n is a sequence.
LEMMA FunctionIsSeq ==
    ASSUME NEW S, NEW n \in Nat, NEW f \in [1..n -> S]
    PROVE  f \in Seq(S) /\ Len(f) = n /\ DOMAIN f = 1..n
<1>1. f \in Seq(S)
  BY SeqDef
<1>2. DOMAIN f = 1..n
  OBVIOUS
<1> QED
  BY <1>1, <1>2, LenProperties

\* What std::vector::erase of one element leaves.
LEMMA RemoveAtProperties ==
    ASSUME NEW S, NEW s \in Seq(S), NEW i \in 1..Len(s)
    PROVE  /\ RemoveAt(s, i) \in Seq(S)
           /\ Len(RemoveAt(s, i)) = Len(s) - 1
           /\ \A j \in 1..Len(s) - 1 :
                RemoveAt(s, i)[j] = IF j < i THEN s[j] ELSE s[j + 1]
<1> DEFINE a == SubSeq(s, 1, i - 1)
           b == SubSeq(s, i + 1, Len(s))
<1>0. Len(s) \in Nat /\ i \in Int /\ (\A k \in 1..Len(s) : s[k] \in S)
  BY LenProperties, ElementOfSeq
<1>1. /\ a \in Seq(S) /\ Len(a) = i - 1
      /\ \A k \in 1..i - 1 : a[k] = s[k]
  <2>1. \A k \in 1..(i - 1) : s[k] \in S
    BY <1>0
  <2> HIDE DEF a
  <2>2. /\ a \in Seq(S) /\ Len(a) = IF 1 <= i - 1 THEN (i - 1) - 1 + 1 ELSE 0
        /\ \A k \in 1..(i - 1) - 1 + 1 : a[k] = s[1 + k - 1]
    BY <1>0, <2>1, SubSeqProperties DEF a
  <2> QED
    BY <1>0, <2>2
<1>2. /\ b \in Seq(S) /\ Len(b) = Len(s) - i
      /\ \A k \in 1..Len(s) - i : b[k] = s[i + k]
  <2>1. \A k \in (i + 1)..Len(s) : s[k] \in S
    BY <1>0
  <2> HIDE DEF b
  <2>2. /\ b \in Seq(S) /\ Len(b) = IF i + 1 <= Len(s) THEN Len(s) - (i + 1) + 1 ELSE 0
        /\ \A k \in 1..Len(s) - (i + 1) + 1 : b[k] = s[(i + 1) + k - 1]
    BY <1>0, <2>1, SubSeqProperties DEF b
  <2> QED
    BY <1>0, <2>2
<1>3. RemoveAt(s, i) = a \o b
  BY DEF RemoveAt
<1> HIDE DEF a, b
<1>4. /\ a \o b \in Seq(S) /\ Len(a \o b) = Len(a) + Len(b)
      /\ \A j \in 1..Len(a) + Len(b) :
            (a \o b)[j] = IF j <= Len(a) THEN a[j] ELSE b[j - Len(a)]
  BY <1>1, <1>2, ConcatProperties
<1> QED
  BY <1>0, <1>1, <1>2, <1>3, <1>4

\* What std::vector::resize leaves.
LEMMA ResizedProperties ==
    ASSUME NEW S, NEW s \in Seq(S), NEW n \in Nat, NEW e \in S
    PROVE  /\ Resized(s, n, e) \in Seq(S) /\ Len(Resized(s, n, e)) = n
           /\ \A i \in 1..n : Resized(s, n, e)[i] = IF i <= Len(s) THEN s[i] ELSE e
<1>1. \A i \in 1..n : (IF i <= Len(s) THEN s[i] ELSE e) \in S
  BY LenProperties, ElementOfSeq
<1>2. Resized(s, n, e) \in [1..n -> S]
  BY <1>1 DEF Resized
<1> QED
  BY <1>2, FunctionIsSeq DEF Resized
-----------------------------------------------------------------------------
Matrix == Seq(Seq(Cell))
Covers(sh, co, m) ==
    /\ Len(m) >= Len(co)
    /\ \A r \in DOMAIN m : Len(m[r]) >= Len(sh)

\* The inductive invariant: types, and the cells the iterators rely on.
TableInv == ConfTypeOK /\ MatrixCoversTable

LEMMA EmptyCellIsCell == EmptyCell \in Cell
  BY DEF EmptyCell, Cell

\* A matrix of the same shape whose cells are given one by one.
CellByCell(m, m2) ==
    /\ m2 = [r \in DOMAIN m |-> m2[r]]
    /\ \A r \in DOMAIN m : /\ m2[r] = [c \in DOMAIN m[r] |-> m2[r][c]]
                           /\ \A c \in DOMAIN m[r] : m2[r][c] \in Cell
LEMMA SameShape ==
    ASSUME NEW m \in Matrix, NEW m2, CellByCell(m, m2)
    PROVE  /\ m2 \in Matrix /\ Len(m2) = Len(m)
           /\ \A r \in DOMAIN m : Len(m2[r]) = Len(m[r])
<1>1. DOMAIN m = 1..Len(m) /\ Len(m) \in Nat /\ (\A r \in DOMAIN m : m[r] \in Seq(Cell))
  BY LenProperties, ElementOfSeq DEF Matrix
<1>2. ASSUME NEW r \in DOMAIN m
      PROVE  m2[r] \in Seq(Cell) /\ Len(m2[r]) = Len(m[r])
  <2>1. DOMAIN m[r] = 1..Len(m[r]) /\ Len(m[r]) \in Nat
    BY <1>1, LenProperties
  <2>2. m2[r] \in [1..Len(m[r]) -> Cell]
    BY <2>1 DEF CellByCell
  <2> QED
    BY <2>1, <2>2, FunctionIsSeq
<1>3. m2 \in [1..Len(m) -> Seq(Cell)]
  BY <1>1, <1>2 DEF CellByCell
<1> QED
  BY <1>1, <1>2, <1>3, FunctionIsSeq DEF Matrix

\* calculateCellsState and calculateCellsValues change nothing but flags.
LEMMA CellsStateKeeps ==
    ASSUME NEW sh \in Seq(Shop), NEW co \in Seq(BOOLEAN), NEW m \in Matrix
    PROVE  LET m2 == CellsState(sh, co, m)
           IN  /\ m2 \in Matrix /\ Len(m2) = Len(m)
               /\ \A r \in DOMAIN m : Len(m2[r]) = Len(m[r])
<1> DEFINE m2 == CellsState(sh, co, m)
<1>1. /\ m2 = [r \in DOMAIN m |-> m2[r]]
      /\ \A r \in DOMAIN m : m2[r] = [c \in DOMAIN m[r] |-> m2[r][c]]
  BY DEF CellsState
<1>2. ASSUME NEW r \in DOMAIN m, NEW c \in DOMAIN m[r] PROVE m2[r][c] \in Cell
  <2>1. m[r][c] \in Cell
    BY LenProperties, ElementOfSeq DEF Matrix
  <2>2. ASSUME <<r, c>> \in Shown(sh, co)
        PROVE  (sh[c].active /\ co[r]) \in BOOLEAN
    OBVIOUS
  <2>3. \A b \in BOOLEAN : [m[r][c] EXCEPT !.active = b] \in Cell
    BY <2>1 DEF Cell
  <2> QED
    BY <2>1, <2>2, <2>3 DEF CellsState
<1> HIDE DEF m2
<1>2a. CellByCell(m, m2)
  BY <1>1, <1>2 DEF CellByCell
<1>3. /\ m2 \in Matrix /\ Len(m2) = Len(m)
      /\ \A r \in DOMAIN m : Len(m2[r]) = Len(m[r])
  BY <1>2a, SameShape
<1> QED
  BY <1>3 DEF m2

LEMMA CellsValuesKeeps ==
    ASSUME NEW sh \in Seq(Shop), NEW co \in Seq(BOOLEAN), NEW m \in Matrix
    PROVE  LET m2 == CellsValues(sh, co, m)
           IN  /\ m2 \in Matrix /\ Len(m2) = Len(m)
               /\ \A r \in DOMAIN m : Len(m2[r]) = Len(m[r])
<1> DEFINE m2 == CellsValues(sh, co, m)
<1>1. /\ m2 = [r \in DOMAIN m |-> m2[r]]
      /\ \A r \in DOMAIN m : m2[r] = [c \in DOMAIN m[r] |-> m2[r][c]]
  BY DEF CellsValues
<1>2. ASSUME NEW r \in DOMAIN m, NEW c \in DOMAIN m[r] PROVE m2[r][c] \in Cell
  <2>1. m[r][c] \in Cell
    BY LenProperties, ElementOfSeq DEF Matrix
  <2>2. \A C : IsFirst(c, C) \in BOOLEAN
    BY DEF IsFirst
  <2>3. \A b, w \in BOOLEAN : [m[r][c] EXCEPT !.best = b, !.worst = w] \in Cell
    BY <2>1 DEF Cell
  <2> DEFINE row  == ShownRow(m[r], sh)
             low  == Lowest(row)
             high == Highest(row)
  <2>4. m2[r][c] = IF <<r, c>> \in Shown(sh, co)
                   THEN [m[r][c] EXCEPT !.best = IsFirst(c, low), !.worst = IsFirst(c, high)]
                   ELSE m[r][c]
    BY DEF CellsValues
  <2> HIDE DEF m2, low, high
  <2>5. IsFirst(c, low) \in BOOLEAN /\ IsFirst(c, high) \in BOOLEAN
    BY <2>2
  <2> QED
    BY <2>1, <2>3, <2>4, <2>5
<1> HIDE DEF m2
<1>2a. CellByCell(m, m2)
  BY <1>1, <1>2 DEF CellByCell
<1>3. /\ m2 \in Matrix /\ Len(m2) = Len(m)
      /\ \A r \in DOMAIN m : Len(m2[r]) = Len(m[r])
  BY <1>2a, SameShape
<1> QED
  BY <1>3 DEF m2

\* processHeaders keeps the invariant of what it is given.
LEMMA ProcessHeadersKeeps ==
    ASSUME NEW sh \in Seq(Shop), NEW co \in Seq(BOOLEAN), NEW m \in Matrix,
           Covers(sh, co, m), ProcessHeaders(sh, co, m), reading' \in BOOLEAN
    PROVE  TableInv'
<1> DEFINE m1 == CellsState(sh, co, m)
           m2 == CellsValues(sh, co, m1)
<1>1. m1 \in Matrix /\ Len(m1) = Len(m) /\ (\A r \in DOMAIN m : Len(m1[r]) = Len(m[r]))
  BY CellsStateKeeps
<1>1a. DOMAIN m1 = DOMAIN m
  BY <1>1, LenProperties DEF Matrix
<1>2. shops' = sh /\ comps' = co /\ matrix' = m2
  BY DEF ProcessHeaders
<1> HIDE DEF m1
<1>3. m2 \in Matrix /\ Len(m2) = Len(m1) /\ (\A r \in DOMAIN m1 : Len(m2[r]) = Len(m1[r]))
  BY <1>1, CellsValuesKeeps
<1>3a. DOMAIN m2 = DOMAIN m1
  BY <1>1, <1>3, LenProperties DEF Matrix
<1> HIDE DEF m2
<1>4. ConfTypeOK'
  BY <1>2, <1>3 DEF ConfTypeOK, Matrix
<1>5. MatrixCoversTable'
  BY <1>1, <1>1a, <1>2, <1>3, <1>3a DEF MatrixCoversTable, Covers
<1> QED
  BY <1>4, <1>5 DEF TableInv
-----------------------------------------------------------------------------
LEMMA ShopsListKeeps ==
    ASSUME NEW sh \in Seq(Shop)
    PROVE  /\ ShopsListUpdated(sh) \in Seq(Shop)
           /\ Len(ShopsListUpdated(sh)) = Len(sh)
           /\ DOMAIN ShopsListUpdated(sh) = DOMAIN sh
<1>1. DOMAIN sh = 1..Len(sh) /\ Len(sh) \in Nat /\ (\A i \in DOMAIN sh : sh[i] \in Shop)
  BY LenProperties, ElementOfSeq
<1>2. ASSUME NEW i \in DOMAIN sh
      PROVE  [sh[i] EXCEPT !.available = ({NoName} \cup Plugins) \ OtherNames(sh, i)] \in Shop
  BY <1>1 DEF Shop
<1>3. ShopsListUpdated(sh) \in [1..Len(sh) -> Shop]
  BY <1>1, <1>2 DEF ShopsListUpdated
<1> QED
  BY <1>1, <1>3, FunctionIsSeq

LEMMA ColumnInsertedKeeps ==
    ASSUME NEW sh \in Seq(Shop), NEW b \in BOOLEAN
    PROVE  /\ ColumnInserted(sh, b) \in Seq(Shop)
           /\ Len(ColumnInserted(sh, b)) = Len(sh) + 1
<1>1. NewShop(b) \in Shop
  BY DEF NewShop, Shop, ShopName
<1>2. Append(sh, NewShop(b)) \in Seq(Shop) /\ Len(Append(sh, NewShop(b))) = Len(sh) + 1
  BY <1>1, AppendProperties
<1> QED
  BY <1>2, ShopsListKeeps DEF ColumnInserted

\* The rows of the matrix are resized, new ones being empty.
LEMMA RowsResized ==
    ASSUME NEW m \in Matrix, NEW n \in Nat
    PROVE  /\ Resized(m, n, << >>) \in Matrix /\ Len(Resized(m, n, << >>)) = n
           /\ \A r \in 1..n : Resized(m, n, << >>)[r] = IF r <= Len(m) THEN m[r] ELSE << >>
<1> DEFINE e == << >>
           Row == Seq(Cell)
<1>1. e \in Row /\ m \in Seq(Row)
  BY EmptySeq DEF Matrix
<1> HIDE DEF e, Row
<1>2. /\ Resized(m, n, e) \in Seq(Row) /\ Len(Resized(m, n, e)) = n
      /\ \A r \in 1..n : Resized(m, n, e)[r] = IF r <= Len(m) THEN m[r] ELSE e
  BY <1>1, ResizedProperties
<1> QED
  BY <1>2 DEF Matrix, e, Row

\* A row of the matrix is resized.
LEMMA RowResized ==
    ASSUME NEW row \in Seq(Cell), NEW n \in Nat
    PROVE  /\ Resized(row, n, EmptyCell) \in Seq(Cell)
           /\ Len(Resized(row, n, EmptyCell)) = n
           /\ \A c \in 1..n :
                Resized(row, n, EmptyCell)[c] = IF c <= Len(row) THEN row[c] ELSE EmptyCell
  BY EmptyCellIsCell, ResizedProperties

LEMMA MatrixResizedProperties ==
    ASSUME NEW m \in Matrix, NEW rows \in Nat, NEW cols \in Nat
    PROVE  /\ MatrixResized(m, rows, cols) \in Matrix
           /\ Len(MatrixResized(m, rows, cols)) = rows
           /\ \A r \in 1..rows : Len(MatrixResized(m, rows, cols)[r]) = cols
<1> DEFINE m1 == Resized(m, rows, << >>)
<1>1. m1 \in Matrix /\ Len(m1) = rows
  BY RowsResized
<1> HIDE DEF m1
<1>2. ASSUME NEW r \in 1..rows
      PROVE  /\ Resized(m1[r], cols, EmptyCell) \in Seq(Cell)
             /\ Len(Resized(m1[r], cols, EmptyCell)) = cols
  <2>1. m1[r] \in Seq(Cell)
    BY <1>1, ElementOfSeq DEF Matrix
  <2> QED
    BY <2>1, RowResized
<1>3. MatrixResized(m, rows, cols) = [r \in 1..rows |-> Resized(m1[r], cols, EmptyCell)]
  BY DEF MatrixResized, m1
<1>4. MatrixResized(m, rows, cols) \in [1..rows -> Seq(Cell)]
  BY <1>2, <1>3
<1> QED
  BY <1>2, <1>3, <1>4, FunctionIsSeq DEF Matrix

\* removeColumns erases inside every row, and leaves a cell for every shop.
LEMMA RemoveColumnsKeeps ==
    ASSUME TableInv, NEW column \in Nat, column < Len(shops)
    PROVE  LET m == MatrixAfterRemoveColumns(column)
           IN  /\ m \in Matrix /\ Len(m) = Len(comps)
               /\ \A r \in DOMAIN m : Len(m[r]) >= Len(shops) - 1
<1> DEFINE m1 == Resized(matrix, Len(comps), << >>)
           m  == MatrixAfterRemoveColumns(column)
<1>1. /\ matrix \in Matrix /\ Len(matrix) \in Nat /\ DOMAIN matrix = 1..Len(matrix)
      /\ Len(comps) \in Nat /\ Len(comps) <= Len(matrix) /\ Len(shops) \in Nat
  BY LenProperties DEF TableInv, ConfTypeOK, MatrixCoversTable, Matrix
<1>2. /\ m1 \in Matrix /\ Len(m1) = Len(comps)
      /\ \A r \in 1..Len(comps) : m1[r] = matrix[r]
  <2>1. /\ m1 \in Matrix /\ Len(m1) = Len(comps)
        /\ \A r \in 1..Len(comps) : m1[r] = IF r <= Len(matrix) THEN matrix[r] ELSE << >>
    BY <1>1, RowsResized
  <2>2. \A r \in 1..Len(comps) : r <= Len(matrix)
    BY <1>1
  <2> QED
    BY <2>1, <2>2
<1>3. DOMAIN m1 = 1..Len(comps)
  BY <1>2, LenProperties DEF Matrix
<1> HIDE DEF m1
<1>4. ASSUME NEW r \in 1..Len(comps)
      PROVE  /\ RemoveAt(m1[r], column + 1) \in Seq(Cell)
             /\ Len(RemoveAt(m1[r], column + 1)) >= Len(shops) - 1
  <2>1. m1[r] \in Seq(Cell) /\ Len(m1[r]) \in Nat
    BY <1>2, ElementOfSeq, LenProperties DEF Matrix
  <2>2. Len(m1[r]) >= Len(shops)
    BY <1>1, <1>2 DEF TableInv, MatrixCoversTable
  <2>3. column + 1 \in 1..Len(m1[r])
    BY <1>1, <2>1, <2>2
  <2> QED
    BY <1>1, <2>1, <2>2, <2>3, RemoveAtProperties
<1>5. m = [r \in 1..Len(comps) |-> RemoveAt(m1[r], column + 1)]
  BY <1>3 DEF MatrixAfterRemoveColumns, CellsErased, m1
<1> HIDE DEF m
<1>6. m \in [1..Len(comps) -> Seq(Cell)]
  BY <1>4, <1>5
<1>7. m \in Matrix /\ Len(m) = Len(comps) /\ DOMAIN m = 1..Len(comps)
  BY <1>1, <1>6, FunctionIsSeq DEF Matrix
<1>8. \A r \in DOMAIN m : Len(m[r]) >= Len(shops) - 1
  BY <1>4, <1>5, <1>7
<1> QED
  BY <1>7, <1>8 DEF m

LEMMA RemoveRowsKeeps ==
    ASSUME NEW m \in Matrix, m # << >>
    PROVE  /\ MatrixAfterRemoveRows(m) \in Matrix
           /\ Len(MatrixAfterRemoveRows(m)) = Len(m) - 1
           /\ \A r \in DOMAIN MatrixAfterRemoveRows(m) :
                r + 1 \in DOMAIN m /\ MatrixAfterRemoveRows(m)[r] = m[r + 1]
<1>1. /\ Tail(m) \in Matrix /\ Len(Tail(m)) = Len(m) - 1
      /\ \A r \in 1..Len(Tail(m)) : Tail(m)[r] = m[r + 1]
  BY HeadTailProperties DEF Matrix
<1>2. DOMAIN Tail(m) = 1..Len(Tail(m)) /\ DOMAIN m = 1..Len(m) /\ Len(m) \in Nat
  BY <1>1, LenProperties DEF Matrix
<1>3. MatrixAfterRemoveRows(m) = Tail(m)
  BY DEF MatrixAfterRemoveRows
<1> QED
  BY <1>1, <1>2, <1>3
-----------------------------------------------------------------------------
LEMMA TableFacts ==
    ASSUME TableInv
    PROVE  /\ shops \in Seq(Shop) /\ Len(shops) \in Nat /\ DOMAIN shops = 1..Len(shops)
           /\ comps \in Seq(BOOLEAN) /\ Len(comps) \in Nat /\ DOMAIN comps = 1..Len(comps)
           /\ matrix \in Matrix /\ Len(matrix) \in Nat /\ DOMAIN matrix = 1..Len(matrix)
           /\ reading \in BOOLEAN /\ Covers(shops, comps, matrix)
           /\ \A r \in DOMAIN matrix : /\ matrix[r] \in Seq(Cell) /\ Len(matrix[r]) \in Nat
                                       /\ DOMAIN matrix[r] = 1..Len(matrix[r])
           /\ \A i \in DOMAIN shops : shops[i] \in Shop
<1>1. shops \in Seq(Shop) /\ Len(shops) \in Nat /\ DOMAIN shops = 1..Len(shops)
  BY LenProperties DEF TableInv, ConfTypeOK
<1>2. comps \in Seq(BOOLEAN) /\ Len(comps) \in Nat /\ DOMAIN comps = 1..Len(comps)
  BY LenProperties DEF TableInv, ConfTypeOK
<1>3. matrix \in Matrix /\ Len(matrix) \in Nat /\ DOMAIN matrix = 1..Len(matrix)
  BY LenProperties DEF TableInv, ConfTypeOK, Matrix
<1>4. reading \in BOOLEAN /\ Covers(shops, comps, matrix)
  BY DEF TableInv, ConfTypeOK, MatrixCoversTable, Covers
<1>5. ASSUME NEW r \in DOMAIN matrix
      PROVE  /\ matrix[r] \in Seq(Cell) /\ Len(matrix[r]) \in Nat
             /\ DOMAIN matrix[r] = 1..Len(matrix[r])
  <2>1. matrix[r] \in Seq(Cell)
    BY <1>3, ElementOfSeq DEF Matrix
  <2> QED
    BY <2>1, LenProperties
<1>6. \A i \in DOMAIN shops : shops[i] \in Shop
  BY <1>1, ElementOfSeq
<1> QED
  BY <1>1, <1>2, <1>3, <1>4, <1>5, <1>6

\* The matrix after an insertion has a cell for every component and shop.
LEMMA Inserted ==
    ASSUME TableInv
    PROVE  /\ MatrixAfterInsertColumn \in Matrix /\ MatrixAfterInsertRow \in Matrix
           /\ Len(MatrixAfterInsertColumn) = Len(comps) + 1
           /\ Len(MatrixAfterInsertRow) = Len(comps) + 1
           /\ \A r \in 1..Len(comps) + 1 :
                /\ Len(MatrixAfterInsertColumn[r]) = Len(shops) + 1
                /\ Len(MatrixAfterInsertRow[r]) = Len(shops)
<1> DEFINE rows == Len(comps) + 1
           cols == Len(shops)
           cols1 == Len(shops) + 1
<1>1. matrix \in Matrix /\ rows \in Nat /\ cols \in Nat /\ cols1 \in Nat
  BY TableFacts
<1>2. /\ MatrixAfterInsertColumn = MatrixResized(matrix, rows, cols1)
      /\ MatrixAfterInsertRow = MatrixResized(matrix, rows, cols)
  BY DEF MatrixAfterInsertColumn, MatrixAfterInsertRow
<1> HIDE DEF rows, cols, cols1
<1>3. \A n \in Nat :
        /\ MatrixResized(matrix, rows, n) \in Matrix
        /\ Len(MatrixResized(matrix, rows, n)) = rows
        /\ \A r \in 1..rows : Len(MatrixResized(matrix, rows, n)[r]) = n
  BY <1>1, MatrixResizedProperties
<1> QED
  BY <1>1, <1>2, <1>3 DEF rows, cols, cols1

LEMMA AddShopKeeps == TableInv /\ AddShop => TableInv'
<1> SUFFICES ASSUME TableInv, AddShop PROVE TableInv'
  OBVIOUS
<1>1. PICK b \in BOOLEAN : shops' = ColumnInserted(shops, b)
  BY DEF AddShop
<1>2. shops' \in Seq(Shop) /\ Len(shops') = Len(shops) + 1
  BY <1>1, TableFacts, ColumnInsertedKeeps
<1>3. /\ matrix' \in Matrix /\ Len(matrix') = Len(comps) + 1
      /\ \A r \in 1..Len(comps) + 1 : Len(matrix'[r]) = Len(shops) + 1
  BY Inserted DEF AddShop
<1>4. DOMAIN matrix' = 1..Len(comps) + 1
  BY <1>3, LenProperties DEF Matrix
<1>5. ConfTypeOK'
  BY <1>2, <1>3, TableFacts DEF ConfTypeOK, Matrix, AddShop
<1>6. MatrixCoversTable'
  BY <1>2, <1>3, <1>4, TableFacts DEF MatrixCoversTable, AddShop
<1> QED
  BY <1>5, <1>6 DEF TableInv

LEMMA AddCompKeeps == TableInv /\ AddComp => TableInv'
<1> SUFFICES ASSUME TableInv, AddComp PROVE TableInv'
  OBVIOUS
<1>1. PICK b \in BOOLEAN : comps' = Append(comps, b)
  BY DEF AddComp
<1>2. comps' \in Seq(BOOLEAN) /\ Len(comps') = Len(comps) + 1
  BY <1>1, TableFacts, AppendProperties
<1>3. /\ matrix' \in Matrix /\ Len(matrix') = Len(comps) + 1
      /\ \A r \in 1..Len(comps) + 1 : Len(matrix'[r]) = Len(shops)
  BY Inserted DEF AddComp
<1>4. DOMAIN matrix' = 1..Len(comps) + 1
  BY <1>3, LenProperties DEF Matrix
<1>5. ConfTypeOK'
  BY <1>2, <1>3, TableFacts DEF ConfTypeOK, Matrix, AddComp
<1>6. MatrixCoversTable'
  BY <1>2, <1>3, <1>4, TableFacts DEF MatrixCoversTable, AddComp
<1> QED
  BY <1>5, <1>6 DEF TableInv

LEMMA RemShopKeeps ==
    ASSUME TableInv, NEW column \in DOMAIN shops, RemShop(column)
    PROVE  TableInv'
<1>1. column \in 1..Len(shops) /\ column \in Nat /\ column < Len(shops)
  BY TableFacts DEF RemShop
<1>2. RemoveAt(shops, column) \in Seq(Shop) /\ Len(RemoveAt(shops, column)) = Len(shops) - 1
  BY <1>1, TableFacts, RemoveAtProperties
<1>3. shops' \in Seq(Shop) /\ Len(shops') = Len(shops) - 1
  BY <1>2, ShopsListKeeps DEF RemShop
<1>4. /\ matrix' \in Matrix /\ Len(matrix') = Len(comps)
      /\ \A r \in DOMAIN matrix' : Len(matrix'[r]) >= Len(shops) - 1
  BY <1>1, RemoveColumnsKeeps DEF RemShop
<1>5. ConfTypeOK'
  BY <1>3, <1>4, TableFacts DEF ConfTypeOK, Matrix, RemShop
<1>6. MatrixCoversTable'
  BY <1>3, <1>4, TableFacts DEF MatrixCoversTable, RemShop
<1> QED
  BY <1>5, <1>6 DEF TableInv

LEMMA RemCompKeeps ==
    ASSUME TableInv, NEW row \in DOMAIN comps, RemComp(row)
    PROVE  TableInv'
<1>1. row \in 1..Len(comps) /\ Len(comps) <= Len(matrix)
  BY TableFacts DEF Covers
<1>2. matrix # << >>
  BY <1>1, TableFacts, EmptySeq
<1>3. comps' \in Seq(BOOLEAN) /\ Len(comps') = Len(comps) - 1
  BY <1>1, TableFacts, RemoveAtProperties DEF RemComp
<1>4. /\ matrix' \in Matrix /\ Len(matrix') = Len(matrix) - 1
      /\ \A r \in DOMAIN matrix' : r + 1 \in DOMAIN matrix /\ matrix'[r] = matrix[r + 1]
  BY <1>2, TableFacts, RemoveRowsKeeps DEF RemComp
<1>5. ConfTypeOK'
  BY <1>3, <1>4, TableFacts DEF ConfTypeOK, Matrix, RemComp
<1>6. MatrixCoversTable'
  BY <1>1, <1>3, <1>4, TableFacts DEF MatrixCoversTable, Covers, RemComp
<1> QED
  BY <1>5, <1>6 DEF TableInv

LEMMA ResetKeeps == TableInv /\ Reset /\ reading' \in BOOLEAN => TableInv'
<1> SUFFICES ASSUME TableInv, Reset, reading' \in BOOLEAN PROVE TableInv'
  OBVIOUS
<1> DEFINE m == IF shops = << >> THEN matrix ELSE MatrixAfterRemoveColumns(0)
<1>1. m \in Matrix
  <2>1. CASE shops = << >>
    BY <2>1, TableFacts
  <2>2. CASE shops # << >>
    <3>1. 0 < Len(shops)
      BY <2>2, TableFacts, EmptySeq
    <3> QED
      BY <2>2, <3>1, RemoveColumnsKeeps
  <2> QED
    BY <2>1, <2>2
<1>2. matrix' = IF comps = << >> THEN m ELSE MatrixAfterRemoveRows(m)
  BY DEF Reset
<1> HIDE DEF m
<1>3. matrix' \in Matrix
  <2>1. CASE m = << >>
    BY <1>1, <1>2, <2>1 DEF MatrixAfterRemoveRows
  <2>2. CASE m # << >>
    BY <1>1, <1>2, <2>2, RemoveRowsKeeps
  <2> QED
    BY <2>1, <2>2
<1>4. /\ shops' = << >> /\ comps' = << >>
      /\ shops' \in Seq(Shop) /\ comps' \in Seq(BOOLEAN) /\ Len(shops') = 0 /\ Len(comps') = 0
  BY EmptySeq DEF Reset
<1>5. Len(matrix') \in Nat /\ (\A r \in DOMAIN matrix' : Len(matrix'[r]) \in Nat)
  <2>1. ASSUME NEW r \in DOMAIN matrix' PROVE matrix'[r] \in Seq(Cell)
    BY <1>3, LenProperties, ElementOfSeq DEF Matrix
  <2> QED
    BY <1>3, <2>1, LenProperties DEF Matrix
<1> QED
  BY <1>3, <1>4, <1>5 DEF TableInv, ConfTypeOK, MatrixCoversTable, Matrix

\* One cell is given a value.
LEMMA CellSet ==
    ASSUME TableInv, NEW r \in DOMAIN comps, NEW c \in DOMAIN shops, NEW cell \in Cell
    PROVE  LET m == [matrix EXCEPT ![r] = [@ EXCEPT ![c] = cell]]
           IN  m \in Matrix /\ Covers(shops, comps, m)
<1> DEFINE row == [matrix[r] EXCEPT ![c] = cell]
           m   == [matrix EXCEPT ![r] = row]
<1>1. r \in 1..Len(matrix) /\ c \in 1..Len(matrix[r]) /\ matrix[r] \in Seq(Cell)
  BY TableFacts DEF Covers
<1>2. row \in Seq(Cell) /\ Len(row) = Len(matrix[r])
  BY <1>1, ExceptSeq
<1> HIDE DEF row
<1>3. /\ m \in Matrix /\ Len(m) = Len(matrix)
      /\ \A j \in 1..Len(matrix) : m[j] = IF j = r THEN row ELSE matrix[j]
  <2> DEFINE Row == Seq(Cell)
  <2>1. matrix \in Seq(Row) /\ row \in Row
    BY <1>2, TableFacts DEF Matrix
  <2> HIDE DEF Row
  <2>2. /\ m \in Seq(Row) /\ Len(m) = Len(matrix)
        /\ \A j \in 1..Len(matrix) : m[j] = IF j = r THEN row ELSE matrix[j]
    BY <1>1, <2>1, ExceptSeq
  <2> QED
    BY <2>2 DEF Matrix, Row
<1>4. DOMAIN m = DOMAIN matrix
  OBVIOUS
<1>5. Covers(shops, comps, m)
  BY <1>2, <1>3, <1>4, TableFacts DEF Covers
<1> QED
  BY <1>3, <1>5 DEF m, row

LEMMA SetCellKeeps ==
    ASSUME TableInv, NEW r \in DOMAIN comps, NEW c \in DOMAIN shops,
           \/ \E price \in Prices : SetPrice(r, c, price)
           \/ \E b \in BOOLEAN : SetRefreshing(r, c, b)
    PROVE  TableInv'
<1>1. matrix[r][c] \in Cell
  <2>1. r \in DOMAIN matrix /\ c \in 1..Len(matrix[r])
    BY TableFacts DEF Covers
  <2> QED
    BY <2>1, TableFacts, ElementOfSeq
<1>2. PICK cell \in Cell :
        ProcessHeaders(shops, comps, [matrix EXCEPT ![r] = [@ EXCEPT ![c] = cell]])
  <2>1. CASE \E price \in Prices : SetPrice(r, c, price)
    <3>1. PICK price \in Prices : SetPrice(r, c, price)
      BY <2>1
    <3>2. [matrix[r][c] EXCEPT !.price = price] \in Cell
      BY <1>1, <3>1, TableAssumption DEF Cell
    <3> QED
      BY <3>1, <3>2 DEF SetPrice
  <2>2. CASE \E b \in BOOLEAN : SetRefreshing(r, c, b)
    <3>1. PICK b \in BOOLEAN : SetRefreshing(r, c, b)
      BY <2>2
    <3>2. [matrix[r][c] EXCEPT !.refreshing = b] \in Cell
      BY <1>1, <3>1 DEF Cell
    <3> QED
      BY <3>1, <3>2 DEF SetRefreshing
  <2> QED
    BY <2>1, <2>2
<1> DEFINE m == [matrix EXCEPT ![r] = [@ EXCEPT ![c] = cell]]
<1>3. m \in Matrix /\ Covers(shops, comps, m)
  BY CellSet
<1>4. reading' \in BOOLEAN
  BY TableFacts DEF SetPrice, SetRefreshing
<1>5. ProcessHeaders(shops, comps, m)
  BY <1>2
<1> HIDE DEF m
<1> QED
  BY <1>3, <1>4, <1>5, TableFacts, ProcessHeadersKeeps

LEMMA ActivateKeeps ==
    ASSUME TableInv, NEW b \in BOOLEAN,
           \/ \E S \in Sections(shops) : ActivateShops(S, b)
           \/ \E S \in Sections(comps) : ActivateComps(S, b)
    PROVE  TableInv'
<1>1. CASE \E S \in Sections(shops) : ActivateShops(S, b)
  <2>1. PICK S : ActivateShops(S, b)
    BY <1>1
  <2> DEFINE sh == [c \in DOMAIN shops |->
                      IF c \in S THEN [shops[c] EXCEPT !.active = b] ELSE shops[c]]
  <2>2. \A c \in DOMAIN shops : [shops[c] EXCEPT !.active = b] \in Shop
    BY TableFacts DEF Shop
  <2>3. sh \in [1..Len(shops) -> Shop]
    BY <2>2, TableFacts
  <2>4. ProcessHeaders(sh, comps, matrix) /\ reading' \in BOOLEAN
    BY <2>1, TableFacts DEF ActivateShops
  <2> HIDE DEF sh
  <2>5. sh \in Seq(Shop) /\ Len(sh) = Len(shops)
    BY <2>3, TableFacts, FunctionIsSeq
  <2>6. Covers(sh, comps, matrix)
    BY <2>5, TableFacts DEF Covers
  <2> QED
    BY <2>4, <2>5, <2>6, TableFacts, ProcessHeadersKeeps
<1>2. CASE \E S \in Sections(comps) : ActivateComps(S, b)
  <2>1. PICK S : ActivateComps(S, b)
    BY <1>2
  <2> DEFINE co == [r \in DOMAIN comps |-> IF r \in S THEN b ELSE comps[r]]
  <2>2. co \in [1..Len(comps) -> BOOLEAN]
    BY TableFacts, ElementOfSeq
  <2>3. ProcessHeaders(shops, co, matrix) /\ reading' \in BOOLEAN
    BY <2>1, TableFacts DEF ActivateComps
  <2> HIDE DEF co
  <2>4. co \in Seq(BOOLEAN) /\ Len(co) = Len(comps)
    BY <2>2, TableFacts, FunctionIsSeq
  <2>5. Covers(shops, co, matrix)
    BY <2>4, TableFacts DEF Covers
  <2> QED
    BY <2>3, <2>4, <2>5, TableFacts, ProcessHeadersKeeps
<1> QED
  BY <1>1, <1>2

\* A column is named.
LEMMA Named ==
    ASSUME NEW sh \in Seq(Shop), NEW c \in 1..Len(sh), NEW name \in ShopName
    PROVE  LET sh2 == ShopsListUpdated([sh EXCEPT ![c].name = name])
           IN  sh2 \in Seq(Shop) /\ Len(sh2) = Len(sh)
<1>0. sh[c] \in Shop
  BY ElementOfSeq
<1>1. [sh[c] EXCEPT !.name = name] \in Shop
  BY <1>0 DEF Shop
<1>2. /\ [sh EXCEPT ![c].name = name] \in Seq(Shop)
      /\ Len([sh EXCEPT ![c].name = name]) = Len(sh)
  BY <1>1, ExceptSeq
<1> QED
  BY <1>2, ShopsListKeeps

LEMMA RenameShopKeeps ==
    ASSUME TableInv, NEW c \in DOMAIN shops, NEW name \in Plugins \cup {NoName},
           RenameShop(c, name)
    PROVE  TableInv'
<1> DEFINE sh == ShopsListUpdated([shops EXCEPT ![c].name = name])
<1>1. sh \in Seq(Shop) /\ Len(sh) = Len(shops)
  BY TableFacts, Named DEF ShopName
<1>2. ProcessHeaders(sh, comps, matrix) /\ reading' \in BOOLEAN
  BY TableFacts DEF RenameShop
<1> HIDE DEF sh
<1>3. Covers(sh, comps, matrix)
  BY <1>1, TableFacts DEF Covers
<1> QED
  BY <1>1, <1>2, <1>3, TableFacts, ProcessHeadersKeeps

LEMMA ReadShopKeeps ==
    ASSUME TableInv, NEW b \in BOOLEAN, NEW name \in Plugins \cup {Blank},
           ReadShop(name, b)
    PROVE  TableInv'
<1> DEFINE n  == Len(shops) + 1
           si == ColumnInserted(shops, b)
           sh == ShopsListUpdated([si EXCEPT ![n].name = name])
           m  == MatrixAfterInsertColumn
<1>1. si \in Seq(Shop) /\ Len(si) = n /\ n \in 1..n
  BY TableFacts, ColumnInsertedKeeps
<1>2. ProcessHeaders(sh, comps, m) /\ reading' \in BOOLEAN
  BY TableFacts DEF ReadShop
<1> HIDE DEF si
<1>3. sh \in Seq(Shop) /\ Len(sh) = Len(shops) + 1
  BY <1>1, Named DEF ShopName
<1>4. /\ m \in Matrix /\ Len(m) = Len(comps) + 1
      /\ \A r \in 1..Len(comps) + 1 : Len(m[r]) = Len(shops) + 1
  BY Inserted
<1> HIDE DEF sh, m
<1>5. Covers(sh, comps, m)
  BY <1>3, <1>4, TableFacts, LenProperties DEF Covers, Matrix
<1> QED
  BY <1>2, <1>3, <1>4, <1>5, TableFacts, ProcessHeadersKeeps

LEMMA ReadComponentKeeps ==
    ASSUME TableInv, NEW b \in BOOLEAN, ReadComponent(b)
    PROVE  TableInv'
<1>0. PICK prices \in [DOMAIN shops -> Prices] :
        LET n == Len(comps) + 1
            m == [MatrixAfterInsertRow EXCEPT ![n] =
                     [c \in DOMAIN shops |-> [@[c] EXCEPT !.price = prices[c]]]]
        IN  ProcessHeaders(shops, Append(comps, b), m)
  BY DEF ReadComponent
<1> DEFINE n   == Len(comps) + 1
           mi  == MatrixAfterInsertRow
           row == [c \in DOMAIN shops |-> [mi[n][c] EXCEPT !.price = prices[c]]]
           m   == [mi EXCEPT ![n] = row]
           co  == Append(comps, b)
<1>1. /\ mi \in Matrix /\ Len(mi) = n /\ n \in Nat /\ n \in 1..n
      /\ \A r \in 1..n : Len(mi[r]) = Len(shops)
  BY Inserted, TableFacts
<1>2. ProcessHeaders(shops, co, m) /\ reading' \in BOOLEAN
  BY <1>0, TableFacts DEF ReadComponent
<1>3. co \in Seq(BOOLEAN) /\ Len(co) = n
  BY TableFacts, AppendProperties
<1> HIDE DEF mi, n, co
<1>4. row \in [1..Len(shops) -> Cell]
  <2>1. mi[n] \in Seq(Cell)
    BY <1>1, ElementOfSeq DEF Matrix
  <2>2. ASSUME NEW c \in 1..Len(shops) PROVE [mi[n][c] EXCEPT !.price = prices[c]] \in Cell
    <3>1. mi[n][c] \in Cell
      BY <1>1, <2>1, ElementOfSeq
    <3>2. prices[c] \in Nat
      BY TableFacts, TableAssumption
    <3> QED
      BY <3>1, <3>2 DEF Cell
  <2> QED
    BY <2>2, TableFacts
<1> HIDE DEF row
<1>5. row \in Seq(Cell) /\ Len(row) = Len(shops)
  BY <1>4, TableFacts, FunctionIsSeq
<1>6. /\ m \in Matrix /\ Len(m) = n
      /\ \A r \in 1..n : m[r] = IF r = n THEN row ELSE mi[r]
  <2> DEFINE Row == Seq(Cell)
  <2>1. mi \in Seq(Row) /\ row \in Row
    BY <1>1, <1>5 DEF Matrix
  <2> HIDE DEF Row
  <2>2. /\ m \in Seq(Row) /\ Len(m) = n
        /\ \A r \in 1..n : m[r] = IF r = n THEN row ELSE mi[r]
    BY <1>1, <2>1, ExceptSeq
  <2> QED
    BY <2>2 DEF Matrix, Row
<1> HIDE DEF m
<1>7. Covers(shops, co, m)
  <2>1. DOMAIN m = 1..n
    BY <1>6, LenProperties DEF Matrix
  <2> QED
    BY <1>1, <1>3, <1>5, <1>6, <2>1, TableFacts DEF Covers
<1> QED
  BY <1>2, <1>3, <1>6, <1>7, TableFacts, ProcessHeadersKeeps

\* resetWorseBestFlags changes flags only.
LEMMA ResetFlagsKeeps == TableInv /\ ResetWorseBestFlags => TableInv'
<1> SUFFICES ASSUME TableInv, ResetWorseBestFlags PROVE TableInv'
  OBVIOUS
<1>1. ASSUME NEW r \in DOMAIN matrix, NEW c \in DOMAIN matrix[r]
      PROVE  [matrix[r][c] EXCEPT !.best = FALSE, !.worst = FALSE] \in Cell
  <2>1. matrix[r][c] \in Cell
    BY TableFacts, ElementOfSeq
  <2> QED
    BY <2>1 DEF Cell
<1>2. CellByCell(matrix, matrix')
  BY <1>1 DEF CellByCell, ResetWorseBestFlags
<1>3. /\ matrix' \in Matrix /\ Len(matrix') = Len(matrix)
      /\ \A r \in DOMAIN matrix : Len(matrix'[r]) = Len(matrix[r])
  BY <1>2, TableFacts, SameShape
<1>4. DOMAIN matrix' = DOMAIN matrix
  BY <1>2 DEF CellByCell
<1> QED
  BY <1>3, <1>4, TableFacts
  DEF TableInv, ConfTypeOK, MatrixCoversTable, Covers, Matrix, ResetWorseBestFlags
-----------------------------------------------------------------------------
\* No operation on the table breaks the invariant.
LEMMA TableStep == TableInv /\ [Next]_tableVars => TableInv'
<1> SUFFICES ASSUME TableInv, [Next]_tableVars PROVE TableInv'
  OBVIOUS
<1>1. CASE AddShop
  BY <1>1, AddShopKeeps
<1>2. CASE AddComp
  BY <1>2, AddCompKeeps
<1>3. CASE \E c \in DOMAIN shops : RemShop(c)
  BY <1>3, RemShopKeeps
<1>4. CASE \E r \in DOMAIN comps : RemComp(r)
  BY <1>4, RemCompKeeps
<1>5. CASE NewConf
  BY <1>5, TableFacts, ResetKeeps DEF NewConf
<1>6. CASE OpenConf
  BY <1>6, ResetKeeps DEF OpenConf
<1>7. CASE ReadEnd
  BY <1>7 DEF ReadEnd, TableInv, ConfTypeOK, MatrixCoversTable
<1>8. ASSUME NEW b \in BOOLEAN,
             \/ \E S \in Sections(shops) : ActivateShops(S, b)
             \/ \E S \in Sections(comps) : ActivateComps(S, b)
      PROVE  TableInv'
  BY <1>8, ActivateKeeps
<1>9. CASE \E b \in BOOLEAN, name \in Plugins \cup {Blank} : ReadShop(name, b)
  BY <1>9, ReadShopKeeps
<1>10. CASE \E b \in BOOLEAN : ReadComponent(b)
  BY <1>10, ReadComponentKeeps
<1>11. CASE \E c \in DOMAIN shops, name \in Plugins \cup {NoName} : RenameShop(c, name)
  BY <1>11, RenameShopKeeps
<1>12. CASE \E r \in DOMAIN comps, c \in DOMAIN shops :
              \/ \E price \in Prices : SetPrice(r, c, price)
              \/ \E b \in BOOLEAN : SetRefreshing(r, c, b)
  BY <1>12, SetCellKeeps
<1>13. CASE ResetWorseBestFlags
  BY <1>13, ResetFlagsKeeps
<1>14. CASE UNCHANGED tableVars
  BY <1>14 DEF tableVars, TableInv, ConfTypeOK, MatrixCoversTable
<1> QED
  BY <1>1, <1>2, <1>3, <1>4, <1>5, <1>6, <1>7, <1>8, <1>9, <1>10, <1>11, <1>12, <1>13,
     <1>14 DEF Next

\* The program starts with an empty table.
LEMMA TableInit == Init => TableInv
<1> SUFFICES ASSUME Init PROVE TableInv
  OBVIOUS
<1>1. /\ shops \in Seq(Shop) /\ comps \in Seq(BOOLEAN) /\ matrix \in Seq(Seq(Cell))
      /\ Len(shops) = 0 /\ Len(comps) = 0 /\ Len(matrix) = 0
  BY EmptySeq DEF Init
<1>2. DOMAIN matrix = {}
  BY DEF Init
<1>3. ConfTypeOK
  BY <1>1 DEF Init, ConfTypeOK
<1>4. MatrixCoversTable
  BY <1>1, <1>2 DEF MatrixCoversTable
<1> QED
  BY <1>3, <1>4 DEF TableInv

\* The invariant of the table holds for ever.
THEOREM TableInductive == TableSpec => []TableInv
  BY TableInit, TableStep, PTL DEF TableSpec

\* ConfTypeOK, the types of the table's variables, always holds.
THEOREM TableTypeCorrect == TableSpec => []ConfTypeOK
<1>1. TableInv => ConfTypeOK
  BY DEF TableInv
<1> QED
  BY <1>1, TableInductive, PTL

\* MatrixCoversTable always holds: no index or iterator into vvPricesMatrix
\* leaves it, for any table and any sequence of operations.
THEOREM MatrixAlwaysCovers == TableSpec => []MatrixCoversTable
<1>1. TableInv => MatrixCoversTable
  BY DEF TableInv
<1> QED
  BY <1>1, TableInductive, PTL
-----------------------------------------------------------------------------
\* No plugin is in two columns, and what a column is offered is up to date.
Distinct(sh) ==
    \A i, j \in DOMAIN sh : i # j /\ sh[i].name \in Plugins => sh[j].name # sh[i].name
Offered(sh) ==
    \A i \in DOMAIN sh : sh[i].available = ({NoName} \cup Plugins) \ OtherNames(sh, i)
NamesInv == TableInv /\ Distinct(shops) /\ Offered(shops)

\* updateShopsList leaves the names, and what it offers is up to date.
LEMMA UpdatedOffers ==
    ASSUME NEW sh \in Seq(Shop)
    PROVE  /\ Offered(ShopsListUpdated(sh))
           /\ Distinct(sh) => Distinct(ShopsListUpdated(sh))
<1> DEFINE sh2 == ShopsListUpdated(sh)
<1>1. DOMAIN sh2 = DOMAIN sh
  BY DEF ShopsListUpdated
<1>2. ASSUME NEW i \in DOMAIN sh
      PROVE  /\ sh2[i].name = sh[i].name
             /\ sh2[i].available = ({NoName} \cup Plugins) \ OtherNames(sh, i)
  <2>1. sh[i] \in Shop
    BY LenProperties, ElementOfSeq
  <2>2. sh2[i] = [sh[i] EXCEPT !.available = ({NoName} \cup Plugins) \ OtherNames(sh, i)]
    BY DEF ShopsListUpdated
  <2> HIDE DEF sh2
  <2> QED
    BY <2>1, <2>2 DEF Shop
<1> HIDE DEF sh2
<1>3. \A i \in DOMAIN sh : OtherNames(sh2, i) = OtherNames(sh, i)
  BY <1>1, <1>2 DEF OtherNames
<1>4. Offered(sh2)
  BY <1>1, <1>2, <1>3 DEF Offered
<1>5. Distinct(sh) => Distinct(sh2)
  BY <1>1, <1>2 DEF Distinct
<1> QED
  BY <1>4, <1>5 DEF sh2

\* A column may be named with a plugin no other column has.
LEMMA NamedDistinct ==
    ASSUME NEW sh \in Seq(Shop), Distinct(sh), NEW c \in DOMAIN sh, NEW name,
           name \in Plugins => \A i \in (DOMAIN sh) \ {c} : sh[i].name # name
    PROVE  Distinct([sh EXCEPT ![c].name = name])
<1> DEFINE sh2 == [sh EXCEPT ![c].name = name]
<1>1. sh[c] \in Shop
  BY LenProperties, ElementOfSeq
<1>2. [sh[c] EXCEPT !.name = name].name = name
  BY <1>1 DEF Shop
<1>3. DOMAIN sh2 = DOMAIN sh /\ sh2[c].name = name
      /\ \A i \in (DOMAIN sh) \ {c} : sh2[i] = sh[i]
  BY <1>2
<1> HIDE DEF sh2
<1>4. Distinct(sh2)
  BY <1>3 DEF Distinct
<1> QED
  BY <1>4 DEF sh2

LEMMA InsertedDistinct ==
    ASSUME NEW sh \in Seq(Shop), Distinct(sh), NEW b \in BOOLEAN
    PROVE  Distinct(ColumnInserted(sh, b))
<1> DEFINE sh2 == Append(sh, NewShop(b))
<1>1. NewShop(b) \in Shop /\ NewShop(b).name = NoName
  BY DEF NewShop, Shop, ShopName
<1>2. /\ sh2 \in Seq(Shop) /\ Len(sh2) = Len(sh) + 1
      /\ sh2[Len(sh) + 1] = NewShop(b) /\ (\A i \in 1..Len(sh) : sh2[i] = sh[i])
  BY <1>1, AppendProperties
<1> HIDE DEF sh2
<1>3. DOMAIN sh2 = 1..Len(sh) + 1 /\ DOMAIN sh = 1..Len(sh) /\ Len(sh) \in Nat
  BY <1>2, LenProperties
<1>4. Distinct(sh2)
  BY <1>1, <1>2, <1>3, TableAssumption DEF Distinct
<1> QED
  BY <1>2, <1>4, UpdatedOffers DEF sh2, ColumnInserted

LEMMA RemovedDistinct ==
    ASSUME NEW sh \in Seq(Shop), Distinct(sh), NEW c \in 1..Len(sh)
    PROVE  Distinct(RemoveAt(sh, c))
<1> DEFINE sh2 == RemoveAt(sh, c)
<1>1. /\ sh2 \in Seq(Shop) /\ Len(sh2) = Len(sh) - 1
      /\ \A j \in 1..Len(sh) - 1 : sh2[j] = IF j < c THEN sh[j] ELSE sh[j + 1]
  BY RemoveAtProperties
<1> HIDE DEF sh2
<1>2. DOMAIN sh2 = 1..Len(sh) - 1 /\ DOMAIN sh = 1..Len(sh) /\ Len(sh) \in Nat
  BY <1>1, LenProperties
<1> DEFINE from(j) == IF j < c THEN j ELSE j + 1
<1>3. \A j \in DOMAIN sh2 : from(j) \in DOMAIN sh /\ sh2[j] = sh[from(j)]
  BY <1>1, <1>2
<1>4. \A i, j \in DOMAIN sh2 : i # j => from(i) # from(j)
  BY <1>2
<1> HIDE DEF from
<1>5. Distinct(sh2)
  BY <1>3, <1>4 DEF Distinct
<1> QED
  BY <1>5 DEF sh2

\* A step that leaves the list, or only switches columns on and off.
LEMMA SameNames ==
    ASSUME Distinct(shops), Offered(shops),
           DOMAIN shops' = DOMAIN shops,
           \A i \in DOMAIN shops : /\ shops'[i].name = shops[i].name
                                   /\ shops'[i].available = shops[i].available
    PROVE  Distinct(shops)' /\ Offered(shops)'
<1>1. \A i \in DOMAIN shops : OtherNames(shops', i) = OtherNames(shops, i)
  BY DEF OtherNames
<1> QED
  BY <1>1 DEF Distinct, Offered

LEMMA NamesStep == NamesInv /\ [Next]_tableVars => NamesInv'
<1> SUFFICES ASSUME NamesInv, [Next]_tableVars PROVE NamesInv'
  OBVIOUS
<1>1. TableInv /\ TableInv' /\ Distinct(shops) /\ Offered(shops)
  BY TableStep DEF NamesInv
<1> SUFFICES Distinct(shops)' /\ Offered(shops)'
  BY <1>1 DEF NamesInv
<1>2. /\ shops \in Seq(Shop) /\ DOMAIN shops = 1..Len(shops)
      /\ \A i \in DOMAIN shops : shops[i] \in Shop
  BY <1>1, TableFacts
<1>3. CASE AddShop
  <2>1. PICK b \in BOOLEAN : shops' = ColumnInserted(shops, b)
    BY <1>3 DEF AddShop
  <2>2. Append(shops, NewShop(b)) \in Seq(Shop)
    BY <1>2, AppendProperties DEF NewShop, Shop, ShopName
  <2> QED
    BY <1>1, <1>2, <2>1, <2>2, InsertedDistinct, UpdatedOffers DEF ColumnInserted
<1>4. ASSUME NEW c \in DOMAIN shops, RemShop(c) PROVE Distinct(shops)' /\ Offered(shops)'
  <2>1. c \in 1..Len(shops) /\ shops' = ShopsListUpdated(RemoveAt(shops, c))
    BY <1>2, <1>4 DEF RemShop
  <2>2. RemoveAt(shops, c) \in Seq(Shop) /\ Distinct(RemoveAt(shops, c))
    BY <1>1, <1>2, <2>1, RemoveAtProperties, RemovedDistinct
  <2> QED
    BY <2>1, <2>2, UpdatedOffers
<1>5. CASE Reset
  BY <1>5 DEF Reset, Distinct, Offered
<1>6. ASSUME NEW b \in BOOLEAN, NEW S, ActivateShops(S, b)
      PROVE  Distinct(shops)' /\ Offered(shops)'
  <2>1. shops' = [c \in DOMAIN shops |->
                    IF c \in S THEN [shops[c] EXCEPT !.active = b] ELSE shops[c]]
    BY <1>6 DEF ActivateShops, ProcessHeaders
  <2>2. \A c \in DOMAIN shops : /\ [shops[c] EXCEPT !.active = b].name = shops[c].name
                                /\ [shops[c] EXCEPT !.active = b].available = shops[c].available
    BY <1>2 DEF Shop
  <2>3. DOMAIN shops' = DOMAIN shops
    BY <2>1
  <2>4. \A c \in DOMAIN shops : /\ shops'[c].name = shops[c].name
                                /\ shops'[c].available = shops[c].available
    BY <2>1, <2>2
  <2> QED
    BY <1>1, <2>3, <2>4, SameNames
<1>7. ASSUME NEW c \in DOMAIN shops, NEW name \in Plugins \cup {NoName}, RenameShop(c, name)
      PROVE  Distinct(shops)' /\ Offered(shops)'
  <2> DEFINE sh == [shops EXCEPT ![c].name = name]
  <2>1. shops' = ShopsListUpdated(sh) /\ name \in shops[c].available
    BY <1>7 DEF RenameShop, ProcessHeaders
  <2>2. name \in Plugins => \A i \in (DOMAIN shops) \ {c} : shops[i].name # name
    BY <1>1, <2>1, TableAssumption DEF Offered, OtherNames
  <2>3. Distinct(sh)
    BY <1>1, <1>2, <2>2, NamedDistinct
  <2>4. [shops[c] EXCEPT !.name = name] \in Shop
    BY <1>2 DEF Shop, ShopName
  <2>5. sh \in Seq(Shop)
    BY <1>2, <2>4, ExceptSeq
  <2> HIDE DEF sh
  <2> QED
    BY <2>1, <2>3, <2>5, UpdatedOffers
<1>8. ASSUME NEW b \in BOOLEAN, NEW name \in Plugins \cup {Blank}, ReadShop(name, b)
      PROVE  Distinct(shops)' /\ Offered(shops)'
  <2> DEFINE n  == Len(shops) + 1
             si == ColumnInserted(shops, b)
             sh == [si EXCEPT ![n].name = name]
  <2>1. shops' = ShopsListUpdated(sh)
    BY <1>8 DEF ReadShop, ProcessHeaders
  <2>2. name \in Plugins => \A i \in DOMAIN shops : shops[i].name # name
    BY <1>8 DEF ReadShop
  <2>3. si \in Seq(Shop) /\ Len(si) = n /\ Distinct(si)
    BY <1>1, <1>2, ColumnInsertedKeeps, InsertedDistinct
  <2>4. DOMAIN si = 1..n /\ n \in DOMAIN si
    BY <1>1, <2>3, TableFacts, LenProperties
  <2>5. \A i \in DOMAIN shops : si[i].name = shops[i].name
    <3> DEFINE s1 == Append(shops, NewShop(b))
    <3>1. s1 \in Seq(Shop) /\ (\A i \in DOMAIN shops : i \in DOMAIN s1 /\ s1[i] = shops[i])
      <4>1. NewShop(b) \in Shop
        BY DEF NewShop, Shop, ShopName
      <4>2. /\ s1 \in Seq(Shop) /\ Len(s1) = Len(shops) + 1
            /\ \A i \in 1..Len(shops) : s1[i] = shops[i]
        BY <1>2, <4>1, AppendProperties
      <4>3. DOMAIN s1 = 1..Len(shops) + 1 /\ Len(shops) \in Nat
        BY <1>2, <4>2, LenProperties
      <4> QED
        BY <1>2, <4>2, <4>3
    <3>2. si = ShopsListUpdated(s1)
      BY DEF ColumnInserted
    <3> HIDE DEF s1, si
    <3>3. \A i \in DOMAIN s1 : si[i].name = s1[i].name
      <4> SUFFICES ASSUME NEW i \in DOMAIN s1 PROVE si[i].name = s1[i].name
        OBVIOUS
      <4>1. s1[i] \in Shop
        BY <3>1, LenProperties, ElementOfSeq
      <4>2. si[i] = [s1[i] EXCEPT !.available = ({NoName} \cup Plugins) \ OtherNames(s1, i)]
        BY <3>2 DEF ShopsListUpdated
      <4> QED
        BY <4>1, <4>2 DEF Shop
    <3> QED
      BY <3>1, <3>3
  <2> HIDE DEF si
  <2>6. name \in Plugins => \A i \in (DOMAIN si) \ {n} : si[i].name # name
    BY <1>1, <1>2, <2>2, <2>4, <2>5, TableFacts
  <2>7. Distinct(sh)
    BY <2>3, <2>4, <2>6, NamedDistinct
  <2>8. sh \in Seq(Shop)
    <3>1. si[n] \in Shop
      BY <2>3, <2>4, ElementOfSeq
    <3>2. [si[n] EXCEPT !.name = name] \in Shop
      BY <3>1 DEF Shop, ShopName
    <3> QED
      BY <2>3, <2>4, <3>2, ExceptSeq
  <2> HIDE DEF sh
  <2> QED
    BY <2>1, <2>7, <2>8, UpdatedOffers
<1>9. CASE shops' = shops
  BY <1>1, <1>9, SameNames
<1> QED
  <2>1. ASSUME \/ AddComp \/ ReadEnd \/ ResetWorseBestFlags \/ UNCHANGED tableVars
               \/ \E r \in DOMAIN comps : RemComp(r)
               \/ \E b \in BOOLEAN :
                    \/ \E S \in Sections(comps) : ActivateComps(S, b)
                    \/ ReadComponent(b)
               \/ \E r \in DOMAIN comps, c \in DOMAIN shops :
                    \/ \E price \in Prices : SetPrice(r, c, price)
                    \/ \E b \in BOOLEAN : SetRefreshing(r, c, b)
        PROVE  shops' = shops
    BY <2>1 DEF AddComp, ReadEnd, ResetWorseBestFlags, tableVars, RemComp, ActivateComps,
       ReadComponent, SetPrice, SetRefreshing, ProcessHeaders
  <2>2. NewConf \/ OpenConf => Reset
    BY DEF NewConf, OpenConf
  <2> QED
    BY <1>3, <1>4, <1>5, <1>6, <1>7, <1>8, <1>9, <2>1, <2>2 DEF Next

\* NoShopTwice always holds: updateShopsList keeps any two columns from naming the
\* same plugin, for any plugins and any number of columns.
THEOREM NoShopTwiceHolds == TableSpec => []NoShopTwice
<1>1. Init => NamesInv
  <2>1. Init => TableInv
    BY TableInit
  <2> QED
    BY <2>1 DEF NamesInv, Init, Distinct, Offered
<1>2. NamesInv => NoShopTwice
  <2> SUFFICES ASSUME NamesInv PROVE NoShopTwice
    OBVIOUS
  <2>1. \A i \in DOMAIN shops : shops[i] \in Shop
    BY TableFacts DEF NamesInv
  <2>2. \A i \in DOMAIN shops : shops[i].name \in Plugins \cup {NoName, Blank}
    BY <2>1 DEF Shop, ShopName
  <2> QED
    BY <2>2 DEF NamesInv, Distinct, Offered, OtherNames, NoShopTwice
<1> QED
  BY <1>1, <1>2, NamesStep, PTL DEF TableSpec
-----------------------------------------------------------------------------
\* A row in which at most one cell is marked best, and none that counts is
\* cheaper.  BestIsLeast says so of what is shown.  It is inductive for the whole
\* matrix only: a cell that is not shown keeps its flag until it is uncovered,
\* which no processHeaders follows.  That calculateCellsValues, which sees the
\* columns of the shops, sees all of a row is the second part.
OneBest(row) ==
    \A c, d \in DOMAIN row : row[c].best /\ c # d =>
        /\ ~row[d].best
        /\ Counts(row[d]) => row[c].price <= row[d].price
AllOneBest(m) == \A r \in DOMAIN m : OneBest(m[r])
Wide(m, n)    == \A r \in DOMAIN m : Len(m[r]) = n
BestInv ==
    /\ TableInv
    /\ AllOneBest(matrix)
    /\ shops # << >> => Wide(matrix, Len(shops))

\* calculateCellsValues marks the first of the cheapest.
LEMMA ValuedOneBest ==
    ASSUME NEW row \in Seq(Cell), NEW row2, DOMAIN row2 = DOMAIN row,
           \A c \in DOMAIN row : /\ row2[c].best = IsFirst(c, Lowest(row))
                                 /\ row2[c].price = row[c].price
                                 /\ Counts(row2[c]) = Counts(row[c])
    PROVE  OneBest(row2)
<1> SUFFICES ASSUME NEW c \in DOMAIN row, NEW d \in DOMAIN row, c # d,
                    IsFirst(c, Lowest(row))
             PROVE  /\ ~IsFirst(d, Lowest(row))
                    /\ Counts(row[d]) => row[c].price <= row[d].price
  BY DEF OneBest
<1>1. /\ c \in Nat /\ d \in Nat
      /\ row[c] \in Cell /\ row[d] \in Cell
  BY LenProperties, ElementOfSeq
<1>2. row[c].price \in Nat /\ row[d].price \in Nat
  BY <1>1 DEF Cell
<1>3. c \in Cheap(row) /\ (\A e \in Cheap(row) : row[c].price <= row[e].price)
  BY DEF IsFirst, Lowest
<1>4. ~IsFirst(d, Lowest(row))
  BY <1>1 DEF IsFirst
<1>5. ASSUME Counts(row[d]) PROVE row[c].price <= row[d].price
  <2>1. d \in Counted(row)
    BY <1>5 DEF Counted
  <2>2. CASE d \in Cheap(row)
    BY <1>3, <2>2
  <2>3. CASE ~(row[d].price < ciBestPriceDefault)
    <3>1. row[c].price < ciBestPriceDefault
      BY <1>3 DEF Cheap
    <3> QED
      BY <1>2, <2>3, <3>1, TableAssumption
  <2> QED
    BY <2>1, <2>2, <2>3 DEF Cheap
<1> QED
  BY <1>4, <1>5

\* processHeaders restores the rows it is shown, if the columns are all there.
LEMMA ProcessedBest ==
    ASSUME NEW sh \in Seq(Shop), NEW co \in Seq(BOOLEAN), NEW m \in Matrix,
           sh # << >> => Wide(m, Len(sh)),
           \A r \in DOMAIN m : OneBest(m[r]) \/ (r \in DOMAIN co /\ sh # << >>),
           ProcessHeaders(sh, co, m)
    PROVE  AllOneBest(matrix') /\ (shops' # << >> => Wide(matrix', Len(shops')))
<1> DEFINE m1 == CellsState(sh, co, m)
           m2 == CellsValues(sh, co, m1)
<1>1. /\ m1 \in Matrix /\ Len(m1) = Len(m) /\ DOMAIN m1 = DOMAIN m
      /\ \A r \in DOMAIN m : Len(m1[r]) = Len(m[r])
  BY CellsStateKeeps, LenProperties DEF CellsState
<1>2. m2 \in Matrix /\ DOMAIN m2 = DOMAIN m /\ (\A r \in DOMAIN m : Len(m2[r]) = Len(m[r]))
  <2> HIDE DEF m1
  <2>1. m2 \in Matrix /\ (\A r \in DOMAIN m1 : Len(m2[r]) = Len(m1[r]))
    BY <1>1, CellsValuesKeeps
  <2>2. DOMAIN m2 = DOMAIN m1
    BY DEF CellsValues
  <2> QED
    BY <1>1, <2>1, <2>2
<1>3. shops' = sh /\ matrix' = m2
  BY DEF ProcessHeaders
<1>4. ASSUME NEW r \in DOMAIN m PROVE OneBest(m2[r])
  <2>1. m[r] \in Seq(Cell) /\ m1[r] \in Seq(Cell) /\ m2[r] \in Seq(Cell)
    BY <1>1, <1>2, LenProperties, ElementOfSeq DEF Matrix
  <2>2. DOMAIN m1[r] = DOMAIN m[r] /\ DOMAIN m2[r] = DOMAIN m[r]
    BY <1>1, <1>2, <2>1, LenProperties
  <2>3. CASE r \in DOMAIN co /\ sh # << >>
    <3>1. Len(m1[r]) = Len(sh) /\ DOMAIN m1[r] = 1..Len(sh) /\ DOMAIN sh = 1..Len(sh)
      BY <1>1, <2>1, <2>3, LenProperties DEF Wide
    <3>2. ShownRow(m1[r], sh) = m1[r]
      <4>1. SubSeq(m1[r], 1, Len(m1[r])) = m1[r]
        BY <2>1, SubSeqFull
      <4> QED
        BY <3>1, <4>1 DEF ShownRow
    <3> DEFINE low  == Lowest(m1[r])
               high == Highest(m1[r])
    <3>3. ASSUME NEW c \in DOMAIN m1[r]
          PROVE  m2[r][c] = [m1[r][c] EXCEPT !.best = IsFirst(c, low), !.worst = IsFirst(c, high)]
      <4>1. <<r, c>> \in Shown(sh, co)
        BY <2>3, <3>1 DEF Shown
      <4> QED
        BY <1>1, <3>2, <4>1 DEF CellsValues
    <3> HIDE DEF low, high, m1, m2
    <3>4. ASSUME NEW c \in DOMAIN m1[r]
          PROVE  /\ m2[r][c].best = IsFirst(c, low)
                 /\ m2[r][c].price = m1[r][c].price
                 /\ Counts(m2[r][c]) = Counts(m1[r][c])
      <4>1. m1[r][c] \in Cell
        BY <2>1, LenProperties, ElementOfSeq
      <4> QED
        BY <3>3, <4>1 DEF Cell, Counts
    <3> QED
      BY <2>1, <2>2, <3>4, ValuedOneBest DEF low
  <2>4. CASE ~(r \in DOMAIN co /\ sh # << >>)
    <3>1. \A c \in DOMAIN m[r] : <<r, c>> \notin Shown(sh, co)
      <4>1. DOMAIN sh # {} => sh # << >>
        OBVIOUS
      <4> QED
        BY <2>4, <4>1 DEF Shown
    <3>2. m1[r] = [c \in DOMAIN m[r] |-> m[r][c]]
      BY <3>1 DEF CellsState
    <3>3. m2[r] = [c \in DOMAIN m1[r] |-> m1[r][c]]
      BY <1>1, <2>2, <3>1 DEF CellsValues
    <3> HIDE DEF m1, m2
    <3>4. \A c \in DOMAIN m[r] : m2[r][c] = m[r][c]
      BY <2>2, <3>2, <3>3
    <3> QED
      BY <2>2, <2>4, <3>4 DEF OneBest
  <2> QED
    BY <2>3, <2>4
<1> HIDE DEF m1, m2
<1>5. AllOneBest(m2)
  BY <1>2, <1>4 DEF AllOneBest
<1>6. sh # << >> => Wide(m2, Len(sh))
  BY <1>2 DEF Wide
<1> QED
  BY <1>3, <1>5, <1>6

\* A resize and a removal leave the marks of a row.
LEMMA ResizedOneBest ==
    ASSUME NEW row \in Seq(Cell), OneBest(row), NEW n \in Nat
    PROVE  OneBest(Resized(row, n, EmptyCell))
<1> DEFINE row2 == Resized(row, n, EmptyCell)
<1>1. /\ Len(row2) = n /\ row2 \in Seq(Cell)
      /\ \A c \in 1..n : row2[c] = IF c <= Len(row) THEN row[c] ELSE EmptyCell
  BY RowResized
<1> HIDE DEF row2
<1>2. DOMAIN row2 = 1..n /\ DOMAIN row = 1..Len(row) /\ Len(row) \in Nat
  BY <1>1, LenProperties
<1>3. \A c \in DOMAIN row2 : \/ c \in DOMAIN row /\ row2[c] = row[c]
                             \/ ~row2[c].best /\ ~Counts(row2[c])
  BY <1>1, <1>2 DEF EmptyCell, Counts
<1>4. OneBest(row2)
  BY <1>3 DEF OneBest
<1> QED
  BY <1>4 DEF row2

LEMMA ErasedOneBest ==
    ASSUME NEW row \in Seq(Cell), OneBest(row), NEW i \in 1..Len(row)
    PROVE  OneBest(RemoveAt(row, i))
<1> DEFINE row2 == RemoveAt(row, i)
<1>1. /\ row2 \in Seq(Cell) /\ Len(row2) = Len(row) - 1
      /\ \A j \in 1..Len(row) - 1 : row2[j] = IF j < i THEN row[j] ELSE row[j + 1]
  BY RemoveAtProperties
<1> HIDE DEF row2
<1>2. DOMAIN row2 = 1..Len(row) - 1 /\ DOMAIN row = 1..Len(row) /\ Len(row) \in Nat
  BY <1>1, LenProperties
<1> DEFINE from(j) == IF j < i THEN j ELSE j + 1
<1>3. \A j \in DOMAIN row2 : from(j) \in DOMAIN row /\ row2[j] = row[from(j)]
  BY <1>1, <1>2
<1>4. \A j, k \in DOMAIN row2 : j # k => from(j) # from(k)
  BY <1>2
<1> HIDE DEF from
<1>5. OneBest(row2)
  BY <1>3, <1>4 DEF OneBest
<1> QED
  BY <1>5 DEF row2

LEMMA InsertedBest ==
    ASSUME TableInv, AllOneBest(matrix)
    PROVE  /\ AllOneBest(MatrixAfterInsertColumn)
           /\ Wide(MatrixAfterInsertColumn, Len(shops) + 1)
           /\ AllOneBest(MatrixAfterInsertRow) /\ Wide(MatrixAfterInsertRow, Len(shops))
<1> DEFINE n  == Len(comps) + 1
           m1 == Resized(matrix, n, << >>)
<1>1. matrix \in Matrix /\ n \in Nat /\ Len(shops) \in Nat /\ DOMAIN matrix = 1..Len(matrix)
  BY TableFacts
<1> HIDE DEF n
<1>2. /\ m1 \in Matrix /\ Len(m1) = n
      /\ \A r \in 1..n : m1[r] = IF r <= Len(matrix) THEN matrix[r] ELSE << >>
  BY <1>1, RowsResized
<1> HIDE DEF m1
<1>3. ASSUME NEW r \in 1..n PROVE m1[r] \in Seq(Cell) /\ OneBest(m1[r])
  <2>1. m1[r] \in Seq(Cell)
    BY <1>2, ElementOfSeq DEF Matrix
  <2>2. r <= Len(matrix) => r \in DOMAIN matrix
    BY <1>1, LenProperties DEF Matrix
  <2>3. OneBest(<< >>)
    BY DEF OneBest
  <2> QED
    BY <1>2, <2>1, <2>2, <2>3 DEF AllOneBest
<1>4. ASSUME NEW k \in Nat
      PROVE  AllOneBest(MatrixResized(matrix, n, k)) /\ Wide(MatrixResized(matrix, n, k), k)
  <2>1. MatrixResized(matrix, n, k) = [r \in 1..n |-> Resized(m1[r], k, EmptyCell)]
    BY DEF MatrixResized, m1
  <2>2. \A r \in 1..n : /\ OneBest(Resized(m1[r], k, EmptyCell))
                        /\ Len(Resized(m1[r], k, EmptyCell)) = k
    BY <1>3, ResizedOneBest, RowResized
  <2> QED
    BY <2>1, <2>2 DEF AllOneBest, Wide
<1> QED
  BY <1>1, <1>4 DEF MatrixAfterInsertColumn, MatrixAfterInsertRow, n

\* removeColumns erases one cell of every row it keeps.
LEMMA ColumnsRemovedBest ==
    ASSUME BestInv, NEW column \in Nat, column < Len(shops)
    PROVE  LET m == MatrixAfterRemoveColumns(column)
           IN  AllOneBest(m) /\ Wide(m, Len(shops) - 1)
<1> DEFINE m1 == Resized(matrix, Len(comps), << >>)
<1>0. TableInv /\ AllOneBest(matrix)
  BY DEF BestInv
<1>1. /\ matrix \in Matrix /\ DOMAIN matrix = 1..Len(matrix) /\ Len(comps) \in Nat
      /\ Len(comps) <= Len(matrix) /\ Len(matrix) \in Nat /\ Len(shops) \in Nat
  BY <1>0, TableFacts DEF Covers
<1>2. shops # << >>
  BY <1>1, EmptySeq
<1>3. /\ m1 \in Matrix /\ Len(m1) = Len(comps)
      /\ \A r \in 1..Len(comps) : m1[r] = IF r <= Len(matrix) THEN matrix[r] ELSE << >>
  BY <1>1, RowsResized
<1> HIDE DEF m1
<1>4. DOMAIN m1 = 1..Len(comps)
  BY <1>3, LenProperties DEF Matrix
<1>5. ASSUME NEW r \in 1..Len(comps)
      PROVE  OneBest(RemoveAt(m1[r], column + 1)) /\ Len(RemoveAt(m1[r], column + 1)) = Len(shops) - 1
  <2>1. r \in DOMAIN matrix /\ m1[r] = matrix[r]
    BY <1>1, <1>3
  <2>2. m1[r] \in Seq(Cell) /\ OneBest(m1[r]) /\ Len(m1[r]) = Len(shops)
    BY <1>0, <1>2, <2>1, TableFacts DEF BestInv, AllOneBest, Wide
  <2>3. column + 1 \in 1..Len(m1[r])
    BY <1>1, <2>2
  <2> QED
    BY <2>2, <2>3, ErasedOneBest, RemoveAtProperties
<1>6. MatrixAfterRemoveColumns(column) = [r \in 1..Len(comps) |-> RemoveAt(m1[r], column + 1)]
  BY <1>4 DEF MatrixAfterRemoveColumns, CellsErased, m1
<1> QED
  BY <1>5, <1>6 DEF AllOneBest, Wide

\* removeRows leaves the other rows as they are.
LEMMA RowsRemovedBest ==
    ASSUME NEW m \in Matrix, AllOneBest(m)
    PROVE  /\ AllOneBest(MatrixAfterRemoveRows(m))
           /\ \A n : Wide(m, n) => Wide(MatrixAfterRemoveRows(m), n)
<1>1. CASE m = << >>
  BY <1>1 DEF MatrixAfterRemoveRows
<1>2. CASE m # << >>
  BY <1>2, RemoveRowsKeeps DEF AllOneBest, Wide
<1> QED
  BY <1>1, <1>2

LEMMA ResetBest ==
    ASSUME BestInv, Reset
    PROVE  AllOneBest(matrix')
<1> DEFINE m == IF shops = << >> THEN matrix ELSE MatrixAfterRemoveColumns(0)
<1>0. TableInv /\ AllOneBest(matrix)
  BY DEF BestInv
<1>1. m \in Matrix /\ AllOneBest(m)
  <2>1. CASE shops = << >>
    BY <1>0, <2>1, TableFacts
  <2>2. CASE shops # << >>
    <3>1. 0 < Len(shops)
      BY <1>0, <2>2, TableFacts, EmptySeq
    <3> QED
      BY <1>0, <2>2, <3>1, ColumnsRemovedBest, RemoveColumnsKeeps
  <2> QED
    BY <2>1, <2>2
<1>2. matrix' = IF comps = << >> THEN m ELSE MatrixAfterRemoveRows(m)
  BY DEF Reset
<1> HIDE DEF m
<1> QED
  BY <1>1, <1>2, RowsRemovedBest

\* A price or a refreshing flag disturbs one row, which is shown.
LEMMA SetCellBest ==
    ASSUME BestInv, NEW r \in DOMAIN comps, NEW c \in DOMAIN shops,
           \/ \E price \in Prices : SetPrice(r, c, price)
           \/ \E b \in BOOLEAN : SetRefreshing(r, c, b)
    PROVE  AllOneBest(matrix') /\ (shops' # << >> => Wide(matrix', Len(shops')))
<1>0. TableInv /\ AllOneBest(matrix) /\ (shops # << >> => Wide(matrix, Len(shops)))
  BY DEF BestInv
<1>1. matrix[r][c] \in Cell
  <2>1. r \in DOMAIN matrix /\ c \in 1..Len(matrix[r])
    BY <1>0, TableFacts DEF Covers
  <2> QED
    BY <1>0, <2>1, TableFacts, ElementOfSeq
<1>2. PICK cell \in Cell :
        ProcessHeaders(shops, comps, [matrix EXCEPT ![r] = [@ EXCEPT ![c] = cell]])
  <2>1. CASE \E price \in Prices : SetPrice(r, c, price)
    <3>1. PICK price \in Prices : SetPrice(r, c, price)
      BY <2>1
    <3>2. [matrix[r][c] EXCEPT !.price = price] \in Cell
      BY <1>1, <3>1, TableAssumption DEF Cell
    <3> QED
      BY <3>1, <3>2 DEF SetPrice
  <2>2. CASE \E b \in BOOLEAN : SetRefreshing(r, c, b)
    <3>1. PICK b \in BOOLEAN : SetRefreshing(r, c, b)
      BY <2>2
    <3>2. [matrix[r][c] EXCEPT !.refreshing = b] \in Cell
      BY <1>1, <3>1 DEF Cell
    <3> QED
      BY <3>1, <3>2 DEF SetRefreshing
  <2> QED
    BY <2>1, <2>2
<1> DEFINE m == [matrix EXCEPT ![r] = [@ EXCEPT ![c] = cell]]
<1>3. m \in Matrix
  BY <1>0, CellSet
<1>4. ProcessHeaders(shops, comps, m)
  BY <1>2
<1>5. shops # << >>
  BY <1>0, TableFacts, EmptySeq
<1>6. DOMAIN m = DOMAIN matrix /\ (\A i \in (DOMAIN matrix) \ {r} : m[i] = matrix[i])
  OBVIOUS
<1>7. Wide(m, Len(shops))
  <2>1. r \in DOMAIN matrix /\ matrix[r] \in Seq(Cell) /\ c \in 1..Len(matrix[r])
    BY <1>0, TableFacts DEF Covers
  <2>2. m[r] = [matrix[r] EXCEPT ![c] = cell]
    BY <2>1
  <2>3. Len(m[r]) = Len(matrix[r])
    BY <2>1, <2>2, ExceptSeq
  <2> QED
    BY <1>0, <1>5, <1>6, <2>1, <2>3 DEF Wide
<1> HIDE DEF m
<1>8. \A i \in DOMAIN m : OneBest(m[i]) \/ (i \in DOMAIN comps /\ shops # << >>)
  BY <1>0, <1>5, <1>6 DEF AllOneBest
<1> QED
  BY <1>0, <1>3, <1>4, <1>7, <1>8, TableFacts, ProcessedBest

LEMMA ActivatedBest ==
    ASSUME BestInv, NEW b \in BOOLEAN, NEW S, ActivateShops(S, b) \/ ActivateComps(S, b)
    PROVE  AllOneBest(matrix') /\ (shops' # << >> => Wide(matrix', Len(shops')))
<1>0. TableInv /\ AllOneBest(matrix) /\ (shops # << >> => Wide(matrix, Len(shops)))
  BY DEF BestInv
<1>1. CASE ActivateShops(S, b)
  <2> DEFINE sh == [c \in DOMAIN shops |->
                      IF c \in S THEN [shops[c] EXCEPT !.active = b] ELSE shops[c]]
  <2>1. \A c \in DOMAIN shops : [shops[c] EXCEPT !.active = b] \in Shop
    BY <1>0, TableFacts DEF Shop
  <2>2. sh \in [1..Len(shops) -> Shop]
    BY <1>0, <2>1, TableFacts
  <2>3. ProcessHeaders(sh, comps, matrix)
    BY <1>1 DEF ActivateShops
  <2> HIDE DEF sh
  <2>4. sh \in Seq(Shop) /\ Len(sh) = Len(shops)
    BY <1>0, <2>2, TableFacts, FunctionIsSeq
  <2>5. sh # << >> => shops # << >>
    BY <1>0, <2>4, TableFacts, EmptySeq
  <2> QED
    BY <1>0, <2>3, <2>4, <2>5, TableFacts, ProcessedBest DEF AllOneBest
<1>2. CASE ActivateComps(S, b)
  <2> DEFINE co == [r \in DOMAIN comps |-> IF r \in S THEN b ELSE comps[r]]
  <2>1. co \in [1..Len(comps) -> BOOLEAN]
    BY <1>0, TableFacts, ElementOfSeq
  <2>2. ProcessHeaders(shops, co, matrix)
    BY <1>2 DEF ActivateComps
  <2> HIDE DEF co
  <2>3. co \in Seq(BOOLEAN)
    BY <1>0, <2>1, TableFacts, FunctionIsSeq
  <2> QED
    BY <1>0, <2>2, <2>3, TableFacts, ProcessedBest DEF AllOneBest
<1> QED
  BY <1>1, <1>2

LEMMA RenamedBest ==
    ASSUME BestInv, NEW c \in DOMAIN shops, NEW name \in Plugins \cup {NoName},
           RenameShop(c, name)
    PROVE  AllOneBest(matrix') /\ (shops' # << >> => Wide(matrix', Len(shops')))
<1> DEFINE sh == ShopsListUpdated([shops EXCEPT ![c].name = name])
<1>0. TableInv /\ AllOneBest(matrix) /\ (shops # << >> => Wide(matrix, Len(shops)))
  BY DEF BestInv
<1>1. sh \in Seq(Shop) /\ Len(sh) = Len(shops)
  BY <1>0, TableFacts, Named DEF ShopName
<1>2. ProcessHeaders(sh, comps, matrix)
  BY DEF RenameShop
<1> HIDE DEF sh
<1>3. shops # << >>
  BY <1>0, TableFacts, EmptySeq
<1> QED
  BY <1>0, <1>1, <1>2, <1>3, TableFacts, ProcessedBest DEF AllOneBest

LEMMA ReadShopBest ==
    ASSUME BestInv, NEW b \in BOOLEAN, NEW name \in Plugins \cup {Blank},
           ReadShop(name, b)
    PROVE  AllOneBest(matrix') /\ (shops' # << >> => Wide(matrix', Len(shops')))
<1> DEFINE n  == Len(shops) + 1
           si == ColumnInserted(shops, b)
           sh == ShopsListUpdated([si EXCEPT ![n].name = name])
           m  == MatrixAfterInsertColumn
<1>0. TableInv /\ AllOneBest(matrix)
  BY DEF BestInv
<1>1. si \in Seq(Shop) /\ Len(si) = n /\ n \in 1..n
  BY <1>0, TableFacts, ColumnInsertedKeeps
<1>2. ProcessHeaders(sh, comps, m)
  BY DEF ReadShop
<1> HIDE DEF si
<1>3. sh \in Seq(Shop) /\ Len(sh) = Len(shops) + 1
  BY <1>1, Named DEF ShopName
<1>4. m \in Matrix /\ AllOneBest(m) /\ Wide(m, Len(shops) + 1)
  BY <1>0, Inserted, InsertedBest
<1> HIDE DEF sh, m
<1> QED
  BY <1>0, <1>2, <1>3, <1>4, TableFacts, ProcessedBest DEF AllOneBest

LEMMA ReadComponentBest ==
    ASSUME BestInv, NEW b \in BOOLEAN, ReadComponent(b)
    PROVE  AllOneBest(matrix') /\ (shops' # << >> => Wide(matrix', Len(shops')))
<1>0. TableInv /\ AllOneBest(matrix)
  BY DEF BestInv
<1>1. PICK prices \in [DOMAIN shops -> Prices] :
        LET n == Len(comps) + 1
            m == [MatrixAfterInsertRow EXCEPT ![n] =
                     [c \in DOMAIN shops |-> [@[c] EXCEPT !.price = prices[c]]]]
        IN  ProcessHeaders(shops, Append(comps, b), m)
  BY DEF ReadComponent
<1> DEFINE n   == Len(comps) + 1
           mi  == MatrixAfterInsertRow
           row == [c \in DOMAIN shops |-> [mi[n][c] EXCEPT !.price = prices[c]]]
           m   == [mi EXCEPT ![n] = row]
           co  == Append(comps, b)
<1>2. /\ mi \in Matrix /\ Len(mi) = n /\ n \in Nat /\ n \in 1..n
      /\ AllOneBest(mi) /\ Wide(mi, Len(shops))
  BY <1>0, Inserted, InsertedBest, TableFacts
<1>3. ProcessHeaders(shops, co, m)
  BY <1>1
<1>4. co \in Seq(BOOLEAN) /\ Len(co) = n
  BY <1>0, TableFacts, AppendProperties
<1> HIDE DEF mi, n, co
<1>5. n \in DOMAIN co /\ n \in DOMAIN mi /\ mi[n] \in Seq(Cell) /\ Len(mi[n]) = Len(shops)
  BY <1>2, <1>4, LenProperties, ElementOfSeq DEF Matrix, Wide
<1>6. row \in [1..Len(shops) -> Cell]
  <2> SUFFICES ASSUME NEW c \in 1..Len(shops)
               PROVE  [mi[n][c] EXCEPT !.price = prices[c]] \in Cell
    BY <1>0, TableFacts
  <2>1. mi[n][c] \in Cell
    BY <1>5, ElementOfSeq
  <2>2. prices[c] \in Nat
    BY <1>0, TableFacts, TableAssumption
  <2> QED
    BY <2>1, <2>2 DEF Cell
<1> HIDE DEF row
<1>7. row \in Seq(Cell) /\ Len(row) = Len(shops) /\ DOMAIN row = 1..Len(shops)
  BY <1>0, <1>6, TableFacts, FunctionIsSeq
<1>8. m \in Matrix
  <2> DEFINE Row == Seq(Cell)
  <2>1. mi \in Seq(Row) /\ row \in Row
    BY <1>2, <1>7 DEF Matrix
  <2> HIDE DEF Row
  <2>2. m \in Seq(Row)
    BY <1>2, <2>1, ExceptSeq
  <2> QED
    BY <2>2 DEF Matrix, Row
<1>9. /\ DOMAIN m = DOMAIN mi
      /\ \A r \in DOMAIN mi : m[r] = IF r = n THEN row ELSE mi[r]
  OBVIOUS
<1> HIDE DEF m
<1>10. Wide(m, Len(shops))
  BY <1>2, <1>7, <1>9 DEF Wide
<1>11. \A r \in DOMAIN m : OneBest(m[r]) \/ (r \in DOMAIN co /\ shops # << >>)
  <2>1. shops = << >> => OneBest(row)
    BY <1>7, EmptySeq DEF OneBest
  <2> QED
    BY <1>2, <1>5, <1>9, <2>1 DEF AllOneBest
<1> QED
  BY <1>0, <1>3, <1>4, <1>8, <1>10, <1>11, TableFacts, ProcessedBest

LEMMA BestStep == BestInv /\ [Next]_tableVars => BestInv'
<1> SUFFICES ASSUME BestInv, [Next]_tableVars PROVE BestInv'
  OBVIOUS
<1> DEFINE Goal == AllOneBest(matrix') /\ (shops' # << >> => Wide(matrix', Len(shops')))
<1>0. /\ TableInv /\ TableInv'
      /\ AllOneBest(matrix) /\ (shops # << >> => Wide(matrix, Len(shops)))
  BY TableStep DEF BestInv
<1>0a. Goal => BestInv'
  BY <1>0 DEF BestInv
<1>1. CASE AddShop
  <2>1. PICK b \in BOOLEAN : shops' = ColumnInserted(shops, b)
    BY <1>1 DEF AddShop
  <2>2. Len(shops') = Len(shops) + 1
    BY <1>0, <2>1, TableFacts, ColumnInsertedKeeps
  <2>3. matrix' = MatrixAfterInsertColumn
    BY <1>1 DEF AddShop
  <2>4. Goal
    BY <1>0, <2>2, <2>3, InsertedBest
  <2> QED
    BY <1>0a, <2>4
<1>2. CASE AddComp
  <2>1. shops' = shops /\ matrix' = MatrixAfterInsertRow
    BY <1>2 DEF AddComp
  <2>2. Goal
    BY <1>0, <2>1, InsertedBest
  <2> QED
    BY <1>0a, <2>2
<1>3. ASSUME NEW c \in DOMAIN shops, RemShop(c) PROVE BestInv'
  <2>1. c \in 1..Len(shops) /\ c < Len(shops) /\ c \in Nat
    BY <1>0, <1>3, TableFacts DEF RemShop
  <2>2. RemoveAt(shops, c) \in Seq(Shop) /\ Len(RemoveAt(shops, c)) = Len(shops) - 1
    BY <1>0, <2>1, TableFacts, RemoveAtProperties
  <2>3. Len(shops') = Len(shops) - 1 /\ matrix' = MatrixAfterRemoveColumns(c)
    BY <1>3, <2>2, ShopsListKeeps DEF RemShop
  <2>4. Goal
    BY <2>1, <2>3, ColumnsRemovedBest
  <2> QED
    BY <1>0a, <2>4
<1>4. ASSUME NEW r \in DOMAIN comps, RemComp(r) PROVE BestInv'
  <2>1. shops' = shops /\ matrix' = MatrixAfterRemoveRows(matrix)
    BY <1>4 DEF RemComp
  <2>2. Goal
    BY <1>0, <2>1, TableFacts, RowsRemovedBest
  <2> QED
    BY <1>0a, <2>2
<1>5. CASE NewConf \/ OpenConf
  <2>1. Reset
    BY <1>5 DEF NewConf, OpenConf
  <2>2. Goal
    BY <2>1, ResetBest DEF Reset
  <2> QED
    BY <1>0a, <2>2
<1>6. CASE ReadEnd \/ UNCHANGED tableVars
  BY <1>0, <1>6 DEF ReadEnd, tableVars, BestInv
<1>7. ASSUME NEW b \in BOOLEAN,
             \/ \E S \in Sections(shops) : ActivateShops(S, b)
             \/ \E S \in Sections(comps) : ActivateComps(S, b)
             \/ \E name \in Plugins \cup {Blank} : ReadShop(name, b)
             \/ ReadComponent(b)
      PROVE  BestInv'
  <2>1. Goal
    BY <1>7, ActivatedBest, ReadShopBest, ReadComponentBest
  <2> QED
    BY <1>0a, <2>1
<1>8. ASSUME NEW c \in DOMAIN shops, NEW name \in Plugins \cup {NoName}, RenameShop(c, name)
      PROVE  BestInv'
  BY <1>0a, <1>8, RenamedBest
<1>9. ASSUME NEW r \in DOMAIN comps, NEW c \in DOMAIN shops,
             \/ \E price \in Prices : SetPrice(r, c, price)
             \/ \E b \in BOOLEAN : SetRefreshing(r, c, b)
      PROVE  BestInv'
  BY <1>0a, <1>9, SetCellBest
<1>10. CASE ResetWorseBestFlags
  <2>1. /\ shops' = shops /\ DOMAIN matrix' = DOMAIN matrix
        /\ \A r \in DOMAIN matrix : DOMAIN matrix'[r] = DOMAIN matrix[r]
    BY <1>10 DEF ResetWorseBestFlags
  <2>2. ASSUME NEW r \in DOMAIN matrix, NEW c \in DOMAIN matrix[r]
        PROVE  ~matrix'[r][c].best
    <3>1. matrix[r][c] \in Cell
      BY <1>0, TableFacts, ElementOfSeq
    <3>2. matrix'[r][c] = [matrix[r][c] EXCEPT !.best = FALSE, !.worst = FALSE]
      BY <1>10 DEF ResetWorseBestFlags
    <3> QED
      BY <3>1, <3>2 DEF Cell
  <2>3. AllOneBest(matrix')
    BY <2>1, <2>2 DEF AllOneBest, OneBest
  <2>4. \A r \in DOMAIN matrix : Len(matrix'[r]) = Len(matrix[r])
    <3>1. ASSUME NEW r \in DOMAIN matrix, NEW c \in DOMAIN matrix[r]
          PROVE  [matrix[r][c] EXCEPT !.best = FALSE, !.worst = FALSE] \in Cell
      <4>1. matrix[r][c] \in Cell
        BY <1>0, TableFacts, ElementOfSeq
      <4> QED
        BY <4>1 DEF Cell
    <3>2. CellByCell(matrix, matrix')
      BY <1>10, <3>1 DEF CellByCell, ResetWorseBestFlags
    <3> QED
      BY <1>0, <3>2, TableFacts, SameShape
  <2>5. Goal
    BY <1>0, <2>1, <2>3, <2>4 DEF Wide
  <2> QED
    BY <1>0a, <2>5
<1> QED
  BY <1>1, <1>2, <1>3, <1>4, <1>5, <1>6, <1>7, <1>8, <1>9, <1>10 DEF Next

\* BestIsLeast always holds: for any prices, shops and components, a cell shown as
\* the best of its row is the only one, and none that counts is cheaper.
THEOREM BestIsLeastHolds == TableSpec => []BestIsLeast
<1>1. Init => BestInv
  <2>1. Init => TableInv
    BY TableInit
  <2> QED
    BY <2>1 DEF BestInv, Init, AllOneBest
<1>2. BestInv => BestIsLeast
  <2> SUFFICES ASSUME BestInv, NEW r \in DOMAIN comps, NEW c \in DOMAIN shops,
                      NEW d \in DOMAIN shops, matrix[r][c].best, c # d
               PROVE  /\ ~matrix[r][d].best
                      /\ Counts(matrix[r][d]) => matrix[r][c].price <= matrix[r][d].price
    BY DEF BestIsLeast
  <2>1. r \in DOMAIN matrix /\ c \in DOMAIN matrix[r] /\ d \in DOMAIN matrix[r]
    BY TableFacts DEF BestInv, Covers
  <2> QED
    BY <2>1 DEF BestInv, AllOneBest, OneBest
<1> QED
  BY <1>1, <1>2, BestStep, PTL DEF TableSpec
=============================================================================
