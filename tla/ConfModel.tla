------------------------------ MODULE ConfModel ------------------------------
(***************************************************************************)
(* CComputerConfModel (Sources/Main/Data): the table of shops and          *)
(* components, and the slots of CDataThread and of the XML reader that     *)
(* change it.  Everything runs in the thread of the window, one call after *)
(* the other.                                                              *)
(*                                                                         *)
(* Both VIEW_WITH_FROZEN macros are defined, as in the project's build, so *)
(* section s > 0 of a header is the s-th shop or component of its list:    *)
(* the index of a TLA+ sequence.  A price is a number whose only use is to *)
(* be compared with 0, with another price and with ciBestPriceDefault.     *)
(* Left out: what is only shown (sums, URLs, results, progress, icons) and  *)
(* the components' names.                                                  *)
(***************************************************************************)
EXTENDS Naturals, SequencesExt

CONSTANTS
    Plugins,      \* names of the shops that have a plugin
    NoName,       \* the empty name of a column that has no shop yet
    Blank,        \* the white space read back for an empty name
    Prices,       \* the prices a cell may be given
    ciBestPriceDefault,
    MaxShops, MaxComps, MaxCells  \* bounds of the model

ASSUME TableAssumption ==
    /\ NoName \notin Plugins /\ Blank \notin Plugins /\ Blank # NoName
    /\ 0 \in Prices /\ Prices \subseteq Nat
    /\ ciBestPriceDefault \in Nat \ {0}
    /\ MaxShops \in Nat /\ MaxComps \in Nat /\ MaxCells \in Nat

VARIABLES
    shops,    \* vShopsList
    comps,    \* vComponentsList: bActive of every component
    matrix,   \* vvPricesMatrix, [components][shops]
    reading   \* onOpenConf is reading a file

tableVars == <<shops, comps, matrix, reading>>

ShopName == Plugins \cup {NoName, Blank}

Shop == [active : BOOLEAN, name : ShopName,
         available : SUBSET (Plugins \cup {NoName})]
Cell == [price : Nat, refreshing : BOOLEAN, active : BOOLEAN,
         best : BOOLEAN, worst : BOOLEAN]

\* altered: the constructor leaves dPrice unset
EmptyCellUnset == [price |-> NoName, refreshing |-> FALSE, active |-> TRUE,
                   best |-> FALSE, worst |-> FALSE]
EmptyCell == [price |-> 0, refreshing |-> FALSE, active |-> TRUE,
              best |-> FALSE, worst |-> FALSE]

-----------------------------------------------------------------------------
\* std::vector::resize, for one vector and for a vector of vectors
Resized(s, n, e) == [i \in 1..n |-> IF i <= Len(s) THEN s[i] ELSE e]
MatrixResized(m, rows, cols) ==
    [r \in 1..rows |-> Resized(Resized(m, rows, << >>)[r], cols, EmptyCell)]

\* updateShopsList: a column is offered the plugins no other column has
OtherNames(sh, i)   == {sh[j].name : j \in (DOMAIN sh) \ {i}} \ {NoName}
\* altered: the names of the other columns are not taken out
ShopsListOffersAll(sh) ==
    [i \in DOMAIN sh |-> [sh[i] EXCEPT !.available = {NoName} \cup Plugins]]
ShopsListUpdated(sh) ==
    [i \in DOMAIN sh |->
        [sh[i] EXCEPT !.available = ({NoName} \cup Plugins) \ OtherNames(sh, i)]]

\* the cells the table shows; the matrix may have more
Shown(sh, co) == (DOMAIN co) \X (DOMAIN sh)

\* calculateCellsState
CellsState(sh, co, m) ==
    [r \in DOMAIN m |-> [c \in DOMAIN m[r] |->
        IF <<r, c>> \in Shown(sh, co)
        THEN [m[r][c] EXCEPT !.active = sh[c].active /\ co[r]]
        ELSE m[r][c]]]

\* the cells calculateCellsValues does not pass over
Counts(cell) == ~cell.refreshing /\ cell.price # 0 /\ cell.active

\* calculateCellsValues: in every row the first of the cheapest cells is marked
\* best, unless no price is below the default, and the first of the dearest worst
ShownRow(row, sh) == SubSeq(row, 1, Len(sh))
Counted(row)      == {c \in DOMAIN row : Counts(row[c])}
Cheap(row)        == {c \in Counted(row) : row[c].price < ciBestPriceDefault}
Lowest(row)       == {c \in Cheap(row) : \A d \in Cheap(row) : row[c].price <= row[d].price}
Highest(row)      == {c \in Counted(row) : \A d \in Counted(row) : row[c].price >= row[d].price}
IsFirst(c, C)     == c \in C /\ \A d \in C : c <= d
\* altered: bBestPrice and bWorsePrice are not reset first
CellsValuesKept(sh, co, m) ==
    [r \in DOMAIN m |->
        LET row  == ShownRow(m[r], sh)
            low  == Lowest(row)
            high == Highest(row)
        IN  [c \in DOMAIN m[r] |->
                IF <<r, c>> \in Shown(sh, co)
                THEN [m[r][c] EXCEPT !.best = @ \/ IsFirst(c, low),
                                     !.worst = @ \/ IsFirst(c, high)]
                ELSE m[r][c]]]
CellsValues(sh, co, m) ==
    [r \in DOMAIN m |->
        LET row  == ShownRow(m[r], sh)
            low  == Lowest(row)
            high == Highest(row)
        IN  [c \in DOMAIN m[r] |->
                IF <<r, c>> \in Shown(sh, co)
                THEN [m[r][c] EXCEPT !.best = IsFirst(c, low), !.worst = IsFirst(c, high)]
                ELSE m[r][c]]]

\* processHeaders, after a change of the lists or of the matrix to sh, co, m
ProcessHeaders(sh, co, m) ==
    /\ shops' = sh /\ comps' = co
    /\ matrix' = CellsValues(sh, co, CellsState(sh, co, m))
-----------------------------------------------------------------------------
Init ==
    /\ shops = << >> /\ comps = << >> /\ matrix = << >>
    /\ reading = FALSE

\* insertColumns and insertRows at the end, where both callers insert.  The
\* constructors leave bActive unset.
NewShop(b) == [active |-> b, name |-> NoName, available |-> {}]

ColumnInserted(sh, b) == ShopsListUpdated(Append(sh, NewShop(b)))
MatrixAfterInsertColumn == MatrixResized(matrix, Len(comps) + 1, Len(shops) + 1)
\* altered: only the matrix grows, not the new row
MatrixAfterInsertRowRaw == Resized(matrix, Len(comps) + 1, << >>)
MatrixAfterInsertRow    == MatrixResized(matrix, Len(comps) + 1, Len(shops))

RoomForShop == Len(shops) < MaxShops /\ (Len(shops) + 1) * Len(comps) <= MaxCells
RoomForComp == Len(comps) < MaxComps /\ Len(shops) * (Len(comps) + 1) <= MaxCells

\* CDataThread::onAddShop
AddShop ==
    /\ ~reading /\ RoomForShop
    /\ \E b \in BOOLEAN : shops' = ColumnInserted(shops, b)
    /\ matrix' = MatrixAfterInsertColumn
    /\ UNCHANGED <<comps, reading>>

\* CDataThread::onAddComp
AddComp ==
    /\ ~reading /\ RoomForComp
    /\ \E b \in BOOLEAN : comps' = Append(comps, b)
    /\ matrix' = MatrixAfterInsertRow
    /\ UNCHANGED <<shops, reading>>

\* removeColumns: in every row the cell after the removed shop's goes, the
\* iterator having been advanced column times from the first
CellsErased(m, column) == [r \in DOMAIN m |-> RemoveAt(m[r], column + 1)]
MatrixAfterRemoveColumns(column) ==
    CellsErased(Resized(matrix, Len(comps), << >>), column)

\* removeRows: the iterator stays at the first row
MatrixAfterRemoveRows(m) == IF m = << >> THEN m ELSE Tail(m)

\* CDataThread::onRemShop: the last column is refused, its count becoming 0
RemShop(column) ==
    /\ ~reading /\ column < Len(shops)
    /\ shops'  = ShopsListUpdated(RemoveAt(shops, column))
    /\ matrix' = MatrixAfterRemoveColumns(column)
    /\ UNCHANGED <<comps, reading>>

\* CDataThread::onRemComp, which refuses the last row likewise
RemComp(row) ==
    /\ ~reading /\ row < Len(comps)
    /\ comps'  = RemoveAt(comps, row)
    /\ matrix' = MatrixAfterRemoveRows(matrix)
    /\ UNCHANGED <<shops, reading>>

\* reset: all columns, then all rows, are removed from section 0, but one
\* column and one row of the matrix; nothing is where the list is empty
Reset ==
    /\ shops' = << >> /\ comps' = << >>
    /\ LET m == IF shops = << >> THEN matrix ELSE MatrixAfterRemoveColumns(0)
       IN  matrix' = IF comps = << >> THEN m ELSE MatrixAfterRemoveRows(m)

\* CDataThread::onNewConf
NewConf == ~reading /\ Reset /\ UNCHANGED reading
-----------------------------------------------------------------------------
\* setHeaderData, Role_ShopColumnActive and Role_RowActive: one section, or all
ActivateShops(S, b) ==
    /\ ~reading
    /\ ProcessHeaders([c \in DOMAIN shops |->
                          IF c \in S THEN [shops[c] EXCEPT !.active = b] ELSE shops[c]],
                      comps, matrix)
    /\ UNCHANGED reading
ActivateComps(S, b) ==
    /\ ~reading
    /\ ProcessHeaders(shops,
                      [r \in DOMAIN comps |-> IF r \in S THEN b ELSE comps[r]], matrix)
    /\ UNCHANGED reading

\* setHeaderData, Role_ShopName, with an entry of the column's combo box
RenameShop(c, name) ==
    /\ ~reading /\ name \in shops[c].available
    /\ ProcessHeaders(ShopsListUpdated([shops EXCEPT ![c].name = name]), comps, matrix)
    /\ UNCHANGED reading

\* setData, Qt::EditRole and Role_CellIsRefreshing
SetPrice(r, c, price) ==
    /\ ~reading
    /\ ProcessHeaders(shops, comps, [matrix EXCEPT ![r][c].price = price])
    /\ UNCHANGED reading
SetRefreshing(r, c, b) ==
    /\ ~reading
    /\ ProcessHeaders(shops, comps, [matrix EXCEPT ![r][c].refreshing = b])
    /\ UNCHANGED reading

\* resetWorseBestFlags, when a refresh starts
ResetWorseBestFlags ==
    /\ ~reading
    /\ matrix' = [r \in DOMAIN matrix |-> [c \in DOMAIN matrix[r] |->
                     [matrix[r][c] EXCEPT !.best = FALSE, !.worst = FALSE]]]
    /\ UNCHANGED <<shops, comps, reading>>
-----------------------------------------------------------------------------
\* CDataThread::onOpenConf and the XML reader, one element of the file at a
\* time.  saveConf wrote the file, from a table that names no plugin twice;
\* the name of a column without a shop is read back as white space.
OpenConf == ~reading /\ Reset /\ reading' = TRUE

ReadShop(name, b) ==
    /\ reading /\ comps = << >> /\ RoomForShop
    /\ name \in Plugins => \A i \in DOMAIN shops : shops[i].name # name
    /\ LET n  == Len(shops) + 1
           sh == [ColumnInserted(shops, b) EXCEPT ![n].name = name]
       IN  ProcessHeaders(ShopsListUpdated(sh), comps, MatrixAfterInsertColumn)
    /\ UNCHANGED reading

ReadComponent(b) ==
    /\ reading /\ RoomForComp
    /\ \E prices \in [DOMAIN shops -> Prices] :
        LET n == Len(comps) + 1
            m == [MatrixAfterInsertRow EXCEPT ![n] =
                     [c \in DOMAIN shops |-> [@[c] EXCEPT !.price = prices[c]]]]
        IN  ProcessHeaders(shops, Append(comps, b), m)
    /\ UNCHANGED reading

ReadEnd == reading /\ reading' = FALSE /\ UNCHANGED <<shops, comps, matrix>>
-----------------------------------------------------------------------------
Sections(s) == {{i} : i \in DOMAIN s} \cup {DOMAIN s}

Next ==
    \/ AddShop \/ AddComp
    \/ \E c \in DOMAIN shops : RemShop(c)
    \/ \E r \in DOMAIN comps : RemComp(r)
    \/ NewConf \/ OpenConf \/ ReadEnd
    \/ \E b \in BOOLEAN :
        \/ \E S \in Sections(shops) : ActivateShops(S, b)
        \/ \E S \in Sections(comps) : ActivateComps(S, b)
        \/ \E name \in (Plugins \cup {Blank}) : ReadShop(name, b)
        \/ ReadComponent(b)
    \/ \E c \in DOMAIN shops, name \in Plugins \cup {NoName} : RenameShop(c, name)
    \/ \E r \in DOMAIN comps, c \in DOMAIN shops :
        \/ \E price \in Prices : SetPrice(r, c, price)
        \/ \E b \in BOOLEAN : SetRefreshing(r, c, b)
    \/ ResetWorseBestFlags

TableSpec == Init /\ [][Next]_tableVars
-----------------------------------------------------------------------------
\* The type of every variable.
ConfTypeOK ==
    /\ shops \in Seq(Shop) /\ comps \in Seq(BOOLEAN)
    /\ matrix \in Seq(Seq(Cell))
    /\ reading \in BOOLEAN

\* The matrix has a cell for every component and shop, and no row is too short
\* for the iterator of removeColumns, whatever was added, removed, reset or read
\* before: no access of ComputerConfModel.cpp is out of range.
MatrixCoversTable ==
    /\ Len(matrix) >= Len(comps)
    /\ \A r \in DOMAIN matrix : Len(matrix[r]) >= Len(shops)

\* No plugin is named by two columns, since updateShopsList takes the names of
\* the others from what a column is offered; a column is always offered its own.
\* (RefreshData files a search under the name of the shop.)
NoShopTwice ==
    /\ \A i, j \in DOMAIN shops :
        i # j /\ shops[i].name \in Plugins => shops[j].name # shops[i].name
    /\ \A i \in DOMAIN shops :
        shops[i].name # Blank => shops[i].name \in shops[i].available

\* In every row shown at most one cell is marked best, and none that counts is
\* cheaper, also after cells were removed or uncovered, until a flag is reset.
BestIsLeast ==
    \A r \in DOMAIN comps : \A c, d \in DOMAIN shops :
        matrix[r][c].best /\ c # d =>
            /\ ~matrix[r][d].best
            /\ Counts(matrix[r][d]) => matrix[r][c].price <= matrix[r][d].price

\* "[row][column] or [components][shops]" (ComputerConfModel.cpp:92): a cell
\* belongs to its component and its shop, so removing a shop or a component
\* leaves the prices of the others where they were.
PricesFollowHeaders ==
    [][/\ \A s \in DOMAIN shops : RemShop(s) =>
            \A r \in DOMAIN comps', c \in DOMAIN shops' :
                matrix'[r][c].price = matrix[r][IF c < s THEN c ELSE c + 1].price
       /\ \A s \in DOMAIN comps : RemComp(s) =>
            \A r \in DOMAIN comps', c \in DOMAIN shops' :
                matrix'[r][c].price = matrix[IF r < s THEN r ELSE r + 1][c].price]_tableVars
=============================================================================
