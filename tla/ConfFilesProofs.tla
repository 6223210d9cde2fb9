--------------------------- MODULE ConfFilesProofs ---------------------------
(***************************************************************************)
(* The configuration files, for any names, any tables and any texts: which *)
(* file Save may overwrite without asking, the list of recent files, and   *)
(* that what was saved reads back.  What the writer and the reader make of *)
(* a whole table is shown element by element: the folds by which they are  *)
(* defined are taken apart by the facts of FoldFacts.                      *)
(***************************************************************************)
EXTENDS ConfFiles, TLAPS

(***************************************************************************)
(* SaveTarget is inductive as it stands: a name becomes the current file   *)
(* only where the table is read from it or it is ComputerConfShop.xml, and *)
(* the table loses its origin only where the current file is cleared.      *)
(***************************************************************************)
LEMMA SaveTargetInit == FilesInit => SaveTarget
BY DEF FilesInit, SaveTarget

LEMMA OpenConfKeepsTarget ==
    ASSUME SaveTarget, NEW name, OpenConf(name) PROVE SaveTarget'
<1>1. \/ current' = name /\ origin' = name
      \/ current' = NoFile /\ origin' = NoFile
  BY DEF OpenConf, SetCurrentFile
<1> QED BY <1>1 DEF SaveTarget

LEMMA SaveTargetStep ==
    ASSUME SaveTarget, [FilesNext]_fileVars PROVE SaveTarget'
<1>1. CASE Edit
  BY <1>1 DEF SaveTarget, Edit
<1>2. CASE NewConf
  BY <1>2 DEF SaveTarget, NewConf
<1>3. CASE OpenFromDialog
  <2>1. PICK name \in Chosen : OpenConf(name)
    BY <1>3 DEF OpenFromDialog
  <2> QED BY <2>1, OpenConfKeepsTarget
<1>4. CASE OpenRecentFile
  <2>1. PICK i \in DOMAIN recent : OpenConf(recent[i])
    BY <1>4 DEF OpenRecentFile
  <2> QED BY <2>1, OpenConfKeepsTarget
<1>5. CASE SaveConf
  BY <1>5 DEF SaveTarget, SaveConf, SetCurrentFile
<1>6. CASE SaveAsConf
  BY <1>6 DEF SaveTarget, SaveAsConf, SetCurrentFile
<1>7. CASE Restart
  BY <1>7 DEF SaveTarget, Restart
<1>8. CASE UNCHANGED fileVars
  BY <1>8 DEF SaveTarget, fileVars
<1> QED BY <1>1, <1>2, <1>3, <1>4, <1>5, <1>6, <1>7, <1>8 DEF FilesNext

\* The file Save overwrites without asking is always the one the table was
\* read from or ComputerConfShop.xml (onOpenConf, onNewConf, setCurrentFile).
THEOREM SaveTargetHolds == FilesSpec => []SaveTarget
BY SaveTargetInit, SaveTargetStep, PTL DEF FilesSpec
-----------------------------------------------------------------------------
(***************************************************************************)
(* Lists that are filtered: the recent files without a name, the headers   *)
(* with a name.                                                            *)
(***************************************************************************)
Filter == INSTANCE FoldFacts WITH Op <- AddIfIn

LEMMA FilteredSteps ==
    ASSUME NEW s, NEW S, NEW n \in Nat, DOMAIN s = 1..n
    PROVE  \E at : /\ at[0] = << >>
                   /\ \A i \in 1..n : at[i] = AddIfIn(S, at[i - 1], s[i])
                   /\ Filtered(s, S) = at[n]
<1>1. Filter!Fold(S, << >>, s) = Filtered(s, S)
  BY DEF Filtered, Filter!Fold, Filter!FoldLeft, Filter!MapThenFoldSet, Filter!Max, Max,
         FoldLeft, MapThenFoldSet
<1> QED
  BY <1>1, Filter!FoldSteps

\* r holds the elements of s up to position i that are in S, and pos says where
\* each of them was.
Selects(r, pos, s, S, i) ==
    /\ pos \in [1..Len(r) -> 1..i]
    /\ \A k \in 1..Len(r) : r[k] = s[pos[k]] /\ s[pos[k]] \in S
    /\ \A k, l \in 1..Len(r) : k < l => pos[k] < pos[l]
    /\ \A j \in 1..i : s[j] \in S => \E k \in 1..Len(r) : pos[k] = j

LEMMA SelectsNext ==
    ASSUME NEW T, NEW s \in Seq(T), NEW S, NEW r \in Seq(T), NEW i \in 1..Len(s),
           NEW pos, Selects(r, pos, s, S, i - 1)
    PROVE  /\ AddIfIn(S, r, s[i]) \in Seq(T)
           /\ \E q : Selects(AddIfIn(S, r, s[i]), q, s, S, i)
<1>1. i \in Nat /\ i - 1 \in Nat /\ s[i] \in T /\ Len(r) \in Nat /\ i \notin 1..(i - 1)
      /\ \A j \in 1..i : j \in 1..(i - 1) \/ j = i
  OBVIOUS
<1>2. CASE s[i] \notin S
  <2>1. AddIfIn(S, r, s[i]) = r
    BY <1>2 DEF AddIfIn
  <2>2. Selects(r, pos, s, S, i)
    <3>1. pos \in [1..Len(r) -> 1..i]
      BY DEF Selects
    <3> QED
      BY <1>1, <1>2, <3>1 DEF Selects
  <2> QED
    BY <2>1, <2>2
<1>3. CASE s[i] \in S
  <2> DEFINE r2 == Append(r, s[i])
             n  == Len(r)
             q  == [k \in 1..(n + 1) |-> IF k <= n THEN pos[k] ELSE i]
  <2>1. AddIfIn(S, r, s[i]) = r2 /\ r2 \in Seq(T) /\ Len(r2) = n + 1
        /\ r2[n + 1] = s[i] /\ \A k \in 1..n : r2[k] = r[k]
    BY <1>1, <1>3 DEF AddIfIn
  <2>2. \A k \in 1..n : q[k] = pos[k] /\ pos[k] \in 1..(i - 1)
    <3>1. pos \in [1..n -> 1..(i - 1)]
      BY DEF Selects
    <3>2. \A k \in 1..n : k \in 1..(n + 1) /\ k <= n
      BY <1>1
    <3> QED
      BY <3>1, <3>2
  <2>3. q[n + 1] = i /\ DOMAIN q = 1..(n + 1)
    BY <1>1
  <2>4. \A k \in 1..(n + 1) : k \in 1..n \/ k = n + 1
    BY <1>1
  <2>a. 1..n \subseteq 1..(n + 1) /\ n + 1 \in 1..(n + 1) /\ n \in Nat
    BY <1>1
  <2>b. q = [k \in 1..(n + 1) |-> q[k]]
    OBVIOUS
  <2> HIDE DEF r2, q
  <2>5. q \in [1..(n + 1) -> 1..i]
    <3>1. 1..(i - 1) \subseteq 1..i /\ i \in 1..i
      BY <1>1
    <3>2. \A k \in 1..(n + 1) : q[k] \in 1..i
      BY <2>2, <2>3, <2>4, <3>1
    <3> QED
      BY <2>b, <3>2
  <2>6. \A k \in 1..(n + 1) : r2[k] = s[q[k]] /\ s[q[k]] \in S
    BY <1>3, <2>1, <2>2, <2>3, <2>4 DEF Selects
  <2>7. \A k, l \in 1..(n + 1) : k < l => q[k] < q[l]
    <3> SUFFICES ASSUME NEW k \in 1..(n + 1), NEW l \in 1..(n + 1), k < l PROVE q[k] < q[l]
      OBVIOUS
    <3>1. k \in 1..n
      BY <2>a
    <3>2. CASE l \in 1..n
      BY <2>2, <3>1, <3>2 DEF Selects
    <3>3. CASE l = n + 1
      BY <1>1, <2>2, <2>3, <3>1, <3>3
    <3> QED
      BY <2>4, <3>2, <3>3
  <2>8. ASSUME NEW j \in 1..i, s[j] \in S PROVE \E k \in 1..(n + 1) : q[k] = j
    <3>1. CASE j \in 1..(i - 1)
      BY <2>2, <2>8, <2>a, <3>1 DEF Selects
    <3>2. CASE j = i
      BY <2>3, <2>a, <3>2
    <3> QED
      BY <1>1, <3>1, <3>2
  <2>9. Selects(r2, q, s, S, i)
    BY <2>1, <2>5, <2>6, <2>7, <2>8 DEF Selects
  <2> QED
    BY <2>1, <2>9
<1> QED
  BY <1>2, <1>3

\* Filtered(s, S) is the subsequence of s of the elements that are in S.
LEMMA FilteredSelects ==
    ASSUME NEW T, NEW s \in Seq(T), NEW S
    PROVE  /\ Filtered(s, S) \in Seq(T)
           /\ \E pos : Selects(Filtered(s, S), pos, s, S, Len(s))
<1> DEFINE n == Len(s)
<1>1. n \in Nat /\ DOMAIN s = 1..n
  OBVIOUS
<1>2. PICK at : /\ at[0] = << >>
                /\ \A i \in 1..n : at[i] = AddIfIn(S, at[i - 1], s[i])
                /\ Filtered(s, S) = at[n]
  <2> HIDE DEF n
  <2> QED
    BY <1>1, FilteredSteps
<1> DEFINE Good(i) == at[i] \in Seq(T) /\ \E pos : Selects(at[i], pos, s, S, i)
           I == {i \in Nat : i <= n => Good(i)}
<1>3. 0 \in I
  <2>1. at[0] \in Seq(T) /\ Len(at[0]) = 0
    BY <1>2
  <2>2. Selects(at[0], [k \in 1..0 |-> 0], s, S, 0)
    BY <2>1 DEF Selects
  <2> QED
    BY <2>1, <2>2
<1>4. ASSUME NEW i \in Nat, i \in I PROVE i + 1 \in I
  <2> SUFFICES ASSUME i + 1 <= n PROVE Good(i + 1)
    OBVIOUS
  <2>1. i + 1 \in 1..n /\ (i + 1) - 1 = i /\ Good(i)
    BY <1>1, <1>4
  <2>2. at[i + 1] = AddIfIn(S, at[i], s[i + 1])
    BY <1>2, <2>1
  <2>3. PICK pos : Selects(at[i], pos, s, S, (i + 1) - 1)
    BY <2>1
  <2> QED
    BY <2>1, <2>2, <2>3, SelectsNext
<1>5. n \in I
  <2> HIDE DEF I
  <2> QED
    BY <1>1, <1>3, <1>4, Filter!SetInduction
<1> QED
  BY <1>1, <1>2, <1>5

\* setCurrentFile keeps the list without repetition, and puts the name first.
LEMMA SetCurrentFileKeeps ==
    ASSUME recent \in Seq(FileNames), IsInjective(recent),
           NEW name \in FileNames, SetCurrentFile(name)
    PROVE  /\ current' = name /\ recent' \in Seq(FileNames)
           /\ Len(recent') <= MaxRecentFiles /\ IsInjective(recent')
           /\ recent' # << >> /\ Head(recent') = name
<1> DEFINE S == FileNames \ {name}
           others == Filtered(recent, S)
           files == <<name>> \o others
<1>1. others \in Seq(FileNames)
  BY FilteredSelects
<1>2. PICK pos : Selects(others, pos, recent, S, Len(recent))
  BY FilteredSelects
<1>3. Len(others) \in Nat /\ DOMAIN others = 1..Len(others) /\ DOMAIN recent = 1..Len(recent)
  BY <1>1
<1>4. recent' = IF Len(files) > MaxRecentFiles THEN SubSeq(files, 1, MaxRecentFiles) ELSE files
  BY DEF SetCurrentFile
<1>5. /\ \A k, l \in 1..Len(others) : k # l => others[k] # others[l]
      /\ \A k \in 1..Len(others) : others[k] # name
  <2>1. \A k \in 1..Len(others) :
           pos[k] \in 1..Len(recent) /\ others[k] = recent[pos[k]] /\ others[k] \in S
    BY <1>2 DEF Selects
  <2>2. \A k, l \in 1..Len(others) : k < l => pos[k] # pos[l]
    <3>1. \A k, l \in 1..Len(others) : k < l => pos[k] < pos[l]
      BY <1>2 DEF Selects
    <3>2. \A i, j \in 1..Len(recent) : i < j => i # j
      OBVIOUS
    <3> HIDE DEF others
    <3> QED
      BY <2>1, <3>1, <3>2
  <2>3. \A k, l \in 1..Len(others) : k < l => others[k] # others[l]
    <3>1. \A i, j \in 1..Len(recent) : recent[i] = recent[j] => i = j
      BY <1>3 DEF IsInjective
    <3> HIDE DEF others
    <3> QED
      BY <2>1, <2>2, <3>1
  <2>4. \A k, l \in 1..Len(others) : k < l \/ l < k \/ k = l
    BY <1>3
  <2> QED
    BY <2>1, <2>3, <2>4
<1> HIDE DEF others
<1>6. /\ files \in Seq(FileNames) /\ Len(files) = Len(others) + 1
      /\ files[1] = name /\ \A k \in 2..Len(files) : files[k] = others[k - 1]
  BY <1>1
<1>7. \A k, l \in 1..Len(files) : files[k] = files[l] => k = l
  <2>1. \A k \in 1..Len(files) : k = 1 \/ (k \in 2..Len(files) /\ k - 1 \in 1..Len(others))
    BY <1>3, <1>6
  <2> HIDE DEF files
  <2> QED
    BY <1>3, <1>5, <1>6, <2>1
<1> HIDE DEF files
<1>8. CASE Len(files) > MaxRecentFiles
  <2>1. MaxRecentFiles \in Nat \ {0} /\ MaxRecentFiles <= Len(files)
    BY <1>6, <1>8, FilesAssumption
  <2>2. /\ recent' \in Seq(FileNames) /\ Len(recent') = MaxRecentFiles
        /\ \A k \in 1..MaxRecentFiles : recent'[k] = files[k] /\ k \in 1..Len(files)
    BY <1>4, <1>6, <1>8, <2>1
  <2>3. DOMAIN recent' = 1..MaxRecentFiles /\ 1 \in 1..MaxRecentFiles
    BY <2>1, <2>2
  <2>4. Head(recent') = recent'[1] /\ recent' # << >>
    BY <2>1, <2>2
  <2>5. IsInjective(recent')
    BY <1>7, <2>2, <2>3 DEF IsInjective
  <2>6. Len(recent') <= MaxRecentFiles
    BY <2>1, <2>2
  <2>7. recent'[1] = name
    BY <1>6, <2>2, <2>3
  <2>8. current' = name
    BY DEF SetCurrentFile
  <2> QED
    BY <2>2, <2>4, <2>5, <2>6, <2>7, <2>8
<1>9. CASE ~(Len(files) > MaxRecentFiles)
  <2>1. recent' = files /\ Len(files) <= MaxRecentFiles /\ Head(files) = files[1] /\ files # << >>
        /\ DOMAIN files = 1..Len(files)
    BY <1>1, <1>4, <1>6, <1>9, FilesAssumption
  <2> QED
    BY <1>6, <1>7, <2>1 DEF SetCurrentFile, IsInjective
<1> QED
  BY <1>8, <1>9

-----------------------------------------------------------------------------
(***************************************************************************)
(* What the reader does with one element, for a table of shops sh and      *)
(* components co with the cells m, and the reader at cell c.               *)
(***************************************************************************)
Reader(sh, co, m, c) == [table |-> [shops |-> sh, comps |-> co, cells |-> m], cell |-> c]

\* the columns, rows and cells are those of one table
Fits(sh, co, m) ==
    /\ sh \in Seq(Header) /\ co \in Seq(Header) /\ m \in Seq(Seq(Cell))
    /\ Len(m) = Len(co) /\ \A r \in 1..Len(m) : Len(m[r]) = Len(sh)

LEMMA TableFits ==
    ASSUME NEW sh, NEW co, NEW m
    PROVE  IsTable([shops |-> sh, comps |-> co, cells |-> m]) <=> Fits(sh, co, m)
BY DEF IsTable, Fits

\* Each field of a reader is replaced on its own.
LEMMA ReplaceShops ==
    ASSUME NEW sh, NEW co, NEW m, NEW c, NEW v
    PROVE  [Reader(sh, co, m, c) EXCEPT !.table.shops = v] = Reader(v, co, m, c)
BY DEF Reader
LEMMA ReplaceComps ==
    ASSUME NEW sh, NEW co, NEW m, NEW c, NEW v
    PROVE  [Reader(sh, co, m, c) EXCEPT !.table.comps = v] = Reader(sh, v, m, c)
BY DEF Reader
LEMMA ReplaceCells ==
    ASSUME NEW sh, NEW co, NEW m, NEW c, NEW v
    PROVE  [Reader(sh, co, m, c) EXCEPT !.table.cells = v] = Reader(sh, co, v, c)
BY DEF Reader
LEMMA ReplaceCell ==
    ASSUME NEW sh, NEW co, NEW m, NEW c, NEW v
    PROVE  [Reader(sh, co, m, c) EXCEPT !.cell = v] = Reader(sh, co, m, v)
BY DEF Reader

LEMMA ReadShopIs ==
    ASSUME NEW sh, NEW co, NEW m, NEW c, NEW e
    PROVE  ReadShop(Reader(sh, co, m, c), e)
           = Reader(Append(sh, [name |-> TextRead(e.text), active |-> e.active]), co,
                    [r \in DOMAIN m |-> Append(m[r], EmptyCell)], c)
<1> DEFINE R == Reader(sh, co, m, c)
           S == Append(sh, [name |-> TextRead(e.text), active |-> e.active])
           M == [r \in DOMAIN m |-> Append(m[r], EmptyCell)]
<1>1. R.table.shops = sh /\ R.table.cells = m
  BY DEF Reader
<1>2. ReadShop(R, e) = [[R EXCEPT !.table.shops = S] EXCEPT !.table.cells = M]
  <2> HIDE DEF R
  <2> QED
    BY <1>1 DEF ReadShop
<1>3. [R EXCEPT !.table.shops = S] = Reader(S, co, m, c)
  <2> HIDE DEF S, M
  <2> QED
    BY ReplaceShops
<1>4. [Reader(S, co, m, c) EXCEPT !.table.cells = M] = Reader(S, co, M, c)
  <2> HIDE DEF S, M
  <2> QED
    BY ReplaceCells
<1> QED
  BY <1>2, <1>3, <1>4

LEMMA ReadComponentIs ==
    ASSUME NEW sh, NEW co, NEW m, NEW c, NEW e
    PROVE  ReadComponent(Reader(sh, co, m, c), e)
           = Reader(sh, Append(co, [name |-> e.text, active |-> e.active]),
                    Append(m, [k \in DOMAIN sh |-> EmptyCell]), 1)
<1> DEFINE R == Reader(sh, co, m, c)
           C == Append(co, [name |-> e.text, active |-> e.active])
           M == Append(m, [k \in DOMAIN sh |-> EmptyCell])
<1>1. R.table.shops = sh /\ R.table.cells = m /\ R.table.comps = co
  BY DEF Reader
<1>2. ReadComponent(R, e)
      = [[[R EXCEPT !.table.comps = C] EXCEPT !.table.cells = M] EXCEPT !.cell = 1]
  <2> HIDE DEF R
  <2> QED
    BY <1>1 DEF ReadComponent
<1>3. [R EXCEPT !.table.comps = C] = Reader(sh, C, m, c)
  <2> HIDE DEF C, M
  <2> QED
    BY ReplaceComps
<1>4. [Reader(sh, C, m, c) EXCEPT !.table.cells = M] = Reader(sh, C, M, c)
  <2> HIDE DEF C, M
  <2> QED
    BY ReplaceCells
<1>5. [Reader(sh, C, M, c) EXCEPT !.cell = 1] = Reader(sh, C, M, 1)
  <2> HIDE DEF C, M
  <2> QED
    BY ReplaceCell
<1> QED
  BY <1>2, <1>3, <1>4, <1>5

\* setData at a cell the table does not have changes nothing; otherwise it
\* changes one field of a cell of the last row.
LEMMA SetCellOutside ==
    ASSUME NEW sh, NEW co, NEW m, NEW c, NEW field, NEW v, Len(co) = 0 \/ c > Len(sh)
    PROVE  SetCell(Reader(sh, co, m, c), field, v) = Reader(sh, co, m, c)
BY DEF SetCell, Reader

\* the cells with one cell of row r replaced
WithCell(m, r, c, cell) == [m EXCEPT ![r] = [m[r] EXCEPT ![c] = cell]]

LEMMA SetCellInside ==
    ASSUME NEW sh, NEW co, NEW m, Fits(sh, co, m), NEW c \in 1..Len(sh), Len(co) # 0,
           NEW field, NEW v
    PROVE  SetCell(Reader(sh, co, m, c), field, v)
           = Reader(sh, co, WithCell(m, Len(co), c, [m[Len(co)][c] EXCEPT ![field] = v]), c)
<1> DEFINE R == Reader(sh, co, m, c)
           r == Len(co)
           cell == [m[r][c] EXCEPT ![field] = v]
<1>1. R.table.shops = sh /\ R.table.cells = m /\ R.table.comps = co /\ R.cell = c
  BY DEF Reader
<1>2. SetCell(R, field, v) = [R EXCEPT !.table.cells[r][c][field] = v]
  <2>1. ~(r = 0 \/ c > Len(sh))
    BY DEF Fits
  <2> HIDE DEF R
  <2> QED
    BY <1>1, <2>1 DEF SetCell
<1>3. [R EXCEPT !.table.cells[r][c][field] = v]
      = [R EXCEPT !.table.cells = [R.table.cells EXCEPT ![r] =
             [R.table.cells[r] EXCEPT ![c] = [R.table.cells[r][c] EXCEPT ![field] = v]]]]
  <2> HIDE DEF R, r
  <2> QED
    OBVIOUS
<1>4. SetCell(R, field, v) = [R EXCEPT !.table.cells = WithCell(m, r, c, cell)]
  <2> HIDE DEF R, r
  <2> QED
    BY <1>1, <1>2, <1>3 DEF WithCell
<1>5. [R EXCEPT !.table.cells = WithCell(m, r, c, cell)] = Reader(sh, co, WithCell(m, r, c, cell), c)
  BY ReplaceCells
<1> QED
  BY <1>4, <1>5

\* of n columns, m2 differs from m in one cell
CellReplaced(m, m2, r, c, cell, n) ==
    /\ m2[r][c] = cell
    /\ \A d \in 1..n : d # c => m2[r][d] = m[r][d]
    /\ \A q \in 1..Len(m) : q # r => m2[q] = m[q]

LEMMA WithCellFits ==
    ASSUME NEW sh, NEW co, NEW m, Fits(sh, co, m), NEW r \in 1..Len(m), NEW c \in 1..Len(sh),
           NEW cell \in Cell
    PROVE  /\ Fits(sh, co, WithCell(m, r, c, cell))
           /\ CellReplaced(m, WithCell(m, r, c, cell), r, c, cell, Len(sh))
<1> DEFINE row == [m[r] EXCEPT ![c] = cell]
           M == [m EXCEPT ![r] = row]
<1>1. m \in Seq(Seq(Cell)) /\ m[r] \in Seq(Cell) /\ Len(m[r]) = Len(sh)
  BY DEF Fits
<1>2. row \in Seq(Cell) /\ Len(row) = Len(sh)
      /\ row[c] = cell /\ \A d \in 1..Len(sh) : d # c => row[d] = m[r][d]
  BY <1>1
<1> HIDE DEF row
<1>3. M \in Seq(Seq(Cell)) /\ Len(M) = Len(m) /\ M[r] = row
      /\ \A q \in 1..Len(m) : q # r => M[q] = m[q]
  BY <1>1, <1>2
<1>4. WithCell(m, r, c, cell) = M
  BY DEF WithCell, row
<1> HIDE DEF M
<1>5. \A q \in 1..Len(M) : Len(M[q]) = Len(sh)
  BY <1>1, <1>2, <1>3 DEF Fits
<1>6. CellReplaced(m, M, r, c, cell, Len(sh))
  BY <1>2, <1>3 DEF CellReplaced
<1>7. Fits(sh, co, M)
  BY <1>3, <1>5 DEF Fits
<1> QED
  BY <1>4, <1>6, <1>7

LEMMA ReadDataStartIs ==
    ASSUME NEW sh, NEW co, NEW m, Fits(sh, co, m), NEW c \in 1..Len(sh), Len(co) # 0,
           NEW e
    PROVE  ReadDataStart(Reader(sh, co, m, c), e)
           = Reader(sh, co, WithCell(m, Len(co), c, [price |-> e.price, url |-> m[Len(co)][c].url]), c)
<1>1. m[Len(co)][c] \in Cell
  BY DEF Fits
<1>2. [m[Len(co)][c] EXCEPT !["price"] = e.price] = [price |-> e.price, url |-> m[Len(co)][c].url]
  BY <1>1 DEF Cell
<1> QED
  BY <1>2, SetCellInside DEF ReadDataStart

\* A cell element sets the whole cell and goes on to the next one.
LEMMA ReadDataIs ==
    ASSUME NEW sh, NEW co, NEW m, Fits(sh, co, m), NEW c \in 1..Len(sh), Len(co) # 0,
           NEW e \in AnyElement
    PROVE  ReadDataEnd(ReadDataStart(Reader(sh, co, m, c), e), e)
           = Reader(sh, co, WithCell(m, Len(co), c, [price |-> e.price, url |-> TextRead(e.text)]), c + 1)
<1> DEFINE r == Len(co)
           half == [price |-> e.price, url |-> m[r][c].url]
           full == [price |-> e.price, url |-> TextRead(e.text)]
           m1 == WithCell(m, r, c, half)
<1>1. r \in 1..Len(m) /\ m[r][c] \in Cell /\ m \in Seq(Seq(Cell)) /\ c \in 1..Len(m[r])
  BY DEF Fits
<1>2. half \in Cell
  BY <1>1 DEF Cell, AnyElement
<1>3. ReadDataStart(Reader(sh, co, m, c), e) = Reader(sh, co, m1, c)
  BY ReadDataStartIs
<1>4. Fits(sh, co, m1) /\ m1[r][c] = half
  BY <1>1, <1>2, WithCellFits DEF CellReplaced
<1>5. [half EXCEPT !["url"] = TextRead(e.text)] = full
  OBVIOUS
<1>6. WithCell(m1, r, c, full) = WithCell(m, r, c, full)
  <2>1. [m[r] EXCEPT ![c] = full] = [[m[r] EXCEPT ![c] = half] EXCEPT ![c] = full]
    BY <1>1
  <2>2. m1[r] = [m[r] EXCEPT ![c] = half]
    BY <1>1 DEF WithCell
  <2> HIDE DEF half, full
  <2> QED
    BY <1>1, <2>1, <2>2 DEF WithCell
<1> HIDE DEF m1, half
<1>7. SetCell(Reader(sh, co, m1, c), "url", TextRead(e.text)) = Reader(sh, co, WithCell(m, r, c, full), c)
  BY <1>4, <1>5, <1>6, SetCellInside
<1>8. Reader(sh, co, WithCell(m, r, c, full), c).cell = c
  BY DEF Reader
<1>9. [Reader(sh, co, WithCell(m, r, c, full), c) EXCEPT !.cell = c + 1]
      = Reader(sh, co, WithCell(m, r, c, full), c + 1)
  BY ReplaceCell
<1> HIDE DEF full
<1> QED
  BY <1>3, <1>7, <1>8, <1>9 DEF ReadDataEnd, full

-----------------------------------------------------------------------------
(***************************************************************************)
(* Reading element after element: whatever the file, a table comes of it.  *)
(***************************************************************************)
ReadNext(none, reader, e) == ReadElement(reader, e)
Reading == INSTANCE FoldFacts WITH Op <- ReadNext

LEMMA ReadSteps ==
    ASSUME NEW reader, NEW s, NEW n \in Nat, DOMAIN s = 1..n
    PROVE  \E at : /\ at[0] = reader
                   /\ \A i \in 1..n : at[i] = ReadElement(at[i - 1], s[i])
                   /\ ReadAll(reader, s) = at[n]
<1>1. Reading!Fold({}, reader, s) = ReadAll(reader, s)
  BY DEF ReadAll, Reading!Fold, Reading!FoldLeft, Reading!MapThenFoldSet, Reading!Max, Max,
         FoldLeft, MapThenFoldSet, ReadNext
<1>2. \E at : /\ at[0] = reader
              /\ \A i \in 1..n : at[i] = ReadNext({}, at[i - 1], s[i])
              /\ Reading!Fold({}, reader, s) = at[n]
  BY Reading!FoldSteps
<1> QED
  BY <1>1, <1>2 DEF ReadNext

IsReader(reader) ==
    \E sh, co, m : \E c \in Nat \ {0} : reader = Reader(sh, co, m, c) /\ Fits(sh, co, m)

LEMMA ReadShopKeeps ==
    ASSUME NEW sh, NEW co, NEW m, Fits(sh, co, m), NEW c \in Nat \ {0}, NEW e \in AnyElement
    PROVE  IsReader(ReadShop(Reader(sh, co, m, c), e))
<1> DEFINE h == [name |-> TextRead(e.text), active |-> e.active]
           S == Append(sh, h)
           M == [r \in DOMAIN m |-> Append(m[r], EmptyCell)]
<1>1. h \in Header /\ EmptyCell \in Cell
  BY DEF Header, Cell, EmptyCell, TextRead, AnyElement, AllTexts
<1>2. sh \in Seq(Header) /\ m \in Seq(Seq(Cell)) /\ DOMAIN m = 1..Len(m) /\ Len(m) \in Nat
  BY DEF Fits
<1> HIDE DEF h
<1>3. S \in Seq(Header) /\ Len(S) = Len(sh) + 1
  BY <1>1, <1>2
<1>4. ASSUME NEW r \in 1..Len(m)
      PROVE  m[r] \in Seq(Cell) /\ Append(m[r], EmptyCell) \in Seq(Cell)
             /\ Len(Append(m[r], EmptyCell)) = Len(sh) + 1
  <2>1. m[r] \in Seq(Cell) /\ Len(m[r]) = Len(sh)
    BY <1>2 DEF Fits
  <2> QED
    BY <1>1, <2>1
<1>5. M \in Seq(Seq(Cell)) /\ Len(M) = Len(m) /\ \A r \in 1..Len(M) : Len(M[r]) = Len(sh) + 1
  BY <1>2, <1>4
<1>6. ReadShop(Reader(sh, co, m, c), e) = Reader(S, co, M, c)
  BY ReadShopIs DEF h
<1> HIDE DEF S, M
<1>7. Fits(S, co, M)
  BY <1>3, <1>5 DEF Fits
<1> QED
  BY <1>6, <1>7 DEF IsReader

\* of n rows, m2 differs from m in row r
SameBut(m, m2, n, r) == \A q \in 1..n : q # r => m2[q] = m[q]

\* A component element adds a row of empty cells.
LEMMA ComponentFits ==
    ASSUME NEW sh, NEW co, NEW m, Fits(sh, co, m), NEW h \in Header,
           NEW M, M = Append(m, [k \in DOMAIN sh |-> EmptyCell])
    PROVE  Fits(sh, Append(co, h), M) /\ SameBut(m, M, Len(co), Len(co) + 1)
<1> DEFINE row == [k \in DOMAIN sh |-> EmptyCell]
           C == Append(co, h)
<1>0. M = Append(m, row)
  OBVIOUS
<1>1. EmptyCell \in Cell
  BY DEF Cell, EmptyCell, AllTexts
<1>2. sh \in Seq(Header) /\ co \in Seq(Header) /\ m \in Seq(Seq(Cell)) /\ Len(m) = Len(co)
      /\ DOMAIN sh = 1..Len(sh) /\ Len(sh) \in Nat /\ Len(co) \in Nat
  BY DEF Fits
<1>3. row \in Seq(Cell) /\ Len(row) = Len(sh)
  BY <1>1, <1>2
<1> HIDE DEF row
<1>5. C \in Seq(Header) /\ Len(C) = Len(co) + 1
  BY <1>2
<1>6. M \in Seq(Seq(Cell)) /\ Len(M) = Len(co) + 1 /\ M[Len(co) + 1] = row
      /\ \A r \in 1..Len(co) : M[r] = m[r]
  BY <1>0, <1>2, <1>3
<1> HIDE DEF C
<1>7. \A r \in 1..Len(M) : Len(M[r]) = Len(sh)
  <2>1. \A r \in 1..Len(M) : r \in 1..Len(co) \/ r = Len(co) + 1
    BY <1>2, <1>6
  <2> QED
    BY <1>2, <1>3, <1>6, <2>1 DEF Fits
<1>8. Fits(sh, C, M)
  BY <1>2, <1>5, <1>6, <1>7 DEF Fits
<1>9. SameBut(m, M, Len(co), Len(co) + 1)
  BY <1>6 DEF SameBut
<1> QED
  BY <1>8, <1>9 DEF C

LEMMA ReadComponentKeeps ==
    ASSUME NEW sh, NEW co, NEW m, Fits(sh, co, m), NEW c \in Nat \ {0}, NEW e \in AnyElement
    PROVE  IsReader(ReadComponent(Reader(sh, co, m, c), e))
<1> DEFINE h == [name |-> e.text, active |-> e.active]
           M == Append(m, [k \in DOMAIN sh |-> EmptyCell])
<1>1. h \in Header
  BY DEF Header, AnyElement, AllTexts
<1>2. ReadComponent(Reader(sh, co, m, c), e) = Reader(sh, Append(co, h), M, 1)
  BY ReadComponentIs
<1> HIDE DEF h
<1>m. M = Append(m, [k \in DOMAIN sh |-> EmptyCell])
  OBVIOUS
<1> HIDE DEF M
<1>3. Fits(sh, Append(co, h), M)
  BY <1>1, <1>m, ComponentFits
<1> QED
  BY <1>2, <1>3 DEF IsReader

LEMMA ReadDataStartKeeps ==
    ASSUME NEW sh, NEW co, NEW m, Fits(sh, co, m), NEW c \in Nat \ {0}, NEW e \in AnyElement
    PROVE  IsReader(ReadDataStart(Reader(sh, co, m, c), e))
<1>1. CASE Len(co) = 0 \/ c > Len(sh)
  <2>1. ReadDataStart(Reader(sh, co, m, c), e) = Reader(sh, co, m, c)
    BY <1>1, SetCellOutside DEF ReadDataStart
  <2> QED
    BY <2>1 DEF IsReader
<1>2. CASE ~(Len(co) = 0 \/ c > Len(sh))
  <2> DEFINE cell == [price |-> e.price, url |-> m[Len(co)][c].url]
  <2>1. c \in 1..Len(sh) /\ Len(co) \in 1..Len(m) /\ Len(co) # 0
    BY <1>2 DEF Fits
  <2>2. m[Len(co)][c] \in Cell
    BY <2>1 DEF Fits
  <2>3. cell \in Cell
    BY <2>2 DEF Cell, AnyElement
  <2>4. ReadDataStart(Reader(sh, co, m, c), e) = Reader(sh, co, WithCell(m, Len(co), c, cell), c)
    BY <2>1, ReadDataStartIs
  <2> HIDE DEF cell
  <2>5. Fits(sh, co, WithCell(m, Len(co), c, cell))
    BY <2>1, <2>3, WithCellFits
  <2> QED
    BY <2>4, <2>5 DEF IsReader
<1> QED
  BY <1>1, <1>2

LEMMA ReadDataKeeps ==
    ASSUME NEW sh, NEW co, NEW m, Fits(sh, co, m), NEW c \in Nat \ {0}, NEW e \in AnyElement
    PROVE  IsReader(ReadDataEnd(ReadDataStart(Reader(sh, co, m, c), e), e))
<1>1. c + 1 \in Nat \ {0}
  OBVIOUS
<1>2. CASE Len(co) = 0 \/ c > Len(sh)
  <2>1. ReadDataStart(Reader(sh, co, m, c), e) = Reader(sh, co, m, c)
    BY <1>2, SetCellOutside DEF ReadDataStart
  <2>2. SetCell(Reader(sh, co, m, c), "url", TextRead(e.text)) = Reader(sh, co, m, c)
    BY <1>2, SetCellOutside
  <2>3. Reader(sh, co, m, c).cell = c
    BY DEF Reader
  <2>4. [Reader(sh, co, m, c) EXCEPT !.cell = c + 1] = Reader(sh, co, m, c + 1)
    BY ReplaceCell
  <2>5. ReadDataEnd(ReadDataStart(Reader(sh, co, m, c), e), e) = Reader(sh, co, m, c + 1)
    BY <2>1, <2>2, <2>3, <2>4 DEF ReadDataEnd
  <2> QED
    BY <1>1, <2>5 DEF IsReader
<1>3. CASE ~(Len(co) = 0 \/ c > Len(sh))
  <2> DEFINE cell == [price |-> e.price, url |-> TextRead(e.text)]
  <2>1. c \in 1..Len(sh) /\ Len(co) \in 1..Len(m) /\ Len(co) # 0
    BY <1>3 DEF Fits
  <2>2. cell \in Cell
    BY DEF Cell, AnyElement, TextRead, AllTexts
  <2>3. ReadDataEnd(ReadDataStart(Reader(sh, co, m, c), e), e)
        = Reader(sh, co, WithCell(m, Len(co), c, cell), c + 1)
    BY <2>1, ReadDataIs
  <2> HIDE DEF cell
  <2>4. Fits(sh, co, WithCell(m, Len(co), c, cell))
    BY <2>1, <2>2, WithCellFits
  <2> QED
    BY <1>1, <2>3, <2>4 DEF IsReader
<1> QED
  BY <1>2, <1>3

LEMMA ReadElementKeeps ==
    ASSUME NEW reader, IsReader(reader), NEW e \in AnyElement, e.tag # "FOREIGN"
    PROVE  IsReader(ReadElement(reader, e))
<1>1. PICK sh, co, m : \E c \in Nat \ {0} : reader = Reader(sh, co, m, c) /\ Fits(sh, co, m)
  BY DEF IsReader
<1>2. PICK c \in Nat \ {0} : reader = Reader(sh, co, m, c) /\ Fits(sh, co, m)
  BY <1>1
<1>3. e.tag \in {"SHOP", "COMPONENT", "DATA"}
  BY DEF AnyElement
<1>4. CASE e.tag = "SHOP"
  BY <1>2, <1>4, ReadShopKeeps DEF ReadElement
<1>5. CASE e.tag = "COMPONENT"
  BY <1>2, <1>5, ReadComponentKeeps DEF ReadElement
<1>6. CASE e.tag = "DATA"
  BY <1>2, <1>6, ReadDataKeeps DEF ReadElement
<1> QED
  BY <1>3, <1>4, <1>5, <1>6

LEMMA ReadAllKeeps ==
    ASSUME NEW reader, IsReader(reader), NEW s \in Seq(AnyElement),
           \A i \in 1..Len(s) : s[i].tag # "FOREIGN"
    PROVE  IsReader(ReadAll(reader, s))
<1> DEFINE n == Len(s)
<1>1. n \in Nat /\ DOMAIN s = 1..n /\ \A i \in 1..n : s[i] \in AnyElement
  OBVIOUS
<1>2. PICK at : /\ at[0] = reader
                /\ \A i \in 1..n : at[i] = ReadElement(at[i - 1], s[i])
                /\ ReadAll(reader, s) = at[n]
  <2> HIDE DEF n
  <2> QED
    BY <1>1, ReadSteps
<1> DEFINE I == {i \in Nat : i <= n => IsReader(at[i])}
<1>3. 0 \in I
  BY <1>2
<1>4. ASSUME NEW i \in Nat, i \in I PROVE i + 1 \in I
  <2> SUFFICES ASSUME i + 1 <= n PROVE IsReader(at[i + 1])
    OBVIOUS
  <2>1. i + 1 \in 1..n /\ (i + 1) - 1 = i /\ IsReader(at[i])
    BY <1>1, <1>4
  <2> QED
    BY <1>1, <1>2, <2>1, ReadElementKeeps
<1>5. n \in I
  <2> HIDE DEF I
  <2> QED
    BY <1>1, <1>3, <1>4, Reading!SetInduction
<1> QED
  BY <1>1, <1>2, <1>5

\* The first element that is refused, if one is.
LEMMA FirstRefused ==
    ASSUME NEW s \in Seq(AnyElement)
    PROVE  LET bad == SelectInSeq(s, Refused)
           IN  \/ bad = 0 /\ \A i \in 1..Len(s) : ~Refused(s[i])
               \/ bad \in 1..Len(s) /\ Refused(s[bad]) /\ \A i \in 1..(bad - 1) : ~Refused(s[i])
<1> DEFINE I == {i \in 1..Len(s) : Refused(s[i])}
<1>1. SelectInSeq(s, Refused) = IF I # {} THEN Min(I) ELSE 0
  BY DEF SelectInSeq
<1>2. ASSUME I # {} PROVE Min(I) \in I /\ \A i \in I : Min(I) <= i
  <2>1. I \subseteq Nat
    OBVIOUS
  <2>2. \E m \in I : \A i \in I : m <= i
    <3> HIDE DEF I
    <3> QED
      BY <1>2, <2>1, Reading!Least
  <2> HIDE DEF I
  <2> QED
    BY <2>2 DEF Min
<1>3. CASE I = {}
  BY <1>1, <1>3
<1>4. CASE I # {}
  <2>1. \A i \in 1..(Min(I) - 1) : i \in 1..Len(s) /\ ~(Min(I) <= i)
    BY <1>2, <1>4
  <2> QED
    BY <1>1, <1>2, <1>4, <2>1
<1> QED
  BY <1>3, <1>4

\* Whatever a file of elements holds, reading it leaves a table.
LEMMA ReadIsTable == ASSUME NEW s \in Seq(AnyElement) PROVE IsTable(Read(s))
<1> DEFINE bad  == SelectInSeq(s, Refused)
           good == IF bad = 0 THEN s ELSE SubSeq(s, 1, bad - 1)
           end  == ReadAll(ReaderStart, good)
<1>1. \/ bad = 0 /\ \A i \in 1..Len(s) : ~Refused(s[i])
      \/ bad \in 1..Len(s) /\ \A i \in 1..(bad - 1) : ~Refused(s[i])
  BY FirstRefused
<1>2. Read(s) = IF bad # 0 /\ s[bad].tag = "DATA" THEN ReadDataStart(end, s[bad]).table ELSE end.table
  BY DEF Read
<1> HIDE DEF bad
<1>3. good \in Seq(AnyElement) /\ \A i \in 1..Len(good) : good[i].tag # "FOREIGN"
  BY <1>1 DEF Refused
<1>4. IsReader(ReaderStart)
  <2>1. ReaderStart = Reader(<< >>, << >>, << >>, 1)
    BY DEF ReaderStart, Reader, EmptyTable
  <2>2. Fits(<< >>, << >>, << >>)
    BY DEF Fits
  <2> QED
    BY <2>1, <2>2 DEF IsReader
<1> HIDE DEF good
<1>5. IsReader(end)
  BY <1>3, <1>4, ReadAllKeeps
<1> HIDE DEF end
<1>6. \A reader : IsReader(reader) => IsTable(reader.table)
  BY TableFits DEF IsReader, Reader
<1>7. bad # 0 => s[bad] \in AnyElement
  BY <1>1
<1>8. bad # 0 => IsReader(ReadDataStart(end, s[bad]))
  BY <1>5, <1>7, ReadDataStartKeeps DEF IsReader
<1> QED
  BY <1>2, <1>5, <1>6, <1>8

-----------------------------------------------------------------------------
(***************************************************************************)
(* What is written: the elements of a table.                               *)
(***************************************************************************)
\* The headers that are written are those with a name, all of them, in their
\* order (saveConf).
THEOREM NamedHeadersAre ==
    ASSUME NEW h \in Seq(Header)
    PROVE  /\ NamedHeaders(h) \in Seq(1..Len(h))
           /\ \A k, l \in 1..Len(NamedHeaders(h)) :
                 k < l => NamedHeaders(h)[k] < NamedHeaders(h)[l]
           /\ \A i \in 1..Len(h) :
                 h[i].name # Null <=> \E k \in 1..Len(NamedHeaders(h)) : NamedHeaders(h)[k] = i
<1> DEFINE s == [i \in DOMAIN h |-> i]
           S == {i \in DOMAIN h : h[i].name # Null}
           p == NamedHeaders(h)
           n == Len(h)
<1>1. s \in Seq(1..n) /\ Len(s) = n /\ n \in Nat /\ \A i \in 1..n : s[i] = i
  OBVIOUS
<1>2. p = Filtered(s, S)
  BY DEF NamedHeaders
<1>3. \A i \in 1..n : i \in S <=> h[i].name # Null
  OBVIOUS
<1> HIDE DEF s, p, S, n
<1>4. p \in Seq(1..n)
  BY <1>1, <1>2, FilteredSelects
<1>5. PICK pos : Selects(p, pos, s, S, n)
  BY <1>1, <1>2, FilteredSelects
<1>6. \A k \in 1..Len(p) : pos[k] \in 1..n /\ p[k] = pos[k] /\ p[k] \in S
  BY <1>1, <1>5 DEF Selects
<1>7. \A k, l \in 1..Len(p) : k < l => p[k] < p[l]
  <2>1. \A k, l \in 1..Len(p) : k < l => pos[k] < pos[l]
    BY <1>5 DEF Selects
  <2> QED
    BY <1>6, <2>1
<1>8. ASSUME NEW i \in 1..n PROVE i \in S <=> \E k \in 1..Len(p) : p[k] = i
  <2>1. i \in S => \E k \in 1..Len(p) : pos[k] = i
    BY <1>1, <1>5 DEF Selects
  <2> QED
    BY <1>6, <2>1
<1> QED
  BY <1>3, <1>4, <1>7, <1>8 DEF p, n

LEMMA WrittenTextIn == ASSUME NEW text \in AllTexts PROVE WrittenText(text) \in AllTexts
BY FilesAssumption DEF WrittenText, AllTexts, IsBlank

LEMMA HeaderElementIn ==
    ASSUME NEW h \in Header, NEW tag \in {"SHOP", "COMPONENT"}
    PROVE  HeaderElement(tag, h) \in AnyElement
<1>1. WrittenText(h.name) \in AllTexts /\ h.active \in BOOLEAN
  BY WrittenTextIn DEF Header
<1> QED
  BY <1>1 DEF HeaderElement, Element, AnyElement

LEMMA DataElementIn == ASSUME NEW cell \in Cell PROVE DataElement(cell) \in AnyElement
<1>1. cell.price \in Nat /\ cell.url \in AllTexts
  BY DEF Cell
<1>2. WrittenPrice(cell.price) \in Nat
  BY <1>1 DEF WrittenPrice
<1>3. (IF IsBlank(cell.url) THEN Empty ELSE WrittenText(cell.url)) \in AllTexts
  BY <1>1, WrittenTextIn DEF AllTexts
<1> QED
  BY <1>2, <1>3 DEF DataElement, Element, AnyElement


\* the parts of a file: its shops, and its components with their cells
ShopsWritten(sh) == [k \in DOMAIN sh |-> HeaderElement("SHOP", sh[k])]
CellsWritten(row) == [j \in DOMAIN row |-> DataElement(row[j])]
RowWritten(h, row) == <<HeaderElement("COMPONENT", h)>> \o CellsWritten(row)
RowsWritten(co, m) == [k \in DOMAIN co |-> RowWritten(co[k], m[k])]

LEMMA KeptFits ==
    ASSUME NEW t, IsTable(t)
    PROVE  Fits(Kept(t).shops, Kept(t).comps, Kept(t).cells)
<1> DEFINE p == NamedHeaders(t.shops)
           q == NamedHeaders(t.comps)
           sh == [k \in DOMAIN p |-> t.shops[p[k]]]
           co == [k \in DOMAIN q |-> t.comps[q[k]]]
           m == [k \in DOMAIN q |-> [j \in DOMAIN p |-> t.cells[q[k]][p[j]]]]
<1>1. t.shops \in Seq(Header) /\ t.comps \in Seq(Header) /\ t.cells \in Seq(Seq(Cell))
      /\ Len(t.cells) = Len(t.comps) /\ \A r \in 1..Len(t.cells) : Len(t.cells[r]) = Len(t.shops)
  BY DEF IsTable
<1>2. p \in Seq(1..Len(t.shops))
      /\ \A k \in 1..Len(p) : p[k] \in 1..Len(t.shops)
  BY <1>1, NamedHeadersAre
<1>3. q \in Seq(1..Len(t.comps)) /\ \A k \in 1..Len(q) : q[k] \in 1..Len(t.comps)
  BY <1>1, NamedHeadersAre
<1>4. Kept(t).shops = sh /\ Kept(t).comps = co /\ Kept(t).cells = m
  BY DEF Kept
<1> HIDE DEF p, q
<1>5. DOMAIN p = 1..Len(p) /\ Len(p) \in Nat /\ DOMAIN q = 1..Len(q) /\ Len(q) \in Nat
  BY <1>2, <1>3
<1>6. sh \in Seq(Header) /\ Len(sh) = Len(p)
  BY <1>1, <1>2, <1>5
<1>7. co \in Seq(Header) /\ Len(co) = Len(q)
  BY <1>1, <1>3, <1>5
<1>8. ASSUME NEW k \in 1..Len(q) PROVE m[k] \in Seq(Cell) /\ Len(m[k]) = Len(p)
  <2>1. q[k] \in 1..Len(t.cells) /\ t.cells[q[k]] \in Seq(Cell) /\ Len(t.cells[q[k]]) = Len(t.shops)
    BY <1>1, <1>3
  <2>2. \A j \in 1..Len(p) : t.cells[q[k]][p[j]] \in Cell
    BY <1>2, <2>1
  <2>3. m[k] = [j \in DOMAIN p |-> t.cells[q[k]][p[j]]]
    BY <1>5
  <2> HIDE DEF m
  <2> QED
    BY <1>5, <2>2, <2>3
<1>9. m \in Seq(Seq(Cell)) /\ Len(m) = Len(q)
  <2>1. DOMAIN m = 1..Len(q)
    BY <1>5
  <2>2. m = [k \in 1..Len(q) |-> m[k]]
    BY <1>5
  <2> HIDE DEF m
  <2> QED
    BY <1>5, <1>8, <2>1, <2>2
<1> HIDE DEF sh, co, m
<1>10. Fits(sh, co, m)
  BY <1>6, <1>7, <1>8, <1>9 DEF Fits
<1> QED
  BY <1>4, <1>10

\* What is written is what is kept of the table: its named rows and columns.
LEMMA WrittenKept ==
    ASSUME NEW t, IsTable(t)
    PROVE  Written(t) = ShopsWritten(Kept(t).shops)
                        \o FlattenSeq(RowsWritten(Kept(t).comps, Kept(t).cells))
<1> DEFINE p == NamedHeaders(t.shops)
           q == NamedHeaders(t.comps)
           sh == [k \in DOMAIN p |-> t.shops[p[k]]]
           co == [k \in DOMAIN q |-> t.comps[q[k]]]
           m == [k \in DOMAIN q |-> [j \in DOMAIN p |-> t.cells[q[k]][p[j]]]]
           rows == [k \in DOMAIN q |->
                       <<HeaderElement("COMPONENT", t.comps[q[k]])>> \o RowElements(t, q[k])]
<1>1. Kept(t).shops = sh /\ Kept(t).comps = co /\ Kept(t).cells = m
  BY DEF Kept
<1>2. Written(t) = [k \in DOMAIN p |-> HeaderElement("SHOP", t.shops[p[k]])] \o FlattenSeq(rows)
  BY DEF Written
<1>3. [k \in DOMAIN p |-> HeaderElement("SHOP", t.shops[p[k]])] = ShopsWritten(sh)
  BY DEF ShopsWritten
<1>4. ASSUME NEW k \in DOMAIN q PROVE rows[k] = RowWritten(co[k], m[k])
  <2>1. RowElements(t, q[k]) = CellsWritten(m[k])
    <3>1. RowElements(t, q[k]) = [j \in DOMAIN p |-> DataElement(t.cells[q[k]][p[j]])]
      BY DEF RowElements
    <3>2. DOMAIN m[k] = DOMAIN p /\ \A j \in DOMAIN p : m[k][j] = t.cells[q[k]][p[j]]
      OBVIOUS
    <3> HIDE DEF p, q, m
    <3> QED
      BY <3>1, <3>2 DEF CellsWritten
  <2>2. co[k] = t.comps[q[k]]
    OBVIOUS
  <2> HIDE DEF m, co
  <2> QED
    BY <2>1, <2>2 DEF RowWritten
<1>5. DOMAIN co = DOMAIN q /\ DOMAIN rows = DOMAIN q /\ rows = [k \in DOMAIN rows |-> rows[k]]
  OBVIOUS
<1> HIDE DEF co, m, sh, q, rows
<1>6. rows = RowsWritten(co, m)
  BY <1>4, <1>5 DEF RowsWritten
<1> QED
  BY <1>1, <1>2, <1>3, <1>6

LEMMA RowWrittenIn ==
    ASSUME NEW h \in Header, NEW row \in Seq(Cell)
    PROVE  RowWritten(h, row) \in Seq(AnyElement)
<1>1. HeaderElement("COMPONENT", h) \in AnyElement
  BY HeaderElementIn
<1>2. DOMAIN row = 1..Len(row) /\ Len(row) \in Nat
      /\ \A k \in 1..Len(row) : DataElement(row[k]) \in AnyElement
  BY DataElementIn
<1>3. CellsWritten(row) \in Seq(AnyElement)
  BY <1>2 DEF CellsWritten
<1>4. \A a \in AnyElement : \A b \in Seq(AnyElement) : <<a>> \o b \in Seq(AnyElement)
  OBVIOUS
<1> QED
  BY <1>1, <1>3, <1>4 DEF RowWritten

LEMMA PartsIn ==
    ASSUME NEW sh, NEW co, NEW m, Fits(sh, co, m)
    PROVE  /\ ShopsWritten(sh) \in Seq(AnyElement)
           /\ FlattenSeq(RowsWritten(co, m)) \in Seq(AnyElement)
<1>1. /\ DOMAIN sh = 1..Len(sh) /\ DOMAIN co = 1..Len(co) /\ Len(sh) \in Nat /\ Len(co) \in Nat
      /\ \A k \in 1..Len(sh) : sh[k] \in Header
      /\ \A k \in 1..Len(co) : co[k] \in Header /\ m[k] \in Seq(Cell)
  BY DEF Fits
<1>2. \A k \in 1..Len(sh) : HeaderElement("SHOP", sh[k]) \in AnyElement
  BY <1>1, HeaderElementIn
<1>3. \A k \in 1..Len(co) : RowWritten(co[k], m[k]) \in Seq(AnyElement)
  BY <1>1, RowWrittenIn
<1>4. RowsWritten(co, m) \in Seq(Seq(AnyElement))
  BY <1>1, <1>3 DEF RowsWritten
<1>5. Reading!FlattenSeq(RowsWritten(co, m)) \in Seq(AnyElement)
  BY <1>4, Reading!FlattenType
<1> QED
  BY <1>1, <1>2, <1>5 DEF ShopsWritten, FlattenSeq, Reading!FlattenSeq

LEMMA WrittenIn == ASSUME NEW t, IsTable(t) PROVE Written(t) \in Seq(AnyElement)
<1> DEFINE shops == ShopsWritten(Kept(t).shops)
           rows == FlattenSeq(RowsWritten(Kept(t).comps, Kept(t).cells))
<1>1. shops \in Seq(AnyElement) /\ rows \in Seq(AnyElement)
  BY KeptFits, PartsIn
<1>2. Written(t) = shops \o rows
  BY WrittenKept
<1>3. \A a, b \in Seq(AnyElement) : a \o b \in Seq(AnyElement)
  OBVIOUS
<1> QED
  BY <1>1, <1>2, <1>3

-----------------------------------------------------------------------------
(***************************************************************************)
(* Types, and the list of recent files.  Together they are inductive: a    *)
(* name is taken out of the list wherever it is only because the list      *)
(* holds names, and what is opened from the list can be opened.            *)
(***************************************************************************)
FilesInv == FilesTypeOK /\ RecentFiles

LEMMA EmptyTableIs == IsTable(EmptyTable)
<1>1. << >> \in Seq(Header) /\ << >> \in Seq(Seq(Cell)) /\ Len(<< >>) = 0
  OBVIOUS
<1> QED
  BY <1>1 DEF IsTable, EmptyTable

LEMMA FilesInvInit == FilesInit => FilesInv
<1> SUFFICES ASSUME FilesInit PROVE FilesInv
  OBVIOUS
<1>1. Foreign \in Seq(AnyElement)
  BY DEF Foreign, Element, AnyElement, AllTexts
<1>2. recent \in Seq(FileNames) /\ Len(recent) <= MaxRecentFiles /\ IsInjective(recent)
  BY FilesAssumption DEF FilesInit, IsInjective
<1>3. disk \in [FileNames -> Seq(AnyElement)]
  BY <1>1 DEF FilesInit
<1> QED
  BY <1>2, <1>3, EmptyTableIs, FilesAssumption
  DEF FilesInit, FilesInv, FilesTypeOK, RecentFiles, Chosen

\* Saving changes only the file, and what it holds is what the table was.
LEMMA SaveKeeps ==
    ASSUME FilesTypeOK, NEW name \in Chosen, Save(name)
    PROVE  /\ disk' \in [FileNames -> Seq(AnyElement)] /\ DOMAIN saved' = FileNames
           /\ \A f \in FileNames : saved'[f] # NoTable => IsTable(saved'[f])
           /\ \A f \in FileNames :
                 \/ disk'[f] = disk[f] /\ saved'[f] = saved[f]
                 \/ disk'[f] = Written(table) /\ saved'[f] = table
<1>1. CASE UNCHANGED <<disk, saved>>
  BY <1>1 DEF FilesTypeOK
<1>2. CASE /\ name # NoFile /\ disk' = [disk EXCEPT ![name] = Written(table)]
           /\ saved' = [saved EXCEPT ![name] = table]
  <2>1. Written(table) \in Seq(AnyElement) /\ name \in FileNames
    BY <1>2, WrittenIn DEF FilesTypeOK, Chosen
  <2>2. disk \in [FileNames -> Seq(AnyElement)] /\ DOMAIN saved = FileNames
    BY DEF FilesTypeOK
  <2>3. disk' \in [FileNames -> Seq(AnyElement)] /\ DOMAIN saved' = FileNames
    BY <1>2, <2>1, <2>2
  <2>4. \A f \in FileNames :
           disk'[f] = IF f = name THEN Written(table) ELSE disk[f]
    BY <1>2, <2>1, <2>2
  <2>5. \A f \in FileNames :
           saved'[f] = IF f = name THEN table ELSE saved[f]
    BY <1>2, <2>1, <2>2
  <2> QED
    BY <2>3, <2>4, <2>5 DEF FilesTypeOK
<1> QED
  BY <1>1, <1>2 DEF Save

LEMMA OpenConfKeeps ==
    ASSUME FilesInv, NEW name \in Chosen, OpenConf(name) PROVE FilesInv'
<1>1. IsTable(table')
  <2>1. CASE name # NoFile
    <3>1. disk[name] \in Seq(AnyElement)
      BY <2>1 DEF FilesInv, FilesTypeOK, Chosen
    <3> QED
      BY <2>1, <3>1, ReadIsTable DEF OpenConf
  <2>2. CASE name = NoFile
    BY <2>2, EmptyTableIs DEF OpenConf
  <2> QED
    BY <2>1, <2>2
<1>2. /\ disk' \in [FileNames -> Seq(AnyElement)] /\ DOMAIN saved' = FileNames
      /\ \A f \in FileNames : saved'[f] # NoTable => IsTable(saved'[f])
      /\ edits' \in 0..MaxEdits
  BY DEF OpenConf, FilesInv, FilesTypeOK
<1>3. CASE name # NoFile /\ Readable(disk[name])
  <2>1. SetCurrentFile(name) /\ origin' = name /\ name \in FileNames
    BY <1>3 DEF OpenConf, Chosen
  <2>2. /\ current' = name /\ recent' \in Seq(FileNames)
        /\ Len(recent') <= MaxRecentFiles /\ IsInjective(recent')
        /\ recent' # << >> /\ Head(recent') = name
    BY <2>1, SetCurrentFileKeeps DEF FilesInv, FilesTypeOK, RecentFiles
  <2> QED
    BY <1>1, <1>2, <2>1, <2>2 DEF FilesInv, FilesTypeOK, RecentFiles, Chosen
<1>4. CASE ~(name # NoFile /\ Readable(disk[name]))
  <2>1. current' = NoFile /\ origin' = NoFile /\ recent' = recent
    BY <1>4 DEF OpenConf
  <2> QED
    BY <1>1, <1>2, <2>1 DEF FilesInv, FilesTypeOK, RecentFiles, Chosen
<1> QED
  BY <1>3, <1>4

LEMMA SavedKeeps ==
    ASSUME FilesInv, NEW name \in Chosen, Save(name), SetCurrentFile(cstrConfFile),
           UNCHANGED <<table, origin, edits>>
    PROVE  FilesInv'
<1>1. /\ disk' \in [FileNames -> Seq(AnyElement)] /\ DOMAIN saved' = FileNames
      /\ \A f \in FileNames : saved'[f] # NoTable => IsTable(saved'[f])
  BY SaveKeeps DEF FilesInv
<1>2. cstrConfFile \in FileNames
  BY FilesAssumption
<1>3. /\ current' = cstrConfFile /\ recent' \in Seq(FileNames)
      /\ Len(recent') <= MaxRecentFiles /\ IsInjective(recent')
      /\ recent' # << >> /\ Head(recent') = cstrConfFile
  BY <1>2, SetCurrentFileKeeps DEF FilesInv, FilesTypeOK, RecentFiles
<1> QED
  BY <1>1, <1>2, <1>3 DEF FilesInv, FilesTypeOK, RecentFiles, Chosen

\* The name Save writes to is one a file can have, or none.
LEMMA SaveName ==
    ASSUME FilesTypeOK,
           NEW name \in IF current = NoFile THEN Chosen ELSE {current}
    PROVE  name \in Chosen
BY DEF FilesTypeOK

LEMMA FilesInvStep ==
    ASSUME FilesInv, [FilesNext]_fileVars PROVE FilesInv'
<1>1. CASE Edit
  <2>1. IsTable(table') /\ edits' \in 0..MaxEdits
    BY <1>1, FilesAssumption DEF Edit, FilesInv, FilesTypeOK
  <2> QED
    BY <1>1, <2>1 DEF Edit, FilesInv, FilesTypeOK, RecentFiles
<1>2. CASE NewConf
  BY <1>2, EmptyTableIs DEF NewConf, FilesInv, FilesTypeOK, RecentFiles, Chosen
<1>3. CASE OpenFromDialog
  BY <1>3, OpenConfKeeps DEF OpenFromDialog
<1>4. CASE OpenRecentFile
  <2>1. PICK i \in DOMAIN recent : OpenConf(recent[i])
    BY <1>4 DEF OpenRecentFile
  <2>2. recent[i] \in Chosen
    BY DEF FilesInv, FilesTypeOK, Chosen
  <2> QED
    BY <2>1, <2>2, OpenConfKeeps
<1>5. CASE SaveConf
  <2>1. PICK name \in IF current = NoFile THEN Chosen ELSE {current} : Save(name)
    BY <1>5 DEF SaveConf
  <2>2. name \in Chosen
    BY SaveName DEF FilesInv
  <2> QED
    BY <1>5, <2>1, <2>2, SavedKeeps DEF SaveConf
<1>6. CASE SaveAsConf
  <2>1. PICK name \in Chosen : Save(name)
    BY <1>6 DEF SaveAsConf
  <2> QED
    BY <1>6, <2>1, SavedKeeps DEF SaveAsConf
<1>7. CASE Restart
  BY <1>7, EmptyTableIs DEF Restart, FilesInv, FilesTypeOK, RecentFiles, Chosen
<1>8. CASE UNCHANGED fileVars
  BY <1>8 DEF fileVars, FilesInv, FilesTypeOK, RecentFiles, IsInjective
<1> QED
  BY <1>1, <1>2, <1>3, <1>4, <1>5, <1>6, <1>7, <1>8 DEF FilesNext

LEMMA FilesInductive == FilesSpec => []FilesInv
BY FilesInvInit, FilesInvStep, PTL DEF FilesSpec

\* Every file holds elements of the program's own kinds and a foreign one at
\* most, every table read from one is rectangular, and the list of recent files
\* never grows beyond its limit (setCurrentFile, ComponentConfXMLReader).
THEOREM FilesTypeCorrect == FilesSpec => []FilesTypeOK
<1>1. FilesInv => FilesTypeOK
  BY DEF FilesInv
<1> QED
  BY <1>1, FilesInductive, PTL

\* The list of recent files never has a file twice and begins with the current
\* file, if there is one (setCurrentFile, onNewConf, onOpenConf).
THEOREM RecentFilesHolds == FilesSpec => []RecentFiles
<1>1. FilesInv => RecentFiles
  BY DEF FilesInv
<1> QED
  BY <1>1, FilesInductive, PTL

-----------------------------------------------------------------------------
(***************************************************************************)
(* A file that was saved reads back: element by element, what is kept of   *)
(* the table is written, and what is written is read.                      *)
(***************************************************************************)

\* A plain text is written as it is, and does not end the parser.
LEMMA PlainText ==
    ASSUME NEW text \in AllTexts, Plain(text)
    PROVE  WrittenText(text) = text /\ text \notin Malformed
BY FilesAssumption DEF WrittenText, Plain, IsBlank, AllTexts

LEMMA PlainPrice ==
    ASSUME NEW price \in Nat, price % 100 = 0, price < 100000
    PROVE  WrittenPrice(price) = price
<1>1. PICK n \in Nat : price = 100 * n
  <2>1. price \div 100 \in Nat /\ price = 100 * (price \div 100) + (price % 100)
    OBVIOUS
  <2> QED
    BY <2>1
<1>2. (price + 50) \div 100 = n /\ n < 1000
  BY <1>1
<1> QED
  BY <1>1, <1>2 DEF WrittenPrice

\* What is left of a plain cell: the price, and the URL but for white space.
PlainCell(cell) == Plain(cell.url) /\ cell.price % 100 = 0 /\ cell.price < 100000
ReadCell(cell) ==
    [price |-> cell.price, url |-> IF IsBlank(cell.url) THEN Blank ELSE cell.url]

LEMMA DataElementIs ==
    ASSUME NEW cell \in Cell, PlainCell(cell)
    PROVE  /\ DataElement(cell) \in AnyElement /\ ~Refused(DataElement(cell))
           /\ DataElement(cell).tag = "DATA" /\ DataElement(cell).price = cell.price
           /\ TextRead(DataElement(cell).text) = ReadCell(cell).url
           /\ ReadCell(cell) \in Cell
<1>1. cell.price \in Nat /\ cell.url \in AllTexts
  BY DEF Cell
<1>2. WrittenText(cell.url) = cell.url /\ cell.url \notin Malformed
  BY <1>1, PlainText DEF PlainCell
<1>3. WrittenPrice(cell.price) = cell.price
  BY <1>1, PlainPrice DEF PlainCell
<1>4. DataElement(cell) = Element("DATA", IF IsBlank(cell.url) THEN Empty ELSE cell.url, TRUE, cell.price)
  BY <1>2, <1>3 DEF DataElement
<1>5. Empty \notin Malformed /\ Blank \in AllTexts
  BY FilesAssumption DEF AllTexts
<1>6. ReadCell(cell) \in Cell
  BY <1>1, <1>5 DEF ReadCell, Cell
<1>7. cell.url = Empty => IsBlank(cell.url)
  BY DEF IsBlank
<1>8. /\ DataElement(cell).tag = "DATA" /\ DataElement(cell).price = cell.price
      /\ DataElement(cell).text = IF IsBlank(cell.url) THEN Empty ELSE cell.url
  BY <1>4 DEF Element
<1>9. ReadCell(cell).url = IF IsBlank(cell.url) THEN Blank ELSE cell.url
  BY DEF ReadCell
<1>10. ~Refused(DataElement(cell))
  BY <1>2, <1>5, <1>8 DEF Refused
<1> QED
  BY <1>6, <1>7, <1>8, <1>9, <1>10, DataElementIn DEF TextRead

LEMMA HeaderElementIs ==
    ASSUME NEW h \in Header, Plain(h.name), NEW tag \in {"SHOP", "COMPONENT"}
    PROVE  /\ HeaderElement(tag, h) \in AnyElement /\ ~Refused(HeaderElement(tag, h))
           /\ HeaderElement(tag, h).tag = tag
           /\ [name |-> HeaderElement(tag, h).text, active |-> HeaderElement(tag, h).active] = h
<1>1. h.name \in AllTexts /\ h.active \in BOOLEAN /\ h = [name |-> h.name, active |-> h.active]
  BY DEF Header
<1>2. WrittenText(h.name) = h.name /\ h.name \notin Malformed
  BY <1>1, PlainText
<1> QED
  BY <1>1, <1>2, HeaderElementIn DEF HeaderElement, Element, Refused

\* at holds what the reader is after each of the n elements of s
ReadsThrough(at, reader, s, n) ==
    /\ at[0] = reader
    /\ \A i \in 1..n : at[i] = ReadElement(at[i - 1], s[i])
    /\ ReadAll(reader, s) = at[n]

LEMMA ReadThrough ==
    ASSUME NEW reader, NEW s, NEW n \in Nat, DOMAIN s = 1..n
    PROVE  \E at : ReadsThrough(at, reader, s, n)
<1>1. PICK at : /\ at[0] = reader
                /\ \A i \in 1..n : at[i] = ReadElement(at[i - 1], s[i])
                /\ ReadAll(reader, s) = at[n]
  BY ReadSteps
<1>2. ReadsThrough(at, reader, s, n)
  BY <1>1 DEF ReadsThrough
<1> QED
  BY <1>2

\* s is a and b, of lengths n and k, one after the other
Joined(s, a, b, n, k) ==
    /\ n \in Nat /\ k \in Nat /\ DOMAIN a = 1..n /\ DOMAIN b = 1..k /\ DOMAIN s = 1..(n + k)
    /\ \A i \in 1..n : s[i] = a[i]
    /\ \A i \in 1..k : s[n + i] = b[i]

\* Reading on from where a first sequence of elements has led.
LEMMA ReadOn ==
    ASSUME NEW reader, NEW mid, NEW s, NEW a, NEW b, NEW n, NEW k,
           Joined(s, a, b, n, k), mid = ReadAll(reader, a)
    PROVE  ReadAll(reader, s) = ReadAll(mid, b)
<1>j. n \in Nat /\ k \in Nat /\ DOMAIN a = 1..n /\ DOMAIN b = 1..k /\ DOMAIN s = 1..(n + k)
  BY DEF Joined
<1>v. (\A i \in 1..n : s[i] = a[i]) /\ (\A i \in 1..k : s[n + i] = b[i])
  BY DEF Joined
<1> USE <1>j
<1>1. PICK at : ReadsThrough(at, reader, s, n + k)
  <2>1. n + k \in Nat
    OBVIOUS
  <2> QED
    BY <2>1, ReadThrough
<1>2. /\ at[0] = reader
      /\ \A i \in 1..(n + k) : at[i] = ReadElement(at[i - 1], s[i])
      /\ ReadAll(reader, s) = at[n + k]
  BY <1>1 DEF ReadsThrough
<1>3. PICK af : ReadsThrough(af, reader, a, n)
  BY ReadThrough
<1>a. /\ af[0] = reader
      /\ \A i \in 1..n : af[i] = ReadElement(af[i - 1], a[i])
      /\ ReadAll(reader, a) = af[n]
  BY <1>3 DEF ReadsThrough
<1>4. PICK bf : ReadsThrough(bf, mid, b, k)
  BY ReadThrough
<1>b. /\ bf[0] = mid
      /\ \A i \in 1..k : bf[i] = ReadElement(bf[i - 1], b[i])
      /\ ReadAll(mid, b) = bf[k]
  BY <1>4 DEF ReadsThrough
<1> DEFINE I == {i \in Nat : i <= n => at[i] = af[i]}
           J == {i \in Nat : i <= k => at[n + i] = bf[i]}
<1>5. 0 \in I
  BY <1>2, <1>a
<1>6. ASSUME NEW i \in Nat, i \in I PROVE i + 1 \in I
  <2> SUFFICES ASSUME i + 1 <= n PROVE at[i + 1] = af[i + 1]
    OBVIOUS
  <2>1. i + 1 \in 1..n /\ i + 1 \in 1..(n + k) /\ (i + 1) - 1 = i /\ at[i] = af[i]
    BY <1>6
  <2> QED
    BY <1>2, <1>a, <1>v, <2>1
<1>7. n \in I
  <2> HIDE DEF I
  <2> QED
    BY <1>5, <1>6, Reading!SetInduction
<1>8. 0 \in J
  <2>1. n + 0 = n /\ at[n] = af[n]
    BY <1>7
  <2> QED
    BY <1>a, <1>b, <2>1
<1>9. ASSUME NEW i \in Nat, i \in J PROVE i + 1 \in J
  <2> SUFFICES ASSUME i + 1 <= k PROVE at[n + (i + 1)] = bf[i + 1]
    OBVIOUS
  <2>1. /\ i + 1 \in 1..k /\ n + (i + 1) \in 1..(n + k)
        /\ (n + (i + 1)) - 1 = n + i /\ (i + 1) - 1 = i
    <3> HIDE DEF J
    <3> QED
      OBVIOUS
  <2>4. at[n + i] = bf[i]
    BY <1>9
  <2> HIDE DEF J
  <2>2. at[n + (i + 1)] = ReadElement(at[n + i], s[n + (i + 1)])
    BY <1>2, <2>1
  <2>3. s[n + (i + 1)] = b[i + 1]
    BY <1>v, <2>1
  <2> QED
    BY <1>b, <2>1, <2>2, <2>3, <2>4
<1>10. k \in J
  <2> HIDE DEF J
  <2> QED
    BY <1>8, <1>9, Reading!SetInduction
<1> QED
  BY <1>2, <1>b, <1>10

LEMMA ReadConcat ==
    ASSUME NEW reader, NEW T, NEW a \in Seq(T), NEW b \in Seq(T)
    PROVE  ReadAll(reader, a \o b) = ReadAll(ReadAll(reader, a), b)
<1> DEFINE s == a \o b
           n == Len(a)
           k == Len(b)
           mid == ReadAll(reader, a)
<1>1. n \in Nat /\ k \in Nat /\ DOMAIN a = 1..n /\ DOMAIN b = 1..k
  OBVIOUS
<1>2. DOMAIN s = 1..(n + k)
  OBVIOUS
<1>3. (\A i \in 1..n : s[i] = a[i]) /\ (\A i \in 1..k : s[n + i] = b[i])
  OBVIOUS
<1>4. mid = ReadAll(reader, a)
  OBVIOUS
<1> HIDE DEF s, n, k, mid
<1>5. ReadAll(reader, s) = ReadAll(mid, b)
  <2>1. Joined(s, a, b, n, k)
    BY <1>1, <1>2, <1>3 DEF Joined
  <2> QED
    BY <1>4, <2>1, ReadOn
<1> QED
  BY <1>5 DEF s, mid

LEMMA PrefixNext ==
    ASSUME NEW T, NEW s \in Seq(T), NEW i \in Nat, i + 1 <= Len(s)
    PROVE  Append(SubSeq(s, 1, i), s[i + 1]) = SubSeq(s, 1, i + 1)
<1> DEFINE a == SubSeq(s, 1, i)
           b == SubSeq(s, 1, i + 1)
<1>1. a \in Seq(T) /\ Len(a) = i /\ \A k \in 1..i : a[k] = s[k]
  OBVIOUS
<1>2. b \in Seq(T) /\ Len(b) = i + 1 /\ \A k \in 1..(i + 1) : b[k] = s[k]
  OBVIOUS
<1>3. s[i + 1] \in T
  OBVIOUS
<1> HIDE DEF a, b
<1> QED
  BY <1>1, <1>2, <1>3 DEF a, b

LEMMA ReadOne ==
    ASSUME NEW reader, NEW e PROVE ReadAll(reader, <<e>>) = ReadElement(reader, e)
<1>1. DOMAIN <<e>> = 1..1 /\ 1 \in Nat /\ <<e>>[1] = e
  OBVIOUS
<1>2. PICK at : ReadsThrough(at, reader, <<e>>, 1)
  BY <1>1, ReadThrough
<1> QED
  BY <1>1, <1>2 DEF ReadsThrough

\* The shops of a file are the columns, in their order.
LEMMA ReadShops ==
    ASSUME NEW sh \in Seq(Header),
           \A k \in 1..Len(sh) : Plain(sh[k].name) /\ sh[k].name # Empty
    PROVE  ReadAll(ReaderStart, ShopsWritten(sh)) = Reader(sh, << >>, << >>, 1)
<1> DEFINE n == Len(sh)
           s == ShopsWritten(sh)
<1>1. n \in Nat /\ DOMAIN sh = 1..n
  OBVIOUS
<1>2. DOMAIN s = 1..n /\ \A k \in 1..n : s[k] = HeaderElement("SHOP", sh[k])
  BY <1>1 DEF ShopsWritten
<1> HIDE DEF n, s
<1>3. PICK at : ReadsThrough(at, ReaderStart, s, n)
  BY <1>1, <1>2, ReadThrough
<1>4. /\ at[0] = ReaderStart
      /\ \A i \in 1..n : at[i] = ReadElement(at[i - 1], s[i])
      /\ ReadAll(ReaderStart, s) = at[n]
  BY <1>3 DEF ReadsThrough
<1> DEFINE I == {i \in Nat : i <= n => at[i] = Reader(SubSeq(sh, 1, i), << >>, << >>, 1)}
<1>5. 0 \in I
  <2>1. SubSeq(sh, 1, 0) = << >>
    OBVIOUS
  <2>2. ReaderStart = Reader(<< >>, << >>, << >>, 1)
    BY DEF ReaderStart, Reader, EmptyTable
  <2> QED
    BY <1>4, <2>1, <2>2
<1>6. ASSUME NEW i \in Nat, i \in I PROVE i + 1 \in I
  <2> SUFFICES ASSUME i + 1 <= n PROVE at[i + 1] = Reader(SubSeq(sh, 1, i + 1), << >>, << >>, 1)
    OBVIOUS
  <2> DEFINE a == SubSeq(sh, 1, i)
             e == HeaderElement("SHOP", sh[i + 1])
  <2>1. i + 1 \in 1..n /\ (i + 1) - 1 = i /\ at[i] = Reader(a, << >>, << >>, 1)
    BY <1>1, <1>6
  <2>2. sh[i + 1] \in Header /\ Plain(sh[i + 1].name) /\ sh[i + 1].name # Empty
    BY <1>1, <2>1 DEF n
  <2>3. e.tag = "SHOP" /\ [name |-> e.text, active |-> e.active] = sh[i + 1]
    BY <2>2, HeaderElementIs
  <2> HIDE DEF e, a
  <2>4. TextRead(e.text) = e.text
    <3>1. e.text = sh[i + 1].name
      BY <2>3
    <3> QED
      BY <2>2, <3>1 DEF TextRead
  <2>5. at[i + 1] = ReadShop(Reader(a, << >>, << >>, 1), e)
    <3>1. at[i + 1] = ReadElement(at[i], s[i + 1]) /\ s[i + 1] = e
      BY <1>2, <1>4, <2>1 DEF e
    <3> QED
      BY <2>1, <2>3, <3>1 DEF ReadElement
  <2>6. [r \in DOMAIN << >> |-> Append(<< >>[r], EmptyCell)] = << >>
    OBVIOUS
  <2>7. at[i + 1] = Reader(Append(a, sh[i + 1]), << >>, << >>, 1)
    <3>1. ReadShop(Reader(a, << >>, << >>, 1), e)
          = Reader(Append(a, [name |-> TextRead(e.text), active |-> e.active]), << >>,
                   [r \in DOMAIN << >> |-> Append(<< >>[r], EmptyCell)], 1)
      <4> DEFINE none == << >>
      <4> HIDE DEF none
      <4>1. ReadShop(Reader(a, none, none, 1), e)
            = Reader(Append(a, [name |-> TextRead(e.text), active |-> e.active]), none,
                     [r \in DOMAIN none |-> Append(none[r], EmptyCell)], 1)
        BY ReadShopIs
      <4> QED
        BY <4>1 DEF none
    <3>2. [name |-> TextRead(e.text), active |-> e.active] = sh[i + 1]
      BY <2>3, <2>4
    <3> QED
      BY <2>5, <2>6, <3>1, <3>2
  <2>8. Append(a, sh[i + 1]) = SubSeq(sh, 1, i + 1)
    BY PrefixNext DEF a, n
  <2> QED
    BY <2>7, <2>8
<1>7. n \in I
  <2> HIDE DEF I
  <2> QED
    BY <1>1, <1>5, <1>6, Reading!SetInduction
<1>8. SubSeq(sh, 1, n) = sh
  BY DEF n
<1>9. at[n] = Reader(SubSeq(sh, 1, n), << >>, << >>, 1)
  BY <1>1, <1>7
<1> HIDE DEF I
<1> QED
  BY <1>4, <1>8, <1>9 DEF s

\* the cells m of row r up to column j are what is read of those of row
RowRead(m, r, row, j) == \A d \in 1..j : m[r][d] = ReadCell(row[d])
PlainRow(row) == \A d \in 1..Len(row) : PlainCell(row[d])

\* The cell elements of a component fill the last row, from left to right.
LEMMA ReadCells ==
    ASSUME NEW sh, NEW co, NEW m, Fits(sh, co, m), Len(co) # 0,
           NEW row \in Seq(Cell), Len(row) = Len(sh), PlainRow(row)
    PROVE  \E m2 : /\ ReadAll(Reader(sh, co, m, 1), CellsWritten(row))
                      = Reader(sh, co, m2, Len(sh) + 1)
                   /\ Fits(sh, co, m2) /\ SameBut(m, m2, Len(co), Len(co))
                   /\ RowRead(m2, Len(co), row, Len(sh))
<1> DEFINE n == Len(sh)
           r == Len(co)
           s == CellsWritten(row)
           from == Reader(sh, co, m, 1)
<1>1. n \in Nat /\ r \in Nat /\ r \in 1..Len(m) /\ Len(m) = r
  BY DEF Fits
<1>2. DOMAIN s = 1..n /\ \A k \in 1..n : s[k] = DataElement(row[k])
  BY <1>1 DEF CellsWritten
<1>r. \A k \in 1..n : row[k] \in Cell /\ PlainCell(row[k])
  BY DEF PlainRow
<1> HIDE DEF s, from
<1>3. PICK at : ReadsThrough(at, from, s, n)
  <2> HIDE DEF n
  <2> QED
    BY <1>1, <1>2, ReadThrough
<1>4. /\ at[0] = from
      /\ \A i \in 1..n : at[i] = ReadElement(at[i - 1], s[i])
      /\ ReadAll(from, s) = at[n]
  BY <1>3 DEF ReadsThrough
<1> DEFINE Good(i, m2) == /\ at[i] = Reader(sh, co, m2, i + 1)
                          /\ Fits(sh, co, m2) /\ SameBut(m, m2, r, r)
                          /\ RowRead(m2, r, row, i)
           I == {i \in Nat : i <= n => \E m2 : Good(i, m2)}
<1>5. 0 \in I
  <2>1. SameBut(m, m, r, r) /\ RowRead(m, r, row, 0)
    BY DEF SameBut, RowRead
  <2>2. Good(0, m)
    BY <1>4, <2>1 DEF from
  <2> QED
    BY <2>2
<1>6. ASSUME NEW i \in Nat, i \in I PROVE i + 1 \in I
  <2> SUFFICES ASSUME i + 1 <= n PROVE \E m2 : Good(i + 1, m2)
    OBVIOUS
  <2>1. i + 1 \in 1..n /\ (i + 1) - 1 = i
    BY <1>1
  <2>2. PICK m1 : Good(i, m1)
    BY <1>1, <1>6, <2>1
  <2> DEFINE c == i + 1
             e == DataElement(row[c])
             cell == ReadCell(row[c])
             m2 == WithCell(m1, r, c, cell)
  <2>3. /\ e \in AnyElement /\ e.tag = "DATA" /\ e.price = row[c].price
        /\ TextRead(e.text) = cell.url /\ cell \in Cell
    BY <1>r, <2>1, DataElementIs
  <2>4. cell = [price |-> e.price, url |-> TextRead(e.text)]
    BY <2>3 DEF ReadCell
  <2> HIDE DEF e, cell
  <2>5. at[c] = ReadElement(at[i], e)
    <3>1. at[c] = ReadElement(at[i], s[c]) /\ s[c] = e
      BY <1>2, <1>4, <2>1 DEF e
    <3> QED
      BY <3>1
  <2>6. at[c] = ReadDataEnd(ReadDataStart(Reader(sh, co, m1, c), e), e)
    BY <2>2, <2>3, <2>5 DEF ReadElement
  <2>7. c \in 1..n /\ r # 0 /\ Fits(sh, co, m1)
    BY <2>1, <2>2
  <2> HIDE DEF c
  <2>8. at[c] = Reader(sh, co, m2, c + 1)
    BY <2>3, <2>4, <2>6, <2>7, ReadDataIs
  <2>9. r \in 1..Len(m1) /\ Len(m1) = r
    BY <1>1, <2>7 DEF Fits
  <2>10. /\ Fits(sh, co, m2) /\ m2[r][c] = cell
         /\ \A d \in 1..n : d # c => m2[r][d] = m1[r][d]
         /\ \A q \in 1..r : q # r => m2[q] = m1[q]
    <3> HIDE DEF r, m2
    <3>1. /\ Fits(sh, co, WithCell(m1, r, c, cell))
          /\ CellReplaced(m1, WithCell(m1, r, c, cell), r, c, cell, Len(sh))
      BY <2>3, <2>7, <2>9, WithCellFits
    <3>2. Fits(sh, co, m2) /\ CellReplaced(m1, m2, r, c, cell, n)
      BY <3>1 DEF m2
    <3> QED
      BY <2>9, <3>2 DEF CellReplaced
  <2> HIDE DEF m2
  <2>11. SameBut(m, m2, r, r)
    BY <2>2, <2>10 DEF SameBut
  <2>12. RowRead(m2, r, row, c)
    <3> SUFFICES ASSUME NEW d \in 1..c PROVE m2[r][d] = ReadCell(row[d])
      BY DEF RowRead
    <3>1. CASE d = c
      BY <2>10, <3>1 DEF cell
    <3>2. CASE d # c
      <4>1. d \in 1..i /\ d \in 1..n
        BY <2>1, <3>2 DEF c
      <4>2. m2[r][d] = m1[r][d]
        BY <2>10, <3>2, <4>1
      <4>3. m1[r][d] = ReadCell(row[d])
        BY <2>2, <4>1 DEF RowRead
      <4> QED
        BY <4>2, <4>3
    <3> QED
      BY <3>1, <3>2
  <2>13. Good(c, m2)
    BY <2>8, <2>10, <2>11, <2>12
  <2> HIDE DEF Good
  <2> QED
    BY <2>13 DEF c
<1>7. n \in I
  <2> HIDE DEF I, n
  <2> QED
    BY <1>1, <1>5, <1>6, Reading!SetInduction
<1>8. PICK m2 : Good(n, m2)
  BY <1>1, <1>7
<1> QED
  BY <1>4, <1>8 DEF s, from

\* A component of a file is a row, after the rows before it.
LEMMA ReadRow ==
    ASSUME NEW sh, NEW co, NEW m, Fits(sh, co, m), NEW c, NEW h \in Header, Plain(h.name),
           NEW row \in Seq(Cell), Len(row) = Len(sh), PlainRow(row)
    PROVE  \E m2 : /\ ReadAll(Reader(sh, co, m, c), RowWritten(h, row))
                      = Reader(sh, Append(co, h), m2, Len(sh) + 1)
                   /\ Fits(sh, Append(co, h), m2)
                   /\ \A q \in 1..Len(co) : m2[q] = m[q]
                   /\ RowRead(m2, Len(co) + 1, row, Len(sh))
<1> DEFINE e == HeaderElement("COMPONENT", h)
           from == Reader(sh, co, m, c)
           C == Append(co, h)
           M == Append(m, [k \in DOMAIN sh |-> EmptyCell])
<1>1. /\ e \in AnyElement /\ e.tag = "COMPONENT"
      /\ [name |-> e.text, active |-> e.active] = h
  BY HeaderElementIs
<1> HIDE DEF e
<1>2. ReadElement(from, e) = Reader(sh, C, M, 1)
  <2>1. ReadElement(from, e) = ReadComponent(from, e)
    BY <1>1 DEF ReadElement
  <2>2. ReadComponent(from, e)
        = Reader(sh, Append(co, [name |-> e.text, active |-> e.active]), M, 1)
    BY ReadComponentIs
  <2> QED
    BY <1>1, <2>1, <2>2
<1>3. Fits(sh, C, M) /\ SameBut(m, M, Len(co), Len(co) + 1)
  <2> HIDE DEF M
  <2>1. M = Append(m, [k \in DOMAIN sh |-> EmptyCell])
    BY DEF M
  <2> QED
    BY <2>1, ComponentFits
<1>4. co \in Seq(Header) /\ Len(C) = Len(co) + 1 /\ Len(C) # 0 /\ Len(co) \in Nat
  <2>1. co \in Seq(Header)
    BY DEF Fits
  <2> QED
    BY <2>1
<1> HIDE DEF C, M
<1>5. PICK m2 : /\ ReadAll(Reader(sh, C, M, 1), CellsWritten(row)) = Reader(sh, C, m2, Len(sh) + 1)
                /\ Fits(sh, C, m2) /\ SameBut(M, m2, Len(C), Len(C))
                /\ RowRead(m2, Len(C), row, Len(sh))
  BY <1>3, <1>4, ReadCells
<1>6. \A q \in 1..Len(co) : m2[q] = m[q]
  <2>1. \A q \in 1..Len(co) : q \in 1..Len(C) /\ q # Len(C) /\ q # Len(co) + 1
    BY <1>4
  <2> QED
    BY <1>3, <1>5, <2>1 DEF SameBut
<1>7. CellsWritten(row) \in Seq(AnyElement)
  <2>1. DOMAIN row = 1..Len(row) /\ Len(row) \in Nat
        /\ \A k \in 1..Len(row) : DataElement(row[k]) \in AnyElement
    BY DataElementIn
  <2> QED
    BY <2>1 DEF CellsWritten
<1> DEFINE a == <<e>>
           b == CellsWritten(row)
<1>8. a \in Seq(AnyElement) /\ b \in Seq(AnyElement) /\ ReadAll(from, a) = Reader(sh, C, M, 1)
  BY <1>1, <1>2, <1>7, ReadOne
<1>9. RowWritten(h, row) = a \o b
  BY DEF RowWritten, e
<1> HIDE DEF a, b, from
<1>10. ReadAll(from, a \o b) = ReadAll(Reader(sh, C, M, 1), b)
  BY <1>8, ReadConcat
<1>11. ReadAll(from, RowWritten(h, row)) = Reader(sh, C, m2, Len(sh) + 1)
  BY <1>5, <1>9, <1>10 DEF b
<1> QED
  BY <1>4, <1>5, <1>6, <1>11 DEF from, C

\* The components of a file are the rows, each with its own prices and URLs.
LEMMA ReadRows ==
    ASSUME NEW sh, NEW co, NEW m, Fits(sh, co, m),
           \A k \in 1..Len(co) : Plain(co[k].name) /\ PlainRow(m[k])
    PROVE  \E m2, c : /\ ReadAll(Reader(sh, << >>, << >>, 1), FlattenSeq(RowsWritten(co, m)))
                         = Reader(sh, co, m2, c)
                      /\ Fits(sh, co, m2)
                      /\ \A k \in 1..Len(co) : RowRead(m2, k, m[k], Len(sh))
<1> DEFINE n == Len(co)
           ss == RowsWritten(co, m)
           from == Reader(sh, << >>, << >>, 1)
<1>1. n \in Nat /\ DOMAIN co = 1..n /\ co \in Seq(Header) /\ sh \in Seq(Header)
      /\ \A k \in 1..n : co[k] \in Header /\ m[k] \in Seq(Cell) /\ Len(m[k]) = Len(sh)
  BY DEF Fits
<1>2. \A k \in 1..n : RowWritten(co[k], m[k]) \in Seq(AnyElement)
  BY <1>1, RowWrittenIn
<1>3. ss = [k \in 1..n |-> RowWritten(co[k], m[k])]
  BY <1>1 DEF RowsWritten
<1> HIDE DEF n, ss, from
<1>4. ss \in Seq(Seq(AnyElement)) /\ Len(ss) = n /\ \A k \in 1..n : ss[k] = RowWritten(co[k], m[k])
  BY <1>1, <1>2, <1>3
<1>5. PICK at : Reading!Concatenates(at, ss, n, AnyElement)
  BY <1>4, Reading!FlattenConcatenates
<1>6. /\ at[0] = << >>
      /\ \A i \in 0..n : at[i] \in Seq(AnyElement)
      /\ \A i \in 1..n : at[i] = at[i - 1] \o ss[i]
      /\ FlattenSeq(ss) = at[n]
  BY <1>5 DEF Reading!Concatenates, FlattenSeq, Reading!FlattenSeq
<1> DEFINE Good(i, C, m2, c) == /\ C = SubSeq(co, 1, i)
                                /\ ReadAll(from, at[i]) = Reader(sh, C, m2, c)
                                /\ Fits(sh, C, m2)
                                /\ \A k \in 1..i : RowRead(m2, k, m[k], Len(sh))
           I == {i \in Nat : i <= n => \E C, m2, c : Good(i, C, m2, c)}
<1>7. 0 \in I
  <2>1. SubSeq(co, 1, 0) = << >>
    BY <1>1
  <2>2. ReadAll(from, << >>) = from
    <3>1. DOMAIN << >> = 1..0
      OBVIOUS
    <3>2. PICK f : ReadsThrough(f, from, << >>, 0)
      BY <3>1, ReadThrough
    <3> QED
      BY <3>2 DEF ReadsThrough
  <2>3. Fits(sh, << >>, << >>)
    BY <1>1 DEF Fits
  <2>4. Good(0, << >>, << >>, 1)
    BY <1>6, <2>1, <2>2, <2>3 DEF from
  <2> HIDE DEF Good
  <2> QED
    BY <2>4
<1>8. ASSUME NEW i \in Nat, i \in I PROVE i + 1 \in I
  <2> SUFFICES ASSUME i + 1 <= n PROVE \E C, m2, c : Good(i + 1, C, m2, c)
    OBVIOUS
  <2>1. i + 1 \in 1..n /\ (i + 1) - 1 = i /\ i \in 0..n
    BY <1>1
  <2>2. PICK C, m1, c : Good(i, C, m1, c)
    BY <1>1, <1>8, <2>1
  <2> DEFINE h == co[i + 1]
             row == m[i + 1]
             C2 == Append(C, h)
  <2>3. h \in Header /\ Plain(h.name) /\ row \in Seq(Cell) /\ Len(row) = Len(sh) /\ PlainRow(row)
    BY <1>1, <2>1 DEF n
  <2>4. Len(C) = i /\ Fits(sh, C, m1)
    BY <1>1, <2>1, <2>2 DEF n
  <2>5. C2 = SubSeq(co, 1, i + 1)
    BY <1>1, <2>1, <2>2, PrefixNext DEF n
  <2> HIDE DEF h, row, C2
  <2>6. PICK m2 : /\ ReadAll(Reader(sh, C, m1, c), RowWritten(h, row))
                     = Reader(sh, Append(C, h), m2, Len(sh) + 1)
                  /\ Fits(sh, Append(C, h), m2)
                  /\ \A q \in 1..Len(C) : m2[q] = m1[q]
                  /\ RowRead(m2, Len(C) + 1, row, Len(sh))
    BY <2>3, <2>4, ReadRow
  <2>7. ReadAll(from, at[i + 1]) = Reader(sh, C2, m2, Len(sh) + 1)
    <3>1. at[i + 1] = at[i] \o RowWritten(h, row)
      BY <1>4, <1>6, <2>1 DEF h, row
    <3>2. at[i] \in Seq(AnyElement) /\ RowWritten(h, row) \in Seq(AnyElement)
      BY <1>6, <2>1, <2>3, RowWrittenIn
    <3>3. ReadAll(from, at[i] \o RowWritten(h, row))
          = ReadAll(ReadAll(from, at[i]), RowWritten(h, row))
      BY <3>2, ReadConcat
    <3> QED
      BY <2>2, <2>6, <3>1, <3>3 DEF C2
  <2>8. \A k \in 1..(i + 1) : RowRead(m2, k, m[k], Len(sh))
    <3> SUFFICES ASSUME NEW k \in 1..(i + 1) PROVE RowRead(m2, k, m[k], Len(sh))
      OBVIOUS
    <3>1. CASE k = i + 1
      BY <2>4, <2>6, <3>1 DEF row
    <3>2. CASE k # i + 1
      <4>1. k \in 1..i
        BY <3>2
      <4>2. m2[k] = m1[k] /\ RowRead(m1, k, m[k], Len(sh))
        BY <2>2, <2>4, <2>6, <4>1
      <4> QED
        BY <4>2 DEF RowRead
    <3> QED
      BY <3>1, <3>2
  <2>9. Good(i + 1, C2, m2, Len(sh) + 1)
    BY <2>5, <2>6, <2>7, <2>8 DEF C2
  <2> HIDE DEF Good
  <2> QED
    BY <2>9
<1>9. n \in I
  <2> HIDE DEF I
  <2> QED
    BY <1>1, <1>7, <1>8, Reading!SetInduction
<1>10. PICK C, m2, c : Good(n, C, m2, c)
  <2> HIDE DEF Good
  <2> QED
    BY <1>1, <1>9
<1>11. SubSeq(co, 1, n) = co
  BY <1>1 DEF n
<1>12. /\ ReadAll(from, FlattenSeq(ss)) = Reader(sh, co, m2, c)
       /\ Fits(sh, co, m2)
       /\ \A k \in 1..n : RowRead(m2, k, m[k], Len(sh))
  BY <1>6, <1>10, <1>11
<1> QED
  BY <1>12 DEF ss, from, n

\* What IsPlain says of the headers and of the rows.
LEMMA PlainParts ==
    ASSUME NEW u, IsPlain(u), Fits(u.shops, u.comps, u.cells)
    PROVE  /\ \A k \in 1..Len(u.shops) : Plain(u.shops[k].name) /\ u.shops[k].name # Empty
           /\ \A k \in 1..Len(u.comps) : Plain(u.comps[k].name) /\ PlainRow(u.cells[k])
<1>1. /\ DOMAIN u.shops = 1..Len(u.shops) /\ DOMAIN u.comps = 1..Len(u.comps)
      /\ DOMAIN u.cells = 1..Len(u.comps)
      /\ \A k \in 1..Len(u.comps) : DOMAIN u.cells[k] = 1..Len(u.cells[k])
  BY DEF Fits
<1>2. \A k \in 1..Len(u.shops) : u.shops[k] \in Range(u.shops)
  BY <1>1 DEF Range
<1>3. \A k \in 1..Len(u.comps) : u.comps[k] \in Range(u.comps)
  BY <1>1 DEF Range
<1>4. /\ \A h \in Range(u.shops) : Plain(h.name) /\ h.name # Empty
      /\ \A h \in Range(u.comps) : Plain(h.name)
      /\ \A r \in DOMAIN u.cells : \A c \in DOMAIN u.cells[r] : PlainCell(u.cells[r][c])
  BY DEF IsPlain, PlainCell
<1>5. \A k \in 1..Len(u.comps) : PlainRow(u.cells[k])
  BY <1>1, <1>4 DEF PlainRow
<1> QED
  BY <1>2, <1>3, <1>4, <1>5

\* Nothing that is written of a plain table ends the parser.
LEMMA WrittenReadable ==
    ASSUME NEW sh, NEW co, NEW m, Fits(sh, co, m),
           \A k \in 1..Len(sh) : Plain(sh[k].name),
           \A k \in 1..Len(co) : Plain(co[k].name) /\ PlainRow(m[k])
    PROVE  ShopsWritten(sh) \o FlattenSeq(RowsWritten(co, m)) \in Seq({e \in AnyElement : ~Refused(e)})
<1> DEFINE G == {e \in AnyElement : ~Refused(e)}
<1>1. /\ DOMAIN sh = 1..Len(sh) /\ DOMAIN co = 1..Len(co) /\ Len(sh) \in Nat /\ Len(co) \in Nat
      /\ \A k \in 1..Len(sh) : sh[k] \in Header
      /\ \A k \in 1..Len(co) : co[k] \in Header /\ m[k] \in Seq(Cell)
  BY DEF Fits
<1>2. \A k \in 1..Len(sh) : HeaderElement("SHOP", sh[k]) \in G
  BY <1>1, HeaderElementIs
<1>3. ASSUME NEW k \in 1..Len(co) PROVE RowWritten(co[k], m[k]) \in Seq(G)
  <2>1. HeaderElement("COMPONENT", co[k]) \in G
    BY <1>1, HeaderElementIs
  <2>2. DOMAIN m[k] = 1..Len(m[k]) /\ Len(m[k]) \in Nat
        /\ \A j \in 1..Len(m[k]) : m[k][j] \in Cell /\ PlainCell(m[k][j])
    BY <1>1 DEF PlainRow
  <2>3. \A j \in 1..Len(m[k]) : DataElement(m[k][j]) \in G
    BY <2>2, DataElementIs
  <2> HIDE DEF G
  <2>4. CellsWritten(m[k]) \in Seq(G)
    BY <2>2, <2>3 DEF CellsWritten
  <2>5. \A a \in G : \A b \in Seq(G) : <<a>> \o b \in Seq(G)
    OBVIOUS
  <2> QED
    BY <2>1, <2>4, <2>5 DEF RowWritten
<1> HIDE DEF G
<1>4. ShopsWritten(sh) \in Seq(G)
  BY <1>1, <1>2 DEF ShopsWritten
<1>5. RowsWritten(co, m) \in Seq(Seq(G))
  BY <1>1, <1>3 DEF RowsWritten
<1>6. FlattenSeq(RowsWritten(co, m)) \in Seq(G)
  <2>1. Reading!FlattenSeq(RowsWritten(co, m)) \in Seq(G)
    BY <1>5, Reading!FlattenType
  <2> QED
    BY <2>1 DEF FlattenSeq, Reading!FlattenSeq
<1>7. \A a, b \in Seq(G) : a \o b \in Seq(G)
  OBVIOUS
<1>8. ShopsWritten(sh) \o FlattenSeq(RowsWritten(co, m)) \in Seq(G)
  BY <1>4, <1>6, <1>7
<1> QED
  BY <1>8 DEF G

\* What is kept of a table, if it is plain, is what its file reads back as.
LEMMA PlainTableReadsBack ==
    ASSUME NEW t, IsTable(t), IsPlain(Kept(t)) PROVE ReadsBack(Kept(t), Written(t))
<1> DEFINE u == Kept(t)
           sh == u.shops
           co == u.comps
           m == u.cells
           shops == ShopsWritten(sh)
           rows == FlattenSeq(RowsWritten(co, m))
           s == shops \o rows
<1>1. Fits(sh, co, m)
  BY KeptFits
<1>2. Written(t) = s
  BY WrittenKept
<1>3. /\ \A k \in 1..Len(sh) : Plain(sh[k].name) /\ sh[k].name # Empty
      /\ \A k \in 1..Len(co) : Plain(co[k].name) /\ PlainRow(m[k])
  <2> HIDE DEF u
  <2>1. IsPlain(u)
    BY DEF u
  <2> QED
    BY <1>1, <2>1, PlainParts
<1>u. u.shops = sh /\ u.comps = co /\ u.cells = m
  OBVIOUS
<1> HIDE DEF u, sh, co, m, s
<1>4. s \in Seq(AnyElement) /\ \A i \in 1..Len(s) : ~Refused(s[i])
  <2>1. s \in Seq({e \in AnyElement : ~Refused(e)})
    BY <1>1, <1>3, WrittenReadable DEF s
  <2> QED
    BY <2>1
<1>5. SelectInSeq(s, Refused) = 0
  BY <1>4, FirstRefused
<1>6. Read(s) = ReadAll(ReaderStart, s).table
  <2> DEFINE bad == SelectInSeq(s, Refused)
             good == IF bad = 0 THEN s ELSE SubSeq(s, 1, bad - 1)
             end == ReadAll(ReaderStart, good)
  <2>1. Read(s) = IF bad # 0 /\ s[bad].tag = "DATA" THEN ReadDataStart(end, s[bad]).table ELSE end.table
    BY DEF Read
  <2>2. bad = 0
    BY <1>5
  <2> HIDE DEF bad
  <2> QED
    BY <2>1, <2>2
<1>7. ReadAll(ReaderStart, shops) = Reader(sh, << >>, << >>, 1)
  <2>1. sh \in Seq(Header)
    BY <1>1 DEF Fits
  <2> QED
    BY <1>3, <2>1, ReadShops
<1>8. PICK m2, c : /\ ReadAll(Reader(sh, << >>, << >>, 1), rows) = Reader(sh, co, m2, c)
                   /\ Fits(sh, co, m2)
                   /\ \A k \in 1..Len(co) : RowRead(m2, k, m[k], Len(sh))
  BY <1>1, <1>3, ReadRows
<1>9. shops \in Seq(AnyElement) /\ rows \in Seq(AnyElement)
  BY <1>1, PartsIn
<1> HIDE DEF shops, rows
<1>10. ReadAll(ReaderStart, s) = Reader(sh, co, m2, c)
  <2>1. ReadAll(ReaderStart, shops \o rows) = ReadAll(ReadAll(ReaderStart, shops), rows)
    BY <1>9, ReadConcat
  <2> QED
    BY <1>7, <1>8, <2>1 DEF s
<1>11. Read(s).shops = sh /\ Read(s).comps = co /\ Read(s).cells = m2
  BY <1>6, <1>10 DEF Reader
<1>12. ASSUME NEW r \in DOMAIN m, NEW k \in DOMAIN m[r]
       PROVE  /\ m[r][k].price = m2[r][k].price
              /\ \/ m[r][k].url = m2[r][k].url
                 \/ IsBlank(m[r][k].url) /\ IsBlank(m2[r][k].url)
  <2>0. m \in Seq(Seq(Cell)) /\ Len(m) = Len(co) /\ \A q \in 1..Len(m) : Len(m[q]) = Len(sh)
    BY <1>1 DEF Fits
  <2>a. r \in 1..Len(m) /\ m[r] \in Seq(Cell)
    BY <2>0
  <2>1. r \in 1..Len(co) /\ k \in 1..Len(sh)
    BY <2>0, <2>a
  <2>2. m2[r][k] = ReadCell(m[r][k])
    BY <1>8, <2>1 DEF RowRead
  <2> QED
    BY <2>2 DEF ReadCell, IsBlank
<1>13. SameTable(u, Read(s))
  BY <1>u, <1>11, <1>12 DEF SameTable
<1>14. Readable(s)
  BY <1>5 DEF Readable
<1> QED
  BY <1>2, <1>13, <1>14 DEF ReadsBack, u

-----------------------------------------------------------------------------
(***************************************************************************)
(* A file that was saved holds what was written of the table, until it is  *)
(* saved again: no other action touches the disk.                          *)
(***************************************************************************)
SavedWritten == \A f \in FileNames : saved[f] # NoTable => disk[f] = Written(saved[f])

LEMMA SavedWrittenStep ==
    ASSUME FilesInv, SavedWritten, [FilesNext]_fileVars PROVE SavedWritten'
<1>1. ASSUME NEW name \in Chosen, Save(name) PROVE SavedWritten'
  BY <1>1, SaveKeeps DEF SavedWritten, FilesInv
<1>2. ASSUME UNCHANGED <<disk, saved>> PROVE SavedWritten'
  BY <1>2 DEF SavedWritten
<1>3. CASE SaveConf
  <2>1. PICK name \in IF current = NoFile THEN Chosen ELSE {current} : Save(name)
    BY <1>3 DEF SaveConf
  <2>2. name \in Chosen
    BY SaveName DEF FilesInv
  <2> QED
    BY <1>1, <2>1, <2>2
<1>4. CASE SaveAsConf
  BY <1>1, <1>4 DEF SaveAsConf
<1>5. CASE Edit \/ NewConf \/ OpenFromDialog \/ OpenRecentFile \/ Restart \/ UNCHANGED fileVars
  BY <1>2, <1>5
  DEF Edit, NewConf, OpenFromDialog, OpenRecentFile, OpenConf, Restart, fileVars
<1> QED
  BY <1>3, <1>4, <1>5 DEF FilesNext

LEMMA SavedWrittenAlways == FilesSpec => []SavedWritten
<1>1. FilesInit => SavedWritten
  BY DEF FilesInit, SavedWritten
<1> QED
  BY <1>1, SavedWrittenStep, FilesInductive, PTL DEF FilesSpec

\* Whatever the tables, the files and the way to them: of a table whose texts
\* are plain and whose prices are whole and below 1000 its file gives back every
\* named row and column, each cell with its own price and URL (saveConf,
\* ComponentConfXMLReader).
THEOREM PlainReadsBackHolds == FilesSpec => []PlainReadsBack
<1>1. FilesTypeOK /\ SavedWritten => PlainReadsBack
  BY PlainTableReadsBack DEF FilesTypeOK, SavedWritten, PlainReadsBack
<1> QED
  BY <1>1, FilesTypeCorrect, SavedWrittenAlways, PTL
==============================================================================
