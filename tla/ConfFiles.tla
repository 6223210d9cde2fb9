------------------------------ MODULE ConfFiles ------------------------------
(***************************************************************************)
(* The configuration files (Sources/Main/Data/CDataThread.cpp and          *)
(* ComponentConfXMLReader.cpp): what New, Open, Save, Save as and the menu *)
(* of recent files do to the table, to the current file and to the disk,   *)
(* and what becomes of a table that is written to a file and read again.   *)
(*                                                                         *)
(* A file is the sequence of its elements that hold data.  A text is a     *)
(* model value; ToAscii says what is left of it in the file, and the texts *)
(* of Malformed end the parser when they are written as they are.  Prices  *)
(* are in hundredths.  How the table is edited is the matter of ConfModel: *)
(* here it is replaced by any other.                                       *)
(***************************************************************************)
EXTENDS Integers, SequencesExt

CONSTANTS
    FileNames,    \* names the dialogs of the program may return
    cstrConfFile, \* "ComputerConfShop.xml"
    NoFile,       \* the empty file name: no current file, a dialog cancelled
    MaxRecentFiles,
    Null,         \* a text never set (isNull)
    Empty,        \* a text set to ""
    Blank,        \* white space
    Texts,        \* the other texts: names of shops and components, URLs
    ToAscii,      \* what arg() and toAscii() make of a text
    Malformed,    \* those that are not well-formed inside an element
    NoTable,      \* no table: a file that was not written by the program
    Tables,       \* the tables the user's edits and refreshes may make
    MaxEdits      \* bound of the model: edits of the table

AllTexts == Texts \cup {Null, Empty, Blank}
Header == [name : AllTexts, active : BOOLEAN]
Cell   == [price : Nat, url : AllTexts]
IsTable(t) ==
    /\ t \in [shops : Seq(Header), comps : Seq(Header), cells : Seq(Seq(Cell))]
    /\ Len(t.cells) = Len(t.comps)
    /\ \A r \in DOMAIN t.cells : Len(t.cells[r]) = Len(t.shops)

ASSUME FilesAssumption ==
    /\ cstrConfFile \in FileNames /\ NoFile \notin FileNames
    /\ MaxRecentFiles \in Nat \ {0} /\ MaxEdits \in Nat
    /\ {Null, Empty, Blank} \cap Texts = {}
    /\ ToAscii \in [Texts -> Texts] /\ Malformed \subseteq Texts
    /\ \A t \in Tables : IsTable(t)

VARIABLES
    table,    \* what the model shows: headers, and price and URL of each cell
    current,  \* m_strCurrentFile
    recent,   \* "recentFileList" in QSettings, which is what the menu shows
    disk,     \* the files
    saved,    \* history: the table a file was last written from
    origin,   \* history: the file the table was read from, and edited since
    edits     \* number of edits, for MaxEdits

fileVars == <<table, current, recent, disk, saved, origin, edits>>

EmptyTable == [shops |-> << >>, comps |-> << >>, cells |-> << >>]
EmptyCell  == [price |-> 0, url |-> Null]
IsBlank(text) == text \in {Null, Empty, Blank}

\* the elements of s that are in S, in their order
AddIfIn(S, kept, e) == IF e \in S THEN Append(kept, e) ELSE kept
Filtered(s, S) == FoldLeft(LAMBDA kept, e : AddIfIn(S, kept, e), << >>, s)

-----------------------------------------------------------------------------
(***************************************************************************)
(* Writing: saveConf                                                       *)
(***************************************************************************)
\* A price is taken from the text the table shows: rounded to a whole number,
\* with a group separator from 1000 on, which toDouble does not accept.
WrittenPrice(price) ==
    LET shown == (price + 50) \div 100
    IN  IF shown < 1000 THEN 100 * shown ELSE 0
WrittenText(text) == IF IsBlank(text) THEN text ELSE ToAscii[text]

Element(tag, text, active, price) ==
    [tag |-> tag, text |-> text, active |-> active, price |-> price]
AnyElement ==
    [tag : {"SHOP", "COMPONENT", "DATA", "FOREIGN"}, text : AllTexts,
     active : BOOLEAN, price : Nat]

HeaderElement(tag, header) ==
    Element(tag, WrittenText(header.name), header.active, 0)
DataElement(cell) ==
    Element("DATA", IF IsBlank(cell.url) THEN Empty ELSE WrittenText(cell.url),
            TRUE, WrittenPrice(cell.price))

\* positions of the headers whose name is not null, in order
NamedHeaders(headers) ==
    Filtered([i \in DOMAIN headers |-> i],
             {i \in DOMAIN headers : headers[i].name # Null})
\* the cells of a row, without those of nameless shops
RowElements(t, r) ==
    [k \in DOMAIN NamedHeaders(t.shops) |->
        DataElement(t.cells[r][NamedHeaders(t.shops)[k]])]
Written(t) ==
    LET shops == NamedHeaders(t.shops)
        comps == NamedHeaders(t.comps)
    IN  [k \in DOMAIN shops |-> HeaderElement("SHOP", t.shops[shops[k]])]
        \o FlattenSeq([k \in DOMAIN comps |->
               <<HeaderElement("COMPONENT", t.comps[comps[k]])>>
               \o RowElements(t, comps[k])])

-----------------------------------------------------------------------------
(***************************************************************************)
(* Reading: ComponentConfXMLReader, element by element.  The reader counts *)
(* cells from 1 in each component; its row is the last one.                *)
(***************************************************************************)
ReaderStart == [table |-> EmptyTable, cell |-> 1]

\* setData at the reader's cell; an index outside the table changes nothing
SetCell(reader, field, value) ==
    LET t == reader.table
        r == Len(t.comps)
        c == reader.cell
    IN  IF r = 0 \/ c > Len(t.shops)
        THEN reader
        ELSE [reader EXCEPT !.table.cells[r][c][field] = value]

\* the text of an element: without one, the white space before it is left
TextRead(text) == IF text = Empty THEN Blank ELSE text

ReadShop(reader, e) ==
    LET header == [name |-> TextRead(e.text), active |-> e.active]
        t      == reader.table
    IN  [reader EXCEPT
            !.table.shops = Append(t.shops, header),
            !.table.cells = [r \in DOMAIN t.cells |->
                                 Append(t.cells[r], EmptyCell)]]
\* altered: the cells are counted on from component to component
ReadComponentOn(reader, e) ==
    LET header == [name |-> e.text, active |-> e.active]
        row    == [c \in DOMAIN reader.table.shops |-> EmptyCell]
    IN  [reader EXCEPT
            !.table.comps = Append(reader.table.comps, header),
            !.table.cells = Append(reader.table.cells, row)]
ReadComponent(reader, e) ==
    LET header == [name |-> e.text, active |-> e.active]
        row    == [c \in DOMAIN reader.table.shops |-> EmptyCell]
    IN  [reader EXCEPT
            !.table.comps = Append(reader.table.comps, header),
            !.table.cells = Append(reader.table.cells, row),
            !.cell = 1]
ReadDataStart(reader, e) == SetCell(reader, "price", e.price)
ReadDataEnd(reader, e) ==
    [SetCell(reader, "url", TextRead(e.text)) EXCEPT !.cell = @ + 1]

ReadElement(reader, e) ==
    CASE e.tag = "SHOP"      -> ReadShop(reader, e)
      [] e.tag = "COMPONENT" -> ReadComponent(reader, e)
      [] e.tag = "DATA"      -> ReadDataEnd(ReadDataStart(reader, e), e)

\* the reader after the elements, from the reader given
ReadAll(reader, elements) == FoldLeft(ReadElement, reader, elements)

Refused(e) == e.tag \notin {"SHOP", "COMPONENT", "DATA"} \/ e.text \in Malformed

\* What the table holds when the parser has ended; the start of a cell whose
\* text ends the parser was read.
Read(elements) ==
    LET bad  == SelectInSeq(elements, Refused)
        good == IF bad = 0 THEN elements ELSE SubSeq(elements, 1, bad - 1)
        end  == ReadAll(ReaderStart, good)
    IN  IF bad # 0 /\ elements[bad].tag = "DATA"
        THEN ReadDataStart(end, elements[bad]).table
        ELSE end.table
Readable(elements) == SelectInSeq(elements, Refused) = 0

-----------------------------------------------------------------------------
(***************************************************************************)
(* The current file and the recent files                                   *)
(***************************************************************************)
\* altered: the list is not cut
SetCurrentFileUncut(name) ==
    /\ current' = name
    /\ recent' = <<name>> \o Filtered(recent, FileNames \ {name})
\* altered: the name is not taken out of the list first
SetCurrentFileTwice(name) ==
    /\ current' = name
    /\ recent' = IF Len(recent) = MaxRecentFiles
                 THEN <<name>> \o SubSeq(recent, 1, MaxRecentFiles - 1)
                 ELSE <<name>> \o recent
SetCurrentFile(name) ==
    LET files == <<name>> \o Filtered(recent, FileNames \ {name})
    IN  /\ current' = name
        /\ recent' = IF Len(files) > MaxRecentFiles
                     THEN SubSeq(files, 1, MaxRecentFiles) ELSE files
\* a file that cannot be opened for writing is left as it is
Save(name) ==
    \/ /\ name # NoFile
       /\ disk' = [disk EXCEPT ![name] = Written(table)]
       /\ saved' = [saved EXCEPT ![name] = table]
    \/ UNCHANGED <<disk, saved>>

\* A file that is missing and one of another kind are the same to the reader:
\* it fails before it has read anything.
Foreign == <<Element("FOREIGN", Empty, TRUE, 0)>>

FilesInit ==
    /\ table = EmptyTable /\ current = NoFile /\ recent = << >>
    /\ disk = [f \in FileNames |-> Foreign] /\ saved = [f \in FileNames |-> NoTable]
    /\ origin = NoFile /\ edits = 0

\* every change of the table by the user and by answers of the shops
Edit ==
    /\ edits < MaxEdits /\ edits' = edits + 1
    /\ table' \in Tables
    /\ UNCHANGED <<current, recent, disk, saved, origin>>

NewConf ==
    /\ current' = NoFile /\ table' = EmptyTable /\ origin' = NoFile
    /\ UNCHANGED <<recent, disk, saved, edits>>
\* altered: the result of the reader is ignored
OpenConfAnyway(name) ==
    /\ table' = IF name # NoFile
                THEN Read(disk[name]) ELSE EmptyTable
    /\ IF name # NoFile
       THEN /\ SetCurrentFile(name)
            /\ origin' = IF Readable(disk[name])
                         THEN name ELSE NoFile
       ELSE current' = NoFile /\ origin' = NoFile /\ UNCHANGED recent
    /\ UNCHANGED <<disk, saved, edits>>

\* onNewConf comes first: no file, and a file that cannot be read, leave an
\* empty or an incomplete table and no current file
OpenConf(name) ==
    /\ table' = IF name # NoFile
                THEN Read(disk[name]) ELSE EmptyTable
    /\ IF name # NoFile /\ Readable(disk[name])
       THEN SetCurrentFile(name) /\ origin' = name
       ELSE current' = NoFile /\ origin' = NoFile /\ UNCHANGED recent
    /\ UNCHANGED <<disk, saved, edits>>
Chosen == FileNames \cup {NoFile}

OpenFromDialog == \E name \in Chosen : OpenConf(name)
OpenRecentFile == \E i \in DOMAIN recent : OpenConf(recent[i])

SaveAsConf ==
    /\ \E name \in Chosen : Save(name)
    /\ SetCurrentFile(cstrConfFile)
    /\ UNCHANGED <<table, origin, edits>>
SaveConf ==
    /\ \E name \in IF current = NoFile THEN Chosen ELSE {current} : Save(name)
    /\ SetCurrentFile(cstrConfFile)
    /\ UNCHANGED <<table, origin, edits>>

\* the program ends, in whatever way, and is started again
Restart ==
    /\ table' = EmptyTable /\ current' = NoFile /\ origin' = NoFile
    /\ UNCHANGED <<recent, disk, saved, edits>>

FilesNext ==
    \/ Edit \/ NewConf \/ OpenFromDialog \/ OpenRecentFile
    \/ SaveConf \/ SaveAsConf \/ Restart

FilesSpec == FilesInit /\ [][FilesNext]_fileVars

-----------------------------------------------------------------------------
FilesTypeOK ==
    /\ IsTable(table)
    /\ current \in Chosen /\ origin \in Chosen
    /\ recent \in Seq(FileNames) /\ Len(recent) <= MaxRecentFiles
    /\ disk \in [FileNames -> Seq(AnyElement)] /\ DOMAIN saved = FileNames
    /\ \A f \in FileNames : saved[f] # NoTable => IsTable(saved[f])
    /\ edits \in 0..MaxEdits

\* The list of recent files has no file twice, and begins with the current
\* file if there is one: what setCurrentFile must keep through New, failed
\* reads and restarts.
RecentFiles ==
    /\ IsInjective(recent)
    /\ current # NoFile => recent # << >> /\ current = Head(recent)

\* The file Save overwrites without asking is the one the table was read from,
\* or ComputerConfShop.xml.  In particular it is never a file that could not be
\* read, or was read only in part, nor the file of the configuration before.
SaveTarget == current \in {NoFile, cstrConfFile, origin}

\* Two tables show the same, but for the white space around an URL.
SameTable(t, u) ==
    /\ t.shops = u.shops /\ t.comps = u.comps
    /\ \A r \in DOMAIN t.cells : \A c \in DOMAIN t.cells[r] :
          /\ t.cells[r][c].price = u.cells[r][c].price
          /\ \/ t.cells[r][c].url = u.cells[r][c].url
             \/ IsBlank(t.cells[r][c].url) /\ IsBlank(u.cells[r][c].url)

ReadsBack(t, elements) == Readable(elements) /\ SameTable(t, Read(elements))

\* A file that was saved reads back as the table it was saved from
\* (TODO.txt:4).
SavedReadsBack ==
    \A f \in FileNames : saved[f] # NoTable => ReadsBack(saved[f], disk[f])

\* The columns and rows with a name, and the texts and prices a file can hold.
Kept(t) ==
    LET shops == NamedHeaders(t.shops)
        comps == NamedHeaders(t.comps)
    IN  [shops |-> [k \in DOMAIN shops |-> t.shops[shops[k]]],
         comps |-> [k \in DOMAIN comps |-> t.comps[comps[k]]],
         cells |-> [k \in DOMAIN comps |->
                       [j \in DOMAIN shops |-> t.cells[comps[k]][shops[j]]]]]
Plain(text) == IsBlank(text) \/ (ToAscii[text] = text /\ text \notin Malformed)
IsPlain(t) ==
    /\ \A h \in Range(t.shops) : Plain(h.name) /\ h.name # Empty
    /\ \A h \in Range(t.comps) : Plain(h.name)
    /\ \A r \in DOMAIN t.cells : \A c \in DOMAIN t.cells[r] :
          /\ Plain(t.cells[r][c].url)
          /\ t.cells[r][c].price % 100 = 0 /\ t.cells[r][c].price < 100000

\* Of a table whose texts are plain and whose prices are whole and below 1000
\* a file keeps every named row and column, each with its own prices and URLs.
PlainReadsBack ==
    \A f \in FileNames :
        saved[f] # NoTable /\ IsPlain(Kept(saved[f]))
            => ReadsBack(Kept(saved[f]), disk[f])
==============================================================================
