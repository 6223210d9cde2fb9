# ComputerComponentsShop: a verification project in TLA+

The program compares the prices of computer components in several web shops. A
table has a row per component and a column per shop; *Refresh* asks one plugin
per shop for the price of every active component, page by page over the network.
The code is C++ with Qt 4. Paths below are relative to `src/Sources/`.

## 1. Inventory

| Component | State | Operations | Interacts with |
|---|---|---|---|
| Price refresh, `Main/Data/CRefreshData.cpp` | `m_vShopCompData` (shop -> search count, components with `bBeingProcess`, `iRow`, `iCol`), `m_bStoppingRefreshing` | `onRefreshConf`, `onStopRefreshConf`, `onPriceSearchedFinished`, `onPriceSearchProgress`, `onShopPluginTerminated`, and the walks `processComp`, `stopProcessComp` | calls plugins, writes cells of the table, emits `refreshingFinished` to the window |
| Main window, `Main/GUI/MainWindow.cpp` | state of the Refresh/Stop button, recent-file menu, a mutex used when closing | `onRefreshConf`, `onRefreshingFinished`, `closeEvent`, `onUpdateRecentFileActions` | calls `CDataThread` |
| Shop plugins, `Plugins/ShopPluginBase.cpp`, `ArestShop.cpp`, `KomputronikShop.cpp`, `ProlineShop.cpp` | component searched for, links found, price, result; the parser's variables of each child; a `QThread` that runs an event loop only | `getProductData`, `onPageDownloadFinished`, `onPageLoadingError`, `findBestLink` | one page loader each; answers with `priceSearchedFinished` |
| Page loader, `Plugins/Network/LoadNetworkObject.cpp` | last reply, byte array, single-shot timer | `loadNetworkObject`, and a slot for each signal of a reply and of the timer | `QNetworkAccessManager`; tells the plugin of a page or a failure |
| Table model, `Main/Data/ComputerConfModel.cpp` | rows, columns, matrix of cells, best and worst flags, sums, list of shops of each column | insert and remove rows and columns, `setData`, `setHeaderData`, `reset`, `resetWorseBestFlags` | read and written by everything |
| Configuration files, `Main/Data/CDataThread.cpp`, `ComponentConfXMLReader.cpp` | current file, list of recent files (`QSettings`) | new, open, save, save as, reset field | table model, file system |
| Proxy settings, `Main/Data/CProxySettings.cpp`, `Main/GUI/ProxySettingsGUI.cpp` | a record of settings | load, save, apply | `QSettings`, `QNetworkProxy` |
| View and headers, other files of `Main/GUI/` | widgets per row and column | Qt's section signals | table model |

Nearly all of this runs on one thread, the GUI thread. A plugin is a `QThread`,
but its object lives on the GUI thread, so its slots run there; the thread itself
only runs `exec()`, ends after `quit()` and posts `finished()`. What makes the
program hard is therefore *order*: an answer comes from a network reply or a
timer, the end of a thread comes later through the event queue, a stop or the
next refresh comes in between, replies that timed out are not aborted and come
when something else is being loaded, and state is matched by name, by "the last
reply" or by a stored row and column. Two things run while the GUI thread is
inside a handler: the plugins' threads, whose `isRunning()` is read there, and
the network.

What makes each component correct:

* refresh: no plugin has two components at once, no component is searched for
  twice, a refresh ends when everything was answered, *Stop* always ends it, no
  entry and no mark survives it;
* page loader: a page is handed over whole and unmixed, a request the client has
  heard nothing of is under a time limit, a reply that was released is not used;
* plugin: the price reported for a component is a price of that component, a
  failure has no price, every search is answered;
* table: the matrix fits the headers, a cell stays with its row and column, the
  best price is the least and the worst the greatest;
* files: what is saved can be read again, the current file is the one written,
  the recent list has no duplicates and its limit.

`PROJECT.json` lists the hazards, each at its line, with the properties that
would catch it, or a note that says why none does yet.

## 2. Plan

| Step | State |
|---|---|
| 1. `RefreshData`: the walks, threads and events of a refresh | done, proved |
| 2. `LoadNetworkObject`: one request after the other, with late replies | done, proved |
| 3. `ShopPlugin`, which extends the loader by its client, from page to page and from a stored address, with the choice of a link | done, proved but for that choice |
| 4. `ConfModel`: lists, matrix and flags of the table | done, proved |
| 5. `RefreshSpec`: what a refresh promises, and that `RefreshData` implements it | done, proved |
| 6. `ConfFiles`: current file, recent list, and whether a saved table reads back (`TODO.txt:4`) | done, proved |
| 7. `HeaderView`: the widgets of the headers, composed with the table | done, proved |
| 8. The refresh of a table that is edited while it runs | dropped: entries keep their row and column (`CRefreshData.cpp:303`), so an answer writes wherever they point to by then. `ConfModel` lets prices and marks be set in any cell at any time, `MCConfRemove` shows that cells move, and no document says what should happen |
| 9. Closing the window while plugins work | dropped: four statements (hazard `MainWindow.cpp:32`), and nothing promises the contrary |

## 3. What is modelled

### RefreshData: the refresh (`CRefreshData.cpp`, button of `MainWindow.cpp`)

State: `inMap`, `count`, `waiting` and `busy` are `m_vShopCompData` (its keys,
`m_iCount`, and its entries without and with `bBeingProcess`; an entry is named by
its `(iRow, iCol)`), `refreshing` the cells marked `Role_CellIsRefreshing`,
`guiState` the button. `pc`, `cursor` and `flag` are the GUI thread inside a walk:
`processComp` and `stopProcessComp` are one action per iteration, because a thread
may end between two of them. `thread`, `current`, `loads` and `timer` are the
plugins as the refresh sees them, `posted` the GUI thread's queue. `selected`,
`asked`, `answered` and `ub` are history.

| Action | Code |
|---|---|
| `RefreshConf`, `StopRefreshConf` | `MainWindow::onRefreshConf` and `CRefreshData::onRefreshConf`, `onStopRefreshConf` |
| `ProcessSkip`, `ProcessStart`, `ProcessExhausted` | one iteration of `processComp`: `continue`, a search started, no search to start |
| `StopBusyShop`, `StopDoneShop` | one iteration of `stopProcessComp` |
| `LoopEnd` | the end of either, with `refreshingFinished` |
| `PageHandled`, `PageTimeout` | a plugin's slot, which may answer: `onPriceSearchedFinished` |
| `ShopPluginTerminated` | `onShopPluginTerminated` |
| `ThreadExit`, `PageArrives` | a plugin's thread ends, a last page comes |
| `ResetField` | `CDataThread::onResetFieldCache`, as far as a refresh sees it |

Three facts of the code shape the model. `processComp` passes over the shop after
an erased one, and never erases a shop once it has seen one that works.
`stopProcessComp` increments the iterator of the node it has erased if the map
is not empty; that is undefined behaviour, and `StopDoneShop` lets it crash, end
the walk or go on at any later shop. An answer is matched by name only, so a late
one releases whatever entry has the plugin's present name.

`RefreshSpec` is the promise, with a state of three variables: the button, the
cells still to be searched for, and those being searched for. A cell is asked for
at most once, one at a time per shop and never after *Stop*; it may be answered
early, by a late answer; the end comes when nothing is left. `RefreshData`
implements it (`ImplementsRefreshSpec`): the map's entries are the cells, and all
its walks, threads, pages and events are steps of the promise or do not show.

### LoadNetworkObject: the page loader

Replies are numbered by their requests, so `m_ptrReply` is the number of the last
one. `stage`, `status` and `arrived` are the network's view of a reply, `deleted`
the replies given to `deleteLater`. A signal to the client is emitted
synchronously: `signal` holds it until the client's slot has returned or, when it
was given a page, made the next request, and nothing else happens before; the slot
for a failure makes no request. The slots of every reply stay connected and all
use `m_ptrReply`: for its headers (`HeadersArrive`), its bytes (`ReadyRead`) and its
end (`DownloadFinished`), of an old reply too. `ub` says that a released reply was
used, `late` which replies were open when the next request was made, `told`
which requests were answered with a page or a failure the client reacts to.

### ShopPlugin: a search, page by page

It extends the loader and takes the client's place: what the loader leaves open,
`Load` and `SlotReturns`, is what the plugin's slots do. A page is what the
parsers make of it: a kind, the links it lists and the price it shows. Data is
followed by its origin: an address is the component it was listed for and a
number (0 for the address the table kept from an earlier refresh), a price is the
component it belongs to. `GetProductData` begins from the search page or from the
stored address; `SearchNextPage`, `SearchFollow` and `SearchFails` are the three
ends of a result page, and `FindBestLink` the choice among its links by the words
they share with the name, in the order of their addresses. `ResetsParser` is
FALSE for Arest, whose `prepareHTMLParserForNewSearch` is empty; `HasNextPages` is
TRUE for Komputronik. With `MayStop` a search may be abandoned and another begun
while its page is still to come, as *Stop* and *Refresh* do. A component the
plugin is given is assumed to come with an address of its own (hazard
`ComputerConfModel.cpp:479` says when it does not).

### ConfModel: the table (`ComputerConfModel.cpp`, slots of `CDataThread.cpp`)

`shops` is `vShopsList` (`bActive`, name and the list a column is offered), `comps`
the `bActive` of `vComponentsList`, `matrix` is `vvPricesMatrix`, which may be larger
than the table, and `reading` says that a file is being read. Sections of the
headers are numbered from 1, as the frozen macros of the build make section 0
something else.

| Action | Code |
|---|---|
| `AddShop`, `AddComp` | `onAddShop`, `onAddComp` with `insertColumns`, `insertRows` |
| `RemShop`, `RemComp` | `onRemShop`, `onRemComp` with `removeColumns`, `removeRows` |
| `NewConf`, `OpenConf` | `onNewConf`, `onOpenConf` with `reset` |
| `ReadShop`, `ReadComponent`, `ReadEnd` | `ComponentConfXMLReader`, an element at a time |
| `ActivateShops`, `ActivateComps`, `RenameShop` | `setHeaderData` and `processHeaders` |
| `SetPrice`, `SetRefreshing` | `setData` and `processHeaders` |
| `ResetWorseBestFlags` | `resetWorseBestFlags` |

The code is followed where it surprises. `removeColumns` erases the cell *after*
the removed shop's in each row and `removeRows` always erases the first row. For
the last shop that would run past the end; but the same mixture of counting from 0
and from 1 makes both refuse the last one, whose button does nothing. `insertColumns` resizes the matrix to one
row more than there are components. `reset` leaves all but one row and column of
the matrix, to be cut or shown by what is inserted next. `bActive` is not
initialised by the constructors, so a new shop or component starts with either
value. A price is only compared: with 0 (none), with another price, and with
`ciBestPriceDefault`, which is 20000 in the code.

### ConfFiles: the files (`CDataThread.cpp`, `ComponentConfXMLReader.cpp`)

State: `table` is what the model shows, `current` is `m_strCurrentFile`, `recent`
the list in `QSettings`, `disk` the files. `saved` and `origin` are history: the
table a file was written from, and the file the present table was read from.

A file is the sequence of its elements that hold data. `Written` makes it from a
table and `Read` folds the reader over it (`ReadAll`), an element at a time, as far
as the parser comes; `Filtered` stands for what `removeAll` leaves of the recent
files and `isNull` of the headers. The conversions are modelled by what they do: a price goes
through the text the window shows (rounded, with a group separator from 1000 on,
which `toDouble` refuses), a text through `toAscii` and, unescaped, through the XML
parser, an empty element gets the white space before it. Prices are in
hundredths.

| Action | Code |
|---|---|
| `NewConf`, `OpenFromDialog`, `OpenRecentFile` | `onNewConf`, `onOpenConf`, `MainWindow::onOpenRecentFile` |
| `SaveConf`, `SaveAsConf` | `onSaveConf`, `onSaveAsConf` with `saveConf` and `setCurrentFile` |
| `Edit` | any edits and refreshes: another table |
| `Restart` | the program ends, in whatever way, and is started again |

Open empties the table and forgets the current file before it asks for a name.
Save and Save as make `ComputerConfShop.xml` the current file whatever file was
written, even if the dialog was cancelled. A file that is not there is one the
program did not write. A write is one step: neither a crash while a file is
written nor a full disk is modelled, and the code does not test for them. Two
names of one file are two files.

### HeaderView: the headers (`CustomHeaderView.cpp`, `ShopHeaderEntry.cpp`, `ComponentHeaderEntry.cpp`)

It extends the table by the widgets of both headers and lets the user act only
through them. `shopWidgets` and `compWidgets` are `m_vSectionsWidget`, the corner
first. A widget keeps its section, its place, what it shows, and whether its
controls are hidden, which is never taken back. The model's signals come at
different moments: `sectionsAboutToBeRemoved` before a removal (the widget goes
and the rest is numbered again), `sectionCountChanged` after an insertion (only
the new widget is updated), `headerDataChanged` after a change of a header (all
are updated). `reset` removes the sections from 0 on, so the widget of the last
shop becomes the corner.

| Action | Code |
|---|---|
| `ShowAddShop`, `ShowAddComp` | `onAddShop`, `onAddComp` and `onSectionCountChanged` |
| `ClickRemoveShop`, `ClickRemoveComp` | `onRemoveClicked` and `sectionsAboutToBeRemoved` |
| `ClickShopActive`, `ClickCompActive`, `ChooseShop` | `onActiveClicked`, `onShopChanged` and `headerDataChanged` |
| `ShowReset` | New or Open |
| `ShowReadShop`, `ShowReadComponent` | the reader inserts a section and sets its header |
| `ChangeCells` | operations of the table the headers are not told of |

## 4. What the runs check

Deadlock is not checked in the runs of the refresh, the loader and the plugin: the
program may wait for its user for ever. It is checked in those of the table and of
the files.

| Run | Bounds | Shows |
|---|---|---|
| `MCRefreshTwo` | 2 shops, 2 components, Stop, silent plugins | `OneSearchPerShop`, `BusyIsReleased`, `RefreshHasNext`, `ServeInv`, `NoSearchAfterStop`, `AskedOnce`, `FinishedMeansAnswered`, `ImplementsRefreshSpec`; under fairness `StopCompletes`, `RefreshCompletes` |
| `MCRefreshChoice` | 2 shops, 1 component, 4 columns (one shop twice, one without plugin), every choice of active rows and columns, every outcome of the invalid iterator | `CursorInMap`, `ReadyIsClean`, `MarkedHaveEntries`, and `IInv`, the invariant of the proofs |
| `MCLoadOverlap` | 3 requests that may overlap, pages in 2 parts | `NoMixedPages`, `OnlyLateRepliesHarm`, `WatchedRequest`, `LoaderIInv`; under fairness `TimerReports` |
| `MCShopOverlap` | 2 components, 3 requests that may overlap, all kinds of pages, Stop | `PriceOfComponent`, `UrlOfComponent`, `DataIsOwn`, `FailureHasNoPrice`, `SearchWatched`, `ShopIInv` |
| `MCConfTable` | `HeaderView` with at most 3 shops, 2 components and 2 cells, 2 plugins, prices 0, 1 and 2 | `MatrixCoversTable`, `NoShopTwice`, `BestIsLeast`, `WidgetsShowHeaders`, `OffersAreFree` |
| `MCConfFiles` | 3 files, 280 tables, 1 edit, a recent list of 2 | `RecentFiles`, `SaveTarget`, `PlainReadsBack` |
| `MCShopArest` | a parser that is not reset, 4 requests | `PriceOfComponent` is violated |
| `MCShopLate` | overlapping requests | `AlwaysWatched` is violated |
| `MCShopUnknown` | a page of no known kind | `AlwaysWatched` is violated |
| `MCShopBest` | two links, the worse first in the order of addresses | `BestMatch` is violated |
| `MCConfRemove` | 2 shops, 2 components | `PricesFollowHeaders` is violated |
| `MCConfReadBack` | plain texts, prices 0, 489 and 1234 | `SavedReadsBack` is violated |

Each module's type invariant is checked with its first passing run.

The six violations are disagreements between the code and what the repository
says of it; `PROJECT.json` quotes the lines. In short: a late reply of a search
that timed out stops the timer of the next search and releases its reply, so that
search is never answered; a page no test recognises is dropped in silence, with
the timer already stopped; Arest reports the price of the component before
when a product page shows none; the "best match" is the first link, by its
address, that has half of the words; removing a shop or a component from the
table erases a neighbour's prices, so that those left stand under another header;
and a price of 1000 or more is read back as 0 from the file it was saved to. The
passing runs next to them say what does hold: `SearchWatched` as long as no page
is late or unknown, `PriceOfComponent` for the children that reset their parser,
and `PlainReadsBack` for the tables a file can hold.

### Bounds

* `MaxLoads`, the downloads of one plugin in flight: one more than the bound is
  merged into the last one. One late page next to the present search is the case
  that matters, as the plugin cannot tell pages apart.
* `MaxBacklog`, the posted events a new refresh may find: with a bound of 1 a
  late `finished()` or a late page of the last refresh meets the next one.
* Two shops show everything that concerns a shop and its neighbour in the map, and
  two components let a plugin be started again. A shop passed over between two
  others needs three shops; that case is covered by the proof of
  `RefreshHasNext`, which has no bound. In `MCRefreshTwo` the invalid iterator
  of a stop crashes; `MCRefreshChoice` has its other outcomes.
* `MaxRequests`: three requests are one late reply, the present one, and the one
  made by a redirection, a next page or the next component; `Parts` = 2 tells a
  page cut short from a whole one.
* The table: three columns and two plugins let a name be asked for twice, be
  chosen from an old list and be given back by a removal; three shops without
  components, or two shops with one, leave room for the widgets to the left and to
  the right of one that is removed. `MaxCells` counts the cells shown; the hidden
  ones come on top. A cell without a price and two prices to compare are enough
  for `BestIsLeast`; all are below `ciBestPriceDefault`, which is 20000 in the
  code, since a cell at or above it is never best and no cheaper than one that
  is. A row of three cells is out of this run's reach and is covered by the proof
  of `BestIsLeast`, which has none of these bounds.
* The files: the list of recent files is cut at two names where the code cuts at
  five (`MaxRecentFiles`), so that three names are enough to push one out. Each
  of the 280 tables has at most two shops and two components: every cell of
  interest (no price, a price of whole and of broken zlotys, at and above 1000 when
  rounded, an address that is missing, blank, plain or malformed) next to a plain
  one, under every kind of name. One edit is enough since every table can be
  reached by it, and tables also come from files. Of a second table in
  another file nothing is at stake: a file is written and read as a whole.

### Fairness

`RefreshData` assumes that the GUI thread runs a handler to its end and takes
posted events in order, that a thread told to quit ends, and that downloads end.
The first two are Qt's event loop; the third is `exec()`; downloads end or are
counted as answered late. Nothing is assumed of the user or of the timer.
`StopCompletes` needs none of the plugins' answers. `RefreshCompletes` ends "unless
a plugin is silent", that is, has an entry in process, nothing loading and no
timer: `MCShopUnknown` and `MCShopLate` show that this happens. It says "with a
component" because a refresh with shops and no component does not end:
`processComp` erases every second shop and has no event to come back for.
`LoadNetworkObject` assumes that an armed timer fires and slots return; the
network may be silent. The plugin's, the table's and the files' runs check safety
only.

## 5. What is proved

`RefreshDataProofs`, for any number of shops, rows and columns, any table, any
choices of the user: `IInv` is inductive. The types alone are not enough; `IInv`
adds that entries have distinct keys (`Keyed`) and belong to shops of the map
(`EntriesInMap`), that an entry in process is counted and is the component its
plugin works on (`BusyCounted`), that each walk runs under its own value of
`m_bStoppingRefreshing` (`StoppingMatches`), and that until a stop nothing
selected is lost and nothing waiting was asked for (`NothingLost`). From it follow
`TypeOK`, `CursorInMap`, `OneSearchPerShop`, `ReadyIsClean`, and from it and a
lemma on what changes `asked` the action properties `NoSearchAfterStop`,
`AskedOnce` and `FinishedMeansAnswered`. The proofs assume what the module's
ASSUMEs state of the constants: sizes are natural numbers and the table's columns
and rows are numbered shops and names.

Its last parts prove `MarkedHaveEntries` and `ImplementsRefreshSpec`. A mark is
left without an entry only by the start of a refresh, which replaces the entries
of the last one, and `IInv` says that there are none; every other action takes
marks away with their entries (`MarksChange`). For the refinement, each action of
`RefreshData` is, given `IInv`, a step of `RefreshSpec` or a stutter under the
refinement mapping.

`RefreshServeProofs` proves `ServeInv` on top of `IInv`, until an invalid iterator
was used: until *Stop* a thread runs exactly for a search, and after it every
search left has a thread that ends or has ended (`Released`); and, the harder part,
a shop of the map whose thread is idle is owed a walk. Until *Stop* no more shops
are owed than ends of threads are still to be handled (`EachOwedHasEnd`), each of
which starts a walk that serves one; within a walk the count may be one short as
long as the shop it will serve is ahead of the cursor (`WalkServesOne`), or,
when the refresh begins, every shop it still comes to can be served
(`WalkFromStart`). The lemmas count the two sets over one step. `BusyIsReleased` and
`RefreshHasNext` follow: `processComp` leaves no shop behind.

`LoadNetworkObjectProofs`, for any number of requests and parts and any client:
`LoaderIInv` is inductive. It says what the byte array holds at any time
(`BufferIsRead`), and that until a reply is late the last reply is the only one
that can emit anything (`OnlyLastUnfinished`), is whole when handed over and is
timed until the client was told. `LoaderTypeOK`, `NoMixedPages`,
`OnlyLateRepliesHarm` and `WatchedRequest` follow: the headers, bytes and end of a
reply find `m_ptrReply` released only if some reply was late.

`ConfModelProofs`, for any set of plugins and prices and any size of the table:
`TableInv`, the types with `MatrixCoversTable`, is inductive, and so is
`NamesInv`, which adds to it that the plugins named are distinct (`Distinct`) and
that what each column is offered is up to date (`Offered`). The first gives
`ConfTypeOK` and `MatrixCoversTable`: no index and no iterator into the matrix is
out of range, although `removeColumns` leaves rows and columns the table does not
show. The second gives `NoShopTwice`, on which the refresh relies when it files
its searches by the name of the shop.

Its second half proves `BestIsLeast`. It is not inductive, since a hidden cell may
be shown by the next insertion. `BestInv` says it of the whole matrix, row by row,
hidden rows included, and adds that as long as there is a shop every row is
exactly as wide as the table has columns: so `processHeaders` compares all cells of
a row that is shown, and a row uncovered later was last compared, or cut, as a
whole.

`ShopPluginProofs`, for any shop, components, names, kinds and overlap of pages:
`ShopIInv` is inductive. It extends `LoaderIInv` by what is still to be told: a page
handed over, and as long as no page is late a price found, leaves nothing that
can still be told (`FinishedIsDone`, `PricedIsDone`), and a search without an answer
waits for a request nobody was told of (`UnansweredIsUntold`). It gives `TypeOK`,
`FailureHasNoPrice` and `SearchWatched`. `DataIsOwn` is inductive with it under the
assumption that the child resets its parser (`ResetsParser`), and gives
`PriceOfComponent` and `UrlOfComponent`, a theorem each: as late pages are parsed for the present
search, only what outlives a search could bring in another component's data.

`ConfFilesProofs`, for any names, texts and tables and any limit of the list of
recent files: `SaveTarget` is inductive as it stands, and so are the types together
with `RecentFiles`. What the program makes of a list is a fold in the model: of
the recent files when a name is taken out, of the headers when those without a
name are left out, of a file's elements when it is read. `FoldFacts` makes folds
accessible to the prover. The library defines them by a `CHOOSE` of a function on
sets of positions; `FoldExists` shows by induction that the function exists, and
`FoldSteps` that the fold is the last of a sequence of intermediate values, each
made from the one before. The operator folded is a constant of `FoldFacts`, given
by `INSTANCE`, and the induction is over the set of numbers a statement holds
for (`SetInduction`, from `WFMin` of the library), so that no theorem needs an
operator as a parameter. `FlattenConcatenates` does the same for `FlattenSeq`.

On this rest `FilteredSelects` (what is left of a filtered list, and in which
order), `ReadIsTable` (reading any file, cut off anywhere by the parser, leaves a
rectangular table), hence `FilesTypeOK` and `RecentFiles`; and `NamedHeadersAre`
(exactly the headers with a name are written). `PlainReadsBack` follows from two
facts. A file that was saved holds what was written of its table until it is saved
again (`SavedWritten`, inductive). And what is written of a plain table reads
back (`PlainTableReadsBack`): nothing written is refused (`WrittenReadable`); the
reader goes through the parts of a file one after the other (`ReadConcat`); the
shops become the columns (`ReadShops`); each component becomes a row whose cells
are filled from the left (`ReadRow`, `ReadCells`), without changing the rows
before (`ReadRows`). Assumed are only `FilesAssumption`'s facts on the constants: what
an edit makes is a table (a price and an address for each row and column, which
is what `MatrixCoversTable` says of the code), `toAscii` makes texts of texts, and
white space is well-formed. The run shows that this is false when the reader's count of
cells is not reset (the mutant `ReadComponentOn`).

`HeaderViewProofs`: `HeaderImplementsTable` shows that whatever the widgets do is an
operation of the table (`HeaderSpec => TableSpec`), which transfers every theorem of
`ConfModelProofs` to the composition, in particular those the composed run checks.
`HeaderInv` adds to `NamesInv` that the widgets fit the headers, show what these
hold, and offer no other column's name; it is inductive and gives `HeaderTypeOK`,
`WidgetsShowHeaders` and `OffersAreFree`.

Every invariant and action property of the passing runs is proved, as is the
refinement. Only model-checked are the liveness properties, `StopCompletes`,
`RefreshCompletes` and `TimerReports`: fairness is out of the prover's reach.

## 6. What is not modelled

* The progress bar (`onPriceSearchProgress`) and `loadPostNetworkObject`, which
  nobody calls.
* A refresh whose table is edited while it runs, and closing the window (section
  2, steps 8 and 9).
* HTML and the selectors: a page is its kind.
* In the table: sums, results, progress, icons, and the components' names with the
  search addresses a new name clears (hazards `ComputerConfModel.cpp:614` and `:479`).
* In the headers and the view: painting, sizes, the frozen row and column, which
  show the same table once more, and the delegate of the cells.
* The proxy settings: a record copied between a dialog, `QSettings` and
  `QNetworkProxy`, without order or failure that matters.
* `ShopPluginNetwork.cpp`, which the build leaves out, logging, `main`, and the tests.
* Google Mock, log4cpp, log4qt and HTML Tidy: third-party code, which makes up
  about 187,000 of the 193,000 lines of the implementation files. Shares of lines
  are therefore small whatever is modelled; of the program's own code, some 6,600
  lines with the window and its dialogs, the modules follow about a quarter.
