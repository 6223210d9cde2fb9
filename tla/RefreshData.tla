----------------------------- MODULE RefreshData -----------------------------
(***************************************************************************)
(* CRefreshData (Sources/Main/Data/CRefreshData.cpp): the refresh of the   *)
(* prices of all active components in all active shops.                    *)
(*                                                                         *)
(* Every slot runs on the GUI thread.  A handler that walks the map of     *)
(* shops (processComp, stopProcessComp) is one action per loop iteration:  *)
(* pc says which loop the GUI thread is in and the event loop is blocked   *)
(* until it leaves it, but the plugins' own threads and the network run    *)
(* on between two iterations, and processComp reads plugin->isRunning().   *)
(*                                                                         *)
(* A shop plugin is a QThread whose run() is only an event loop; its pages *)
(* are handled on the GUI thread too.  What the plugin promises is kept    *)
(* abstract here: a search that was started loads pages, may time out, and *)
(* may answer, be silent or answer late.                                   *)
(***************************************************************************)
EXTENDS Naturals, Sequences, FiniteSets

CONSTANTS
    NShops,     \* number of plugins; shops are numbered in the map's pointer order
    NRows,      \* rows of the table that hold a component (the header row is no row here)
    NCols,      \* columns of the table
    ShopOfCol,  \* the plugin found by the shop name of a column, NoShop if none is
    NameOfRow,  \* the component name of a row, numbered in QString order
    MaxLoads,   \* bound: downloads of one plugin that are in flight at once
    Selections, \* the choices of active rows and columns a refresh is started with
    UBOutcomes, \* what an invalid iterator may do: "crash", "end", "later"
    MaxBacklog, \* bound: posted events a new refresh may find undelivered
    Resettable, \* bound: the cells the user applies "Reset field" to
    MayStop,    \* TRUE if the user may press Stop
    MaySilent   \* TRUE if a plugin may finish a page without an answer

NoShop   == 0
Shop     == 1..NShops
EndShop  == NShops + 1                  \* map::end()
Cell     == (1..NRows) \X (1..NCols)
NoName   == 0
ciMaxRefreshingThreads == 1

ASSUME SizesAssumption ==
    /\ NShops \in Nat /\ NRows \in Nat /\ NCols \in Nat /\ MaxLoads \in Nat /\ MaxBacklog \in Nat
    /\ MayStop \in BOOLEAN /\ MaySilent \in BOOLEAN /\ Resettable \subseteq Cell
    /\ Selections \subseteq (SUBSET (1..NRows)) \X (SUBSET (1..NCols))
ASSUME TableAssumption ==
    /\ ShopOfCol \in [1..NCols -> Shop \cup {NoShop}]
    /\ NameOfRow \in [1..NRows -> Nat \ {NoName}]

\* CRefreshData and MainWindow
VARIABLES
    guiState,    \* m_eRefreshingState of the main window
    stopping,    \* m_bStoppingRefreshing
    inMap,       \* the keys of m_vShopCompData
    count,       \* m_iCount of each shop of the map, 0 outside the map
    waiting,     \* the CompData entries, each by its (iRow, iCol), not bBeingProcess
    busy,        \* the entries that are bBeingProcess
    refreshing   \* the table cells whose Role_CellIsRefreshing is set

\* the GUI thread inside a handler
VARIABLES
    pc,          \* "eventLoop", "process", "stop", or "crashed"
    cursor,      \* iterShopsMap
    flag         \* bSingleShopCompFinished

\* the shop plugins, their threads and the network
VARIABLES
    thread,      \* "idle", "running" or "quitting", per shop
    current,     \* m_strComponentName of each plugin
    loads,       \* downloads in flight of each plugin
    timer,       \* is the plugin's loading timer armed
    posted       \* events posted to the GUI thread, a FIFO

\* history
VARIABLES
    ub,          \* an invalid iterator has been incremented
    selected,    \* the entries the present refresh started with
    asked,       \* the entries searched for since then
    answered     \* the entries answered since then

loopVars    == <<pc, cursor, flag>>
pluginVars  == <<thread, current, loads, timer, posted>>
historyVars == <<ub, selected, asked, answered>>
refreshVars == <<guiState, stopping, inMap, count, waiting, busy, refreshing>>
vars == <<guiState, stopping, inMap, count, waiting, busy, refreshing, pc, cursor, flag,
          thread, current, loads, timer, posted, ub, selected, asked, answered>>

-----------------------------------------------------------------------------

ShopOf(x) == ShopOfCol[x[2]]
NameOf(x) == NameOfRow[x[1]]
SameKey(x, y) == ShopOf(x) = ShopOf(y) /\ NameOf(x) = NameOf(y)

Entries    == waiting \cup busy
OfShop(S, s) == {x \in S : ShopOf(x) = s}
\* the entry, if any, of the component the plugin is working on
Hit(s)     == {x \in Entries : ShopOf(x) = s /\ NameOf(x) = current[s]}

\* t is the key after s in the map, or end()
IsNext(keys, s, t) ==
    /\ t \in keys \cup {EndShop}
    /\ t > s
    /\ \A u \in keys : u > s => t <= u

\* the iteration order of onRefreshConf: shops outside, components inside
Later(x, y) == x[2] > y[2] \/ (x[2] = y[2] /\ x[1] > y[1])

FinishedOf(s) == [kind |-> "finished", shop |-> s]
PageOf(s)     == [kind |-> "page", shop |-> s]
Event == [kind : {"finished", "page"}, shop : Shop]

-----------------------------------------------------------------------------

Init ==
    /\ guiState = "Ready" /\ stopping = FALSE
    /\ inMap = {} /\ count = [s \in Shop |-> 0]
    /\ waiting = {} /\ busy = {} /\ refreshing = {}
    /\ pc = "eventLoop" /\ cursor = EndShop /\ flag = TRUE
    /\ thread = [s \in Shop |-> "idle"]
    /\ current = [s \in Shop |-> NoName]
    /\ loads = [s \in Shop |-> 0]
    /\ timer = [s \in Shop |-> FALSE]
    /\ posted = <<>>
    /\ ub = FALSE /\ selected = {} /\ asked = {} /\ answered = {}

\* QThread::quit: no effect on a thread that does not run
Quit(s) == thread' = [thread EXCEPT ![s] = IF @ = "running" THEN "quitting" ELSE @]

\* setData(index, false, Role_CellIsRefreshing)
UnmarkLost(S) == refreshing' = refreshing
Unmark(S) == refreshing' = refreshing \ S

\* a handler walks the map from its first key
EnterLoop(loop) ==
    /\ pc' = loop
    /\ flag' = TRUE
    /\ IsNext(inMap', 0, cursor')

(***************************************************************************)
(* The user: Refresh, Stop, and "Reset field" of the cell menu.            *)
(***************************************************************************)
\* MainWindow::onRefreshConf: one button, Refresh and then Stop
PressRefresh == guiState = "Ready" /\ guiState' = "InProgress"
PressStop    == guiState = "InProgress" /\ guiState' = "Stopping"

\* prepareNewRefreshing: the map is emptied and a stop forgotten
PrepareNewRefreshing(newMap) ==
    /\ stopping' = FALSE
    /\ inMap' = newMap /\ count' = [s \in Shop |-> 0] /\ busy' = {}

\* CRefreshData::onRefreshConf.  The active rows and columns are the user's
\* choice; an entry with the key of an earlier one overwrites it.
RefreshConf(rows, cols) ==
    LET marked == {x \in rows \X cols : ShopOf(x) # NoShop}
        kept   == {x \in marked : \A y \in marked : SameKey(x, y) => ~Later(y, x)}
    IN  /\ pc = "eventLoop" /\ PressRefresh /\ Len(posted) <= MaxBacklog
        /\ PrepareNewRefreshing({ShopOfCol[c] : c \in cols} \ {NoShop})
        /\ waiting' = kept
        /\ refreshing' = refreshing \cup marked
        /\ selected' = kept /\ asked' = {} /\ answered' = {}
        /\ EnterLoop("process")
        /\ UNCHANGED <<pluginVars, ub>>

\* CRefreshData::onStopRefreshConf
LoopAfterStopProcess == "process"
LoopAfterStop == "stop"
StopRefreshConf ==
    /\ pc = "eventLoop" /\ PressStop
    /\ stopping' = TRUE
    /\ UNCHANGED <<inMap, count, waiting, busy, refreshing, pluginVars, historyVars>>
    /\ EnterLoop(LoopAfterStop)

\* CDataThread::onResetFieldCache
ResetField(x) ==
    /\ pc = "eventLoop" /\ x \in refreshing
    /\ refreshing' = refreshing \ {x}
    /\ UNCHANGED <<guiState, stopping, inMap, count, waiting, busy, loopVars,
                   pluginVars, historyVars>>

(***************************************************************************)
(* processComp: one iteration per action.                                  *)
(***************************************************************************)
\* the plugin has its search, or its thread has not ended yet: continue
SkipsNone(s) == FALSE
Skips(s) == count[s] >= ciMaxRefreshingThreads \/ thread[s] # "idle"

ProcessSkip(s) ==
    /\ pc = "process" /\ cursor = s /\ Skips(s)
    /\ IsNext(inMap, s, cursor')
    /\ UNCHANGED <<refreshVars, pc, flag, pluginVars, historyVars>>

\* getProductData of the first waiting component: the new download takes the
\* place of the old one, which is not aborted, and start() runs the thread
ProcessStart(s, x) ==
    /\ pc = "process" /\ cursor = s /\ ~Skips(s)
    /\ x \in OfShop(waiting, s)
    /\ \A y \in OfShop(waiting, s) : NameOf(x) <= NameOf(y)
    /\ waiting' = waiting \ {x} /\ busy' = busy \cup {x}
    /\ count' = [count EXCEPT ![s] = @ + 1]
    /\ current' = [current EXCEPT ![s] = NameOf(x)]
    /\ loads' = [loads EXCEPT ![s] = IF @ < MaxLoads THEN @ + 1 ELSE @]
    /\ timer' = [timer EXCEPT ![s] = TRUE]
    /\ thread' = [thread EXCEPT ![s] = "running"]
    /\ asked' = asked \cup {x}
    /\ flag' = FALSE
    /\ IsNext(inMap, s, cursor')
    /\ UNCHANGED <<guiState, stopping, inMap, refreshing, pc, posted, ub, selected, answered>>

\* iterNextMap, and then the iterShopsMap++ of the for statement
StepAfterEraseLost(s) == cursor' = s
StepAfterErase(s) ==
    \E t \in inMap' \cup {EndShop} :
        /\ IsNext(inMap', s, t)
        /\ IF t = EndShop THEN cursor' = EndShop ELSE IsNext(inMap', t, cursor')

\* no component of the shop waits.  A shop without any is erased as long as no
\* shop before it in this walk had one, and the shop after it is passed over.
ProcessExhausted(s) ==
    /\ pc = "process" /\ cursor = s /\ ~Skips(s)
    /\ OfShop(waiting, s) = {}
    /\ flag' = (flag /\ OfShop(busy, s) = {})
    /\ IF flag'
       THEN /\ inMap' = inMap \ {s}
            /\ StepAfterErase(s)
       ELSE /\ inMap' = inMap
            /\ IsNext(inMap, s, cursor')
    /\ UNCHANGED <<guiState, stopping, count, waiting, busy, refreshing, pc, pluginVars,
                   historyVars>>

(***************************************************************************)
(* stopProcessComp: one iteration per action.                              *)
(***************************************************************************)
\* the components not being searched for are dropped; a search that runs
\* keeps its entry, and its thread is told to quit
StopBusyShop(s) ==
    /\ pc = "stop" /\ cursor = s
    /\ OfShop(busy, s) # {}
    /\ waiting' = waiting \ OfShop(waiting, s)
    /\ Unmark(OfShop(waiting, s))
    /\ Quit(s)
    /\ IsNext(inMap, s, cursor')
    /\ UNCHANGED <<guiState, stopping, inMap, count, busy, pc, flag, current, loads, timer,
                   posted, historyVars>>

\* a shop with nothing left is erased, and then the iterator of the erased
\* entry is incremented unless the map is empty: that may crash, or go on at
\* any later shop or at the end
StopDoneShop(s) ==
    /\ pc = "stop" /\ cursor = s
    /\ OfShop(busy, s) = {}
    /\ waiting' = waiting \ OfShop(waiting, s)
    /\ Unmark(OfShop(waiting, s))
    /\ inMap' = inMap \ {s}
    /\ count' = [count EXCEPT ![s] = 0]
    /\ ub' = (ub \/ inMap' # {})
    /\ \/ /\ inMap' = {} \/ "end" \in UBOutcomes
          /\ pc' = pc /\ cursor' = EndShop
       \/ /\ "later" \in UBOutcomes
          /\ pc' = pc /\ cursor' \in {t \in inMap' : t > s}
       \/ /\ inMap' # {} /\ "crash" \in UBOutcomes
          /\ pc' = "crashed" /\ cursor' = cursor
    /\ UNCHANGED <<guiState, stopping, busy, flag, pluginVars, selected, asked, answered>>

MapEmptyByCount   == \A s \in Shop : count[s] = 0
MapEmptyByWaiting == waiting = {}
MapEmpty == inMap = {}

\* MainWindow::onRefreshingFinished
RefreshingFinished == guiState' = "Ready"

\* the end of either walk; an empty map emits refreshingFinished
LoopEnd ==
    /\ pc \in {"process", "stop"} /\ cursor = EndShop
    /\ pc' = "eventLoop"
    /\ IF MapEmpty THEN RefreshingFinished ELSE guiState' = guiState
    /\ flag' = TRUE                      \* a local of the handler
    /\ IF guiState' = "Ready"
       THEN selected' = {} /\ asked' = {} /\ answered' = {}
       ELSE UNCHANGED <<selected, asked, answered>>
    /\ UNCHANGED <<stopping, inMap, count, waiting, busy, refreshing, cursor, pluginVars, ub>>

(***************************************************************************)
(* The plugins: answers, and the ends of their threads.                    *)
(***************************************************************************)
\* m_iCount and m_Components after an answer
CountAfterAnswerUnguarded(n) == n - 1
CountAfterAnswerKept(n) == n
CountAfterAnswer(n) == IF n # 0 THEN n - 1 ELSE n
WaitingAfterAnswerKept(s) == waiting \cup Hit(s)
WaitingAfterAnswer(s) == waiting \ Hit(s)

\* CRefreshData::onPriceSearchedFinished, called by the plugin's emit
PriceSearchedFinished(s) ==
    /\ waiting' = WaitingAfterAnswer(s)
    /\ busy' = busy \ Hit(s)
    /\ Unmark(Hit(s))
    /\ answered' = answered \cup Hit(s)
    /\ IF Hit(s) = {} THEN UNCHANGED <<count, thread>>
       ELSE /\ count' = [count EXCEPT ![s] = CountAfterAnswer(@)]
            /\ Quit(s)

\* the last page of a search has arrived and waits for the GUI thread
PageArrives(s) ==
    /\ loads[s] > 0 /\ pc # "crashed"
    /\ loads' = [loads EXCEPT ![s] = @ - 1]
    /\ posted' = Append(posted, PageOf(s))
    /\ UNCHANGED <<refreshVars, loopVars, thread, current, timer, historyVars>>

\* the plugin handles the page, and answers or is silent
PageHandled(s) ==
    /\ pc = "eventLoop" /\ posted # <<>> /\ Head(posted) = PageOf(s)
    /\ posted' = Tail(posted)
    /\ timer' = [timer EXCEPT ![s] = FALSE]
    /\ \/ PriceSearchedFinished(s)
       \/ MaySilent /\ UNCHANGED <<waiting, busy, refreshing, answered, count, thread>>
    /\ UNCHANGED <<guiState, stopping, inMap, loopVars, current, loads, ub, selected, asked>>

\* ShopPluginBase::onPageLoadingError("Timeout"); timers run when no posted
\* event is left, and the download goes on
PageTimeout(s) ==
    /\ pc = "eventLoop" /\ posted = <<>> /\ timer[s]
    /\ timer' = [timer EXCEPT ![s] = FALSE]
    /\ PriceSearchedFinished(s)
    /\ UNCHANGED <<guiState, stopping, inMap, loopVars, current, loads, posted, ub, selected,
                   asked>>

\* the plugin's thread leaves exec() and posts finished()
ThreadExit(s) ==
    /\ thread[s] = "quitting" /\ pc # "crashed"
    /\ thread' = [thread EXCEPT ![s] = "idle"]
    /\ posted' = Append(posted, FinishedOf(s))
    /\ UNCHANGED <<refreshVars, loopVars, current, loads, timer, historyVars>>

LoopAfterFinishedAlwaysProcess == "process"
LoopAfterFinished == IF stopping THEN "stop" ELSE "process"

\* CRefreshData::onShopPluginTerminated
ShopPluginTerminated(s) ==
    /\ pc = "eventLoop" /\ posted # <<>> /\ Head(posted) = FinishedOf(s)
    /\ posted' = Tail(posted)
    /\ IF stopping
       THEN /\ busy' = busy \ Hit(s)
            /\ waiting' = waiting \cup Hit(s)
       ELSE UNCHANGED <<busy, waiting>>
    /\ UNCHANGED <<guiState, stopping, inMap, count, refreshing, thread, current, loads,
                   timer, historyVars>>
    /\ EnterLoop(LoopAfterFinished)

-----------------------------------------------------------------------------

User ==
    \/ \E sel \in Selections : RefreshConf(sel[1], sel[2])
    \/ MayStop /\ StopRefreshConf
    \/ \E x \in Resettable : ResetField(x)

Loop ==
    \/ LoopEnd
    \/ \E s \in Shop :
          \/ ProcessSkip(s) \/ ProcessExhausted(s)
          \/ \E x \in Cell : ProcessStart(s, x)
          \/ StopBusyShop(s) \/ StopDoneShop(s)

Deliver(s) == PageHandled(s) \/ ShopPluginTerminated(s)

Next ==
    \/ User
    \/ Loop
    \/ \E s \in Shop : Deliver(s) \/ PageArrives(s) \/ PageTimeout(s) \/ ThreadExit(s)

Spec == Init /\ [][Next]_vars

\* The GUI thread runs its handlers to the end and takes its events in order,
\* a thread told to quit ends, a download ends; nothing is assumed of the
\* user, and a timer may fire or not.
Fairness ==
    /\ WF_vars(Loop)
    /\ WF_vars(\E s \in Shop : Deliver(s))
    /\ \A s \in Shop : WF_vars(ThreadExit(s)) /\ WF_vars(PageArrives(s))

FairSpec == Spec /\ Fairness

-----------------------------------------------------------------------------
(***************************************************************************)
(* Properties.                                                             *)
(***************************************************************************)
\* The types of the variables; a crashed program only keeps its shape.
TypeOK ==
    /\ guiState \in {"Ready", "InProgress", "Stopping"}
    /\ stopping \in BOOLEAN
    /\ inMap \subseteq Shop
    /\ count \in [Shop -> 0..ciMaxRefreshingThreads]
    /\ waiting \subseteq Cell /\ busy \subseteq Cell /\ refreshing \subseteq Cell
    /\ pc \in {"eventLoop", "process", "stop", "crashed"}
    /\ cursor \in 1..EndShop
    /\ flag \in BOOLEAN
    /\ thread \in [Shop -> {"idle", "running", "quitting"}]
    /\ current \in [Shop -> Nat]
    /\ loads \in [Shop -> 0..MaxLoads]
    /\ timer \in [Shop -> BOOLEAN]
    /\ posted \in Seq(Event)
    /\ ub \in BOOLEAN
    /\ selected \subseteq Cell /\ asked \subseteq Cell /\ answered \subseteq Cell

\* A plugin holds one component at a time (m_iCount and ciMaxRefreshingThreads):
\* an entry in process is the one its plugin is working on, and it is counted,
\* whatever answers, late answers, stops and restarts came before.
OneSearchPerShop ==
    \A x \in busy :
        /\ count[ShopOf(x)] = 1
        /\ NameOf(x) = current[ShopOf(x)]
        /\ \A y \in busy : ShopOf(x) = ShopOf(y) => x = y

\* The walks of processComp and stopProcessComp never stand on a key that is
\* not in the map (the erase in processComp steps past the erased shop first).
CursorInMap == pc \in {"process", "stop"} => cursor \in inMap \cup {EndShop}

\* The button says "Refresh" only when the map is empty, so the warning
\* "Components refreshing data from last Refresh run are NOT CLEARED" of
\* prepareNewRefreshing is never logged, not even after a stop whose searches
\* were still running.
ReadyIsClean == guiState = "Ready" => inMap = {} /\ Entries = {}

\* A cell marked as refreshing that has no entry any more is one whose entry
\* was overwritten, because the table names its component or its shop twice.
\* In any other table the mark of every cell goes away with its entry.
MarkedHaveEntries ==
    \A x \in refreshing \ Entries : \E y \in Cell : y # x /\ SameKey(x, y)

\* While components remain after a stop, each of them has something that will
\* release it: its thread is quitting, or a finished() event is on its way.
\* Without it the Stop button would stay disabled for ever.
BusyIsReleased ==
    (stopping /\ pc = "eventLoop" /\ ~ub) =>
        \A x \in busy : \/ thread[ShopOf(x)] = "quitting"
                        \/ \E i \in DOMAIN posted : posted[i] = FinishedOf(ShopOf(x))

\* As long as the map of a refresh with components is not empty, some search
\* is in process, or some thread will end, whose finished() lets processComp
\* go on: although processComp passes over the shop after an erased one and
\* erases no shop once it has started a search, no shop is left behind with
\* nobody to come back for it.
RefreshHasNext ==
    (~stopping /\ pc = "eventLoop" /\ ~ub /\ inMap # {} /\ selected # {}) =>
        \/ busy # {}
        \/ \E s \in Shop : thread[s] = "quitting"
        \/ \E s \in Shop, i \in DOMAIN posted : posted[i] = FinishedOf(s)

\* The inductive invariant of the proofs.  Beside the types: entries belong to
\* shops of the map and are found by their key; an entry in process is the one
\* its plugin works on, and it is counted; each loop runs under its own value
\* of m_bStoppingRefreshing; and until a stop nothing that a refresh selected
\* is lost, and nothing that waits has been asked for.
Keyed == \A x, y \in Entries : SameKey(x, y) => x = y
EntriesInMap == \A x \in Entries : ShopOf(x) \in inMap
BusyCounted ==
    \A x \in busy : count[ShopOf(x)] = 1 /\ NameOf(x) = current[ShopOf(x)] /\ x \notin waiting
StoppingMatches ==
    /\ guiState = "Stopping" => stopping
    /\ guiState = "InProgress" => ~stopping
    /\ pc = "process" => ~stopping
    /\ pc = "stop" => stopping
NothingLost ==
    guiState = "InProgress" => selected = Entries \cup answered /\ waiting \cap asked = {}
IInv ==
    /\ TypeOK /\ CursorInMap
    /\ Keyed /\ EntriesInMap /\ BusyCounted
    /\ guiState = "Ready" => inMap = {}
    /\ StoppingMatches /\ NothingLost

\* The inductive invariant, on top of IInv, that somebody always comes back for
\* what is left, until an invalid iterator was used.  A thread runs exactly
\* for a search, until Stop, and after it a search has a thread that ends or
\* has ended (Released).  Until Stop each end of a thread still to be handled
\* serves one shop of the map whose thread is idle (Owed, Ends); a walk serves
\* one more, or, when the refresh begins, all it still comes to (Served).
Owed    == {s \in inMap : thread[s] = "idle"}
Ends    == {i \in DOMAIN posted : posted[i].kind = "finished"}
IsEnding(s) == thread[s] = "quitting" \/ \E i \in DOMAIN posted : posted[i] = FinishedOf(s)
ToBeStopped(s) == pc = "stop" /\ s >= cursor
RunsForSearch ==
    \A s \in Shop :
        /\ thread[s] = "running" => OfShop(busy, s) # {} /\ (stopping => ToBeStopped(s))
        /\ ~stopping /\ OfShop(busy, s) # {} => thread[s] = "running"
        /\ ~stopping /\ count[s] # 0 => OfShop(busy, s) # {}
Released ==
    stopping => \A x \in busy : \/ IsEnding(ShopOf(x))
                                \/ ToBeStopped(ShopOf(x)) /\ thread[ShopOf(x)] = "running"
WalkFromStart ==
    /\ \A s \in inMap : s >= cursor => OfShop(waiting, s) # {}
    /\ Cardinality({s \in Owed : s < cursor}) <= Cardinality(Ends)
WalkServesOne ==
    /\ flag /\ \E s \in Owed : s >= cursor
    /\ Cardinality(Owed) <= Cardinality(Ends) + 1
EachOwedHasEnd == Cardinality(Owed) <= Cardinality(Ends)
Served ==
    (~stopping /\ selected # {}) =>
        /\ pc = "eventLoop" => EachOwedHasEnd
        /\ pc = "process" => WalkFromStart \/ WalkServesOne \/ EachOwedHasEnd
ServeInv == ~ub => RunsForSearch /\ Released /\ Served

\* Once Stop was pressed no plugin is given another component, although
\* threads go on ending and every end of a thread used to start the next one.
NoSearchAfterStop == [][guiState = "Stopping" => asked' \subseteq asked]_vars

\* A component is given to a plugin at most once in a refresh.
AskedOnce == [][(busy' \ busy) \cap asked = {}]_vars

\* A refresh that nobody stopped ends only when every component it started
\* with has been answered: processComp's bSingleShopCompFinished never erases
\* a shop that has components left.
FinishedMeansAnswered ==
    [][guiState = "InProgress" /\ guiState' = "Ready" => answered = selected]_vars

\* After Stop the window becomes ready again, whether or not the plugins ever
\* answer, unless the walk used the invalid iterator.
StopCompletes == guiState = "Stopping" ~> guiState = "Ready" \/ ub

\* A refresh with a component comes to an end, unless a plugin is silent: its
\* last page has been handled without an answer, nothing is loading any more
\* and no timer runs.
Silent(s) ==
    ~timer[s] /\ loads[s] = 0 /\ \A i \in DOMAIN posted : posted[i] # PageOf(s)
RefreshCompletes ==
    (guiState = "InProgress" /\ selected # {}) ~>
        guiState # "InProgress" \/ \E x \in busy : Silent(ShopOf(x))

-----------------------------------------------------------------------------
\* The refresh does what RefreshSpec promises: with its entries for the cells,
\* every iteration, answer and end of a thread is one of its steps or none.
Promise == INSTANCE RefreshSpec WITH ShopOfCell <- [x \in Cell |-> ShopOf(x)]
ImplementsRefreshSpec == Promise!Spec
=============================================================================
