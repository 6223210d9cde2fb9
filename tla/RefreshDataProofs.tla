-------------------------- MODULE RefreshDataProofs --------------------------
(***************************************************************************)
(* Proofs about RefreshData for every number of shops, rows and columns,   *)
(* every table and every choice of the user.  IInv is inductive; the       *)
(* invariants and the action properties follow from it.                    *)
(***************************************************************************)
EXTENDS RefreshData, TLAPS

\* A cell's shop and component name are a plugin or none, and a name.
LEMMA CellFacts ==
    \A x \in Cell : ShopOf(x) \in Shop \cup {NoShop} /\ NameOf(x) \in Nat /\ NameOf(x) # NoName
BY TableAssumption DEF Cell, ShopOf, NameOf

\* The map's order: shops are numbers, and end() is after each of them.
LEMMA ShopFacts == EndShop \in 1..EndShop /\ EndShop \notin Shop /\ Shop \subseteq 1..EndShop
                   /\ NoShop \notin Shop
BY SizesAssumption DEF Shop, EndShop, NoShop

\* onRefreshConf meets the cells in a total order.
LEMMA LaterTotal == \A x, y \in Cell : x # y => Later(x, y) \/ Later(y, x)
BY SizesAssumption DEF Cell, Later

\* The initial state satisfies the inductive invariant.
LEMMA InitIInv == Init => IInv
<1> SUFFICES ASSUME Init PROVE IInv
  OBVIOUS
<1>1. TypeOK
  <2>1. <<>> \in Seq(Event)
    OBVIOUS
  <2>2. 0 \in 0..MaxLoads /\ 0 \in 0..ciMaxRefreshingThreads /\ NoName \in Nat
    BY SizesAssumption DEF ciMaxRefreshingThreads, NoName
  <2> QED
    BY <2>1, <2>2, ShopFacts DEF Init, TypeOK
<1>2. CursorInMap /\ Keyed /\ EntriesInMap /\ BusyCounted /\ StoppingMatches /\ NothingLost
  BY DEF Init, CursorInMap, Keyed, EntriesInMap, BusyCounted, StoppingMatches, NothingLost, Entries
<1> QED
  BY <1>1, <1>2 DEF IInv, Init

-----------------------------------------------------------------------------

\* A refresh starts with entries of distinct keys, all of shops of the map.
LEMMA RefreshConfIInv ==
    ASSUME IInv, NEW rows \in SUBSET (1..NRows), NEW cols \in SUBSET (1..NCols),
           RefreshConf(rows, cols)
    PROVE  IInv'
<1> DEFINE marked == {x \in rows \X cols : ShopOf(x) # NoShop}
           kept   == {x \in marked : \A y \in marked : SameKey(x, y) => ~Later(y, x)}
<1>1. marked \subseteq Cell /\ kept \subseteq marked
  BY DEF Cell
<1>2. /\ waiting' = kept /\ busy' = {} /\ refreshing' = refreshing \cup marked
      /\ inMap' = {ShopOfCol[c] : c \in cols} \ {NoShop} /\ count' = [s \in Shop |-> 0]
      /\ guiState' = "InProgress" /\ stopping' = FALSE /\ pc' = "process" /\ flag' = TRUE
      /\ selected' = kept /\ asked' = {} /\ answered' = {} /\ ub' = ub
      /\ cursor' \in inMap' \cup {EndShop}
      /\ UNCHANGED pluginVars
  BY DEF RefreshConf, PressRefresh, PrepareNewRefreshing, EnterLoop, IsNext
<1>3. inMap' \subseteq Shop
  BY <1>2, TableAssumption
<1>4. TypeOK'
  <2>1. cursor' \in 1..EndShop /\ stopping' \in BOOLEAN /\ flag' \in BOOLEAN
    BY <1>2, <1>3, ShopFacts
  <2>2. count' \in [Shop -> 0..ciMaxRefreshingThreads]
    BY <1>2 DEF ciMaxRefreshingThreads
  <2>3. waiting' \subseteq Cell /\ refreshing' \subseteq Cell /\ selected' \subseteq Cell
    BY <1>1, <1>2 DEF IInv, TypeOK
  <2> HIDE DEF kept, marked
  <2> QED
    BY <1>2, <1>3, <2>1, <2>2, <2>3 DEF IInv, TypeOK, pluginVars
<1>5. Keyed'
  <2>1. \A x, y \in kept : SameKey(x, y) => SameKey(y, x)
    BY DEF SameKey
  <2>2. \A x, y \in kept : SameKey(x, y) => x = y
    BY <1>1, <2>1, LaterTotal
  <2> QED
    BY <1>2, <2>2 DEF Keyed, Entries, SameKey, ShopOf, NameOf
<1>6. EntriesInMap'
  <2>1. \A x \in marked : ShopOf(x) \in {ShopOfCol[c] : c \in cols} \ {NoShop}
    BY DEF ShopOf
  <2> QED
    BY <1>1, <1>2, <2>1 DEF EntriesInMap, Entries, ShopOf
<1>7. CursorInMap' /\ BusyCounted' /\ StoppingMatches' /\ NothingLost'
  BY <1>2 DEF CursorInMap, BusyCounted, StoppingMatches, NothingLost, Entries
<1> QED
  BY <1>2, <1>4, <1>5, <1>6, <1>7 DEF IInv

\* Stop sets m_bStoppingRefreshing and enters the walk that releases the shops.
LEMMA StopRefreshConfIInv == ASSUME IInv, StopRefreshConf PROVE IInv'
<1>1. cursor' \in inMap' \cup {EndShop} /\ pc' = "stop" /\ flag' = TRUE
  BY DEF StopRefreshConf, PressStop, LoopAfterStop, EnterLoop, IsNext
<1>2. TypeOK'
  BY <1>1, ShopFacts DEF IInv, TypeOK, StopRefreshConf, PressStop, pluginVars, historyVars
<1> QED
  BY <1>1, <1>2 DEF IInv, CursorInMap, Keyed, EntriesInMap, BusyCounted, StoppingMatches,
     NothingLost, Entries, StopRefreshConf, PressStop, pluginVars, historyVars,
     ShopOf, NameOf, SameKey

\* Resetting a field only takes its mark away.
LEMMA ResetFieldIInv == ASSUME IInv, NEW x \in Cell, ResetField(x) PROVE IInv'
BY DEF IInv, TypeOK, CursorInMap, Keyed, EntriesInMap, BusyCounted, StoppingMatches,
   NothingLost, Entries, ResetField, loopVars, pluginVars, historyVars, ShopOf, NameOf, SameKey

-----------------------------------------------------------------------------

LEMMA ProcessSkipIInv == ASSUME IInv, NEW s \in Shop, ProcessSkip(s) PROVE IInv'
<1>1. cursor' \in inMap \cup {EndShop}
  BY DEF ProcessSkip, IsNext
<1>2. TypeOK'
  BY <1>1, ShopFacts DEF IInv, TypeOK, ProcessSkip, refreshVars, pluginVars, historyVars
<1> QED
  BY <1>1, <1>2 DEF IInv, CursorInMap, Keyed, EntriesInMap, BusyCounted, StoppingMatches,
     NothingLost, Entries, ProcessSkip, refreshVars, pluginVars, historyVars, ShopOf, NameOf,
     SameKey

\* A shop that is not skipped counts no search, so none of its entries is in
\* process and the new one is its only one.
LEMMA ProcessStartIInv ==
    ASSUME IInv, NEW s \in Shop, NEW x \in Cell, ProcessStart(s, x) PROVE IInv'
<1>1. count[s] = 0
  BY DEF IInv, TypeOK, ProcessStart, Skips, ciMaxRefreshingThreads
<1>2. x \in waiting /\ ShopOf(x) = s /\ x \notin busy
  BY DEF IInv, BusyCounted, ProcessStart, OfShop
<1>3. \A y \in busy : ShopOf(y) # s
  BY <1>1 DEF IInv, BusyCounted
<1>4. cursor' \in inMap' \cup {EndShop} /\ inMap' = inMap
  BY DEF ProcessStart, IsNext
<1>5. count' \in [Shop -> 0..ciMaxRefreshingThreads] /\ count'[s] = 1
      /\ \A t \in Shop : t # s => count'[t] = count[t]
  BY <1>1 DEF IInv, TypeOK, ProcessStart, ciMaxRefreshingThreads
<1>6. current' \in [Shop -> Nat] /\ current'[s] = NameOf(x)
      /\ \A t \in Shop : t # s => current'[t] = current[t]
  BY CellFacts DEF IInv, TypeOK, ProcessStart
<1>7. loads' \in [Shop -> 0..MaxLoads] /\ timer' \in [Shop -> BOOLEAN]
      /\ thread' \in [Shop -> {"idle", "running", "quitting"}]
  <2>1. \A n \in 0..MaxLoads : (IF n < MaxLoads THEN n + 1 ELSE n) \in 0..MaxLoads
    BY SizesAssumption
  <2> QED
    BY <2>1 DEF IInv, TypeOK, ProcessStart
<1>8. TypeOK'
  BY <1>4, <1>5, <1>6, <1>7, ShopFacts DEF IInv, TypeOK, ProcessStart
<1>9. BusyCounted'
  <2> SUFFICES ASSUME NEW y \in busy'
               PROVE  /\ (count[ShopOf(y)])' = 1 /\ NameOf(y) = (current[ShopOf(y)])'
                      /\ y \notin waiting'
    BY DEF BusyCounted, ShopOf, NameOf
  <2>1. CASE y = x
    BY <1>2, <1>5, <1>6, <2>1 DEF ProcessStart, ShopOf
  <2>2. CASE y # x
    <3>1. y \in busy /\ y \in Cell /\ ShopOf(y) \in Shop
      BY <2>2 DEF IInv, TypeOK, EntriesInMap, Entries, ProcessStart
    <3> QED
      BY <1>3, <1>5, <1>6, <2>2, <3>1 DEF IInv, BusyCounted, ProcessStart, ShopOf
  <2> QED
    BY <2>1, <2>2
<1>10. waiting' \cup busy' = waiting \cup busy
  BY <1>2 DEF ProcessStart
<1>11. NothingLost'
  BY <1>2, <1>10 DEF IInv, NothingLost, Entries, ProcessStart
<1> QED
  BY <1>4, <1>8, <1>9, <1>10, <1>11 DEF IInv, CursorInMap, Keyed, EntriesInMap, StoppingMatches,
     Entries, ProcessStart, ShopOf, NameOf, SameKey

\* processComp erases a shop only when it has no entry left.
LEMMA ProcessExhaustedIInv == ASSUME IInv, NEW s \in Shop, ProcessExhausted(s) PROVE IInv'
<1>1. cursor' \in inMap' \cup {EndShop} /\ inMap' \subseteq inMap /\ flag' \in BOOLEAN
  BY DEF ProcessExhausted, StepAfterErase, IsNext, IInv, TypeOK
<1>2. \A x \in Entries : ShopOf(x) \in inMap'
  BY DEF IInv, EntriesInMap, Entries, ProcessExhausted, OfShop
<1>3. TypeOK'
  BY <1>1, ShopFacts DEF IInv, TypeOK, ProcessExhausted, pluginVars, historyVars
<1> QED
  BY <1>1, <1>2, <1>3 DEF IInv, CursorInMap, Keyed, EntriesInMap, BusyCounted, StoppingMatches,
     NothingLost, Entries, ProcessExhausted, pluginVars, historyVars, ShopOf, NameOf, SameKey

-----------------------------------------------------------------------------

LEMMA StopBusyShopIInv == ASSUME IInv, NEW s \in Shop, StopBusyShop(s) PROVE IInv'
<1>1. cursor' \in inMap' \cup {EndShop} /\ inMap' = inMap
  BY DEF StopBusyShop, IsNext
<1>2. waiting' \subseteq waiting /\ refreshing' \subseteq refreshing /\ busy' = busy
  BY DEF StopBusyShop, Unmark
<1>3. thread' \in [Shop -> {"idle", "running", "quitting"}]
  BY DEF IInv, TypeOK, StopBusyShop, Quit
<1>4. TypeOK'
  BY <1>1, <1>2, <1>3, ShopFacts DEF IInv, TypeOK, StopBusyShop, historyVars
<1>5. NothingLost' /\ StoppingMatches'
  BY DEF IInv, StoppingMatches, NothingLost, StopBusyShop
<1> QED
  BY <1>1, <1>2, <1>4, <1>5 DEF IInv, CursorInMap, Keyed, EntriesInMap, BusyCounted,
     Entries, StopBusyShop, historyVars, ShopOf, NameOf, SameKey

\* Whatever the invalid iterator does, the entries that remain are in the map.
LEMMA StopDoneShopIInv == ASSUME IInv, NEW s \in Shop, StopDoneShop(s) PROVE IInv'
<1>1. pc' \in {"stop", "crashed"} /\ (pc' = "stop" => cursor' \in inMap' \cup {EndShop})
      /\ cursor' \in 1..EndShop /\ inMap' = inMap \ {s} /\ ub' \in BOOLEAN
  BY ShopFacts DEF StopDoneShop, IInv, TypeOK
<1>2. waiting' \subseteq waiting /\ refreshing' \subseteq refreshing /\ busy' = busy
  BY DEF StopDoneShop, Unmark
<1>3. \A x \in waiting' \cup busy' : ShopOf(x) # s /\ ShopOf(x) \in inMap /\ ShopOf(x) \in Shop
  BY DEF StopDoneShop, OfShop, IInv, TypeOK, EntriesInMap, Entries
<1>4. count' \in [Shop -> 0..ciMaxRefreshingThreads]
      /\ \A t \in Shop : t # s => count'[t] = count[t]
  BY DEF IInv, TypeOK, StopDoneShop, ciMaxRefreshingThreads
<1>5. TypeOK'
  BY <1>1, <1>2, <1>4 DEF IInv, TypeOK, StopDoneShop, pluginVars
<1>6. NothingLost' /\ StoppingMatches'
  BY <1>1 DEF IInv, StoppingMatches, NothingLost, StopDoneShop
<1>7. EntriesInMap'
  BY <1>1, <1>3 DEF EntriesInMap, Entries, ShopOf
<1>8. BusyCounted'
  BY <1>2, <1>3, <1>4 DEF IInv, BusyCounted, StopDoneShop, pluginVars, ShopOf, NameOf
<1> QED
  BY <1>1, <1>2, <1>5, <1>6, <1>7, <1>8 DEF IInv, CursorInMap, Keyed,
     Entries, StopDoneShop, ShopOf, NameOf, SameKey

LEMMA LoopEndIInv == ASSUME IInv, LoopEnd PROVE IInv'
<1>1. TypeOK'
  BY DEF IInv, TypeOK, LoopEnd, RefreshingFinished, pluginVars
<1> QED
  BY <1>1 DEF IInv, CursorInMap, Keyed, EntriesInMap, BusyCounted, StoppingMatches,
     NothingLost, Entries, LoopEnd, RefreshingFinished, MapEmpty, pluginVars,
     ShopOf, NameOf, SameKey

-----------------------------------------------------------------------------

\* An answer, even a late one, takes at most one entry out of the refresh, and
\* leaves none of its shop in process.
LEMMA AnswerFacts ==
    ASSUME IInv, NEW s \in Shop, PriceSearchedFinished(s)
    PROVE  /\ waiting' = waiting \ Hit(s) /\ busy' = busy \ Hit(s)
           /\ answered' = answered \cup Hit(s) /\ refreshing' \subseteq refreshing
           /\ Hit(s) \subseteq Entries
           /\ \A y \in busy' : ShopOf(y) # s
           /\ count' \in [Shop -> 0..ciMaxRefreshingThreads]
           /\ \A t \in Shop : t # s => count'[t] = count[t]
           /\ thread' \in [Shop -> {"idle", "running", "quitting"}]
<1>1. waiting' = waiting \ Hit(s) /\ busy' = busy \ Hit(s) /\ answered' = answered \cup Hit(s)
      /\ refreshing' \subseteq refreshing
  BY DEF PriceSearchedFinished, WaitingAfterAnswer, Unmark
<1>2. Hit(s) \subseteq Entries
  BY DEF Hit
<1>3. \A y \in busy' : ShopOf(y) # s
  BY <1>1 DEF Hit, Entries, IInv, BusyCounted
<1>4. count' \in [Shop -> 0..ciMaxRefreshingThreads]
      /\ \A t \in Shop : t # s => count'[t] = count[t]
  <2>1. \A n \in 0..ciMaxRefreshingThreads : CountAfterAnswer(n) \in 0..ciMaxRefreshingThreads
    BY DEF CountAfterAnswer, ciMaxRefreshingThreads
  <2>2. count' = count \/ count' = [count EXCEPT ![s] = CountAfterAnswer(count[s])]
    BY DEF PriceSearchedFinished
  <2>3. count \in [Shop -> 0..ciMaxRefreshingThreads]
    BY DEF IInv, TypeOK
  <2> QED
    BY <2>1, <2>2, <2>3
<1>5. thread' \in [Shop -> {"idle", "running", "quitting"}]
  BY DEF IInv, TypeOK, PriceSearchedFinished, Quit
<1> QED
  BY <1>1, <1>2, <1>3, <1>4, <1>5

\* The part of the invariant that an answer disturbs, for the two handlers
\* that answer.
LEMMA AnswerIInv ==
    ASSUME IInv, NEW s \in Shop, PriceSearchedFinished(s),
           UNCHANGED <<guiState, stopping, inMap, loopVars, current, selected, asked>>
    PROVE  CursorInMap' /\ Keyed' /\ EntriesInMap' /\ BusyCounted' /\ StoppingMatches'
           /\ NothingLost' /\ (guiState = "Ready" => inMap = {})'
<1>1. CursorInMap' /\ StoppingMatches' /\ (guiState = "Ready" => inMap = {})'
  BY DEF IInv, CursorInMap, StoppingMatches, loopVars
<1>2. Keyed' /\ EntriesInMap'
  BY AnswerFacts DEF IInv, Keyed, EntriesInMap, Entries, ShopOf, NameOf, SameKey
<1>3. BusyCounted'
  <2>1. \A y \in busy' : y \in busy /\ ShopOf(y) \in Shop /\ ShopOf(y) # s
    BY AnswerFacts DEF IInv, TypeOK, EntriesInMap, Entries
  <2> QED
    BY <2>1, AnswerFacts DEF IInv, BusyCounted, ShopOf, NameOf
<1>4. NothingLost'
  BY AnswerFacts DEF IInv, NothingLost, Entries
<1> QED
  BY <1>1, <1>2, <1>3, <1>4

LEMMA SeqTail == ASSUME NEW S, NEW q \in Seq(S), q # <<>> PROVE Tail(q) \in Seq(S)
OBVIOUS

LEMMA PageHandledIInv == ASSUME IInv, NEW s \in Shop, PageHandled(s) PROVE IInv'
<1>1. posted' \in Seq(Event) /\ timer' \in [Shop -> BOOLEAN]
  BY SeqTail DEF PageHandled, IInv, TypeOK
<1>2. CASE PriceSearchedFinished(s)
  <2>1. TypeOK'
    BY <1>1, <1>2, AnswerFacts DEF IInv, TypeOK, PageHandled, loopVars, Entries
  <2>2. UNCHANGED <<guiState, stopping, inMap, loopVars, current, selected, asked>>
    BY DEF PageHandled
  <2> QED
    BY <1>2, <2>1, <2>2, AnswerIInv DEF IInv
<1>3. CASE UNCHANGED <<waiting, busy, refreshing, answered, count, thread>>
  <2>1. TypeOK'
    BY <1>1, <1>3 DEF IInv, TypeOK, PageHandled, loopVars
  <2> QED
    BY <1>3, <2>1 DEF IInv, CursorInMap, Keyed, EntriesInMap, BusyCounted, StoppingMatches,
       NothingLost, Entries, PageHandled, loopVars, ShopOf, NameOf, SameKey
<1> QED
  BY <1>2, <1>3 DEF PageHandled

LEMMA PageTimeoutIInv == ASSUME IInv, NEW s \in Shop, PageTimeout(s) PROVE IInv'
<1>1. PriceSearchedFinished(s) /\ timer' \in [Shop -> BOOLEAN]
      /\ UNCHANGED <<guiState, stopping, inMap, loopVars, current, selected, asked>>
  BY DEF PageTimeout, IInv, TypeOK
<1>2. TypeOK'
  BY <1>1, AnswerFacts DEF IInv, TypeOK, PageTimeout, loopVars, Entries
<1> QED
  BY <1>1, <1>2, AnswerIInv DEF IInv

\* The environment's own steps leave the refresh alone.
LEMMA EnvironmentIInv ==
    ASSUME IInv, NEW s \in Shop, PageArrives(s) \/ ThreadExit(s) PROVE IInv'
<1>1. PageOf(s) \in Event /\ FinishedOf(s) \in Event
  BY DEF PageOf, FinishedOf, Event
<1>2. posted' \in Seq(Event)
  <2>1. posted \in Seq(Event)
    BY DEF IInv, TypeOK
  <2>2. posted' = Append(posted, PageOf(s)) \/ posted' = Append(posted, FinishedOf(s))
    BY DEF PageArrives, ThreadExit
  <2> QED
    BY <1>1, <2>1, <2>2
<1>3. loads' \in [Shop -> 0..MaxLoads]
  <2>1. loads \in [Shop -> 0..MaxLoads]
    BY DEF IInv, TypeOK
  <2>2. \/ loads' = loads
        \/ loads[s] > 0 /\ loads' = [loads EXCEPT ![s] = loads[s] - 1]
    BY DEF PageArrives, ThreadExit
  <2>3. loads[s] > 0 => loads[s] - 1 \in 0..MaxLoads
    BY <2>1, SizesAssumption
  <2> QED
    BY <2>1, <2>2, <2>3
<1>4. thread' \in [Shop -> {"idle", "running", "quitting"}]
  BY DEF PageArrives, ThreadExit, IInv, TypeOK
<1>5. TypeOK'
  BY <1>2, <1>3, <1>4 DEF IInv, TypeOK, PageArrives, ThreadExit, refreshVars, loopVars,
     historyVars
<1> QED
  BY <1>5 DEF IInv, CursorInMap, Keyed, EntriesInMap, BusyCounted, StoppingMatches,
     NothingLost, Entries, PageArrives, ThreadExit, refreshVars, loopVars, historyVars,
     ShopOf, NameOf, SameKey

LEMMA ShopPluginTerminatedIInv ==
    ASSUME IInv, NEW s \in Shop, ShopPluginTerminated(s) PROVE IInv'
<1>1. /\ cursor' \in inMap' \cup {EndShop} /\ inMap' = inMap /\ flag' = TRUE
      /\ pc' = (IF stopping THEN "stop" ELSE "process")
      /\ waiting' \cup busy' = waiting \cup busy /\ busy' \subseteq busy
      /\ (\A x \in busy' : x \notin waiting')
      /\ posted' \in Seq(Event)
  BY SeqTail DEF ShopPluginTerminated, EnterLoop, LoopAfterFinished, IsNext, Hit, Entries,
     IInv, TypeOK, BusyCounted
<1>2. waiting' \subseteq Cell /\ busy' \subseteq Cell
  BY <1>1 DEF IInv, TypeOK
<1>3. TypeOK'
  BY <1>1, <1>2, ShopFacts DEF IInv, TypeOK, ShopPluginTerminated, historyVars
<1>4. NothingLost' /\ StoppingMatches'
  BY <1>1 DEF IInv, StoppingMatches, NothingLost, Entries, ShopPluginTerminated, historyVars
<1> QED
  BY <1>1, <1>3, <1>4 DEF IInv, CursorInMap, Keyed, EntriesInMap, BusyCounted,
     Entries, ShopPluginTerminated, ShopOf, NameOf, SameKey

-----------------------------------------------------------------------------

\* Every step keeps the inductive invariant.
LEMMA NextIInv == IInv /\ [Next]_vars => IInv'
<1> SUFFICES ASSUME IInv, [Next]_vars PROVE IInv'
  OBVIOUS
<1>1. CASE User
  <2>1. ASSUME NEW sel \in Selections, RefreshConf(sel[1], sel[2]) PROVE IInv'
    <3>1. sel[1] \in SUBSET (1..NRows) /\ sel[2] \in SUBSET (1..NCols)
      BY SizesAssumption
    <3> QED
      BY <2>1, <3>1, RefreshConfIInv
  <2>2. ASSUME NEW x \in Resettable, ResetField(x) PROVE IInv'
    BY <2>2, SizesAssumption, ResetFieldIInv
  <2> QED
    BY <1>1, <2>1, <2>2, StopRefreshConfIInv DEF User
<1>2. CASE Loop
  BY <1>2, LoopEndIInv, ProcessSkipIInv, ProcessExhaustedIInv, ProcessStartIInv,
     StopBusyShopIInv, StopDoneShopIInv DEF Loop
<1>3. ASSUME NEW s \in Shop, Deliver(s) \/ PageArrives(s) \/ PageTimeout(s) \/ ThreadExit(s)
      PROVE  IInv'
  BY <1>3, PageHandledIInv, ShopPluginTerminatedIInv, PageTimeoutIInv, EnvironmentIInv DEF Deliver
<1>4. CASE UNCHANGED vars
  BY <1>4 DEF vars, IInv, TypeOK, CursorInMap, Keyed, EntriesInMap, BusyCounted, StoppingMatches,
     NothingLost, Entries, ShopOf, NameOf, SameKey
<1> QED
  BY <1>1, <1>2, <1>3, <1>4 DEF Next

\* The inductive invariant holds in every reachable state: this is the base of
\* every theorem below.
THEOREM Inductive == Spec => []IInv
<1>1. Init => IInv
  BY InitIInv
<1>2. IInv /\ [Next]_vars => IInv'
  BY NextIInv
<1> QED
  BY <1>1, <1>2, PTL DEF Spec

\* Every variable keeps its type; in particular m_iCount stays between 0 and
\* ciMaxRefreshingThreads although late answers decrement it too.
THEOREM TypeCorrect == Spec => []TypeOK
<1>1. IInv => TypeOK
  BY DEF IInv
<1> QED
  BY <1>1, Inductive, PTL

\* The walks of the map stand on keys of the map, whatever is erased on the way.
THEOREM CursorStaysInMap == Spec => []CursorInMap
<1>1. IInv => CursorInMap
  BY DEF IInv
<1> QED
  BY <1>1, Inductive, PTL

\* A plugin never has two components in process, and the one it has is the one
\* whose answer it will give.
THEOREM OneSearchPerShopHolds == Spec => []OneSearchPerShop
<1>1. IInv => OneSearchPerShop
  BY DEF IInv, BusyCounted, Keyed, Entries, SameKey, OneSearchPerShop
<1> QED
  BY <1>1, Inductive, PTL

\* "Refresh" is offered only when nothing of the last refresh is left.
THEOREM ReadyIsCleanHolds == Spec => []ReadyIsClean
<1>1. IInv => ReadyIsClean
  BY DEF IInv, EntriesInMap, ReadyIsClean
<1> QED
  BY <1>1, Inductive, PTL

\* Only a processComp iteration gives a component to a plugin, or Refresh and
\* the end of a walk forget the ones that were given.
LEMMA AskedChanges ==
    ASSUME IInv, [Next]_vars
    PROVE  \/ asked' \subseteq asked /\ busy' \subseteq busy
           \/ \E s \in Shop, x \in Cell : ProcessStart(s, x)
<1>1. CASE User
  BY <1>1 DEF User, RefreshConf, PressRefresh, PrepareNewRefreshing, StopRefreshConf,
              PressStop, ResetField, historyVars
<1>2. CASE Loop
  BY <1>2 DEF Loop, LoopEnd, RefreshingFinished, ProcessSkip, ProcessExhausted, StopBusyShop,
              StopDoneShop, refreshVars, historyVars
<1>3. ASSUME NEW s \in Shop, Deliver(s) \/ PageArrives(s) \/ PageTimeout(s) \/ ThreadExit(s)
      PROVE  asked' \subseteq asked /\ busy' \subseteq busy
  BY <1>3 DEF Deliver, PageHandled, PageTimeout, PageArrives, ThreadExit, ShopPluginTerminated,
     PriceSearchedFinished, refreshVars, historyVars
<1>4. CASE UNCHANGED vars
  BY <1>4 DEF vars
<1> QED
  BY <1>1, <1>2, <1>3, <1>4 DEF Next

\* After Stop no plugin is given another component.
THEOREM NoSearchAfterStopHolds == Spec => NoSearchAfterStop
<1>1. IInv /\ [Next]_vars => [guiState = "Stopping" => asked' \subseteq asked]_vars
  BY AskedChanges DEF IInv, StoppingMatches, ProcessStart
<1> QED
  BY <1>1, Inductive, PTL DEF Spec, NoSearchAfterStop

\* No component is given to its plugin twice in one refresh.
THEOREM AskedOnceHolds == Spec => AskedOnce
<1>1. ASSUME IInv, NEW s \in Shop, NEW x \in Cell, ProcessStart(s, x)
      PROVE  (busy' \ busy) \cap asked = {}
  <2>1. guiState = "InProgress"
    BY <1>1 DEF IInv, TypeOK, StoppingMatches, EntriesInMap, Entries, ProcessStart, OfShop
  <2> QED
    BY <1>1, <2>1 DEF IInv, NothingLost, ProcessStart, OfShop
<1>2. IInv /\ [Next]_vars => [(busy' \ busy) \cap asked = {}]_vars
  BY <1>1, AskedChanges
<1> QED
  BY <1>2, Inductive, PTL DEF Spec, AskedOnce

\* A refresh that was not stopped ends only with an answer to every component
\* it started with.
THEOREM FinishedMeansAnsweredHolds == Spec => FinishedMeansAnswered
<1>1. ASSUME IInv, [Next]_vars, guiState = "InProgress", guiState' = "Ready"
      PROVE  answered = selected
  <2>1. inMap = {}
    BY <1>1 DEF Next, User, Loop, Deliver, RefreshConf, PressRefresh, StopRefreshConf, PressStop,
       ResetField, LoopEnd, RefreshingFinished, MapEmpty, ProcessSkip, ProcessExhausted,
       ProcessStart, StopBusyShop, StopDoneShop, PageHandled, PageTimeout, PageArrives,
       ThreadExit, ShopPluginTerminated, refreshVars, vars
  <2> QED
    BY <1>1, <2>1 DEF IInv, EntriesInMap, NothingLost
<1>2. IInv /\ [Next]_vars =>
        [guiState = "InProgress" /\ guiState' = "Ready" => answered = selected]_vars
  BY <1>1
<1> QED
  BY <1>2, Inductive, PTL DEF Spec, FinishedMeansAnswered
-----------------------------------------------------------------------------
(***************************************************************************)
(* The marks of the table.  Only Refresh sets marks; every other step that *)
(* takes an entry away takes its mark away too, and stopProcessComp and    *)
(* the answers are the only steps that take one.                           *)
(***************************************************************************)
\* A refresh marks the cells of which it takes no entry only where a later
\* cell has the same key.
LEMMA RefreshConfMarks ==
    ASSUME IInv, MarkedHaveEntries,
           NEW rows \in SUBSET (1..NRows), NEW cols \in SUBSET (1..NCols),
           RefreshConf(rows, cols)
    PROVE  MarkedHaveEntries'
<1> DEFINE marked == {x \in rows \X cols : ShopOf(x) # NoShop}
           kept   == {x \in marked : \A y \in marked : SameKey(x, y) => ~Later(y, x)}
<1>1. /\ waiting' = kept /\ busy' = {} /\ refreshing' = refreshing \cup marked
  BY DEF RefreshConf, PrepareNewRefreshing
<1>2. Entries = {}
  BY DEF RefreshConf, PressRefresh, IInv, EntriesInMap
<1>3. marked \subseteq Cell
  BY DEF Cell
<1>4. \A x, y \in Cell : Later(y, x) => y # x
  BY SizesAssumption DEF Later, Cell
<1>5. ASSUME NEW x \in refreshing' \ (waiting' \cup busy')
      PROVE  \E y \in Cell : y # x /\ SameKey(x, y)
  <2>1. CASE x \in refreshing
    BY <1>2, <2>1 DEF MarkedHaveEntries
  <2>2. CASE x \in marked
    <3>1. PICK y \in marked : SameKey(x, y) /\ Later(y, x)
      BY <1>1, <1>5, <2>2
    <3> QED
      BY <1>3, <1>4, <2>2, <3>1
  <2> QED
    BY <1>1, <1>5, <2>1, <2>2
<1> QED
  BY <1>5 DEF MarkedHaveEntries, Entries, SameKey, ShopOf, NameOf

\* Every other step leaves no mark behind.
LEMMA MarksChange ==
    ASSUME IInv, [Next]_vars
    PROVE  \/ refreshing' \ Entries' \subseteq refreshing \ Entries
           \/ \E sel \in Selections : RefreshConf(sel[1], sel[2])
<1>1. CASE User
  BY <1>1 DEF User, StopRefreshConf, ResetField, Entries
<1>2. CASE Loop
  <2>1. CASE LoopEnd
    BY <2>1 DEF LoopEnd, Entries
  <2>2. ASSUME NEW s \in Shop, ProcessSkip(s) \/ ProcessExhausted(s)
        PROVE  refreshing' \ Entries' \subseteq refreshing \ Entries
    BY <2>2 DEF ProcessSkip, ProcessExhausted, refreshVars, Entries
  <2>3. ASSUME NEW s \in Shop, NEW x \in Cell, ProcessStart(s, x)
        PROVE  refreshing' \ Entries' \subseteq refreshing \ Entries
    BY <2>3 DEF ProcessStart, Entries
  <2>4. ASSUME NEW s \in Shop, StopBusyShop(s) \/ StopDoneShop(s)
        PROVE  refreshing' \ Entries' \subseteq refreshing \ Entries
    BY <2>4 DEF StopBusyShop, StopDoneShop, Unmark, OfShop, Entries
  <2> QED
    BY <1>2, <2>1, <2>2, <2>3, <2>4 DEF Loop
<1>3. ASSUME NEW s \in Shop, Deliver(s) \/ PageArrives(s) \/ PageTimeout(s) \/ ThreadExit(s)
      PROVE  refreshing' \ Entries' \subseteq refreshing \ Entries
  <2>1. CASE PriceSearchedFinished(s)
    BY <2>1 DEF PriceSearchedFinished, WaitingAfterAnswer, Unmark, Entries
  <2>2. CASE ShopPluginTerminated(s)
    <3>1. waiting' \cup busy' = waiting \cup busy /\ refreshing' = refreshing
      BY <2>2 DEF ShopPluginTerminated, Hit, Entries
    <3> QED
      BY <3>1 DEF Entries
  <2>3. CASE ~PriceSearchedFinished(s) /\ ~ShopPluginTerminated(s)
    BY <1>3, <2>3 DEF Deliver, PageHandled, PageTimeout, PageArrives, ThreadExit, refreshVars,
       Entries
  <2> QED
    BY <2>1, <2>2, <2>3
<1>4. CASE UNCHANGED vars
  BY <1>4 DEF vars, Entries
<1> QED
  BY <1>1, <1>2, <1>3, <1>4 DEF Next

\* A mark never outlives its entry, through answers, late answers, Stop and
\* the next Refresh, unless the table names its component or its shop twice.
THEOREM MarkedHaveEntriesHolds == Spec => []MarkedHaveEntries
<1>1. Init => MarkedHaveEntries
  BY DEF Init, MarkedHaveEntries
<1>2. IInv /\ MarkedHaveEntries /\ [Next]_vars => MarkedHaveEntries'
  <2> SUFFICES ASSUME IInv, MarkedHaveEntries, [Next]_vars PROVE MarkedHaveEntries'
    OBVIOUS
  <2>1. CASE refreshing' \ Entries' \subseteq refreshing \ Entries
    BY <2>1 DEF MarkedHaveEntries, SameKey, ShopOf, NameOf
  <2>2. ASSUME NEW sel \in Selections, RefreshConf(sel[1], sel[2]) PROVE MarkedHaveEntries'
    <3>1. sel[1] \in SUBSET (1..NRows) /\ sel[2] \in SUBSET (1..NCols)
      BY SizesAssumption
    <3> QED
      BY <2>2, <3>1, RefreshConfMarks
  <2> QED
    BY <2>1, <2>2, MarksChange
<1> QED
  BY <1>1, <1>2, Inductive, PTL DEF Spec

-----------------------------------------------------------------------------
(***************************************************************************)
(* The refresh implements RefreshSpec: the walks of the map, the threads   *)
(* and the events are steps of the promise or steps that do not show in    *)
(* it.                                                                     *)
(***************************************************************************)
shown == <<guiState, waiting, busy>>

\* A refresh that has entries is in progress, or being stopped by its walk.
LEMMA EntriesWhileRefreshing ==
    ASSUME IInv, Entries # {}
    PROVE  /\ guiState # "Ready"
           /\ stopping => guiState = "Stopping"
           /\ ~stopping => guiState = "InProgress"
BY DEF IInv, TypeOK, EntriesInMap, StoppingMatches

\* An answer is for one component, or for none.
LEMMA HitIsOne == ASSUME IInv, NEW s \in Shop PROVE Hit(s) = {} \/ \E x \in Cell : Hit(s) = {x}
<1>1. \A x, y \in Hit(s) : x = y
  BY DEF IInv, Keyed, Hit, SameKey
<1>2. Hit(s) \subseteq Cell
  BY DEF Hit, Entries, IInv, TypeOK
<1> QED
  BY <1>1, <1>2

-----------------------------------------------------------------------------

LEMMA StartStep ==
    ASSUME IInv, NEW rows \in SUBSET (1..NRows), NEW cols \in SUBSET (1..NCols),
           RefreshConf(rows, cols)
    PROVE  Promise!Next
<1>1. waiting' \in SUBSET Cell
  BY RefreshConfIInv DEF IInv, TypeOK
<1>2. Promise!Start(waiting')
  BY DEF RefreshConf, PressRefresh, PrepareNewRefreshing, Promise!Start
<1> QED
  BY <1>1, <1>2 DEF Promise!Next

LEMMA StopStep == ASSUME StopRefreshConf PROVE Promise!Next
BY DEF StopRefreshConf, PressStop, Promise!Stop, Promise!Next

\* A search is started for a plugin that has none.
LEMMA AskStep ==
    ASSUME IInv, NEW s \in Shop, NEW x \in Cell, ProcessStart(s, x) PROVE Promise!Next
<1>1. /\ x \in waiting /\ ShopOf(x) = s /\ ~stopping /\ count[s] = 0
      /\ guiState' = guiState /\ waiting' = waiting \ {x} /\ busy' = busy \cup {x}
  BY DEF ProcessStart, Skips, OfShop, IInv, TypeOK, StoppingMatches, ciMaxRefreshingThreads
<1>2. guiState = "InProgress"
  BY <1>1, EntriesWhileRefreshing DEF Entries
<1>3. \A y \in busy : y \in Cell /\ ShopOf(y) # s
  BY <1>1 DEF IInv, TypeOK, BusyCounted
<1>4. \A y \in busy : [z \in Cell |-> ShopOf(z)][y] # [z \in Cell |-> ShopOf(z)][x]
  BY <1>1, <1>3
<1>5. Promise!Ask(x)
  BY <1>1, <1>2, <1>4 DEF Promise!Ask
<1> QED
  BY <1>5 DEF Promise!Next

\* The walk after Stop drops what waits.
LEMMA DropStep ==
    ASSUME IInv, NEW s \in Shop, StopBusyShop(s) \/ StopDoneShop(s)
    PROVE  Promise!Next
<1>1. /\ pc = "stop" /\ cursor = s /\ guiState' = guiState /\ busy' = busy
      /\ waiting' = waiting \ OfShop(waiting, s)
  BY DEF StopBusyShop, StopDoneShop
<1>2. guiState = "Stopping"
  <2>1. s \in inMap
    BY <1>1, ShopFacts DEF IInv, CursorInMap
  <2> QED
    BY <1>1, <2>1 DEF IInv, TypeOK, StoppingMatches
<1>3. OfShop(waiting, s) \in SUBSET Cell
  BY DEF OfShop, IInv, TypeOK
<1>4. Promise!Drop(OfShop(waiting, s))
  BY <1>1, <1>2 DEF Promise!Drop
<1> QED
  BY <1>3, <1>4 DEF Promise!Next

LEMMA EndStep == ASSUME IInv, LoopEnd PROVE Promise!Next \/ UNCHANGED shown
<1>1. waiting' = waiting /\ busy' = busy
      /\ (guiState' = guiState \/ (inMap = {} /\ guiState' = "Ready"))
  BY DEF LoopEnd, MapEmpty, RefreshingFinished
<1>2. CASE guiState' = guiState
  BY <1>1, <1>2 DEF shown
<1>3. CASE inMap = {} /\ guiState' = "Ready" /\ guiState # "Ready"
  <2>1. waiting = {} /\ busy = {}
    BY <1>3 DEF IInv, EntriesInMap, Entries
  <2>2. Promise!End
    BY <1>1, <1>3, <2>1 DEF Promise!End
  <2> QED
    BY <2>2 DEF Promise!Next
<1> QED
  BY <1>1, <1>2, <1>3

\* The answer of a plugin, also a late one.
LEMMA AnsweredStep ==
    ASSUME IInv, NEW s \in Shop, PriceSearchedFinished(s), guiState' = guiState
    PROVE  Promise!Next \/ UNCHANGED shown
<1>1. waiting' = waiting \ Hit(s) /\ busy' = busy \ Hit(s) /\ Hit(s) \subseteq Entries
  BY AnswerFacts
<1>2. CASE Hit(s) = {}
  BY <1>1, <1>2 DEF shown
<1>3. ASSUME NEW x \in Cell, Hit(s) = {x} PROVE Promise!Next
  <2>1. guiState # "Ready"
    BY <1>1, <1>3, EntriesWhileRefreshing
  <2>2. Promise!Answered(x)
    BY <1>1, <1>3, <2>1 DEF Promise!Answered
  <2> QED
    BY <2>2 DEF Promise!Next
<1> QED
  BY <1>2, <1>3, HitIsOne

\* After Stop the end of a thread gives its search up.
LEMMA GiveUpStep ==
    ASSUME IInv, NEW s \in Shop, ShopPluginTerminated(s)
    PROVE  Promise!Next \/ UNCHANGED shown
<1>1. guiState' = guiState /\ (~stopping => waiting' = waiting /\ busy' = busy)
      /\ (stopping => waiting' = waiting \cup Hit(s) /\ busy' = busy \ Hit(s))
  BY DEF ShopPluginTerminated
<1>2. CASE ~stopping \/ Hit(s) = {}
  BY <1>1, <1>2 DEF shown
<1>3. ASSUME stopping, NEW x \in Cell, Hit(s) = {x} PROVE Promise!Next \/ UNCHANGED shown
  <2>1. x \in Entries
    BY <1>3 DEF Hit
  <2>2. guiState = "Stopping"
    BY <1>3, <2>1, EntriesWhileRefreshing
  <2>3. CASE x \in busy
    <3>1. Promise!GiveUp(x)
      BY <1>1, <1>3, <2>2, <2>3 DEF Promise!GiveUp
    <3> QED
      BY <3>1 DEF Promise!Next
  <2>4. CASE x \notin busy
    BY <1>1, <1>3, <2>1, <2>4 DEF shown, Entries
  <2> QED
    BY <2>3, <2>4
<1> QED
  BY <1>2, <1>3, HitIsOne

-----------------------------------------------------------------------------

\* Every step of the refresh is a step of the promise, or does not show in it.
LEMMA StepImplements == IInv /\ [Next]_vars => [Promise!Next]_shown
<1> SUFFICES ASSUME IInv, [Next]_vars PROVE Promise!Next \/ UNCHANGED shown
  OBVIOUS
<1>1. CASE User
  <2>1. ASSUME NEW sel \in Selections, RefreshConf(sel[1], sel[2]) PROVE Promise!Next
    <3>1. sel[1] \in SUBSET (1..NRows) /\ sel[2] \in SUBSET (1..NCols)
      BY SizesAssumption
    <3> QED
      BY <2>1, <3>1, StartStep
  <2>2. ASSUME NEW x \in Resettable, ResetField(x) PROVE UNCHANGED shown
    BY <2>2 DEF ResetField, shown
  <2> QED
    BY <1>1, <2>1, <2>2, StopStep DEF User
<1>2. CASE Loop
  <2>1. ASSUME NEW s \in Shop, ProcessSkip(s) \/ ProcessExhausted(s) PROVE UNCHANGED shown
    BY <2>1 DEF ProcessSkip, ProcessExhausted, refreshVars, shown
  <2> QED
    BY <1>2, <2>1, EndStep, AskStep, DropStep DEF Loop
<1>3. ASSUME NEW s \in Shop, Deliver(s) \/ PageArrives(s) \/ PageTimeout(s) \/ ThreadExit(s)
      PROVE  Promise!Next \/ UNCHANGED shown
  <2>1. CASE PageHandled(s)
    <3>1. CASE PriceSearchedFinished(s)
      BY <2>1, <3>1, AnsweredStep DEF PageHandled
    <3>2. CASE UNCHANGED <<waiting, busy, refreshing, answered, count, thread>>
      BY <2>1, <3>2 DEF PageHandled, shown
    <3> QED
      BY <2>1, <3>1, <3>2 DEF PageHandled
  <2>2. CASE PageTimeout(s)
    BY <2>2, AnsweredStep DEF PageTimeout
  <2>3. CASE ShopPluginTerminated(s)
    BY <2>3, GiveUpStep
  <2>4. CASE PageArrives(s) \/ ThreadExit(s)
    BY <2>4 DEF PageArrives, ThreadExit, refreshVars, shown
  <2> QED
    BY <1>3, <2>1, <2>2, <2>3, <2>4 DEF Deliver
<1>4. CASE UNCHANGED vars
  BY <1>4 DEF vars, shown
<1> QED
  BY <1>1, <1>2, <1>3, <1>4 DEF Next

\* The refresh keeps its promise to the window and the shops: each component is
\* searched for at most once and one at a time per shop, none after Stop, and
\* the refresh ends with nothing waiting and nobody searching.
THEOREM RefreshImplementsSpec == Spec => ImplementsRefreshSpec
<1>1. Init => Promise!Init
  BY DEF Init, Promise!Init
<1>2. IInv /\ [Next]_vars => [Promise!Next]_Promise!specVars
  BY StepImplements DEF shown, Promise!specVars
<1> QED
  BY <1>1, <1>2, Inductive, PTL DEF Spec, Promise!Spec, ImplementsRefreshSpec
=============================================================================
