-------------------------- MODULE RefreshServeProofs --------------------------
(***************************************************************************)
(* Why a refresh never waits for nobody, for any number of shops, rows and *)
(* columns.  processComp leaves shops of the map behind: it passes over    *)
(* the shop after an erased one, over plugins whose thread has not ended,  *)
(* and over everything once it has started a search.  ServeInv counts: a   *)
(* shop left idle in the map is owed a walk, and every end of a thread     *)
(* that is still to be handled is one.                                     *)
(***************************************************************************)
EXTENDS RefreshDataProofs, FiniteSetTheorems, WellFoundedInduction

\* A nonempty set of numbers up to n has a greatest element.
LEMMA Greatest ==
    ASSUME NEW n \in Nat, NEW S, S \subseteq 1..n, S # {}
    PROVE  \E m \in S : \A k \in S : k <= m
<1> DEFINE T == {n - k : k \in S}
<1>1. IsWellFoundedOn(OpToRel(<, Nat), Nat)
  BY NatLessThanWellFounded
<1>2. T \subseteq Nat /\ T # {}
  <2>1. \A k \in S : n - k \in Nat
    OBVIOUS
  <2> QED
    BY <2>1
<1>3. PICK t \in T : \A u \in T : ~ (<<u, t>> \in OpToRel(<, Nat))
  <2> HIDE DEF T
  <2> QED
    BY <1>1, <1>2, WFMin
<1>4. \A u \in T : ~ (u < t)
  BY <1>2, <1>3 DEF OpToRel
<1>5. PICK m \in S : t = n - m
  BY <1>3
<1>6. \A k \in S : k <= m
  BY <1>4, <1>5
<1> QED
  BY <1>6

EndsOf(q) == {i \in DOMAIN q : q[i].kind = "finished"}

LEMMA EndsFinite ==
    ASSUME NEW q \in Seq(Event)
    PROVE  IsFiniteSet(EndsOf(q)) /\ Cardinality(EndsOf(q)) \in Nat
<1>1. EndsOf(q) \in SUBSET (1..Len(q)) /\ Len(q) \in Nat
  BY DEF EndsOf
<1>2. IsFiniteSet(1..Len(q))
  BY <1>1, FS_Interval
<1> QED
  BY <1>1, <1>2, FS_Subset, FS_CardinalityType

\* What posting an event, and taking the first, do to the number of ends.
LEMMA EndsAppend ==
    ASSUME NEW q \in Seq(Event), NEW s \in Shop
    PROVE  /\ Cardinality(EndsOf(Append(q, PageOf(s)))) = Cardinality(EndsOf(q))
           /\ Cardinality(EndsOf(Append(q, FinishedOf(s)))) = Cardinality(EndsOf(q)) + 1
<1>1. EndsOf(Append(q, PageOf(s))) = EndsOf(q)
  BY DEF EndsOf, PageOf, Event
<1>2. EndsOf(Append(q, FinishedOf(s))) = EndsOf(q) \cup {Len(q) + 1}
  BY DEF EndsOf, FinishedOf, Event
<1>3. Len(q) + 1 \notin EndsOf(q)
  BY DEF EndsOf
<1> QED
  BY <1>1, <1>2, <1>3, EndsFinite, FS_AddElement

LEMMA EndsTail ==
    ASSUME NEW q \in Seq(Event), q # <<>>
    PROVE  /\ Head(q).kind = "finished" =>
                Cardinality(EndsOf(Tail(q))) = Cardinality(EndsOf(q)) - 1
           /\ Head(q).kind # "finished" =>
                Cardinality(EndsOf(Tail(q))) = Cardinality(EndsOf(q))
<1> DEFINE S == EndsOf(q) \ {1}
           T == EndsOf(Tail(q))
           f == [i \in S |-> i - 1]
<1>1. S \subseteq 2..Len(q) /\ Len(q) \in Nat /\ Len(Tail(q)) = Len(q) - 1
      /\ \A i \in 1..Len(q)-1 : Tail(q)[i] = q[i + 1]
  BY DEF EndsOf
<1>2. \A i \in S : i - 1 \in T
  BY <1>1, SeqTail DEF EndsOf
<1>3. \A j \in T : j + 1 \in S /\ (j + 1) - 1 = j
  BY <1>1, SeqTail DEF EndsOf
<1>4. \A i, j \in S : i - 1 = j - 1 => i = j
  BY <1>1
<1>5. f \in Bijection(S, T)
  <2>1. f \in [S -> T] /\ \A i \in S : f[i] = i - 1
    BY <1>2
  <2>2. \A i, j \in S : f[i] = f[j] => i = j
    BY <1>4, <2>1
  <2>3. \A j \in T : j + 1 \in S /\ f[j + 1] = j
    BY <1>3, <2>1
  <2> HIDE DEF S, T, f
  <2>4. f \in Injection(S, T) /\ f \in Surjection(S, T)
    BY <2>1, <2>2, <2>3 DEF Injection, Surjection, IsInjective
  <2> QED
    BY <2>4 DEF Bijection
<1>6. IsFiniteSet(EndsOf(q)) /\ IsFiniteSet(S)
      /\ Cardinality(S) = IF 1 \in EndsOf(q) THEN Cardinality(EndsOf(q)) - 1
                          ELSE Cardinality(EndsOf(q))
  BY EndsFinite, FS_RemoveElement
<1>7. Cardinality(T) = Cardinality(S)
  <2>1. ExistsBijection(S, T)
    BY <1>5 DEF ExistsBijection
  <2> HIDE DEF S, T
  <2> QED
    BY <1>6, <2>1, FS_Bijection
<1>8. 1 \in EndsOf(q) <=> Head(q).kind = "finished"
  BY DEF EndsOf
<1> QED
  BY <1>6, <1>7, <1>8

\* Any set of shops is finite.
LEMMA ShopsFinite ==
    ASSUME NEW T \in SUBSET Shop PROVE IsFiniteSet(T) /\ Cardinality(T) \in Nat
<1>1. IsFiniteSet(Shop)
  BY SizesAssumption, FS_Interval DEF Shop
<1> QED
  BY <1>1, FS_Subset, FS_CardinalityType

LEMMA OneShopLess ==
    ASSUME NEW T \in SUBSET Shop, NEW s \in T
    PROVE  Cardinality(T \ {s}) = Cardinality(T) - 1 /\ Cardinality(T) \in Nat
BY ShopsFinite, FS_RemoveElement

LEMMA OneShopMore ==
    ASSUME NEW T \in SUBSET Shop, NEW s \in Shop, NEW U \in SUBSET (T \cup {s})
    PROVE  Cardinality(U) <= Cardinality(T) + 1 /\ Cardinality(T) \in Nat
           /\ Cardinality(U) \in Nat
<1>1. IsFiniteSet(T) /\ Cardinality(T) \in Nat
  BY ShopsFinite
<1>2. IsFiniteSet(T \cup {s})
      /\ Cardinality(T \cup {s}) = IF s \in T THEN Cardinality(T) ELSE Cardinality(T) + 1
  BY <1>1, FS_AddElement
<1>3. Cardinality(U) <= Cardinality(T \cup {s}) /\ Cardinality(U) \in Nat
  BY <1>2, FS_Subset, FS_CardinalityType
<1> QED
  BY <1>1, <1>2, <1>3

\* The number of ends is that of the queue, and the owed shops are shops.
LEMMA EndsFacts ==
    ASSUME IInv
    PROVE  Ends = EndsOf(posted) /\ Cardinality(Ends) \in Nat
           /\ Owed \in SUBSET Shop /\ posted \in Seq(Event) /\ inMap \subseteq Shop
BY EndsFinite DEF Ends, EndsOf, Owed, IInv, TypeOK

-----------------------------------------------------------------------------

\* Of the active cells of one key the last one met keeps an entry.
LEMMA LastOfKey ==
    ASSUME NEW marked, marked \subseteq Cell, NEW x \in marked
    PROVE  \E y \in marked :
              /\ SameKey(x, y)
              /\ \A z \in marked : SameKey(y, z) => ~Later(z, y)
<1> DEFINE same == {y \in marked : SameKey(x, y)}
           inCols == {y[2] : y \in same}
<1>1. x \in same /\ same \subseteq Cell
  BY DEF SameKey
<1>2. inCols \subseteq 1..NCols /\ inCols # {}
  BY <1>1 DEF Cell
<1>3. PICK c \in inCols : \A k \in inCols : k <= c
  <2> HIDE DEF inCols
  <2> QED
    BY <1>2, Greatest, SizesAssumption
<1> DEFINE inRows == {y[1] : y \in {u \in same : u[2] = c}}
<1>4. inRows \subseteq 1..NRows /\ inRows # {}
  BY <1>1, <1>3 DEF Cell
<1>5. PICK r \in inRows : \A k \in inRows : k <= r
  <2> HIDE DEF inRows
  <2> QED
    BY <1>4, Greatest, SizesAssumption
<1>6. PICK y \in same : y[2] = c /\ y[1] = r
  BY <1>5
<1>7. ASSUME NEW z \in marked, SameKey(y, z) PROVE ~Later(z, y)
  <2>1. z \in same
    BY <1>6, <1>7 DEF SameKey
  <2>2. z[2] <= c /\ (z[2] = c => z[1] <= r) /\ z[2] \in Nat /\ z[1] \in Nat
        /\ c \in Nat /\ r \in Nat
    <3>1. z[2] \in inCols /\ (z[2] = c => z[1] \in inRows)
      BY <2>1
    <3>2. z \in Cell /\ y \in Cell
      BY <2>1, <1>1, <1>6
    <3>3. z[1] \in Nat /\ z[2] \in Nat /\ c \in Nat /\ r \in Nat
      BY <3>2, <1>6 DEF Cell
    <3> HIDE DEF inCols, inRows
    <3> QED
      BY <3>1, <3>3, <1>3, <1>5
  <2> QED
    BY <1>6, <2>2 DEF Later
<1> QED
  BY <1>6, <1>7

\* Refresh: nothing runs, and every shop of the map has an entry to be met.
LEMMA RefreshConfServe ==
    ASSUME IInv, ServeInv, NEW rows \in SUBSET (1..NRows), NEW cols \in SUBSET (1..NCols),
           RefreshConf(rows, cols)
    PROVE  ServeInv'
<1> SUFFICES ASSUME ~ub PROVE (RunsForSearch /\ Released /\ Served)'
  BY DEF ServeInv, RefreshConf
<1> DEFINE marked == {x \in rows \X cols : ShopOf(x) # NoShop}
           kept   == {x \in marked : \A y \in marked : SameKey(x, y) => ~Later(y, x)}
<1>1. /\ waiting' = kept /\ busy' = {} /\ stopping' = FALSE /\ pc' = "process"
      /\ inMap' = {ShopOfCol[c] : c \in cols} \ {NoShop} /\ count' = [s \in Shop |-> 0]
      /\ selected' = kept /\ thread' = thread /\ posted' = posted
      /\ guiState = "Ready" /\ IsNext(inMap', 0, cursor')
  BY DEF RefreshConf, PressRefresh, PrepareNewRefreshing, EnterLoop, pluginVars
<1>2. busy = {}
  BY <1>1 DEF IInv, EntriesInMap, Entries
<1>3. RunsForSearch'
  BY <1>1, <1>2 DEF RunsForSearch, ServeInv, OfShop
<1>4. Released'
  BY <1>1 DEF Released
<1>5. ASSUME NEW s \in inMap', kept # {} PROVE OfShop(kept, s) # {}
  <2>1. PICK c \in cols : ShopOfCol[c] = s /\ s # NoShop
    BY <1>1, <1>5
  <2>2. PICK r \in rows : TRUE
    BY <1>5
  <2>3. <<r, c>> \in marked /\ ShopOf(<<r, c>>) = s /\ marked \subseteq Cell
    BY <2>1 DEF ShopOf, Cell
  <2>4. PICK y \in marked : /\ SameKey(<<r, c>>, y)
                            /\ \A z \in marked : SameKey(y, z) => ~Later(z, y)
    <3> HIDE DEF marked
    <3> QED
      BY <2>3, LastOfKey
  <2>5. y \in kept /\ ShopOf(y) = s
    BY <2>3, <2>4 DEF SameKey
  <2> QED
    BY <2>5 DEF OfShop
<1>6. {s \in Owed' : s < cursor'} = {}
  <2>1. ASSUME NEW s \in Owed', s < cursor' PROVE FALSE
    <3>1. s \in inMap' /\ s \in Nat /\ s > 0 /\ cursor' \in Nat
      BY <1>1, <2>1, TableAssumption, ShopFacts DEF Owed, IsNext, Shop, NoShop
    <3> QED
      BY <1>1, <2>1, <3>1 DEF IsNext
  <2> QED
    BY <2>1
<1>7. Served'
  <2>1. Cardinality({}) = 0 /\ Cardinality(Ends') \in Nat
    BY <1>1, EndsFacts, FS_EmptySet DEF Ends
  <2>2. (WalkFromStart' \/ selected' = {})
    <3>1. Cardinality({s \in Owed' : s < cursor'}) <= Cardinality(Ends')
      BY <1>6, <2>1
    <3>2. kept # {} => \A s \in inMap' : s >= cursor' => OfShop(waiting', s) # {}
      BY <1>1, <1>5
    <3> HIDE DEF kept, marked
    <3> QED
      BY <1>1, <3>1, <3>2 DEF WalkFromStart, OfShop, ShopOf
  <2> QED
    BY <1>1, <2>2 DEF Served
<1> QED
  BY <1>3, <1>4, <1>7

\* Stop: what is searched for runs, and the walk has all of it before it.
LEMMA StopRefreshConfServe == ASSUME IInv, ServeInv, StopRefreshConf PROVE ServeInv'
<1> SUFFICES ASSUME ~ub PROVE (RunsForSearch /\ Released /\ Served)'
  BY DEF ServeInv, StopRefreshConf, historyVars
<1>1. /\ ~stopping /\ stopping' /\ pc' = "stop" /\ busy' = busy /\ thread' = thread
      /\ inMap' = inMap /\ IsNext(inMap', 0, cursor')
  BY DEF StopRefreshConf, PressStop, LoopAfterStop, EnterLoop, pluginVars, IInv, StoppingMatches
<1>2. RunsForSearch
  BY DEF ServeInv
<1>3. ASSUME NEW s \in Shop, OfShop(busy, s) # {} PROVE ToBeStopped(s)' /\ thread[s] = "running"
  <2>1. s \in inMap /\ s > 0
    BY <1>3 DEF OfShop, IInv, EntriesInMap, Entries, Shop
  <2> QED
    BY <1>1, <1>2, <1>3, <2>1 DEF IsNext, ToBeStopped, RunsForSearch, Shop
<1>4. RunsForSearch'
  BY <1>1, <1>2, <1>3 DEF RunsForSearch, OfShop, ShopOf, ToBeStopped
<1>5. Released'
  <2>1. \A x \in busy : ShopOf(x) \in Shop /\ OfShop(busy, ShopOf(x)) # {}
    BY DEF OfShop, IInv, TypeOK, EntriesInMap, Entries
  <2> QED
    BY <1>1, <1>3, <2>1 DEF Released, ToBeStopped, ShopOf
<1> QED
  BY <1>1, <1>4, <1>5 DEF Served

\* A step that leaves alone what ServeInv looks at.
LEMMA FrameServe ==
    ASSUME ServeInv, UNCHANGED <<ub, stopping, thread, busy, pc, cursor, flag, count, inMap,
                                 waiting, posted, selected>>
    PROVE  ServeInv'
BY DEF ServeInv, RunsForSearch, Released, Served, ToBeStopped, IsEnding, OfShop, ShopOf,
   WalkFromStart, WalkServesOne, EachOwedHasEnd, Owed, Ends

-----------------------------------------------------------------------------

\* A shop that is passed over is not idle, so nothing is owed to it.
LEMMA ProcessSkipServe == ASSUME IInv, ServeInv, NEW s \in Shop, ProcessSkip(s) PROVE ServeInv'
<1> SUFFICES ASSUME ~ub PROVE (RunsForSearch /\ Released /\ Served)'
  BY DEF ServeInv, ProcessSkip, historyVars
<1>1. /\ ~stopping /\ pc = "process" /\ cursor = s /\ IsNext(inMap, s, cursor')
      /\ UNCHANGED <<stopping, inMap, count, waiting, busy, pc, flag, thread, posted, selected>>
  BY DEF ProcessSkip, IInv, StoppingMatches, refreshVars, pluginVars, historyVars
<1>2. thread[s] # "idle"
  <2>1. count[s] # 0 => thread[s] = "running"
    BY <1>1 DEF ServeInv, RunsForSearch
  <2>2. count[s] >= ciMaxRefreshingThreads => count[s] # 0
    BY DEF IInv, TypeOK, ciMaxRefreshingThreads
  <2> QED
    BY <2>1, <2>2 DEF ProcessSkip, Skips
<1>3. RunsForSearch' /\ Released'
  BY <1>1 DEF ServeInv, RunsForSearch, Released, OfShop, ShopOf
<1>4. Owed' = Owed /\ Ends' = Ends /\ s \notin Owed
  BY <1>1, <1>2 DEF Owed, Ends
<1>5. \A t \in inMap : (t > s => t >= cursor') /\ (t >= cursor' => t > s)
      /\ t \in Nat /\ cursor' \in Nat /\ s \in Nat
  <2>1. inMap \subseteq Shop /\ cursor' \in inMap \cup {EndShop}
    BY <1>1 DEF IInv, TypeOK, IsNext
  <2>2. cursor' \in Nat /\ s \in Nat /\ \A t \in inMap : t \in Nat
    BY <2>1, ShopFacts DEF Shop
  <2> QED
    BY <1>1, <2>2 DEF IsNext
<1>6. {t \in Owed : t < cursor'} = {t \in Owed : t < s}
  BY <1>4, <1>5 DEF Owed
<1>7. WalkFromStart => WalkFromStart'
  <2>1. \A t \in inMap : t >= cursor' => t >= s
    BY <1>5
  <2> QED
    BY <1>1, <1>4, <1>6, <2>1 DEF WalkFromStart, OfShop, ShopOf
<1>8. WalkServesOne => WalkServesOne'
  <2>1. \A t \in Owed : t >= s => t >= cursor'
    BY <1>4, <1>5 DEF Owed
  <2> QED
    BY <1>1, <1>4, <2>1 DEF WalkServesOne
<1>9. Served'
  BY <1>1, <1>4, <1>7, <1>8 DEF ServeInv, Served, EachOwedHasEnd
<1> QED
  BY <1>3, <1>9

\* A search that starts serves its shop.
LEMMA ProcessStartServe ==
    ASSUME IInv, ServeInv, NEW s \in Shop, NEW x \in Cell, ProcessStart(s, x) PROVE ServeInv'
<1> SUFFICES ASSUME ~ub PROVE (RunsForSearch /\ Released /\ Served)'
  BY DEF ServeInv, ProcessStart
<1>1. /\ ~stopping /\ pc = "process" /\ cursor = s /\ IsNext(inMap, s, cursor')
      /\ thread' = [thread EXCEPT ![s] = "running"] /\ busy' = busy \cup {x}
      /\ count' = [count EXCEPT ![s] = @ + 1]
      /\ waiting' = waiting \ {x} /\ ShopOf(x) = s /\ thread[s] = "idle" /\ x \in waiting
      /\ UNCHANGED <<stopping, inMap, pc, posted, selected>>
  BY DEF ProcessStart, IInv, StoppingMatches, OfShop, Skips
<1>2. thread \in [Shop -> {"idle", "running", "quitting"}] /\ count \in [Shop -> 0..1]
  BY DEF IInv, TypeOK, ciMaxRefreshingThreads
<1>3. OfShop(busy', s) # {} /\ \A t \in Shop : t # s => OfShop(busy', t) = OfShop(busy, t)
  BY <1>1 DEF OfShop
<1>4. RunsForSearch'
  <2>1. ASSUME NEW t \in Shop
        PROVE  /\ thread'[t] = "running" => OfShop(busy', t) # {}
               /\ OfShop(busy', t) # {} => thread'[t] = "running"
               /\ count'[t] # 0 => OfShop(busy', t) # {}
    <3>1. CASE t = s
      BY <1>1, <1>2, <1>3, <3>1
    <3>2. CASE t # s
      BY <1>1, <1>2, <1>3, <3>2 DEF ServeInv, RunsForSearch
    <3> QED
      BY <3>1, <3>2
  <2> QED
    BY <1>1, <2>1 DEF RunsForSearch, OfShop, ShopOf
<1>5. Released'
  BY <1>1 DEF Released
<1>6. Owed' = Owed \ {s} /\ Ends' = Ends /\ s \in Owed
  <2>1. s \in inMap
    BY <1>1 DEF IInv, EntriesInMap, Entries
  <2>2. inMap \subseteq Shop
    BY DEF IInv, TypeOK
  <2>3. \A t \in Shop : thread'[t] = "idle" <=> thread[t] = "idle" /\ t # s
    BY <1>1, <1>2
  <2> QED
    BY <1>1, <2>1, <2>2, <2>3 DEF Owed, Ends
<1>7. Cardinality(Owed') = Cardinality(Owed) - 1 /\ Cardinality(Owed) \in Nat
      /\ Cardinality(Ends) \in Nat
  BY <1>6, EndsFacts, OneShopLess
<1>8. WalkServesOne \/ EachOwedHasEnd => EachOwedHasEnd'
  BY <1>6, <1>7 DEF WalkServesOne, EachOwedHasEnd
<1>9. WalkFromStart => WalkFromStart'
  <2>1. \A t \in inMap : (t > s => t >= cursor') /\ (t >= cursor' => t > s)
        /\ t \in Nat /\ cursor' \in Nat /\ s \in Nat
    <3>1. inMap \subseteq Shop /\ cursor' \in inMap \cup {EndShop}
      BY <1>1 DEF IInv, TypeOK, IsNext
    <3>2. cursor' \in Nat /\ s \in Nat /\ \A t \in inMap : t \in Nat
      BY <3>1, ShopFacts DEF Shop
    <3> QED
      BY <1>1, <3>2 DEF IsNext
  <2>2. {t \in Owed' : t < cursor'} = {t \in Owed : t < cursor}
    BY <1>1, <1>6, <2>1 DEF Owed
  <2>3. ASSUME NEW t \in inMap, t >= cursor', WalkFromStart PROVE OfShop(waiting', t) # {}
    <3>1. t # s /\ t >= cursor
      BY <1>1, <2>1, <2>3
    <3>2. OfShop(waiting', t) = OfShop(waiting, t)
      BY <1>1, <3>1 DEF OfShop
    <3> QED
      BY <2>3, <3>1, <3>2 DEF WalkFromStart
  <2> QED
    BY <1>1, <1>6, <2>2, <2>3 DEF WalkFromStart, OfShop, ShopOf
<1>10. Served'
  BY <1>1, <1>8, <1>9 DEF ServeInv, Served
<1> QED
  BY <1>4, <1>5, <1>10

\* A shop without a component is erased only by a walk that serves it; a walk
\* that has started a search leaves it, and owes nothing more.
LEMMA ProcessExhaustedServe ==
    ASSUME IInv, ServeInv, NEW s \in Shop, ProcessExhausted(s) PROVE ServeInv'
<1> SUFFICES ASSUME ~ub PROVE (RunsForSearch /\ Released /\ Served)'
  BY DEF ServeInv, ProcessExhausted, historyVars
<1>1. /\ ~stopping /\ pc = "process" /\ cursor = s /\ OfShop(waiting, s) = {}
      /\ thread[s] = "idle"
      /\ UNCHANGED <<stopping, count, waiting, busy, pc, thread, posted, selected>>
  BY DEF ProcessExhausted, IInv, StoppingMatches, pluginVars, historyVars, Skips
<1>2. RunsForSearch' /\ Released'
  BY <1>1 DEF ServeInv, RunsForSearch, Released, OfShop, ShopOf
<1>3. OfShop(busy, s) = {}
  BY <1>1 DEF ServeInv, RunsForSearch
<1>4. s \in inMap /\ s \in Owed
  BY <1>1, ShopFacts DEF IInv, CursorInMap, Owed
<1>5. ~WalkFromStart
  <2>1. s >= cursor
    BY <1>1 DEF Shop
  <2> QED
    BY <1>1, <1>4, <2>1 DEF WalkFromStart
<1>6. Ends' = Ends
  BY <1>1 DEF Ends
<1>7. CASE flag
  <2>1. Owed' = Owed \ {s}
    BY <1>1, <1>3, <1>7 DEF ProcessExhausted, Owed
  <2>2. Cardinality(Owed') = Cardinality(Owed) - 1 /\ Cardinality(Owed) \in Nat
        /\ Cardinality(Ends) \in Nat
    BY <1>4, <2>1, EndsFacts, OneShopLess
  <2>3. WalkServesOne \/ EachOwedHasEnd => EachOwedHasEnd'
    BY <1>6, <2>2 DEF WalkServesOne, EachOwedHasEnd
  <2> QED
    BY <1>1, <1>2, <1>5, <2>3 DEF ServeInv, Served
<1>8. CASE ~flag
  <2>1. Owed' = Owed
    BY <1>1, <1>8 DEF ProcessExhausted, Owed
  <2> QED
    BY <1>1, <1>2, <1>5, <1>6, <1>8, <2>1 DEF ServeInv, Served, WalkServesOne, EachOwedHasEnd
<1> QED
  BY <1>7, <1>8

-----------------------------------------------------------------------------

\* The walk of Stop tells the thread of the shop it stands on to end.
LEMMA StopBusyShopServe ==
    ASSUME IInv, ServeInv, NEW s \in Shop, StopBusyShop(s) PROVE ServeInv'
<1> SUFFICES ASSUME ~ub PROVE (RunsForSearch /\ Released /\ Served)'
  BY DEF ServeInv, StopBusyShop, historyVars
<1>1. /\ stopping /\ pc = "stop" /\ cursor = s /\ IsNext(inMap, s, cursor')
      /\ thread' = [thread EXCEPT ![s] = IF @ = "running" THEN "quitting" ELSE @]
      /\ UNCHANGED <<stopping, inMap, busy, pc, posted>>
  BY DEF StopBusyShop, IInv, StoppingMatches, historyVars, Quit
<1>2. thread \in [Shop -> {"idle", "running", "quitting"}] /\ inMap \subseteq Shop
  BY DEF IInv, TypeOK
<1>3. thread'[s] # "running" /\ \A t \in Shop : t # s => thread'[t] = thread[t]
  BY <1>1, <1>2
<1>4. ASSUME NEW t \in Shop, t # s, OfShop(busy, t) # {}, ToBeStopped(t) PROVE ToBeStopped(t)'
  <2>1. t \in inMap
    BY <1>4 DEF OfShop, IInv, EntriesInMap, Entries
  <2>2. t > s
    BY <1>1, <1>4 DEF ToBeStopped, Shop
  <2>3. t >= cursor'
    BY <1>1, <2>1, <2>2, ShopFacts DEF IsNext, Shop
  <2> QED
    BY <1>1, <2>3 DEF ToBeStopped
<1>5. RunsForSearch'
  <2>1. ASSUME NEW t \in Shop, thread'[t] = "running"
        PROVE  OfShop(busy, t) # {} /\ ToBeStopped(t)'
    BY <1>1, <1>3, <1>4, <2>1 DEF ServeInv, RunsForSearch
  <2> QED
    BY <1>1, <2>1 DEF RunsForSearch, OfShop, ShopOf
<1>6. Released'
  <2>1. ASSUME NEW x \in busy
        PROVE  \/ IsEnding(ShopOf(x))'
               \/ ToBeStopped(ShopOf(x))' /\ thread'[ShopOf(x)] = "running"
    <3>1. ShopOf(x) \in Shop /\ OfShop(busy, ShopOf(x)) # {}
      BY DEF OfShop, IInv, TypeOK, EntriesInMap, Entries
    <3>2. CASE IsEnding(ShopOf(x))
      BY <1>1, <1>2, <3>1, <3>2 DEF IsEnding, ShopOf
    <3>3. CASE ToBeStopped(ShopOf(x)) /\ thread[ShopOf(x)] = "running"
      <4>1. CASE ShopOf(x) = s
        <5>1. thread'[ShopOf(x)] = "quitting"
          BY <1>1, <1>2, <3>3, <4>1
        <5> QED
          BY <5>1 DEF IsEnding, ShopOf
      <4>2. CASE ShopOf(x) # s
        <5>1. ToBeStopped(ShopOf(x))'
          BY <1>4, <3>1, <3>3, <4>2 DEF ShopOf, ToBeStopped
        <5> QED
          BY <1>3, <3>1, <3>3, <4>2, <5>1
      <4> QED
        BY <4>1, <4>2
    <3> QED
      BY <1>1, <3>2, <3>3 DEF ServeInv, Released
  <2> QED
    BY <1>1, <2>1 DEF Released, ShopOf
<1> QED
  BY <1>1, <1>5, <1>6 DEF Served

\* Without use of the invalid iterator the erased shop was the last.
LEMMA StopDoneShopServe ==
    ASSUME IInv, ServeInv, NEW s \in Shop, StopDoneShop(s) PROVE ServeInv'
<1> SUFFICES ASSUME ~ub' PROVE (RunsForSearch /\ Released /\ Served)'
  BY DEF ServeInv
<1>1. /\ stopping /\ ~ub /\ inMap \ {s} = {} /\ OfShop(busy, s) = {}
      /\ UNCHANGED <<stopping, busy, thread>>
  BY DEF StopDoneShop, pluginVars, IInv, StoppingMatches
<1>2. busy = {}
  BY <1>1 DEF OfShop, IInv, EntriesInMap, Entries
<1>3. RunsForSearch'
  BY <1>1, <1>2 DEF ServeInv, RunsForSearch, OfShop
<1> QED
  BY <1>1, <1>2, <1>3 DEF Released, Served

\* At the end of a walk nothing is before it any more.
LEMMA LoopEndServe == ASSUME IInv, ServeInv, LoopEnd PROVE ServeInv'
<1> SUFFICES ASSUME ~ub PROVE (RunsForSearch /\ Released /\ Served)'
  BY DEF ServeInv, LoopEnd
<1>1. /\ pc' = "eventLoop" /\ cursor = EndShop /\ pc \in {"process", "stop"}
      /\ selected' \in {selected, {}}
      /\ UNCHANGED <<stopping, inMap, count, waiting, busy, thread, posted>>
  BY DEF LoopEnd, pluginVars, IInv, StoppingMatches
<1>2. \A s \in Shop : ~(s >= cursor) /\ s < cursor
  BY <1>1, SizesAssumption DEF Shop, EndShop
<1>3. RunsForSearch'
  BY <1>1, <1>2 DEF ServeInv, RunsForSearch, ToBeStopped, OfShop, ShopOf
<1>4. Released'
  <2>1. \A x \in busy : ShopOf(x) \in Shop
    BY DEF IInv, TypeOK, EntriesInMap, Entries
  <2> QED
    BY <1>1, <1>2, <2>1 DEF ServeInv, Released, ToBeStopped, IsEnding, ShopOf
<1>5. Owed' = Owed /\ Ends' = Ends /\ Owed \subseteq Shop
  BY <1>1, EndsFacts DEF Owed, Ends
<1>6. {s \in Owed : s < cursor} = Owed /\ ~WalkServesOne
  BY <1>2, <1>5 DEF WalkServesOne
<1>7. Served'
  <2>1. WalkFromStart \/ EachOwedHasEnd => EachOwedHasEnd'
    BY <1>5, <1>6 DEF WalkFromStart, EachOwedHasEnd
  <2>2. pc = "process" \/ stopping
    BY <1>1 DEF IInv, StoppingMatches
  <2> QED
    BY <1>1, <1>6, <2>1, <2>2 DEF ServeInv, Served
<1> QED
  BY <1>3, <1>4, <1>7

-----------------------------------------------------------------------------

\* Taking the first event of the queue, or posting one, loses no other.
LEMMA EventKeptByTail ==
    ASSUME NEW q \in Seq(Event), q # <<>>, NEW e, Head(q) # e, \E i \in DOMAIN q : q[i] = e
    PROVE  \E j \in DOMAIN Tail(q) : Tail(q)[j] = e
<1>1. PICK i \in 1..Len(q) : q[i] = e
  OBVIOUS
<1>2. i # 1 /\ i - 1 \in 1..Len(q) - 1
  BY <1>1
<1>3. Len(Tail(q)) = Len(q) - 1 /\ Tail(q)[i - 1] = q[i] /\ Tail(q) \in Seq(Event)
  BY <1>2, SeqTail
<1>4. DOMAIN Tail(q) = 1..Len(Tail(q))
  BY <1>3
<1>5. i - 1 \in DOMAIN Tail(q) /\ Tail(q)[i - 1] = e
  BY <1>1, <1>2, <1>3, <1>4
<1> QED
  BY <1>5

LEMMA EventKeptByAppend ==
    ASSUME NEW q \in Seq(Event), NEW d \in Event, NEW e, \E i \in DOMAIN q : q[i] = e
    PROVE  \E j \in DOMAIN Append(q, d) : Append(q, d)[j] = e
<1>1. PICK i \in 1..Len(q) : q[i] = e
  OBVIOUS
<1>2. i \in DOMAIN Append(q, d) /\ Append(q, d)[i] = e
  BY <1>1
<1> QED
  BY <1>2

LEMMA EventFacts ==
    \A s, t \in Shop : /\ FinishedOf(s) \in Event /\ PageOf(s) \in Event
                       /\ FinishedOf(s) # PageOf(t) /\ (FinishedOf(s) = FinishedOf(t) => s = t)
                       /\ FinishedOf(s).kind = "finished" /\ PageOf(s).kind # "finished"
BY DEF FinishedOf, PageOf, Event

\* An answer lets the thread of its shop end and takes its search away.
LEMMA AnswerServe ==
    ASSUME IInv, ServeInv, NEW s \in Shop, PriceSearchedFinished(s), pc = "eventLoop",
           UNCHANGED <<ub, stopping, inMap, pc, selected>>,
           Cardinality(Ends') = Cardinality(Ends),
           \A t \in Shop : (\E i \in DOMAIN posted : posted[i] = FinishedOf(t)) =>
                           (\E i \in DOMAIN posted' : posted'[i] = FinishedOf(t))
    PROVE  ServeInv'
<1> SUFFICES ASSUME ~ub PROVE (RunsForSearch /\ Released /\ Served)'
  BY DEF ServeInv
<1>1. busy' = busy \ Hit(s) /\ OfShop(busy', s) = {} /\ \A y \in Hit(s) : ShopOf(y) = s
  BY AnswerFacts DEF OfShop, Hit
<1>2. thread \in [Shop -> {"idle", "running", "quitting"}] /\ count \in [Shop -> 0..1]
  BY DEF IInv, TypeOK, ciMaxRefreshingThreads
<1>3. \/ thread' = thread /\ count' = count /\ busy' = busy
      \/ /\ thread' = [thread EXCEPT ![s] = IF @ = "running" THEN "quitting" ELSE @]
         /\ count' = [count EXCEPT ![s] = CountAfterAnswer(@)]
  BY <1>1 DEF PriceSearchedFinished, Quit
<1>4. \A t \in Shop : /\ thread'[t] = "idle" <=> thread[t] = "idle"
                      /\ thread[t] = "quitting" => thread'[t] = "quitting"
                      /\ t # s => thread'[t] = thread[t] /\ count'[t] = count[t]
  BY <1>2, <1>3
<1>5. \A t \in Shop : t # s => OfShop(busy', t) = OfShop(busy, t)
  BY <1>1 DEF OfShop
<1>6. ASSUME ~(thread' = thread /\ count' = count /\ busy' = busy)
      PROVE  thread'[s] # "running" /\ count'[s] = 0
  BY <1>2, <1>3, <1>6 DEF CountAfterAnswer
<1>7. RunsForSearch'
  <2>1. CASE thread' = thread /\ count' = count /\ busy' = busy
    BY <2>1 DEF ServeInv, RunsForSearch, ToBeStopped, OfShop, ShopOf
  <2>2. CASE ~(thread' = thread /\ count' = count /\ busy' = busy)
    <3>1. ASSUME NEW t \in Shop
          PROVE  /\ thread'[t] = "running" => OfShop(busy', t) # {} /\ ~stopping
                 /\ ~stopping /\ OfShop(busy', t) # {} => thread'[t] = "running"
                 /\ ~stopping /\ count'[t] # 0 => OfShop(busy', t) # {}
      <4>1. CASE t = s
        BY <1>1, <1>6, <2>2, <4>1
      <4>2. CASE t # s
        BY <1>4, <1>5, <4>2 DEF ServeInv, RunsForSearch, ToBeStopped
      <4> QED
        BY <4>1, <4>2
    <3> QED
      BY <3>1 DEF RunsForSearch, OfShop, ShopOf
  <2> QED
    BY <2>1, <2>2
<1>8. Released'
  <2>1. \A x \in busy' : x \in busy /\ ShopOf(x) \in Shop
    BY <1>1 DEF IInv, TypeOK, EntriesInMap, Entries
  <2>2. \A x \in busy' : stopping => IsEnding(ShopOf(x))
    BY <2>1 DEF ServeInv, Released, ToBeStopped
  <2> QED
    BY <1>4, <2>1, <2>2 DEF Released, IsEnding, ShopOf
<1>9. Owed' = Owed
  <2>1. inMap \subseteq Shop
    BY DEF IInv, TypeOK
  <2> QED
    BY <1>4, <2>1 DEF Owed
<1>10. Served'
  BY <1>9 DEF ServeInv, Served, EachOwedHasEnd
<1> QED
  BY <1>7, <1>8, <1>10

LEMMA PageHandledServe ==
    ASSUME IInv, ServeInv, NEW s \in Shop, PageHandled(s) PROVE ServeInv'
<1>1. /\ pc = "eventLoop" /\ posted # <<>> /\ Head(posted) = PageOf(s) /\ posted' = Tail(posted)
      /\ UNCHANGED <<ub, stopping, inMap, pc, cursor, flag, selected>>
  BY DEF PageHandled, loopVars
<1>2. posted \in Seq(Event) /\ Ends = EndsOf(posted) /\ Ends' = EndsOf(posted')
  BY EndsFacts DEF Ends, EndsOf
<1>3. Cardinality(Ends') = Cardinality(Ends)
  BY <1>1, <1>2, EndsTail, EventFacts
<1>4. ASSUME NEW t \in Shop, \E i \in DOMAIN posted : posted[i] = FinishedOf(t)
      PROVE  \E i \in DOMAIN posted' : posted'[i] = FinishedOf(t)
  <2>1. Head(posted) # FinishedOf(t)
    BY <1>1, EventFacts
  <2> QED
    BY <1>1, <1>2, <1>4, <2>1, EventKeptByTail
<1>5. CASE PriceSearchedFinished(s)
  BY <1>1, <1>3, <1>4, <1>5, AnswerServe
<1>6. CASE UNCHANGED <<waiting, busy, refreshing, answered, count, thread>>
  <2> SUFFICES ASSUME ~ub PROVE (RunsForSearch /\ Released /\ Served)'
    BY <1>1 DEF ServeInv
  <2>1. RunsForSearch'
    BY <1>1, <1>6 DEF ServeInv, RunsForSearch, ToBeStopped, OfShop, ShopOf
  <2>2. Released'
    <3>1. \A x \in busy : ShopOf(x) \in Shop
      BY DEF IInv, TypeOK, EntriesInMap, Entries
    <3> QED
      BY <1>1, <1>4, <1>6, <3>1 DEF ServeInv, Released, ToBeStopped, IsEnding, ShopOf
  <2>3. Served'
    <3>1. Owed' = Owed
      BY <1>1, <1>6 DEF Owed
    <3> QED
      BY <1>1, <1>3, <3>1 DEF ServeInv, Served, EachOwedHasEnd
  <2> QED
    BY <2>1, <2>2, <2>3
<1> QED
  BY <1>5, <1>6 DEF PageHandled

LEMMA PageTimeoutServe ==
    ASSUME IInv, ServeInv, NEW s \in Shop, PageTimeout(s) PROVE ServeInv'
<1>1. /\ PriceSearchedFinished(s) /\ pc = "eventLoop"
      /\ UNCHANGED <<ub, stopping, inMap, pc, selected, posted>>
  BY DEF PageTimeout, loopVars
<1>2. Ends' = Ends
  BY <1>1 DEF Ends
<1> QED
  BY <1>1, <1>2, AnswerServe

LEMMA PageArrivesServe ==
    ASSUME IInv, ServeInv, NEW s \in Shop, PageArrives(s) PROVE ServeInv'
<1> SUFFICES ASSUME ~ub PROVE (RunsForSearch /\ Released /\ Served)'
  BY DEF ServeInv, PageArrives, historyVars
<1>1. /\ posted' = Append(posted, PageOf(s))
      /\ UNCHANGED <<stopping, thread, busy, pc, cursor, flag, count, inMap, waiting, selected>>
  BY DEF PageArrives, refreshVars, loopVars, historyVars
<1>2. Owed' = Owed /\ Cardinality(Ends') = Cardinality(Ends)
  BY <1>1, EndsFacts, EndsAppend DEF Owed, Ends, EndsOf
<1>3. RunsForSearch'
  BY <1>1 DEF ServeInv, RunsForSearch, ToBeStopped, OfShop, ShopOf
<1>4. Released'
  <2>1. ASSUME NEW t \in Shop, IsEnding(t) PROVE IsEnding(t)'
    <3>1. posted \in Seq(Event) /\ PageOf(s) \in Event
      BY EndsFacts, EventFacts
    <3>2. (\E i \in DOMAIN posted : posted[i] = FinishedOf(t)) =>
             (\E i \in DOMAIN posted' : posted'[i] = FinishedOf(t))
      BY <1>1, <3>1, EventKeptByAppend
    <3> QED
      BY <1>1, <2>1, <3>2 DEF IsEnding, FinishedOf
  <2>2. \A x \in busy : ShopOf(x) \in Shop
    BY DEF IInv, TypeOK, EntriesInMap, Entries
  <2> QED
    BY <1>1, <2>1, <2>2 DEF ServeInv, Released, ToBeStopped, IsEnding, ShopOf
<1>5. Served'
  BY <1>1, <1>2 DEF ServeInv, Served, WalkFromStart, WalkServesOne, EachOwedHasEnd, OfShop,
     ShopOf
<1> QED
  BY <1>3, <1>4, <1>5

\* The end of a thread leaves a shop idle, and posts what will serve it.
LEMMA ThreadExitServe ==
    ASSUME IInv, ServeInv, NEW s \in Shop, ThreadExit(s) PROVE ServeInv'
<1> SUFFICES ASSUME ~ub PROVE (RunsForSearch /\ Released /\ Served)'
  BY DEF ServeInv, ThreadExit, historyVars
<1>1. /\ posted' = Append(posted, FinishedOf(s)) /\ thread[s] = "quitting"
      /\ thread' = [thread EXCEPT ![s] = "idle"]
      /\ UNCHANGED <<stopping, busy, pc, cursor, flag, count, inMap, waiting, selected>>
  BY DEF ThreadExit, refreshVars, loopVars, historyVars
<1>2. thread \in [Shop -> {"idle", "running", "quitting"}] /\ inMap \subseteq Shop
  BY DEF IInv, TypeOK
<1>3. thread'[s] = "idle" /\ \A t \in Shop : t # s => thread'[t] = thread[t]
  BY <1>1, <1>2
<1>4. RunsForSearch'
  BY <1>1, <1>3 DEF ServeInv, RunsForSearch, ToBeStopped, OfShop, ShopOf
<1>5. Released'
  <2>1. IsEnding(s)'
    <3>1. \E i \in DOMAIN posted' : posted'[i] = FinishedOf(s)
      <4>1. posted \in Seq(Event) /\ FinishedOf(s) \in Event
        BY EndsFacts, EventFacts
      <4>2. Len(posted) + 1 \in DOMAIN posted' /\ posted'[Len(posted) + 1] = FinishedOf(s)
        BY <1>1, <4>1
      <4> QED
        BY <4>2
    <3> QED
      BY <3>1 DEF IsEnding, FinishedOf
  <2>2. \A t \in Shop : t # s /\ IsEnding(t) => IsEnding(t)'
    <3>1. ASSUME NEW t \in Shop, \E i \in DOMAIN posted : posted[i] = FinishedOf(t)
          PROVE  \E i \in DOMAIN posted' : posted'[i] = FinishedOf(t)
      <4>1. posted \in Seq(Event) /\ FinishedOf(s) \in Event
        BY EndsFacts, EventFacts
      <4> QED
        BY <1>1, <3>1, <4>1, EventKeptByAppend
    <3> QED
      BY <1>3, <3>1 DEF IsEnding, FinishedOf
  <2>3. \A x \in busy : ShopOf(x) \in Shop
    BY DEF IInv, TypeOK, EntriesInMap, Entries
  <2>4. ASSUME NEW x \in busy, stopping
        PROVE  IsEnding(ShopOf(x))' \/ (ToBeStopped(ShopOf(x)) /\ thread'[ShopOf(x)] = "running")
    BY <1>1, <1>3, <2>1, <2>2, <2>3, <2>4 DEF ServeInv, Released
  <2> QED
    BY <1>1, <2>4 DEF Released, ToBeStopped, ShopOf, IsEnding
<1>6. Cardinality(Ends') = Cardinality(Ends) + 1 /\ Cardinality(Ends) \in Nat
  BY <1>1, EndsFacts, EndsAppend DEF Ends, EndsOf
<1>7. Owed \subseteq Owed' /\ Owed' \subseteq Owed \cup {s} /\ Owed' \subseteq Shop
  BY <1>1, <1>2, <1>3 DEF Owed
<1>8. Cardinality(Owed') <= Cardinality(Owed) + 1 /\ Cardinality(Owed) \in Nat
      /\ Cardinality(Owed') \in Nat
  <2>1. Owed \in SUBSET Shop /\ Owed' \in SUBSET (Owed \cup {s})
    BY <1>7
  <2> QED
    BY <2>1, OneShopMore
<1>9. Cardinality({t \in Owed' : t < cursor}) <= Cardinality({t \in Owed : t < cursor}) + 1
      /\ Cardinality({t \in Owed : t < cursor}) \in Nat
      /\ Cardinality({t \in Owed' : t < cursor}) \in Nat
  <2> DEFINE T == {t \in Owed : t < cursor}
             U == {t \in Owed' : t < cursor}
  <2>1. T \in SUBSET Shop /\ U \in SUBSET (T \cup {s})
    BY <1>7
  <2> HIDE DEF T, U
  <2>2. Cardinality(U) <= Cardinality(T) + 1 /\ Cardinality(T) \in Nat /\ Cardinality(U) \in Nat
    BY <2>1, OneShopMore
  <2> QED
    BY <2>2 DEF T, U
<1>10. EachOwedHasEnd => EachOwedHasEnd'
  BY <1>6, <1>8 DEF EachOwedHasEnd
<1>11. WalkServesOne => WalkServesOne'
  BY <1>1, <1>6, <1>7, <1>8 DEF WalkServesOne
<1>12. WalkFromStart => WalkFromStart'
  BY <1>1, <1>6, <1>9 DEF WalkFromStart, OfShop, ShopOf
<1>13. Served'
  BY <1>1, <1>10, <1>11, <1>12 DEF ServeInv, Served
<1> QED
  BY <1>4, <1>5, <1>13

\* The end of a thread is handled: the walk it starts serves one shop, or,
\* after Stop, its search is given up.
LEMMA ShopPluginTerminatedServe ==
    ASSUME IInv, ServeInv, NEW s \in Shop, ShopPluginTerminated(s) PROVE ServeInv'
<1> SUFFICES ASSUME ~ub PROVE (RunsForSearch /\ Released /\ Served)'
  BY DEF ServeInv, ShopPluginTerminated, historyVars
<1>1. /\ pc = "eventLoop" /\ posted # <<>> /\ Head(posted) = FinishedOf(s)
      /\ posted' = Tail(posted) /\ flag' = TRUE /\ IsNext(inMap, 0, cursor')
      /\ pc' = (IF stopping THEN "stop" ELSE "process")
      /\ busy' = (IF stopping THEN busy \ Hit(s) ELSE busy)
      /\ UNCHANGED <<stopping, inMap, count, thread, selected>>
  BY DEF ShopPluginTerminated, EnterLoop, LoopAfterFinished, historyVars
<1>2. posted \in Seq(Event) /\ Owed \in SUBSET Shop /\ inMap \subseteq Shop
      /\ Ends = EndsOf(posted) /\ Ends' = EndsOf(posted') /\ Owed' = Owed
  BY <1>1, EndsFacts DEF Ends, EndsOf, Owed
<1>3. Cardinality(Ends') = Cardinality(Ends) - 1 /\ Cardinality(Ends) \in Nat
      /\ Cardinality(Ends') \in Nat
  <2>1. posted' \in Seq(Event)
    BY <1>1, <1>2, SeqTail
  <2> QED
    BY <1>1, <1>2, <2>1, EndsTail, EndsFinite, EventFacts
<1>4. CASE stopping
  <2>1. \A t \in Shop : thread[t] # "running"
    BY <1>1, <1>4 DEF ServeInv, RunsForSearch, ToBeStopped
  <2>2. RunsForSearch'
    BY <1>1, <1>4, <2>1 DEF RunsForSearch
  <2>3. ASSUME NEW x \in busy' PROVE IsEnding(ShopOf(x))'
    <3>1. x \in busy /\ ShopOf(x) \in Shop /\ ShopOf(x) # s
      BY <1>1, <1>4, <2>3 DEF IInv, TypeOK, BusyCounted, EntriesInMap, Entries, Hit
    <3>2. IsEnding(ShopOf(x))
      BY <1>1, <1>4, <3>1 DEF ServeInv, Released, ToBeStopped
    <3>3. Head(posted) # FinishedOf(ShopOf(x))
      BY <1>1, <3>1, EventFacts
    <3>4. (\E i \in DOMAIN posted : posted[i] = FinishedOf(ShopOf(x))) =>
             (\E i \in DOMAIN posted' : posted'[i] = FinishedOf(ShopOf(x)))
      BY <1>1, <1>2, <3>3, EventKeptByTail
    <3> QED
      BY <1>1, <3>2, <3>4 DEF IsEnding, FinishedOf, ShopOf
  <2>4. Released'
    BY <2>3 DEF Released, ShopOf, IsEnding
  <2> QED
    BY <1>1, <1>4, <2>2, <2>4 DEF Served
<1>5. CASE ~stopping
  <2>1. RunsForSearch' /\ Released'
    BY <1>1, <1>5 DEF ServeInv, RunsForSearch, Released, OfShop, ShopOf
  <2>2. \A t \in Owed : t >= cursor'
    BY <1>1, <1>2 DEF IsNext, Owed, Shop
  <2>3. CASE Owed = {}
    <3>1. EachOwedHasEnd'
      BY <1>2, <1>3, <2>3, FS_EmptySet DEF EachOwedHasEnd
    <3> QED
      BY <1>1, <1>5, <2>1, <3>1 DEF Served
  <2>4. CASE Owed # {}
    <3>1. EachOwedHasEnd => WalkServesOne'
      <4>1. Cardinality(Owed) \in Nat
        BY <1>2, ShopsFinite
      <4> QED
        BY <1>1, <1>2, <1>3, <2>2, <2>4, <4>1 DEF EachOwedHasEnd, WalkServesOne
    <3> QED
      BY <1>1, <1>5, <2>1, <3>1 DEF ServeInv, Served
  <2> QED
    BY <2>3, <2>4
<1> QED
  BY <1>4, <1>5

-----------------------------------------------------------------------------

LEMMA InitServe == Init => ServeInv
<1> SUFFICES ASSUME Init PROVE RunsForSearch /\ Released /\ Served
  BY DEF ServeInv
<1>1. RunsForSearch
  BY DEF Init, RunsForSearch, OfShop
<1>2. Released /\ Served
  BY DEF Init, Released, Served
<1> QED
  BY <1>1, <1>2

LEMMA NextServe == IInv /\ ServeInv /\ [Next]_vars => ServeInv'
<1> SUFFICES ASSUME IInv, ServeInv, [Next]_vars PROVE ServeInv'
  OBVIOUS
<1>1. CASE User
  <2>1. ASSUME NEW sel \in Selections, RefreshConf(sel[1], sel[2]) PROVE ServeInv'
    <3>1. sel[1] \in SUBSET (1..NRows) /\ sel[2] \in SUBSET (1..NCols)
      BY SizesAssumption
    <3> QED
      BY <2>1, <3>1, RefreshConfServe
  <2>2. ASSUME NEW x \in Resettable, ResetField(x) PROVE ServeInv'
    BY <2>2, FrameServe DEF ResetField, loopVars, pluginVars, historyVars
  <2> QED
    BY <1>1, <2>1, <2>2, StopRefreshConfServe DEF User
<1>2. CASE Loop
  BY <1>2, LoopEndServe, ProcessSkipServe, ProcessExhaustedServe, ProcessStartServe,
     StopBusyShopServe, StopDoneShopServe DEF Loop
<1>3. ASSUME NEW s \in Shop, Deliver(s) \/ PageArrives(s) \/ PageTimeout(s) \/ ThreadExit(s)
      PROVE  ServeInv'
  BY <1>3, PageHandledServe, ShopPluginTerminatedServe, PageTimeoutServe, PageArrivesServe,
     ThreadExitServe DEF Deliver
<1>4. CASE UNCHANGED vars
  BY <1>4, FrameServe DEF vars
<1> QED
  BY <1>1, <1>2, <1>3, <1>4 DEF Next

\* Until an invalid iterator was used, threads run only for searches, each
\* search given up has something that will release it, and every shop left
\* idle in the map is owed a walk that will come.
THEOREM ServeHolds == Spec => []ServeInv
<1>1. Init => ServeInv
  BY InitServe
<1>2. IInv /\ ServeInv /\ [Next]_vars => ServeInv'
  BY NextServe
<1> QED
  BY <1>1, <1>2, Inductive, PTL DEF Spec

\* After a stop everything still searched for is going to be released, for any
\* number of shops: the Stop button does not stay disabled for want of events.
THEOREM BusyIsReleasedHolds == Spec => []BusyIsReleased
<1>1. ServeInv => BusyIsReleased
  BY DEF ServeInv, Released, ToBeStopped, IsEnding, BusyIsReleased
<1> QED
  BY <1>1, ServeHolds, PTL

\* A refresh that has shops left has an event to come, for any number of shops:
\* no shop is passed over for good.
THEOREM RefreshHasNextHolds == Spec => []RefreshHasNext
<1>1. ASSUME IInv, ServeInv, ~stopping, pc = "eventLoop", ~ub, inMap # {}, selected # {}
      PROVE  \/ busy # {}
             \/ \E s \in Shop : thread[s] = "quitting"
             \/ \E s \in Shop, i \in DOMAIN posted : posted[i] = FinishedOf(s)
  <2>1. PICK s \in inMap : TRUE
    BY <1>1
  <2>2. s \in Shop /\ thread[s] \in {"idle", "running", "quitting"}
    BY <1>1 DEF IInv, TypeOK
  <2>3. CASE thread[s] = "idle"
    <3>1. Cardinality(Owed) <= Cardinality(Ends)
      BY <1>1 DEF ServeInv, Served, EachOwedHasEnd
    <3>2. Cardinality(Owed) # 0 /\ Cardinality(Owed) \in Nat
      <4>1. s \in Owed /\ Owed \in SUBSET Shop
        BY <1>1, <2>1, <2>3, EndsFacts DEF Owed
      <4>2. IsFiniteSet(Owed) /\ Cardinality(Owed) \in Nat
        BY <4>1, ShopsFinite
      <4> QED
        BY <4>1, <4>2, FS_EmptySet
    <3>3. Ends # {}
      <4>1. Cardinality(Ends) # 0
        BY <1>1, <3>1, <3>2, EndsFacts
      <4> QED
        BY <4>1, FS_EmptySet
    <3>4. PICK i \in DOMAIN posted : posted[i].kind = "finished"
      BY <3>3 DEF Ends
    <3>5. posted[i] \in Event
      BY <1>1, EndsFacts
    <3>6. posted[i] = FinishedOf(posted[i].shop) /\ posted[i].shop \in Shop
      BY <3>4, <3>5 DEF Event, FinishedOf
    <3> QED
      BY <3>6
  <2>4. CASE thread[s] = "running"
    BY <1>1, <2>2, <2>4 DEF ServeInv, RunsForSearch, OfShop
  <2> QED
    BY <2>2, <2>3, <2>4
<1>2. IInv /\ ServeInv => RefreshHasNext
  BY <1>1 DEF RefreshHasNext
<1> QED
  BY <1>2, Inductive, ServeHolds, PTL
=============================================================================
