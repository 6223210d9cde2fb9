----------------------- MODULE LoadNetworkObjectProofs -----------------------
(***************************************************************************)
(* Proofs about LoadNetworkObject for any number of requests, any number   *)
(* of parts of a page, and any client.                                     *)
(***************************************************************************)
EXTENDS LoadNetworkObject, TLAPS

\* The emissions are distinct.
LEMMA SignalFacts ==
    /\ Quiet \in Signal /\ Finished \in Signal
    /\ Failed("") \in Signal /\ Failed(TIMEOUT_INFO) \in Signal
    /\ Finished # Quiet /\ Failed("") # Quiet /\ Failed(TIMEOUT_INFO) # Quiet
    /\ Failed("") # Finished /\ Failed(TIMEOUT_INFO) # Finished
    /\ Finished \in Telling /\ Failed(TIMEOUT_INFO) \in Telling
<1>1. Finished.kind = "finished" /\ Quiet.kind = "none"
  BY DEF Finished, Quiet
<1>2. \A why : Failed(why).kind = "failed"
  BY DEF Failed
<1>3. Finished # Quiet /\ (\A why : Failed(why) # Quiet /\ Failed(why) # Finished)
  BY <1>1, <1>2
<1> QED
  BY <1>3 DEF Signal, Telling

\* The initial state satisfies the invariant.
LEMMA InitLoaderIInv == LoaderInit => LoaderIInv
<1> SUFFICES ASSUME LoaderInit PROVE LoaderIInv
  OBVIOUS
<1>1. LoaderTypeOK
  <2>1. last \in 0..MaxRequests /\ 0 \in 0..Parts
    BY LoaderAssumption DEF LoaderInit
  <2>2. timer \in BOOLEAN /\ ub \in BOOLEAN /\ signal \in Signal
    BY SignalFacts DEF LoaderInit
  <2> QED
    BY <2>1, <2>2 DEF LoaderInit, LoaderTypeOK
<1>2. Fresh /\ BufferIsRead /\ BrokenIsTold
  BY DEF LoaderInit, Fresh, BufferIsRead, BrokenIsTold
<1>3. OnlyLastUnfinished /\ HandedOverWhole /\ UntoldIsTimed
  BY SignalFacts DEF LoaderInit, OnlyLastUnfinished, Unfinished, HandedOverWhole, UntoldIsTimed
<1> QED
  BY <1>1, <1>2, <1>3 DEF LoaderIInv

-----------------------------------------------------------------------------

\* A request after which no reply but the new one is unfinished, or one is late.
LEMMA LoadIInv == ASSUME LoaderIInv, Load PROVE LoaderIInv'
<1>1. last \in 0..MaxRequests /\ last + 1 \in Reply /\ MaxRequests \in Nat /\ Parts \in Nat
  BY LoaderAssumption DEF LoaderIInv, LoaderTypeOK, Load, Request, Reply
<1>2. /\ last' = last + 1 /\ stage' = [stage EXCEPT ![last + 1] = "sent"]
      /\ buffer' = {} /\ timer' = TRUE /\ signal' = Quiet /\ ub' = FALSE /\ ub = FALSE
      /\ late' = late \cup {r \in Reply : Unfinished(r)}
      /\ status' = status /\ arrived' = arrived /\ deleted' = deleted /\ told' = told
  BY DEF Load, Idle, Request, BufferAfterCleanup, TimerStarted, LoaderIInv, LoaderTypeOK
<1>3. LoaderTypeOK'
  <2>1. last' \in 0..MaxRequests
    BY <1>1, <1>2 DEF Reply
  <2>2. timer' \in BOOLEAN /\ ub' \in BOOLEAN /\ signal' \in Signal /\ late' \subseteq Reply
    BY <1>2, SignalFacts DEF LoaderIInv, LoaderTypeOK
  <2>3. stage' \in [Reply -> {"none", "sent", "open", "broken", "finished"}]
    BY <1>2 DEF LoaderIInv, LoaderTypeOK
  <2> QED
    BY <1>2, <2>1, <2>2, <2>3 DEF LoaderIInv, LoaderTypeOK
<1>4. Fresh'
  BY <1>1, <1>2 DEF LoaderIInv, LoaderTypeOK, Fresh, Reply
<1>5. BufferIsRead'
  <2>1. arrived'[last'] = 0 /\ last' # 0
    BY <1>1, <1>2 DEF LoaderIInv, Fresh
  <2>2. {last'} \X (1..0) = {}
    OBVIOUS
  <2> QED
    BY <1>2, <2>1, <2>2 DEF BufferIsRead
<1>6. BrokenIsTold'
  BY <1>1, <1>2 DEF BrokenIsTold, LoaderIInv, LoaderTypeOK
<1>7. OnlyLastUnfinished'
  BY <1>1, <1>2 DEF OnlyLastUnfinished, Unfinished, LoaderIInv, LoaderTypeOK
<1>8. HandedOverWhole' /\ UntoldIsTimed'
  BY <1>2, SignalFacts DEF HandedOverWhole, UntoldIsTimed
<1> QED
  BY <1>3, <1>4, <1>5, <1>6, <1>7, <1>8 DEF LoaderIInv

\* The return of the client's slot ends the emission and nothing else.
LEMMA SlotReturnsIInv == ASSUME LoaderIInv, SlotReturns PROVE LoaderIInv'
<1>1. /\ signal # Quiet /\ signal' = Quiet
      /\ UNCHANGED <<last, buffer, timer, stage, status, arrived, deleted, ub, late, told>>
  BY DEF SlotReturns, replyVars
<1> QED
  BY <1>1, SignalFacts
     DEF LoaderIInv, LoaderTypeOK, Fresh, BufferIsRead, BrokenIsTold, OnlyLastUnfinished,
         Unfinished, HandedOverWhole, UntoldIsTimed

\* Headers open a reply that was sent; the slot asks the last reply for its
\* length, which without a late reply is the one the headers are of.
LEMMA HeadersIInv ==
    ASSUME LoaderIInv, NEW r \in Reply, NEW code \in {"2xx", "3xx", "4xx"},
           HeadersArrive(r, code)
    PROVE  LoaderIInv'
<1>1. /\ stage[r] = "sent" /\ r \notin deleted
      /\ stage' = [stage EXCEPT ![r] = "open"] /\ status' = [status EXCEPT ![r] = code]
      /\ ub' = (last \in deleted)
      /\ UNCHANGED <<last, buffer, timer, signal, arrived, deleted, late, told>>
  BY DEF HeadersArrive, loaderVars
<1>2. LoaderTypeOK'
  BY <1>1 DEF LoaderIInv, LoaderTypeOK
<1>3. Fresh'
  BY <1>1 DEF LoaderIInv, LoaderTypeOK, Fresh
<1>4. BufferIsRead' /\ HandedOverWhole' /\ UntoldIsTimed'
  BY <1>1 DEF LoaderIInv, BufferIsRead, HandedOverWhole, UntoldIsTimed
<1>5. BrokenIsTold'
  BY <1>1 DEF LoaderIInv, LoaderTypeOK, BrokenIsTold
<1>6. OnlyLastUnfinished'
  <2>1. Unfinished(r)
    BY <1>1 DEF Unfinished
  <2>2. ASSUME late = {} PROVE last \notin deleted
    <3>1. r = last
      BY <2>1, <2>2 DEF LoaderIInv, OnlyLastUnfinished
    <3> QED
      BY <1>1, <3>1
  <2> QED
    BY <1>1, <2>2 DEF LoaderIInv, LoaderTypeOK, OnlyLastUnfinished, Unfinished
<1> QED
  BY <1>2, <1>3, <1>4, <1>5, <1>6 DEF LoaderIInv

\* The slot reads the last reply to the end, whichever reply has new bytes.
LEMMA ReadyReadIInv == ASSUME LoaderIInv, NEW r \in Reply, ReadyRead(r) PROVE LoaderIInv'
<1>1. /\ stage[r] = "open" /\ r \notin deleted /\ arrived[r] < Parts /\ Idle
      /\ arrived' = [arrived EXCEPT ![r] = @ + 1]
      /\ ub' = (last \in deleted) /\ buffer' = IF ub' THEN buffer ELSE BufferAfterRead
      /\ UNCHANGED <<last, timer, signal, stage, status, deleted, late, told>>
  BY DEF ReadyRead
<1>2. last \in Reply /\ r <= last /\ arrived \in [Reply -> 0..Parts] /\ Parts \in Nat
  BY <1>1, LoaderAssumption DEF LoaderIInv, LoaderTypeOK, Fresh, Reply
<1>3. arrived' \in [Reply -> 0..Parts] /\ last # 0 /\ arrived[last] <= arrived'[last]
  BY <1>1, <1>2 DEF Reply
<1>4. buffer = {last} \X (1..arrived[last])
  BY <1>3 DEF LoaderIInv, BufferIsRead
<1>5. BufferIsRead'
  <2>1. CASE last \in deleted
    <3>1. arrived'[last] = arrived[last]
      BY <1>1, <1>2, <2>1
    <3> QED
      BY <1>1, <1>3, <1>4, <2>1, <3>1 DEF BufferIsRead
  <2>2. CASE last \notin deleted
    <3>1. 1..arrived[last] \subseteq 1..arrived'[last]
      BY <1>2, <1>3
    <3>2. buffer' = buffer \cup ({last} \X (1..arrived'[last]))
      BY <1>1, <2>2 DEF BufferAfterRead
    <3>3. buffer' = {last} \X (1..arrived'[last])
      BY <1>4, <3>1, <3>2
    <3> QED
      BY <1>1, <1>3, <3>3 DEF BufferIsRead
  <2> QED
    BY <2>1, <2>2
<1>6. LoaderTypeOK'
  <2>1. buffer' \subseteq Reply \X (1..Parts)
    <3>1. arrived'[last] \in 0..Parts
      BY <1>2, <1>3
    <3>2. 1..arrived'[last] \subseteq 1..Parts
      BY <1>2, <3>1
    <3> QED
      BY <1>1, <1>2, <1>3, <1>5, <3>2 DEF BufferIsRead
  <2> QED
    BY <1>1, <1>3, <2>1 DEF LoaderIInv, LoaderTypeOK
<1>7. Fresh' /\ BrokenIsTold' /\ UntoldIsTimed'
  BY <1>1, <1>2 DEF LoaderIInv, Fresh, BrokenIsTold, UntoldIsTimed, Reply
<1>8. HandedOverWhole'
  BY <1>1, SignalFacts DEF HandedOverWhole, Idle
<1>9. OnlyLastUnfinished'
  <2>1. Unfinished(r)
    BY <1>1 DEF Unfinished
  <2> QED
    BY <1>1, <2>1 DEF LoaderIInv, OnlyLastUnfinished, Unfinished
<1> QED
  BY <1>5, <1>6, <1>7, <1>8, <1>9 DEF LoaderIInv

\* An error is told to the client as a failure of the last request.
LEMMA ErrorIInv == ASSUME LoaderIInv, NEW r \in Reply, HttpErrorReply(r) PROVE LoaderIInv'
<1>1. /\ stage[r] \in {"sent", "open"} /\ r \notin deleted /\ Idle
      /\ stage' = [stage EXCEPT ![r] = "broken"]
      /\ signal' = Failed(TIMEOUT_INFO) /\ told' = told \cup {last}
      /\ UNCHANGED <<last, buffer, timer, status, arrived, deleted, ub, late>>
  BY SignalFacts DEF HttpErrorReply, Loading, Emit, ERROR_INFO, TIMEOUT_INFO
<1>2. last \in Reply /\ r <= last
  BY <1>1, LoaderAssumption DEF LoaderIInv, LoaderTypeOK, Fresh, Reply
<1>3. LoaderTypeOK'
  BY <1>1, <1>2, SignalFacts DEF LoaderIInv, LoaderTypeOK
<1>4. Fresh' /\ BrokenIsTold'
  BY <1>1, <1>2 DEF LoaderIInv, LoaderTypeOK, Fresh, BrokenIsTold, Reply
<1>5. BufferIsRead'
  BY <1>1, <1>2 DEF LoaderIInv, BufferIsRead, Reply
<1>6. HandedOverWhole' /\ UntoldIsTimed'
  BY <1>1, SignalFacts DEF HandedOverWhole, UntoldIsTimed
<1>7. OnlyLastUnfinished'
  BY <1>1 DEF LoaderIInv, LoaderTypeOK, OnlyLastUnfinished, Unfinished
<1> QED
  BY <1>3, <1>4, <1>5, <1>6, <1>7 DEF LoaderIInv

\* The timer's timeout is told to the client and leaves the reply alone.
LEMMA TimeoutIInv == ASSUME LoaderIInv, LoadingTimeout PROVE LoaderIInv'
<1>1. /\ timer' = FALSE /\ timer
      /\ signal' = Failed(TIMEOUT_INFO) /\ told' = told \cup {last}
      /\ UNCHANGED <<last, buffer, stage, status, arrived, deleted, ub, late>>
  BY SignalFacts DEF LoadingTimeout, TimeoutSignal, Emit, replyVars
<1>2. last \in Reply /\ last # 0
  BY <1>1, LoaderAssumption DEF LoaderIInv, LoaderTypeOK, BufferIsRead, Reply
<1>3. LoaderTypeOK'
  BY <1>1, <1>2, SignalFacts DEF LoaderIInv, LoaderTypeOK
<1>4. Fresh' /\ BrokenIsTold' /\ BufferIsRead' /\ UntoldIsTimed'
  BY <1>1, <1>2 DEF LoaderIInv, Fresh, BrokenIsTold, BufferIsRead, UntoldIsTimed
<1>5. HandedOverWhole'
  BY <1>1, SignalFacts DEF HandedOverWhole
<1>6. OnlyLastUnfinished'
  BY <1>1 DEF LoaderIInv, OnlyLastUnfinished, Unfinished
<1> QED
  BY <1>3, <1>4, <1>5, <1>6 DEF LoaderIInv

-----------------------------------------------------------------------------

\* finished() of a reply: as long as none was late it is the last one, and the
\* handler hands over a whole page, or a failure already told, or goes on to
\* the next request.
LEMMA FinishedIInv == ASSUME LoaderIInv, NEW r \in Reply, DownloadFinished(r) PROVE LoaderIInv'
<1> DEFINE done == [stage EXCEPT ![r] = "finished"]
<1>1. /\ signal = Quiet /\ ub = FALSE /\ r \notin deleted /\ stage[r] \in {"open", "broken"}
      /\ status' = status /\ arrived' = arrived
      /\ stage[r] = "broken" \/ status[r] = "3xx" \/ (status[r] = "2xx" /\ arrived[r] = Parts)
  BY DEF DownloadFinished, Finishes, LoaderIInv, LoaderTypeOK
<1>2. last \in Reply /\ r <= last /\ last # 0 /\ Unfinished(r)
  BY <1>1, LoaderAssumption DEF LoaderIInv, LoaderTypeOK, Fresh, Reply, Unfinished
<1>3. late = {} => r = last
  BY <1>2 DEF LoaderIInv, OnlyLastUnfinished
<1>4. done \in [Reply -> {"none", "sent", "open", "broken", "finished"}]
  BY DEF LoaderIInv, LoaderTypeOK
<1>5. CASE /\ last \in deleted /\ ub' = TRUE /\ stage' = done
           /\ UNCHANGED <<loaderVars, deleted, late, told>>
  <2>1. late # {}
    BY <1>1, <1>3, <1>5
  <2>2. LoaderTypeOK'
    BY <1>1, <1>4, <1>5 DEF LoaderIInv, LoaderTypeOK, loaderVars
  <2>3. Fresh' /\ BrokenIsTold' /\ BufferIsRead'
    BY <1>1, <1>2, <1>5 DEF LoaderIInv, LoaderTypeOK, Fresh, BrokenIsTold, BufferIsRead, loaderVars
  <2> QED
    BY <1>5, <2>1, <2>2, <2>3
       DEF LoaderIInv, OnlyLastUnfinished, HandedOverWhole, UntoldIsTimed
<1>6. CASE /\ last \notin deleted /\ deleted' = deleted \cup {last} /\ ub' = ub
           /\ IsRedirection /\ Request(done)
           /\ late' = late \cup {q \in Reply \ {r, last} : Unfinished(q)}
           /\ UNCHANGED <<signal, told>>
  <2>1. /\ last' = last + 1 /\ last + 1 \in Reply /\ stage' = [done EXCEPT ![last + 1] = "sent"]
        /\ buffer' = {} /\ timer' = TRUE
    BY <1>2, <1>6, LoaderAssumption DEF Request, BufferAfterCleanup, TimerStarted, Reply
  <2>2. LoaderTypeOK'
    <3>1. last' \in 0..MaxRequests
      BY <2>1, LoaderAssumption DEF Reply
    <3>2. timer' \in BOOLEAN /\ ub' \in BOOLEAN /\ signal' \in Signal
      BY <1>6, <2>1 DEF LoaderIInv, LoaderTypeOK
    <3>3. stage' \in [Reply -> {"none", "sent", "open", "broken", "finished"}]
      BY <1>4, <2>1
    <3>4. late' \subseteq Reply /\ deleted' \subseteq Reply
      BY <1>2, <1>6 DEF LoaderIInv, LoaderTypeOK
    <3> QED
      BY <1>1, <1>6, <2>1, <3>1, <3>2, <3>3, <3>4 DEF LoaderIInv, LoaderTypeOK
  <2>3. Fresh' /\ BrokenIsTold'
    BY <1>1, <1>2, <1>4, <1>6, <2>1 DEF LoaderIInv, LoaderTypeOK, Fresh, BrokenIsTold, Reply
  <2>4. BufferIsRead'
    <3>1. arrived'[last'] = 0 /\ last' # 0
      BY <1>1, <1>2, <2>1 DEF LoaderIInv, Fresh, Reply
    <3>2. {last'} \X (1..0) = {}
      OBVIOUS
    <3> QED
      BY <2>1, <3>1, <3>2 DEF BufferIsRead
  <2>5. OnlyLastUnfinished'
    <3>1. SUFFICES ASSUME late' = {}, NEW q \in Reply, Unfinished(q)', q # last + 1 PROVE FALSE
      BY <1>1, <1>6, <2>1 DEF OnlyLastUnfinished
    <3>2. stage'[q] = done[q] /\ q # last /\ q \notin deleted
      BY <1>4, <1>6, <2>1, <3>1 DEF Unfinished
    <3>3. q # r /\ stage[q] = stage'[q]
      BY <3>1, <3>2 DEF LoaderIInv, LoaderTypeOK, Unfinished
    <3>4. Unfinished(q)
      BY <3>1, <3>2, <3>3 DEF Unfinished
    <3> QED
      BY <1>6, <3>1, <3>2, <3>3, <3>4
  <2>6. HandedOverWhole' /\ UntoldIsTimed'
    BY <1>1, <1>6, <2>1, SignalFacts DEF HandedOverWhole, UntoldIsTimed
  <2> QED
    BY <2>2, <2>3, <2>4, <2>5, <2>6 DEF LoaderIInv
<1>7. CASE /\ last \notin deleted /\ deleted' = deleted \cup {last} /\ ub' = ub
           /\ ~IsRedirection /\ stage' = done /\ timer' = FALSE
           /\ Emit(IF IsSuccess THEN Finished ELSE Failed(""))
           /\ UNCHANGED <<last, buffer, late>>
  <2>1. signal' \in {Finished, Failed("")} /\ (signal' = Finished <=> IsSuccess)
    BY <1>7, SignalFacts DEF Emit
  <2>2. told \subseteq told' /\ told' \subseteq told \cup {last} /\ (IsSuccess => last \in told')
    BY <1>7, SignalFacts DEF Emit
  <2>3. LoaderTypeOK'
    <3>1. timer' \in BOOLEAN /\ ub' \in BOOLEAN /\ signal' \in Signal
      BY <1>1, <1>7, <2>1, SignalFacts
    <3>2. deleted' \subseteq Reply /\ told' \subseteq Reply
      BY <1>2, <1>7, <2>2 DEF LoaderIInv, LoaderTypeOK
    <3>3. last' \in 0..MaxRequests /\ buffer' \subseteq Reply \X (1..Parts) /\ late' \subseteq Reply
      BY <1>7 DEF LoaderIInv, LoaderTypeOK
    <3> QED
      BY <1>1, <1>4, <1>7, <3>1, <3>2, <3>3 DEF LoaderIInv, LoaderTypeOK
  <2>4. Fresh' /\ BrokenIsTold' /\ BufferIsRead'
    BY <1>1, <1>2, <1>7, <2>2 DEF LoaderIInv, LoaderTypeOK, Fresh, BrokenIsTold, BufferIsRead
  <2>5. OnlyLastUnfinished'
    BY <1>1, <1>7 DEF LoaderIInv, LoaderTypeOK, OnlyLastUnfinished, Unfinished
  <2>6. HandedOverWhole'
    BY <1>1, <1>3, <1>7, <2>1 DEF HandedOverWhole, IsSuccess
  <2>7. UntoldIsTimed'
    <3>1. ASSUME late = {} PROVE last \in told'
      BY <1>1, <1>2, <1>3, <1>7, <2>2, <3>1
         DEF LoaderIInv, BrokenIsTold, IsSuccess, IsRedirection
    <3> QED
      BY <1>7, <3>1 DEF UntoldIsTimed
  <2> QED
    BY <2>3, <2>4, <2>5, <2>6, <2>7 DEF LoaderIInv
<1> QED
  BY <1>5, <1>6, <1>7 DEF DownloadFinished

-----------------------------------------------------------------------------

\* Every step preserves the invariant.
LEMMA NextLoaderIInv == LoaderIInv /\ [LoaderNext]_netVars => LoaderIInv'
<1> SUFFICES ASSUME LoaderIInv, [LoaderNext]_netVars PROVE LoaderIInv'
  OBVIOUS
<1>1. CASE Load
  BY <1>1, LoadIInv
<1>2. CASE SlotReturns
  BY <1>2, SlotReturnsIInv
<1>3. CASE LoadingTimeout
  BY <1>3, TimeoutIInv
<1>4. ASSUME NEW r \in Reply, NEW code \in {"2xx", "3xx", "4xx"}, HeadersArrive(r, code)
      PROVE  LoaderIInv'
  BY <1>4, HeadersIInv
<1>5. ASSUME NEW r \in Reply, ReadyRead(r) \/ HttpErrorReply(r) \/ DownloadFinished(r)
      PROVE  LoaderIInv'
  BY <1>5, ReadyReadIInv, ErrorIInv, FinishedIInv
<1>6. CASE UNCHANGED netVars
  BY <1>6 DEF netVars, LoaderIInv, LoaderTypeOK, Fresh, BufferIsRead, BrokenIsTold,
              OnlyLastUnfinished, Unfinished, HandedOverWhole, UntoldIsTimed
<1> QED
  BY <1>1, <1>2, <1>3, <1>4, <1>5, <1>6 DEF LoaderNext, NetNext

\* LoaderIInv holds in every reachable state, whatever the client does.
THEOREM LoaderInductive == LoaderSpec => []LoaderIInv
<1> QED
  BY InitLoaderIInv, NextLoaderIInv, PTL DEF LoaderSpec

\* The variables keep their types.
THEOREM LoaderTypeCorrect == LoaderSpec => []LoaderTypeOK
<1>1. LoaderIInv => LoaderTypeOK
  BY DEF LoaderIInv
<1> QED
  BY <1>1, LoaderInductive, PTL

\* The byte array never holds bytes of two replies.
THEOREM NoMixedPagesHolds == LoaderSpec => []NoMixedPages
<1>1. LoaderIInv => NoMixedPages
  <2> SUFFICES ASSUME LoaderIInv, last # 0 PROVE NoMixedPages
    BY DEF LoaderIInv, BufferIsRead, NoMixedPages
  <2>1. arrived[last] \in 0..Parts /\ Parts \in Nat
    BY LoaderAssumption DEF LoaderIInv, LoaderTypeOK, Reply
  <2>2. 1..arrived[last] \subseteq 1..Parts
    BY <2>1
  <2> QED
    BY <2>2 DEF LoaderIInv, BufferIsRead, NoMixedPages
<1> QED
  BY <1>1, LoaderInductive, PTL

\* Without a late reply no page is cut, and no released reply is used, by the
\* slots of headers, of bytes and of the end of a reply, which all go to
\* m_ptrReply.
THEOREM OnlyLateRepliesHarmHolds == LoaderSpec => []OnlyLateRepliesHarm
<1>1. LoaderIInv => OnlyLateRepliesHarm
  <2> SUFFICES ASSUME LoaderIInv, late = {}, signal = Finished PROVE buffer = WholePage(last)
    BY DEF LoaderIInv, OnlyLastUnfinished, OnlyLateRepliesHarm
  <2>1. arrived[last] = Parts /\ last # 0
    BY SignalFacts DEF LoaderIInv, HandedOverWhole, BufferIsRead
  <2> QED
    BY <2>1 DEF LoaderIInv, BufferIsRead, WholePage
<1> QED
  BY <1>1, LoaderInductive, PTL

\* Without a late reply every request not told of is under its time limit.
THEOREM WatchedRequestHolds == LoaderSpec => []WatchedRequest
<1>1. LoaderIInv => WatchedRequest
  BY DEF LoaderIInv, UntoldIsTimed, WatchedRequest
<1> QED
  BY <1>1, LoaderInductive, PTL
=============================================================================
