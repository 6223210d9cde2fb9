--------------------------- MODULE ShopPluginProofs ---------------------------
(***************************************************************************)
(* Proofs about ShopPlugin for any components, names, URLs and kinds of    *)
(* pages, any number of requests and any overlap of them.  The loader's    *)
(* invariant is the one of LoadNetworkObjectProofs: every step of the      *)
(* plugin is a step of the loader with some client.                        *)
(***************************************************************************)
EXTENDS ShopPlugin, LoadNetworkObjectProofs

-----------------------------------------------------------------------------
(***************************************************************************)
(* What the loader's steps do to what the plugin's invariant is about.     *)
(***************************************************************************)
LEMMA LoadFacts == ASSUME LoaderIInv, Load
    PROVE /\ last' = last + 1 /\ signal' = Quiet /\ told' = told /\ timer' = TRUE
          /\ late' = {} => late = {}
          /\ last \in Nat
BY LoaderAssumption
   DEF Load, Request, TimerStarted, LoaderIInv, LoaderTypeOK

LEMMA SlotReturnsFacts == ASSUME SlotReturns
    PROVE /\ signal' = Quiet
          /\ UNCHANGED <<last, timer, told, deleted, late>>
BY DEF SlotReturns, replyVars

\* before the first request the network is silent, and a released reply with
\* no timer behind it has nothing more to tell
LEMMA NothingToTell == ASSUME LoaderIInv, NetNext PROVE last \in Nat /\ last # 0
<1>1. last \in 0..MaxRequests /\ MaxRequests \in Nat
  BY LoaderAssumption DEF LoaderIInv, LoaderTypeOK
<1>2. ASSUME last = 0 PROVE ~timer /\ \A r \in Reply : stage[r] = "none"
  BY <1>2 DEF LoaderIInv, BufferIsRead, Fresh, Reply
<1>3. CASE LoadingTimeout
  BY <1>1, <1>2, <1>3 DEF LoadingTimeout
<1>4. CASE \E r \in Reply : stage[r] # "none"
  BY <1>1, <1>2, <1>4
<1> QED
  BY <1>3, <1>4 DEF NetNext, HeadersArrive, ReadyRead, HttpErrorReply, Loading,
                    DownloadFinished, Finishes

\* a step of the network tells the client of the last request, or drops a
\* failure, or makes the next request
TellsNothing == last' = last /\ signal' = Quiet /\ timer' = timer /\ told' = told /\ deleted' = deleted
Tells        == last' = last /\ signal' \in Telling /\ told' = told \cup {last}
DropsFailure == last' = last /\ signal' = Failed("") /\ told' = told
Redirects    == last' = last + 1 /\ signal' = Quiet /\ told' = told

LEMMA NetFacts == ASSUME LoaderIInv, NetNext
    PROVE /\ signal = Quiet /\ (late' = {} => late = {})
          /\ TellsNothing \/ Tells \/ DropsFailure \/ Redirects
          /\ signal' = Finished => last' \in deleted' /\ ~timer'
          /\ late = {} /\ last \in deleted /\ ~timer => TellsNothing
<1>0. ASSUME late = {}, last \in deleted, NEW r \in Reply PROVE ~Unfinished(r)
  BY <1>0 DEF LoaderIInv, OnlyLastUnfinished, Unfinished
<1>1. CASE LoadingTimeout
  BY <1>1, SignalFacts
     DEF LoadingTimeout, TimeoutSignal, Emit, Idle, Tells, replyVars
<1>2. ASSUME NEW r \in Reply, NEW code \in {"2xx", "3xx", "4xx"}, HeadersArrive(r, code)
      PROVE  signal = Quiet /\ TellsNothing /\ signal' # Finished /\ late' = late
  BY <1>2, SignalFacts DEF HeadersArrive, Idle, loaderVars, TellsNothing
<1>3. ASSUME NEW r \in Reply, ReadyRead(r)
      PROVE  signal = Quiet /\ TellsNothing /\ signal' # Finished /\ late' = late
  BY <1>3, SignalFacts DEF ReadyRead, Idle, TellsNothing
<1>4. ASSUME NEW r \in Reply, HttpErrorReply(r)
      PROVE  signal = Quiet /\ Tells /\ signal' # Finished /\ late' = late /\ Unfinished(r)
  BY <1>4, SignalFacts
     DEF HttpErrorReply, Idle, Loading, Unfinished, Emit, ERROR_INFO, TIMEOUT_INFO, Tells
<1>5. ASSUME NEW r \in Reply, DownloadFinished(r)
      PROVE  /\ signal = Quiet /\ (late' = {} => late = {})
             /\ TellsNothing \/ Tells \/ DropsFailure \/ Redirects
             /\ signal' = Finished => last' \in deleted' /\ ~timer'
             /\ Unfinished(r)
  <2>1. signal = Quiet /\ Unfinished(r)
    BY <1>5 DEF DownloadFinished, Finishes, Unfinished
  <2>2. CASE last \in deleted
    BY <1>5, <2>1, <2>2, SignalFacts DEF DownloadFinished, loaderVars, TellsNothing
  <2>3. CASE last \notin deleted /\ IsRedirection
    BY <1>5, <2>1, <2>3, SignalFacts DEF DownloadFinished, Request, Redirects
  <2>4. CASE last \notin deleted /\ ~IsRedirection
    <3>1. CASE IsSuccess
      BY <1>5, <2>1, <2>4, <3>1, SignalFacts DEF DownloadFinished, Emit, Tells
    <3>2. CASE ~IsSuccess
      <4>1. Failed("") \notin Telling
        BY SignalFacts DEF Telling, Failed, TIMEOUT_INFO
      <4> QED
        BY <1>5, <2>1, <2>4, <3>2, <4>1, SignalFacts
           DEF DownloadFinished, Emit, DropsFailure
    <3> QED
      BY <3>1, <3>2
  <2> QED
    BY <2>2, <2>3, <2>4
<1> QED
  BY <1>0, <1>1, <1>2, <1>3, <1>4, <1>5 DEF NetNext, LoadingTimeout

-----------------------------------------------------------------------------
(***************************************************************************)
(* A handler of the plugin either answers and returns, or asks for the     *)
(* next page, or drops what it was told.                                   *)
(***************************************************************************)
PageAction == PageBad \/ PageRefresh \/ PageNotFound \/ PageProduct
              \/ SearchNextPage \/ SearchFollow \/ SearchFails \/ PageUnknown

LEMMA PageOutcome == ASSUME PageAction
    PROVE /\ signal = Finished
          /\ \/ Answers /\ (result' # "found" => dPrice' \in {dPrice, NoPrice})
             \/ Load /\ UNCHANGED <<history, comp, dPrice>>
             \/ /\ SlotReturns /\ dropped' = TRUE
                /\ UNCHANGED <<comp, wanted, dPrice, unanswered, answer>>
BY DEF PageAction, PageBad, PageRefresh, PageNotFound, PageProduct, SearchNextPage,
       SearchFollow, SearchFails, PageUnknown, PageSearch, LoadPage, NotFound,
       PageArrived, dataVars

\* every step of the plugin is a step of the loader with some client
LEMMA ShopIsLoader == [Next]_shopVars => [LoaderNext]_netVars
<1> SUFFICES ASSUME [Next]_shopVars PROVE [LoaderNext]_netVars
  OBVIOUS
<1>1. CASE UNCHANGED shopVars
  BY <1>1 DEF shopVars
<1>2. CASE NetNext
  BY <1>2 DEF LoaderNext
<1>3. ASSUME NEW k, NEW old, GetProductData(k, old) PROVE LoaderNext
  BY <1>3 DEF GetProductData, LoaderNext
<1>4. CASE PageDownloadFinished
  BY <1>4, PageOutcome DEF PageDownloadFinished, PageAction, Answers, LoaderNext
<1>5. CASE PageLoadingError
  BY <1>5 DEF PageLoadingError, Answers, LoaderNext
<1> QED
  BY <1>1, <1>2, <1>3, <1>4, <1>5 DEF Next

-----------------------------------------------------------------------------
(***************************************************************************)
(* The types.                                                              *)
(***************************************************************************)
PluginTypes ==
    /\ comp \in Price /\ wanted \in Wanted
    /\ results \subseteq Link /\ parsedLinks \subseteq Link
    /\ result \in Result /\ dPrice \in Price /\ url \in Url
    /\ parsedPrice \in Price
    /\ unanswered \in BOOLEAN /\ dropped \in BOOLEAN /\ answer \in Answer

LEMMA ValueTypes ==
    /\ NoPrice \in Price /\ NoUrl \in Url /\ Link \subseteq Url
    /\ \A k \in Components : k \in Price /\ StoredUrl(k) \in Url /\ StoredUrl(k)[1] = k
    /\ \A k \in Components, page \in {"search", "product"} :
          [page |-> page, of |-> k] \in Wanted
    /\ \A l \in Link : l[1] \in Components
    /\ {"none", "found", "notFound", "fail", "timeout"} \subseteq Result
BY DEF Price, Url, Link, StoredUrl, Wanted, Result

LEMMA WantedTypes == ASSUME wanted \in Wanted
    PROVE wanted.of \in Components /\ wanted.page \in {"search", "product"}
BY DEF Wanted

LEMMA AnswersTypes == ASSUME PluginTypes, Answers, results' \subseteq Link, result' \in Result,
                             dPrice' \in Price, url' \in Url, parsedLinks' \subseteq Link,
                             parsedPrice' \in Price
    PROVE PluginTypes'
<1>1. answer' \in Answer
  BY DEF Answers, PriceSearchedFinished, Answer, PluginTypes
<1> QED
  BY <1>1 DEF PluginTypes, Answers, PriceSearchedFinished

LEMMA ParsedTypes ==
    ASSUME PluginTypes, NEW listed \in LinksOnPage, NEW shown \in PricesOnPage,
           Parsed(listed, shown)
    PROVE  parsedLinks' \subseteq Link /\ parsedPrice' \in Price
BY WantedTypes DEF PluginTypes, LinksOnPage, PricesOnPage, Parsed, Price

\* the links a search follows are among those it has found
LEMMA FollowedIsFound ==
    ASSUME NEW S, NEW l \in IF Cardinality(S) = 1 THEN S ELSE FindBestLink(S)
    PROVE  l \in S
BY DEF FindBestLink, GoodEnough

LEMMA PageTypes ==
    ASSUME PluginTypes, comp # NoPrice, PageAction,
           parsedLinks' \subseteq Link, parsedPrice' \in Price
    PROVE  PluginTypes'
<1>0. comp \in Components /\ wanted.of \in Components /\ wanted.page \in {"search", "product"}
  BY WantedTypes DEF PluginTypes, Price
<1>1. CASE PageBad
  BY <1>1, ValueTypes, AnswersTypes DEF PageBad, PluginTypes
<1>2. CASE PageRefresh
  BY <1>2, <1>0, ValueTypes DEF PageRefresh, LoadPage, dataVars, history, PluginTypes
<1>3. CASE PageNotFound
  BY <1>3, ValueTypes, AnswersTypes DEF PageNotFound, NotFound, PluginTypes
<1>4. CASE PageProduct
  BY <1>4, ValueTypes, AnswersTypes DEF PageProduct, PluginTypes
<1>5. CASE SearchNextPage
  BY <1>5, <1>0, ValueTypes
     DEF SearchNextPage, PageSearch, LoadPage, dataVars, history, PluginTypes
<1>6. CASE SearchFollow
  <2>1. results' \subseteq Link
    BY <1>6 DEF SearchFollow, PageSearch, PluginTypes
  <2>2. PICK l \in Link : url' = l /\ LoadPage("product", l[1])
    BY <1>6, <2>1, FollowedIsFound DEF SearchFollow
  <2> QED
    BY <1>6, <2>1, <2>2, ValueTypes DEF SearchFollow, LoadPage, history, PluginTypes
<1>7. CASE SearchFails
  <2>1. results' \subseteq Link /\ Answers
    BY <1>7 DEF SearchFails, PageSearch, PluginTypes
  <2>2. result' \in Result /\ dPrice' \in Price /\ url' \in Url
    BY <1>7, ValueTypes DEF SearchFails, NotFound, PluginTypes
  <2> QED
    BY <2>1, <2>2, AnswersTypes
<1>8. CASE PageUnknown
  BY <1>8 DEF PageUnknown, dataVars, PluginTypes
<1> QED
  BY <1>1, <1>2, <1>3, <1>4, <1>5, <1>6, <1>7, <1>8 DEF PageAction

LEMMA GetTypes ==
    ASSUME PluginTypes, NEW k \in Components, NEW old \in {NoUrl, StoredUrl(k)},
           GetProductData(k, old)
    PROVE  PluginTypes'
<1>1. parsedLinks' \subseteq Link /\ parsedPrice' \in Price
  BY ValueTypes DEF GetProductData, PrepareHTMLParser, PluginTypes, parserVars
<1>2. wanted' \in Wanted /\ url' \in Url
  BY ValueTypes DEF GetProductData
<1> QED
  BY <1>1, <1>2, ValueTypes DEF GetProductData, PriceAfterPrepare, PluginTypes

LEMMA ErrorTypes == ASSUME PluginTypes, PageLoadingError PROVE PluginTypes'
<1>1. CASE signal.reason = TIMEOUT_INFO
  BY <1>1, ValueTypes, AnswersTypes DEF PageLoadingError, parserVars, PluginTypes
<1>2. CASE signal.reason # TIMEOUT_INFO
  BY <1>2 DEF PageLoadingError, pluginVars, dataVars, parserVars, history, PluginTypes
<1> QED
  BY <1>1, <1>2

-----------------------------------------------------------------------------
(***************************************************************************)
(* What is still to be told.                                               *)
(***************************************************************************)
Tell == NothingBefore /\ ToldAreAsked /\ FinishedIsDone /\ PricedIsDone
        /\ UnansweredIsUntold /\ FailureHasNoPrice

LEMMA TellNet == ASSUME LoaderIInv, Tell, NetNext, UNCHANGED pluginVars PROVE Tell'
<1>0. UNCHANGED <<comp, dPrice, unanswered, dropped, answer>>
  BY DEF pluginVars, dataVars, history
<1>1. /\ last \in Nat /\ last # 0 /\ signal = Quiet /\ (late' = {} => late = {})
      /\ told \subseteq Nat
  BY NothingToTell, NetFacts DEF LoaderIInv, LoaderTypeOK, Reply
<1>2. /\ TellsNothing \/ Tells \/ DropsFailure \/ Redirects
      /\ signal' = Finished => last' \in deleted' /\ ~timer'
      /\ late = {} /\ last \in deleted /\ ~timer => TellsNothing
  BY NetFacts
<1>3. /\ last' \in {last, last + 1} /\ told' \subseteq told \cup {last}
      /\ last' = last + 1 \/ (told' = told /\ last' = last) \/ signal' \in Telling
  BY <1>2 DEF TellsNothing, Tells, DropsFailure, Redirects
<1>4. ToldAreAsked'
  BY <1>1, <1>3 DEF Tell, ToldAreAsked
<1>5. PricedIsDone'
  BY <1>0, <1>1, <1>2 DEF Tell, PricedIsDone, TellsNothing
<1>6. Quiet \notin Telling
  BY SignalFacts DEF Telling
<1>7. UnansweredIsUntold'
  <2> SUFFICES ASSUME late' = {}, ~dropped', unanswered', signal' \notin Telling
               PROVE  last' # 0 /\ last' \notin told'
    BY DEF UnansweredIsUntold
  <2>1. last \notin told
    BY <1>0, <1>1, <1>6 DEF Tell, UnansweredIsUntold
  <2>2. CASE told' = told /\ last' = last
    BY <1>1, <2>1, <2>2
  <2>3. CASE last' = last + 1
    BY <1>1, <1>3, <2>3 DEF Tell, ToldAreAsked
  <2> QED
    BY <1>3, <2>2, <2>3
<1>8. NothingBefore' /\ FinishedIsDone' /\ FailureHasNoPrice'
  BY <1>0, <1>1, <1>2, <1>3
     DEF Tell, NothingBefore, FinishedIsDone, FailureHasNoPrice
<1> QED
  BY <1>4, <1>5, <1>7, <1>8 DEF Tell

\* a request of the plugin, of the search that is going on or of a new one
LEMMA TellLoad ==
    ASSUME LoaderIInv, Tell, Load, comp' # NoPrice, answer' = answer,
           late = {} => dPrice' = NoPrice
    PROVE  Tell'
<1>1. /\ last' = last + 1 /\ signal' = Quiet /\ told' = told /\ (late' = {} => late = {})
      /\ last \in Nat
  BY LoadFacts
<1>2. told \subseteq Nat
  BY DEF LoaderIInv, LoaderTypeOK, Reply
<1>3. last + 1 \notin told /\ ToldAreAsked'
  BY <1>1, <1>2 DEF Tell, ToldAreAsked
<1>4. NothingBefore' /\ PricedIsDone' /\ FailureHasNoPrice'
  BY <1>1 DEF Tell, NothingBefore, PricedIsDone, FailureHasNoPrice
<1>5. FinishedIsDone'
  BY <1>1, SignalFacts DEF FinishedIsDone
<1>6. last' # 0 /\ last' \notin told'
  BY <1>1, <1>3
<1>7. UnansweredIsUntold'
  BY <1>6 DEF UnansweredIsUntold
<1> QED
  BY <1>3, <1>4, <1>5, <1>7 DEF Tell

\* an answer, after a page or after a failure
LEMMA TellAnswers ==
    ASSUME Tell, Answers, signal # Quiet,
           result' # "found" => dPrice' \in {dPrice, NoPrice},
           dPrice' # NoPrice => (last \in deleted /\ ~timer)
    PROVE  Tell'
<1>1. /\ UNCHANGED <<comp, last, timer, told, deleted, late>> /\ signal' = Quiet
      /\ unanswered' = FALSE /\ answer'.result = result' /\ answer'.price = dPrice'
  BY SlotReturnsFacts DEF Answers, PriceSearchedFinished
<1>2. ASSUME late = {} PROVE dPrice = NoPrice
  BY <1>2 DEF Tell, PricedIsDone
<1> QED
  BY <1>1, <1>2, SignalFacts
     DEF Tell, NothingBefore, ToldAreAsked, FinishedIsDone, PricedIsDone,
         UnansweredIsUntold, FailureHasNoPrice

LEMMA TellPage == ASSUME LoaderIInv, Tell, PageAction PROVE Tell' /\ comp # NoPrice
<1>1. signal = Finished /\ signal # Quiet /\ last \in deleted /\ ~timer
  BY PageOutcome, SignalFacts DEF Tell, FinishedIsDone
<1>2. comp # NoPrice
  BY <1>1 DEF LoaderIInv, BufferIsRead, Tell, NothingBefore
<1>3. late = {} => dPrice = NoPrice
  BY <1>1 DEF Tell, PricedIsDone
<1>4. CASE Answers /\ (result' # "found" => dPrice' \in {dPrice, NoPrice})
  BY <1>1, <1>4, TellAnswers, <1>2
<1>5. CASE Load /\ UNCHANGED <<history, comp, dPrice>>
  BY <1>2, <1>3, <1>5, TellLoad DEF history
<1>6. CASE SlotReturns /\ dropped' = TRUE
           /\ UNCHANGED <<comp, wanted, dPrice, unanswered, answer>>
  BY <1>2, <1>3, <1>6, SlotReturnsFacts, SignalFacts
     DEF Tell, NothingBefore, ToldAreAsked, FinishedIsDone, PricedIsDone,
         UnansweredIsUntold, FailureHasNoPrice
<1> QED
  BY <1>4, <1>5, <1>6, PageOutcome

LEMMA TellError == ASSUME Tell, PageLoadingError PROVE Tell'
<1>1. signal # Quiet /\ Failed("") \notin Telling
  <2>1. Finished.kind # "failed" /\ Quiet.kind # "failed" /\ Failed("") # Failed(TIMEOUT_INFO)
    BY DEF Finished, Quiet, Failed, TIMEOUT_INFO
  <2> QED
    BY <2>1, SignalFacts DEF PageLoadingError, Telling
<1>2. CASE signal.reason = TIMEOUT_INFO
  <2>1. Answers /\ dPrice' = dPrice
    BY <1>2 DEF PageLoadingError
  <2>2. dPrice # NoPrice => late # {}
    BY <1>1 DEF Tell, PricedIsDone
  <2>3. PricedIsDone'
    BY <2>1, <2>2, SlotReturnsFacts DEF PricedIsDone, Answers
  <2>4. /\ UNCHANGED <<comp, last, timer, told, deleted, late>> /\ signal' = Quiet
        /\ unanswered' = FALSE /\ answer'.price = dPrice'
    BY <2>1, SlotReturnsFacts DEF Answers, PriceSearchedFinished
  <2> QED
    BY <2>1, <2>2, <2>3, <2>4, SignalFacts
       DEF Tell, NothingBefore, ToldAreAsked, FinishedIsDone, UnansweredIsUntold,
           FailureHasNoPrice
<1>3. CASE signal.reason # TIMEOUT_INFO
  <2>1. SlotReturns /\ UNCHANGED <<comp, dPrice, unanswered, dropped, answer>>
    BY <1>3 DEF PageLoadingError, pluginVars, dataVars, history
  <2>2. signal \notin Telling
    <3>1. Finished.kind # "failed" /\ Failed(TIMEOUT_INFO).reason = TIMEOUT_INFO
      BY DEF Finished, Failed
    <3> QED
      BY <3>1, <1>3 DEF PageLoadingError, Telling
  <2> QED
    BY <1>1, <2>1, <2>2, SlotReturnsFacts, SignalFacts
       DEF Tell, NothingBefore, ToldAreAsked, FinishedIsDone, PricedIsDone,
           UnansweredIsUntold, FailureHasNoPrice
<1> QED
  BY <1>2, <1>3

-----------------------------------------------------------------------------
(***************************************************************************)
(* The invariant of every shop.                                            *)
(***************************************************************************)
LEMMA InitShopIInv == Init => ShopIInv
<1> SUFFICES ASSUME Init PROVE ShopIInv
  OBVIOUS
<1>1. LoaderIInv
  BY InitLoaderIInv DEF Init
<1>2. TypeOK
  BY <1>1, ValueTypes DEF Init, TypeOK, LoaderIInv, NoAnswer, Answer
<1>3. last = 0 /\ told = {} /\ signal = Quiet
  BY DEF Init, LoaderInit
<1> QED
  BY <1>1, <1>2, <1>3, SignalFacts
     DEF Init, ShopIInv, NothingBefore, ToldAreAsked, FinishedIsDone, PricedIsDone,
         UnansweredIsUntold, FailureHasNoPrice, NoAnswer

LEMMA NextShopIInv == ShopIInv /\ [Next]_shopVars => ShopIInv'
<1> SUFFICES ASSUME ShopIInv, [Next]_shopVars PROVE ShopIInv'
  OBVIOUS
<1>0. LoaderIInv /\ PluginTypes /\ Tell
  BY DEF ShopIInv, TypeOK, PluginTypes, Tell
<1>1. LoaderIInv'
  BY <1>0, ShopIsLoader, NextLoaderIInv
<1>2. CASE UNCHANGED shopVars
  <2>1. PluginTypes'
    BY <1>0, <1>2 DEF PluginTypes, shopVars, pluginVars, dataVars, parserVars, history
  <2>2. Tell'
    BY <1>0, <1>2 DEF shopVars, netVars, pluginVars, dataVars, history, Tell,
       NothingBefore, ToldAreAsked, FinishedIsDone, PricedIsDone, UnansweredIsUntold,
       FailureHasNoPrice
  <2> QED
    BY <1>1, <2>1, <2>2 DEF ShopIInv, TypeOK, PluginTypes, Tell, LoaderIInv
<1>3. CASE NetNext /\ UNCHANGED pluginVars
  <2>1. PluginTypes'
    BY <1>0, <1>3 DEF PluginTypes, pluginVars, dataVars, parserVars, history
  <2> QED
    BY <1>0, <1>1, <1>3, <2>1, TellNet DEF ShopIInv, TypeOK, PluginTypes, Tell, LoaderIInv
<1>4. ASSUME NEW k \in Components, NEW old \in {NoUrl, StoredUrl(k)}, GetProductData(k, old)
      PROVE  ShopIInv'
  <2>1. Load /\ comp' # NoPrice /\ answer' = answer /\ dPrice' = NoPrice
    BY <1>4, PluginAssumption DEF GetProductData, PriceAfterPrepare
  <2>2. PluginTypes' /\ Tell'
    BY <1>0, <1>4, <2>1, GetTypes, TellLoad
  <2> QED
    BY <1>1, <2>2 DEF ShopIInv, TypeOK, PluginTypes, Tell, LoaderIInv
<1>5. CASE PageDownloadFinished
  <2>1. PICK listed \in LinksOnPage, shown \in PricesOnPage :
           Parsed(listed, shown) /\ PageAction
    BY <1>5 DEF PageDownloadFinished, PageAction
  <2>2. Tell' /\ comp # NoPrice
    BY <1>0, <2>1, TellPage
  <2>3. PluginTypes'
    BY <1>0, <2>1, <2>2, ParsedTypes, PageTypes
  <2> QED
    BY <1>1, <2>2, <2>3 DEF ShopIInv, TypeOK, PluginTypes, Tell, LoaderIInv
<1>6. CASE PageLoadingError
  <2>1. PluginTypes' /\ Tell'
    BY <1>0, <1>6, ErrorTypes, TellError
  <2> QED
    BY <1>1, <2>1 DEF ShopIInv, TypeOK, PluginTypes, Tell, LoaderIInv
<1> QED
  BY <1>2, <1>3, <1>4, <1>5, <1>6 DEF Next

\* The invariant holds in every shop.
THEOREM ShopInductive == Spec => []ShopIInv
<1> QED
  BY InitShopIInv, NextShopIInv, PTL DEF Spec

\* The variables keep their types.
THEOREM ShopTypeCorrect == Spec => []TypeOK
<1>1. ShopIInv => TypeOK
  BY DEF ShopIInv
<1> QED
  BY <1>1, ShopInductive, PTL

\* As long as no page is late, an answer other than "found" has no price.
THEOREM FailureHasNoPriceHolds == Spec => []FailureHasNoPrice
<1>1. ShopIInv => FailureHasNoPrice
  BY DEF ShopIInv
<1> QED
  BY <1>1, ShopInductive, PTL

\* As long as no page is late or of an unknown kind, a search that has not been
\* answered is under its time limit.
THEOREM SearchWatchedHolds == Spec => []SearchWatched
<1>1. ShopIInv => SearchWatched
  <2>1. Quiet \notin Telling
    BY SignalFacts DEF Telling
  <2> QED
    BY <2>1 DEF ShopIInv, UnansweredIsUntold, LoaderIInv, UntoldIsTimed, SearchWatched, Idle
<1> QED
  BY <1>1, ShopInductive, PTL

-----------------------------------------------------------------------------
(***************************************************************************)
(* The invariant of a shop whose child resets its parser.                  *)
(***************************************************************************)
Own == DataIsOwn /\ PriceOfComponent /\ UrlOfComponent

LEMMA OwnGet ==
    ASSUME ResetsParser, Own, NEW k \in Components, NEW old \in {NoUrl, StoredUrl(k)},
           GetProductData(k, old)
    PROVE  Own'
<1>1. /\ comp' = k /\ wanted'.of = k /\ dPrice' = NoPrice /\ parsedPrice' = NoPrice
      /\ results' = {} /\ parsedLinks' = {} /\ url' = old /\ answer' = answer
  BY DEF GetProductData, PrepareHTMLParser, PriceAfterPrepare
<1>2. old # NoUrl => old[1] = k
  BY ValueTypes
<1> QED
  BY <1>1, <1>2 DEF Own, DataIsOwn, IsOwn, PriceOfComponent, UrlOfComponent

\* what an answer reports is what the plugin holds
LEMMA OwnAnswers ==
    ASSUME Own, Answers, comp # NoPrice, dPrice' \in {comp, NoPrice},
           url' # NoUrl => url'[1] = comp
    PROVE  PriceOfComponent' /\ UrlOfComponent'
<1>1. answer'.of = comp /\ answer'.price = dPrice' /\ answer'.url = url'
  BY DEF Answers, PriceSearchedFinished
<1> QED
  BY <1>1 DEF PriceOfComponent, UrlOfComponent

LEMMA OwnPage ==
    ASSUME PluginTypes, Own, comp # NoPrice, PageAction,
           NEW listed \in LinksOnPage, NEW shown \in PricesOnPage, Parsed(listed, shown)
    PROVE  Own'
<1>1. /\ parsedPrice' \in {comp, NoPrice} /\ parsedLinks' = parsedLinks \cup listed
      /\ \A l \in listed : l[1] = comp
  BY DEF Own, DataIsOwn, LinksOnPage, PricesOnPage, Parsed
<1>2. /\ \A l \in results \cup parsedLinks \cup parsedLinks' : l # NoUrl /\ l[1] = comp
      /\ url # NoUrl => url[1] = comp
      /\ dPrice \in {comp, NoPrice} /\ wanted.of = comp
  <2>1. results \subseteq Link /\ parsedLinks \subseteq Link /\ listed \subseteq Link
    BY DEF PluginTypes, LinksOnPage
  <2>2. \A l \in Link : l # NoUrl
    BY PluginAssumption DEF Link
  <2> QED
    BY <1>1, <2>1, <2>2 DEF Own, DataIsOwn, IsOwn
<1>3. comp' = comp
  BY PageOutcome DEF Answers
<1> DEFINE Kept == /\ wanted'.of = comp /\ dPrice' \in {comp, NoPrice}
                   /\ url' # NoUrl => url'[1] = comp
                   /\ \A l \in results' : l[1] = comp
                   /\ (answer' = answer \/ Answers)
<1>4. ASSUME Kept PROVE Own'
  <2>1. DataIsOwn'
    BY <1>1, <1>2, <1>3, <1>4 DEF DataIsOwn, IsOwn
  <2>2. PriceOfComponent' /\ UrlOfComponent'
    BY <1>4, OwnAnswers DEF Own, PriceOfComponent, UrlOfComponent
  <2> QED
    BY <2>1, <2>2 DEF Own
<1> HIDE DEF Kept
<1>5. CASE PageBad
  BY <1>4, <1>2, <1>5 DEF Kept, PageBad, Answers
<1>6. CASE PageRefresh
  BY <1>4, <1>2, <1>6 DEF Kept, PageRefresh, LoadPage, dataVars, history
<1>7. CASE PageNotFound
  BY <1>4, <1>2, <1>7 DEF Kept, PageNotFound, NotFound, Answers
<1>8. CASE PageProduct
  BY <1>4, <1>1, <1>2, <1>8 DEF Kept, PageProduct, Answers
<1>9. CASE SearchNextPage
  BY <1>4, <1>2, <1>9 DEF Kept, SearchNextPage, PageSearch, LoadPage, dataVars, history
<1>10. CASE SearchFollow
  <2>1. PICK l \in results' : url' = l /\ LoadPage("product", l[1])
    BY <1>10, FollowedIsFound DEF SearchFollow
  <2>2. \A m \in results' : m[1] = comp
    BY <1>2, <1>10 DEF SearchFollow, PageSearch
  <2> QED
    BY <1>4, <1>2, <1>10, <2>1, <2>2 DEF Kept, SearchFollow, LoadPage, history
<1>11. CASE SearchFails
  BY <1>4, <1>2, <1>11 DEF Kept, SearchFails, PageSearch, NotFound, Answers
<1>12. CASE PageUnknown
  BY <1>4, <1>2, <1>12 DEF Kept, PageUnknown, dataVars
<1> QED
  BY <1>4, <1>5, <1>6, <1>7, <1>8, <1>9, <1>10, <1>11, <1>12 DEF PageAction

LEMMA OwnError == ASSUME Own, comp # NoPrice, PageLoadingError PROVE Own'
<1>1. CASE signal.reason = TIMEOUT_INFO
  <2>1. /\ Answers /\ UNCHANGED <<comp, wanted, results, dPrice, url, parsedLinks, parsedPrice>>
    BY <1>1 DEF PageLoadingError, Answers, parserVars
  <2>2. PriceOfComponent' /\ UrlOfComponent'
    BY <2>1, OwnAnswers DEF Own, DataIsOwn, IsOwn
  <2> QED
    BY <2>1, <2>2 DEF Own, DataIsOwn, IsOwn
<1>2. CASE signal.reason # TIMEOUT_INFO
  BY <1>2 DEF PageLoadingError, pluginVars, dataVars, parserVars, history,
              Own, DataIsOwn, IsOwn, PriceOfComponent, UrlOfComponent
<1> QED
  BY <1>1, <1>2

LEMMA NextOwn == ASSUME ResetsParser PROVE ShopIInv /\ Own /\ [Next]_shopVars => Own'
<1> SUFFICES ASSUME ShopIInv, Own, [Next]_shopVars PROVE Own'
  OBVIOUS
<1>0. PluginTypes /\ LoaderIInv /\ Tell
  BY DEF ShopIInv, TypeOK, PluginTypes, Tell
<1>1. CASE UNCHANGED pluginVars
  BY <1>1 DEF pluginVars, dataVars, parserVars, history,
              Own, DataIsOwn, IsOwn, PriceOfComponent, UrlOfComponent
<1>2. ASSUME NEW k \in Components, NEW old \in {NoUrl, StoredUrl(k)}, GetProductData(k, old)
      PROVE  Own'
  BY <1>2, OwnGet
<1>3. CASE PageDownloadFinished
  <2>1. PICK listed \in LinksOnPage, shown \in PricesOnPage :
           Parsed(listed, shown) /\ PageAction
    BY <1>3 DEF PageDownloadFinished, PageAction
  <2>2. comp # NoPrice
    BY <1>0, <2>1, TellPage
  <2> QED
    BY <1>0, <2>1, <2>2, OwnPage
<1>4. CASE PageLoadingError
  <2>1. signal # Quiet
    BY <1>4 DEF PageLoadingError, Quiet
  <2>2. comp # NoPrice
    BY <1>0, <2>1 DEF LoaderIInv, BufferIsRead, Tell, NothingBefore
  <2> QED
    BY <1>4, <2>2, OwnError
<1> QED
  BY <1>1, <1>2, <1>3, <1>4 DEF Next, shopVars

\* Own, of which the three properties are parts, is kept by every step of a
\* child that resets its parser.
LEMMA OwnAlways == ASSUME ResetsParser PROVE Spec => []Own
<1>1. Init => Own
  BY PluginAssumption
     DEF Init, Own, DataIsOwn, PriceOfComponent, UrlOfComponent, NoAnswer
<1>2. ShopIInv /\ Own /\ [Next]_shopVars => Own'
  BY NextOwn
<1> QED
  BY <1>1, <1>2, ShopInductive, PTL DEF Spec

\* If the child resets its parser, what the plugin holds is of the component
\* searched for, whatever pages come late.
THEOREM DataIsOwnHolds == ASSUME ResetsParser PROVE Spec => []DataIsOwn
<1>1. Own => DataIsOwn
  BY DEF Own
<1> QED
  BY <1>1, OwnAlways, PTL

\* If the child resets its parser, the price reported for a component is of
\* that component.
THEOREM PriceOfComponentHolds == ASSUME ResetsParser PROVE Spec => []PriceOfComponent
<1>1. Own => PriceOfComponent
  BY DEF Own
<1> QED
  BY <1>1, OwnAlways, PTL

\* If the child resets its parser, the address stored with a price is the one
\* of a page of the same component.
THEOREM UrlOfComponentHolds == ASSUME ResetsParser PROVE Spec => []UrlOfComponent
<1>1. Own => UrlOfComponent
  BY DEF Own
<1> QED
  BY <1>1, OwnAlways, PTL
=============================================================================
