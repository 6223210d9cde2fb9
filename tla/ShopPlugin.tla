------------------------------ MODULE ShopPlugin ------------------------------
(***************************************************************************)
(* ShopPluginBase and its three children (Sources/Plugins): the search for *)
(* the price of one component, page by page, over LoadNetworkObject.       *)
(*                                                                         *)
(* A page is what the parsers make of it: its kind, the links it lists,    *)
(* and the component whose price it shows.  Data is followed by where it   *)
(* comes from: a URL is <<the component it was listed for, a number>>, the  *)
(* number 0 standing for the one the table has kept from a refresh before, *)
(* and a price is the component it belongs to, NoPrice (0 in the code) if  *)
(* none.  The children keep what a page yields in variables of their       *)
(* namespace, which outlive the page and the search.                       *)
(*                                                                         *)
(* The slots of the plugin are called by the loader's emit; while signal   *)
(* is pending nothing else runs, so slot and emission are one handler.     *)
(***************************************************************************)
EXTENDS LoadNetworkObject, FiniteSets

CONSTANTS
    Components,  \* the components searched for
    NoPrice,
    NoUrl,
    Words,       \* the words of the name of a component, or of a link
    UrlRank,     \* the order of QUrl, by which std::map keeps its keys
    PageKinds,   \* the kinds of pages the shop may send
    MayStop,     \* TRUE if a search may be abandoned: Stop, and then Refresh
    ResetsParser, \* prepareHTMLParserForNewSearch resets the parser: FALSE for Arest
    HasNextPages  \* nextSearchPageSelectors is not empty: TRUE for Komputronik

Link == Components \X {1, 2}
Url  == (Components \X {0, 1, 2}) \cup {NoUrl}
StoredUrl(k) == <<k, 0>>

ASSUME PluginAssumption ==
    /\ NoPrice \notin Components /\ NoUrl \notin Components \X {0, 1, 2}
    /\ \A x \in Components \cup Link : IsFiniteSet(Words[x])
    /\ UrlRank \in [Link -> Nat]
    /\ PageKinds \subseteq {"bad", "refresh", "notFound", "product", "search", "unknown"}
    /\ MayStop \in BOOLEAN /\ ResetsParser \in BOOLEAN /\ HasNextPages \in BOOLEAN

Price == Components \cup {NoPrice}
\* what a request asks for: a search page of a component, or a product page
Wanted == [page : {"search", "product"}, of : Components]

VARIABLES
    comp,        \* m_strComponentName
    wanted,      \* what the last request asked for
    results,     \* m_stResult
    result,      \* m_stCompData.eSearchResult
    dPrice,      \* m_stCompData.dPrice, by its origin
    url,         \* m_stCompData.strCompURL
    parsedLinks, \* mSearchResult of the child's namespace
    parsedPrice  \* dPrice of the child's namespace

\* history
VARIABLES
    unanswered,  \* the present search has not emitted priceSearchedFinished
    dropped,     \* a page of the present search was of no known kind
    answer       \* the last priceSearchedFinished

dataVars   == <<result, dPrice, url>>
parserVars == <<parsedLinks, parsedPrice>>
history    == <<unanswered, dropped, answer>>
pluginVars == <<comp, wanted, results, dataVars, parserVars, history>>
shopVars   == <<netVars, pluginVars>>

Result   == {"none", "found", "notFound", "fail", "timeout"}
NoAnswer == [of |-> NoPrice, result |-> "none", price |-> NoPrice, url |-> NoUrl]
Answer   == [of : Price, result : Result, price : Price, url : Url]

Init ==
    /\ LoaderInit
    /\ comp = NoPrice /\ results = {}
    /\ result = "none" /\ dPrice = NoPrice /\ url = NoUrl
    /\ wanted \in Wanted                     \* of no use before a request
    /\ parsedLinks = {} /\ parsedPrice = NoPrice
    /\ unanswered = FALSE /\ dropped = FALSE /\ answer = NoAnswer

\* emit priceSearchedFinished(m_stCompData), with the final values of the data
PriceSearchedFinished ==
    /\ unanswered' = FALSE
    /\ answer' = [of |-> comp, result |-> result', price |-> dPrice', url |-> url']
    /\ UNCHANGED dropped

\* the plugin's slot makes the next request
LoadPage(page, k) ==
    /\ Load
    /\ wanted' = [page |-> page, of |-> k]
    /\ UNCHANGED history

\* the plugin's slot answers and returns
Answers == SlotReturns /\ PriceSearchedFinished /\ UNCHANGED <<comp, wanted>>

-----------------------------------------------------------------------------

\* prepareToNewSearch: the price of the last component is forgotten
PriceAfterPrepareKept == dPrice
PriceAfterPrepare == NoPrice

\* prepareHTMLParserForNewSearch of the child
PrepareHTMLParserNever == UNCHANGED parserVars
PrepareHTMLParser ==
    IF ResetsParser THEN parsedLinks' = {} /\ parsedPrice' = NoPrice
    ELSE UNCHANGED parserVars

\* getProductData(k, old), which CRefreshData calls when it has the answer of
\* the search before, or has given it up; whatever is loading goes on
GetProductData(k, old) ==
    /\ signal = Quiet
    /\ unanswered => MayStop
    /\ Load
    /\ comp' = k
    /\ wanted' = [page |-> IF old = NoUrl THEN "search" ELSE "product", of |-> k]
    /\ results' = {} /\ result' = "none" /\ dPrice' = PriceAfterPrepare /\ url' = old
    /\ PrepareHTMLParser
    /\ unanswered' = TRUE /\ dropped' = FALSE /\ UNCHANGED answer

-----------------------------------------------------------------------------
(***************************************************************************)
(* onPageDownloadFinished.                                                 *)
(***************************************************************************)
\* a page cut short is a part of one; tidy closes it
Whole == buffer = WholePage(last)
PageArrived(kind) ==
    signal = Finished /\ kind \in PageKinds \cup (IF Whole THEN {} ELSE {"bad", "unknown"})

\* the links listed, and the price shown, by the page
LinksOnPage  == SUBSET {l \in Link : l[1] = wanted.of}
PricesOnPage == {wanted.of, NoPrice}

\* The content handlers add the links to what the parser holds and put the
\* price, if there is one, in place of what was there before.
Parsed(listed, shown) ==
    /\ parsedLinks' = parsedLinks \cup listed
    /\ parsedPrice' = IF shown = NoPrice THEN parsedPrice ELSE shown

\* XML parsing fails
PageBad ==
    /\ PageArrived("bad")
    /\ result' = "fail"
    /\ UNCHANGED <<results, dPrice, url>>
    /\ Answers

\* isRefreshNeeded: the page is asked for again
PageRefresh ==
    /\ PageArrived("refresh")
    /\ LoadPage(wanted.page, wanted.of)
    /\ UNCHANGED <<comp, results, dataVars>>

\* pageNotFound
NotFound == result' = "notFound" /\ dPrice' = NoPrice /\ url' = url

\* isNotFoundPage
PageNotFound ==
    /\ PageArrived("notFound")
    /\ NotFound /\ UNCHANGED results
    /\ Answers

\* isSingleProductPage: parseProductPage takes the price the parser holds
PageProduct ==
    /\ PageArrived("product")
    /\ result' = "found" /\ dPrice' = parsedPrice'
    /\ UNCHANGED <<results, url>>
    /\ Answers

\* isSearchProductPage: the first lines of processSearchPageLoad
PageSearch(next) ==
    /\ PageArrived("search")
    /\ next => HasNextPages
    /\ results' = results \cup parsedLinks'

\* bNextPageSearch: loadNextPage
SearchNextPage ==
    /\ PageSearch(TRUE)
    /\ LoadPage("search", comp)
    /\ UNCHANGED <<comp, dataVars>>

\* findBestLink: of the links with half of the words, rounded down, the first
Common(l) == Cardinality(Words[l] \cap Words[comp])
GoodEnough(S) == {l \in S : Common(l) >= Cardinality(Words[comp]) \div 2}
FindBestLink(S) ==
    {l \in GoodEnough(S) : \A m \in GoodEnough(S) : UrlRank[l] <= UrlRank[m]}

\* the link followed: the only one, or one findBestLink has chosen
SearchFollow ==
    /\ PageSearch(FALSE)
    /\ \E l \in IF Cardinality(results') = 1 THEN results' ELSE FindBestLink(results') :
          url' = l /\ LoadPage("product", l[1])
    /\ UNCHANGED <<comp, result, dPrice>>

\* no link, or several of which none is good enough
SearchFails ==
    /\ PageSearch(FALSE)
    /\ \/ results' = {} /\ result' = "notFound" /\ UNCHANGED <<dPrice, url>>
       \/ Cardinality(results') > 1 /\ FindBestLink(results') = {} /\ NotFound
    /\ Answers

\* none of them: "Product loading finished without processing"
PageUnknown ==
    /\ PageArrived("unknown")
    /\ SlotReturns
    /\ dropped' = TRUE
    /\ UNCHANGED <<comp, wanted, results, dataVars, unanswered, answer>>

\* onPageLoadingError: both reasons are the same string, any other is dropped
PageLoadingError ==
    /\ signal.kind = "failed"
    /\ IF signal.reason = TIMEOUT_INFO
       THEN /\ result' = "timeout"
            /\ UNCHANGED <<results, dPrice, url, parserVars>>
            /\ Answers
       ELSE SlotReturns /\ UNCHANGED pluginVars

-----------------------------------------------------------------------------

PageDownloadFinished ==
    \E listed \in LinksOnPage, shown \in PricesOnPage :
       /\ Parsed(listed, shown)
       /\ \/ PageBad \/ PageRefresh \/ PageNotFound \/ PageProduct
          \/ SearchNextPage \/ SearchFollow \/ SearchFails \/ PageUnknown

Next ==
    \/ NetNext /\ UNCHANGED pluginVars
    \/ \E k \in Components : \E old \in {NoUrl, StoredUrl(k)} : GetProductData(k, old)
    \/ PageDownloadFinished
    \/ PageLoadingError

Spec == Init /\ [][Next]_shopVars

-----------------------------------------------------------------------------
(***************************************************************************)
(* Properties.                                                             *)
(***************************************************************************)
\* The types of the variables.
TypeOK ==
    /\ LoaderTypeOK
    /\ comp \in Price /\ wanted \in Wanted
    /\ results \subseteq Link /\ parsedLinks \subseteq Link
    /\ result \in Result /\ dPrice \in Price /\ url \in Url
    /\ parsedPrice \in Price
    /\ unanswered \in BOOLEAN /\ dropped \in BOOLEAN /\ answer \in Answer

\* The price reported for a component is a price of that component, or none:
\* "method called for children to clean their previous searching values"
\* (ShopPluginBase.h:56), pages of another search that arrive late, and links
\* left from another search notwithstanding.
PriceOfComponent == answer.price \in {answer.of, NoPrice}

\* The address reported for a component, which the table keeps and the next
\* search of the component starts from, was found for that component.
UrlOfComponent == answer.url # NoUrl => answer.url[1] = answer.of

\* A failure carries no price: not found, a timeout or an error never reports
\* the price an earlier page or an earlier search left in m_stCompData, unless
\* pages overlap.
FailureHasNoPrice ==
    (late = {} /\ answer.result # "found") => answer.price = NoPrice

\* A search that has not been answered is under the time limit of its page,
\* from page to page, through refresh pages, redirections and errors, unless
\* pages overlap or a page is of no kind the plugin knows ...
SearchWatched == (Idle /\ unanswered /\ late = {} /\ ~dropped) => timer

\* ... while "x dodac limit czasowy pobieranie danych o produktach" (add a time
\* limit to fetching product data, TODO.txt:14, x for done) makes no exception.
AlwaysWatched == (Idle /\ unanswered) => timer

\* Of several links the one followed is the "Best match" findBestLink is named
\* for (ShopPluginBase.cpp:58): none has more words of the component's name.
BestMatch ==
    (wanted.page = "product" /\ url \in results)
        => \A l \in results : Common(l) <= Common(url)

\* The inductive invariants of the proofs.  Whatever the child does: until the
\* first search nothing is asked for; a page that has been handed over, or, as
\* long as no page is late, a price found, leaves nothing that can still be
\* told; a search without an answer waits for a request nobody was told of.
NothingBefore == comp = NoPrice => last = 0
ToldAreAsked == \A r \in told : r <= last
FinishedIsDone == signal = Finished => last \in deleted /\ ~timer
PricedIsDone ==
    late = {} /\ dPrice # NoPrice => last \in deleted /\ ~timer /\ signal = Quiet
UnansweredIsUntold ==
    (late = {} /\ ~dropped /\ unanswered /\ signal \notin Telling)
        => last # 0 /\ last \notin told
ShopIInv ==
    /\ LoaderIInv /\ TypeOK
    /\ NothingBefore /\ ToldAreAsked
    /\ FinishedIsDone /\ PricedIsDone /\ UnansweredIsUntold /\ FailureHasNoPrice

\* If the child resets its parser: whatever the plugin and its parser hold is
\* of the component searched for.
IsOwn(u) == u # NoUrl => u[1] = comp
DataIsOwn ==
    comp # NoPrice =>
        /\ wanted.of = comp /\ {dPrice, parsedPrice} \subseteq {comp, NoPrice}
        /\ IsOwn(url) /\ \A l \in results \cup parsedLinks : IsOwn(l)
=============================================================================
