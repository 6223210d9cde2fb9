-------------------------- MODULE LoadNetworkObject --------------------------
(***************************************************************************)
(* LoadNetworkObject (Sources/Plugins/Network/LoadNetworkObject.cpp): the  *)
(* page loader of a shop plugin.  One object serves all requests; every    *)
(* slot works on m_ptrReply, the reply to the last request, whichever      *)
(* reply the signal came from, and a request does not abort the one before *)
(* it.  Replies are numbered in the order of their requests, so m_ptrReply *)
(* is the number of the last one.                                          *)
(*                                                                         *)
(* A slot emits its signal synchronously: signal holds the emission until  *)
(* the client's slot has returned or has made the next request, and        *)
(* everything else waits.  Qt emits error() and, right after it,           *)
(* finished(): a broken reply is finished before anything else happens.    *)
(* A reply given to deleteLater is gone once the handler has returned; a   *)
(* slot that uses it then is undefined behaviour, and ends the behaviour.  *)
(***************************************************************************)
EXTENDS Naturals

CONSTANTS
    MaxRequests, \* bound: requests made, redirections included
    Parts,       \* pieces a page arrives in
    Overlap      \* TRUE if a request may be made before the last reply finishes

ASSUME LoaderAssumption ==
    /\ MaxRequests \in Nat \ {0} /\ Parts \in Nat \ {0} /\ Overlap \in BOOLEAN

Reply == 1..MaxRequests

\* LoadNetworkObjectPrivate
VARIABLES
    last,       \* m_ptrReply, 0 before the first request
    buffer,     \* m_stNetObjectByteArray: which parts of which reply it holds
    timer,      \* is m_stTimer active
    signal      \* what is being emitted to the client

\* the network's replies
VARIABLES
    stage,      \* "none", "sent", "open" (headers are here), "broken", "finished"
    status,     \* HttpStatusCodeAttribute, by its class
    arrived,    \* the number of parts that have arrived
    deleted     \* replies disconnected and given to deleteLater

\* history
VARIABLES
    ub,         \* a deleted reply has been used
    late,       \* replies not finished when the next request was made
    told        \* requests whose client was told of a page or of a failure

loaderVars == <<last, buffer, timer, signal>>
replyVars  == <<stage, status, arrived, deleted>>
netVars    == <<last, buffer, timer, signal, stage, status, arrived, deleted,
                ub, late, told>>

-----------------------------------------------------------------------------

Quiet        == [kind |-> "none"]
Finished     == [kind |-> "finished"]        \* with the content of buffer
Failed(why)  == [kind |-> "failed", reason |-> why]
TIMEOUT_INFO == "Timeout"
ERROR_INFO_Own == "Error"
ERROR_INFO == "Timeout"
Signal == {Quiet, Finished} \cup {Failed(why) : why \in {"", TIMEOUT_INFO}}

\* onPageLoadingError of the plugin drops a failure without a reason
Telling == {Finished, Failed(TIMEOUT_INFO)}

WholePage(r) == {r} \X (1..Parts)
Loading(r)  == stage[r] \in {"sent", "open"} /\ r \notin deleted
\* finished() is still to come
Unfinished(r) == stage[r] \in {"sent", "open", "broken"} /\ r \notin deleted

\* the event loop is free
Idle == signal = Quiet /\ ~ub /\ \A r \in Reply : stage[r] # "broken"

LoaderInit ==
    /\ last = 0 /\ buffer = {} /\ timer = FALSE /\ signal = Quiet
    /\ stage = [r \in Reply |-> "none"]
    /\ status = [r \in Reply |-> "none"]
    /\ arrived = [r \in Reply |-> 0]
    /\ deleted = {}
    /\ ub = FALSE /\ late = {} /\ told = {}

\* emit sig: the last request is the one the client takes it for
Emit(sig) ==
    /\ signal' = sig
    /\ told' = IF sig \in Telling THEN told \cup {last} ELSE told

-----------------------------------------------------------------------------

\* beforeLoadingCleanup
BufferAfterCleanupKept == buffer
BufferAfterCleanup == {}

\* the timer after start(ciSinglePageLoadTime)
TimerNotStarted == timer
TimerStarted == TRUE

\* loadNetworkObject, the stages of the earlier replies being st
Request(st) ==
    /\ last < MaxRequests
    /\ last' = last + 1
    /\ stage' = [st EXCEPT ![last + 1] = "sent"]
    /\ buffer' = BufferAfterCleanup
    /\ timer' = TimerStarted

\* a call of the client, from the event loop or from its slot for a page; its
\* slot for a failure makes no request
Load ==
    /\ Idle \/ (signal = Finished /\ ~ub)
    /\ Overlap \/ \A r \in Reply : ~Unfinished(r)
    /\ Request(stage)
    /\ late' = late \cup {r \in Reply : Unfinished(r)}
    /\ signal' = Quiet
    /\ UNCHANGED <<status, arrived, deleted, ub, told>>

\* the client's slot returns
SlotReturns ==
    /\ signal # Quiet
    /\ signal' = Quiet
    /\ UNCHANGED <<last, buffer, timer, replyVars, ub, late, told>>

-----------------------------------------------------------------------------
(***************************************************************************)
(* The replies and the slots they are connected to.                        *)
(***************************************************************************)
\* the headers arrive, metaDataChanged() and onMetaDataChanged, which asks the
\* last reply for its length, whichever reply has headers; a code of the 4xx or
\* 5xx class becomes an error
HeadersArrive(r, code) ==
    /\ Idle /\ r \notin deleted /\ stage[r] = "sent"
    /\ code = "3xx" => r < MaxRequests
    /\ stage' = [stage EXCEPT ![r] = "open"]
    /\ status' = [status EXCEPT ![r] = code]
    /\ ub' = (last \in deleted)
    /\ UNCHANGED <<loaderVars, arrived, deleted, late, told>>

\* m_stNetObjectByteArray after append(m_ptrReply->readAll())
BufferAfterReadReplaced == {last} \X ({arrived'[last]} \ {0})
BufferAfterRead == buffer \cup ({last} \X (1..arrived'[last]))

\* readyRead() and onHttpReadyRead
ReadyRead(r) ==
    /\ Idle /\ r \notin deleted /\ stage[r] = "open" /\ arrived[r] < Parts
    /\ arrived' = [arrived EXCEPT ![r] = @ + 1]
    /\ ub' = (last \in deleted)
    /\ buffer' = IF ub' THEN buffer ELSE BufferAfterRead
    /\ UNCHANGED <<last, timer, signal, stage, status, deleted, late, told>>

\* error() and onHttpErrorReply
HttpErrorReply(r) ==
    /\ Idle /\ Loading(r)
    /\ stage' = [stage EXCEPT ![r] = "broken"]
    /\ Emit(Failed(ERROR_INFO))
    /\ UNCHANGED <<last, buffer, timer, status, arrived, deleted, ub, late>>

\* r is complete, or has just emitted error()
Finishes(r) ==
    /\ signal = Quiet /\ ~ub /\ r \notin deleted
    /\ \/ stage[r] = "broken"
       \/ /\ Idle /\ stage[r] = "open"
          /\ status[r] = "3xx" \/ (status[r] = "2xx" /\ arrived[r] = Parts)

\* what the handler makes of m_ptrReply
IsSuccess     == stage[last] # "broken" /\ status[last] = "2xx"
IsRedirection == stage[last] # "broken" /\ status[last] = "3xx"

\* finished() and onNetObjectDownloadFinished: the reply released and looked
\* at is the last one
DownloadFinished(r) ==
    LET done == [stage EXCEPT ![r] = "finished"]
    IN  /\ Finishes(r)
        /\ UNCHANGED <<status, arrived>>
        /\ \/ /\ last \in deleted
              /\ ub' = TRUE /\ stage' = done
              /\ UNCHANGED <<loaderVars, deleted, late, told>>
           \/ /\ last \notin deleted
              /\ deleted' = deleted \cup {last}
              /\ ub' = ub
              /\ IF IsRedirection
                 THEN /\ Request(done)
                      /\ late' = late \cup {q \in Reply \ {r, last} : Unfinished(q)}
                      /\ UNCHANGED <<signal, told>>
                 ELSE /\ stage' = done
                      /\ timer' = FALSE
                      /\ Emit(IF IsSuccess THEN Finished ELSE Failed(""))
                      /\ UNCHANGED <<last, buffer, late>>

\* what the timer tells the client
TimeoutSignalLost == Quiet
TimeoutSignal == Failed(TIMEOUT_INFO)

\* onNetObjectLoadingTimeout: the timer is single shot, the reply goes on
LoadingTimeout ==
    /\ Idle /\ timer
    /\ timer' = FALSE
    /\ Emit(TimeoutSignal)
    /\ UNCHANGED <<last, buffer, replyVars, ub, late>>

NetNext ==
    \/ LoadingTimeout
    \/ \E r \in Reply :
          \/ \E code \in {"2xx", "3xx", "4xx"} : HeadersArrive(r, code)
          \/ ReadyRead(r) \/ HttpErrorReply(r) \/ DownloadFinished(r)

LoaderNext == NetNext \/ Load \/ SlotReturns

LoaderSpec == LoaderInit /\ [][LoaderNext]_netVars

\* the timer fires unless it is stopped, and slots return; the network may be
\* silent for ever
LoaderFairness ==
    /\ WF_netVars(LoadingTimeout)
    /\ WF_netVars(SlotReturns)
    /\ WF_netVars(\E r \in Reply : stage[r] = "broken" /\ DownloadFinished(r))

LoaderFairSpec == LoaderSpec /\ LoaderFairness

-----------------------------------------------------------------------------
(***************************************************************************)
(* Properties.                                                             *)
(***************************************************************************)
\* The types of the variables.
LoaderTypeOK ==
    /\ last \in 0..MaxRequests
    /\ buffer \subseteq Reply \X (1..Parts)
    /\ timer \in BOOLEAN
    /\ signal \in Signal
    /\ stage \in [Reply -> {"none", "sent", "open", "broken", "finished"}]
    /\ status \in [Reply -> {"none", "2xx", "3xx", "4xx"}]
    /\ arrived \in [Reply -> 0..Parts]
    /\ deleted \subseteq Reply
    /\ ub \in BOOLEAN
    /\ late \subseteq Reply /\ told \subseteq Reply

\* The buffer never holds bytes of two pages: although the slots of every old
\* reply stay connected and append to the one byte array, what they append is
\* read from the last reply, and the array is cleared before a request.
NoMixedPages == buffer \subseteq {last} \X (1..Parts)

\* A page handed to the client is cut short, and a released reply is used, only
\* when the reply to an earlier request had not finished when the next was
\* made: its headers, its bytes and its end, which all go to m_ptrReply, are the
\* only ones that find the last reply released or not yet whole.  As long as a
\* request waits for the end of the one before it, the loader is sound.
OnlyLateRepliesHarm ==
    (ub \/ (signal = Finished /\ buffer # WholePage(last))) => late # {}

\* A request the client has heard nothing of is under its time limit, through
\* redirections and errors, unless an earlier reply had not finished.
WatchedRequest ==
    (Idle /\ last # 0 /\ last \notin told /\ late = {}) => timer

\* The inductive invariant of the proofs: what the buffer holds at any time,
\* and, until a reply comes late, that m_ptrReply is the only reply that can
\* emit anything, that it is whole when it is handed over, and that a request
\* the client has heard nothing of has its timer running.
Fresh == \A r \in Reply : r > last => stage[r] = "none" /\ arrived[r] = 0
BufferIsRead ==
    IF last = 0 THEN buffer = {} /\ ~timer /\ signal = Quiet
    ELSE buffer = {last} \X (1..arrived[last])
BrokenIsTold == last # 0 /\ stage[last] = "broken" => last \in told
OnlyLastUnfinished ==
    late = {} => ~ub /\ \A r \in Reply : Unfinished(r) => r = last
HandedOverWhole == late = {} /\ signal = Finished => arrived[last] = Parts
UntoldIsTimed == late = {} /\ last # 0 /\ last \notin told => timer
LoaderIInv ==
    /\ LoaderTypeOK
    /\ Fresh /\ BufferIsRead /\ BrokenIsTold
    /\ OnlyLastUnfinished /\ HandedOverWhole /\ UntoldIsTimed

\* The time limit is effective: an armed timer leads to a signal to the
\* client, to the next request, or to a reply that broke the loader.
TimerReports ==
    \A n \in Reply : (timer /\ last = n) ~> (signal # Quiet \/ last # n \/ ub)
=============================================================================
