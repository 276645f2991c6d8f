------------------------------ MODULE XdsClient ------------------------------
(***************************************************************************)
(* The xdsClient of core/manager/client.go: the watch list, the version    *)
(* and nonce of each type, the request queue, the sender and the receiver  *)
(* goroutines, reconnection and the warmup of newXdsClient.                *)
(*                                                                         *)
(* The cache behind UpdateResource is ResourceManager's; here it is the    *)
(* version last applied.  The control plane and the gRPC stream (Push,     *)
(* Break, what Send does to a stream) are external: a stream is FIFO until *)
(* it breaks, then what is sent on it is lost.                             *)
(***************************************************************************)
EXTENDS Naturals, Sequences, FiniteSets

CONSTANTS
    Type,         \* the resource types in use
    Name,         \* resource names
    AnyName,      \* the name of the warmup requests: "" and virtualInbound
    NDSRequired,  \* ndsRequired()
    LDSRequired,  \* ldsRequired()
    MayStop,      \* whether the client may stop for good: no first connection,
                  \* credentials refused, or closed by the manager
    ReqChCap,     \* capacity of reqCh, 1024 in the code
    MaxVersion,   \* versions the server uses
    MaxStream,    \* bound: streams opened; the last one does not break
    MaxPush,      \* bound: responses per stream
    MaxPushes,    \* bound: responses in all
    MaxWatch,     \* bound: calls of Watch by the resource manager
    None

ASSUME ConstantsAssumption ==
    /\ Type \subseteq {"Listener", "RouteConfig", "Cluster",
                       "ClusterLoadAssignment", "NameTable"}
    /\ NDSRequired => "NameTable" \in Type
    /\ LDSRequired => "Listener" \in Type
    /\ NDSRequired \in BOOLEAN /\ LDSRequired \in BOOLEAN /\ MayStop \in BOOLEAN
    /\ ReqChCap \in Nat \ {0}
    /\ MaxVersion \in Nat /\ MaxStream \in Nat \ {0}
    /\ MaxPush \in Nat /\ MaxWatch \in Nat

VARIABLES
    mu,               \* who holds c.mu across steps: "watch", "recv", "send" or None
    watchedResource,  \* c.watchedResource[t], {} while the entry is missing
    watchedType,      \* the types with an entry in c.watchedResource
    versionMap,       \* c.versionMap, 0 for ""
    nonceMap,         \* c.nonceMap, NoNonce for ""
    reqCh,            \* c.reqCh
    streamCh,         \* the stream in c.streamCh, which holds one; 0 if empty
    closeCh,          \* c.closeCh is closed
    out,              \* the request the holder of c.mu is putting into reqCh
    sendPc, sendStream, toResend,  \* sender: where, currStream, types to resend
    recvPc, recvStream, resp,      \* receiver: where, its newest stream, response
    warmPc,           \* where newXdsClient's warmup is
    watches,          \* calls of Watch by the manager so far
    applied,          \* version last handed to UpdateResource / updateLookupTable
    broken,           \* external: streams that failed
    sub,              \* external: last request the server got, per stream and type
    down,             \* external: responses on the way, per stream
    issued            \* external: nonces issued, per stream

lockVars   == <<mu, out>>
mapVars    == <<watchedResource, watchedType, versionMap, nonceMap>>
senderVars == <<sendPc, sendStream, toResend>>
recvVars   == <<recvPc, recvStream, resp>>
warmVars   == <<warmPc, watches>>
netVars    == <<broken, sub, down, issued>>
vars == <<lockVars, mapVars, reqCh, streamCh, closeCh, senderVars, recvVars,
          warmVars, applied, netVars>>

Stream == 1..MaxStream

\* A nonce names the stream it was issued on; the first component is 0 for "".
Nonce == (0..MaxStream) \X (0..MaxPush)

NoNonce == <<0, 0>>

Request == [type : Type, version : 0..MaxVersion, nonce : Nonce,
            names : SUBSET (Name \cup {AnyName}), nack : BOOLEAN]

\* good: the resources unmarshal without error.
Response == [type : Type, version : 1..MaxVersion, nonce : Nonce, good : BOOLEAN]

ASSUME NoneAssumption ==
    None \notin Request \cup Response \cup {"watch", "recv", "send"}

\* The type invariant; reqCh holds at most what its buffer has room for.
TypeOK ==
    /\ mu \in {"watch", "recv", "send", None}
    /\ watchedResource \in [Type -> SUBSET (Name \cup {AnyName})]
    /\ watchedType \in SUBSET Type
    /\ versionMap \in [Type -> 0..MaxVersion]
    /\ nonceMap \in [Type -> Nonce]
    /\ reqCh \in Seq(Request)
    /\ Len(reqCh) <= ReqChCap
    /\ streamCh \in 0..MaxStream
    /\ closeCh \in BOOLEAN
    /\ out \in Request \cup {None}
    /\ sendPc \in {"select", "lock", "resend", "stopped"}
    /\ sendStream \in 0..MaxStream
    /\ toResend \in SUBSET Type
    /\ recvPc \in {"recv", "handle", "sending", "filter", "apply", "reset", "publish", "stopped"}
    /\ recvStream \in Stream
    /\ resp \in Response \cup {None}
    /\ warmPc \in {"nds", "ndsWait", "lds", "ldsWait", "done"}
    /\ watches \in 0..MaxWatch
    /\ applied \in [Type -> 0..MaxVersion]
    /\ broken \in SUBSET Stream
    /\ sub \in [Stream -> [Type -> Request \cup {None}]]
    /\ down \in [Stream -> Seq(Response)]
    /\ issued \in [Stream -> 0..MaxPush]

\* run(): connected, with sender and receiver started on the first stream; or
\* the error of connect is logged and nothing is started.
Init ==
    /\ \/ sendPc = "select" /\ sendStream = 1 /\ recvPc = "recv" /\ warmPc = "nds"
       \/ MayStop /\ sendPc = "stopped" /\ sendStream = 0 /\ recvPc = "stopped"
          /\ warmPc = "done"
    /\ mu = None
    /\ watchedResource = [t \in Type |-> {}]
    /\ watchedType = {}
    /\ versionMap = [t \in Type |-> 0]
    /\ nonceMap = [t \in Type |-> NoNonce]
    /\ reqCh = <<>>
    /\ streamCh = 0
    /\ closeCh = FALSE
    /\ out = None
    /\ toResend = {}
    /\ recvStream = 1
    /\ resp = None
    /\ watches = 0
    /\ applied = [t \in Type |-> 0]
    /\ broken = {}
    /\ sub = [s \in Stream |-> [t \in Type |-> None]]
    /\ down = [s \in Stream |-> <<>>]
    /\ issued = [s \in Stream |-> 0]

-----------------------------------------------------------------------------
(* Requests *)

\* prepareRequest over the maps as they are after the step.
prepareRequest(t, nack) ==
    [type |-> t, version |-> versionMap'[t], nonce |-> nonceMap'[t],
     names |-> watchedResource'[t], nack |-> nack]

sendRequest_Unbounded(holder) ==
    /\ mu = holder
    /\ reqCh' = Append(reqCh, out)
    /\ out' = None
    /\ mu' = None

\* sendRequest: blocks, with c.mu held, while reqCh is full.
sendRequest(holder) ==
    /\ mu = holder
    /\ Len(reqCh) < ReqChCap
    /\ reqCh' = Append(reqCh, out)
    /\ out' = None
    /\ mu' = None

WatchLock_Blank(t, n, remove) ==
    /\ mu = None
    /\ mu' = "watch"
    /\ watchedType' = watchedType \cup {t}
    /\ watchedResource' = [watchedResource EXCEPT ![t] =
                              IF remove THEN @ \ {n} ELSE @ \cup {n}]
    /\ UNCHANGED <<versionMap, nonceMap>>
    /\ out' = [prepareRequest(t, FALSE) EXCEPT !.nonce = NoNonce]

\* Watch up to its request, which WatchSend puts into the queue.
WatchLock(t, n, remove) ==
    /\ mu = None
    /\ mu' = "watch"
    /\ watchedType' = watchedType \cup {t}
    /\ watchedResource' = [watchedResource EXCEPT ![t] =
                              IF remove THEN @ \ {n} ELSE @ \cup {n}]
    /\ UNCHANGED <<versionMap, nonceMap>>
    /\ out' = prepareRequest(t, FALSE)

WatchSend ==
    /\ sendRequest("watch")
    /\ UNCHANGED <<mapVars, streamCh, closeCh, senderVars, recvVars, warmVars,
                   applied, netVars>>

\* Watch as called by Get and by the cleaner, one at a time under m.mu and
\* only once newXdsClient has returned.
ManagerWatch(t, n, remove) ==
    /\ warmPc = "done"
    /\ WatchLock(t, n, remove)
    /\ UNCHANGED <<reqCh, streamCh, closeCh, senderVars, recvVars, warmPc,
                   applied, netVars>>

-----------------------------------------------------------------------------
(* warmup *)

\* ndsWarmup and listenerWarmup: watch ...
WarmupWatch(here, required, t, wait) ==
    /\ warmPc = here
    /\ required
    /\ WatchLock(t, AnyName, FALSE)
    /\ warmPc' = wait
    /\ UNCHANGED <<reqCh, streamCh, closeCh, senderVars, recvVars, watches,
                   applied, netVars>>

WarmupGoOn_NoWait(here, wait, required, t, next) ==
    /\ \/ warmPc = here /\ ~required
       \/ warmPc = wait /\ mu # "watch"
    /\ warmPc' = next
    /\ UNCHANGED <<lockVars, mapVars, reqCh, streamCh, closeCh, senderVars,
                   recvVars, watches, applied, netVars>>

\* ... and wait for the channel that the first good response closes.  A type
\* that is not required is skipped.
WarmupGoOn(here, wait, required, t, next) ==
    /\ \/ warmPc = here /\ ~required
       \/ warmPc = wait /\ mu # "watch" /\ applied[t] # 0
    /\ warmPc' = next
    /\ UNCHANGED <<lockVars, mapVars, reqCh, streamCh, closeCh, senderVars,
                   recvVars, watches, applied, netVars>>

warmup ==
    \/ WarmupWatch("nds", NDSRequired, "NameTable", "ndsWait")
    \/ WarmupGoOn("nds", "ndsWait", NDSRequired, "NameTable", "lds")
    \/ WarmupWatch("lds", LDSRequired, "Listener", "ldsWait")
    \/ WarmupGoOn("lds", "ldsWait", LDSRequired, "Listener", "done")

-----------------------------------------------------------------------------
(* sender *)

\* as.Send(req) without error: the server gets it, unless the stream is broken
\* and the error has yet to show.
SendOK(req) ==
    sub' = IF sendStream \in broken THEN sub
           ELSE [sub EXCEPT ![sendStream][req.type] = req]

\* as.Send(req) with an error.
SendFails == sendStream \in broken /\ sub' = sub

SenderStop ==
    /\ sendPc = "select"
    /\ closeCh
    /\ sendPc' = "stopped"
    /\ UNCHANGED <<lockVars, mapVars, reqCh, streamCh, closeCh, sendStream,
                   toResend, recvVars, warmVars, applied, netVars>>

\* case req := <-c.reqCh; with no stream the request is dropped.
TakeRequest ==
    /\ sendPc = "select"
    /\ reqCh # <<>>
    /\ reqCh' = Tail(reqCh)
    /\ \/ sendStream = 0 /\ UNCHANGED <<sendStream, sub>>
       \/ sendStream # 0 /\ SendOK(Head(reqCh)) /\ UNCHANGED sendStream
       \/ sendStream # 0 /\ SendFails /\ sendStream' = 0
    /\ UNCHANGED <<lockVars, mapVars, streamCh, closeCh, sendPc, toResend,
                   recvVars, warmVars, applied, broken, down, issued>>

TakeStream_Again ==
    /\ sendPc = "select"
    /\ streamCh # 0
    /\ sendStream' = streamCh
    /\ sendPc' = "lock"
    /\ UNCHANGED <<lockVars, mapVars, reqCh, streamCh, closeCh, toResend, recvVars,
                   warmVars, applied, netVars>>

\* case s := <-c.streamCh
TakeStream ==
    /\ sendPc = "select"
    /\ streamCh # 0
    /\ sendStream' = streamCh
    /\ streamCh' = 0
    /\ sendPc' = "lock"
    /\ UNCHANGED <<lockVars, mapVars, reqCh, closeCh, toResend, recvVars,
                   warmVars, applied, netVars>>

ResendLock_Nothing ==
    /\ sendPc = "lock"
    /\ mu = None
    /\ mu' = "send"
    /\ sendPc' = "resend"
    /\ UNCHANGED <<out, mapVars, reqCh, streamCh, closeCh, sendStream, toResend,
                   recvVars, warmVars, applied, netVars>>

\* reqWhenReconnect: c.mu is held from here to ResendDone or an error.
ResendLock ==
    /\ sendPc = "lock"
    /\ mu = None
    /\ mu' = "send"
    /\ toResend' = watchedType
    /\ sendPc' = "resend"
    /\ UNCHANGED <<out, mapVars, reqCh, streamCh, closeCh, sendStream, recvVars,
                   warmVars, applied, netVars>>

Resend(t) ==
    /\ sendPc = "resend"
    /\ t \in toResend
    /\ UNCHANGED mapVars
    /\ \/ /\ SendOK(prepareRequest(t, FALSE))
          /\ toResend' = toResend \ {t}
          /\ UNCHANGED <<mu, sendPc, sendStream>>
       \/ /\ SendFails
          /\ toResend' = {}
          /\ sendStream' = 0
          /\ sendPc' = "select"
          /\ mu' = None
    /\ UNCHANGED <<out, reqCh, streamCh, closeCh, recvVars, warmVars, applied,
                   broken, down, issued>>

ResendDone ==
    /\ sendPc = "resend"
    /\ toResend = {}
    /\ sendPc' = "select"
    /\ mu' = None
    /\ UNCHANGED <<out, mapVars, reqCh, streamCh, closeCh, sendStream, toResend,
                   recvVars, warmVars, applied, netVars>>

-----------------------------------------------------------------------------
(* receiver *)

\* The top of the receiver's loop, which looks at closeCh before each Recv.
NextRound == IF closeCh THEN "stopped" ELSE "recv"

\* Recv returns a response.  handleResponse drops one of a type that is not
\* watched, without an answer.
Recv ==
    /\ recvPc = "recv"
    /\ down[recvStream] # <<>>
    /\ down' = [down EXCEPT ![recvStream] = Tail(@)]
    /\ mu = None
    /\ LET r == Head(down[recvStream])
       IN  \/ /\ r.type \in watchedType
              /\ resp' = r
              /\ recvPc' = "handle"
           \/ /\ r.type \notin watchedType
              /\ recvPc' = NextRound
              /\ UNCHANGED resp
    /\ UNCHANGED <<lockVars, mapVars, reqCh, streamCh, closeCh, senderVars,
                   recvStream, warmVars, applied, broken, sub, issued>>

updateAndACK_AnyVersion ==
    /\ recvPc = "handle"
    /\ mu = None
    /\ mu' = "recv"
    /\ versionMap' = [versionMap EXCEPT ![resp.type] = resp.version]
    /\ nonceMap' = [nonceMap EXCEPT ![resp.type] = resp.nonce]
    /\ UNCHANGED <<watchedResource, watchedType>>
    /\ out' = prepareRequest(resp.type, ~resp.good)
    /\ recvPc' = "sending"
    /\ UNCHANGED <<reqCh, streamCh, closeCh, senderVars, recvStream, resp,
                   warmVars, applied, netVars>>

\* updateAndACK up to its request, which AckSend puts into the queue.
updateAndACK ==
    /\ recvPc = "handle"
    /\ mu = None
    /\ mu' = "recv"
    /\ versionMap' = [versionMap EXCEPT ![resp.type] =
                         IF resp.good THEN resp.version ELSE @]
    /\ nonceMap' = [nonceMap EXCEPT ![resp.type] = resp.nonce]
    /\ UNCHANGED <<watchedResource, watchedType>>
    /\ out' = prepareRequest(resp.type, ~resp.good)
    /\ recvPc' = "sending"
    /\ UNCHANGED <<reqCh, streamCh, closeCh, senderVars, recvStream, resp,
                   warmVars, applied, netVars>>

\* The response is answered; the handler returns if it did not unmarshal.
AckSend ==
    /\ sendRequest("recv")
    /\ recvPc' = IF ~resp.good THEN NextRound
                 ELSE IF resp.type = "NameTable" THEN "apply" ELSE "filter"
    /\ resp' = IF resp.good THEN resp ELSE None
    /\ UNCHANGED <<mapVars, streamCh, closeCh, senderVars, recvStream, warmVars,
                   applied, netVars>>

\* The filter of handleLDS, handleRDS, handleCDS and handleEDS, under c.mu.
FilterResponse ==
    /\ recvPc = "filter"
    /\ mu = None
    /\ recvPc' = "apply"
    /\ UNCHANGED <<lockVars, mapVars, reqCh, streamCh, closeCh, senderVars,
                   recvStream, resp, warmVars, applied, netVars>>

\* The rest of the handler: UpdateResource (or updateLookupTable), and the close
\* of the warmup channel, which WarmupGoOn reads off applied.
Apply ==
    /\ recvPc = "apply"
    /\ applied' = [applied EXCEPT ![resp.type] = resp.version]
    /\ recvPc' = NextRound
    /\ resp' = None
    /\ UNCHANGED <<lockVars, mapVars, reqCh, streamCh, closeCh, senderVars,
                   recvStream, warmVars, netVars>>

\* Recv fails with an authentication error: close().
AuthError ==
    /\ MayStop
    /\ recvPc = "recv"
    /\ recvStream \in broken
    /\ closeCh' = TRUE
    /\ recvPc' = "stopped"
    /\ UNCHANGED <<lockVars, mapVars, reqCh, streamCh, senderVars, recvStream,
                   resp, warmVars, applied, netVars>>

\* Recv fails otherwise; connect succeeds after the backoff.  (When it does not,
\* the receiver comes back to the failed stream: a stuttering step.)
Reconnect ==
    /\ recvPc = "recv"
    /\ recvStream \in broken
    /\ recvStream' = recvStream + 1
    /\ recvPc' = "reset"
    /\ down' = [down EXCEPT ![recvStream] = <<>>]
    /\ UNCHANGED <<lockVars, mapVars, reqCh, streamCh, closeCh, senderVars, resp,
                   warmVars, applied, broken, sub, issued>>

ResetMaps_KeepNonce ==
    /\ recvPc = "reset"
    /\ mu = None
    /\ reqCh' = <<>>
    /\ recvPc' = "publish"
    /\ UNCHANGED <<lockVars, mapVars, streamCh, closeCh, senderVars, recvStream,
                   resp, warmVars, applied, netVars>>

\* The critical section of reconnect: new nonce map, clearRequestCh.
ResetMaps ==
    /\ recvPc = "reset"
    /\ mu = None
    /\ nonceMap' = [t \in Type |-> NoNonce]
    /\ reqCh' = <<>>
    /\ recvPc' = "publish"
    /\ UNCHANGED <<lockVars, watchedResource, watchedType, versionMap, streamCh,
                   closeCh, senderVars, recvStream, resp, warmVars, applied, netVars>>

\* c.streamCh <- as: blocks while the sender has not taken the stream before.
PublishStream ==
    /\ recvPc = "publish"
    /\ streamCh = 0
    /\ streamCh' = recvStream
    /\ recvPc' = NextRound
    /\ UNCHANGED <<lockVars, mapVars, reqCh, closeCh, senderVars, recvStream, resp,
                   warmVars, applied, netVars>>

-----------------------------------------------------------------------------
(* The manager's Close, and the environment *)

\* xdsResourceManager.Close calls close().
Close ==
    /\ MayStop
    /\ warmPc = "done"
    /\ ~closeCh
    /\ closeCh' = TRUE
    /\ UNCHANGED <<lockVars, mapVars, reqCh, streamCh, senderVars, recvVars,
                   warmVars, applied, netVars>>

\* External: the server pushes a response of any type on a stream on which it
\* has got a request.
Push(t, v, good) ==
    /\ recvStream \notin broken
    /\ \E u \in Type : sub[recvStream][u] # None
    /\ issued[recvStream] < MaxPush
    /\ Cardinality(UNION {{s} \X (1..issued[s]) : s \in Stream}) < MaxPushes
    /\ issued' = [issued EXCEPT ![recvStream] = @ + 1]
    /\ down' = [down EXCEPT ![recvStream] = Append(@,
                   [type |-> t, version |-> v, good |-> good,
                    nonce |-> <<recvStream, issued[recvStream] + 1>>])]
    /\ UNCHANGED <<lockVars, mapVars, reqCh, streamCh, closeCh, senderVars,
                   recvVars, warmVars, applied, broken, sub>>

\* External: the stream fails.
Break ==
    /\ recvStream \notin broken
    /\ recvStream < MaxStream
    /\ broken' = broken \cup {recvStream}
    /\ UNCHANGED <<lockVars, mapVars, reqCh, streamCh, closeCh, senderVars,
                   recvVars, warmVars, applied, sub, down, issued>>

Sender == SenderStop \/ TakeRequest \/ TakeStream \/ ResendLock
          \/ (\E t \in Type : Resend(t)) \/ ResendDone

Receiver == Recv \/ updateAndACK \/ AckSend \/ FilterResponse \/ Apply
            \/ AuthError \/ Reconnect \/ ResetMaps \/ PublishStream

Next ==
    \/ \E t \in Type \ {"NameTable"}, n \in Name, remove \in BOOLEAN :
          /\ watches < MaxWatch
          /\ watches' = watches + 1
          /\ ManagerWatch(t, n, remove)
    \/ WatchSend
    \/ warmup
    \/ Sender
    \/ Receiver
    \/ Close
    \/ \E t \in Type, v \in 1..MaxVersion, good \in BOOLEAN : Push(t, v, good)
    \/ Break

Spec == Init /\ [][Next]_vars

\* Goroutines that can run do run, and a waiter gets c.mu (Go's mutexes do not
\* starve).  A failed stream is noticed and, after the backoff, replaced.
\* Nothing is assumed of the server, of Watch callers, or of failures.
Fairness ==
    /\ WF_vars(WatchSend)
    /\ WF_vars(TakeRequest)
    /\ SF_vars(TakeStream)
    /\ SF_vars(ResendLock)
    /\ WF_vars(\E t \in Type : Resend(t))
    /\ WF_vars(ResendDone)
    /\ SF_vars(Recv)
    /\ SF_vars(updateAndACK)
    /\ WF_vars(AckSend)
    /\ SF_vars(FilterResponse)
    /\ WF_vars(Apply)
    /\ SF_vars(Reconnect)
    /\ SF_vars(ResetMaps)
    /\ WF_vars(PublishStream)

FairSpec == Spec /\ Fairness

-----------------------------------------------------------------------------
(* Correctness *)

\* The sender and the receiver are on the same stream, which works.
Connected ==
    /\ sendStream = recvStream
    /\ recvStream \notin broken

\* A request never carries a nonce of another stream: the server reads it as
\* the answer to a response it did not send.  reconnect resets the nonces and
\* drops the queued requests, in one critical section, before the sender can
\* see the new stream.
NonceOfStream ==
    \A s \in Stream, t \in Type :
        sub[s][t] # None =>
            \/ sub[s][t].nonce = NoNonce
            \/ sub[s][t].nonce[1] = s /\ sub[s][t].nonce[2] <= issued[s]

\* On one stream, the answers the server gets for a type never go back to an
\* older nonce, though reqWhenReconnect bypasses the queue.
NonceAdvances ==
    \A s \in Stream, t \in Type :
        sub[s][t] # None => sub'[s][t] # None /\ sub'[s][t].nonce[2] >= sub[s][t].nonce[2]

NoncesAdvance == [][NonceAdvances]_vars

\* The request for t the server will hold once the queue is drained, as a set of
\* one: the last in the queue, or the one it has (None if it has none).
Latest(t) ==
    LET queued == {i \in 1..Len(reqCh) : reqCh[i].type = t}
    IN  IF queued = {} THEN {sub[recvStream][t]}
        ELSE {reqCh[i] : i \in {j \in queued : \A m \in queued : m <= j}}

\* No subscription is lost: while the client is connected and the sender is not
\* about to resend, the last request of every watched type, in the queue or at
\* the server, lists exactly the watched names.  Reconnecting, which clears the
\* queue, may race with any Watch.
SubscriptionCurrent ==
    Connected /\ sendPc \in {"select", "stopped"} /\ mu = None =>
        \A t \in watchedType : \A r \in Latest(t) :
            r # None /\ r.names = watchedResource[t]

\* What the client acknowledged is what it applied: between two responses the
\* version in versionMap, which every request of the type carries, is the one
\* UpdateResource got last, also after a NACK.  reconnect keeps it.
AckedIsApplied ==
    recvPc \in {"recv", "reset", "publish", "stopped"} => versionMap = applied

\* With NDS required the server is asked for no listener before the first name
\* table has been applied: handleLDS resolves listener names with it.
ListenerAfterNameTable ==
    NDSRequired /\ "Listener" \in Type => \A s \in Stream :
        sub[s]["Listener"] # None => applied["NameTable"] # 0

\* The sender is never handed a stream older than its own, nor one the receiver
\* has yet to open, though the receiver may run ahead by several reconnections.
StreamsInOrder ==
    /\ sendStream <= recvStream
    /\ streamCh # 0 => sendStream < streamCh /\ streamCh <= recvStream

\* The holder of c.mu waits for room in the full queue, which only the sender
\* drains, and the sender waits for c.mu to resend: for good.
QueueCircle ==
    /\ mu \in {"watch", "recv"}
    /\ Len(reqCh) = ReqChCap
    /\ sendPc = "lock"

\* Every subscription reaches the server: when the calls of Watch and the
\* failures of streams stop, the server ends up with exactly the watched names
\* on the stream in use, unless the client has stopped or is in QueueCircle.
SubscriptionsArrive ==
    <>[](\/ closeCh \/ recvPc = "stopped" \/ QueueCircle
         \/ \A t \in watchedType : /\ sub[recvStream][t] # None
                                   /\ sub[recvStream][t].names = watchedResource[t])

(* What the comment of Watch says and does not hold: see README. *)

\* "Watch adds a resource to the watch map and send a discovery request": it
\* ends by queueing the request.
WatchEnds == mu = "watch" ~> mu # "watch"
=============================================================================
