--------------------------- MODULE XdsClientProofs ---------------------------
(***************************************************************************)
(* Proofs of the safety of XdsClient, for any types, names, queue size,    *)
(* number of streams and of responses: types, streams, nonces, ACKs, the   *)
(* order of the warmup, that no subscription is lost, and that the answers *)
(* on a stream never go back.                                              *)
(***************************************************************************)
EXTENDS XdsClient, TLAPS

-----------------------------------------------------------------------------
(* Type correctness *)

\* A step of the client on its own, or of the client below the resource manager
\* of System, which also watches the reserved listener, and counts the calls of
\* Get where Next counts those of Watch.
Step ==
    \/ Next
    \/ \E t \in Type \ {"NameTable"}, n \in Name \cup {AnyName}, remove \in BOOLEAN :
          ManagerWatch(t, n, remove) /\ watches' \in 0..MaxWatch
    \/ /\ watches' \in 0..MaxWatch
       /\ UNCHANGED <<lockVars, mapVars, reqCh, streamCh, closeCh, senderVars, recvVars,
                      warmPc, applied, netVars>>

\* What the locals of the goroutines say of each other: who holds c.mu has the
\* request it is putting into the queue, and a response is being handled
\* between Recv and the end of its handler.  The last stream does not break.
Locals ==
    /\ mu \in {"watch", "recv"} <=> out # None
    /\ mu = "recv" <=> recvPc = "sending"
    /\ mu = "send" <=> sendPc = "resend"
    /\ recvPc \in {"handle", "sending", "filter", "apply"} <=> resp # None
    /\ sendPc \in {"lock", "resend"} => sendStream # 0
    /\ MaxStream \notin broken

\* TypeOK is inductive together with Locals.
TypeInv == TypeOK /\ Locals

\* prepareRequest builds a request from well-typed maps.
LEMMA PrepareType ==
    ASSUME NEW t \in Type, NEW nack \in BOOLEAN,
           versionMap' \in [Type -> 0..MaxVersion],
           nonceMap' \in [Type -> Nonce],
           watchedResource' \in [Type -> SUBSET (Name \cup {AnyName})]
    PROVE  prepareRequest(t, nack) \in Request
BY Zenon DEF prepareRequest, Request

\* Send changes the server's view to a well-typed one.
LEMMA SendType ==
    ASSUME TypeOK, sendStream # 0, NEW req \in Request, SendOK(req)
    PROVE  sub' \in [Stream -> [Type -> Request \cup {None}]]
BY Zenon DEF TypeOK, SendOK, Stream, Request

\* What the server pushes is a response.
LEMMA PushType ==
    ASSUME TypeOK, NEW t \in Type, NEW v \in 1..MaxVersion, NEW good \in BOOLEAN,
           Push(t, v, good)
    PROVE  [type |-> t, version |-> v, good |-> good,
            nonce |-> <<recvStream, issued[recvStream] + 1>>] \in Response
<1>1. recvStream \in Stream /\ issued \in [Stream -> 0..MaxPush]
    BY Zenon DEF TypeOK
<1>2. issued[recvStream] < MaxPush
    BY Zenon DEF Push
<1>3. <<recvStream, issued[recvStream] + 1>> \in Nonce
    BY <1>1, <1>2, ConstantsAssumption DEF Stream, Nonce
<1> QED
    BY Zenon, <1>3 DEF Response

\* Every step of the client preserves TypeInv.
LEMMA TypeStep == TypeInv /\ [Step]_vars => TypeInv'
<1> SUFFICES ASSUME TypeInv, [Step]_vars PROVE TypeInv'
    OBVIOUS
<1> USE ConstantsAssumption
<1>1. ASSUME NEW t \in Type, NEW n \in Name \cup {AnyName}, NEW remove \in BOOLEAN,
             WatchLock(t, n, remove)
      PROVE  /\ watchedResource' \in [Type -> SUBSET (Name \cup {AnyName})]
             /\ watchedType' \in SUBSET Type
             /\ out' \in Request
             /\ UNCHANGED <<versionMap, nonceMap>>
    <2>1. watchedResource' \in [Type -> SUBSET (Name \cup {AnyName})]
        BY Zenon, <1>1 DEF TypeInv, TypeOK, WatchLock
    <2> QED
        BY Zenon, <1>1, <2>1, PrepareType DEF TypeInv, TypeOK, WatchLock
<1>2. ASSUME NEW t \in Type, NEW n \in Name \cup {AnyName}, NEW remove \in BOOLEAN,
             ManagerWatch(t, n, remove), watches' \in 0..MaxWatch
      PROVE  TypeInv'
    <2>1. WatchLock(t, n, remove) /\ mu = None /\ mu' = "watch"
        BY Zenon, <1>2 DEF ManagerWatch, WatchLock
    <2>2. /\ watchedResource' \in [Type -> SUBSET (Name \cup {AnyName})]
          /\ watchedType' \in SUBSET Type
          /\ out' \in Request
          /\ UNCHANGED <<versionMap, nonceMap>>
        BY Zenon, <1>1, <2>1
    <2>3. UNCHANGED <<reqCh, streamCh, closeCh, senderVars, recvVars, warmPc, applied, netVars>>
        BY Zenon, <1>2 DEF ManagerWatch
    <2>4. TypeOK'
        BY ZenonT(60), <1>2, <2>1, <2>2, <2>3 DEF TypeInv, TypeOK, senderVars, recvVars, netVars
    <2>5. Locals'
        BY Zenon, <2>1, <2>2, <2>3, NoneAssumption
        DEF TypeInv, Locals, senderVars, recvVars, netVars
    <2> QED
        BY Zenon, <2>4, <2>5 DEF TypeInv
<1>3. ASSUME NEW here, NEW required, NEW t \in Type, NEW wait,
             wait \in {"ndsWait", "ldsWait"},
             WarmupWatch(here, required, t, wait)
      PROVE  TypeInv'
    <2>1. WatchLock(t, AnyName, FALSE) /\ mu = None /\ mu' = "watch"
        BY Zenon, <1>3 DEF WarmupWatch, WatchLock
    <2> QED
        BY ZenonT(60), <1>1, <1>3, <2>1, NoneAssumption
        DEF TypeInv, TypeOK, Locals, WarmupWatch, senderVars, recvVars, netVars
<1>4. ASSUME NEW here, NEW wait, NEW required, NEW t, NEW next,
             next \in {"lds", "done"},
             WarmupGoOn(here, wait, required, t, next)
      PROVE  TypeInv'
    BY SMTT(30), <1>4 DEF TypeInv, TypeOK, Locals, WarmupGoOn, lockVars, mapVars, senderVars,
                recvVars, netVars
<1>5. ASSUME NEW holder \in {"watch", "recv"}, sendRequest(holder)
      PROVE  /\ reqCh' \in Seq(Request)
             /\ Len(reqCh') <= ReqChCap
             /\ out' = None /\ mu' = None /\ mu = holder
    <2>1. out \in Request
        BY ZenonT(60), <1>5 DEF TypeInv, TypeOK, Locals, sendRequest
    <2> QED
        BY <1>5, <2>1 DEF TypeInv, TypeOK, sendRequest
<1>6. CASE WatchSend
    BY SMTT(30), <1>5, <1>6, NoneAssumption
    DEF TypeInv, TypeOK, Locals, WatchSend, mapVars, senderVars, recvVars, warmVars, netVars
<1>7. CASE SenderStop
    BY SMTT(30), <1>7 DEF TypeInv, TypeOK, Locals, SenderStop, lockVars, mapVars, recvVars, warmVars, netVars
<1>8. CASE TakeRequest
    <2>1. Head(reqCh) \in Request /\ reqCh' \in Seq(Request) /\ Len(reqCh') <= ReqChCap
        BY <1>8 DEF TypeInv, TypeOK, TakeRequest
    <2>2. sub' \in [Stream -> [Type -> Request \cup {None}]] /\ sendStream' \in 0..MaxStream
        <3>1. CASE sendStream # 0 /\ SendOK(Head(reqCh)) /\ UNCHANGED sendStream
            <4>1. sub' \in [Stream -> [Type -> Request \cup {None}]]
                BY Zenon, <2>1, <3>1, SendType DEF TypeInv
            <4> QED
                BY Zenon, <3>1, <4>1 DEF TypeInv, TypeOK
        <3>2. CASE UNCHANGED sub /\ sendStream' \in {0, sendStream}
            BY <3>2 DEF TypeInv, TypeOK
        <3> QED
            BY Zenon, <1>8, <3>1, <3>2 DEF TakeRequest, SendFails
    <2> QED
        BY SMTT(30), <1>8, <2>1, <2>2
        DEF TypeInv, TypeOK, Locals, TakeRequest, lockVars, mapVars, recvVars, warmVars
<1>9. CASE TakeStream
    BY SMTT(30), <1>9 DEF TypeInv, TypeOK, Locals, TakeStream, lockVars, mapVars, recvVars, warmVars, netVars
<1>10. CASE ResendLock
    BY ZenonT(60), <1>10, NoneAssumption
    DEF TypeInv, TypeOK, Locals, ResendLock, mapVars, recvVars, warmVars, netVars
<1>11. ASSUME NEW t \in Type, Resend(t) PROVE TypeInv'
    <2>1. prepareRequest(t, FALSE) \in Request
        BY Zenon, <1>11, PrepareType DEF TypeInv, TypeOK, Resend, mapVars
    <2>2. sub' \in [Stream -> [Type -> Request \cup {None}]]
        BY ZenonT(60), <1>11, <2>1, SendType DEF TypeInv, TypeOK, Locals, Resend, SendFails
    <2>3. /\ sendPc = "resend" /\ mu = "send" /\ out = None
          /\ \/ UNCHANGED <<mu, sendPc, sendStream>> /\ toResend' = toResend \ {t}
             \/ toResend' = {} /\ sendStream' = 0 /\ sendPc' = "select" /\ mu' = None
        BY Zenon, <1>11, NoneAssumption DEF TypeInv, Locals, Resend
    <2>4. TypeOK'
        <3>1. /\ mu' \in {"send", None} /\ sendPc' \in {"select", "resend"}
              /\ sendStream' \in 0..MaxStream /\ toResend' \in SUBSET Type
            <4>1. sendStream \in 0..MaxStream /\ toResend \in SUBSET Type
                BY Zenon DEF TypeInv, TypeOK
            <4>2. CASE UNCHANGED <<mu, sendPc, sendStream>> /\ toResend' = toResend \ {t}
                BY Zenon, <2>3, <4>1, <4>2
            <4>3. CASE toResend' = {} /\ sendStream' = 0 /\ sendPc' = "select" /\ mu' = None
                BY <4>3
            <4> QED
                BY Zenon, <2>3, <4>2, <4>3
        <3>2. UNCHANGED <<out, mapVars, reqCh, streamCh, closeCh, recvVars, warmVars, applied,
                          broken, down, issued>>
            BY Zenon, <1>11 DEF Resend
        <3> QED
            BY SMTT(30), <2>2, <3>1, <3>2 DEF TypeInv, TypeOK, mapVars, recvVars, warmVars
    <2>5. Locals'
        BY Zenon, <1>11, <2>3, NoneAssumption DEF TypeInv, Locals, Resend, recvVars
    <2> QED
        BY Zenon, <2>4, <2>5 DEF TypeInv
<1>12. CASE ResendDone
    BY ZenonT(60), <1>12, NoneAssumption
    DEF TypeInv, TypeOK, Locals, ResendDone, mapVars, recvVars, warmVars, netVars
<1>13. CASE Recv
    <2>1. Head(down[recvStream]) \in Response
        BY <1>13 DEF TypeInv, TypeOK, Recv
    <2>2. down' \in [Stream -> Seq(Response)]
        BY <1>13 DEF TypeInv, TypeOK, Recv
    <2> QED
        BY ZenonT(60), <1>13, <2>1, <2>2, NoneAssumption
        DEF TypeInv, TypeOK, Locals, Recv, NextRound, lockVars, mapVars, senderVars, warmVars
<1>14. CASE updateAndACK
    <2>1. resp \in Response
        BY ZenonT(60), <1>14 DEF TypeInv, TypeOK, Locals, updateAndACK
    <2>2. /\ versionMap' \in [Type -> 0..MaxVersion]
          /\ nonceMap' \in [Type -> Nonce]
          /\ watchedResource' \in [Type -> SUBSET (Name \cup {AnyName})]
        <3>1. /\ resp.type \in Type /\ resp.version \in 0..MaxVersion
              /\ resp.nonce \in Nonce
            BY <2>1 DEF Response
        <3>2. versionMap' \in [Type -> 0..MaxVersion]
            BY Zenon, <1>14, <3>1 DEF TypeInv, TypeOK, updateAndACK
        <3>3. nonceMap' \in [Type -> Nonce]
            BY Zenon, <1>14, <3>1 DEF TypeInv, TypeOK, updateAndACK
        <3> QED
            BY Zenon, <1>14, <3>2, <3>3 DEF TypeInv, TypeOK, updateAndACK
    <2>3. (~resp.good) \in BOOLEAN /\ resp.type \in Type
        BY Zenon, <2>1 DEF Response
    <2>4. out' \in Request
        BY Zenon, <1>14, <2>2, <2>3, PrepareType DEF updateAndACK
    <2> QED
        BY ZenonT(60), <1>14, <2>1, <2>2, <2>4, NoneAssumption
        DEF TypeInv, TypeOK, Locals, updateAndACK, senderVars, warmVars, netVars
<1>15. CASE AckSend
    <2>1. resp \in Response /\ recvPc = "sending"
        BY ZenonT(60), <1>15 DEF TypeInv, TypeOK, Locals, AckSend, sendRequest
    <2> QED
        BY ZenonT(60), <1>5, <1>15, <2>1, NoneAssumption
        DEF TypeInv, TypeOK, Locals, AckSend, NextRound, mapVars, senderVars, warmVars, netVars
<1>16. CASE Apply
    <2>1. resp \in Response
        BY ZenonT(60), <1>16 DEF TypeInv, TypeOK, Locals, Apply
    <2>2. applied' \in [Type -> 0..MaxVersion]
        BY <1>16, <2>1 DEF TypeInv, TypeOK, Apply, Response
    <2> QED
        BY ZenonT(60), <1>16, <2>2
        DEF TypeInv, TypeOK, Locals, Apply, NextRound, lockVars, mapVars, senderVars, warmVars, netVars
<1>26. CASE FilterResponse
    BY ZenonT(60), <1>26 DEF TypeInv, TypeOK, Locals, FilterResponse, lockVars, mapVars, senderVars, warmVars,
                 netVars
<1>17. CASE AuthError
    BY ZenonT(60), <1>17 DEF TypeInv, TypeOK, Locals, AuthError, lockVars, mapVars, senderVars, warmVars, netVars
<1>18. CASE Reconnect
    <2>1. recvStream' \in Stream /\ down' \in [Stream -> Seq(Response)]
        BY SMTT(30), <1>18 DEF TypeInv, TypeOK, Locals, Reconnect, Stream
    <2> QED
        BY ZenonT(60), <1>18, <2>1
        DEF TypeInv, TypeOK, Locals, Reconnect, lockVars, mapVars, senderVars, warmVars
<1>19. CASE ResetMaps
    <2>1. nonceMap' \in [Type -> Nonce]
        BY <1>19 DEF ResetMaps, Nonce, NoNonce
    <2> QED
        BY SMTT(30), <1>19, <2>1
        DEF TypeInv, TypeOK, Locals, ResetMaps, lockVars, senderVars, warmVars, netVars
<1>20. CASE PublishStream
    BY SMTT(30), <1>20 DEF TypeInv, TypeOK, Locals, PublishStream, NextRound, Stream, lockVars, mapVars,
                 senderVars, warmVars, netVars
<1>21. CASE Close
    BY ZenonT(60), <1>21 DEF TypeInv, TypeOK, Locals, Close, lockVars, mapVars, senderVars, recvVars,
                 warmVars, netVars
<1>22. ASSUME NEW t \in Type, NEW v \in 1..MaxVersion, NEW good \in BOOLEAN, Push(t, v, good)
       PROVE  TypeInv'
    <2>1. issued' \in [Stream -> 0..MaxPush]
        BY SMTT(30), <1>22 DEF TypeInv, TypeOK, Push
    <2> DEFINE r == [type |-> t, version |-> v, good |-> good,
                     nonce |-> <<recvStream, issued[recvStream] + 1>>]
    <2>2. r \in Response
        BY Zenon, <1>22, PushType DEF TypeInv
    <2>3. down' \in [Stream -> Seq(Response)]
        <3>1. down' = [down EXCEPT ![recvStream] = Append(@, r)]
            BY Zenon, <1>22 DEF Push
        <3> HIDE DEF r
        <3> QED
            BY <2>2, <3>1 DEF TypeInv, TypeOK
    <2>4. UNCHANGED <<lockVars, mapVars, reqCh, streamCh, closeCh, senderVars, recvVars,
                      warmVars, applied, broken, sub>>
        BY Zenon, <1>22 DEF Push
    <2>5. TypeOK'
        BY <2>1, <2>3, <2>4
        DEF TypeInv, TypeOK, lockVars, mapVars, senderVars, recvVars, warmVars
    <2>6. Locals'
        BY Zenon, <2>4 DEF TypeInv, Locals, lockVars, senderVars, recvVars
    <2> QED
        BY Zenon, <2>5, <2>6 DEF TypeInv
<1>23. CASE Break
    <2>1. broken' \in SUBSET Stream /\ MaxStream \notin broken'
        BY <1>23 DEF TypeInv, TypeOK, Locals, Break, Stream
    <2>2. UNCHANGED <<lockVars, mapVars, reqCh, streamCh, closeCh, senderVars, recvVars,
                      warmVars, applied, sub, down, issued>>
        BY Zenon, <1>23 DEF Break
    <2>3. TypeOK'
        BY <2>1, <2>2 DEF TypeInv, TypeOK, lockVars, mapVars, senderVars, recvVars, warmVars
    <2>4. Locals'
        BY Zenon, <2>1, <2>2 DEF TypeInv, Locals, lockVars, senderVars, recvVars
    <2> QED
        BY Zenon, <2>3, <2>4 DEF TypeInv
<1>24. CASE UNCHANGED vars
    BY <1>24 DEF TypeInv, TypeOK, Locals, vars, lockVars, mapVars, senderVars, recvVars,
                 warmVars, netVars
<1>25. CASE warmup
    BY Zenon, <1>3, <1>4, <1>25 DEF warmup, WarmupWatch
<1>27. CASE /\ watches' \in 0..MaxWatch
            /\ UNCHANGED <<lockVars, mapVars, reqCh, streamCh, closeCh, senderVars, recvVars,
                           warmPc, applied, netVars>>
    BY <1>27 DEF TypeInv, TypeOK, Locals, lockVars, mapVars, senderVars, recvVars, netVars
<1>28. watches < MaxWatch /\ watches' = watches + 1 => watches' \in 0..MaxWatch
    BY DEF TypeInv, TypeOK
<1> QED
    BY Zenon, <1>2, <1>6, <1>7, <1>8, <1>9, <1>10, <1>11, <1>12, <1>13, <1>14, <1>15, <1>16, <1>17,
       <1>18, <1>19, <1>20, <1>21, <1>22, <1>23, <1>24, <1>25, <1>26, <1>27, <1>28
    DEF Step, Next, Sender, Receiver

\* The client starts well typed.
LEMMA TypeInit == Init => TypeInv
<1> SUFFICES ASSUME Init PROVE TypeInv
    OBVIOUS
<1> USE ConstantsAssumption, NoneAssumption
<1>1. NoNonce \in Nonce /\ 1 \in Stream
    BY DEF NoNonce, Nonce, Stream
<1>2. /\ sendPc \in {"select", "stopped"} /\ sendStream \in 0..MaxStream
      /\ recvPc \in {"recv", "stopped"} /\ warmPc \in {"nds", "done"}
    BY DEF Init
<1>3. closeCh \in BOOLEAN
    BY Zenon DEF Init
<1>4. /\ watchedResource \in [Type -> SUBSET (Name \cup {AnyName})]
      /\ versionMap \in [Type -> 0..MaxVersion]
      /\ nonceMap \in [Type -> Nonce]
      /\ applied \in [Type -> 0..MaxVersion]
    BY <1>1 DEF Init
<1>5. /\ reqCh \in Seq(Request) /\ Len(reqCh) <= ReqChCap
      /\ sub \in [Stream -> [Type -> Request \cup {None}]]
      /\ down \in [Stream -> Seq(Response)]
      /\ issued \in [Stream -> 0..MaxPush]
    BY DEF Init
<1>6. TypeOK
    BY <1>1, <1>2, <1>3, <1>4, <1>5 DEF Init, TypeOK
<1>7. Locals
    BY Zenon, <1>2 DEF Init, Locals
<1> QED
    BY Zenon, <1>6, <1>7 DEF TypeInv

\* TypeInv in every reachable state.
LEMMA TypeInvariant == Spec => []TypeInv
BY TypeInit, TypeStep, PTL DEF Spec, Step

\* The state of the client is well typed in every reachable state.
THEOREM TypeCorrect == Spec => []TypeOK
<1>1. TypeInv => TypeOK
    BY Zenon DEF TypeInv
<1> QED
    BY <1>1, TypeInvariant, PTL

-----------------------------------------------------------------------------
(* Streams *)

\* Only the newest stream may work; the sender is on it or behind, and behind
\* for sure while the receiver is in the middle of a reconnection.
StreamInv ==
    /\ \A s \in Stream : s < recvStream => s \in broken
    /\ StreamsInOrder
    /\ recvPc \in {"reset", "publish"} => sendStream < recvStream /\ streamCh < recvStream

\* Every step preserves StreamInv.
LEMMA StreamStep == TypeInv /\ StreamInv /\ [Step]_vars => StreamInv'
<1> SUFFICES ASSUME TypeInv, StreamInv, [Step]_vars PROVE StreamInv'
    OBVIOUS
<1> USE ConstantsAssumption
<1>0. /\ recvStream \in 1..MaxStream /\ sendStream \in 0..MaxStream
      /\ streamCh \in 0..MaxStream
    BY Zenon DEF TypeInv, TypeOK, Stream
<1>1. CASE /\ UNCHANGED <<recvStream, broken, streamCh>>
           /\ sendStream' \in {0, sendStream}
           /\ recvPc' \in {"reset", "publish"} => recvPc \in {"reset", "publish"}
    BY <1>0, <1>1 DEF StreamInv, StreamsInOrder
<1>2. CASE TakeStream
    BY <1>0, <1>2 DEF TakeStream, StreamInv, StreamsInOrder, recvVars, netVars
<1>3. CASE Reconnect
    BY <1>0, <1>3 DEF Reconnect, StreamInv, StreamsInOrder, Stream, senderVars
<1>4. CASE PublishStream
    BY <1>0, <1>4 DEF PublishStream, NextRound, StreamInv, StreamsInOrder, senderVars, netVars
<1>5. CASE Break
    BY Zenon, <1>0, <1>5 DEF Break, StreamInv, StreamsInOrder, senderVars, recvVars
<1>6. CASE Sender
    BY Zenon, <1>1, <1>2, <1>6
    DEF Sender, SenderStop, TakeRequest, ResendLock, Resend, ResendDone, recvVars, netVars
<1>7. CASE Receiver
    BY Zenon, <1>1, <1>3, <1>4, <1>7
    DEF Receiver, Recv, updateAndACK, AckSend, FilterResponse, Apply, AuthError, ResetMaps, NextRound,
        senderVars, netVars
<1>8. CASE warmup
    BY Zenon, <1>1, <1>8 DEF warmup, WarmupWatch, WarmupGoOn, senderVars, recvVars, netVars
<1>9. CASE UNCHANGED vars
    BY Zenon, <1>1, <1>9 DEF vars, senderVars, recvVars, netVars
<1> QED
    BY Zenon, <1>1, <1>5, <1>6, <1>7, <1>8, <1>9
    DEF Step, Next, ManagerWatch, WatchSend, Close, Push, senderVars, recvVars, netVars

\* There is one stream at first.
LEMMA StreamInit == Init => StreamInv
BY ConstantsAssumption DEF Init, StreamInv, StreamsInOrder, Stream

\* StreamInv in every reachable state.
LEMMA StreamInvariant == Spec => []StreamInv
BY StreamInit, StreamStep, TypeInvariant, PTL DEF Spec, Step

\* The sender is never handed an older stream, nor one not yet opened.
THEOREM StreamsOrdered == Spec => []StreamsInOrder
<1>1. StreamInv => StreamsInOrder
    BY Zenon DEF StreamInv
<1> QED
    BY <1>1, StreamInvariant, PTL

-----------------------------------------------------------------------------
(* Nonces *)

\* n is empty or one of the first c nonces issued on stream s.
IssuedOn(n, s, c) == n = NoNonce \/ (n[1] = s /\ n[2] <= c)

\* The requests in the queue are requests.
LEMMA QueueType ==
    ASSUME TypeInv
    PROVE  /\ reqCh \in Seq(Request) /\ Len(reqCh) \in Nat
           /\ \A i \in 1..Len(reqCh) : reqCh[i] \in Request /\ reqCh[i] # None
<1>1. reqCh \in Seq(Request)
    BY Zenon DEF TypeInv, TypeOK
<1> QED
    BY <1>1, NoneAssumption

\* What Append and Tail make of the elements of a queue.
LEMMA QueueElements ==
    ASSUME NEW S, NEW q \in Seq(S), NEW e \in S
    PROVE  /\ \A i \in 1..Len(Append(q, e)) :
                 \/ i \in 1..Len(q) /\ Append(q, e)[i] = q[i]
                 \/ Append(q, e)[i] = e
           /\ q # <<>> => \A i \in 1..Len(Tail(q)) :
                 i + 1 \in 1..Len(q) /\ Tail(q)[i] = q[i + 1]
OBVIOUS

\* Between Reconnect and ResetMaps the client still has nonces of the stream
\* before; at any other time all it has are of the receiver's stream.
NonceInv ==
    /\ recvPc # "reset" =>
          /\ \A t \in Type : IssuedOn(nonceMap[t], recvStream, issued[recvStream])
          /\ \A i \in 1..Len(reqCh) : IssuedOn(reqCh[i].nonce, recvStream, issued[recvStream])
          /\ out # None => IssuedOn(out.nonce, recvStream, issued[recvStream])
    /\ resp # None => IssuedOn(resp.nonce, recvStream, issued[recvStream])
    /\ \A s \in Stream : \A i \in 1..Len(down[s]) : IssuedOn(down[s][i].nonce, s, issued[s])
    /\ NonceOfStream

\* Sending a request with a nonce of the receiver's stream keeps NonceOfStream,
\* and so does any request while the receiver is resetting its maps.
LEMMA SendNonce ==
    ASSUME TypeInv, StreamInv, NonceOfStream, issued' = issued, sendStream # 0,
           NEW req \in Request,
           recvPc # "reset" => IssuedOn(req.nonce, recvStream, issued[recvStream]),
           SendOK(req)
    PROVE  NonceOfStream'
<1> USE ConstantsAssumption
<1>1. CASE sendStream \in broken
    BY Zenon, <1>1 DEF SendOK, NonceOfStream
<1>2. CASE sendStream \notin broken
    <2>1. sendStream = recvStream /\ sendStream \in Stream
        BY <1>2 DEF TypeInv, TypeOK, StreamInv, StreamsInOrder, Stream
    <2>2. recvPc # "reset"
        BY <2>1 DEF StreamInv, TypeInv, TypeOK, Stream
    <2>3. IssuedOn(req.nonce, sendStream, issued[sendStream])
        BY Zenon, <2>1, <2>2
    <2>4. sub' = [sub EXCEPT ![sendStream][req.type] = req] /\ req.type \in Type
        BY Zenon, <1>2 DEF SendOK, Request
    <2>5. \A s \in Stream, t \in Type :
             sub'[s][t] = IF s = sendStream /\ t = req.type THEN req ELSE sub[s][t]
        BY Zenon, <2>1, <2>4 DEF TypeInv, TypeOK
    <2> QED
        BY <2>3, <2>5 DEF NonceOfStream, IssuedOn
<1> QED
    BY Zenon, <1>1, <1>2

\* Every step preserves NonceInv.
LEMMA NonceStep == TypeInv /\ StreamInv /\ NonceInv /\ [Next]_vars => NonceInv'
<1> SUFFICES ASSUME TypeInv, StreamInv, NonceInv, [Next]_vars PROVE NonceInv'
    OBVIOUS
<1> USE ConstantsAssumption, NoneAssumption
<1>1. CASE /\ UNCHANGED <<nonceMap, reqCh, out, resp, recvStream, sub, down, issued>>
           /\ recvPc' # "reset" => recvPc # "reset"
    BY Zenon, <1>1 DEF NonceInv, NonceOfStream, IssuedOn
<1>2. ASSUME NEW t \in Type, NEW n, NEW remove, WatchLock(t, n, remove),
             UNCHANGED <<reqCh, recvVars, netVars>>
      PROVE  NonceInv'
    <2>1. UNCHANGED <<nonceMap, reqCh, resp, recvPc, recvStream, sub, down, issued>>
        BY Zenon, <1>2 DEF WatchLock, recvVars, netVars
    <2>2. out'.nonce = nonceMap[t]
        BY Zenon, <1>2 DEF WatchLock, prepareRequest
    <2> QED
        BY <2>1, <2>2 DEF NonceInv, NonceOfStream, IssuedOn
<1>3. ASSUME NEW holder \in {"watch", "recv"}, sendRequest(holder),
             UNCHANGED <<nonceMap, recvStream, netVars>>,
             recvPc' # "reset" => recvPc # "reset",
             resp' # None => resp' = resp
      PROVE  NonceInv'
    <2>1. out \in Request /\ out' = None /\ reqCh' = Append(reqCh, out) /\ reqCh \in Seq(Request)
        BY Zenon, <1>3 DEF sendRequest, TypeInv, TypeOK, Locals
    <2>2. \A i \in 1..Len(reqCh') :
              \/ i \in 1..Len(reqCh) /\ reqCh'[i] = reqCh[i]
              \/ reqCh'[i] = out
        BY <2>1, QueueElements
    <2>3. recvPc' # "reset" =>
              \A i \in 1..Len(reqCh') : IssuedOn(reqCh'[i].nonce, recvStream, issued[recvStream])
        BY Zenon, <1>3, <2>1, <2>2 DEF NonceInv
    <2> QED
        BY Zenon, <1>3, <2>1, <2>3 DEF NonceInv, NonceOfStream, IssuedOn, netVars
<1>4. CASE TakeRequest
    <2>1. /\ reqCh \in Seq(Request) /\ reqCh # <<>> /\ reqCh' = Tail(reqCh)
          /\ Head(reqCh) \in Request /\ Head(reqCh) = reqCh[1] /\ 1 \in 1..Len(reqCh)
        BY <1>4 DEF TakeRequest, TypeInv, TypeOK
    <2>2. \A i \in 1..Len(reqCh') : i + 1 \in 1..Len(reqCh) /\ reqCh'[i] = reqCh[i + 1]
        BY <2>1
    <2>3. UNCHANGED <<nonceMap, out, resp, recvPc, recvStream, down, issued>>
        BY Zenon, <1>4 DEF TakeRequest, lockVars, mapVars, recvVars
    <2>4. NonceOfStream'
        <3>1. CASE sub' = sub
            BY Zenon, <2>3, <3>1 DEF NonceInv, NonceOfStream
        <3>2. CASE sendStream # 0 /\ SendOK(Head(reqCh))
            <4>1. recvPc # "reset" => IssuedOn(Head(reqCh).nonce, recvStream, issued[recvStream])
                BY Zenon, <2>1 DEF NonceInv
            <4> QED
                BY Zenon, <2>1, <2>3, <3>2, <4>1, SendNonce DEF NonceInv
        <3> QED
            BY Zenon, <1>4, <3>1, <3>2 DEF TakeRequest, SendFails
    <2> QED
        BY Zenon, <2>2, <2>3, <2>4 DEF NonceInv
<1>5. ASSUME NEW t \in Type, Resend(t) PROVE NonceInv'
    <2>1. UNCHANGED <<nonceMap, reqCh, out, resp, recvPc, recvStream, down, issued>>
        BY Zenon, <1>5 DEF Resend, mapVars, recvVars
    <2>2. NonceOfStream'
        <3>1. CASE sub' = sub
            BY Zenon, <2>1, <3>1 DEF NonceInv, NonceOfStream
        <3>2. CASE SendOK(prepareRequest(t, FALSE))
            <4>1. prepareRequest(t, FALSE) \in Request
                BY Zenon, <1>5, PrepareType DEF TypeInv, TypeOK, Resend, mapVars
            <4>2. prepareRequest(t, FALSE).nonce = nonceMap[t]
                BY Zenon, <2>1 DEF prepareRequest
            <4>3. recvPc # "reset" => IssuedOn(prepareRequest(t, FALSE).nonce, recvStream, issued[recvStream])
                BY Zenon, <4>2 DEF NonceInv
            <4>4. sendStream # 0
                BY Zenon, <1>5 DEF TypeInv, Locals, Resend
            <4> QED
                BY Zenon, <2>1, <3>2, <4>1, <4>3, <4>4, SendNonce DEF NonceInv
        <3> QED
            BY Zenon, <1>5, <3>1, <3>2 DEF Resend, SendFails
    <2> QED
        BY Zenon, <2>1, <2>2 DEF NonceInv, IssuedOn
<1>6. CASE Recv
    <2>1. /\ recvStream \in Stream /\ down[recvStream] \in Seq(Response)
          /\ down[recvStream] # <<>>
          /\ down' = [down EXCEPT ![recvStream] = Tail(@)]
          /\ down \in [Stream -> Seq(Response)]
        BY Zenon, <1>6 DEF Recv, TypeInv, TypeOK
    <2>2. UNCHANGED <<nonceMap, reqCh, out, recvStream, sub, issued>>
          /\ recvPc = "recv" /\ resp' \in {resp, Head(down[recvStream])}
        BY Zenon, <1>6 DEF Recv, lockVars, mapVars
    <2>3. IssuedOn(Head(down[recvStream]).nonce, recvStream, issued[recvStream])
        <3>1. Head(down[recvStream]) = down[recvStream][1] /\ 1 \in 1..Len(down[recvStream])
            BY <2>1
        <3> QED
            BY Zenon, <2>1, <3>1 DEF NonceInv
    <2>4. \A s \in Stream : \A i \in 1..Len(down'[s]) : IssuedOn(down'[s][i].nonce, s, issued[s])
        <3> SUFFICES ASSUME NEW s \in Stream, NEW i \in 1..Len(down'[s])
                     PROVE  IssuedOn(down'[s][i].nonce, s, issued[s])
            OBVIOUS
        <3>1. CASE s = recvStream
            <4>1. down'[s] = Tail(down[s])
                BY Zenon, <2>1, <3>1
            <4>2. i + 1 \in 1..Len(down[s]) /\ down'[s][i] = down[s][i + 1]
                BY <2>1, <3>1, <4>1
            <4> QED
                BY Zenon, <4>2 DEF NonceInv
        <3>2. CASE s # recvStream
            BY Zenon, <2>1, <3>2 DEF NonceInv
        <3> QED
            BY Zenon, <3>1, <3>2
    <2> QED
        BY Zenon, <2>2, <2>3, <2>4 DEF NonceInv, NonceOfStream, IssuedOn
<1>7. CASE updateAndACK
    <2>1. /\ UNCHANGED <<reqCh, resp, recvStream, sub, down, issued>>
          /\ recvPc = "handle" /\ nonceMap' = [nonceMap EXCEPT ![resp.type] = resp.nonce]
          /\ out' = prepareRequest(resp.type, ~resp.good)
        BY Zenon, <1>7 DEF updateAndACK, netVars
    <2>2. resp \in Response /\ resp # None /\ resp.type \in Type
        BY Zenon, <2>1 DEF TypeInv, TypeOK, Locals, Response
    <2>3. \A t \in Type : IssuedOn(nonceMap'[t], recvStream, issued[recvStream])
        BY Zenon, <2>1, <2>2 DEF NonceInv, TypeInv, TypeOK
    <2>4. out'.nonce = nonceMap'[resp.type]
        BY Zenon, <2>1 DEF prepareRequest
    <2>5. NonceOfStream'
        BY Zenon, <2>1 DEF NonceInv, NonceOfStream
    <2>6. IssuedOn(out'.nonce, recvStream, issued[recvStream])
        BY Zenon, <2>2, <2>3, <2>4
    <2> QED
        BY Zenon, <2>1, <2>2, <2>3, <2>5, <2>6 DEF NonceInv
<1>8. CASE Reconnect
    <2>1. /\ recvPc = "recv" /\ recvPc' = "reset" /\ resp' = resp /\ resp = None
          /\ UNCHANGED <<sub, issued>>
          /\ down' = [down EXCEPT ![recvStream] = <<>>]
        BY Zenon, <1>8 DEF Reconnect, TypeInv, Locals
    <2>2. \A s \in Stream : down'[s] \in {down[s], <<>>}
        BY Zenon, <2>1 DEF TypeInv, TypeOK
    <2>3. \A s \in Stream : \A i \in 1..Len(down'[s]) : IssuedOn(down'[s][i].nonce, s, issued[s])
        <3> SUFFICES ASSUME NEW s \in Stream, NEW i \in 1..Len(down'[s])
                     PROVE  IssuedOn(down'[s][i].nonce, s, issued[s])
            OBVIOUS
        <3>1. down'[s] = down[s]
            BY <2>2
        <3> QED
            BY Zenon, <3>1 DEF NonceInv
    <2>4. NonceOfStream'
        BY Zenon, <2>1 DEF NonceInv, NonceOfStream
    <2> QED
        BY Zenon, <2>1, <2>3, <2>4 DEF NonceInv
<1>9. CASE ResetMaps
    <2>1. /\ nonceMap' = [t \in Type |-> NoNonce] /\ reqCh' = <<>> /\ out' = out /\ mu = None
          /\ UNCHANGED <<resp, recvStream, sub, down, issued>>
        BY Zenon, <1>9 DEF ResetMaps, lockVars, netVars
    <2>2. out = None
        BY Zenon, <2>1 DEF TypeInv, Locals
    <2>3. \A t \in Type : IssuedOn(nonceMap'[t], recvStream, issued[recvStream])
        BY Zenon, <2>1 DEF IssuedOn
    <2>4. 1..Len(reqCh') = {}
        BY <2>1
    <2>5. NonceOfStream'
        BY Zenon, <2>1 DEF NonceInv, NonceOfStream
    <2> QED
        BY Zenon, <2>1, <2>2, <2>3, <2>4, <2>5 DEF NonceInv
<1>10. ASSUME NEW t \in Type, NEW v \in 1..MaxVersion, NEW good \in BOOLEAN, Push(t, v, good)
       PROVE  NonceInv'
    <2> DEFINE r == [type |-> t, version |-> v, good |-> good,
                     nonce |-> <<recvStream, issued[recvStream] + 1>>]
    <2>1. /\ recvStream \in Stream /\ issued \in [Stream -> 0..MaxPush]
          /\ down \in [Stream -> Seq(Response)]
          /\ issued' = [issued EXCEPT ![recvStream] = @ + 1]
          /\ down' = [down EXCEPT ![recvStream] = Append(@, r)]
          /\ UNCHANGED <<nonceMap, reqCh, out, resp, recvPc, recvStream, sub>>
        BY Zenon, <1>10 DEF Push, TypeInv, TypeOK, lockVars, mapVars, recvVars
    <2>2. \A s \in Stream : issued[s] \in Nat /\ issued'[s] \in Nat /\ issued[s] <= issued'[s]
        BY <2>1
    <2>3. r.nonce[1] = recvStream /\ r.nonce[2] = issued'[recvStream]
        BY Zenon, <2>1
    <2>8. r \in Response
        BY Zenon, <1>10, PushType DEF TypeInv
    <2> HIDE DEF r
    <2>4. \A n \in Nonce, s \in Stream :
              IssuedOn(n, s, issued[s]) => IssuedOn(n, s, issued'[s])
        BY <2>2 DEF IssuedOn, Nonce
    <2>5. \A s \in Stream : \A i \in 1..Len(down'[s]) :
              IssuedOn(down'[s][i].nonce, s, issued'[s])
        <3> SUFFICES ASSUME NEW s \in Stream, NEW i \in 1..Len(down'[s])
                     PROVE  IssuedOn(down'[s][i].nonce, s, issued'[s])
            OBVIOUS
        <3>1. CASE i \in 1..Len(down[s]) /\ down'[s][i] = down[s][i]
            <4>1. down[s][i] \in Response
                BY <2>1, <3>1
            <4>2. down[s][i].nonce \in Nonce
                BY Zenon, <4>1 DEF Response
            <4>3. IssuedOn(down[s][i].nonce, s, issued[s])
                BY Zenon, <3>1 DEF NonceInv
            <4> QED
                BY Zenon, <2>4, <3>1, <4>2, <4>3
        <3>2. CASE s = recvStream /\ down'[s][i] = r
            BY <2>2, <2>3, <3>2 DEF IssuedOn
        <3>3. CASE s # recvStream
            BY Zenon, <2>1, <3>1, <3>3
        <3>4. CASE s = recvStream
            <4>1. down[s] \in Seq(Response) /\ down'[s] = Append(down[s], r)
                BY Zenon, <2>1, <3>4
            <4> QED
                BY <2>8, <3>1, <3>2, <3>4, <4>1, QueueElements
        <3> QED
            BY Zenon, <3>3, <3>4
    <2>6. NonceOfStream'
        <3> SUFFICES ASSUME NEW s \in Stream, NEW u \in Type, sub[s][u] # None
                     PROVE  IssuedOn(sub[s][u].nonce, s, issued'[s])
            BY Zenon, <2>1 DEF NonceOfStream, IssuedOn
        <3>1. sub[s][u] \in Request
            BY DEF TypeInv, TypeOK
        <3>2. sub[s][u].nonce \in Nonce
            BY Zenon, <3>1 DEF Request
        <3>3. IssuedOn(sub[s][u].nonce, s, issued[s])
            BY Zenon DEF NonceInv, NonceOfStream, IssuedOn
        <3> QED
            BY Zenon, <2>4, <3>2, <3>3
    <2>7. /\ resp # None => resp.nonce \in Nonce
          /\ out # None => out.nonce \in Nonce
          /\ \A u \in Type : nonceMap[u] \in Nonce
        BY Zenon DEF TypeInv, TypeOK, Request, Response
    <2>9. \A i \in 1..Len(reqCh) : reqCh[i].nonce \in Nonce
        <3>1. reqCh \in Seq(Request)
            BY Zenon DEF TypeInv, TypeOK
        <3>2. \A i \in 1..Len(reqCh) : reqCh[i] \in Request
            BY <3>1
        <3> QED
            BY Zenon, <3>2 DEF Request
    <2> QED
        BY Zenon, <2>1, <2>4, <2>5, <2>6, <2>7, <2>9 DEF NonceInv
<1>11. CASE Sender
    BY Zenon, <1>1, <1>4, <1>5, <1>11
    DEF Sender, SenderStop, TakeStream, ResendLock, ResendDone, lockVars, mapVars, recvVars, netVars
<1>12. CASE AckSend
    BY Zenon, <1>3, <1>12 DEF AckSend, NextRound, mapVars, netVars, TypeInv, Locals, sendRequest
<1>13. CASE Apply
    BY Zenon, <1>13 DEF Apply, NextRound, NonceInv, NonceOfStream, IssuedOn, lockVars, mapVars, netVars
<1>14. CASE Receiver
    BY Zenon, <1>1, <1>6, <1>7, <1>8, <1>9, <1>12, <1>13, <1>14
    DEF Receiver, FilterResponse, AuthError, PublishStream, NextRound, lockVars, mapVars, netVars
<1>15. CASE warmup
    BY Zenon, <1>1, <1>2, <1>15
    DEF warmup, WarmupWatch, WarmupGoOn, lockVars, mapVars, recvVars, netVars
<1>16. CASE WatchSend
    BY Zenon, <1>3, <1>16 DEF WatchSend, mapVars, recvVars
<1> QED
    BY Zenon, <1>1, <1>2, <1>10, <1>11, <1>14, <1>15, <1>16
    DEF Next, ManagerWatch, Close, Break, vars, lockVars, mapVars, recvVars, netVars

\* NonceInv in every reachable state.
LEMMA NonceInvariant == Spec => []NonceInv
<1>1. ASSUME Init PROVE NonceInv
    <2>1. /\ \A t \in Type : nonceMap[t] = NoNonce
          /\ \A s \in Stream : down[s] = <<>> /\ \A t \in Type : sub[s][t] = None
          /\ reqCh = <<>> /\ out = None /\ resp = None
        BY Zenon, <1>1 DEF Init
    <2>2. \A t \in Type : IssuedOn(nonceMap[t], recvStream, issued[recvStream])
        BY Zenon, <2>1 DEF IssuedOn
    <2>3. 1..Len(reqCh) = {} /\ \A s \in Stream : 1..Len(down[s]) = {}
        BY <2>1
    <2>4. NonceOfStream
        BY Zenon, <2>1 DEF NonceOfStream
    <2> QED
        BY Zenon, <2>1, <2>2, <2>3, <2>4 DEF NonceInv
<1> QED
    BY <1>1, NonceStep, TypeInvariant, StreamInvariant, PTL DEF Spec

\* A request never carries a nonce of another stream, however reconnections,
\* calls of Watch and responses interleave.
THEOREM NoncesOfStream == Spec => []NonceOfStream
<1>1. NonceInv => NonceOfStream
    BY Zenon DEF NonceInv
<1> QED
    BY <1>1, NonceInvariant, PTL

-----------------------------------------------------------------------------
(* Acknowledged and applied versions *)

\* While a good response is being answered and applied, its version is the one
\* by which versionMap is ahead; a bad one changes no version.
AckInv ==
    /\ recvPc \notin {"sending", "filter", "apply"} => versionMap = applied
    /\ recvPc = "sending" /\ ~resp.good => versionMap = applied
    /\ recvPc \in {"filter", "apply"} => resp.good
    /\ recvPc \in {"sending", "filter", "apply"} /\ resp.good =>
          versionMap = [applied EXCEPT ![resp.type] = resp.version]

\* Every step preserves AckInv.
LEMMA AckStep == TypeInv /\ AckInv /\ [Next]_vars => AckInv'
<1> SUFFICES ASSUME TypeInv, AckInv, [Next]_vars PROVE AckInv'
    OBVIOUS
<1> USE NoneAssumption
<1>1. CASE /\ UNCHANGED <<versionMap, applied, resp>>
           /\ recvPc' \in {"sending", "filter", "apply"} <=> recvPc \in {"sending", "filter", "apply"}
           /\ recvPc' \in {"filter", "apply"} <=> recvPc \in {"filter", "apply"}
    BY Zenon, <1>1 DEF AckInv
<1>2. CASE Recv
    BY Zenon, <1>2 DEF Recv, NextRound, AckInv, mapVars
<1>3. CASE updateAndACK
    <2>1. resp \in Response
        BY Zenon, <1>3 DEF updateAndACK, TypeInv, TypeOK, Locals
    <2>2. versionMap = applied /\ applied' = applied /\ recvPc' = "sending" /\ resp' = resp
        BY Zenon, <1>3 DEF updateAndACK, AckInv
    <2>3. versionMap' = [versionMap EXCEPT ![resp.type] = IF resp.good THEN resp.version ELSE @]
        BY Zenon, <1>3 DEF updateAndACK
    <2>4. ~resp.good => versionMap' = versionMap
        BY Zenon, <2>1, <2>3 DEF Response, TypeInv, TypeOK
    <2> QED
        BY Zenon, <2>2, <2>3, <2>4 DEF AckInv
<1>4. CASE AckSend
    <2>1. recvPc = "sending" /\ UNCHANGED <<versionMap, applied>>
        BY Zenon, <1>4 DEF AckSend, sendRequest, TypeInv, Locals, mapVars
    <2>2. CASE resp.good
        BY Zenon, <1>4, <2>1, <2>2 DEF AckSend, AckInv
    <2>3. CASE ~resp.good
        BY Zenon, <1>4, <2>1, <2>3 DEF AckSend, AckInv, NextRound
    <2> QED
        BY Zenon, <2>2, <2>3
<1>5. CASE Apply
    BY Zenon, <1>5 DEF Apply, NextRound, AckInv, mapVars
<1>6. CASE Sender
    BY Zenon, <1>1, <1>6 DEF Sender, SenderStop, TakeRequest, TakeStream, ResendLock, Resend, ResendDone,
                      mapVars, recvVars
<1>7. CASE Receiver
    BY Zenon, <1>1, <1>2, <1>3, <1>4, <1>5, <1>7
    DEF Receiver, FilterResponse, AuthError, Reconnect, ResetMaps, PublishStream, NextRound, mapVars
<1>8. CASE warmup
    BY Zenon, <1>1, <1>8 DEF warmup, WarmupWatch, WarmupGoOn, WatchLock, mapVars, recvVars
<1>9. CASE UNCHANGED vars
    BY Zenon, <1>1, <1>9 DEF vars, mapVars, recvVars
<1> QED
    BY Zenon, <1>1, <1>6, <1>7, <1>8, <1>9
    DEF Next, ManagerWatch, WatchLock, WatchSend, Close, Push, Break, mapVars, recvVars

\* Between two responses the version the client reports for a type is the one
\* it applied last, also after a NACK and after a reconnection.
THEOREM AcksApplied == Spec => []AckedIsApplied
<1>1. Init => AckInv
    BY Zenon DEF Init, AckInv
<1>2. AckInv => AckedIsApplied
    BY Zenon DEF AckInv, AckedIsApplied
<1> QED
    BY <1>1, <1>2, AckStep, TypeInvariant, PTL DEF Spec

-----------------------------------------------------------------------------
(* The name table comes first *)

\* Nothing about listeners has been asked or is about to be.
NoListener ==
    /\ "Listener" \notin watchedType \cup toResend
    /\ out # None => out.type # "Listener"
    /\ resp # None => resp.type # "Listener"
    /\ \A i \in 1..Len(reqCh) : reqCh[i].type # "Listener"
    /\ \A s \in Stream : sub[s]["Listener"] = None

\* The name table is there; or the warmup still waits for it; or the client
\* never connected or stopped, and nothing is sent any more.
WarmupInv ==
    NDSRequired /\ "Listener" \in Type =>
        \/ applied["NameTable"] # 0
        \/ warmPc \in {"nds", "ndsWait"} /\ NoListener
        \/ sendPc = "stopped" /\ \A s \in Stream : sub[s]["Listener"] = None

\* A request that is not for listeners leaves the server without one.
LEMMA SendOther ==
    ASSUME TypeInv, sendStream # 0, NEW req \in Request, req.type # "Listener",
           "Listener" \in Type, SendOK(req),
           \A s \in Stream : sub[s]["Listener"] = None
    PROVE  \A s \in Stream : sub'[s]["Listener"] = None
<1>1. CASE sendStream \in broken
    BY Zenon, <1>1 DEF SendOK
<1>2. CASE sendStream \notin broken
    <2>1. sub' = [sub EXCEPT ![sendStream][req.type] = req]
        BY Zenon, <1>2 DEF SendOK
    <2> QED
        BY Zenon, <2>1 DEF TypeInv, TypeOK
<1> QED
    BY Zenon, <1>1, <1>2

\* Every step preserves WarmupInv.
LEMMA WarmupStep == TypeInv /\ WarmupInv /\ [Next]_vars => WarmupInv'
<1> SUFFICES ASSUME TypeInv, WarmupInv, [Next]_vars, NDSRequired, "Listener" \in Type
             PROVE  WarmupInv'
    BY Zenon DEF WarmupInv
<1> USE ConstantsAssumption, NoneAssumption
<1>0. "NameTable" \in Type
    OBVIOUS
<1>1. CASE applied["NameTable"] # 0
    <2>1. CASE Apply
        <3>1. resp \in Response /\ applied \in [Type -> 0..MaxVersion]
            BY Zenon, <2>1 DEF Apply, TypeInv, TypeOK, Locals
        <3>2. applied' = [applied EXCEPT ![resp.type] = resp.version] /\ resp.version # 0
            BY <2>1, <3>1 DEF Apply, Response
        <3>3. applied'["NameTable"] # 0
            BY Zenon, <1>0, <1>1, <3>1, <3>2
        <3> QED
            BY Zenon, <3>3 DEF WarmupInv
    <2>2. CASE applied' = applied
        BY Zenon, <1>1, <2>2 DEF WarmupInv
    <2> QED
        BY Zenon, <2>1, <2>2
        DEF Next, ManagerWatch, WatchSend, warmup, WarmupWatch, WarmupGoOn, Sender, SenderStop,
            TakeRequest, TakeStream, ResendLock, Resend, ResendDone, Receiver, Recv,
            updateAndACK, AckSend, FilterResponse, AuthError, Reconnect, ResetMaps,
            PublishStream, Close, Push, Break, vars
<1>2. CASE sendPc = "stopped" /\ \A s \in Stream : sub[s]["Listener"] = None
    <2>1. sendPc' = "stopped" /\ sub' = sub
        BY Zenon, <1>2
        DEF Next, ManagerWatch, WatchSend, warmup, WarmupWatch, WarmupGoOn, Sender, SenderStop,
            TakeRequest, TakeStream, ResendLock, Resend, ResendDone, Receiver, Recv,
            updateAndACK, AckSend, FilterResponse, Apply, AuthError, Reconnect, ResetMaps,
            PublishStream, Close, Push, Break, vars, senderVars, netVars
    <2> QED
        BY Zenon, <1>2, <2>1 DEF WarmupInv
<1>3. CASE /\ applied["NameTable"] = 0 /\ warmPc \in {"nds", "ndsWait"} /\ NoListener
    <2>1. ASSUME warmPc' \in {"nds", "ndsWait"}, NoListener' PROVE WarmupInv'
        BY Zenon, <2>1 DEF WarmupInv
    <2>2. CASE /\ UNCHANGED <<watchedType, toResend, out, reqCh, sub, warmPc>>
               /\ resp' \in {resp, None}
        BY Zenon, <1>3, <2>1, <2>2 DEF NoListener
    <2>3. CASE warmup
        <3>1. CASE WarmupWatch("nds", NDSRequired, "NameTable", "ndsWait")
            <4>1. /\ watchedType' = watchedType \cup {"NameTable"} /\ warmPc' = "ndsWait"
                  /\ UNCHANGED <<toResend, resp, reqCh, sub>>
                BY Zenon, <3>1 DEF WarmupWatch, WatchLock, senderVars, recvVars, netVars
            <4>2. out'.type = "NameTable"
                BY Zenon, <3>1 DEF WarmupWatch, WatchLock, prepareRequest
            <4> QED
                BY Zenon, <1>3, <2>1, <4>1, <4>2 DEF NoListener
        <3> QED
            BY Zenon, <1>3, <2>3, <3>1 DEF warmup, WarmupWatch, WarmupGoOn
    <2>4. CASE WatchSend \/ AckSend
        <3>1. out \in Request /\ reqCh' = Append(reqCh, out) /\ out' = None
              /\ reqCh \in Seq(Request) /\ out # None
            BY Zenon, <2>4 DEF WatchSend, AckSend, sendRequest, TypeInv, TypeOK, Locals
        <3>2. \A i \in 1..Len(reqCh') : reqCh'[i].type # "Listener"
            BY <1>3, <3>1, QueueElements DEF NoListener
        <3>3. UNCHANGED <<watchedType, toResend, sub, warmPc>> /\ resp' \in {resp, None}
            BY Zenon, <2>4 DEF WatchSend, AckSend, mapVars, senderVars, recvVars, warmVars, netVars
        <3> QED
            BY Zenon, <1>3, <2>1, <3>1, <3>2, <3>3 DEF NoListener
    <2>5. CASE TakeRequest
        <3>1. /\ reqCh \in Seq(Request) /\ reqCh # <<>> /\ reqCh' = Tail(reqCh)
              /\ Head(reqCh) \in Request /\ Head(reqCh) = reqCh[1] /\ 1 \in 1..Len(reqCh)
            BY <2>5 DEF TakeRequest, TypeInv, TypeOK
        <3>2. \A i \in 1..Len(reqCh') : i + 1 \in 1..Len(reqCh) /\ reqCh'[i] = reqCh[i + 1]
            BY <3>1
        <3>3. UNCHANGED <<watchedType, toResend, out, resp, warmPc>>
            BY Zenon, <2>5 DEF TakeRequest, lockVars, mapVars, recvVars, warmVars
        <3>4. Head(reqCh).type # "Listener"
            BY Zenon, <1>3, <3>1 DEF NoListener
        <3>5. \A s \in Stream : sub'[s]["Listener"] = None
            BY Zenon, <1>3, <2>5, <3>1, <3>4, SendOther DEF TakeRequest, SendFails, NoListener
        <3> QED
            BY <1>3, <2>1, <3>2, <3>3, <3>5 DEF NoListener
    <2>6. CASE ResendLock
        BY Zenon, <1>3, <2>1, <2>6 DEF ResendLock, NoListener, mapVars, recvVars, warmVars, netVars
    <2>7. ASSUME NEW t \in Type, Resend(t) PROVE WarmupInv'
        <3>1. prepareRequest(t, FALSE) \in Request /\ sendStream # 0
            BY Zenon, <2>7, PrepareType DEF TypeInv, TypeOK, Locals, Resend, mapVars
        <3>2. prepareRequest(t, FALSE).type # "Listener"
            BY Zenon, <1>3, <2>7 DEF Resend, NoListener, prepareRequest
        <3>3. \A s \in Stream : sub'[s]["Listener"] = None
            BY Zenon, <1>3, <2>7, <3>1, <3>2, SendOther DEF Resend, SendFails, NoListener
        <3>4. UNCHANGED <<watchedType, out, resp, reqCh, warmPc>> /\ toResend' \subseteq toResend
            BY Zenon, <2>7 DEF Resend, mapVars, recvVars, warmVars
        <3> QED
            BY Zenon, <1>3, <2>1, <3>3, <3>4 DEF NoListener
    <2>8. CASE Recv
        <3>1. UNCHANGED <<watchedType, toResend, out, reqCh, sub, warmPc>>
            BY Zenon, <2>8 DEF Recv, lockVars, mapVars, senderVars, warmVars
        <3>2. resp' = resp \/ resp'.type \in watchedType
            BY Zenon, <2>8 DEF Recv
        <3> QED
            BY Zenon, <1>3, <2>1, <3>1, <3>2 DEF NoListener
    <2>9. CASE updateAndACK
        <3>1. resp # None /\ out'.type = resp.type
            BY Zenon, <2>9 DEF updateAndACK, prepareRequest, TypeInv, Locals
        <3>2. UNCHANGED <<watchedType, toResend, resp, reqCh, sub, warmPc>>
            BY Zenon, <2>9 DEF updateAndACK, senderVars, warmVars, netVars
        <3> QED
            BY Zenon, <1>3, <2>1, <3>1, <3>2 DEF NoListener
    <2>10. CASE ResetMaps
        <3>1. UNCHANGED <<watchedType, toResend, out, resp, sub, warmPc>> /\ reqCh' = <<>>
            BY Zenon, <2>10 DEF ResetMaps, lockVars, senderVars, recvVars, warmVars, netVars
        <3>2. 1..Len(reqCh') = {}
            BY <3>1
        <3> QED
            BY Zenon, <1>3, <2>1, <3>1, <3>2 DEF NoListener
    <2>11. ASSUME NEW t \in Type, NEW n, NEW remove, ManagerWatch(t, n, remove) PROVE FALSE
        BY Zenon, <1>3, <2>11 DEF ManagerWatch
    <2>12. CASE SenderStop \/ TakeStream \/ ResendDone
        BY Zenon, <2>2, <2>12 DEF SenderStop, TakeStream, ResendDone, lockVars, mapVars, recvVars,
                           warmVars, netVars
    <2>13. CASE FilterResponse \/ Apply \/ AuthError \/ Reconnect \/ PublishStream
        BY Zenon, <2>2, <2>13 DEF FilterResponse, Apply, AuthError, Reconnect, PublishStream, lockVars,
                           mapVars, senderVars, warmVars, netVars
    <2>14. CASE Close \/ Break \/ UNCHANGED vars
        BY Zenon, <2>2, <2>14 DEF Close, Break, vars, lockVars, mapVars, senderVars, recvVars, warmVars,
                           netVars
    <2>15. ASSUME NEW t \in Type, NEW v \in 1..MaxVersion, NEW good \in BOOLEAN, Push(t, v, good)
           PROVE  WarmupInv'
        BY Zenon, <2>2, <2>15 DEF Push, lockVars, mapVars, senderVars, recvVars, warmVars
    <2> QED
        BY Zenon, <2>3, <2>4, <2>5, <2>6, <2>7, <2>8, <2>9, <2>10, <2>11, <2>12, <2>13, <2>14, <2>15
        DEF Next, Sender, Receiver
<1> QED
    BY Zenon, <1>1, <1>2, <1>3 DEF WarmupInv

\* With NDS required the server is asked for no listener before the first name
\* table has been applied.
THEOREM NameTableFirst == Spec => []ListenerAfterNameTable
<1>1. Init => WarmupInv
    <2> SUFFICES ASSUME Init, NDSRequired, "Listener" \in Type PROVE WarmupInv
        BY Zenon DEF WarmupInv
    <2>1. \A s \in Stream : sub[s]["Listener"] = None
        BY Zenon DEF Init
    <2>2. NoListener
        BY <2>1 DEF Init, NoListener
    <2> QED
        BY Zenon, <2>1, <2>2 DEF Init, WarmupInv
<1>2. WarmupInv => ListenerAfterNameTable
    BY Zenon DEF WarmupInv, ListenerAfterNameTable, NoListener
<1> QED
    BY <1>1, <1>2, WarmupStep, TypeInvariant, PTL DEF Spec

-----------------------------------------------------------------------------
(* No subscription is lost *)

\* The i-th request of the queue q is the last of its type there.
LastOfType(q, i) == \A j \in 1..Len(q) : j > i => q[j].type # q[i].type

InQueue(t) == \E i \in 1..Len(reqCh) : reqCh[i].type = t

\* A request for t is about to be put into the queue, with c.mu held.
Pending(t) == out # None /\ out.type = t

\* The sender is not about to resend t.
Resent(t) ==
    \/ sendPc \in {"select", "stopped"}
    \/ sendPc = "resend" /\ t \notin toResend

Current(r, t) == r # None /\ r.names = watchedResource[t]

\* SubscriptionCurrent while c.mu is held and while the sender resends: the last
\* request of a type is in the hands of the holder of c.mu, or in the queue, or
\* at the server.
SubInv ==
    /\ out # None => Current(out, out.type)
    /\ \A i \in 1..Len(reqCh) :
          LastOfType(reqCh, i) /\ ~Pending(reqCh[i].type) => Current(reqCh[i], reqCh[i].type)
    /\ \A t \in watchedType :
          Connected /\ Resent(t) /\ ~Pending(t) /\ ~InQueue(t) => Current(sub[recvStream][t], t)

\* A step that touches neither the watch list, the queue nor what was sent.
LEMMA SubSame ==
    ASSUME SubInv,
           UNCHANGED <<out, watchedResource, watchedType, reqCh, toResend, sub>>,
           \/ UNCHANGED <<sendPc, sendStream, recvStream>> /\ broken \subseteq broken'
           \/ /\ sendPc = "select" /\ sendPc' = "stopped"
              /\ UNCHANGED <<sendStream, recvStream, broken>>
           \/ sendPc' = "lock"
           \/ sendStream' # recvStream'
    PROVE  SubInv'
BY Zenon DEF SubInv, LastOfType, InQueue, Pending, Resent, Current, Connected

\* Watch and updateAndACK prepare a request from the watch list as it is.
LEMMA SubPrepare ==
    ASSUME TypeInv, SubInv, NEW t \in Type, NEW nack, out = None,
           out' = prepareRequest(t, nack), out' # None,
           watchedResource' \in [Type -> SUBSET (Name \cup {AnyName})],
           \A u \in Type : u # t => watchedResource'[u] = watchedResource[u],
           watchedType' \subseteq watchedType \cup {t},
           UNCHANGED <<reqCh, toResend, sub, sendPc, sendStream, recvStream, broken>>
    PROVE  SubInv'
<1>1. out'.type = t /\ out'.names = watchedResource'[t]
    BY Zenon DEF prepareRequest
<1>2. \A i \in 1..Len(reqCh) : reqCh[i].type \in Type
    BY Zenon, QueueType DEF Request
<1>3. \A i \in 1..Len(reqCh) :
          LastOfType(reqCh, i) /\ reqCh[i].type # t =>
              reqCh[i] # None /\ reqCh[i].names = watchedResource'[reqCh[i].type]
    BY Zenon, <1>2 DEF SubInv, Pending, Current
<1>4. \A u \in watchedType : u \in Type
    BY Zenon DEF TypeInv, TypeOK
<1>5. \A u \in watchedType' : u # t /\ Connected /\ Resent(u) /\ ~InQueue(u) =>
          sub[recvStream][u] # None /\ sub[recvStream][u].names = watchedResource'[u]
    BY Zenon, <1>4 DEF SubInv, Pending, Current
<1> QED
    BY Zenon, <1>1, <1>3, <1>5 DEF SubInv, LastOfType, InQueue, Pending, Resent, Current, Connected

\* sendRequest: the request becomes the last of its type in the queue.
LEMMA SubEnqueue ==
    ASSUME TypeInv, SubInv, out \in Request, out # None,
           reqCh' = Append(reqCh, out), out' = None,
           UNCHANGED <<watchedResource, watchedType, toResend, sub, sendPc, sendStream,
                       recvStream, broken>>
    PROVE  SubInv'
<1> DEFINE n == Len(reqCh)
<1>1. /\ n \in Nat /\ Len(reqCh') = n + 1
      /\ reqCh'[n + 1] = out
      /\ \A i \in 1..n : reqCh'[i] = reqCh[i]
    BY QueueType
<1> HIDE DEF n
<1>2. \A i \in 1..Len(reqCh') : LastOfType(reqCh', i) => Current(reqCh'[i], reqCh'[i].type)
    <2> SUFFICES ASSUME NEW i \in 1..(n + 1), LastOfType(reqCh', i)
                 PROVE  Current(reqCh'[i], reqCh'[i].type)
        BY Zenon, <1>1
    <2>1. CASE i = n + 1
        BY Zenon, <1>1, <2>1 DEF SubInv
    <2>2. CASE i \in 1..n
        <3>1. reqCh'[i] = reqCh[i] /\ out.type # reqCh[i].type
            BY <1>1, <2>2 DEF LastOfType
        <3>2. LastOfType(reqCh, i)
            BY <1>1, <2>2 DEF LastOfType, n
        <3> QED
            BY Zenon, <2>2, <3>1, <3>2 DEF SubInv, Pending, n
    <2> QED
        BY <1>1, <2>1, <2>2
<1>3. \A t \in watchedType : ~InQueue(t)' => ~InQueue(t) /\ ~Pending(t)
    BY <1>1 DEF InQueue, Pending, n
<1> QED
    BY Zenon, <1>2, <1>3 DEF SubInv, Resent, Current, Connected

\* Send makes req the server's request of its type, on a stream that works.
LEMMA SubSend ==
    ASSUME TypeInv, StreamInv, sendStream # 0, NEW req \in Request, SendOK(req)
    PROVE  Connected => /\ \A t \in Type : t # req.type => sub'[recvStream][t] = sub[recvStream][t]
                        /\ sub'[recvStream][req.type] = req
<1> SUFFICES ASSUME Connected
             PROVE  /\ \A t \in Type : t # req.type => sub'[recvStream][t] = sub[recvStream][t]
                    /\ sub'[recvStream][req.type] = req
    OBVIOUS
<1>1. sub' = [sub EXCEPT ![recvStream][req.type] = req]
    BY Zenon DEF SendOK, Connected
<1>2. recvStream \in Stream /\ req.type \in Type
    BY Zenon DEF TypeInv, TypeOK, Request
<1> QED
    BY Zenon, <1>1, <1>2 DEF TypeInv, TypeOK

\* The sender takes a request from the queue and sends it, drops it, or loses
\* its stream.
LEMMA SubTake ==
    ASSUME TypeInv, StreamInv, SubInv, TakeRequest
    PROVE  SubInv'
<1> DEFINE n == Len(reqCh)
           h == Head(reqCh)
<1>1. /\ n \in Nat /\ 1 \in 1..n /\ Len(reqCh') = n - 1
      /\ h = reqCh[1] /\ h \in Request
      /\ \A i \in 1..(n - 1) : i + 1 \in 1..n /\ reqCh'[i] = reqCh[i + 1]
    BY QueueType DEF TakeRequest
<1>2. /\ UNCHANGED <<out, watchedResource, watchedType, toResend, recvStream, broken, sendPc>>
      /\ sendPc = "select"
    BY Zenon DEF TakeRequest, lockVars, mapVars, recvVars
<1> HIDE DEF n, h
<1>3. \A i \in 1..Len(reqCh') :
          LastOfType(reqCh', i) /\ ~Pending(reqCh'[i].type) => Current(reqCh'[i], reqCh'[i].type)
    <2> SUFFICES ASSUME NEW i \in 1..(n - 1), LastOfType(reqCh', i), ~Pending(reqCh'[i].type)
                 PROVE  Current(reqCh'[i], reqCh'[i].type)
        BY Zenon, <1>1
    <2>1. i + 1 \in 1..n /\ reqCh'[i] = reqCh[i + 1]
        BY Zenon, <1>1
    <2>2. LastOfType(reqCh, i + 1)
        <3> SUFFICES ASSUME NEW j \in 1..n, j > i + 1 PROVE reqCh[j].type # reqCh[i + 1].type
            BY Zenon DEF LastOfType, n
        <3>1. j - 1 \in 1..(n - 1) /\ j - 1 > i /\ reqCh'[j - 1] = reqCh[j]
            BY <1>1
        <3> QED
            BY Zenon, <1>1, <2>1, <3>1 DEF LastOfType
    <2> QED
        BY Zenon, <2>1, <2>2 DEF SubInv, n
<1>4. \A t \in watchedType : t # h.type /\ ~InQueue(t)' => ~InQueue(t)
    <2> SUFFICES ASSUME NEW t \in watchedType, t # h.type, NEW i \in 1..n, reqCh[i].type = t
                 PROVE  InQueue(t)'
        BY Zenon DEF InQueue, n
    <2>1. i # 1
        BY Zenon, <1>1
    <2>2. i - 1 \in 1..Len(reqCh') /\ reqCh'[i - 1] = reqCh[i]
        BY <1>1, <2>1
    <2> QED
        BY Zenon, <2>2 DEF InQueue
<1>5. \A t \in watchedType : t = h.type /\ ~InQueue(t)' /\ ~Pending(t) => Current(h, t)
    <2> SUFFICES ASSUME NEW t \in watchedType, t = h.type, ~InQueue(t)', ~Pending(t)
                 PROVE  Current(h, t)
        OBVIOUS
    <2>1. LastOfType(reqCh, 1)
        <3> SUFFICES ASSUME NEW j \in 1..n, j > 1, reqCh[j].type = t PROVE FALSE
            BY Zenon, <1>1 DEF LastOfType, n
        <3>1. j - 1 \in 1..Len(reqCh') /\ reqCh'[j - 1] = reqCh[j]
            BY <1>1
        <3> QED
            BY Zenon, <3>1 DEF InQueue
    <2> QED
        BY Zenon, <1>1, <2>1 DEF SubInv, n
<1>6. CASE Connected'
    <2>1. sendStream # 0 /\ sendStream' = sendStream /\ SendOK(h) /\ Connected
        BY <1>2, <1>6 DEF TakeRequest, Connected, SendFails, TypeInv, TypeOK, Stream, h
    <2>2. /\ \A t \in Type : t # h.type => sub'[recvStream][t] = sub[recvStream][t]
          /\ sub'[recvStream][h.type] = h
        BY Zenon, <1>1, <2>1, SubSend
    <2>3. ASSUME NEW t \in watchedType, ~Pending(t), ~InQueue(t)'
          PROVE  Current(sub'[recvStream][t], t)
        <3>1. CASE t = h.type
            BY Zenon, <1>5, <2>2, <2>3, <3>1
        <3>2. CASE t # h.type
            <4>1. t \in Type
                BY Zenon DEF TypeInv, TypeOK
            <4> QED
                BY Zenon, <1>2, <1>4, <2>1, <2>2, <2>3, <3>2, <4>1 DEF SubInv, Resent
        <3> QED
            BY Zenon, <3>1, <3>2
    <2> QED
        BY Zenon, <1>2, <1>3, <2>3 DEF SubInv, Pending, Current
<1>7. CASE ~Connected'
    BY Zenon, <1>2, <1>3, <1>7 DEF SubInv, Pending, Current
<1> QED
    BY Zenon, <1>6, <1>7

\* reqWhenReconnect sends the watched names of one type, or loses its stream.
LEMMA SubResend ==
    ASSUME TypeInv, StreamInv, SubInv, NEW t \in Type, Resend(t)
    PROVE  SubInv'
<1> DEFINE req == prepareRequest(t, FALSE)
<1>1. /\ UNCHANGED <<out, watchedResource, watchedType, reqCh, recvStream, broken>>
      /\ sendPc = "resend" /\ sendStream # 0
    BY Zenon DEF Resend, mapVars, recvVars, TypeInv, Locals
<1>2. req \in Request /\ req.type = t /\ req.names = watchedResource[t]
    BY Zenon, <1>1, PrepareType DEF Resend, mapVars, TypeInv, TypeOK, prepareRequest
<1> HIDE DEF req
<1>3. CASE Connected'
    <2>1. sendStream' # 0
        BY <1>1, <1>3, ConstantsAssumption DEF Connected, TypeInv, TypeOK, Stream
    <2>2. SendOK(req) /\ toResend' = toResend \ {t} /\ UNCHANGED <<mu, sendPc, sendStream>>
        BY <2>1, Zenon DEF Resend, req
    <2>3. /\ SendOK(req) /\ toResend' = toResend \ {t} /\ UNCHANGED <<sendPc, sendStream>>
          /\ Connected
        BY Zenon, <1>1, <1>3, <2>2 DEF Connected
    <2>4. /\ \A u \in Type : u # t => sub'[recvStream][u] = sub[recvStream][u]
          /\ sub'[recvStream][t] = req
        BY Zenon, <1>1, <1>2, <2>3, SubSend
    <2>5. req # None
        BY Zenon, <1>2, NoneAssumption
    <2>6. \A u \in watchedType : u \in Type
        BY Zenon DEF TypeInv, TypeOK
    <2>7. \A u \in watchedType : Resent(u)' /\ ~Pending(u) /\ ~InQueue(u) =>
              Current(sub'[recvStream][u], u)
        BY Zenon, <1>1, <1>2, <2>3, <2>4, <2>5, <2>6 DEF SubInv, Resent, Current
    <2> QED
        BY Zenon, <1>1, <2>7 DEF SubInv, LastOfType, InQueue, Pending, Current
<1>4. CASE ~Connected'
    BY Zenon, <1>1, <1>4 DEF SubInv, LastOfType, InQueue, Pending, Current
<1> QED
    BY Zenon, <1>3, <1>4

\* Every step preserves SubInv.
LEMMA SubStep == TypeInv /\ StreamInv /\ SubInv /\ [Step]_vars => SubInv'
<1> SUFFICES ASSUME TypeInv, StreamInv, SubInv, [Step]_vars PROVE SubInv'
    OBVIOUS
<1> USE ConstantsAssumption, NoneAssumption
<1>1. ASSUME NEW t \in Type, NEW n \in Name \cup {AnyName}, NEW remove \in BOOLEAN,
             WatchLock(t, n, remove), UNCHANGED <<reqCh, senderVars, recvVars, netVars>>
      PROVE  SubInv'
    <2>1. out = None
        BY Zenon, <1>1 DEF WatchLock, TypeInv, Locals
    <2>2. /\ watchedResource' = [watchedResource EXCEPT ![t] =
                                   IF remove THEN @ \ {n} ELSE @ \cup {n}]
          /\ watchedType' = watchedType \cup {t}
          /\ out' = prepareRequest(t, FALSE)
        BY <1>1, Zenon DEF WatchLock
    <2>3. /\ watchedResource' \in [Type -> SUBSET (Name \cup {AnyName})]
          /\ \A u \in Type : u # t => watchedResource'[u] = watchedResource[u]
        BY Zenon, <2>2 DEF TypeInv, TypeOK
    <2>4. TypeInv'
        BY Zenon, TypeStep
    <2>5. out' # None
        BY Zenon, <1>1, <2>4 DEF WatchLock, TypeInv, Locals
    <2>6. UNCHANGED <<reqCh, toResend, sub, sendPc, sendStream, recvStream, broken>>
        BY Zenon, <1>1 DEF senderVars, recvVars, netVars
    <2> QED
        BY Zenon, <2>1, <2>2, <2>3, <2>5, <2>6, SubPrepare
<1>2. ASSUME NEW t \in Type, NEW n \in Name \cup {AnyName}, NEW remove \in BOOLEAN,
             ManagerWatch(t, n, remove)
      PROVE  SubInv'
    BY Zenon, <1>1, <1>2 DEF ManagerWatch
<1>3. CASE warmup
    <2>1. CASE WarmupWatch("nds", NDSRequired, "NameTable", "ndsWait")
        BY Zenon, <1>1, <2>1 DEF WarmupWatch
    <2>2. CASE WarmupWatch("lds", LDSRequired, "Listener", "ldsWait")
        BY Zenon, <1>1, <2>2 DEF WarmupWatch
    <2>3. CASE \/ WarmupGoOn("nds", "ndsWait", NDSRequired, "NameTable", "lds")
               \/ WarmupGoOn("lds", "ldsWait", LDSRequired, "Listener", "done")
        BY Zenon, <2>3, SubSame DEF WarmupGoOn, lockVars, mapVars, senderVars, recvVars, netVars
    <2> QED
        BY Zenon, <1>3, <2>1, <2>2, <2>3 DEF warmup
<1>4. CASE WatchSend \/ AckSend
    <2>1. out \in Request /\ out # None /\ reqCh' = Append(reqCh, out) /\ out' = None
        BY Zenon, <1>4 DEF WatchSend, AckSend, sendRequest, TypeInv, TypeOK, Locals
    <2>2. UNCHANGED <<watchedResource, watchedType, toResend, sub, sendPc, sendStream,
                      recvStream, broken>>
        BY Zenon, <1>4 DEF WatchSend, AckSend, mapVars, senderVars, recvVars, netVars
    <2> QED
        BY Zenon, <2>1, <2>2, SubEnqueue
<1>5. CASE TakeRequest
    BY Zenon, <1>5, SubTake
<1>6. CASE SenderStop \/ TakeStream
    BY Zenon, <1>6, SubSame
    DEF SenderStop, TakeStream, lockVars, mapVars, recvVars, netVars
<1>7. CASE ResendLock
    <2>1. /\ UNCHANGED <<out, watchedResource, watchedType, reqCh>>
          /\ sendPc' = "resend" /\ toResend' = watchedType
        BY Zenon, <1>7 DEF ResendLock, mapVars
    <2> QED
        BY Zenon, <2>1 DEF SubInv, LastOfType, InQueue, Pending, Resent, Current
<1>8. ASSUME NEW t \in Type, Resend(t) PROVE SubInv'
    BY Zenon, <1>8, SubResend
<1>9. CASE ResendDone
    <2>1. /\ UNCHANGED <<out, watchedResource, watchedType, reqCh, sub>>
          /\ UNCHANGED <<sendStream, recvStream, broken>>
          /\ sendPc = "resend" /\ toResend = {}
        BY Zenon, <1>9 DEF ResendDone, mapVars, recvVars, netVars
    <2> QED
        BY Zenon, <2>1 DEF SubInv, LastOfType, InQueue, Pending, Resent, Current, Connected
<1>10. CASE updateAndACK
    <2>1. out = None /\ resp \in Response
        BY Zenon, <1>10 DEF updateAndACK, TypeInv, TypeOK, Locals
    <2>2. resp.type \in Type
        BY Zenon, <2>1 DEF Response
    <2>3. out' = prepareRequest(resp.type, ~resp.good) /\ UNCHANGED <<watchedResource, watchedType>>
        BY Zenon, <1>10 DEF updateAndACK
    <2>4. TypeInv'
        BY Zenon, TypeStep
    <2>5. out' # None
        BY Zenon, <1>10, <2>4 DEF updateAndACK, TypeInv, Locals
    <2>6. UNCHANGED <<reqCh, toResend, sub, sendPc, sendStream, recvStream, broken>>
        BY Zenon, <1>10 DEF updateAndACK, senderVars, netVars
    <2>7. watchedResource' \in [Type -> SUBSET (Name \cup {AnyName})]
        BY Zenon, <2>3 DEF TypeInv, TypeOK
    <2> QED
        BY Zenon, <2>1, <2>2, <2>3, <2>5, <2>6, <2>7, SubPrepare
<1>11. CASE Reconnect
    <2>1. sendStream' # recvStream'
        BY <1>11 DEF Reconnect, StreamInv, StreamsInOrder, senderVars, TypeInv, TypeOK, Stream
    <2> QED
        BY Zenon, <1>11, <2>1, SubSame DEF Reconnect, lockVars, mapVars, senderVars
<1>12. CASE ResetMaps
    <2>1. /\ UNCHANGED <<out, watchedResource, watchedType, sendStream, recvStream>>
          /\ reqCh' = <<>> /\ recvPc = "reset"
        BY Zenon, <1>12 DEF ResetMaps, lockVars, senderVars
    <2>2. sendStream' # recvStream'
        BY <2>1 DEF StreamInv, TypeInv, TypeOK, Stream
    <2>3. 1..Len(reqCh') = {}
        BY <2>1
    <2> QED
        BY Zenon, <2>1, <2>2, <2>3 DEF SubInv, Pending, Current, Connected
<1>13. CASE Recv \/ FilterResponse \/ Apply \/ AuthError \/ PublishStream
    BY Zenon, <1>13, SubSame DEF Recv, FilterResponse, Apply, AuthError, PublishStream, lockVars, mapVars,
                          senderVars, netVars
<1>14. CASE Close \/ Break \/ UNCHANGED vars
    BY Zenon, <1>14, SubSame DEF Close, Break, vars, lockVars, mapVars, senderVars, recvVars, netVars
<1>15. ASSUME NEW t \in Type, NEW v \in 1..MaxVersion, NEW good \in BOOLEAN, Push(t, v, good)
       PROVE  SubInv'
    BY Zenon, <1>15, SubSame DEF Push, lockVars, mapVars, senderVars, recvVars
<1>16. CASE UNCHANGED <<lockVars, mapVars, reqCh, streamCh, closeCh, senderVars, recvVars,
                        warmPc, applied, netVars>>
    BY Zenon, <1>16, SubSame DEF lockVars, mapVars, senderVars, recvVars, netVars
<1> QED
    BY ZenonT(60), <1>2, <1>3, <1>4, <1>5, <1>6, <1>7, <1>8, <1>9, <1>10, <1>11, <1>12, <1>13, <1>14,
       <1>15, <1>16
    DEF Step, Next, Sender, Receiver

\* Nothing is watched at first.
LEMMA SubInit == Init => SubInv
<1> SUFFICES ASSUME Init PROVE SubInv
    OBVIOUS
<1>1. reqCh = <<>> /\ out = None /\ watchedType = {}
    BY Zenon DEF Init
<1>2. 1..Len(reqCh) = {}
    BY <1>1
<1> QED
    BY Zenon, <1>1, <1>2 DEF SubInv

\* SubInv makes the subscriptions current.
LEMMA SubNow == TypeInv /\ SubInv => SubscriptionCurrent
<1> SUFFICES ASSUME TypeInv, SubInv, Connected, sendPc \in {"select", "stopped"}, mu = None,
                    NEW t \in watchedType, NEW r \in Latest(t)
             PROVE  Current(r, t)
    BY Zenon DEF SubscriptionCurrent, Current
<1>1. ~Pending(t) /\ Resent(t)
    BY Zenon, NoneAssumption DEF Pending, Resent, TypeInv, Locals
<1>2. CASE ~InQueue(t)
    <2>1. r = sub[recvStream][t]
        BY Zenon, <1>2 DEF Latest, InQueue
    <2> QED
        BY Zenon, <1>1, <1>2, <2>1 DEF SubInv
<1>3. CASE InQueue(t)
    <2>1. PICK i \in 1..Len(reqCh) :
              /\ r = reqCh[i] /\ reqCh[i].type = t
              /\ \A j \in 1..Len(reqCh) : reqCh[j].type = t => j <= i
        BY Zenon, <1>3 DEF Latest, InQueue
    <2>2. LastOfType(reqCh, i)
        BY <2>1, QueueType DEF LastOfType
    <2> QED
        BY Zenon, <1>1, <2>1, <2>2 DEF SubInv
<1> QED
    BY Zenon, <1>2, <1>3

\* No subscription is lost: the last request of every watched type, in the queue
\* or at the server, lists exactly the watched names, however Watch, the answers
\* to responses and reconnections interleave.
THEOREM SubscriptionsCurrent == Spec => []SubscriptionCurrent
BY SubInit, SubNow, SubStep, TypeInvariant, StreamInvariant, PTL DEF Spec, Step

-----------------------------------------------------------------------------
(* The answers on one stream never go back *)

\* The nonces of a stream are numbered in the order in which they are issued.
Number(n) == n[2]

\* The sender has not begun to resend on stream s: it is not open, not handed
\* over, or just taken.
Unused(s) ==
    \/ s > recvStream
    \/ s = recvStream /\ recvPc \in {"reset", "publish"}
    \/ s = streamCh
    \/ s = sendStream /\ sendPc = "lock"

\* The server has nothing to respond to on such a stream.
UnusedInv ==
    \A s \in Stream : Unused(s) => issued[s] = 0 /\ \A t \in Type : sub[s][t] = None

\* So there are no nonces of the stream on which the sender resends, as long as it
\* does: updateAndACK waits for c.mu.
ResendInv ==
    sendPc = "resend" /\ sendStream = recvStream =>
        /\ \A t \in Type : Number(nonceMap[t]) = 0
        /\ \A t \in toResend : sub[sendStream][t] = None

\* Responses come in order, after the one being handled, and that after those
\* answered.
ResponseInv ==
    recvPc # "reset" =>
        \A i \in 1..Len(down[recvStream]) :
            LET n == Number(down[recvStream][i].nonce)
            IN  /\ \A t \in Type : Number(nonceMap[t]) <= n
                /\ \A j \in 1..Len(down[recvStream]) :
                      i < j => n <= Number(down[recvStream][j].nonce)
                /\ resp # None => Number(resp.nonce) <= n

HandledInv ==
    recvPc = "handle" => \A t \in Type : Number(nonceMap[t]) <= Number(resp.nonce)

\* The requests for a type are in the order of their nonces: the server's, those
\* of the queue, the one about to follow, and nonceMap.
OrderInv ==
    recvPc # "reset" =>
        /\ \A t \in Type :
              sub[recvStream][t] # None => Number(sub[recvStream][t].nonce) <= Number(nonceMap[t])
        /\ \A i \in 1..Len(reqCh) :
              /\ Number(reqCh[i].nonce) <= Number(nonceMap[reqCh[i].type])
              /\ sub[recvStream][reqCh[i].type] # None =>
                    Number(sub[recvStream][reqCh[i].type].nonce) <= Number(reqCh[i].nonce)
        /\ \A i, j \in 1..Len(reqCh) :
              i < j /\ reqCh[i].type = reqCh[j].type =>
                  Number(reqCh[i].nonce) <= Number(reqCh[j].nonce)
        /\ out # None => Number(out.nonce) = Number(nonceMap[out.type])

\* Nonces have numbers, and those issued on a stream are counted.
LEMMA Numbers ==
    /\ \A n \in Nonce : Number(n) \in Nat
    /\ Number(NoNonce) = 0
    /\ \A n \in Nonce, s, c \in Nat : IssuedOn(n, s, c) => Number(n) <= c
BY ConstantsAssumption DEF Number, Nonce, NoNonce, IssuedOn

\* Where nonces are.
LEMMA NonceTypes ==
    ASSUME TypeInv
    PROVE  /\ \A t \in Type : nonceMap[t] \in Nonce
           /\ \A i \in 1..Len(reqCh) : reqCh[i].type \in Type /\ reqCh[i].nonce \in Nonce
           /\ out # None => out.type \in Type /\ out.nonce \in Nonce
           /\ resp # None => resp.type \in Type /\ resp.nonce \in Nonce
           /\ \A s \in Stream, t \in Type : sub[s][t] # None => sub[s][t].nonce \in Nonce
           /\ \A s \in Stream : \A i \in 1..Len(down[s]) : down[s][i].nonce \in Nonce
<1>1. \A r \in Request : r.type \in Type /\ r.nonce \in Nonce
    BY Zenon DEF Request
<1>2. \A r \in Response : r.type \in Type /\ r.nonce \in Nonce
    BY Zenon DEF Response
<1>3. \A i \in 1..Len(reqCh) : reqCh[i] \in Request
    BY Zenon, QueueType
<1>4. \A s \in Stream : \A i \in 1..Len(down[s]) : down[s][i] \in Response
    BY DEF TypeInv, TypeOK
<1>5. \A t \in Type : nonceMap[t] \in Nonce
    BY Zenon DEF TypeInv, TypeOK
<1>6. out # None => out \in Request
    BY Zenon DEF TypeInv, TypeOK
<1>7. resp # None => resp \in Response
    BY Zenon DEF TypeInv, TypeOK
<1>8. \A s \in Stream, t \in Type : sub[s][t] # None => sub[s][t] \in Request
    BY DEF TypeInv, TypeOK
<1> QED
    BY Zenon, <1>1, <1>2, <1>3, <1>4, <1>5, <1>6, <1>7, <1>8

\* The server gets req on the receiver's stream, which is in use, or nothing.
Sent(req) ==
    \/ sub' = sub
    \/ /\ sendStream = recvStream /\ recvPc # "reset" /\ ~Unused(recvStream)
       /\ \A s \in Stream, t \in Type :
             sub'[s][t] = IF s = recvStream /\ t = req.type THEN req ELSE sub[s][t]

\* Send works on the receiver's stream only.
LEMMA SendWorks ==
    ASSUME TypeInv, StreamInv, sendStream # 0, sendPc # "lock", NEW req \in Request, SendOK(req)
    PROVE  Sent(req)
<1> USE ConstantsAssumption
<1>1. CASE sendStream \in broken
    BY Zenon, <1>1 DEF SendOK, Sent
<1>2. CASE sendStream \notin broken
    <2>1. sendStream = recvStream /\ sendStream \in Stream
        BY <1>2 DEF TypeInv, TypeOK, StreamInv, StreamsInOrder, Stream
    <2>2. recvPc \notin {"reset", "publish"} /\ streamCh # recvStream
        BY <2>1 DEF StreamInv, StreamsInOrder, TypeInv, TypeOK, Stream
    <2>3. ~Unused(recvStream)
        BY <2>1, <2>2 DEF Unused, Stream
    <2>4. sub' = [sub EXCEPT ![recvStream][req.type] = req] /\ req.type \in Type
        BY Zenon, <1>2, <2>1 DEF SendOK, Request
    <2>5. \A s \in Stream, t \in Type :
             sub'[s][t] = IF s = recvStream /\ t = req.type THEN req ELSE sub[s][t]
        BY Zenon, <2>1, <2>4 DEF TypeInv, TypeOK
    <2> QED
        BY Zenon, <2>1, <2>2, <2>3, <2>5 DEF Sent
<1> QED
    BY Zenon, <1>1, <1>2

\* The sender sends the first request of the queue ...
LEMMA TakeSends ==
    ASSUME TypeInv, StreamInv, TakeRequest
    PROVE  Sent(Head(reqCh)) /\ Head(reqCh) \in Request /\ Head(reqCh) = reqCh[1]
<1>1. Head(reqCh) \in Request /\ Head(reqCh) = reqCh[1] /\ sendPc = "select"
    BY QueueType DEF TakeRequest
<1>2. CASE sub' = sub
    BY Zenon, <1>1, <1>2 DEF Sent
<1>3. CASE sendStream # 0 /\ SendOK(Head(reqCh))
    BY Zenon, <1>1, <1>3, SendWorks
<1>4. sub' = sub \/ (sendStream # 0 /\ SendOK(Head(reqCh)))
    BY Zenon DEF TakeRequest, SendFails
<1> QED
    BY Zenon, <1>1, <1>2, <1>3, <1>4

\* ... or one with the nonce of nonceMap.
LEMMA ResendSends ==
    ASSUME TypeInv, StreamInv, NEW t \in Type, Resend(t)
    PROVE  \E req \in Request : req.type = t /\ req.nonce = nonceMap[t] /\ Sent(req)
<1> DEFINE req == prepareRequest(t, FALSE)
<1>1. sendPc = "resend" /\ sendStream # 0 /\ nonceMap' = nonceMap
    BY Zenon DEF Resend, mapVars, TypeInv, Locals
<1>2. req \in Request /\ req.type = t /\ req.nonce = nonceMap[t]
    BY Zenon, <1>1, PrepareType DEF Resend, mapVars, TypeInv, TypeOK, prepareRequest
<1>3. SendOK(req) \/ sub' = sub
    BY Zenon DEF Resend, req, SendFails
<1> HIDE DEF req
<1>4. Sent(req)
    <2>1. CASE sub' = sub
        BY Zenon, <2>1 DEF Sent
    <2> QED
        BY Zenon, <1>1, <1>2, <1>3, <2>1, SendWorks
<1> QED
    BY Zenon, <1>2, <1>4

\* Every step preserves UnusedInv.
LEMMA UnusedStep == TypeInv /\ StreamInv /\ UnusedInv /\ [Next]_vars => UnusedInv'
<1> SUFFICES ASSUME TypeInv, StreamInv, UnusedInv, [Next]_vars PROVE UnusedInv'
    OBVIOUS
<1> USE ConstantsAssumption
<1>0. recvStream \in Stream /\ Stream \subseteq Nat \ {0}
    BY DEF TypeInv, TypeOK, Stream
<1>1. CASE UNCHANGED <<sub, issued>> /\ \A s \in Stream : Unused(s)' => Unused(s)
    BY Zenon, <1>1 DEF UnusedInv
<1>2. CASE /\ UNCHANGED <<sub, issued, recvStream, streamCh, sendStream>>
           /\ recvPc' \in {"reset", "publish"} => recvPc \in {"reset", "publish"}
           /\ sendPc' = "lock" => sendPc = "lock"
    BY Zenon, <1>1, <1>2 DEF Unused
<1>3. ASSUME NEW req, Sent(req), UNCHANGED <<recvStream, recvPc, streamCh, issued>>,
             sendPc' # "lock"
      PROVE  UnusedInv'
    <2>1. \A s \in Stream : Unused(s)' => Unused(s)
        BY Zenon, <1>3 DEF Unused
    <2>2. \A s \in Stream, t \in Type : Unused(s) => sub'[s][t] = sub[s][t]
        BY Zenon, <1>3 DEF Sent
    <2> QED
        BY Zenon, <1>3, <2>1, <2>2 DEF UnusedInv
<1>4. CASE TakeRequest
    BY Zenon, <1>3, <1>4, TakeSends DEF TakeRequest, recvVars
<1>5. ASSUME NEW t \in Type, Resend(t) PROVE UnusedInv'
    <2>1. UNCHANGED <<recvStream, recvPc, streamCh, issued>> /\ sendPc' # "lock"
        BY Zenon, <1>5 DEF Resend, recvVars
    <2> QED
        BY Zenon, <1>3, <1>5, <2>1, ResendSends
<1>6. CASE SenderStop \/ TakeStream \/ ResendLock \/ ResendDone
    <2>1. CASE TakeStream
        BY Zenon, <1>0, <1>1, <2>1 DEF TakeStream, Unused, recvVars, netVars
    <2> QED
        BY Zenon, <1>2, <1>6, <2>1 DEF SenderStop, ResendLock, ResendDone, recvVars, netVars
<1>7. CASE Reconnect
    BY <1>0, <1>1, <1>7 DEF Reconnect, Unused, senderVars
<1>8. CASE PublishStream
    BY Zenon, <1>1, <1>8 DEF PublishStream, NextRound, Unused, senderVars, netVars
<1>9. CASE Receiver
    BY Zenon, <1>2, <1>7, <1>8, <1>9
    DEF Receiver, Recv, updateAndACK, AckSend, FilterResponse, Apply, AuthError, ResetMaps,
        NextRound, senderVars, netVars
<1>10. ASSUME NEW t \in Type, NEW v \in 1..MaxVersion, NEW good \in BOOLEAN, Push(t, v, good)
       PROVE  UnusedInv'
    <2>1. ~Unused(recvStream)
        BY Zenon, <1>0, <1>10 DEF Push, UnusedInv
    <2>2. /\ \A s \in Stream : s # recvStream => issued'[s] = issued[s]
          /\ UNCHANGED <<sub, recvStream, recvPc, streamCh, sendStream, sendPc>>
        BY Zenon, <1>0, <1>10 DEF Push, TypeInv, TypeOK, recvVars, senderVars
    <2> QED
        BY Zenon, <2>1, <2>2 DEF UnusedInv, Unused
<1>11. CASE warmup
    BY Zenon, <1>2, <1>11 DEF warmup, WarmupWatch, WarmupGoOn, senderVars, recvVars, netVars
<1> QED
    BY Zenon, <1>2, <1>4, <1>5, <1>6, <1>9, <1>10, <1>11
    DEF Next, Sender, ManagerWatch, WatchSend, Close, Break, vars, senderVars, recvVars, netVars

\* A change of nonceMap waits for c.mu, which the sender holds while it resends.
LEMMA NonceMapLocked ==
    ASSUME TypeInv, [Next]_vars, sendPc = "resend"
    PROVE  nonceMap' = nonceMap
<1>1. mu # None
    BY Zenon, NoneAssumption DEF TypeInv, Locals
<1>2. CASE Receiver
    BY Zenon, <1>1, <1>2
    DEF Receiver, Recv, updateAndACK, AckSend, FilterResponse, Apply, AuthError, Reconnect,
        ResetMaps, PublishStream, mapVars
<1>3. CASE warmup
    BY Zenon, <1>3 DEF warmup, WarmupWatch, WatchLock, WarmupGoOn, mapVars
<1>4. CASE Sender
    BY Zenon, <1>4 DEF Sender, SenderStop, TakeRequest, TakeStream, ResendLock, Resend, ResendDone, mapVars
<1> QED
    BY Zenon, <1>2, <1>3, <1>4
    DEF Next, ManagerWatch, WatchLock, WatchSend, Close, Push, Break, vars, mapVars

\* Every step preserves ResendInv.
LEMMA ResendStep ==
    TypeInv /\ StreamInv /\ NonceInv /\ UnusedInv /\ ResendInv /\ [Next]_vars => ResendInv'
<1> SUFFICES ASSUME TypeInv, StreamInv, NonceInv, UnusedInv, ResendInv, [Next]_vars
             PROVE  ResendInv'
    OBVIOUS
<1> USE ConstantsAssumption
<1>1. CASE sendPc' # "resend"
    BY Zenon, <1>1 DEF ResendInv
<1>2. CASE ResendLock
    <2>1. /\ sendPc = "lock" /\ UNCHANGED <<sendStream, recvStream, recvPc, nonceMap, sub>>
          /\ toResend' = watchedType
        BY Zenon, <1>2 DEF ResendLock, recvVars, mapVars, netVars
    <2> SUFFICES ASSUME sendStream = recvStream
                 PROVE  /\ \A t \in Type : Number(nonceMap[t]) = 0
                        /\ \A t \in watchedType : sub[sendStream][t] = None
        BY Zenon, <2>1 DEF ResendInv
    <2>2. recvPc # "reset" /\ recvStream \in Stream /\ recvStream \in Nat
        BY DEF StreamInv, TypeInv, TypeOK, Stream
    <2>3. issued[recvStream] = 0 /\ \A t \in Type : sub[recvStream][t] = None
        BY Zenon, <2>1, <2>2 DEF UnusedInv, Unused
    <2>4. ASSUME NEW t \in Type PROVE Number(nonceMap[t]) = 0
        <3>1. IssuedOn(nonceMap[t], recvStream, 0) /\ nonceMap[t] \in Nonce
            BY Zenon, <2>2, <2>3, NonceTypes DEF NonceInv
        <3> QED
            BY <2>2, <3>1, Numbers
    <2> QED
        BY Zenon, <2>3, <2>4 DEF TypeInv, TypeOK
<1>3. ASSUME NEW t \in Type, Resend(t), sendPc' = "resend" PROVE ResendInv'
    <2>1. UNCHANGED <<sendStream, recvStream>> /\ toResend' = toResend \ {t} /\ sendPc = "resend"
        BY Zenon, <1>3 DEF Resend, recvVars
    <2>2. PICK req \in Request : req.type = t /\ Sent(req)
        BY Zenon, <1>3, ResendSends
    <2>3. \A u \in toResend' : u \in Type /\ u # t
        BY Zenon, <2>1 DEF TypeInv, TypeOK
    <2>4. sendStream = recvStream => sendStream \in Stream
        BY Zenon DEF TypeInv, TypeOK
    <2>5. sendStream = recvStream => \A u \in toResend' : sub'[sendStream][u] = sub[sendStream][u]
        BY Zenon, <2>2, <2>3, <2>4 DEF Sent
    <2>6. nonceMap' = nonceMap
        BY Zenon, <2>1, NonceMapLocked
    <2> QED
        BY Zenon, <2>1, <2>5, <2>6 DEF ResendInv
<1>4. CASE sendPc = "resend" /\ UNCHANGED <<toResend, sub, sendStream, recvStream>>
    BY Zenon, <1>4, NonceMapLocked DEF ResendInv
<1>5. CASE Reconnect
    BY <1>5 DEF Reconnect, ResendInv, StreamInv, StreamsInOrder, senderVars, TypeInv, TypeOK, Stream
<1>6. CASE Sender
    <2>1. ASSUME SenderStop \/ TakeRequest \/ TakeStream \/ ResendDone PROVE sendPc' # "resend"
        BY Zenon, <2>1 DEF SenderStop, TakeRequest, TakeStream, ResendDone
    <2> QED
        BY Zenon, <1>1, <1>2, <1>3, <1>6, <2>1 DEF Sender
<1>7. ASSUME ~Sender, ~Reconnect
      PROVE  UNCHANGED <<sendPc, toResend, sub, sendStream, recvStream>>
    <2>1. CASE Receiver
        BY Zenon, <1>7, <2>1
        DEF Receiver, Recv, updateAndACK, AckSend, FilterResponse, Apply, AuthError, ResetMaps,
            PublishStream, senderVars, netVars
    <2>2. CASE warmup
        BY Zenon, <2>2 DEF warmup, WarmupWatch, WarmupGoOn, senderVars, recvVars, netVars
    <2> QED
        BY Zenon, <1>7, <2>1, <2>2
        DEF Next, ManagerWatch, WatchSend, Close, Push, Break, vars, senderVars, recvVars, netVars
<1> QED
    BY Zenon, <1>1, <1>4, <1>5, <1>6, <1>7

\* What Append makes of a queue.
LEMMA AppendElements ==
    ASSUME NEW S, NEW q \in Seq(S), NEW e \in S
    PROVE  /\ Len(Append(q, e)) = Len(q) + 1 /\ Len(q) \in Nat
           /\ Append(q, e)[Len(q) + 1] = e
           /\ \A i \in 1..Len(q) : Append(q, e)[i] = q[i]
OBVIOUS

\* What is left when the first element is taken from a sequence.
LEMMA TailElements ==
    ASSUME NEW S, NEW q \in Seq(S), q # <<>>
    PROVE  /\ Head(q) = q[1] /\ 1 \in 1..Len(q) /\ Len(Tail(q)) \in Nat
           /\ \A i \in 1..Len(Tail(q)) : i + 1 \in 1..Len(q) /\ Tail(q)[i] = q[i + 1]
OBVIOUS

\* Every step preserves ResponseInv and HandledInv.
LEMMA ResponseStep ==
    TypeInv /\ NonceInv /\ UnusedInv /\ ResponseInv /\ HandledInv /\ [Next]_vars
        => (ResponseInv /\ HandledInv)'
<1> SUFFICES ASSUME TypeInv, NonceInv, UnusedInv, ResponseInv, HandledInv, [Next]_vars
             PROVE  ResponseInv' /\ HandledInv'
    OBVIOUS
<1>a. /\ recvStream \in Stream /\ recvStream \in Nat /\ issued[recvStream] \in Nat
      /\ down[recvStream] \in Seq(Response) /\ down \in [Stream -> Seq(Response)]
      /\ resp # None => resp \in Response
    BY ConstantsAssumption DEF TypeInv, TypeOK, Stream
<1>0. /\ \A i \in 1..Len(down[recvStream]) : Number(down[recvStream][i].nonce) \in Nat
      /\ resp # None => Number(resp.nonce) \in Nat
      /\ \A t \in Type : Number(nonceMap[t]) \in Nat
    BY Zenon, <1>a, Numbers, NonceTypes
<1>1. CASE /\ UNCHANGED <<nonceMap, down, recvStream>> /\ resp' \in {resp, None}
           /\ recvPc' # "reset" => recvPc # "reset"
           /\ recvPc' = "handle" => recvPc = "handle" /\ resp' = resp
    BY Zenon, <1>1 DEF ResponseInv, HandledInv
<1>2. CASE updateAndACK
    <2>1. /\ recvPc = "handle" /\ recvPc' = "sending" /\ UNCHANGED <<resp, down, recvStream>>
          /\ nonceMap' = [nonceMap EXCEPT ![resp.type] = resp.nonce] /\ resp # None
        BY Zenon, <1>2 DEF updateAndACK, netVars, TypeInv, Locals
    <2>2. \A t \in Type : nonceMap'[t] \in {nonceMap[t], resp.nonce}
        BY Zenon, <2>1 DEF TypeInv, TypeOK
    <2> QED
        BY Zenon, <2>1, <2>2 DEF ResponseInv, HandledInv
<1>3. CASE Recv
    <2> DEFINE q == down[recvStream]
    <2>1. /\ recvPc = "recv" /\ recvPc' # "reset" /\ UNCHANGED <<nonceMap, recvStream>>
          /\ resp = None /\ q # <<>> /\ down' = [down EXCEPT ![recvStream] = Tail(q)]
          /\ \/ recvPc' = "handle" /\ resp' = Head(q)
             \/ recvPc' # "handle" /\ resp' = None
        BY Zenon, <1>3 DEF Recv, NextRound, mapVars, TypeInv, Locals
    <2>2. /\ Head(q) = q[1] /\ 1 \in 1..Len(q) /\ down'[recvStream] = Tail(q)
          /\ \A i \in 1..Len(Tail(q)) : i + 1 \in 1..Len(q) /\ Tail(q)[i] = q[i + 1]
          /\ Len(Tail(q)) \in Nat
        <3>1. down'[recvStream] = Tail(q)
            BY Zenon, <1>a, <2>1
        <3> QED
            BY Zenon, <1>a, <2>1, <3>1, TailElements
    <2>3. \A t \in Type : Number(nonceMap[t]) <= Number(q[1].nonce)
        BY Zenon, <2>1, <2>2 DEF ResponseInv
    <2>4. HandledInv'
        BY Zenon, <2>1, <2>2, <2>3 DEF HandledInv
    <2>5. ASSUME NEW i \in 1..Len(Tail(q))
          PROVE  /\ \A t \in Type : Number(nonceMap[t]) <= Number(Tail(q)[i].nonce)
                 /\ \A j \in 1..Len(Tail(q)) :
                       i < j => Number(Tail(q)[i].nonce) <= Number(Tail(q)[j].nonce)
                 /\ Number(q[1].nonce) <= Number(Tail(q)[i].nonce)
        <3>1. i \in Nat /\ 1 < i + 1 /\ \A j \in 1..Len(Tail(q)) : i < j => i + 1 < j + 1
            BY ONLY <2>2, <2>5
        <3> QED
            BY Zenon, <2>1, <2>2, <3>1 DEF ResponseInv
    <2>6. ResponseInv'
        BY Zenon, <2>1, <2>2, <2>5 DEF ResponseInv
    <2> QED
        BY Zenon, <2>4, <2>6
<1>4. CASE ResetMaps
    <2>1. /\ recvPc = "reset" /\ recvPc' = "publish" /\ UNCHANGED <<down, recvStream, resp>>
          /\ \A t \in Type : nonceMap'[t] = NoNonce
          /\ resp = None
        BY Zenon, <1>4 DEF ResetMaps, netVars, TypeInv, Locals
    <2>2. issued[recvStream] = 0
        BY Zenon, <1>a, <1>0, <2>1 DEF UnusedInv, Unused
    <2>3. \A i \in 1..Len(down[recvStream]) : Number(down[recvStream][i].nonce) = 0
        <3> SUFFICES ASSUME NEW i \in 1..Len(down[recvStream])
                     PROVE  Number(down[recvStream][i].nonce) = 0
            OBVIOUS
        <3>1. IssuedOn(down[recvStream][i].nonce, recvStream, 0)
            BY Zenon, <1>a, <1>0, <2>2 DEF NonceInv
        <3>2. down[recvStream][i].nonce \in Nonce
            BY Zenon, <1>a, <1>0, NonceTypes
        <3>3. recvStream \in Nat /\ 0 \in Nat
            BY <1>a, <1>0 DEF Stream
        <3>4. Number(down[recvStream][i].nonce) \in Nat /\ Number(down[recvStream][i].nonce) <= 0
            BY Zenon, <3>1, <3>2, <3>3, Numbers
        <3> QED
            BY ONLY <3>4
    <2>4. \A t \in Type : Number(nonceMap'[t]) = 0
        BY Zenon, <2>1, Numbers
    <2>5. \A i \in 1..Len(down[recvStream]) :
              /\ \A t \in Type : Number(nonceMap'[t]) <= Number(down[recvStream][i].nonce)
              /\ \A j \in 1..Len(down[recvStream]) :
                    Number(down[recvStream][i].nonce) <= Number(down[recvStream][j].nonce)
        BY <2>3, <2>4
    <2>6. ResponseInv'
        BY Zenon, <2>1, <2>5 DEF ResponseInv
    <2> QED
        BY Zenon, <2>1, <2>6 DEF HandledInv
<1>5. CASE Reconnect
    BY Zenon, <1>5 DEF Reconnect, ResponseInv, HandledInv
<1>6. ASSUME NEW t \in Type, NEW v \in 1..MaxVersion, NEW good \in BOOLEAN, Push(t, v, good)
      PROVE  ResponseInv' /\ HandledInv'
    <2> DEFINE q == down[recvStream]
               new == [type |-> t, version |-> v, good |-> good,
                       nonce |-> <<recvStream, issued[recvStream] + 1>>]
    <2>1. /\ UNCHANGED <<recvPc, recvStream, resp, nonceMap>>
          /\ down' = [down EXCEPT ![recvStream] = Append(q, new)]
        BY Zenon, <1>6 DEF Push, mapVars, recvVars
    <2>2. new \in Response /\ Number(new.nonce) = issued[recvStream] + 1
        BY Zenon, <1>6, PushType DEF TypeInv, Number
    <2> HIDE DEF new
    <2>a. down'[recvStream] = Append(q, new)
        BY Zenon, <1>a, <2>1
    <2>b. q \in Seq(Response)
        BY Zenon, <1>a
    <2>3. /\ Len(Append(q, new)) = Len(q) + 1 /\ Len(q) \in Nat
          /\ Append(q, new)[Len(q) + 1] = new
          /\ \A i \in 1..Len(q) : Append(q, new)[i] = q[i]
        <3> HIDE DEF q
        <3> QED
            BY <2>2, <2>b, AppendElements
    <2>4. ASSUME recvPc # "reset"
          PROVE  /\ \A u \in Type : Number(nonceMap[u]) <= issued[recvStream]
                 /\ \A i \in 1..Len(q) : Number(q[i].nonce) <= issued[recvStream]
                 /\ resp # None => Number(resp.nonce) <= issued[recvStream]
        BY Zenon, <1>a, <1>0, <2>4, Numbers, NonceTypes DEF NonceInv
    <2>5. ResponseInv'
        <3> DEFINE m == Len(q)
                   n(i) == Number(Append(q, new)[i].nonce)
        <3> SUFFICES ASSUME recvPc # "reset", NEW i \in 1..(m + 1)
                     PROVE  /\ \A u \in Type : Number(nonceMap[u]) <= n(i)
                            /\ \A j \in 1..(m + 1) : i < j => n(i) <= n(j)
                            /\ resp # None => Number(resp.nonce) <= n(i)
            BY Zenon, <2>1, <2>a, <2>3 DEF ResponseInv
        <3>1. m \in Nat /\ n(m + 1) = issued[recvStream] + 1
            BY Zenon, <2>2, <2>3
        <3>2. \A k \in 1..m : n(k) = Number(q[k].nonce) /\ n(k) \in Nat /\ n(k) <= issued[recvStream]
            BY Zenon, <1>0, <2>3, <2>4
        <3>3. \A k \in 1..m : /\ \A u \in Type : Number(nonceMap[u]) <= n(k)
                              /\ \A j \in 1..m : k < j => n(k) <= n(j)
                              /\ resp # None => Number(resp.nonce) <= n(k)
            BY Zenon, <3>2 DEF ResponseInv
        <3> HIDE DEF m, n
        <3>4. CASE i = m + 1
            <4>1. \A c \in Nat : c <= issued[recvStream] => c <= n(i)
                BY <1>a, <3>1, <3>4
            <4>2. \A u \in Type : Number(nonceMap[u]) <= n(i)
                BY Zenon, <1>0, <2>4, <4>1
            <4>3. resp # None => Number(resp.nonce) <= n(i)
                BY Zenon, <1>0, <2>4, <4>1
            <4>4. \A j \in 1..(m + 1) : ~(i < j)
                BY <3>1, <3>4
            <4> QED
                BY Zenon, <4>2, <4>3, <4>4
        <3>5. CASE i \in 1..m
            <4>1. \A j \in 1..(m + 1) : j \in 1..m \/ j = m + 1
                BY <3>1
            <4>2. n(i) <= n(m + 1)
                BY <1>a, <3>1, <3>2, <3>5
            <4>3. \A j \in 1..(m + 1) : i < j => n(i) <= n(j)
                BY Zenon, <3>3, <3>5, <4>1, <4>2
            <4> QED
                BY Zenon, <3>3, <3>5, <4>3
        <3>6. i \in 1..m \/ i = m + 1
            BY <3>1
        <3> QED
            BY Zenon, <3>4, <3>5, <3>6
    <2> QED
        BY Zenon, <2>1, <2>5 DEF HandledInv
<1>7. CASE Receiver
    <2>1. CASE AckSend
        <3>1. /\ UNCHANGED <<nonceMap, down, recvStream>> /\ resp' \in {resp, None}
              /\ mu = "recv" /\ recvPc' # "handle"
            BY Zenon, <2>1 DEF AckSend, sendRequest, NextRound, mapVars, netVars
        <3> QED
            BY Zenon, <1>1, <3>1 DEF TypeInv, Locals
    <2>2. CASE FilterResponse \/ Apply \/ AuthError \/ PublishStream
        <3>1. /\ UNCHANGED <<nonceMap, down, recvStream>> /\ resp' \in {resp, None}
              /\ recvPc # "reset" /\ recvPc' # "handle"
            BY Zenon, <2>2 DEF FilterResponse, Apply, AuthError, PublishStream, NextRound, mapVars, netVars
        <3> QED
            BY Zenon, <1>1, <3>1
    <2> QED
        BY Zenon, <1>2, <1>3, <1>4, <1>5, <1>7, <2>1, <2>2 DEF Receiver
<1>8. ASSUME NEW t, NEW n, NEW remove, WatchLock(t, n, remove), UNCHANGED <<recvVars, netVars>>
      PROVE  ResponseInv' /\ HandledInv'
    <2>1. UNCHANGED <<nonceMap, down, recvStream, resp, recvPc>>
        BY Zenon, <1>8 DEF WatchLock, recvVars, netVars
    <2> QED
        BY Zenon, <1>1, <2>1
<1>9. CASE warmup
    BY Zenon, <1>1, <1>8, <1>9 DEF warmup, WarmupWatch, WarmupGoOn, mapVars, recvVars, netVars
<1>10. CASE Sender
    <2>1. UNCHANGED <<nonceMap, down, recvStream, resp, recvPc>>
        BY Zenon, <1>10
        DEF Sender, SenderStop, TakeRequest, TakeStream, ResendLock, Resend, ResendDone, mapVars,
            recvVars, netVars
    <2> QED
        BY Zenon, <1>1, <2>1
<1> QED
    BY Zenon, <1>1, <1>6, <1>7, <1>8, <1>9, <1>10
    DEF Next, ManagerWatch, WatchSend, Close, Break, vars, mapVars, recvVars, netVars

\* Every step preserves OrderInv.
LEMMA OrderStep ==
    TypeInv /\ StreamInv /\ UnusedInv /\ ResendInv /\ HandledInv /\ OrderInv /\ [Next]_vars
        => OrderInv'
<1> SUFFICES ASSUME TypeInv, StreamInv, UnusedInv, ResendInv, HandledInv, OrderInv, [Next]_vars
             PROVE  OrderInv'
    OBVIOUS
<1>0. /\ recvStream \in Stream
      /\ \A t \in Type : Number(nonceMap[t]) \in Nat
      /\ \A i \in 1..Len(reqCh) : reqCh[i].type \in Type /\ Number(reqCh[i].nonce) \in Nat
      /\ \A t \in Type : sub[recvStream][t] # None => Number(sub[recvStream][t].nonce) \in Nat
      /\ resp # None => resp.type \in Type /\ Number(resp.nonce) \in Nat
      /\ reqCh \in Seq(Request)
    BY Zenon, Numbers, NonceTypes DEF TypeInv, TypeOK
<1>1. CASE /\ UNCHANGED <<nonceMap, reqCh, out, recvStream, sub>>
           /\ recvPc' # "reset" => recvPc # "reset"
    BY Zenon, <1>1 DEF OrderInv
<1>2. ASSUME NEW t \in Type, NEW n, NEW remove, WatchLock(t, n, remove),
             UNCHANGED <<reqCh, recvVars, netVars>>
      PROVE  OrderInv'
    <2>1. UNCHANGED <<nonceMap, reqCh, recvPc, recvStream, sub>>
        BY Zenon, <1>2 DEF WatchLock, recvVars, netVars
    <2>2. out'.nonce = nonceMap[t] /\ out'.type = t
        BY Zenon, <1>2 DEF WatchLock, prepareRequest
    <2> QED
        BY Zenon, <2>1, <2>2 DEF OrderInv
<1>3. ASSUME NEW holder \in {"watch", "recv"}, sendRequest(holder),
             UNCHANGED <<nonceMap, recvStream, netVars>>,
             recvPc' # "reset" => recvPc # "reset"
      PROVE  OrderInv'
    <2>1. out \in Request /\ out # None /\ out' = None /\ reqCh' = Append(reqCh, out) /\ sub' = sub
        BY Zenon, <1>3, NoneAssumption DEF sendRequest, TypeInv, TypeOK, Locals, netVars
    <2>2. /\ Len(reqCh') = Len(reqCh) + 1 /\ Len(reqCh) \in Nat
          /\ reqCh'[Len(reqCh) + 1] = out
          /\ \A i \in 1..Len(reqCh) : reqCh'[i] = reqCh[i]
        <3>1. reqCh \in Seq(Request)
            BY Zenon, <1>0
        <3> QED
            BY <2>1, <3>1, AppendElements
    <2>3. out.type \in Type
        BY Zenon, <2>1, NonceTypes
    <2> SUFFICES ASSUME recvPc # "reset" PROVE OrderInv'
        BY Zenon, <1>3 DEF OrderInv
    <2>4. Number(out.nonce) = Number(nonceMap[out.type])
        BY Zenon, <2>1 DEF OrderInv
    <2>5. ASSUME NEW i \in 1..Len(reqCh')
          PROVE  /\ Number(reqCh'[i].nonce) <= Number(nonceMap[reqCh'[i].type])
                 /\ sub[recvStream][reqCh'[i].type] # None =>
                       Number(sub[recvStream][reqCh'[i].type].nonce) <= Number(reqCh'[i].nonce)
        <3>1. CASE i = Len(reqCh) + 1
            <4>1. reqCh'[i] = out
                BY Zenon, <2>2, <3>1
            <4>2. sub[recvStream][out.type] # None =>
                      Number(sub[recvStream][out.type].nonce) <= Number(nonceMap[out.type])
                BY Zenon, <2>3 DEF OrderInv
            <4>3. Number(nonceMap[out.type]) <= Number(nonceMap[out.type])
                BY <1>0, <2>3
            <4> QED
                BY Zenon, <2>4, <4>1, <4>2, <4>3
        <3>2. CASE i \in 1..Len(reqCh)
            BY Zenon, <2>2, <3>2 DEF OrderInv
        <3>3. i \in 1..Len(reqCh) \/ i = Len(reqCh) + 1
            BY ONLY <2>2, <2>5
        <3> QED
            BY Zenon, <3>1, <3>2, <3>3
    <2>6. ASSUME NEW i \in 1..Len(reqCh'), NEW j \in 1..Len(reqCh'), i < j,
                 reqCh'[i].type = reqCh'[j].type
          PROVE  Number(reqCh'[i].nonce) <= Number(reqCh'[j].nonce)
        <3>1. i \in 1..Len(reqCh) /\ reqCh'[i] = reqCh[i]
            BY ONLY <2>2, <2>6
        <3>2. CASE j = Len(reqCh) + 1
            <4>1. reqCh'[j] = out
                BY Zenon, <2>2, <3>2
            <4>2. Number(reqCh[i].nonce) <= Number(nonceMap[reqCh[i].type])
                BY Zenon, <3>1 DEF OrderInv
            <4> QED
                BY Zenon, <2>4, <2>6, <3>1, <4>1, <4>2
        <3>3. CASE j \in 1..Len(reqCh)
            BY Zenon, <2>2, <2>6, <3>1, <3>3 DEF OrderInv
        <3>4. j \in 1..Len(reqCh) \/ j = Len(reqCh) + 1
            BY ONLY <2>2, <2>6
        <3> QED
            BY Zenon, <3>2, <3>3, <3>4
    <2> QED
        BY Zenon, <1>3, <2>1, <2>5, <2>6 DEF OrderInv
<1>4. CASE TakeRequest
    <2> DEFINE req == Head(reqCh)
    <2>1. UNCHANGED <<nonceMap, out, recvPc, recvStream>> /\ reqCh # <<>> /\ reqCh' = Tail(reqCh)
        BY Zenon, <1>4 DEF TakeRequest, lockVars, mapVars, recvVars
    <2>2. Sent(req) /\ req \in Request /\ req = reqCh[1]
        BY Zenon, <1>4, TakeSends
    <2>3. /\ 1 \in 1..Len(reqCh)
          /\ \A i \in 1..Len(reqCh') :
                i \in Nat /\ i + 1 \in 1..Len(reqCh) /\ reqCh'[i] = reqCh[i + 1] /\ 1 < i + 1
        <3>1. /\ 1 \in 1..Len(reqCh) /\ Len(reqCh') \in Nat
              /\ \A i \in 1..Len(reqCh') : i + 1 \in 1..Len(reqCh) /\ reqCh'[i] = reqCh[i + 1]
            BY Zenon, <1>0, <2>1, TailElements
        <3>2. \A i \in 1..Len(reqCh') : i \in Nat /\ 1 < i + 1
            BY ONLY <3>1
        <3> QED
            BY Zenon, <3>1, <3>2
    <2> HIDE DEF req
    <2>4. \A t \in Type : \/ sub'[recvStream][t] = sub[recvStream][t]
                          \/ t = req.type /\ sub'[recvStream][t] = req
        BY Zenon, <1>0, <2>2 DEF Sent
    <2> SUFFICES ASSUME recvPc # "reset" PROVE OrderInv'
        BY Zenon, <2>1 DEF OrderInv
    <2>5. /\ \A t \in Type : sub'[recvStream][t] # None =>
                Number(sub'[recvStream][t].nonce) <= Number(nonceMap[t])
          /\ out # None => Number(out.nonce) = Number(nonceMap[out.type])
        BY Zenon, <2>2, <2>3, <2>4 DEF OrderInv
    <2>6. ASSUME NEW i \in 1..Len(reqCh')
          PROVE  /\ Number(reqCh'[i].nonce) <= Number(nonceMap[reqCh'[i].type])
                 /\ sub'[recvStream][reqCh'[i].type] # None =>
                       Number(sub'[recvStream][reqCh'[i].type].nonce) <= Number(reqCh'[i].nonce)
        <3>1. i + 1 \in 1..Len(reqCh) /\ reqCh'[i] = reqCh[i + 1] /\ 1 < i + 1
            BY Zenon, <2>3
        <3>2. reqCh[i + 1].type \in Type
            BY Zenon, <1>0, <3>1
        <3>3. Number(reqCh'[i].nonce) <= Number(nonceMap[reqCh'[i].type])
            BY Zenon, <3>1 DEF OrderInv
        <3>4. CASE sub'[recvStream][reqCh[i + 1].type] = sub[recvStream][reqCh[i + 1].type]
            BY Zenon, <3>1, <3>3, <3>4 DEF OrderInv
        <3>5. CASE reqCh[i + 1].type = req.type /\ sub'[recvStream][reqCh[i + 1].type] = req
            BY Zenon, <2>2, <2>3, <3>1, <3>3, <3>5 DEF OrderInv
        <3> QED
            BY Zenon, <2>4, <3>2, <3>4, <3>5
    <2>7. ASSUME NEW i \in 1..Len(reqCh'), NEW j \in 1..Len(reqCh'), i < j,
                 reqCh'[i].type = reqCh'[j].type
          PROVE  Number(reqCh'[i].nonce) <= Number(reqCh'[j].nonce)
        <3>1. /\ i + 1 \in 1..Len(reqCh) /\ reqCh'[i] = reqCh[i + 1]
              /\ j + 1 \in 1..Len(reqCh) /\ reqCh'[j] = reqCh[j + 1]
              /\ i \in Nat /\ j \in Nat
            BY Zenon, <2>3
        <3>2. \A a, b \in 1..Len(reqCh) : a < b /\ reqCh[a].type = reqCh[b].type =>
                  Number(reqCh[a].nonce) <= Number(reqCh[b].nonce)
            BY Zenon DEF OrderInv
        <3>3. i + 1 < j + 1
            BY ONLY <2>7, <3>1
        <3> QED
            BY Zenon, <2>7, <3>1, <3>2, <3>3
    <2> QED
        BY Zenon, <2>1, <2>5, <2>6, <2>7 DEF OrderInv
<1>5. ASSUME NEW t \in Type, Resend(t) PROVE OrderInv'
    <2>1. UNCHANGED <<nonceMap, reqCh, out, recvPc, recvStream>> /\ sendPc = "resend"
        BY Zenon, <1>5 DEF Resend, mapVars, recvVars
    <2>2. PICK req \in Request : req.type = t /\ req.nonce = nonceMap[t] /\ Sent(req)
        BY Zenon, <1>5, ResendSends
    <2>3. \A u \in Type : \/ sub'[recvStream][u] = sub[recvStream][u]
                          \/ sub'[recvStream][u] = req /\ Number(req.nonce) = 0
        BY Zenon, <1>0, <2>1, <2>2 DEF Sent, ResendInv
    <2> SUFFICES ASSUME recvPc # "reset" PROVE OrderInv'
        BY Zenon, <2>1 DEF OrderInv
    <2>4. \A u \in Type, n \in Nat :
              (sub[recvStream][u] # None => Number(sub[recvStream][u].nonce) <= n) =>
              (sub'[recvStream][u] # None => Number(sub'[recvStream][u].nonce) <= n)
        <3>1. \A n \in Nat : 0 <= n
            OBVIOUS
        <3> QED
            BY Zenon, <2>3, <3>1
    <2> QED
        BY Zenon, <1>0, <2>1, <2>4 DEF OrderInv
<1>6. CASE updateAndACK
    <2>1. /\ UNCHANGED <<reqCh, recvStream, sub>>
          /\ recvPc = "handle" /\ nonceMap' = [nonceMap EXCEPT ![resp.type] = resp.nonce]
          /\ out' = prepareRequest(resp.type, ~resp.good)
        BY Zenon, <1>6 DEF updateAndACK, netVars
    <2>2. resp # None /\ resp.type \in Type
        BY Zenon, <1>0, <2>1 DEF TypeInv, Locals
    <2>3. out'.nonce = nonceMap'[resp.type] /\ out'.type = resp.type
        BY Zenon, <2>1 DEF prepareRequest
    <2>4. \A t \in Type : Number(nonceMap[t]) <= Number(nonceMap'[t]) /\ Number(nonceMap'[t]) \in Nat
        <3>1. \A t \in Type : nonceMap'[t] \in {nonceMap[t], resp.nonce}
            BY Zenon, <2>1 DEF TypeInv, TypeOK
        <3>2. \A t \in Type : Number(nonceMap[t]) <= Number(resp.nonce)
            BY Zenon, <2>1 DEF HandledInv
        <3> SUFFICES ASSUME NEW t \in Type
                     PROVE  Number(nonceMap[t]) <= Number(nonceMap'[t]) /\ Number(nonceMap'[t]) \in Nat
            OBVIOUS
        <3>3. Number(nonceMap[t]) \in Nat /\ Number(resp.nonce) \in Nat
            BY Zenon, <1>0, <2>2
        <3>4. CASE nonceMap'[t] = nonceMap[t]
            BY ONLY <3>3, <3>4
        <3>5. CASE nonceMap'[t] = resp.nonce
            BY Zenon, <3>2, <3>3, <3>5
        <3> QED
            BY Zenon, <3>1, <3>4, <3>5
    <2>a. recvPc # "reset"
        BY Zenon, <2>1
    <2>5. \A t \in Type : sub[recvStream][t] # None =>
              Number(sub[recvStream][t].nonce) <= Number(nonceMap'[t])
        <3> SUFFICES ASSUME NEW t \in Type, sub[recvStream][t] # None
                     PROVE  Number(sub[recvStream][t].nonce) <= Number(nonceMap'[t])
            OBVIOUS
        <3>1. Number(sub[recvStream][t].nonce) <= Number(nonceMap[t])
            BY Zenon, <2>a DEF OrderInv
        <3>2. Number(sub[recvStream][t].nonce) \in Nat /\ Number(nonceMap[t]) \in Nat
            BY Zenon, <1>0
        <3>3. Number(nonceMap[t]) <= Number(nonceMap'[t]) /\ Number(nonceMap'[t]) \in Nat
            BY Zenon, <2>4
        <3> QED
            BY ONLY <3>1, <3>2, <3>3
    <2>6. \A i \in 1..Len(reqCh) : Number(reqCh[i].nonce) <= Number(nonceMap'[reqCh[i].type])
        <3> SUFFICES ASSUME NEW i \in 1..Len(reqCh)
                     PROVE  Number(reqCh[i].nonce) <= Number(nonceMap'[reqCh[i].type])
            OBVIOUS
        <3> DEFINE t == reqCh[i].type
        <3>1. Number(reqCh[i].nonce) <= Number(nonceMap[t])
            BY Zenon, <2>a DEF OrderInv
        <3>2. t \in Type /\ Number(reqCh[i].nonce) \in Nat
            BY Zenon, <1>0
        <3> HIDE DEF t
        <3>3. /\ Number(nonceMap[t]) \in Nat /\ Number(nonceMap'[t]) \in Nat
              /\ Number(nonceMap[t]) <= Number(nonceMap'[t])
            BY Zenon, <1>0, <2>4, <3>2
        <3>4. Number(reqCh[i].nonce) <= Number(nonceMap'[t])
            BY ONLY <3>1, <3>2, <3>3
        <3> QED
            BY Zenon, <3>4 DEF t
    <2> QED
        BY Zenon, <2>1, <2>3, <2>5, <2>6 DEF OrderInv
<1>7. CASE ResetMaps
    <2>1. recvPc = "reset" /\ reqCh' = <<>> /\ out' = out /\ mu = None /\ UNCHANGED <<recvStream, sub>>
        BY Zenon, <1>7 DEF ResetMaps, lockVars, netVars
    <2>2. out = None /\ \A t \in Type : sub[recvStream][t] = None
        BY Zenon, <1>0, <2>1, NoneAssumption DEF TypeInv, Locals, UnusedInv, Unused
    <2>3. 1..Len(reqCh') = {}
        BY <2>1
    <2> QED
        BY Zenon, <2>1, <2>2, <2>3 DEF OrderInv
<1>8. CASE Reconnect
    BY Zenon, <1>8 DEF Reconnect, OrderInv
<1>9. CASE AckSend
    BY Zenon, <1>3, <1>9 DEF AckSend, NextRound, mapVars, TypeInv, Locals, sendRequest
<1>10. CASE Receiver
    BY Zenon, <1>1, <1>6, <1>7, <1>8, <1>9, <1>10
    DEF Receiver, Recv, FilterResponse, Apply, AuthError, PublishStream, NextRound, lockVars, mapVars,
        netVars
<1>11. CASE WatchSend
    BY Zenon, <1>3, <1>11 DEF WatchSend, mapVars, recvVars
<1>12. CASE warmup
    BY Zenon, <1>1, <1>2, <1>12, ConstantsAssumption
    DEF warmup, WarmupWatch, WarmupGoOn, lockVars, mapVars, recvVars, netVars
<1>13. CASE Sender
    BY Zenon, <1>1, <1>4, <1>5, <1>13
    DEF Sender, SenderStop, TakeStream, ResendLock, ResendDone, lockVars, mapVars, recvVars, netVars
<1>14. ASSUME NEW t \in Type, NEW v \in 1..MaxVersion, NEW good \in BOOLEAN, Push(t, v, good)
       PROVE  OrderInv'
    BY Zenon, <1>1, <1>14 DEF Push, lockVars, mapVars, recvVars
<1>15. ASSUME NEW t \in Type, NEW n, NEW remove, ManagerWatch(t, n, remove) PROVE OrderInv'
    BY Zenon, <1>2, <1>15 DEF ManagerWatch
<1> QED
    BY Zenon, <1>1, <1>10, <1>11, <1>12, <1>13, <1>14, <1>15
    DEF Next, Close, Break, vars, lockVars, mapVars, recvVars, netVars

\* The invariants from which NoncesAdvance follows.
AdvanceInv == UnusedInv /\ ResendInv /\ ResponseInv /\ HandledInv /\ OrderInv

\* AdvanceInv in every reachable state.
LEMMA AdvanceInvariant == Spec => []AdvanceInv
<1>1. ASSUME Init PROVE AdvanceInv
    <2>1. /\ 1..Len(reqCh) = {} /\ out = None /\ sendPc # "resend" /\ recvPc # "handle"
          /\ recvStream \in Stream
        BY <1>1, ConstantsAssumption DEF Init, Stream
    <2>2. 1..Len(down[recvStream]) = {}
        BY Zenon, <1>1, <2>1 DEF Init
    <2>3. \A s \in Stream : issued[s] = 0 /\ \A t \in Type : sub[s][t] = None
        BY Zenon, <1>1 DEF Init
    <2> QED
        BY Zenon, <2>1, <2>2, <2>3 DEF AdvanceInv, UnusedInv, ResendInv, ResponseInv, HandledInv, OrderInv
<1>2. TypeInv /\ StreamInv /\ NonceInv /\ AdvanceInv /\ [Next]_vars => AdvanceInv'
    BY Zenon, UnusedStep, ResendStep, ResponseStep, OrderStep DEF AdvanceInv
<1> QED
    BY <1>1, <1>2, TypeInvariant, StreamInvariant, NonceInvariant, PTL DEF Spec

\* On one stream, the answers the server gets for a type never go back to an
\* older nonce, though reqWhenReconnect bypasses the queue.
THEOREM AnswersAdvance == Spec => NoncesAdvance
<1>1. ASSUME TypeInv, StreamInv, AdvanceInv, [Next]_vars PROVE [NonceAdvances]_vars
    <2>1. ASSUME NEW req \in Request, Sent(req),
                 recvPc # "reset" /\ sub[recvStream][req.type] # None =>
                     Number(sub[recvStream][req.type].nonce) <= Number(req.nonce)
          PROVE  NonceAdvances
        <3>1. req # None
            BY Zenon, NoneAssumption
        <3>2. \A s \in Stream, t \in Type :
                  sub[s][t] # None => Number(sub[s][t].nonce) \in Nat
            BY Zenon, <1>1, Numbers, NonceTypes
        <3>3. Number(req.nonce) \in Nat
            BY Zenon, Numbers DEF Request
        <3>4. \A s \in Stream, t \in Type : sub[s][t] # None =>
                  /\ sub'[s][t] # None /\ Number(sub'[s][t].nonce) \in Nat
                  /\ Number(sub[s][t].nonce) <= Number(sub'[s][t].nonce)
            <4> SUFFICES ASSUME NEW s \in Stream, NEW t \in Type, sub[s][t] # None
                         PROVE  /\ sub'[s][t] # None /\ Number(sub'[s][t].nonce) \in Nat
                                /\ Number(sub[s][t].nonce) <= Number(sub'[s][t].nonce)
                OBVIOUS
            <4>1. Number(sub[s][t].nonce) \in Nat
                BY Zenon, <3>2
            <4>2. CASE sub'[s][t] = sub[s][t]
                BY <4>1, <4>2
            <4>3. CASE s = recvStream /\ t = req.type /\ recvPc # "reset" /\ sub'[s][t] = req
                BY Zenon, <2>1, <3>1, <3>3, <4>3
            <4> QED
                BY Zenon, <2>1, <4>2, <4>3 DEF Sent
        <3> QED
            BY Zenon, <3>2, <3>4 DEF NonceAdvances, Number
    <2>2. ASSUME sub' = sub PROVE NonceAdvances
        <3>1. \A s \in Stream, t \in Type :
                  sub[s][t] # None => Number(sub[s][t].nonce) \in Nat
            BY Zenon, <1>1, Numbers, NonceTypes
        <3> QED
            BY <2>2, <3>1 DEF NonceAdvances, Number
    <2>3. CASE TakeRequest
        <3>1. Sent(Head(reqCh)) /\ Head(reqCh) \in Request /\ Head(reqCh) = reqCh[1]
            BY Zenon, <1>1, <2>3, TakeSends
        <3>2. 1 \in 1..Len(reqCh)
            BY <1>1, <2>3 DEF TakeRequest, TypeInv, TypeOK
        <3> QED
            BY Zenon, <1>1, <2>1, <3>1, <3>2 DEF AdvanceInv, OrderInv
    <2>4. ASSUME NEW t \in Type, Resend(t) PROVE NonceAdvances
        <3>1. PICK req \in Request : req.type = t /\ Sent(req)
            BY Zenon, <1>1, <2>4, ResendSends
        <3>2. sendPc = "resend" /\ t \in toResend
            BY Zenon, <2>4 DEF Resend
        <3>3. CASE sendStream = recvStream
            BY Zenon, <1>1, <2>1, <3>1, <3>2, <3>3 DEF AdvanceInv, ResendInv
        <3> QED
            BY Zenon, <2>2, <3>1, <3>3 DEF Sent
    <2>5. CASE Sender
        BY Zenon, <2>2, <2>3, <2>4, <2>5 DEF Sender, SenderStop, TakeStream, ResendLock, ResendDone, netVars
    <2>6. CASE Receiver
        BY Zenon, <2>2, <2>6
        DEF Receiver, Recv, updateAndACK, AckSend, FilterResponse, Apply, AuthError, Reconnect,
            ResetMaps, PublishStream, netVars
    <2>7. CASE warmup
        BY Zenon, <2>2, <2>7 DEF warmup, WarmupWatch, WarmupGoOn, netVars
    <2> QED
        BY Zenon, <1>1, <2>2, <2>5, <2>6, <2>7
        DEF Next, ManagerWatch, WatchSend, Close, Push, Break, vars, netVars
<1> QED
    BY <1>1, TypeInvariant, StreamInvariant, AdvanceInvariant, PTL DEF Spec, NoncesAdvance
=============================================================================
