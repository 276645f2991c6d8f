-------------------------------- MODULE System --------------------------------
(***************************************************************************)
(* The resource manager on top of the xDS client: every call of            *)
(* client.Watch that a Get or the cleaner makes is a Watch of XdsClient,   *)
(* made with m.mu held, and every UpdateResource is the end of a handler   *)
(* of XdsClient's receiver.  The watch list is the client's.  A resource   *)
(* is the version of the response that brought it.  The client is never    *)
(* closed here, and no name table is configured: XdsClient has both.       *)
(***************************************************************************)
EXTENDS XdsClient

CONSTANTS
    Caller,           \* goroutines that call Get, once newXdsClient has returned
    Notifier, NilListener, FetchXDSTimeout, CacheExpireTime, Cleaner,
    TimeoutErr        \* as in ResourceManager

VARIABLES
    mmu,              \* m.mu; mu is c.mu
    cache, meta, notifierMap, closed, pc, key, nf, result, upd, sweep,
    unwatching, xdsHandlers, seen, \* as in ResourceManager
    inbound           \* history: the inbound listener in the last listener response
                      \* handled, None if it had none

managerVars == <<mmu, cache, meta, notifierMap, closed, pc, key, nf, result,
                 upd, sweep, unwatching, xdsHandlers, seen, inbound>>
sysVars == <<vars, managerVars>>

ASSUME SystemAssumption ==
    /\ FetchXDSTimeout \in Nat /\ CacheExpireTime \in Nat
    /\ NilListener \notin 1..MaxVersion
    /\ None \notin ((1..MaxVersion) \cup {NilListener}) \cup Notifier \cup Caller
    /\ Cleaner \notin Caller \cup {None}
    /\ TimeoutErr \notin ((1..MaxVersion) \cup {NilListener}) \cup {None}

\* A key is a type and a name; AnyName is the name of the reserved listener.
ReservedKey == <<"Listener", AnyName>>

Key == ((Type \ {"NameTable"}) \X Name) \cup (IF LDSRequired THEN {ReservedKey} ELSE {})

M == INSTANCE ResourceManager WITH
        TypeOf          <- [k \in Key |-> k[1]],
        Resource        <- (1..MaxVersion) \cup {NilListener},
        Handler         <- {},
        HandlerType     <- <<>>,
        mu              <- mmu,
        watchedResource <- {k \in Key : k[2] \in watchedResource[k[1]]}

SysInit == Init /\ M!Init /\ inbound = None

-----------------------------------------------------------------------------
(* Steps of the manager that do not call the client *)

\* A Get, of which there are at most MaxWatch.
SysGet(g, k) ==
    /\ warmPc = "done"
    /\ watches < MaxWatch
    /\ watches' = watches + 1
    /\ UNCHANGED <<lockVars, mapVars, reqCh, streamCh, closeCh, senderVars, recvVars,
                   warmPc, applied, netVars, inbound>>
    /\ M!Get(g, k)

Notifiers(g) == UNCHANGED <<vars, inbound>> /\ (M!JoinNotifier(g) \/ M!CreateNotifier(g))

SysNotified(g) == UNCHANGED <<vars, inbound>> /\ M!Notified(g)

SysTimeout(g) == UNCHANGED <<vars, inbound>> /\ M!Timeout(g)

SysReturn(g) == UNCHANGED <<vars, inbound>> /\ M!Return(g)

SysExpire == UNCHANGED <<vars, inbound>> /\ \E k \in Key : M!Expire(k)

SysCleanTick == UNCHANGED <<vars, inbound>> /\ M!CleanTick

-----------------------------------------------------------------------------
(* Steps of both *)

\* Get calls client.Watch ...
SysWatch(g) ==
    /\ pc[g] = "watch"
    /\ ManagerWatch(key[g][1], key[g][2], FALSE)
    /\ UNCHANGED <<watches, inbound>>
    /\ M!Watch(g)

\* ... which returns, and m.mu is released.
SysWatchReturns(g) ==
    /\ pc[g] = "watching"
    /\ WatchSend
    /\ M!WatchReturns(g)
    /\ UNCHANGED inbound

\* The cleaner calls client.Watch(rt, rName, true) ...
SysClean ==
    \E k \in sweep :
        /\ ~unwatching
        /\ ManagerWatch(k[1], k[2], TRUE)
        /\ UNCHANGED <<watches, inbound>>
        /\ M!Clean(k)

\* ... which returns.
SysUnwatchReturns ==
    /\ unwatching
    /\ WatchSend
    /\ M!UnwatchReturns
    /\ UNCHANGED inbound

\* The Watch of a warmup returns.
WarmupWatchReturns ==
    /\ warmPc \in {"ndsWait", "ldsWait"}
    /\ WatchSend
    /\ UNCHANGED managerVars

\* A handler filters its response against the watch list ...
SysFilter ==
    /\ FilterResponse
    /\ \E r \in [M!KeysOf(resp.type) -> {resp.version, None}] :
          /\ M!HandleResponse(resp.type, M!AsMap(r))
          /\ inbound' = IF ReservedKey \in DOMAIN r THEN r[ReservedKey] ELSE inbound

\* ... and hands it to UpdateResource.
SysApply == Apply /\ M!UpdateResource /\ UNCHANGED inbound

-----------------------------------------------------------------------------

\* Steps of the client that do not call the manager, and of a server that sends
\* what it is asked for.  (XdsClient has one that sends anything.)
ClientStep ==
    /\ \/ warmup
       \/ Sender
       \/ Recv \/ updateAndACK \/ AckSend \/ Reconnect \/ ResetMaps \/ PublishStream
       \/ \E t \in Type, v \in 1..MaxVersion : sub[recvStream][t] # None /\ Push(t, v, TRUE)
       \/ Break
    /\ UNCHANGED managerVars

SysNext ==
    \/ \E g \in Caller : \/ \E k \in Key : SysGet(g, k)
                         \/ Notifiers(g)
                         \/ SysWatch(g)
                         \/ SysWatchReturns(g)
                         \/ SysNotified(g)
                         \/ SysTimeout(g)
                         \/ SysReturn(g)
    \/ SysExpire
    \/ SysCleanTick
    \/ SysClean
    \/ SysUnwatchReturns
    \/ WarmupWatchReturns
    \/ SysFilter
    \/ SysApply
    \/ ClientStep

SysSpec == SysInit /\ [][SysNext]_sysVars

CallerSteps(g) == Notifiers(g) \/ SysWatch(g) \/ SysWatchReturns(g) \/ SysTimeout(g)

CleanerSteps == SysClean \/ SysUnwatchReturns

SenderSteps == Sender /\ UNCHANGED managerVars

ReceiverSteps ==
    \/ SysFilter
    \/ SysApply
    \/ /\ Recv \/ updateAndACK \/ AckSend \/ Reconnect \/ ResetMaps \/ PublishStream
       /\ UNCHANGED managerVars

\* A goroutine that can go on does, if need be when it gets its lock (Go's
\* mutexes do not starve), a Get times out, and a failed stream is replaced.
\* Nothing is assumed of the server, of the callers of Get, or of failures.
SysFairness ==
    /\ \A g \in Caller : SF_sysVars(CallerSteps(g))
    /\ SF_sysVars(CleanerSteps)
    /\ SF_sysVars(SenderSteps)
    /\ SF_sysVars(ReceiverSteps)
    /\ WF_sysVars(WarmupWatchReturns)

FairSysSpec == SysSpec /\ SysFairness

-----------------------------------------------------------------------------
(* Correctness *)

\* Whoever waits on a registered notifier is asked for: once client.Watch has
\* recorded the name, the last request of the type, in the queue or at the
\* server, lists it, whatever the cleaner unwatches and however often the client
\* reconnects.  (The Get that joins a notifier sends no request of its own.)
WaiterSubscribed ==
    Connected /\ sendPc \in {"select", "stopped"} /\ mu = None =>
        \A k \in Key :
            notifierMap[k] # None /\ (\A g \in Caller : pc[g] = "watch" => key[g] # k)
            => \A r \in Latest(k[1]) : r # None /\ k[2] \in r.names

\* From the moment newXdsClient returns after its warmup, the cache has for the
\* inbound listener what the last listener response had, and nothing makes it go
\* missing: neither the cleaner nor other updates touch it.  If the response had
\* none, the entry is a nil listener: the server side finds an entry without a
\* listener in it.
InboundReady ==
    LDSRequired /\ warmPc = "done" /\ ~(recvPc = "apply" /\ resp.type = "Listener") =>
        cache[ReservedKey] = IF inbound = None THEN NilListener ELSE inbound

\* A Get that missed the cache returns though it calls into the client with m.mu
\* held, where it waits for c.mu and for room in the queue, while the receiver
\* waits for m.mu: of these no circle comes but QueueCircle.
GetReturns ==
    \A g \in Caller : pc[g] = "missed" ~> (pc[g] = "returned" \/ QueueCircle)

\* The listener the server side needs is never unsubscribed once the client has
\* watched it, though the cleaner unsubscribes whatever else expires.
ReservedStaysWatched ==
    [][(AnyName \in watchedResource["Listener"]) =>
           (AnyName \in watchedResource'["Listener"])]_sysVars
=============================================================================
