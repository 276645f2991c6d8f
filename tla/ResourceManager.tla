--------------------------- MODULE ResourceManager ---------------------------
(***************************************************************************)
(* The xdsResourceManager of core/manager/manager.go: the cache of xDS     *)
(* resources, the metadata that ages them, the notifiers a Get waits on,   *)
(* the update handlers and the cleaner.                                    *)
(*                                                                         *)
(* Processes: the goroutines that call Get (Caller), the cleaner, and the  *)
(* receiver goroutine of the xdsClient, which filters a response against   *)
(* the watch list and then calls UpdateResource.  The client is seen only  *)
(* through its watch list, which Watch changes; XdsClient models the rest. *)
(***************************************************************************)
EXTENDS Naturals

CONSTANTS
    Caller,           \* goroutines that call Get
    Key,              \* the (resource type, resource name) pairs in use
    TypeOf,           \* TypeOf[k]: the resource type of k
    ReservedKey,      \* (ListenerType, ReservedLdsResourceName)
    Resource,         \* resource values, NilListener among them
    NilListener,      \* a nil *ListenerResource boxed in a Resource
    Notifier,         \* identities of notifier objects
    Handler,          \* registered XDSUpdateHandlers
    HandlerType,      \* HandlerType[h]: the resource type h is registered for
    NDSRequired,      \* ~XDSServerConfig.NDSNotRequired
    FetchXDSTimeout,  \* how long one Get waits
    CacheExpireTime,  \* defaultCacheExpireTime
    Cleaner,          \* the cleaner, as a holder of the lock
    TimeoutErr,       \* the error of a Get that timed out
    None              \* an absent map entry, a nil pointer, a free lock

ResourceType == {"Listener", "RouteConfig", "Cluster", "ClusterLoadAssignment",
                 "NameTable"}

ASSUME ConstantsAssumption ==
    /\ TypeOf \in [Key -> ResourceType]
    /\ NilListener \in Resource
    /\ HandlerType \in [Handler -> ResourceType]
    /\ NDSRequired \in BOOLEAN
    /\ FetchXDSTimeout \in Nat
    /\ CacheExpireTime \in Nat

ASSUME DistinctAssumption ==
    /\ None \notin Resource \cup Notifier \cup Caller
    /\ Cleaner \notin Caller \cup {None}
    /\ TimeoutErr \notin Resource \cup {None}

VARIABLES
    mu,               \* holder of m.mu while a Watch runs under it, or None
    cache,            \* m.cache
    meta,             \* m.meta: whether k has an entry, and its access time
    notifierMap,      \* m.notifierMap
    closed,           \* the notifiers whose channel is closed
    watchedResource,  \* client.watchedResource
    pc, key, nf,      \* per caller: where in Get, for which key, its notifier
    result,           \* what Get returned, while pc[g] = "returned"
    upd,              \* the receiver's filtered response, before the update
    sweep,            \* expired entries the cleaner's loop has yet to visit
    unwatching,       \* the cleaner is inside Watch(rt, rName, true)
    xdsHandlers,      \* the handlers registered so far
    seen              \* the map each handler was last called with

getVars     == <<pc, key, nf, result>>
cleanVars   == <<sweep, unwatching>>
handlerVars == <<xdsHandlers, seen>>
vars == <<mu, cache, meta, notifierMap, closed, watchedResource, getVars, upd,
          cleanVars, handlerVars>>

-----------------------------------------------------------------------------
(* Resource types and partial maps *)

KeysOf(t) == {k \in Key : TypeOf[k] = t}

\* The RDS and EDS responses are allowed to hold part of the resources only.
RequireFullADSResponse(t) == t \in {"Listener", "Cluster"}

isReservedResource_Never(k) == FALSE

isReservedResource(k) == k = ReservedKey

\* A Go map from keys to resources: None where the map has no entry.
ResourceMap == [Key -> Resource \cup {None}]

EmptyMap == [k \in Key |-> None]

\* The part of map m that belongs to type t, m[t] in the code.
OfType(m, t) == [k \in Key |-> IF TypeOf[k] = t THEN m[k] ELSE None]

(* meta[k]: "none" (no entry), "untouched" (LastAccessTime never stored),     *)
(* "fresh", or "stale" (last access more than CacheExpireTime ago).           *)
MetaState == {"none", "untouched", "fresh", "stale"}

InGet == {"missed", "watch", "watching", "waiting"}

\* The type invariant: a Get past its cache miss knows its key, and one that
\* waits holds a notifier (Get never selects on a nil channel).
TypeOK ==
    /\ mu \in Caller \cup {Cleaner, None}
    /\ cache \in ResourceMap
    /\ meta \in [Key -> MetaState]
    /\ notifierMap \in [Key -> Notifier \cup {None}]
    /\ closed \in SUBSET Notifier
    /\ watchedResource \in SUBSET Key
    /\ pc \in [Caller -> InGet \cup {"idle", "returned"}]
    /\ key \in [Caller -> Key \cup {None}]
    /\ \A g \in Caller : pc[g] # "idle" => key[g] \in Key
    /\ nf \in [Caller -> Notifier \cup {None}]
    /\ \A g \in Caller : pc[g] \in {"watch", "watching", "waiting"} => nf[g] \in Notifier
    /\ result \in [Caller -> Resource \cup {TimeoutErr, None}]
    /\ upd \in [type : ResourceType, up : ResourceMap] \cup {None}
    /\ sweep \in SUBSET Key
    /\ unwatching \in BOOLEAN
    /\ xdsHandlers \in SUBSET Handler
    /\ seen \in [Handler -> ResourceMap]

\* The state after NewXDSResourceManager.  If listenerWarmup ran, it watched the
\* reserved listener and waited until its first response r was in the cache; it
\* does not run without LDS, or when the first connect fails (r = None).
Init ==
    /\ mu = None
    /\ \E r \in Resource \cup {None} :
          /\ cache = [k \in Key |-> IF k = ReservedKey THEN r ELSE None]
          /\ watchedResource = {k \in Key : k = ReservedKey /\ r # None}
    /\ meta = [k \in Key |-> IF cache[k] = None THEN "none" ELSE "untouched"]
    /\ notifierMap = [k \in Key |-> None]
    /\ closed = {}
    /\ pc = [g \in Caller |-> "idle"]
    /\ key = [g \in Caller |-> None]
    /\ nf = [g \in Caller |-> None]
    /\ result = [g \in Caller |-> None]
    /\ upd = None
    /\ sweep = {}
    /\ unwatching = FALSE
    /\ xdsHandlers = {}
    /\ seen = [h \in Handler |-> EmptyMap]

-----------------------------------------------------------------------------
(* Get *)

\* getFromCache's store of LastAccessTime, if k has a meta entry.
Touch(k) ==
    meta' = [meta EXCEPT ![k] = IF @ = "none" THEN @ ELSE "fresh"]

\* Leave Get with r; the locals of the call are gone.
Finish(g, r) ==
    /\ pc' = [pc EXCEPT ![g] = "returned"]
    /\ nf' = [nf EXCEPT ![g] = None]
    /\ result' = [result EXCEPT ![g] = r]

\* A call of Get and its first getFromCache, under RLock.
Get(g, k) ==
    /\ pc[g] = "idle"
    /\ mu = None
    /\ key' = [key EXCEPT ![g] = k]
    /\ Touch(k)
    /\ \/ /\ cache[k] # None
          /\ Finish(g, cache[k])
       \/ /\ cache[k] = None
          /\ pc' = [pc EXCEPT ![g] = "missed"]
          /\ UNCHANGED <<nf, result>>
    /\ UNCHANGED <<mu, cache, notifierMap, closed, watchedResource, upd,
                   cleanVars, handlerVars>>

JoinNotifier_Blind(g) ==
    /\ pc[g] = "missed"
    /\ mu = None
    /\ nf' = [nf EXCEPT ![g] = notifierMap[key[g]]]
    /\ pc' = [pc EXCEPT ![g] = "waiting"]
    /\ UNCHANGED <<mu, cache, meta, notifierMap, closed, watchedResource, key,
                   result, upd, cleanVars, handlerVars>>

\* The second critical section of Get when another caller's notifier is there.
JoinNotifier(g) ==
    /\ pc[g] = "missed"
    /\ mu = None
    /\ notifierMap[key[g]] # None
    /\ nf' = [nf EXCEPT ![g] = notifierMap[key[g]]]
    /\ pc' = [pc EXCEPT ![g] = "waiting"]
    /\ UNCHANGED <<mu, cache, meta, notifierMap, closed, watchedResource, key,
                   result, upd, cleanVars, handlerVars>>

\* A notifier that nothing refers to: what an allocation may return.
FreshNotifier(id) ==
    /\ \A k \in Key : notifierMap[k] # id
    /\ \A g \in Caller : nf[g] # id

\* The second critical section of Get when there is none: a new notifier, and
\* the lock is kept for the call of client.Watch.
CreateNotifier(g) ==
    /\ pc[g] = "missed"
    /\ mu = None
    /\ notifierMap[key[g]] = None
    /\ \E id \in Notifier :
          /\ FreshNotifier(id)
          /\ notifierMap' = [notifierMap EXCEPT ![key[g]] = id]
          /\ closed' = closed \ {id}
          /\ nf' = [nf EXCEPT ![g] = id]
    /\ mu' = g
    /\ pc' = [pc EXCEPT ![g] = "watch"]
    /\ UNCHANGED <<cache, meta, watchedResource, key, result, upd, cleanVars,
                   handlerVars>>

\* client.Watch(rType, rName, false) records the subscription ...
Watch(g) ==
    /\ pc[g] = "watch"
    /\ watchedResource' = watchedResource \cup {key[g]}
    /\ pc' = [pc EXCEPT ![g] = "watching"]
    /\ UNCHANGED <<mu, cache, meta, notifierMap, closed, key, nf, result, upd,
                   cleanVars, handlerVars>>

WatchReturns_Locked(g) ==
    /\ pc[g] = "watching"
    /\ pc' = [pc EXCEPT ![g] = "waiting"]
    /\ UNCHANGED <<mu, cache, meta, notifierMap, closed, watchedResource, key, nf,
                   result, upd, cleanVars, handlerVars>>

\* ... and returns once its request is queued; Get unlocks and waits.
WatchReturns(g) ==
    /\ pc[g] = "watching"
    /\ mu' = None
    /\ pc' = [pc EXCEPT ![g] = "waiting"]
    /\ UNCHANGED <<cache, meta, notifierMap, closed, watchedResource, key, nf,
                   result, upd, cleanVars, handlerVars>>

\* case <-nf.ch: read the cache again and return what is there, with no error.
Notified(g) ==
    /\ pc[g] = "waiting"
    /\ nf[g] \in closed
    /\ mu = None
    /\ Touch(key[g])
    /\ Finish(g, cache[key[g]])
    /\ UNCHANGED <<mu, cache, notifierMap, closed, watchedResource, key, upd,
                   cleanVars, handlerVars>>

Timeout_Leak(g) ==
    /\ pc[g] = "waiting"
    /\ mu = None
    /\ Finish(g, TimeoutErr)
    /\ UNCHANGED <<mu, cache, meta, notifierMap, closed, watchedResource, key, upd,
                   cleanVars, handlerVars>>

\* case <-ctx.Done(): remove the notifier that is registered now.
Timeout(g) ==
    /\ pc[g] = "waiting"
    /\ mu = None
    /\ notifierMap' = [notifierMap EXCEPT ![key[g]] = None]
    /\ Finish(g, TimeoutErr)
    /\ UNCHANGED <<mu, cache, meta, closed, watchedResource, key, upd,
                   cleanVars, handlerVars>>

\* The caller uses the result and may call Get again.
Return(g) ==
    /\ pc[g] = "returned"
    /\ pc' = [pc EXCEPT ![g] = "idle"]
    /\ key' = [key EXCEPT ![g] = None]
    /\ result' = [result EXCEPT ![g] = None]
    /\ UNCHANGED <<mu, cache, meta, notifierMap, closed, watchedResource, nf,
                   upd, cleanVars, handlerVars>>

-----------------------------------------------------------------------------
(* The cleaner *)

\* k has not been read for CacheExpireTime.  A Get touches the entry when it
\* starts and lasts at most FetchXDSTimeout, so with the default times an entry
\* does not expire while a Get for it is in progress.
Expire(k) ==
    /\ meta[k] = "fresh"
    /\ FetchXDSTimeout < CacheExpireTime =>
          \A g \in Caller : key[g] = k => pc[g] \notin InGet
    /\ meta' = [meta EXCEPT ![k] = "stale"]
    /\ UNCHANGED <<mu, cache, notifierMap, closed, watchedResource, getVars, upd,
                   cleanVars, handlerVars>>

CleanTick_Eager ==
    /\ mu = None
    /\ sweep' = {k \in Key : meta[k] \in {"fresh", "stale"} /\ ~isReservedResource(k)}
    /\ sweep' # {}
    /\ mu' = Cleaner
    /\ UNCHANGED <<cache, meta, notifierMap, closed, watchedResource, getVars,
                   upd, unwatching, handlerVars>>

\* The ticker fires and the cleaner locks; a sweep that finds nothing is a
\* stuttering step.
CleanTick ==
    /\ mu = None
    /\ sweep' = {k \in Key : meta[k] = "stale" /\ ~isReservedResource(k)}
    /\ sweep' # {}
    /\ mu' = Cleaner
    /\ UNCHANGED <<cache, meta, notifierMap, closed, watchedResource, getVars,
                   upd, unwatching, handlerVars>>

\* One round of the loop: drop the entry, and client.Watch(rt, rName, true).
Clean(k) ==
    /\ mu = Cleaner
    /\ ~unwatching
    /\ k \in sweep
    /\ meta' = [meta EXCEPT ![k] = "none"]
    /\ cache' = [cache EXCEPT ![k] = None]
    /\ watchedResource' = watchedResource \ {k}
    /\ sweep' = sweep \ {k}
    /\ unwatching' = TRUE
    /\ UNCHANGED <<mu, notifierMap, closed, getVars, upd, handlerVars>>

\* Watch has queued its request; the loop goes on, or ends and unlocks.
UnwatchReturns ==
    /\ mu = Cleaner
    /\ unwatching
    /\ unwatching' = FALSE
    /\ mu' = IF sweep = {} THEN None ELSE Cleaner
    /\ UNCHANGED <<cache, meta, notifierMap, closed, watchedResource, getVars,
                   upd, sweep, handlerVars>>

-----------------------------------------------------------------------------
(* The receiver: handleLDS, handleRDS, handleCDS, handleEDS *)

\* What is left of the unmarshalled resources res of type t after the filter
\* against the watch list.  handleLDS assigns res[n] for a watched name without
\* looking whether it is there, a nil pointer if it is not, unless the name has
\* to be resolved with NDS first.
Filter(t, res) ==
    [k \in Key |->
        IF TypeOf[k] # t \/ k \notin watchedResource THEN None
        ELSE IF t = "Listener" /\ (isReservedResource(k) \/ ~NDSRequired) /\ res[k] = None
        THEN NilListener
        ELSE res[k]]

\* A response of type t that unmarshals is filtered under c.mu.RLock.
HandleResponse(t, res) ==
    /\ upd = None
    /\ t # "NameTable"
    /\ upd' = [type |-> t, up |-> Filter(t, res)]
    /\ UNCHANGED <<mu, cache, meta, notifierMap, closed, watchedResource,
                   getVars, cleanVars, handlerVars>>

UpdatedMeta_Skipped(t, newCache) == meta

\* updateMeta: an entry for every cached resource of the type.
UpdatedMeta(t, newCache) ==
    [k \in Key |-> IF TypeOf[k] = t /\ newCache[k] # None /\ meta[k] = "none"
                   THEN "untouched" ELSE meta[k]]

UpdatedCache_AlwaysFull(t, up) ==
    [k \in Key |-> IF up[k] # None \/ TypeOf[k] = t THEN up[k] ELSE cache[k]]

UpdatedCache_NeverFull(t, up) ==
    [k \in Key |-> IF up[k] # None THEN up[k] ELSE cache[k]]

\* The cache after an update of type t: the new resources, and of the others
\* those a partial response leaves alone.
UpdatedCache(t, up) ==
    [k \in Key |-> IF up[k] # None THEN up[k]
                   ELSE IF TypeOf[k] = t /\ RequireFullADSResponse(t) THEN None
                   ELSE cache[k]]

UpdatedNotifiers_Kept(up) == notifierMap

\* The notifiers left after those of the resources that arrived are deleted.
UpdatedNotifiers(up) ==
    [k \in Key |-> IF up[k] # None THEN None ELSE notifierMap[k]]

\* UpdateResource, in one critical section: the handlers first, then the cache
\* and the notifiers of the resources that arrived, then the meta entries.
UpdateResource ==
    /\ upd # None
    /\ mu = None
    /\ LET t  == upd.type
           up == upd.up
       IN  /\ seen' = [h \in Handler |->
                          IF h \in xdsHandlers /\ HandlerType[h] = t THEN up ELSE seen[h]]
           /\ cache' = UpdatedCache(t, up)
           /\ closed' = closed \cup
                  {notifierMap[k] : k \in {j \in Key : up[j] # None /\ notifierMap[j] # None}}
           /\ notifierMap' = UpdatedNotifiers(up)
           /\ meta' = UpdatedMeta(t, cache')
    /\ upd' = None
    /\ UNCHANGED <<mu, watchedResource, getVars, cleanVars, xdsHandlers>>

\* RegisterXDSUpdateHandler: the handler starts from what the cache holds.
RegisterXDSUpdateHandler(h) ==
    /\ h \notin xdsHandlers
    /\ mu = None
    /\ xdsHandlers' = xdsHandlers \cup {h}
    /\ seen' = [seen EXCEPT ![h] = OfType(cache, HandlerType[h])]
    /\ UNCHANGED <<mu, cache, meta, notifierMap, closed, watchedResource,
                   getVars, upd, cleanVars>>

-----------------------------------------------------------------------------

\* What a response may hold: any of the type's resources, each with a value.
Response(t) == [KeysOf(t) -> (Resource \ {NilListener}) \cup {None}]

\* A response as a map over all keys.
AsMap(r) == [k \in Key |-> IF k \in DOMAIN r THEN r[k] ELSE None]

GetStep(g) ==
    \/ \E k \in Key : Get(g, k)
    \/ JoinNotifier(g)
    \/ CreateNotifier(g)
    \/ Watch(g)
    \/ WatchReturns(g)
    \/ Notified(g)
    \/ Timeout(g)
    \/ Return(g)

CleanStep == CleanTick \/ (\E k \in Key : Clean(k)) \/ UnwatchReturns

ReceiveStep ==
    \/ \E t \in ResourceType : \E r \in Response(t) : HandleResponse(t, AsMap(r))
    \/ UpdateResource

Next ==
    \/ \E g \in Caller : GetStep(g)
    \/ \E k \in Key : Expire(k)
    \/ CleanStep
    \/ ReceiveStep
    \/ \E h \in Handler : RegisterXDSUpdateHandler(h)

Spec == Init /\ [][Next]_vars

-----------------------------------------------------------------------------
(* Correctness *)

\* UpdateResource never closes a channel twice (a panic of the receiver): every
\* notifier still registered in notifierMap is open.
NotifierOpen ==
    \A k \in Key : notifierMap[k] # None => notifierMap[k] \notin closed

\* A notifier stays registered only while a Get for that very resource waits on
\* it: notifierMap leaks no entry, whatever the order of timeouts, updates and
\* new calls, so no later Get joins a notifier nobody answers for.
NotifierHasWaiter ==
    \A k \in Key : notifierMap[k] # None =>
        \E g \in Caller : /\ pc[g] \in {"watch", "watching", "waiting"}
                          /\ key[g] = k
                          /\ nf[g] = notifierMap[k]

\* Only the Get that creates a notifier calls Watch; whoever joins it relies on
\* that subscription.  Outside the critical section that creates it, a
\* registered notifier's resource is on the watch list: the cleaner, which
\* removes names from it, never takes away one that a Get waits for.
WaiterWatched ==
    \A k \in Key : notifierMap[k] # None =>
        k \in watchedResource \/ \E g \in Caller : pc[g] = "watch" /\ key[g] = k

\* A Get whose notifier is closed finds its resource when it reads the cache
\* again, for the types whose responses may be partial.  (For the others a
\* later complete response may take it away again: Get returns nil.)
NotifiedFinds ==
    \A g \in Caller :
        /\ pc[g] = "waiting"
        /\ nf[g] \in closed
        /\ ~RequireFullADSResponse(TypeOf[key[g]])
        => cache[key[g]] # None

\* Every cached resource has a meta entry, without which the cleaner, which
\* walks m.meta, would never see it.
CacheHasMeta ==
    \A k \in Key : cache[k] # None => meta[k] # "none"

\* A handler for clusters or listeners has been told of everything the cache
\* holds, however registration, responses and the cleaner interleave.
HandlerCoversCache ==
    \A h \in xdsHandlers : \A k \in KeysOf(HandlerType[h]) :
        RequireFullADSResponse(HandlerType[h]) /\ cache[k] # None
        => seen[h][k] = cache[k]

\* The listener the server side needs is never unsubscribed once the client has
\* watched it, however long it goes unread: the cleaner spares it although it
\* evicts whatever else expires.
ReservedStaysWatched ==
    [][(ReservedKey \in watchedResource) => (ReservedKey \in watchedResource')]_vars

\* A resource leaves the cache in one of two ways only: the cleaner, which
\* unsubscribes it in the same step and only after it expired, or a response of
\* a type that has to be complete.  A partial RDS or EDS response evicts nothing.
EvictionAllowed ==
    \A k \in Key : cache[k] # None /\ cache'[k] = None =>
        \/ meta[k] = "stale" /\ k \notin watchedResource'
        \/ upd # None /\ upd.type = TypeOf[k] /\ RequireFullADSResponse(TypeOf[k])

OnlyAllowedEvictions == [][EvictionAllowed]_vars

Store == INSTANCE ResourceStore WITH
            Complete <- {t \in ResourceType : RequireFullADSResponse(t)},
            status   <- [g \in Caller |-> IF pc[g] \in InGet THEN "pending" ELSE pc[g]]

\* The manager implements ResourceStore: seen from the callers of Get, its lock,
\* notifiers, ages and watch list come down to a store whose reads return what it
\* holds at that moment, and which loses only what it may.
StoreSteps == [][Store!Next]_(Store!vars)

(* What comments say and does not hold: see README. *)

\* Get "uses the notifier to notify the resource update and return the
\* resource" (manager.go): no Get is left waiting for a resource that is in the
\* cache already.
WaiterNotified ==
    \A g \in Caller : pc[g] = "waiting" /\ cache[key[g]] # None => nf[g] \in closed

\* "only accept the routeConfig that is subscribed" (client.go): what the cache
\* holds is on the watch list, so that the control plane keeps it up to date.
CachedIsWatched ==
    \A k \in Key : mu = None /\ cache[k] # None => k \in watchedResource
=============================================================================
