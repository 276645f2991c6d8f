------------------------ MODULE ResourceManagerProofs ------------------------
(***************************************************************************)
(* Proofs of the safety of ResourceManager, and that it implements         *)
(* ResourceStore, for any number of callers, resources, notifiers and      *)
(* handlers.                                                               *)
(***************************************************************************)
EXTENDS ResourceManager, TLAPS

-----------------------------------------------------------------------------
(* Lemmas about the operators *)

\* AsMap makes a map over all keys of a response.
LEMMA AsMapType ==
    ASSUME NEW t \in ResourceType, NEW r \in Response(t)
    PROVE  AsMap(r) \in ResourceMap
BY Zenon DEF AsMap, Response, ResourceMap, KeysOf

\* The filters of handleLDS, handleRDS, handleCDS and handleEDS return a map that
\* holds watched resources of the type only.
LEMMA FilterType ==
    ASSUME NEW t \in ResourceType, NEW res \in ResourceMap
    PROVE  /\ Filter(t, res) \in ResourceMap
           /\ \A k \in Key : Filter(t, res)[k] # None =>
                  TypeOf[k] = t /\ k \in watchedResource
BY Zenon, ConstantsAssumption, DistinctAssumption DEF Filter, ResourceMap

\* UpdateResource leaves a map in the cache: what arrived is there, and a type
\* whose responses may be partial loses nothing.
LEMMA UpdatedCacheType ==
    ASSUME NEW t \in ResourceType, NEW up \in ResourceMap, cache \in ResourceMap
    PROVE  /\ UpdatedCache(t, up) \in ResourceMap
           /\ \A k \in Key :
                 /\ up[k] # None => UpdatedCache(t, up)[k] = up[k]
                 /\ cache[k] # None /\ ~RequireFullADSResponse(TypeOf[k])
                       => UpdatedCache(t, up)[k] # None
                 /\ UpdatedCache(t, up)[k] # None => up[k] # None \/ cache[k] # None
                 /\ TypeOf[k] = t /\ RequireFullADSResponse(t)
                       => UpdatedCache(t, up)[k] = up[k]
                 /\ TypeOf[k] # t /\ up[k] = None
                       => UpdatedCache(t, up)[k] = cache[k]
BY Zenon DEF UpdatedCache, ResourceMap

-----------------------------------------------------------------------------
(* Type correctness *)

\* Every step of the manager preserves the types of its state.
LEMMA TypeStep == TypeOK /\ [Next]_vars => TypeOK'
<1> SUFFICES ASSUME TypeOK, [Next]_vars PROVE TypeOK'
    OBVIOUS
<1> USE ConstantsAssumption, DistinctAssumption DEF InGet
<1>1. ASSUME NEW g \in Caller, NEW k \in Key, Get(g, k) PROVE TypeOK'
    <2>1. /\ meta' \in [Key -> MetaState]
          /\ key' \in [Caller -> Key \cup {None}]
        BY Zenon, <1>1 DEF TypeOK, Get, Touch, MetaState
    <2>2. CASE cache[k] # None
        BY SMTT(30), <1>1, <2>1, <2>2 DEF TypeOK, Get, Finish, ResourceMap, cleanVars, handlerVars
    <2>3. CASE cache[k] = None
        BY <1>1, <2>1, <2>3 DEF TypeOK, Get, cleanVars, handlerVars
    <2> QED
        BY Zenon, <2>2, <2>3
<1>2. ASSUME NEW g \in Caller, JoinNotifier(g) PROVE TypeOK'
    BY Zenon, <1>2 DEF TypeOK, JoinNotifier, cleanVars, handlerVars
<1>3. ASSUME NEW g \in Caller, CreateNotifier(g) PROVE TypeOK'
    BY <1>3 DEF TypeOK, CreateNotifier, cleanVars, handlerVars
<1>4. ASSUME NEW g \in Caller, Watch(g) PROVE TypeOK'
    BY Zenon, <1>4 DEF TypeOK, Watch, cleanVars, handlerVars
<1>5. ASSUME NEW g \in Caller, WatchReturns(g) PROVE TypeOK'
    BY Zenon, <1>5 DEF TypeOK, WatchReturns, cleanVars, handlerVars
<1>6. ASSUME NEW g \in Caller, Notified(g) PROVE TypeOK'
    BY Zenon, <1>6 DEF TypeOK, Notified, Touch, Finish, MetaState, ResourceMap, cleanVars, handlerVars
<1>7. ASSUME NEW g \in Caller, Timeout(g) PROVE TypeOK'
    BY Zenon, <1>7 DEF TypeOK, Timeout, Finish, cleanVars, handlerVars
<1>8. ASSUME NEW g \in Caller, Return(g) PROVE TypeOK'
    BY Zenon, <1>8 DEF TypeOK, Return, cleanVars, handlerVars
<1>9. ASSUME NEW k \in Key, Expire(k) PROVE TypeOK'
    BY Zenon, <1>9 DEF TypeOK, Expire, MetaState, getVars, cleanVars, handlerVars
<1>10. CASE CleanTick
    BY Zenon, <1>10 DEF TypeOK, CleanTick, getVars, handlerVars
<1>11. ASSUME NEW k \in Key, Clean(k) PROVE TypeOK'
    BY Zenon, <1>11 DEF TypeOK, Clean, MetaState, ResourceMap, getVars, handlerVars
<1>12. CASE UnwatchReturns
    BY Zenon, <1>12 DEF TypeOK, UnwatchReturns, getVars, handlerVars
<1>13. ASSUME NEW t \in ResourceType, NEW r \in Response(t), HandleResponse(t, AsMap(r))
       PROVE TypeOK'
    <2>1. Filter(t, AsMap(r)) \in ResourceMap
        BY Zenon, AsMapType, FilterType
    <2> QED
        BY Zenon, <1>13, <2>1 DEF TypeOK, HandleResponse, getVars, cleanVars, handlerVars
<1>14. CASE UpdateResource
    <2>1. /\ upd.type \in ResourceType
          /\ upd.up \in ResourceMap
          /\ cache \in ResourceMap
        BY Zenon, <1>14 DEF TypeOK, UpdateResource
    <2>2. cache' \in ResourceMap
        BY Zenon, <1>14, <2>1, UpdatedCacheType DEF UpdateResource
    <2>3. meta' \in [Key -> MetaState]
        BY Zenon, <1>14 DEF TypeOK, UpdateResource, UpdatedMeta, MetaState
    <2>4. seen' \in [Handler -> ResourceMap]
        BY Zenon, <1>14, <2>1 DEF TypeOK, UpdateResource
    <2>5. /\ closed' \in SUBSET Notifier
          /\ notifierMap' \in [Key -> Notifier \cup {None}]
        BY <1>14 DEF TypeOK, UpdateResource, UpdatedNotifiers
    <2> QED
        BY Zenon, <1>14, <2>2, <2>3, <2>4, <2>5 DEF TypeOK, UpdateResource, getVars, cleanVars
<1>15. ASSUME NEW h \in Handler, RegisterXDSUpdateHandler(h) PROVE TypeOK'
    <2>1. OfType(cache, HandlerType[h]) \in ResourceMap
        BY Zenon DEF TypeOK, OfType, ResourceMap
    <2> QED
        BY Zenon, <1>15, <2>1 DEF TypeOK, RegisterXDSUpdateHandler, getVars, cleanVars
<1>16. CASE UNCHANGED vars
    BY Zenon, <1>16 DEF TypeOK, vars, getVars, cleanVars, handlerVars
<1> QED
    BY Zenon, <1>1, <1>2, <1>3, <1>4, <1>5, <1>6, <1>7, <1>8, <1>9, <1>10, <1>11, <1>12,
       <1>13, <1>14, <1>15, <1>16
    DEF Next, GetStep, CleanStep, ReceiveStep

\* The manager starts well typed.
LEMMA TypeInit == Init => TypeOK
<1>1. EmptyMap \in ResourceMap
    BY Zenon DEF EmptyMap, ResourceMap
<1>2. Init => unwatching \in BOOLEAN
    BY Zenon DEF Init
<1>3. Init => /\ pc \in [Caller -> InGet \cup {"idle", "returned"}]
              /\ \A g \in Caller : pc[g] = "idle"
    BY Zenon DEF Init
<1>4. Init => /\ seen \in [Handler -> ResourceMap]
              /\ cache \in ResourceMap
    BY <1>1 DEF Init, ResourceMap
<1>5. Init => /\ meta \in [Key -> MetaState]
              /\ notifierMap \in [Key -> Notifier \cup {None}]
              /\ key \in [Caller -> Key \cup {None}]
              /\ nf \in [Caller -> Notifier \cup {None}]
              /\ result \in [Caller -> Resource \cup {TimeoutErr, None}]
    BY DEF Init, MetaState
<1> QED
    BY Zenon, <1>2, <1>3, <1>4, <1>5 DEF Init, TypeOK

\* The state of the manager is well typed in every reachable state.
THEOREM TypeCorrect == Spec => []TypeOK
BY TypeInit, TypeStep, PTL DEF Spec

-----------------------------------------------------------------------------
(* Notifiers *)

Holding == {"watch", "watching", "waiting"}

\* A caller that holds the notifier registered for k is in a Get for k.
NotifierOwner ==
    \A g \in Caller, k \in Key :
        pc[g] \in Holding /\ nf[g] = notifierMap[k] => key[g] = k

\* NotifierOpen and NotifierHasWaiter are inductive together with
\* NotifierOwner, from which no notifier is registered twice.
NotifierInv == NotifierOpen /\ NotifierHasWaiter /\ NotifierOwner

\* One notifier is never registered for two resources.
LEMMA NotifierInjective ==
    ASSUME TypeOK, NotifierInv, NEW j \in Key, NEW k \in Key,
           notifierMap[j] # None, notifierMap[j] = notifierMap[k]
    PROVE  j = k
<1>1. PICK g \in Caller : pc[g] \in Holding /\ key[g] = j /\ nf[g] = notifierMap[j]
    BY Zenon DEF NotifierInv, NotifierHasWaiter, Holding
<1>2. key[g] = k
    BY Zenon, <1>1 DEF NotifierInv, NotifierOwner
<1> QED
    BY Zenon, <1>1, <1>2

\* Every step of the manager preserves NotifierInv.
LEMMA NotifierStep == TypeOK /\ NotifierInv /\ [Next]_vars => NotifierInv'
<1> SUFFICES ASSUME TypeOK, NotifierInv, [Next]_vars PROVE NotifierInv'
    OBVIOUS
<1> USE DistinctAssumption DEF Holding
<1>1. CASE UNCHANGED <<pc, key, nf, notifierMap, closed>>
    BY <1>1 DEF NotifierInv, NotifierOpen, NotifierHasWaiter, NotifierOwner
<1>2. ASSUME NEW g \in Caller, NEW k \in Key, Get(g, k) PROVE NotifierInv'
    BY <1>2 DEF TypeOK, Get, Finish, NotifierInv, NotifierOpen, NotifierHasWaiter, NotifierOwner
<1>3. ASSUME NEW g \in Caller, JoinNotifier(g) PROVE NotifierInv'
    <2>1. NotifierOpen'
        BY Zenon, <1>3 DEF JoinNotifier, NotifierInv, NotifierOpen
    <2>2. NotifierHasWaiter'
        BY Zenon, <1>3 DEF TypeOK, JoinNotifier, NotifierInv, NotifierHasWaiter
    <2>3. NotifierOwner'
        <3> SUFFICES ASSUME NEW h \in Caller, NEW k \in Key,
                            pc'[h] \in Holding, nf'[h] = notifierMap[k]
                     PROVE  key[h] = k
            BY Zenon, <1>3 DEF NotifierOwner, JoinNotifier
        <3>1. CASE h = g
            <4>1. key[g] \in Key
                BY Zenon, <1>3 DEF JoinNotifier, TypeOK
            <4>2. notifierMap[key[g]] # None /\ notifierMap[key[g]] = notifierMap[k]
                BY Zenon, <1>3, <3>1 DEF JoinNotifier, TypeOK
            <4> QED
                BY Zenon, <3>1, <4>1, <4>2, NotifierInjective
        <3>2. CASE h # g
            BY Zenon, <1>3, <3>2 DEF JoinNotifier, TypeOK, NotifierInv, NotifierOwner
        <3> QED
            BY Zenon, <3>1, <3>2
    <2> QED
        BY Zenon, <2>1, <2>2, <2>3 DEF NotifierInv
<1>4. ASSUME NEW g \in Caller, CreateNotifier(g) PROVE NotifierInv'
    <2>1. PICK id \in Notifier :
              /\ FreshNotifier(id)
              /\ notifierMap' = [notifierMap EXCEPT ![key[g]] = id]
              /\ closed' = closed \ {id}
              /\ nf' = [nf EXCEPT ![g] = id]
        BY Zenon, <1>4 DEF CreateNotifier
    <2>2. key[g] \in Key /\ key' = key /\ pc[g] = "missed"
          /\ pc' = [pc EXCEPT ![g] = "watch"]
        BY Zenon, <1>4 DEF CreateNotifier, TypeOK
    <2>3. NotifierOpen'
        BY Zenon, <2>1, <2>2 DEF TypeOK, FreshNotifier, NotifierInv, NotifierOpen
    <2>4. NotifierHasWaiter'
        BY <2>1, <2>2 DEF TypeOK, FreshNotifier, NotifierInv, NotifierHasWaiter
    <2>5. NotifierOwner'
        BY <2>1, <2>2 DEF TypeOK, FreshNotifier, NotifierInv, NotifierOwner
    <2> QED
        BY Zenon, <2>3, <2>4, <2>5 DEF NotifierInv
<1>5. ASSUME NEW g \in Caller, Watch(g) \/ WatchReturns(g) PROVE NotifierInv'
    BY <1>5 DEF TypeOK, Watch, WatchReturns, NotifierInv, NotifierOpen,
                NotifierHasWaiter, NotifierOwner
<1>6. ASSUME NEW g \in Caller, Notified(g) PROVE NotifierInv'
    BY <1>6 DEF TypeOK, Notified, Finish, NotifierInv, NotifierOpen,
                NotifierHasWaiter, NotifierOwner
<1>7. ASSUME NEW g \in Caller, Timeout(g) PROVE NotifierInv'
    <2>1. key[g] \in Key
        BY Zenon, <1>7 DEF Timeout, TypeOK
    <2> QED
        BY <1>7, <2>1 DEF TypeOK, Timeout, Finish, NotifierInv, NotifierOpen,
                          NotifierHasWaiter, NotifierOwner
<1>8. ASSUME NEW g \in Caller, Return(g) PROVE NotifierInv'
    BY <1>8 DEF TypeOK, Return, NotifierInv, NotifierOpen, NotifierHasWaiter, NotifierOwner
<1>9. CASE UpdateResource
    <2> DEFINE up == upd.up
    <2>1. /\ notifierMap' = [k \in Key |-> IF up[k] # None THEN None ELSE notifierMap[k]]
          /\ closed' = closed \cup
                {notifierMap[k] : k \in {j \in Key : up[j] # None /\ notifierMap[j] # None}}
          /\ pc' = pc /\ key' = key /\ nf' = nf
        BY Zenon, <1>9 DEF UpdateResource, UpdatedNotifiers, getVars
    <2>2. NotifierOpen'
        <3> SUFFICES ASSUME NEW k \in Key, notifierMap'[k] # None, notifierMap'[k] \in closed'
                     PROVE  FALSE
            BY Zenon DEF NotifierOpen
        <3>1. up[k] = None /\ notifierMap'[k] = notifierMap[k]
            BY Zenon, <2>1
        <3>2. notifierMap[k] \notin closed
            BY Zenon, <3>1 DEF NotifierInv, NotifierOpen
        <3>3. PICK j \in Key : up[j] # None /\ notifierMap[j] # None /\ notifierMap[j] = notifierMap[k]
            BY Zenon, <2>1, <3>1, <3>2
        <3> QED
            BY Zenon, <3>1, <3>3, NotifierInjective
    <2>3. NotifierHasWaiter'
        BY Zenon, <2>1 DEF NotifierInv, NotifierHasWaiter
    <2>4. NotifierOwner'
        BY Zenon, <2>1 DEF TypeOK, NotifierInv, NotifierOwner
    <2> QED
        BY Zenon, <2>2, <2>3, <2>4 DEF NotifierInv
<1> QED
    BY Zenon, <1>1, <1>2, <1>3, <1>4, <1>5, <1>6, <1>7, <1>8, <1>9
    DEF Next, GetStep, CleanStep, ReceiveStep, Expire, CleanTick, Clean, UnwatchReturns,
        HandleResponse, RegisterXDSUpdateHandler, vars, getVars

\* UpdateResource never closes a notifier's channel twice, and notifierMap
\* leaks no entry, in every reachable state.
THEOREM NotifiersSafe == Spec => [](NotifierOpen /\ NotifierHasWaiter)
<1>1. Init => NotifierInv
    BY Zenon DEF Init, NotifierInv, NotifierOpen, NotifierHasWaiter, NotifierOwner, Holding
<1>2. NotifierInv => NotifierOpen /\ NotifierHasWaiter
    BY Zenon DEF NotifierInv
<1> QED
    BY <1>1, <1>2, NotifierStep, TypeCorrect, PTL DEF Spec

-----------------------------------------------------------------------------
(* The lock and the ages of entries *)

\* With the default times a Get ends before the entry it touched expires.
Prompt == FetchXDSTimeout < CacheExpireTime

\* m.mu is held by the Get that calls Watch; the cleaner holds it while there
\* is something to sweep, which is expired and not reserved; and a Get in
\* progress keeps the entry of its resource from expiring.
LockInv ==
    /\ \A g \in Caller : pc[g] \in {"watch", "watching"} => mu = g
    /\ \A k \in sweep : mu = Cleaner /\ meta[k] = "stale" /\ ~isReservedResource(k)
    /\ Prompt => \A g \in Caller : pc[g] \in InGet => meta[key[g]] # "stale"

\* Every step of the manager preserves LockInv.
LEMMA LockStep == TypeOK /\ LockInv /\ [Next]_vars => LockInv'
<1> SUFFICES ASSUME TypeOK, LockInv, [Next]_vars PROVE LockInv'
    OBVIOUS
<1> USE DistinctAssumption DEF InGet
<1>1. CASE UNCHANGED <<mu, meta, pc, key, sweep>>
    BY Zenon, <1>1 DEF LockInv, Prompt, isReservedResource
<1>2. ASSUME NEW g \in Caller, NEW k \in Key, Get(g, k) PROVE LockInv'
    BY <1>2 DEF TypeOK, Get, Touch, Finish, LockInv, Prompt, isReservedResource, cleanVars
<1>3. ASSUME NEW g \in Caller, JoinNotifier(g) \/ CreateNotifier(g) PROVE LockInv'
    BY <1>3 DEF TypeOK, JoinNotifier, CreateNotifier, LockInv, Prompt, isReservedResource, cleanVars
<1>4. ASSUME NEW g \in Caller, Watch(g) \/ WatchReturns(g) PROVE LockInv'
    BY <1>4 DEF TypeOK, Watch, WatchReturns, LockInv, Prompt, isReservedResource, cleanVars
<1>5. ASSUME NEW g \in Caller, Notified(g) PROVE LockInv'
    BY <1>5 DEF TypeOK, Notified, Touch, Finish, LockInv, Prompt, isReservedResource, cleanVars
<1>6. ASSUME NEW g \in Caller, Timeout(g) \/ Return(g) PROVE LockInv'
    BY <1>6 DEF TypeOK, Timeout, Return, Finish, LockInv, Prompt, isReservedResource, cleanVars
<1>7. ASSUME NEW k \in Key, Expire(k) PROVE LockInv'
    BY <1>7 DEF TypeOK, Expire, LockInv, Prompt, isReservedResource, getVars, cleanVars
<1>8. CASE CleanTick
    BY Zenon, <1>8 DEF TypeOK, CleanTick, LockInv, Prompt, isReservedResource, getVars
<1>9. ASSUME NEW k \in Key, Clean(k) PROVE LockInv'
    BY <1>9 DEF TypeOK, Clean, LockInv, Prompt, isReservedResource, getVars
<1>10. CASE UnwatchReturns
    BY Zenon, <1>10 DEF TypeOK, UnwatchReturns, LockInv, Prompt, isReservedResource, getVars
<1>11. CASE UpdateResource
    <2>1. /\ mu' = None /\ mu = None /\ pc' = pc /\ key' = key /\ sweep' = sweep
          /\ \A k \in Key : meta'[k] = "stale" => meta[k] = "stale"
        BY Zenon, <1>11 DEF UpdateResource, UpdatedMeta, getVars, cleanVars
    <2> QED
        BY Zenon, <2>1 DEF TypeOK, LockInv, Prompt, isReservedResource
<1> QED
    BY Zenon, <1>1, <1>2, <1>3, <1>4, <1>5, <1>6, <1>7, <1>8, <1>9, <1>10, <1>11
    DEF Next, GetStep, CleanStep, ReceiveStep, HandleResponse, RegisterXDSUpdateHandler,
        vars, getVars, cleanVars

\* LockInv in every reachable state.
LEMMA LockCorrect == Spec => []LockInv
<1>1. Init => LockInv
    BY Zenon DEF Init, LockInv, InGet
<1> QED
    BY <1>1, LockStep, TypeCorrect, PTL DEF Spec

-----------------------------------------------------------------------------
(* Waiters, the watch list and the cache *)

\* NotifiedFinds for a Get that holds a notifier, also before it waits.
HolderFinds ==
    \A g \in Caller :
        /\ pc[g] \in Holding
        /\ nf[g] \in closed
        /\ ~RequireFullADSResponse(TypeOf[key[g]])
        => cache[key[g]] # None

\* WaiterWatched and HolderFinds hold as long as no Get outlasts the expiry
\* of its entry: the cleaner then finds nothing a caller waits for.
WaiterInv == Prompt => WaiterWatched /\ HolderFinds

\* Every step preserves WaiterInv.
LEMMA WaiterStep ==
    TypeOK /\ NotifierInv /\ LockInv /\ WaiterInv /\ [Next]_vars => WaiterInv'
<1> SUFFICES ASSUME TypeOK, NotifierInv, LockInv, WaiterWatched, HolderFinds, Prompt,
                    [Next]_vars
             PROVE  WaiterWatched' /\ HolderFinds'
    BY Zenon DEF WaiterInv, Prompt
<1> USE DistinctAssumption DEF InGet, Holding
<1>1. CASE UNCHANGED <<watchedResource, cache, notifierMap, closed, pc, key, nf>>
    BY Zenon, <1>1 DEF WaiterWatched, HolderFinds, RequireFullADSResponse
<1>2. ASSUME NEW g \in Caller, NEW k \in Key, Get(g, k)
      PROVE  WaiterWatched' /\ HolderFinds'
    <2>1. WaiterWatched'
        BY <1>2 DEF TypeOK, Get, Finish, WaiterWatched
    <2>2. HolderFinds'
        BY <1>2 DEF TypeOK, Get, Finish, HolderFinds, RequireFullADSResponse
    <2> QED
        BY Zenon, <2>1, <2>2
<1>3. ASSUME NEW g \in Caller, JoinNotifier(g)
      PROVE  WaiterWatched' /\ HolderFinds'
    <2>1. key[g] \in Key /\ notifierMap[key[g]] \notin closed
        BY Zenon, <1>3 DEF TypeOK, JoinNotifier, NotifierInv, NotifierOpen
    <2>2. WaiterWatched'
        BY Zenon, <1>3, <2>1 DEF TypeOK, JoinNotifier, WaiterWatched
    <2>3. HolderFinds'
        BY Zenon, <1>3, <2>1 DEF TypeOK, JoinNotifier, HolderFinds, RequireFullADSResponse
    <2> QED
        BY Zenon, <2>2, <2>3
<1>4. ASSUME NEW g \in Caller, CreateNotifier(g)
      PROVE  WaiterWatched' /\ HolderFinds'
    <2>1. PICK id \in Notifier :
              /\ FreshNotifier(id)
              /\ notifierMap' = [notifierMap EXCEPT ![key[g]] = id]
              /\ closed' = closed \ {id}
              /\ nf' = [nf EXCEPT ![g] = id]
        BY Zenon, <1>4 DEF CreateNotifier
    <2>2. /\ key[g] \in Key /\ key' = key /\ pc[g] = "missed"
          /\ pc' = [pc EXCEPT ![g] = "watch"]
          /\ UNCHANGED <<cache, watchedResource>>
        BY Zenon, <1>4 DEF CreateNotifier, TypeOK
    <2>3. WaiterWatched'
        BY <2>1, <2>2 DEF TypeOK, WaiterWatched
    <2>4. HolderFinds'
        BY Zenon, <2>1, <2>2 DEF TypeOK, HolderFinds, RequireFullADSResponse
    <2> QED
        BY Zenon, <2>3, <2>4
<1>5. ASSUME NEW g \in Caller, Watch(g)
      PROVE  WaiterWatched' /\ HolderFinds'
    <2>1. WaiterWatched'
        BY Zenon, <1>5 DEF TypeOK, Watch, WaiterWatched
    <2>2. HolderFinds'
        BY Zenon, <1>5 DEF TypeOK, Watch, HolderFinds, RequireFullADSResponse
    <2> QED
        BY Zenon, <2>1, <2>2
<1>6. ASSUME NEW g \in Caller, WatchReturns(g)
      PROVE  WaiterWatched' /\ HolderFinds'
    <2>1. WaiterWatched'
        BY Zenon, <1>6 DEF TypeOK, WatchReturns, WaiterWatched
    <2>2. HolderFinds'
        BY Zenon, <1>6 DEF TypeOK, WatchReturns, HolderFinds
    <2> QED
        BY Zenon, <2>1, <2>2
<1>7. ASSUME NEW g \in Caller, Notified(g) \/ Timeout(g) \/ Return(g)
      PROVE  WaiterWatched' /\ HolderFinds'
    <2>1. WaiterWatched'
        BY <1>7 DEF TypeOK, Notified, Timeout, Return, Finish, WaiterWatched
    <2>2. HolderFinds'
        BY <1>7 DEF TypeOK, Notified, Timeout, Return, Finish, HolderFinds,
                    RequireFullADSResponse
    <2> QED
        BY Zenon, <2>1, <2>2
<1>8. ASSUME NEW k \in Key, Clean(k)
      PROVE  WaiterWatched' /\ HolderFinds'
    <2>1. meta[k] = "stale"
        BY Zenon, <1>8 DEF Clean, LockInv
    <2>2. \A g \in Caller : pc[g] \in InGet => key[g] # k
        BY Zenon, <2>1 DEF LockInv
    <2>3. notifierMap[k] = None
        BY Zenon, <2>2 DEF NotifierInv, NotifierHasWaiter
    <2>4. WaiterWatched'
        BY Zenon, <1>8, <2>2, <2>3 DEF TypeOK, Clean, WaiterWatched, getVars
    <2>5. HolderFinds'
        BY <1>8, <2>2 DEF TypeOK, Clean, HolderFinds, RequireFullADSResponse, getVars
    <2> QED
        BY Zenon, <2>4, <2>5
<1>9. CASE UpdateResource
    <2> DEFINE up == upd.up
    <2>1. /\ notifierMap' = [k \in Key |-> IF up[k] # None THEN None ELSE notifierMap[k]]
          /\ closed' = closed \cup
                {notifierMap[k] : k \in {j \in Key : up[j] # None /\ notifierMap[j] # None}}
          /\ cache' = UpdatedCache(upd.type, up)
          /\ pc' = pc /\ key' = key /\ nf' = nf /\ watchedResource' = watchedResource
        BY Zenon, <1>9 DEF UpdateResource, UpdatedNotifiers, getVars
    <2>2. upd.type \in ResourceType /\ up \in ResourceMap /\ cache \in ResourceMap
        BY Zenon, <1>9 DEF UpdateResource, TypeOK
    <2>3. WaiterWatched'
        BY Zenon, <2>1 DEF WaiterWatched
    <2>4. HolderFinds'
        <3> SUFFICES ASSUME NEW g \in Caller, pc[g] \in Holding, nf[g] \in closed',
                            ~RequireFullADSResponse(TypeOf[key[g]])
                     PROVE  cache'[key[g]] # None
            BY Zenon, <2>1 DEF HolderFinds
        <3>1. key[g] \in Key
            BY Zenon DEF TypeOK
        <3>2. CASE nf[g] \in closed
            <4>1. cache[key[g]] # None
                BY Zenon, <3>2 DEF HolderFinds
            <4> QED
                BY <2>1, <2>2, <3>1, <4>1, UpdatedCacheType
        <3>3. CASE nf[g] \notin closed
            <4>1. PICK k \in Key : up[k] # None /\ nf[g] = notifierMap[k]
                BY Zenon, <2>1, <3>3
            <4>2. key[g] = k
                BY Zenon, <4>1 DEF NotifierInv, NotifierOwner
            <4> QED
                BY SMTT(30), <2>1, <2>2, <3>1, <4>1, <4>2, UpdatedCacheType
        <3> QED
            BY Zenon, <3>2, <3>3
    <2> QED
        BY Zenon, <2>3, <2>4
<1> QED
    BY Zenon, <1>1, <1>2, <1>3, <1>4, <1>5, <1>6, <1>7, <1>8, <1>9
    DEF Next, GetStep, CleanStep, ReceiveStep, Expire, CleanTick, UnwatchReturns,
        HandleResponse, RegisterXDSUpdateHandler, vars, getVars

\* The manager starts with no waiters and nothing to sweep.
LEMMA WaiterInit == Init => NotifierInv /\ LockInv /\ WaiterInv
BY Zenon DEF Init, WaiterInv, WaiterWatched, HolderFinds, NotifierInv, NotifierOpen,
             NotifierHasWaiter, NotifierOwner, Holding, LockInv, InGet

\* With the default times, a Get that waits is a holder.
LEMMA WaiterFinds == Prompt /\ WaiterInv => NotifiedFinds
BY Zenon DEF WaiterInv, HolderFinds, NotifiedFinds, Holding

\* With the default times, whoever waits on a registered notifier is
\* subscribed, and a notified Get for a route or an endpoint set finds it.
THEOREM WaitersServed == Spec => [](Prompt => WaiterWatched /\ NotifiedFinds)
<1>1. WaiterInv => (Prompt => WaiterWatched /\ NotifiedFinds)
    BY Zenon, WaiterFinds DEF WaiterInv
<1> QED
    BY <1>1, WaiterInit, NotifierStep, WaiterStep, LockCorrect, TypeCorrect, PTL DEF Spec

-----------------------------------------------------------------------------
(* The cache, its meta entries and the handlers *)

\* The update the receiver is about to make holds resources of its type only.
UpdTyped ==
    upd # None => \A k \in Key : upd.up[k] # None => TypeOf[k] = upd.type

\* CacheHasMeta and HandlerCoversCache are inductive with UpdTyped.
CacheInv == UpdTyped /\ CacheHasMeta /\ HandlerCoversCache

\* Every step preserves CacheInv.
LEMMA CacheStep == TypeOK /\ CacheInv /\ [Next]_vars => CacheInv'
<1> SUFFICES ASSUME TypeOK, CacheInv, [Next]_vars PROVE CacheInv'
    OBVIOUS
<1> USE ConstantsAssumption, DistinctAssumption
<1>1. CASE /\ UNCHANGED <<cache, upd, xdsHandlers, seen>>
           /\ \A k \in Key : meta[k] # "none" => meta'[k] # "none"
    BY Zenon, <1>1 DEF CacheInv, UpdTyped, CacheHasMeta, HandlerCoversCache, KeysOf
<1>2. ASSUME NEW g \in Caller, GetStep(g) PROVE CacheInv'
    <2>1. UNCHANGED <<cache, upd, xdsHandlers, seen>>
        BY Zenon, <1>2 DEF GetStep, Get, JoinNotifier, CreateNotifier, Watch, WatchReturns,
                    Notified, Timeout, Return, handlerVars
    <2>2. \A k \in Key : meta[k] # "none" => meta'[k] # "none"
        BY Zenon, <1>2 DEF TypeOK, GetStep, Get, JoinNotifier, CreateNotifier, Watch,
                    WatchReturns, Notified, Timeout, Return, Touch
    <2> QED
        BY Zenon, <1>1, <2>1, <2>2
<1>3. ASSUME NEW k \in Key, Expire(k) PROVE CacheInv'
    BY Zenon, <1>1, <1>3 DEF Expire, TypeOK, handlerVars
<1>4. ASSUME NEW k \in Key, Clean(k) PROVE CacheInv'
    <2>1. UNCHANGED <<upd, xdsHandlers, seen>>
        BY Zenon, <1>4 DEF Clean, handlerVars
    <2>2. \A j \in Key : cache'[j] # None =>
              cache'[j] = cache[j] /\ cache[j] # None /\ meta'[j] = meta[j]
        BY Zenon, <1>4 DEF TypeOK, ResourceMap, Clean
    <2> QED
        BY Zenon, <2>1, <2>2 DEF CacheInv, UpdTyped, CacheHasMeta, HandlerCoversCache, KeysOf
<1>5. CASE CleanTick \/ UnwatchReturns
    BY Zenon, <1>1, <1>5 DEF CleanTick, UnwatchReturns, handlerVars
<1>6. ASSUME NEW t \in ResourceType, NEW r \in Response(t), HandleResponse(t, AsMap(r))
      PROVE  CacheInv'
    <2>1. UpdTyped'
        BY Zenon, <1>6, AsMapType, FilterType DEF HandleResponse, UpdTyped
    <2>2. CacheHasMeta' /\ HandlerCoversCache'
        BY Zenon, <1>6 DEF HandleResponse, handlerVars, CacheInv, CacheHasMeta, HandlerCoversCache, KeysOf
    <2> QED
        BY Zenon, <2>1, <2>2 DEF CacheInv
<1>7. CASE UpdateResource
    <2> DEFINE t == upd.type
               up == upd.up
    <2>1. /\ seen' = [h \in Handler |->
                         IF h \in xdsHandlers /\ HandlerType[h] = t THEN up ELSE seen[h]]
          /\ cache' = UpdatedCache(t, up)
          /\ meta' = UpdatedMeta(t, cache')
          /\ upd # None /\ upd' = None
          /\ xdsHandlers' = xdsHandlers
        BY Zenon, <1>7 DEF UpdateResource
    <2>2. t \in ResourceType /\ up \in ResourceMap /\ cache \in ResourceMap
        BY Zenon, <1>7 DEF UpdateResource, TypeOK
    <2>3. \A k \in Key : up[k] # None => TypeOf[k] = t
        BY Zenon, <2>1 DEF CacheInv, UpdTyped
    <2>4. \A k \in Key : TypeOf[k] # t => cache'[k] = cache[k]
        BY <2>1, <2>2, <2>3, UpdatedCacheType
    <2>5. CacheHasMeta'
        BY Zenon, <2>1, <2>4 DEF UpdatedMeta, CacheInv, CacheHasMeta, TypeOK
    <2>6. HandlerCoversCache'
        <3> SUFFICES ASSUME NEW h \in xdsHandlers, NEW k \in Key, TypeOf[k] = HandlerType[h],
                            RequireFullADSResponse(HandlerType[h]), cache'[k] # None
                     PROVE  seen'[h][k] = cache'[k]
            BY <2>1 DEF HandlerCoversCache, KeysOf
        <3>1. h \in Handler
            BY Zenon DEF TypeOK
        <3>2. CASE HandlerType[h] = t
            BY <2>1, <2>2, <3>1, <3>2, UpdatedCacheType
        <3>3. CASE HandlerType[h] # t
            BY Zenon, <2>1, <2>4, <3>1, <3>3 DEF CacheInv, HandlerCoversCache, KeysOf
        <3> QED
            BY Zenon, <3>2, <3>3
    <2> QED
        BY Zenon, <2>1, <2>5, <2>6 DEF CacheInv, UpdTyped
<1>8. ASSUME NEW h \in Handler, RegisterXDSUpdateHandler(h) PROVE CacheInv'
    <2>1. UpdTyped' /\ CacheHasMeta'
        BY Zenon, <1>8 DEF RegisterXDSUpdateHandler, CacheInv, UpdTyped, CacheHasMeta
    <2>2. HandlerCoversCache'
        BY <1>8 DEF TypeOK, RegisterXDSUpdateHandler, OfType, CacheInv, HandlerCoversCache, KeysOf
    <2> QED
        BY Zenon, <2>1, <2>2 DEF CacheInv
<1>9. CASE UNCHANGED vars
    BY Zenon, <1>1, <1>9 DEF vars, handlerVars
<1> QED
    BY Zenon, <1>2, <1>3, <1>4, <1>5, <1>6, <1>7, <1>8, <1>9 DEF Next, CleanStep, ReceiveStep

\* At most the inbound listener is cached at first, and no handler registered.
LEMMA CacheInit == Init => CacheInv
BY Zenon DEF Init, CacheInv, UpdTyped, CacheHasMeta, HandlerCoversCache, EmptyMap

\* CacheInv in every reachable state.
LEMMA CacheCorrect == Spec => []CacheInv
BY CacheInit, CacheStep, TypeCorrect, PTL DEF Spec

\* Every cached resource has a meta entry, and a handler for clusters or
\* listeners has been told of everything the cache holds.
THEOREM CacheConsistent == Spec => [](CacheHasMeta /\ HandlerCoversCache)
<1>1. CacheInv => CacheHasMeta /\ HandlerCoversCache
    BY Zenon DEF CacheInv
<1> QED
    BY <1>1, CacheCorrect, PTL

\* Once the client watches the listener of the server side, neither the cleaner
\* nor anything else unsubscribes it.
THEOREM ReservedSafe == Spec => ReservedStaysWatched
<1>1. LockInv /\ [Next]_vars =>
        [(ReservedKey \in watchedResource) => (ReservedKey \in watchedResource')]_vars
    BY Zenon DEF LockInv, isReservedResource, Next, GetStep, Get, JoinNotifier,
           CreateNotifier, Watch, WatchReturns, Notified, Timeout, Return, Expire, CleanStep,
           CleanTick, Clean, UnwatchReturns, ReceiveStep, HandleResponse, UpdateResource,
           RegisterXDSUpdateHandler, vars
<1> QED
    BY <1>1, LockCorrect, PTL DEF Spec, ReservedStaysWatched

\* A resource leaves the cache only by the cleaner, expired and unsubscribed in
\* the same step, or by a response of a type that has to be complete.
THEOREM EvictionsAllowed == Spec => OnlyAllowedEvictions
<1>1. TypeOK /\ LockInv /\ CacheInv /\ [Next]_vars => [EvictionAllowed]_vars
    <2> SUFFICES ASSUME TypeOK, LockInv, CacheInv, Next PROVE EvictionAllowed
        OBVIOUS
    <2> USE DistinctAssumption
    <2>1. CASE cache' = cache
        BY Zenon, <2>1 DEF EvictionAllowed
    <2>2. ASSUME NEW k \in Key, Clean(k) PROVE EvictionAllowed
        <3>1. cache' = [cache EXCEPT ![k] = None] /\ k \notin watchedResource'
            BY Zenon, <2>2 DEF Clean
        <3>2. meta[k] = "stale"
            BY Zenon, <2>2 DEF Clean, LockInv
        <3>3. \A j \in Key : j # k => cache'[j] = cache[j]
            BY <3>1 DEF TypeOK
        <3> QED
            BY Zenon, <3>1, <3>2, <3>3 DEF EvictionAllowed
    <2>3. CASE UpdateResource
        <3>1. upd # None /\ cache' = UpdatedCache(upd.type, upd.up)
            BY Zenon, <2>3 DEF UpdateResource
        <3> QED
            BY Zenon, <3>1 DEF UpdatedCache, EvictionAllowed
    <2> QED
        BY Zenon, <2>1, <2>2, <2>3
        DEF Next, GetStep, Get, JoinNotifier, CreateNotifier, Watch, WatchReturns, Notified,
            Timeout, Return, Expire, CleanStep, CleanTick, UnwatchReturns, ReceiveStep,
            HandleResponse, RegisterXDSUpdateHandler
<1> QED
    BY <1>1, TypeCorrect, LockCorrect, CacheCorrect, PTL DEF Spec, OnlyAllowedEvictions

-----------------------------------------------------------------------------
(* The abstract store: ResourceManager implements ResourceStore, for any number *)
(* of callers, resources, notifiers and handlers.                               *)

\* How far Get is, as the abstract store sees it.
Status == [g \in Caller |-> IF pc[g] \in InGet THEN "pending" ELSE pc[g]]

\* A step that changes neither the cache nor what callers see is a stutter.
LEMMA StoreStutter ==
    ASSUME UNCHANGED <<cache, key, result>>, Status' = Status
    PROVE  UNCHANGED Store!vars
BY Zenon DEF Store!vars, Status

\* The first getFromCache of Get is a Hit or a Call.
LEMMA GetStore ==
    ASSUME TypeOK, NEW g \in Caller, NEW k \in Key, Get(g, k)
    PROVE  Store!Hit(g, k) \/ Store!Call(g, k)
<1>1. pc[g] = "idle" /\ key' = [key EXCEPT ![g] = k] /\ cache' = cache
    BY Zenon DEF Get
<1>2. Status[g] = "idle"
    BY Zenon, <1>1 DEF Status, InGet
<1>3. CASE cache[k] # None
    <2>1. /\ pc' = [pc EXCEPT ![g] = "returned"]
          /\ result' = [result EXCEPT ![g] = cache[k]]
        BY Zenon, <1>3 DEF Get, Finish
    <2>2. Status' = [Status EXCEPT ![g] = "returned"]
        BY Zenon, <2>1 DEF Status, InGet, TypeOK
    <2> QED
        BY Zenon, <1>1, <1>2, <1>3, <2>1, <2>2 DEF Store!Hit, Store!Answer, Status
<1>4. CASE cache[k] = None
    <2>1. pc' = [pc EXCEPT ![g] = "missed"] /\ result' = result
        BY Zenon, <1>4 DEF Get
    <2>2. Status' = [Status EXCEPT ![g] = "pending"]
        BY Zenon, <2>1 DEF Status, InGet, TypeOK
    <2> QED
        BY Zenon, <1>1, <1>2, <1>4, <2>1, <2>2 DEF Store!Call, Status
<1> QED
    BY Zenon, <1>3, <1>4

\* A Get that was notified replies with what the cache holds, and one that timed
\* out gives up.
LEMMA FinishStore ==
    ASSUME TypeOK, NotifiedFinds, NEW g \in Caller, Notified(g) \/ Timeout(g)
    PROVE  Store!Reply(g) \/ Store!GiveUp(g)
<1>1. pc[g] = "waiting" /\ cache' = cache /\ key' = key
      /\ pc' = [pc EXCEPT ![g] = "returned"]
    BY Zenon DEF Notified, Timeout, Finish
<1>2. Status[g] = "pending" /\ Status' = [Status EXCEPT ![g] = "returned"]
    BY Zenon, <1>1 DEF Status, InGet, TypeOK
<1>3. CASE Notified(g)
    <2>1. result' = [result EXCEPT ![g] = cache[key[g]]] /\ nf[g] \in closed
        BY Zenon, <1>3 DEF Notified, Finish
    <2>2. key[g] \in Key /\ TypeOf[key[g]] \in ResourceType
        BY Zenon, <1>1, ConstantsAssumption DEF TypeOK
    <2>3. cache[key[g]] # None \/ RequireFullADSResponse(TypeOf[key[g]])
        BY Zenon, <1>1, <2>1 DEF NotifiedFinds
    <2> QED
        BY Zenon, <1>1, <1>2, <2>1, <2>2, <2>3 DEF Store!Reply, Store!Answer, Status
<1>4. CASE Timeout(g)
    <2>1. result' = [result EXCEPT ![g] = TimeoutErr]
        BY Zenon, <1>4 DEF Timeout, Finish
    <2> QED
        BY Zenon, <1>1, <1>2, <2>1 DEF Store!GiveUp, Store!Answer, Status
<1> QED
    BY Zenon, <1>3, <1>4

\* A round of the cleaner drops a resource that no Get waits for.
LEMMA CleanStore ==
    ASSUME TypeOK, LockInv, Prompt, NEW k \in Key, Clean(k)
    PROVE  Store!Evict(k)
<1>1. /\ cache' = [cache EXCEPT ![k] = None]
      /\ pc' = pc /\ key' = key /\ result' = result
    BY Zenon DEF Clean, getVars
<1>2. meta[k] = "stale" /\ k # ReservedKey
    BY Zenon DEF Clean, LockInv, isReservedResource
<1>3. \A g \in Caller : Status[g] = "pending" => key[g] # k
    BY Zenon, <1>2 DEF LockInv, Status, TypeOK
<1>4. Status' = Status
    BY Zenon, <1>1 DEF Status
<1> QED
    BY Zenon, <1>1, <1>2, <1>3, <1>4 DEF Store!Evict, Status

\* UpdateResource delivers resources of one type.
LEMMA UpdateStore ==
    ASSUME TypeOK, CacheInv, UpdateResource
    PROVE  Store!Next \/ UNCHANGED Store!vars
<1> DEFINE t == upd.type
<1>1. /\ upd # None /\ cache' = UpdatedCache(t, upd.up)
      /\ pc' = pc /\ key' = key /\ result' = result
    BY Zenon DEF UpdateResource, getVars
<1>2. t \in ResourceType /\ upd.up \in ResourceMap /\ cache \in ResourceMap
    BY Zenon DEF UpdateResource, TypeOK
<1>3. Status' = Status
    BY Zenon, <1>1 DEF Status
<1>4. cache' \in ResourceMap
    BY Zenon, <1>1, <1>2, UpdatedCacheType
<1>5. \A k \in Key : TypeOf[k] # t => cache'[k] = cache[k]
    BY Zenon, <1>1, <1>2, UpdatedCacheType DEF CacheInv, UpdTyped
<1>6. CASE \E k \in Key : TypeOf[k] = t
    <2>1. PICK k \in Key : TypeOf[k] = t
        BY Zenon, <1>6
    <2>2. ~RequireFullADSResponse(t) => \A j \in Key : cache[j] # None => cache'[j] # None
        BY Zenon, <1>1, <1>2, <1>5, UpdatedCacheType
    <2>3. Store!Deliver(t)
        BY Zenon, <1>1, <1>2, <1>3, <1>4, <1>5, <2>2 DEF Store!Deliver, ResourceMap, Status
    <2> QED
        BY Zenon, <2>1, <2>3 DEF Store!Next
<1>7. CASE ~\E k \in Key : TypeOf[k] = t
    <2>1. cache' = cache
        BY <1>2, <1>4, <1>5, <1>7 DEF ResourceMap
    <2> QED
        BY Zenon, <1>1, <1>3, <2>1, StoreStutter
<1> QED
    BY Zenon, <1>6, <1>7

\* Every step of the manager is a step of the store or a stutter of it.
LEMMA StoreStep ==
    ASSUME TypeOK, LockInv, CacheInv, NotifiedFinds, Prompt, [Next]_vars
    PROVE  [Store!Next]_(Store!vars)
<1>1. ASSUME NEW g \in Caller, NEW k \in Key, Get(g, k) PROVE Store!Next
    BY Zenon, <1>1, GetStore DEF Store!Next
<1>2. ASSUME NEW g \in Caller,
             JoinNotifier(g) \/ CreateNotifier(g) \/ Watch(g) \/ WatchReturns(g)
      PROVE  UNCHANGED Store!vars
    <2>1. UNCHANGED <<cache, key, result>>
        BY Zenon, <1>2 DEF JoinNotifier, CreateNotifier, Watch, WatchReturns
    <2>2. pc[g] \in InGet /\ \E p \in InGet : pc' = [pc EXCEPT ![g] = p]
        BY Zenon, <1>2 DEF JoinNotifier, CreateNotifier, Watch, WatchReturns, InGet
    <2>3. Status' = Status
        BY Zenon, <2>2 DEF Status, TypeOK
    <2> QED
        BY Zenon, <2>1, <2>3, StoreStutter
<1>3. ASSUME NEW g \in Caller, Notified(g) \/ Timeout(g) PROVE Store!Next
    BY Zenon, <1>3, FinishStore DEF Store!Next
<1>4. ASSUME NEW g \in Caller, Return(g) PROVE Store!Next
    <2>1. Status[g] = "returned" /\ Status' = [Status EXCEPT ![g] = "idle"]
        BY Zenon, <1>4 DEF Return, Status, InGet, TypeOK
    <2>2. Store!Return(g)
        BY Zenon, <1>4, <2>1 DEF Return, Store!Return, Status
    <2> QED
        BY Zenon, <2>2 DEF Store!Next
<1>5. ASSUME NEW k \in Key, Clean(k) PROVE Store!Next
    BY Zenon, <1>5, CleanStore DEF Store!Next
<1>6. CASE UpdateResource
    BY Zenon, <1>6, UpdateStore
<1>7. CASE UNCHANGED <<cache, getVars>>
    <2>1. UNCHANGED <<cache, key, result>> /\ Status' = Status
        BY Zenon, <1>7 DEF getVars, Status
    <2> QED
        BY Zenon, <2>1, StoreStutter
<1> QED
    BY Zenon, <1>1, <1>2, <1>3, <1>4, <1>5, <1>6, <1>7
    DEF Next, GetStep, CleanStep, ReceiveStep, Expire, CleanTick, UnwatchReturns,
        HandleResponse, RegisterXDSUpdateHandler, vars

\* With the default times, the manager starts as the store does and takes only
\* steps of the store, however its goroutines interleave.
THEOREM StoreImplemented ==
    ASSUME Prompt
    PROVE  Spec => Store!Init /\ StoreSteps
<1>1. Init => Store!Init
    <2>1. Init => /\ cache \in [Key -> Resource \cup {None}]
                  /\ \A k \in Key \ {ReservedKey} : cache[k] = None
        BY DEF Init
    <2>2. Init => Status = [g \in Caller |-> "idle"]
        BY Zenon DEF Init, Status, InGet
    <2> QED
        BY Zenon, <2>1, <2>2 DEF Init, Store!Init, Status
<1>2. TypeOK /\ LockInv /\ CacheInv /\ (Prompt => WaiterWatched /\ NotifiedFinds) /\ [Next]_vars
      => [Store!Next]_(Store!vars)
    BY Zenon, StoreStep
<1> QED
    BY <1>1, <1>2, TypeCorrect, LockCorrect, CacheCorrect, WaitersServed, PTL
    DEF Spec, StoreSteps
=============================================================================
