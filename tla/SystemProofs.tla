----------------------------- MODULE SystemProofs -----------------------------
(***************************************************************************)
(* Proofs about the resource manager on top of the xDS client: what is     *)
(* proved of each carries over to the two together, and what only the two  *)
(* together promise holds for any types, names, callers and bounds.        *)
(***************************************************************************)
EXTENDS System, XdsClientProofs

\* The lemmas about the manager, over the variables of System.
MP == INSTANCE ResourceManagerProofs WITH
        TypeOf          <- [k \in Key |-> k[1]],
        Resource        <- (1..MaxVersion) \cup {NilListener},
        Handler         <- {},
        HandlerType     <- <<>>,
        mu              <- mmu,
        watchedResource <- {k \in Key : k[2] \in watchedResource[k[1]]}

-----------------------------------------------------------------------------
(* The client's part *)

\* A key is a pair of a type and a name that the client can watch.
LEMMA KeyPair ==
    ASSUME NEW k \in Key
    PROVE  /\ k = <<k[1], k[2]>> /\ k[1] \in Type \ {"NameTable"} /\ k[1] \in M!ResourceType
           /\ k[2] \in Name \cup {AnyName}
<1>0. \A t \in Type : t \in M!ResourceType
    BY Zenon, ConstantsAssumption DEF M!ResourceType
<1>1. CASE k \in (Type \ {"NameTable"}) \X Name
  <2>1. k = <<k[1], k[2]>> /\ k[1] \in Type \ {"NameTable"} /\ k[2] \in Name
      BY <1>1
  <2> QED
      BY Zenon, <1>0, <2>1
<1>2. CASE LDSRequired /\ k = ReservedKey
    BY <1>2, ConstantsAssumption DEF ReservedKey, M!ResourceType
<1> QED
    BY Zenon, <1>1, <1>2 DEF Key

\* What the constants of the manager are here is what it assumes of them.
LEMMA ManagerConstants ==
    /\ [k \in Key |-> k[1]] \in [Key -> MP!ResourceType]
    /\ NilListener \in (1..MaxVersion) \cup {NilListener}
    /\ <<>> \in [{} -> MP!ResourceType]
    /\ NDSRequired \in BOOLEAN
    /\ FetchXDSTimeout \in Nat
    /\ CacheExpireTime \in Nat
<1>1. \A k \in Key : k[1] \in MP!ResourceType
    BY Zenon, KeyPair DEF M!ResourceType, MP!ResourceType
<1>2. <<>> \in [{} -> MP!ResourceType]
    OBVIOUS
<1>3. NDSRequired \in BOOLEAN
    BY Zenon, ConstantsAssumption
<1> QED
    BY Zenon, <1>1, <1>2, <1>3, SystemAssumption

\* The keys that the manager knows.
KeysKnown == sweep \in SUBSET Key /\ \A g \in Caller : pc[g] # "idle" => key[g] \in Key

\* Every step of the system is one of the client.
LEMMA SystemIsClient ==
    ASSUME TypeInv, KeysKnown, [SysNext]_sysVars
    PROVE  [Step]_vars
<1>1. ASSUME NEW g \in Caller, NEW k \in Key, SysGet(g, k) PROVE Step
    <2>0. watches < MaxWatch /\ watches' = watches + 1 /\ watches \in 0..MaxWatch
        BY Zenon, <1>1 DEF SysGet, TypeInv, TypeOK
    <2>1. watches' \in 0..MaxWatch
        BY <2>0, ConstantsAssumption
    <2> QED
        BY Zenon, <1>1, <2>1 DEF SysGet, Step
<1>2. ASSUME NEW g \in Caller, SysWatch(g) PROVE Step
    <2>1. key[g] \in Key /\ ManagerWatch(key[g][1], key[g][2], FALSE) /\ watches' = watches
        BY <1>2 DEF SysWatch, KeysKnown
    <2>2. watches' \in 0..MaxWatch
        BY Zenon, <2>1 DEF TypeInv, TypeOK
    <2> QED
        BY Zenon, <2>1, <2>2, KeyPair DEF Step
<1>3. CASE SysClean
    <2>1. PICK k \in Key : ManagerWatch(k[1], k[2], TRUE) /\ watches' = watches
        BY Zenon, <1>3 DEF SysClean, KeysKnown
    <2>2. watches' \in 0..MaxWatch
        BY Zenon, <2>1 DEF TypeInv, TypeOK
    <2> QED
        BY Zenon, <2>1, <2>2, KeyPair DEF Step
<1>4. ASSUME NEW g \in Caller, SysWatchReturns(g) \/ SysUnwatchReturns \/ WarmupWatchReturns
      PROVE  Step
    BY Zenon, <1>4 DEF SysWatchReturns, SysUnwatchReturns, WarmupWatchReturns, Step, Next
<1>5. CASE SysUnwatchReturns \/ WarmupWatchReturns
    BY Zenon, <1>5 DEF SysUnwatchReturns, WarmupWatchReturns, Step, Next
<1>6. CASE SysFilter \/ SysApply
    BY Zenon, <1>6 DEF SysFilter, SysApply, Step, Next, Receiver
<1>7. CASE ClientStep
    BY Zenon, <1>7 DEF ClientStep, Step, Next, Receiver
<1>8. ASSUME NEW g \in Caller, Notifiers(g) \/ SysNotified(g) \/ SysTimeout(g) \/ SysReturn(g)
      PROVE  UNCHANGED vars
    BY Zenon, <1>8 DEF Notifiers, SysNotified, SysTimeout, SysReturn
<1>9. CASE SysExpire \/ SysCleanTick
    BY Zenon, <1>9 DEF SysExpire, SysCleanTick
<1> QED
    BY Zenon, <1>1, <1>2, <1>3, <1>4, <1>5, <1>6, <1>7, <1>8, <1>9 DEF SysNext, sysVars

-----------------------------------------------------------------------------
(* The manager's part *)

\* The watch list as the manager sees it.
Watched == {k \in Key : k[2] \in watchedResource[k[1]]}

\* The actions of M, and those that the lemmas of MP are about, are the same.
LEMMA SameGet ==
    ASSUME NEW g \in Caller
    PROVE  /\ \A k \in Key : M!Get(g, k) => MP!GetStep(g)
           /\ M!JoinNotifier(g) \/ M!CreateNotifier(g) => MP!GetStep(g)
           /\ M!Watch(g) \/ M!WatchReturns(g) => MP!GetStep(g)
           /\ M!Notified(g) \/ M!Timeout(g) \/ M!Return(g) => MP!GetStep(g)
<1> USE DEF MP!GetStep, M!cleanVars, MP!cleanVars, M!handlerVars, MP!handlerVars
<1>1. ASSUME NEW k \in Key, M!Get(g, k) PROVE MP!Get(g, k)
    BY Zenon, <1>1 DEF M!Get, MP!Get, M!Touch, MP!Touch, M!Finish, MP!Finish
<1>2. M!JoinNotifier(g) => MP!JoinNotifier(g)
    BY Zenon DEF M!JoinNotifier, MP!JoinNotifier
<1>3. M!CreateNotifier(g) => MP!CreateNotifier(g)
    BY Zenon DEF M!CreateNotifier, MP!CreateNotifier, M!FreshNotifier, MP!FreshNotifier
<1>4. M!Watch(g) => MP!Watch(g)
    BY Zenon DEF M!Watch, MP!Watch
<1>5. M!WatchReturns(g) => MP!WatchReturns(g)
    BY Zenon DEF M!WatchReturns, MP!WatchReturns
<1>6. M!Notified(g) => MP!Notified(g)
    BY Zenon DEF M!Notified, MP!Notified, M!Touch, MP!Touch, M!Finish, MP!Finish
<1>7. M!Timeout(g) => MP!Timeout(g)
    BY Zenon DEF M!Timeout, MP!Timeout, M!Finish, MP!Finish
<1>8. M!Return(g) => MP!Return(g)
    BY Zenon DEF M!Return, MP!Return
<1> QED
    BY Zenon, <1>1, <1>2, <1>3, <1>4, <1>5, <1>6, <1>7, <1>8

\* The same of the cleaner's actions ...
LEMMA SameClean ==
    /\ \A k \in Key : M!Expire(k) => MP!Expire(k)
    /\ M!CleanTick => MP!CleanTick
    /\ \A k \in Key : M!Clean(k) => MP!Clean(k)
    /\ M!UnwatchReturns => MP!UnwatchReturns
<1> USE DEF M!getVars, MP!getVars, M!handlerVars, MP!handlerVars
<1>1. ASSUME NEW k \in Key, M!Expire(k) PROVE MP!Expire(k)
    BY Zenon, <1>1 DEF M!Expire, MP!Expire, M!InGet, MP!InGet, M!cleanVars, MP!cleanVars
<1>2. M!CleanTick => MP!CleanTick
    BY Zenon DEF M!CleanTick, MP!CleanTick, M!isReservedResource, MP!isReservedResource
<1>3. ASSUME NEW k \in Key, M!Clean(k) PROVE MP!Clean(k)
    BY Zenon, <1>3 DEF M!Clean, MP!Clean
<1>4. M!UnwatchReturns => MP!UnwatchReturns
    BY Zenon DEF M!UnwatchReturns, MP!UnwatchReturns
<1> QED
    BY Zenon, <1>1, <1>2, <1>3, <1>4

\* ... and of the receiver's.
LEMMA SameReceive ==
    /\ \A t, res : M!HandleResponse(t, res) => MP!HandleResponse(t, res)
    /\ M!UpdateResource => MP!UpdateResource
<1> USE DEF M!cleanVars, MP!cleanVars, M!getVars, MP!getVars, M!handlerVars, MP!handlerVars
<1>1. ASSUME NEW t, NEW res, M!HandleResponse(t, res) PROVE MP!HandleResponse(t, res)
    BY Zenon, <1>1 DEF M!HandleResponse, MP!HandleResponse, M!Filter, MP!Filter,
                       M!isReservedResource, MP!isReservedResource
<1>2. M!UpdateResource => MP!UpdateResource
    BY Zenon DEF M!UpdateResource, MP!UpdateResource, M!UpdatedCache, MP!UpdatedCache,
                 M!UpdatedNotifiers, MP!UpdatedNotifiers, M!UpdatedMeta, MP!UpdatedMeta,
                 M!RequireFullADSResponse, MP!RequireFullADSResponse
<1> QED
    BY Zenon, <1>1, <1>2

\* Every step of the system is one of the manager, or leaves all of it alone but
\* for the watch list, which it does not shorten (the warmup).
LEMMA SystemIsManager ==
    ASSUME TypeInv, KeysKnown, [SysNext]_sysVars
    PROVE  \/ MP!Next
           \/ UNCHANGED managerVars /\ Watched \subseteq Watched'
<1>1. ASSUME NEW g \in Caller, NEW k \in Key, SysGet(g, k) PROVE MP!Next
    BY Zenon, <1>1, SameGet DEF SysGet, MP!Next
<1>2. ASSUME NEW g \in Caller,
             \/ Notifiers(g) \/ SysWatch(g) \/ SysWatchReturns(g)
             \/ SysNotified(g) \/ SysTimeout(g) \/ SysReturn(g)
      PROVE  MP!Next
    <2>1. MP!GetStep(g)
        BY Zenon, <1>2, SameGet
        DEF Notifiers, SysWatch, SysWatchReturns, SysNotified, SysTimeout, SysReturn
    <2> QED
        BY Zenon, <2>1 DEF MP!Next
<1>3. CASE SysExpire \/ SysCleanTick \/ SysUnwatchReturns
    BY Zenon, <1>3, SameClean
    DEF SysExpire, SysCleanTick, SysUnwatchReturns, MP!Next, MP!CleanStep
<1>4. CASE SysClean
    BY Zenon, <1>4, SameClean DEF SysClean, KeysKnown, MP!Next, MP!CleanStep
<1>5. CASE SysFilter
    <2>1. PICK r \in [M!KeysOf(resp.type) -> {resp.version, None}] :
              FilterResponse /\ M!HandleResponse(resp.type, M!AsMap(r))
        BY Zenon, <1>5 DEF SysFilter
    <2>2. resp \in Response
        BY Zenon, <2>1 DEF FilterResponse, TypeInv, TypeOK, Locals
    <2>3. resp.type \in MP!ResourceType /\ resp.version \in 1..MaxVersion
        BY Zenon, <2>2, ConstantsAssumption DEF Response, MP!ResourceType
    <2>4. r \in MP!Response(resp.type)
      <3>1. resp.version \in (((1..MaxVersion) \cup {NilListener}) \ {NilListener}) \cup {None}
          BY Zenon, <2>3, SystemAssumption
      <3>2. r \in [M!KeysOf(resp.type) ->
                      (((1..MaxVersion) \cup {NilListener}) \ {NilListener}) \cup {None}]
          BY Zenon, <2>1, <3>1
      <3>3. M!KeysOf(resp.type) = MP!KeysOf(resp.type)
          BY Zenon DEF M!KeysOf, MP!KeysOf
      <3> QED
          BY Zenon, <3>2, <3>3 DEF MP!Response
    <2>5. M!AsMap(r) = MP!AsMap(r)
        BY Zenon DEF M!AsMap, MP!AsMap
    <2>6. MP!HandleResponse(resp.type, MP!AsMap(r))
        BY Zenon, <2>1, <2>5, SameReceive
    <2> QED
        BY Zenon, <2>3, <2>4, <2>6 DEF MP!Next, MP!ReceiveStep
<1>6. CASE SysApply
    BY Zenon, <1>6, SameReceive DEF SysApply, MP!Next, MP!ReceiveStep
<1>7. CASE UNCHANGED <<managerVars, watchedResource>>
    BY Zenon, <1>7 DEF Watched
<1>8. CASE ClientStep
    <2>1. CASE warmup
      <3>1. ASSUME NEW t \in Type, WatchLock(t, AnyName, FALSE) PROVE Watched \subseteq Watched'
        <4>1. watchedResource' = [watchedResource EXCEPT ![t] = @ \cup {AnyName}]
            BY Zenon, <3>1 DEF WatchLock
        <4>2. \A u \in Type : watchedResource[u] \subseteq watchedResource'[u]
            BY Zenon, <4>1 DEF TypeInv, TypeOK
        <4> QED
            BY Zenon, <4>2, KeyPair DEF Watched
      <3>2. WarmupWatch("nds", NDSRequired, "NameTable", "ndsWait") => Watched \subseteq Watched'
          BY Zenon, <3>1, ConstantsAssumption DEF WarmupWatch
      <3>3. WarmupWatch("lds", LDSRequired, "Listener", "ldsWait") => Watched \subseteq Watched'
          BY Zenon, <3>1, ConstantsAssumption DEF WarmupWatch
      <3>4. watchedResource' = watchedResource => Watched \subseteq Watched'
          BY Zenon DEF Watched
      <3> QED
          BY Zenon, <1>8, <2>1, <3>2, <3>3, <3>4 DEF warmup, WarmupGoOn, mapVars, ClientStep
    <2>2. CASE UNCHANGED watchedResource
        BY Zenon, <1>7, <1>8, <2>2 DEF ClientStep
    <2> QED
        BY Zenon, <1>8, <2>1, <2>2
        DEF ClientStep, Sender, SenderStop, TakeRequest, TakeStream, ResendLock, Resend, ResendDone,
            Recv, updateAndACK, AckSend, Reconnect, ResetMaps, PublishStream, Push, Break, mapVars
<1>9. CASE WarmupWatchReturns
    BY Zenon, <1>7, <1>9 DEF WarmupWatchReturns, WatchSend, mapVars
<1>10. CASE UNCHANGED sysVars
    BY Zenon, <1>7, <1>10 DEF sysVars, vars, mapVars
<1> QED
    BY Zenon, <1>1, <1>2, <1>3, <1>4, <1>5, <1>6, <1>8, <1>9, <1>10 DEF SysNext

\* What ResourceManagerProofs shows to be inductive.
ManagerInv == MP!TypeOK /\ MP!NotifierInv /\ MP!LockInv /\ MP!WaiterInv /\ MP!CacheInv

\* The manager's invariants hold on top of the client, too.
LEMMA ManagerStep ==
    ASSUME TypeInv, ManagerInv, [SysNext]_sysVars
    PROVE  ManagerInv'
<1>1. KeysKnown
    BY Zenon DEF ManagerInv, MP!TypeOK, KeysKnown
<1>2. CASE MP!Next
    <2>1. MP!TypeOK' /\ MP!NotifierInv' /\ MP!LockInv' /\ MP!WaiterInv' /\ MP!CacheInv'
        BY Zenon, <1>2, MP!TypeStep, MP!NotifierStep, MP!LockStep, MP!WaiterStep, MP!CacheStep,
           ManagerConstants, SystemAssumption
        DEF ManagerInv
    <2> QED
        BY Zenon, <2>1 DEF ManagerInv
<1>3. CASE UNCHANGED managerVars /\ Watched \subseteq Watched'
    <2>1. MP!TypeOK'
        BY Zenon, <1>3 DEF ManagerInv, MP!TypeOK, managerVars
    <2>2. MP!NotifierInv'
        BY Zenon, <1>3 DEF ManagerInv, MP!NotifierInv, MP!NotifierOpen, MP!NotifierHasWaiter,
                           MP!NotifierOwner, managerVars
    <2>3. MP!LockInv'
        BY Zenon, <1>3 DEF ManagerInv, MP!LockInv, MP!isReservedResource, managerVars
    <2>4. MP!WaiterInv'
        BY Zenon, <1>3 DEF ManagerInv, MP!WaiterInv, MP!WaiterWatched, MP!HolderFinds, Watched,
                           managerVars
    <2>5. MP!CacheInv'
        BY Zenon, <1>3 DEF ManagerInv, MP!CacheInv, MP!UpdTyped, MP!CacheHasMeta,
                           MP!HandlerCoversCache, MP!KeysOf, managerVars
    <2> QED
        BY Zenon, <2>1, <2>2, <2>3, <2>4, <2>5 DEF ManagerInv
<1> QED
    BY Zenon, <1>1, <1>2, <1>3, SystemIsManager

-----------------------------------------------------------------------------
(* A waiter is subscribed to what it waits for *)

\* The type of a watched name has an entry in the client's map.
WatchedTypes == \A t \in Type : watchedResource[t] # {} => t \in watchedType

\* What is inductive of the two together: the invariants of each, and
\* WatchedTypes.
SystemInv == TypeInv /\ StreamInv /\ SubInv /\ ManagerInv /\ WatchedTypes

\* Nothing is watched, cached or waited for at first.
LEMMA SystemInit == SysInit => SystemInv
<1> SUFFICES ASSUME SysInit PROVE SystemInv
    OBVIOUS
<1>1. TypeInv /\ StreamInv /\ SubInv
    BY Zenon, TypeInit, StreamInit, SubInit DEF SysInit
<1>2. MP!Init
    BY Zenon DEF SysInit, M!Init, MP!Init, M!EmptyMap, MP!EmptyMap
<1>3. ManagerInv
    BY Zenon, <1>2, MP!TypeInit, MP!WaiterInit, MP!CacheInit, ManagerConstants, SystemAssumption
    DEF ManagerInv
<1>4. WatchedTypes
    BY Zenon DEF SysInit, Init, WatchedTypes
<1> QED
    BY Zenon, <1>1, <1>3, <1>4 DEF SystemInv

\* Watch makes the entry in the step that adds the name.
LEMMA WatchedTypesStep == TypeInv /\ WatchedTypes /\ [Step]_vars => WatchedTypes'
<1> SUFFICES ASSUME TypeInv, WatchedTypes, [Step]_vars PROVE WatchedTypes'
    OBVIOUS
<1>1. ASSUME NEW t \in Type, NEW n, NEW remove, WatchLock(t, n, remove) PROVE WatchedTypes'
    <2>1. watchedType' = watchedType \cup {t}
        BY Zenon, <1>1 DEF WatchLock
    <2>2. \A u \in Type : u # t => watchedResource'[u] = watchedResource[u]
        BY Zenon, <1>1 DEF WatchLock, TypeInv, TypeOK
    <2> QED
        BY Zenon, <2>1, <2>2 DEF WatchedTypes
<1>2. CASE UNCHANGED <<watchedResource, watchedType>>
    BY Zenon, <1>2 DEF WatchedTypes
<1>3. CASE warmup
    BY Zenon, <1>1, <1>2, <1>3, ConstantsAssumption DEF warmup, WarmupWatch, WarmupGoOn, mapVars
<1>4. ASSUME NEW t \in Type, NEW n, NEW remove, ManagerWatch(t, n, remove) PROVE WatchedTypes'
    BY Zenon, <1>1, <1>4 DEF ManagerWatch
<1>5. ASSUME NEW t, NEW v, NEW good, Push(t, v, good) PROVE WatchedTypes'
    BY Zenon, <1>2, <1>5 DEF Push, mapVars
<1>6. CASE WatchSend \/ Sender \/ Receiver \/ Close \/ Break \/ UNCHANGED mapVars \/ UNCHANGED vars
    BY Zenon, <1>2, <1>6
    DEF WatchSend, Sender, SenderStop, TakeRequest, TakeStream, ResendLock, Resend, ResendDone,
        Receiver, Recv, updateAndACK, AckSend, FilterResponse, Apply, AuthError, Reconnect,
        ResetMaps, PublishStream, Close, Break, mapVars, vars
<1> QED
    BY Zenon, <1>3, <1>4, <1>5, <1>6 DEF Step, Next

\* Every step of the system preserves SystemInv.
LEMMA SystemStep == SystemInv /\ [SysNext]_sysVars => SystemInv'
<1> SUFFICES ASSUME SystemInv, [SysNext]_sysVars PROVE SystemInv'
    OBVIOUS
<1>1. KeysKnown
    BY Zenon DEF SystemInv, ManagerInv, MP!TypeOK, KeysKnown
<1>2. [Step]_vars
    BY Zenon, <1>1, SystemIsClient DEF SystemInv
<1>3. TypeInv' /\ StreamInv' /\ SubInv' /\ WatchedTypes'
    BY Zenon, <1>2, TypeStep, StreamStep, SubStep, WatchedTypesStep DEF SystemInv
<1>4. ManagerInv'
    BY Zenon, ManagerStep DEF SystemInv
<1> QED
    BY Zenon, <1>3, <1>4 DEF SystemInv

\* SystemInv holds throughout.
LEMMA SystemInvariant == SysSpec => []SystemInv
BY SystemInit, SystemStep, PTL DEF SysSpec

\* With the default times, whoever waits on a registered notifier is asked for:
\* the last request of the type, in the queue or at the server, lists the name,
\* whatever the cleaner unwatches and however often the client reconnects.
THEOREM WaitersSubscribed ==
    SysSpec => [](FetchXDSTimeout < CacheExpireTime => WaiterSubscribed)
<1>1. SystemInv => (FetchXDSTimeout < CacheExpireTime => WaiterSubscribed)
    <2> SUFFICES ASSUME SystemInv, FetchXDSTimeout < CacheExpireTime,
                        Connected, sendPc \in {"select", "stopped"}, mu = None,
                        NEW k \in Key, notifierMap[k] # None,
                        \A g \in Caller : pc[g] = "watch" => key[g] # k,
                        NEW r \in Latest(k[1])
                 PROVE  r # None /\ k[2] \in r.names
        BY Zenon DEF WaiterSubscribed
    <2>1. MP!WaiterWatched
        BY Zenon DEF SystemInv, ManagerInv, MP!WaiterInv, MP!Prompt
    <2>2. k[2] \in watchedResource[k[1]]
        BY Zenon, <2>1 DEF MP!WaiterWatched
    <2>3. k[1] \in watchedType
        BY Zenon, <2>2, KeyPair DEF SystemInv, WatchedTypes
    <2>4. SubscriptionCurrent
        BY Zenon, SubNow DEF SystemInv
    <2> QED
        BY Zenon, <2>2, <2>3, <2>4 DEF SubscriptionCurrent
<1> QED
    BY <1>1, SystemInvariant, PTL

-----------------------------------------------------------------------------
(* The inbound listener *)

\* A server side whose client has connected and is not closed.
Inbound == LDSRequired /\ ~MayStop

\* Before listenerWarmup no listener is watched, so none is received.
NoListenerYet ==
    /\ "Listener" \notin watchedType
    /\ applied["Listener"] = 0
    /\ resp # None => resp.type # "Listener"

\* What handleLDS makes of the inbound listener of a response.
Handled == IF inbound = None THEN NilListener ELSE inbound

\* From listenerWarmup on the inbound listener is watched; so every handler of a
\* listener response has it in what it hands to UpdateResource, be it as a nil
\* pointer, and after the first of them it is in the cache.
InboundServed ==
    /\ warmPc \in {"nds", "ndsWait", "lds"} => NoListenerYet
    /\ warmPc \in {"ldsWait", "done"} => AnyName \in watchedResource["Listener"]
    /\ warmPc = "done" => applied["Listener"] # 0
    /\ upd # None => /\ recvPc = "apply" /\ upd.type = resp.type
                     /\ upd.up[ReservedKey] = IF upd.type = "Listener" THEN Handled ELSE None
    /\ applied["Listener"] # 0 /\ ~(recvPc = "apply" /\ resp.type = "Listener") =>
          cache[ReservedKey] = Handled

\* What is inductive of it.
InboundInv == Inbound => InboundServed

\* No step takes the inbound listener off the watch list.
LEMMA ReservedKept ==
    ASSUME SystemInv, "Listener" \in Type, [SysNext]_sysVars,
           AnyName \in watchedResource["Listener"]
    PROVE  AnyName \in watchedResource'["Listener"]
<1>1. ASSUME NEW t \in Type, NEW n, WatchLock(t, n, FALSE)
      PROVE  AnyName \in watchedResource'["Listener"]
    BY Zenon, <1>1 DEF WatchLock, SystemInv, TypeInv, TypeOK
<1>2. CASE SysClean
    <2>1. PICK k \in sweep : ManagerWatch(k[1], k[2], TRUE)
        BY Zenon, <1>2 DEF SysClean
    <2>2. k \in Key /\ k # ReservedKey
        BY Zenon DEF SystemInv, ManagerInv, MP!TypeOK, MP!LockInv, MP!isReservedResource
    <2>3. k = <<k[1], k[2]>> /\ k[1] \in Type
        BY Zenon, <2>2, KeyPair
    <2>4. k[1] # "Listener" \/ k[2] # AnyName
        BY Zenon, <2>2, <2>3 DEF ReservedKey
    <2>5. watchedResource' = [watchedResource EXCEPT ![k[1]] = @ \ {k[2]}]
        BY Zenon, <2>1 DEF ManagerWatch, WatchLock
    <2> QED
        BY Zenon, <2>3, <2>4, <2>5 DEF SystemInv, TypeInv, TypeOK
<1>3. ASSUME NEW g \in Caller, SysWatch(g) PROVE AnyName \in watchedResource'["Listener"]
    <2>1. key[g] \in Key
        BY <1>3 DEF SysWatch, SystemInv, ManagerInv, MP!TypeOK
    <2> QED
        BY Zenon, <1>1, <1>3, <2>1, KeyPair DEF SysWatch, ManagerWatch
<1>4. CASE UNCHANGED watchedResource
    BY Zenon, <1>4
<1>5. CASE warmup
    BY Zenon, <1>1, <1>4, <1>5, ConstantsAssumption DEF warmup, WarmupWatch, WarmupGoOn, mapVars
<1>6. CASE ClientStep
    BY Zenon, <1>4, <1>5, <1>6
    DEF ClientStep, Sender, SenderStop, TakeRequest, TakeStream, ResendLock, Resend, ResendDone,
        Recv, updateAndACK, AckSend, Reconnect, ResetMaps, PublishStream, Push, Break, mapVars
<1>7. ASSUME NEW g \in Caller,
             \/ \E k \in Key : SysGet(g, k)
             \/ Notifiers(g) \/ SysWatchReturns(g) \/ SysNotified(g) \/ SysTimeout(g)
             \/ SysReturn(g)
      PROVE  AnyName \in watchedResource'["Listener"]
    BY Zenon, <1>4, <1>7
    DEF SysGet, Notifiers, SysWatchReturns, WatchSend, SysNotified, SysTimeout, SysReturn, mapVars,
        vars
<1>8. CASE \/ SysExpire \/ SysCleanTick \/ SysUnwatchReturns \/ WarmupWatchReturns
           \/ SysFilter \/ SysApply \/ UNCHANGED sysVars
    BY Zenon, <1>4, <1>8
    DEF SysExpire, SysCleanTick, SysUnwatchReturns, WarmupWatchReturns, WatchSend, SysFilter,
        FilterResponse, SysApply, Apply, mapVars, vars, sysVars
<1> QED
    BY Zenon, <1>2, <1>3, <1>6, <1>7, <1>8 DEF SysNext

\* The listener the server side needs is never unsubscribed once the client has
\* watched it: the cleaner spares it, and nobody else removes names.
THEOREM InboundStaysWatched == "Listener" \in Type => (SysSpec => ReservedStaysWatched)
<1> SUFFICES ASSUME "Listener" \in Type PROVE SysSpec => ReservedStaysWatched
    OBVIOUS
<1>1. SystemInv /\ [SysNext]_sysVars =>
          [(AnyName \in watchedResource["Listener"]) =>
               (AnyName \in watchedResource'["Listener"])]_sysVars
    BY Zenon, ReservedKept
<1> QED
    BY <1>1, SystemInvariant, PTL DEF SysSpec, ReservedStaysWatched

\* The filter of handleLDS keeps the reserved name, which is watched, whether or
\* not the response has it.
LEMMA FilterKeepsReserved ==
    ASSUME ReservedKey \in Key, AnyName \in watchedResource["Listener"], NEW res
    PROVE  M!Filter("Listener", res)[ReservedKey] =
               IF res[ReservedKey] = None THEN NilListener ELSE res[ReservedKey]
<1>1. ReservedKey[1] = "Listener" /\ ReservedKey[2] = AnyName
    BY DEF ReservedKey
<1>2. /\ [k \in Key |-> k[1]][ReservedKey] = "Listener"
      /\ ReservedKey \in {k \in Key : k[2] \in watchedResource[k[1]]}
    BY Zenon, <1>1
<1> QED
    BY Zenon, <1>2 DEF M!Filter, M!isReservedResource

\* The filter of another handler has nothing for the reserved name.
LEMMA FilterOmitsReserved ==
    ASSUME ReservedKey \in Key, NEW t, t # "Listener", NEW res
    PROVE  M!Filter(t, res)[ReservedKey] = None
<1>1. ReservedKey[1] = "Listener"
    BY DEF ReservedKey
<1>2. [k \in Key |-> k[1]][ReservedKey] = "Listener"
    BY Zenon, <1>1
<1> QED
    BY Zenon, <1>2 DEF M!Filter

\* UpdateResource puts the inbound listener of the update into the cache, and
\* leaves the one there alone when the update is of another type.
LEMMA UpdateKeepsReserved ==
    ASSUME ReservedKey \in Key, M!UpdateResource
    PROVE  /\ upd.up[ReservedKey] # None => cache'[ReservedKey] = upd.up[ReservedKey]
           /\ upd.up[ReservedKey] = None /\ upd.type # "Listener" =>
                 cache'[ReservedKey] = cache[ReservedKey]
<1>1. ReservedKey[1] = "Listener"
    BY DEF ReservedKey
<1>2. [k \in Key |-> k[1]][ReservedKey] = "Listener"
    BY Zenon, <1>1
<1>3. cache' = M!UpdatedCache(upd.type, upd.up)
    BY Zenon DEF M!UpdateResource
<1> QED
    BY Zenon, <1>2, <1>3 DEF M!UpdatedCache

\* Every step preserves InboundInv.
LEMMA InboundStep == SystemInv /\ InboundInv /\ [SysNext]_sysVars => InboundInv'
<1> SUFFICES ASSUME SystemInv, InboundServed, Inbound, [SysNext]_sysVars
             PROVE  InboundServed'
    BY Zenon DEF InboundInv, Inbound
<1>1. "Listener" \in Type /\ ReservedKey \in Key
    BY Zenon, ConstantsAssumption DEF Inbound, Key
<1>2. AnyName \in watchedResource["Listener"] => AnyName \in watchedResource'["Listener"]
    BY Zenon, <1>1, ReservedKept
<1>3. CASE UNCHANGED <<mapVars, applied, resp, recvPc, warmPc, cache, upd, inbound>>
    BY Zenon, <1>3 DEF InboundServed, NoListenerYet, Handled, mapVars
<1>4. CASE /\ warmPc = "done" /\ UNCHANGED <<applied, resp, recvPc, warmPc, upd, inbound>>
           /\ cache'[ReservedKey] = cache[ReservedKey]
    BY Zenon, <1>2, <1>4 DEF InboundServed, Handled
<1>5. CASE Recv /\ UNCHANGED managerVars
    <2>1. /\ UNCHANGED <<mapVars, applied, warmPc, cache, upd, inbound>> /\ recvPc = "recv"
          /\ resp' = resp \/ resp'.type \in watchedType
        BY Zenon, <1>5 DEF Recv, warmVars, managerVars
    <2> QED
        BY Zenon, <2>1 DEF InboundServed, NoListenerYet, Handled, mapVars
<1>6. CASE /\ updateAndACK \/ AckSend \/ Reconnect \/ ResetMaps \/ PublishStream
           /\ UNCHANGED managerVars
    <2>1. /\ UNCHANGED <<watchedResource, watchedType, applied, warmPc, cache, upd, inbound>>
          /\ recvPc # "apply"
          /\ resp' = resp \/ resp' = None
        BY Zenon, <1>6, NoneAssumption
        DEF updateAndACK, AckSend, sendRequest, Reconnect, ResetMaps, PublishStream, mapVars,
            warmVars, managerVars, SystemInv, TypeInv, Locals
    <2>2. recvPc' = "apply" => resp.type = "NameTable" /\ resp' = resp
        BY Zenon, <1>6
        DEF updateAndACK, AckSend, NextRound, Reconnect, ResetMaps, PublishStream
    <2> QED
        BY Zenon, <2>1, <2>2 DEF InboundServed, NoListenerYet, Handled
<1>7. CASE warmup /\ UNCHANGED managerVars
    <2>0. UNCHANGED <<applied, resp, recvPc, cache, upd, inbound>>
        BY Zenon, <1>7 DEF warmup, WarmupWatch, WarmupGoOn, managerVars, recvVars
    <2>1. CASE WarmupWatch("nds", NDSRequired, "NameTable", "ndsWait")
        <3>1. warmPc = "nds" /\ warmPc' = "ndsWait" /\ watchedType' = watchedType \cup {"NameTable"}
            BY Zenon, <2>1 DEF WarmupWatch, WatchLock
        <3> QED
            BY Zenon, <2>0, <3>1 DEF InboundServed, NoListenerYet, Handled
    <2>2. CASE WarmupGoOn("nds", "ndsWait", NDSRequired, "NameTable", "lds")
        <3>1. warmPc \in {"nds", "ndsWait"} /\ warmPc' = "lds" /\ watchedType' = watchedType
            BY Zenon, <2>2 DEF WarmupGoOn, mapVars
        <3> QED
            BY Zenon, <2>0, <3>1 DEF InboundServed, NoListenerYet, Handled
    <2>3. CASE WarmupWatch("lds", LDSRequired, "Listener", "ldsWait")
        <3>1. /\ warmPc' = "ldsWait"
              /\ watchedResource' = [watchedResource EXCEPT !["Listener"] = @ \cup {AnyName}]
            BY Zenon, <2>3 DEF WarmupWatch, WatchLock
        <3>2. AnyName \in watchedResource'["Listener"]
            BY Zenon, <1>1, <3>1 DEF SystemInv, TypeInv, TypeOK
        <3> QED
            BY Zenon, <2>0, <3>1, <3>2 DEF InboundServed, Handled
    <2>4. CASE WarmupGoOn("lds", "ldsWait", LDSRequired, "Listener", "done")
        <3>1. warmPc = "ldsWait" /\ warmPc' = "done" /\ applied["Listener"] # 0
            BY Zenon, <2>4 DEF WarmupGoOn, Inbound
        <3> QED
            BY Zenon, <1>2, <2>0, <3>1 DEF InboundServed, Handled
    <2> QED
        BY Zenon, <1>7, <2>1, <2>2, <2>3, <2>4 DEF warmup
<1>8. CASE ClientStep
    <2>1. ASSUME NEW t, NEW v, Push(t, v, TRUE), UNCHANGED managerVars PROVE InboundServed'
        BY Zenon, <1>3, <2>1 DEF Push, recvVars, warmVars, managerVars
    <2>2. CASE (Sender \/ Break) /\ UNCHANGED managerVars
        BY Zenon, <1>3, <2>2
        DEF Sender, SenderStop, TakeRequest, TakeStream, ResendLock, Resend, ResendDone, Break,
            recvVars, warmVars, managerVars
    <2> QED
        BY Zenon, <1>5, <1>6, <1>7, <1>8, <2>1, <2>2 DEF ClientStep
<1>9. CASE SysFilter
    <2>1. PICK r \in [M!KeysOf(resp.type) -> {resp.version, None}] :
             /\ FilterResponse /\ M!HandleResponse(resp.type, M!AsMap(r))
             /\ inbound' = IF ReservedKey \in DOMAIN r THEN r[ReservedKey] ELSE inbound
        BY Zenon, <1>9 DEF SysFilter
    <2>2. /\ recvPc' = "apply" /\ upd = None /\ resp # None
          /\ UNCHANGED <<mapVars, applied, resp, warmPc, cache>>
        BY Zenon, <2>1
        DEF FilterResponse, M!HandleResponse, warmVars, SystemInv, TypeInv, Locals
    <2>3. upd' = [type |-> resp.type, up |-> M!Filter(resp.type, M!AsMap(r))]
        BY Zenon, <2>1 DEF M!HandleResponse
    <2>4. upd'.type = resp.type /\ upd'.up = M!Filter(resp.type, M!AsMap(r))
        BY <2>3
    <2>5. ReservedKey \in DOMAIN r <=> resp.type = "Listener"
      <3>1. ReservedKey[1] = "Listener"
          BY DEF ReservedKey
      <3> QED
          BY Zenon, <1>1, <2>1, <3>1 DEF M!KeysOf
    <2>6. CASE resp.type = "Listener"
        <3>1. warmPc \in {"ldsWait", "done"}
            BY Zenon, <2>2, <2>6 DEF InboundServed, NoListenerYet, SystemInv, TypeInv, TypeOK
        <3>2. M!AsMap(r)[ReservedKey] = r[ReservedKey] /\ inbound' = r[ReservedKey]
            BY Zenon, <1>1, <2>1, <2>5, <2>6 DEF M!AsMap
        <3>3. upd'.up[ReservedKey] = Handled'
            BY Zenon, <1>1, <2>4, <2>6, <3>1, <3>2, FilterKeepsReserved DEF InboundServed, Handled
        <3> QED
            BY Zenon, <2>2, <2>4, <2>6, <3>3 DEF InboundServed, NoListenerYet, mapVars
    <2>7. CASE resp.type # "Listener"
        <3>1. Handled' = Handled
            BY Zenon, <2>1, <2>5, <2>7 DEF Handled
        <3>2. upd'.up[ReservedKey] = None
            BY Zenon, <1>1, <2>4, <2>7, FilterOmitsReserved
        <3> QED
            BY Zenon, <2>2, <2>4, <2>7, <3>1, <3>2 DEF InboundServed, NoListenerYet, mapVars
    <2> QED
        BY Zenon, <2>6, <2>7
<1>10. CASE SysApply
    <2>1. Apply /\ M!UpdateResource /\ upd # None /\ upd' = None /\ Handled' = Handled
        BY Zenon, <1>10 DEF SysApply, M!UpdateResource, Handled
    <2>2. /\ applied' = [applied EXCEPT ![resp.type] = resp.version] /\ recvPc = "apply"
          /\ resp' = None /\ UNCHANGED <<mapVars, warmPc>> /\ resp \in Response
        BY Zenon, <2>1 DEF Apply, warmVars, SystemInv, TypeInv, TypeOK, Locals
    <2>3. resp.type \in Type /\ resp.version # 0
        BY <2>2 DEF Response
    <2>4. CASE resp.type = "Listener"
        <3>0. Handled # None
            BY Zenon, SystemAssumption DEF Handled
        <3>1. cache'[ReservedKey] = Handled
            BY Zenon, <1>1, <2>1, <2>4, <3>0, UpdateKeepsReserved DEF InboundServed
        <3>2. applied'["Listener"] # 0
            BY Zenon, <1>1, <2>2, <2>3, <2>4 DEF SystemInv, TypeInv, TypeOK
        <3>3. resp # None
            BY Zenon, <2>2, NoneAssumption
        <3> QED
            BY Zenon, <2>1, <2>2, <2>4, <3>1, <3>2, <3>3 DEF InboundServed, NoListenerYet, mapVars
    <2>5. CASE resp.type # "Listener"
        <3>1. applied'["Listener"] = applied["Listener"]
            BY Zenon, <1>1, <2>2, <2>5 DEF SystemInv, TypeInv, TypeOK
        <3>2. cache'[ReservedKey] = cache[ReservedKey] /\ upd.type # "Listener"
            BY Zenon, <1>1, <2>1, <2>5, UpdateKeepsReserved DEF InboundServed
        <3> QED
            BY Zenon, <2>1, <2>2, <3>1, <3>2 DEF InboundServed, NoListenerYet, mapVars
    <2> QED
        BY Zenon, <2>4, <2>5
<1>11. CASE SysClean
    <2>1. PICK k \in sweep : ManagerWatch(k[1], k[2], TRUE) /\ M!Clean(k) /\ UNCHANGED inbound
        BY Zenon, <1>11 DEF SysClean
    <2>2. k # ReservedKey
        BY Zenon DEF SystemInv, ManagerInv, MP!LockInv, MP!isReservedResource
    <2>3. cache' = [cache EXCEPT ![k] = None] /\ cache \in MP!ResourceMap
        BY Zenon, <2>1 DEF M!Clean, SystemInv, ManagerInv, MP!TypeOK
    <2>4. cache'[ReservedKey] = cache[ReservedKey]
        BY Zenon, <1>1, <2>2, <2>3 DEF MP!ResourceMap
    <2> QED
        BY Zenon, <1>4, <2>1, <2>4 DEF ManagerWatch, M!Clean, recvVars
<1>12. ASSUME NEW g \in Caller, SysWatch(g) PROVE InboundServed'
    BY Zenon, <1>4, <1>12 DEF SysWatch, ManagerWatch, M!Watch, recvVars
<1>13. ASSUME NEW g \in Caller, NEW k, SysGet(g, k) PROVE InboundServed'
    BY Zenon, <1>3, <1>13 DEF SysGet, M!Get, recvVars
<1>14. ASSUME NEW g \in Caller,
              \/ Notifiers(g) \/ SysWatchReturns(g) \/ SysNotified(g) \/ SysTimeout(g)
              \/ SysReturn(g)
       PROVE  InboundServed'
    BY Zenon, <1>3, <1>14
    DEF Notifiers, M!JoinNotifier, M!CreateNotifier, SysWatchReturns, WatchSend, M!WatchReturns,
        SysNotified, M!Notified, SysTimeout, M!Timeout, SysReturn, M!Return, vars, recvVars, warmVars
<1>15. CASE \/ SysExpire \/ SysCleanTick \/ SysUnwatchReturns \/ WarmupWatchReturns
            \/ UNCHANGED sysVars
    BY Zenon, <1>3, <1>15
    DEF SysExpire, M!Expire, SysCleanTick, M!CleanTick, SysUnwatchReturns, M!UnwatchReturns,
        WarmupWatchReturns, WatchSend, managerVars, sysVars, vars, recvVars, warmVars
<1> QED
    BY Zenon, <1>8, <1>9, <1>10, <1>11, <1>12, <1>13, <1>14, <1>15 DEF SysNext

\* InboundReady: once newXdsClient has returned after its warmup, the cache has for
\* the inbound listener what the last listener response had, as a nil listener if
\* that was none, whatever the cleaner and other updates do; unless the client
\* never connected or was closed.
THEOREM InboundStaysReady == SysSpec => [](~MayStop => InboundReady)
<1>1. SysInit => InboundInv
    <2> SUFFICES ASSUME SysInit, Inbound PROVE InboundServed
        BY Zenon DEF InboundInv
    <2>1. warmPc = "nds" /\ watchedType = {} /\ resp = None
        BY Zenon DEF SysInit, Init, Inbound
    <2>2. applied["Listener"] = 0
        BY Zenon, ConstantsAssumption DEF SysInit, Init, Inbound
    <2>3. upd = None
        BY Zenon DEF SysInit, M!Init
    <2> QED
        BY Zenon, <2>1, <2>2, <2>3 DEF InboundServed, NoListenerYet
<1>2. InboundInv => (~MayStop => InboundReady)
    BY Zenon DEF InboundInv, Inbound, InboundServed, InboundReady, Handled
<1> QED
    BY <1>1, <1>2, InboundStep, SystemInvariant, PTL DEF SysSpec

-----------------------------------------------------------------------------
(* The abstract store *)

\* With the default times the manager implements ResourceStore on top of the
\* client, too: no step of the client, and no Watch that waits in it, shows.
THEOREM SystemImplementsStore ==
    ASSUME FetchXDSTimeout < CacheExpireTime
    PROVE  SysSpec => M!Store!Init /\ M!StoreSteps
<1>1. SystemInv /\ [SysNext]_sysVars => [MP!Store!Next]_(MP!Store!vars)
    <2> SUFFICES ASSUME SystemInv, [SysNext]_sysVars PROVE [MP!Store!Next]_(MP!Store!vars)
        OBVIOUS
    <2>1. KeysKnown
        BY Zenon DEF SystemInv, ManagerInv, MP!TypeOK, KeysKnown
    <2>2. CASE MP!Next
        <3>1. MP!Prompt
            BY Zenon DEF MP!Prompt
        <3>2. MP!NotifiedFinds
            BY Zenon, <3>1, MP!WaiterFinds, ManagerConstants, SystemAssumption
            DEF SystemInv, ManagerInv
        <3> QED
            BY Zenon, <2>2, <3>1, <3>2, MP!StoreStep, ManagerConstants, SystemAssumption
            DEF SystemInv, ManagerInv
    <2>3. CASE UNCHANGED managerVars
        BY Zenon, <2>3 DEF managerVars, MP!Store!vars
    <2> QED
        BY Zenon, <2>1, <2>2, <2>3, SystemIsManager DEF SystemInv
<1>2. [MP!Store!Next]_(MP!Store!vars) => [M!Store!Next]_(M!Store!vars)
    BY Zenon
    DEF MP!Store!Next, MP!Store!Hit, MP!Store!Call, MP!Store!Answer, MP!Store!Reply,
        MP!Store!GiveUp, MP!Store!Return, MP!Store!Deliver, MP!Store!Evict, MP!Store!vars,
        M!Store!Next, M!Store!Hit, M!Store!Call, M!Store!Answer, M!Store!Reply,
        M!Store!GiveUp, M!Store!Return, M!Store!Deliver, M!Store!Evict, M!Store!vars,
        MP!InGet, MP!ResourceType, MP!RequireFullADSResponse,
        M!InGet, M!ResourceType, M!RequireFullADSResponse
<1>3. SysInit => M!Store!Init
    <2> SUFFICES ASSUME SysInit PROVE M!Store!Init
        OBVIOUS
    <2>1. /\ cache \in [Key -> ((1..MaxVersion) \cup {NilListener}) \cup {None}]
          /\ \A k \in Key \ {ReservedKey} : cache[k] = None
        BY DEF SysInit, M!Init
    <2>2. [g \in Caller |-> IF pc[g] \in M!InGet THEN "pending" ELSE pc[g]] = [g \in Caller |-> "idle"]
        BY Zenon DEF SysInit, M!Init, M!InGet
    <2> QED
        BY Zenon, <2>1, <2>2 DEF SysInit, M!Init, M!Store!Init
<1> QED
    BY <1>1, <1>2, <1>3, SystemInvariant, PTL DEF SysSpec, M!StoreSteps
=============================================================================
