---------------------------- MODULE ClustersProofs ----------------------------
(***************************************************************************)
(* Proofs about CircuitBreaker and Clusters, for any clusters, settings    *)
(* and responses: the breakers follow the last update and none is switched *)
(* off in between; the suite that real responses drive is that circuit     *)
(* breaker, configured before a cluster can be read; and Resolve returns   *)
(* the instances of the cluster it read, or panics on one that has left.   *)
(***************************************************************************)
EXTENDS Clusters, XdsResourceProofs

-----------------------------------------------------------------------------
(* The handler of the circuit breaker *)

\* Before the handler is called: everything in force is in lastPolicies.
IdleInv ==
    /\ BreakerFollows
    /\ lastPolicies # None => lastPolicies = policies(res)
    /\ lastPolicies = None => \A c \in Cluster : InForce(c) = Disabled

\* In the loop over the new policies: those visited are set, and whatever else
\* is in force is in lastPolicies.
SetInv ==
    /\ todo \subseteq policies(res)
    /\ \A c \in policies(res) \ todo : service[c] = cbconfig(res[c])
    /\ \A c \in Cluster \ policies(res) :
          InForce(c) # Disabled => lastPolicies # None /\ c \in lastPolicies

\* In the loop over the old ones: what is in force is wanted or yet to visit.
DisableInv ==
    /\ todo \cap policies(res) = {}
    /\ \A c \in policies(res) : service[c] = cbconfig(res[c])
    /\ \A c \in Cluster \ policies(res) : c \notin todo => InForce(c) = Disabled

IInv ==
    /\ TypeOK
    /\ pc = "idle" => IdleInv
    /\ pc = "set" => SetInv
    /\ pc = "disable" => DisableInv

\* A configuration made from outlier detection is one of the CBSuite's.
LEMMA ConfigType ==
    /\ Disabled \in CBConfig
    /\ \A od \in OutlierDetection : cbconfig(od) \in CBConfig
BY ConstantsAssumption DEF Disabled, CBConfig, OutlierDetection, cbconfig

\* policies(up) are clusters with outlier detection.
LEMMA PoliciesType ==
    ASSUME NEW up
    PROVE  /\ policies(up) \subseteq Cluster
           /\ \A c \in policies(up) : up[c] \in OutlierDetection
BY DEF policies

\* The state after NewCircuitBreaker satisfies the invariant.
LEMMA InitInv == Init => IInv
<1> SUFFICES ASSUME Init PROVE IInv
  OBVIOUS
<1>1. TypeOK
  BY DEF Init, TypeOK
<1>2. policies(res) = {}
  BY NoneAssumption DEF Init, policies
<1>3. IdleInv
  BY <1>2 DEF Init, IdleInv, BreakerFollows, InForce, Wanted
<1> QED
  BY <1>1, <1>3 DEF Init, IInv

\* Every step of the handler keeps it.
LEMMA StepInv == IInv /\ [Next]_vars => IInv'
<1> SUFFICES ASSUME IInv, [Next]_vars PROVE IInv'
  OBVIOUS
<1>0. TypeOK
  BY DEF IInv
<1>1. ASSUME NEW up \in [Cluster -> OutlierDetection \cup {Plain, None}],
             updateCircuitPolicy(up)
      PROVE  IInv'
  <2>1. TypeOK'
    BY <1>0, <1>1, PoliciesType DEF TypeOK, updateCircuitPolicy
  <2>2. IdleInv /\ pc = "idle"
    BY <1>1 DEF IInv, updateCircuitPolicy
  <2>3. ASSUME NEW c \in Cluster, InForce(c) # Disabled
        PROVE  lastPolicies # None /\ c \in lastPolicies
    BY <2>2, <2>3 DEF IdleInv, BreakerFollows, Wanted
  <2>4. SetInv'
    BY <1>1, <2>3 DEF SetInv, updateCircuitPolicy, InForce
  <2> QED
    BY <1>1, <2>1, <2>4 DEF IInv, updateCircuitPolicy
<1>2. ASSUME NEW d \in Cluster, UpdateServiceCBConfig(d)
      PROVE  IInv'
  <2>1. SetInv /\ d \in policies(res) /\ policies(res)' = policies(res)
    BY <1>2 DEF IInv, UpdateServiceCBConfig, SetInv, policies
  <2>2. service' = [service EXCEPT ![d] = cbconfig(res[d])]
    BY <1>2 DEF UpdateServiceCBConfig
  <2>3. TypeOK'
    BY <1>0, <1>2, <2>1, ConfigType, PoliciesType DEF TypeOK, UpdateServiceCBConfig
  <2>4. \A c \in Cluster \ policies(res) : InForce(c)' = InForce(c)
    BY <1>0, <2>1, <2>2 DEF TypeOK, InForce
  <2>5. \A c \in (policies(res) \ todo)' : service'[c] = cbconfig(res[c])
    BY <1>0, <1>2, <2>1, <2>2, PoliciesType DEF TypeOK, SetInv, UpdateServiceCBConfig
  <2>6. SetInv'
    BY <1>2, <2>1, <2>4, <2>5 DEF SetInv, UpdateServiceCBConfig
  <2> QED
    BY <1>2, <2>3, <2>6 DEF IInv, UpdateServiceCBConfig
<1>3. CASE LoadLastPolicies
  <2>1. SetInv /\ todo = {} /\ policies(res)' = policies(res)
    BY <1>3 DEF IInv, LoadLastPolicies, policies
  <2>2. TypeOK'
    BY <1>0, <1>3, PoliciesType DEF TypeOK, LoadLastPolicies
  <2>3. \A c \in Cluster : InForce(c)' = InForce(c) /\ Wanted(res, c)' = Wanted(res, c)
    BY <1>3 DEF LoadLastPolicies, InForce, Wanted, policies
  <2>4. CASE lastPolicies = None
    <3>1. pc' = "idle" /\ lastPolicies' = policies(res)
      BY <1>3, <2>4 DEF LoadLastPolicies
    <3>2. \A c \in Cluster : InForce(c) = Wanted(res, c)
      BY <2>1, <2>4, ConfigType, PoliciesType, NoneAssumption DEF SetInv, Wanted, InForce
    <3>3. lastPolicies' # None
      BY <3>1, PoliciesType, NoneAssumption
    <3>4. IdleInv'
      BY <2>1, <2>3, <3>1, <3>2, <3>3 DEF IdleInv, BreakerFollows
    <3> QED
      BY <2>2, <3>1, <3>4 DEF IInv
  <2>5. CASE lastPolicies # None
    <3>1. pc' = "disable" /\ todo' = lastPolicies \ policies(res) /\ UNCHANGED <<res, service>>
      BY <1>3, <2>5 DEF LoadLastPolicies
    <3>2. DisableInv'
      BY <2>1, <2>3, <3>1 DEF SetInv, DisableInv
    <3> QED
      BY <2>2, <3>1, <3>2 DEF IInv
  <2> QED
    BY <2>4, <2>5
<1>4. ASSUME NEW d \in Cluster, Disable(d)
      PROVE  IInv'
  <2>1. DisableInv /\ d \notin policies(res) /\ policies(res)' = policies(res)
    BY <1>4 DEF IInv, Disable, DisableInv, policies
  <2>2. TypeOK'
    BY <1>0, <1>4, ConfigType DEF TypeOK, Disable
  <2>3. \A c \in Cluster : IF c = d THEN InForce(c)' = Disabled ELSE InForce(c)' = InForce(c)
    BY <1>0, <1>4, ConfigType, NoneAssumption DEF TypeOK, Disable, InForce
  <2>4. \A c \in policies(res) : service'[c] = service[c]
    BY <1>0, <1>4, <2>1, PoliciesType DEF TypeOK, Disable
  <2>5. DisableInv'
    BY <1>4, <2>1, <2>3, <2>4 DEF DisableInv, Disable
  <2> QED
    BY <1>4, <2>2, <2>5 DEF IInv, Disable
<1>5. CASE StoreLastPolicies
  <2>1. DisableInv /\ todo = {} /\ policies(res)' = policies(res)
    BY <1>5 DEF IInv, StoreLastPolicies, policies
  <2>2. TypeOK'
    BY <1>0, <1>5, PoliciesType DEF TypeOK, StoreLastPolicies
  <2>3. \A c \in Cluster : InForce(c)' = InForce(c) /\ Wanted(res, c)' = Wanted(res, c)
    BY <1>5 DEF StoreLastPolicies, InForce, Wanted, policies
  <2>4. \A c \in Cluster : InForce(c) = Wanted(res, c)
    BY <2>1, ConfigType, PoliciesType, NoneAssumption DEF DisableInv, Wanted, InForce
  <2>5. lastPolicies' = policies(res) /\ lastPolicies' # None
    BY <1>5, PoliciesType, NoneAssumption DEF StoreLastPolicies
  <2>6. IdleInv'
    BY <2>1, <2>3, <2>4, <2>5 DEF IdleInv, BreakerFollows
  <2> QED
    BY <1>5, <2>2, <2>6 DEF IInv, StoreLastPolicies
<1>6. CASE UNCHANGED vars
  BY <1>6 DEF IInv, vars, TypeOK, IdleInv, SetInv, DisableInv, BreakerFollows, InForce,
              Wanted, policies
<1> QED
  BY <1>1, <1>2, <1>3, <1>4, <1>5, <1>6 DEF Next

\* The handler's variables and the CBSuite's configurations keep their types.
THEOREM TypeCorrect == Spec => []TypeOK
<1>1. IInv => TypeOK
  BY DEF IInv
<1> QED
  BY InitInv, StepInv, <1>1, PTL DEF Spec

\* BreakerFollows: after any number of cluster updates, in any order of the
\* handler's map iterations, the breakers in force are those of the last one.
THEOREM BreakersFollow == Spec => []BreakerFollows
<1>1. IInv => BreakerFollows
  BY DEF IInv, IdleInv, BreakerFollows
<1> QED
  BY InitInv, StepInv, <1>1, PTL DEF Spec

\* NoFlicker: a breaker that is on and stays wanted is on at every step of
\* updateAllCircuitConfigs.
THEOREM BreakersSteady == Spec => NoFlicker
<1>1. IInv /\ [Next]_vars =>
        [\A c \in Cluster :
            InForce(c).Enable /\ Wanted(res', c).Enable => service'[c].Enable]_vars
  <2> SUFFICES ASSUME IInv, [Next]_vars, NEW c \in Cluster,
                      InForce(c).Enable, Wanted(res', c).Enable
               PROVE  service'[c].Enable
    OBVIOUS
  <2>0. TypeOK
    BY DEF IInv
  <2>1. ~Disabled.Enable
    BY DEF Disabled
  <2>2. service[c].Enable
    BY <2>1 DEF InForce
  <2>3. c \in policies(res')
    BY <2>1 DEF Wanted
  <2>4. CASE service' = service
    BY <2>2, <2>4
  <2>5. ASSUME NEW d \in Cluster, UpdateServiceCBConfig(d)
        PROVE  service'[c].Enable
    BY <2>0, <2>2, <2>3, <2>5 DEF TypeOK, UpdateServiceCBConfig, Wanted
  <2>6. ASSUME NEW d \in Cluster, Disable(d)
        PROVE  service'[c].Enable
    BY <2>0, <2>2, <2>3, <2>6 DEF IInv, TypeOK, Disable, DisableInv, policies
  <2> QED
    BY <2>4, <2>5, <2>6 DEF Next, vars, updateCircuitPolicy, LoadLastPolicies,
                            StoreLastPolicies
<1> QED
  BY InitInv, StepInv, <1>1, PTL DEF Spec, NoFlicker

-----------------------------------------------------------------------------
(* The circuit breaker, driven by responses *)

\* The clusters cached, and those about to be, come from good responses, and
\* the receiver is in a handler only for clusters.
TypedInv ==
    /\ resp # None /\ resp.type = "Cluster" => Typed(resp.up)
    /\ mu = "receiver" => resp # None /\ resp.type = "Cluster"
    /\ Typed(clusters)

\* A filter keeps the types.
LEMMA OnlyTyped ==
    ASSUME NEW m, NEW names, Typed(m)
    PROVE  Typed(Only(m, names))
BY DEF Typed, Only

\* The handler is called with an update of CircuitBreaker.
LEMMA UpdateTyped ==
    ASSUME NEW m, Typed(m)
    PROVE  OutlierDetections(m) \in [Cluster -> OutlierDetection \cup {Plain, None}]
BY DEF Typed, OutlierDetections

\* Nothing is cached at first.
LEMMA TypedInit == ClusterInit => TypedInv
BY HoldersAssumption DEF ClusterInit, TypedInv, Typed

\* Responses, updates and the cleaner keep the invariant; no other step changes
\* what it is about.
LEMMA TypedStep == TypedInv /\ [ClusterNext]_clusterVars => TypedInv'
<1> SUFFICES ASSUME TypedInv, [ClusterNext]_clusterVars PROVE TypedInv'
    OBVIOUS
<1>1. ASSUME NEW raw \in RawCDS, handleCDS(raw) PROVE TypedInv'
    <2>1. Typed(Only(UnmarshalCDS(raw).ret, watched.Cluster))
        BY <1>1, ResponsesAssumption, OnlyTyped DEF handleCDS
    <2>2. /\ resp = None /\ UNCHANGED <<clusters, mu>>
          /\ resp' = [type |-> "Cluster", up |-> Only(UnmarshalCDS(raw).ret, watched.Cluster),
                      raw |-> raw]
        BY <1>1 DEF handleCDS, managerVars
    <2>3. resp'.up = Only(UnmarshalCDS(raw).ret, watched.Cluster)
        BY <2>2
    <2> QED
        BY <2>1, <2>2, <2>3 DEF TypedInv, Typed
<1>2. ASSUME NEW raw \in RawEDS, handleEDS(raw) PROVE TypedInv'
    <2>1. resp = None /\ resp'.type = "Endpoints" /\ UNCHANGED <<clusters, mu>>
        BY <1>2 DEF handleEDS, managerVars
    <2> QED
        BY <2>1 DEF TypedInv, Typed
<1>3. CASE UpdateEndpoints
    <2>1. mu' # "receiver" /\ resp' = None /\ UNCHANGED clusters
        BY <1>3, HoldersAssumption DEF UpdateEndpoints
    <2> QED
        BY <2>1 DEF TypedInv, Typed
<1>4. CASE UpdateClusters \/ UpdateResource
    <2>1. mu' # "receiver" /\ resp' = None /\ clusters' = resp.up
        BY <1>4, HoldersAssumption DEF UpdateClusters, UpdateResource, FillAndNotify, FillClusters
    <2>2. Typed(resp.up)
        BY <1>4 DEF UpdateClusters, UpdateResource, TypedInv
    <2> QED
        BY <2>1, <2>2 DEF TypedInv, Typed
<1>5. CASE UpdateHandlers
    <2>1. resp # None /\ resp.type = "Cluster" /\ UNCHANGED <<resp, clusters>>
        BY <1>5 DEF UpdateHandlers
    <2> QED
        BY <2>1 DEF TypedInv, Typed
<1>6. CASE NewCircuitBreaker \/ Registered
    <2>1. mu' # "receiver" /\ UNCHANGED <<resp, clusters>>
        BY <1>6, HoldersAssumption DEF NewCircuitBreaker, Registered
    <2> QED
        BY <2>1 DEF TypedInv, Typed
<1>7. ASSUME NEW n, CleanCluster(n) PROVE TypedInv'
    <2>1. Typed(Only(clusters, DOMAIN clusters \ {n}))
        BY OnlyTyped DEF TypedInv
    <2>2. UNCHANGED <<resp, mu>> /\ clusters' = Only(clusters, DOMAIN clusters \ {n})
        BY <1>7 DEF CleanCluster
    <2> QED
        BY <2>1, <2>2 DEF TypedInv, Typed
<1>8. CASE UNCHANGED <<resp, clusters, mu>>
    BY <1>8 DEF TypedInv, Typed
<1>9. (\E n \in DOMAIN endpoints : CleanEndpoints(n)) => UNCHANGED <<resp, clusters, mu>>
    BY DEF CleanEndpoints
<1>10. HandlerStep \/ Resolve \/ WatchCluster \/ WatchEndpoints \/ ClusterNotified \/ GetEndpoints
       \/ EndpointsNotified \/ ResolveTimeout \/ ResolveAgain => UNCHANGED <<resp, clusters, mu>>
    BY DEF HandlerStep, Resolve, WatchCluster, WatchEndpoints, ClusterNotified, GetEndpoints,
           EndpointsNotified, ResolveTimeout, ResolveAgain, managerVars
<1>11. UNCHANGED clusterVars => UNCHANGED <<resp, clusters, mu>>
    BY DEF clusterVars, managerVars
<1> QED
    BY <1>1, <1>2, <1>3, <1>4, <1>5, <1>6, <1>7, <1>8, <1>9, <1>10, <1>11 DEF ClusterNext

\* Every step is a step of the circuit breaker or leaves it alone.
LEMMA BreakerStep == TypedInv /\ [ClusterNext]_clusterVars => [Next]_vars
<1> SUFFICES ASSUME TypedInv, [ClusterNext]_clusterVars PROVE Next \/ UNCHANGED vars
    OBVIOUS
<1>1. CASE UpdateHandlers
    <2>1. updateCircuitPolicy(OutlierDetections(resp.up)) /\ Typed(resp.up)
        BY <1>1 DEF UpdateHandlers, TypedInv
    <2> QED
        BY <2>1, UpdateTyped DEF Next
<1>2. CASE NewCircuitBreaker
    <2>1. CASE updateCircuitPolicy(OutlierDetections(clusters))
        BY <2>1, UpdateTyped DEF Next, TypedInv
    <2> QED
        BY <1>2, <2>1 DEF NewCircuitBreaker
<1>3. CASE HandlerStep
    BY <1>3 DEF HandlerStep, Next
<1>4. (\E raw \in RawCDS : handleCDS(raw)) \/ (\E raw \in RawEDS : handleEDS(raw))
      \/ (\E n \in meta : CleanCluster(n))
      \/ (\E n \in DOMAIN endpoints : CleanEndpoints(n)) => UNCHANGED vars
    BY DEF handleCDS, handleEDS, CleanCluster, CleanEndpoints
<1>5. UpdateEndpoints \/ UpdateClusters \/ UpdateResource \/ Registered => UNCHANGED vars
    BY DEF UpdateEndpoints, UpdateClusters, UpdateResource, Registered
<1>6. Resolve \/ WatchCluster \/ WatchEndpoints \/ ClusterNotified \/ GetEndpoints
      \/ EndpointsNotified \/ ResolveTimeout \/ ResolveAgain => UNCHANGED vars
    BY DEF Resolve, WatchCluster, WatchEndpoints, ClusterNotified, GetEndpoints,
           EndpointsNotified, ResolveTimeout, ResolveAgain
<1>7. UNCHANGED clusterVars => UNCHANGED vars
    BY DEF clusterVars
<1> QED
    BY <1>1, <1>2, <1>3, <1>4, <1>5, <1>6, <1>7 DEF ClusterNext

\* The responses, the registration at any time and the cleaner call the handler
\* only as CircuitBreaker says: with clusters of one good response, and not again
\* before it is done.
LEMMA BreakerImplemented == ClusterSpec => Init /\ [][Next]_vars
<1>1. ClusterInit => Init
    BY DEF ClusterInit
<1> QED
    BY <1>1, TypedInit, TypedStep, BreakerStep, PTL DEF ClusterSpec

\* BreakerFollows and NoFlicker of the handler that NewCircuitBreaker registers at
\* any time and that handleCDS and UpdateResource drive: the breakers in force are
\* those of the last response, and none that stays wanted is ever switched off.
THEOREM ServedBreakersFollow == ClusterSpec => []BreakerFollows /\ NoFlicker
BY BreakerImplemented, BreakersFollow, BreakersSteady, PTL DEF Spec

-----------------------------------------------------------------------------
(* Resolve *)

\* A call that has been notified finds what it waits for, unless its cluster was
\* removed since.
ResolveInv ==
    /\ notified \in BOOLEAN
    /\ rpc \in {"idle", "missedCluster", "waitCluster"} => held = None
    /\ rpc \in {"idle", "missedCluster", "endpoints", "missedEndpoints"} => ~notified
    /\ rpc = "waitCluster" /\ notified => Target \in DOMAIN clusters \/ removed
    /\ rpc = "waitEndpoints" /\ notified => held.EndpointName \in DOMAIN endpoints
    /\ PanicsOnlyIfRemoved

\* What Answer and GotCluster leave behind.
LEMMA GotClusterEnds ==
    ASSUME NEW c, GotCluster(c)
    PROVE  rpc' \in {"done", "failed", "endpoints"}
BY DEF GotCluster, Answer

\* No call is under way at first.
LEMMA ResolveInit == ClusterInit => ResolveInv
BY DEF ClusterInit, ResolveInv, PanicsOnlyIfRemoved

\* Updates and the cleaner keep the promise to the call that waits, and the
\* call's own steps rely on it.
LEMMA ResolveStep == ResolveInv /\ [ClusterNext]_clusterVars => ResolveInv'
<1> SUFFICES ASSUME ResolveInv, [ClusterNext]_clusterVars PROVE ResolveInv'
    OBVIOUS
<1> USE DEF ResolveInv, PanicsOnlyIfRemoved
<1>1. CASE UpdateEndpoints
    <2>1. /\ UNCHANGED <<rpc, held, clusters, removed>>
          /\ notified' = (notified \/ (rpc = "waitEndpoints" /\ held.EndpointName \in DOMAIN resp.up))
          /\ endpoints' = Updated(endpoints, resp.up)
        BY <1>1 DEF UpdateEndpoints
    <2>2. DOMAIN endpoints' = DOMAIN resp.up \cup DOMAIN endpoints
        BY <2>1 DEF Updated
    <2> QED
        BY <2>1, <2>2
<1>2. CASE UpdateClusters \/ UpdateResource
    <2>1. FillAndNotify
        BY <1>2 DEF UpdateClusters, UpdateResource
    <2>2. /\ UNCHANGED <<rpc, held, endpoints>>
          /\ clusters' = resp.up
          /\ notified' = (notified \/ (rpc = "waitCluster" /\ Target \in DOMAIN resp.up))
          /\ removed' = (removed \/ (rpc = "waitCluster"
                                     /\ Target \in DOMAIN clusters \ DOMAIN resp.up))
        BY <2>1 DEF FillAndNotify, FillClusters
    <2> QED
        BY <2>2
<1>3. ASSUME NEW n, CleanCluster(n) PROVE ResolveInv'
    <2>1. /\ UNCHANGED <<rpc, held, notified, endpoints>>
          /\ removed' = (removed \/ (rpc = "waitCluster" /\ n = Target /\ n \in DOMAIN clusters))
          /\ DOMAIN clusters' = DOMAIN clusters \ {n}
        BY <1>3 DEF CleanCluster, Only
    <2> QED
        BY <2>1
<1>4. ASSUME NEW n, CleanEndpoints(n) PROVE ResolveInv'
    <2>1. /\ UNCHANGED <<resolverVars, clusters>>
          /\ ~(rpc \in {"missedEndpoints", "waitEndpoints"} /\ n = held.EndpointName)
          /\ DOMAIN endpoints' = DOMAIN endpoints \ {n}
        BY <1>4 DEF CleanEndpoints, Only
    <2> QED
        BY <2>1 DEF resolverVars
<1>5. CASE Resolve
    <2>1. ~notified /\ UNCHANGED notified /\ rpc' \in {"done", "failed", "endpoints", "missedCluster"}
        BY <1>5, GotClusterEnds DEF Resolve
    <2>2. rpc' = "missedCluster" => held' = None
        BY <1>5, GotClusterEnds DEF Resolve
    <2> QED
        BY <2>1, <2>2
<1>6. CASE ClusterNotified
    <2>1. ~notified' /\ notified' \in BOOLEAN /\ UNCHANGED removed
        BY <1>6 DEF ClusterNotified
    <2>2. rpc' \in {"done", "failed", "endpoints"}
          \/ (rpc' = "panicked" /\ removed /\ held' = held /\ held = None)
        BY <1>6, GotClusterEnds DEF ClusterNotified
    <2> QED
        BY <2>1, <2>2
<1>7. CASE GetEndpoints
    <2>1. UNCHANGED notified /\ ~notified /\ rpc' \in {"done", "failed", "missedEndpoints"}
        BY <1>7 DEF GetEndpoints, Answer
    <2> QED
        BY <2>1
<1>8. CASE EndpointsNotified
    <2>1. UNCHANGED notified /\ rpc' \in {"done", "failed"}
        BY <1>8 DEF EndpointsNotified, Answer
    <2> QED
        BY <2>1
<1>9. CASE ResolveTimeout \/ ResolveAgain
    <2>1. notified' \in BOOLEAN
          /\ (rpc' = "failed" \/ (rpc' = "idle" /\ held' = None /\ ~notified'))
        BY <1>9 DEF ResolveTimeout, ResolveAgain
    <2> QED
        BY <2>1
<1>10. CASE UNCHANGED <<clusters, endpoints, resolverVars>>
    BY <1>10 DEF resolverVars
<1>11. (\E raw \in RawCDS : handleCDS(raw)) \/ (\E raw \in RawEDS : handleEDS(raw))
       \/ UpdateHandlers \/ HandlerStep \/ NewCircuitBreaker \/ Registered
       \/ UNCHANGED clusterVars => UNCHANGED <<clusters, endpoints, resolverVars>>
    BY DEF handleCDS, handleEDS, UpdateHandlers, HandlerStep, NewCircuitBreaker, Registered,
           clusterVars, managerVars
<1>12. CASE WatchCluster \/ WatchEndpoints
    <2>1. /\ ~notified /\ UNCHANGED <<notified, held>>
          /\ (rpc = "missedCluster" /\ rpc' = "waitCluster") \/ rpc' = "waitEndpoints"
        BY <1>12 DEF WatchCluster, WatchEndpoints
    <2> QED
        BY <2>1
<1> QED
    BY <1>1, <1>2, <1>3, <1>4, <1>5, <1>6, <1>7, <1>8, <1>9, <1>10, <1>11, <1>12 DEF ClusterNext

\* PanicsOnlyIfRemoved: the unchecked type assertions in getEndpoints meet nil
\* only when a complete CDS response, or the cleaner, took the cluster away between
\* the notification and the read; endpoints are always there.
THEOREM ResolvePanics == ClusterSpec => []PanicsOnlyIfRemoved
<1>1. ResolveInv => PanicsOnlyIfRemoved
    BY DEF ResolveInv
<1> QED
    BY <1>1, ResolveInit, ResolveStep, PTL DEF ClusterSpec

-----------------------------------------------------------------------------
(* The cache and the messages it is made of *)

\* Cluster c is what unmarshalCluster makes of the message msg.
MadeOf(c, msg) ==
    /\ c.OutlierDetection = msg.outlierDetection
    /\ c.EndpointName = IF msg.serviceName # "" THEN msg.serviceName ELSE msg.name
    /\ c.InlineEndpoints = parseClusterLoadAssignment(msg.loadAssignment)

\* The endpoints eps, unless nil, are those that a response had for name n.
Assigned(n, eps) ==
    eps # Nil => \E raw \in RawEDS : \E i \in DOMAIN raw :
                    raw[i].msg # None /\ raw[i].msg.name = n /\ raw[i].msg.endpoints = eps

\* Every cluster and all endpoints, cached or about to be, are those of a message
\* with their name.
CacheInv ==
    /\ DOMAIN origin = DOMAIN clusters
    /\ \A n \in DOMAIN clusters : MadeOf(clusters[n], origin[n])
    /\ \A n \in DOMAIN endpoints : Assigned(n, endpoints[n])
    /\ resp # None /\ resp.type = "Cluster" =>
          \A n \in DOMAIN resp.up : MadeOf(resp.up[n], Message(resp.raw, n))
    /\ resp # None /\ resp.type = "Endpoints" =>
          \A n \in DOMAIN resp.up : Assigned(n, resp.up[n])

\* The handler works on the clusters that come next, or on the cache when it is
\* registered, under the lock; without the lock it has seen all that is cached.
PolicyInv ==
    /\ DOMAIN watched = {"Cluster", "Endpoints"}
    /\ watched.Cluster \subseteq Cluster
    /\ DOMAIN clusters \subseteq Cluster
    /\ ~made => DOMAIN clusters = {}
    /\ resp # None /\ resp.type = "Cluster" => DOMAIN resp.up \subseteq Cluster
    /\ mu = None => pc = "idle"
    /\ mu = "receiver" => registered /\ res = OutlierDetections(resp.up)
    /\ mu = "suite" => registered /\ res = OutlierDetections(clusters)
    /\ registered /\ mu = None =>
          \A c \in DOMAIN clusters : res[c] = OutlierDetections(clusters)[c]

\* A call that goes on to the endpoints has read a cluster without inline ones
\* and holds their name.
HeldInv ==
    /\ rpc \in {"endpoints", "missedEndpoints", "waitEndpoints"} =>
          /\ held.EndpointName = IF heard.serviceName # "" THEN heard.serviceName ELSE heard.name
          /\ heard.loadAssignment \in {None, <<>>}
    /\ ResolvedCoherent

\* A response is a sequence.
LEMMA RawLength ==
    ASSUME NEW raw \in RawCDS \cup RawEDS
    PROVE  Len(raw) \in Nat /\ DOMAIN raw = 1 .. Len(raw)
<1>1. IsSlice(raw)
    BY Zenon, ResponsesAssumption
<1> QED
    BY Zenon, <1>1, SliceDomain

\* UnmarshalCDS makes each cluster of the last message with its name.
LEMMA CDSMade ==
    ASSUME NEW raw \in RawCDS, ~UnmarshalCDS(raw).err, NEW n \in DOMAIN UnmarshalCDS(raw).ret
    PROVE  MadeOf(UnmarshalCDS(raw).ret[n], Message(raw, n))
<1>0. PICK es : es = [i \in DOMAIN raw |-> unmarshalCluster(raw[i])]
    OBVIOUS
<1> DEFINE I == {i \in DOMAIN es : es[i].res # None /\ es[i].name = n}
           J == {i \in DOMAIN raw : raw[i].msg.name = n}
<1>1. Len(raw) \in Nat /\ DOMAIN es = 1 .. Len(raw)
    BY <1>0, RawLength
<1>2. UnmarshalCDS(raw) = Unmarshalled(es)
    BY Zenon, <1>0 DEF UnmarshalCDS
<1>3. \A i \in DOMAIN raw : ~unmarshalCluster(raw[i]).err /\ unmarshalCluster(raw[i]).res # None
  <2>1. \A i \in DOMAIN es : ~es[i].err
      BY Zenon, <1>2, UnmarshalledAll
  <2> QED
      BY Zenon, <1>0, <2>1, ResponsesAssumption
<1>4. \A i \in DOMAIN raw : /\ unmarshalCluster(raw[i]).name = raw[i].msg.name
                            /\ MadeOf(unmarshalCluster(raw[i]).res, raw[i].msg)
  <2> SUFFICES ASSUME NEW i \in DOMAIN raw
               PROVE  /\ unmarshalCluster(raw[i]).name = raw[i].msg.name
                      /\ MadeOf(unmarshalCluster(raw[i]).res, raw[i].msg)
      OBVIOUS
  <2>1. Decodes(raw[i], "Cluster")
      BY <1>3 DEF unmarshalCluster, Entry, Bad
  <2> QED
      BY <2>1 DEF unmarshalCluster, Entry, Good, MadeOf
<1>5. I = J
    BY <1>0, <1>3, <1>4
<1>6. PICK j \in DOMAIN es : j = LastOf(I) /\ Unmarshalled(es).ret[n] = es[j].res
  <2> HIDE DEF I
  <2>1. n \in DOMAIN Unmarshalled(es).ret
      BY Zenon, <1>2
  <2>2. \E j \in DOMAIN es :
              /\ j = LastOf({i \in DOMAIN es : es[i].res # None /\ es[i].name = n})
              /\ \A i \in DOMAIN es : es[i].res # None /\ es[i].name = n => i <= j
              /\ es[j].res # None /\ es[j].name = n
              /\ Unmarshalled(es).ret[n] = es[j].res
      BY ONLY Zenon, <1>1, <2>1, UnmarshalledFrom
  <2> QED
      BY Zenon, <2>2 DEF I
<1>7. Message(raw, n) = raw[j].msg
    BY Zenon, <1>5, <1>6 DEF Message
<1> QED
    BY Zenon, <1>0, <1>2, <1>4, <1>6, <1>7

\* UnmarshalEDS returns the endpoints of a message with their name, or nil.
LEMMA EDSAssigned ==
    ASSUME NEW raw \in RawEDS, ~UnmarshalEDS(raw).err, NEW n \in DOMAIN UnmarshalEDS(raw).ret
    PROVE  Assigned(n, UnmarshalEDS(raw).ret[n])
<1> DEFINE eps(cla) == IF parseClusterLoadAssignment(cla) = None THEN Nil
                       ELSE parseClusterLoadAssignment(cla)
           e(i) == IF ~Decodes(raw[i], "ClusterLoadAssignment") THEN Entry("", Bad)
                   ELSE Entry(raw[i].msg.name, Good(eps(raw[i].msg.endpoints)))
<1>0. PICK es : es = [i \in DOMAIN raw |-> e(i)]
    OBVIOUS
<1>1. Len(raw) \in Nat /\ DOMAIN es = 1 .. Len(raw)
    BY <1>0, RawLength
<1>2. UnmarshalEDS(raw) = Unmarshalled(es)
    BY Zenon, <1>0 DEF UnmarshalEDS
<1>3. \A i \in DOMAIN raw : ~e(i).err
  <2> HIDE DEF e
  <2> QED
    BY Zenon, <1>0, <1>2, UnmarshalledAll
<1>4. n \in DOMAIN Unmarshalled(es).ret
    BY Zenon, <1>2
<1>5. PICK i \in DOMAIN raw : e(i).name = n /\ Unmarshalled(es).ret[n] = e(i).res
  <2> HIDE DEF e
  <2>1. DOMAIN es = DOMAIN raw /\ \A i \in DOMAIN raw : es[i] = e(i)
      BY Zenon, <1>0
  <2>2. \E j \in DOMAIN es :
           es[j].res # None /\ es[j].name = n /\ Unmarshalled(es).ret[n] = es[j].res
      BY ONLY Zenon, <1>1, <1>4, UnmarshalledOfOne
  <2> QED
      BY Zenon, <2>1, <2>2
<1>6. Decodes(raw[i], "ClusterLoadAssignment")
    BY <1>3 DEF Entry, Bad
<1>7. raw[i].msg.name = n /\ e(i).res = eps(raw[i].msg.endpoints)
    BY <1>5, <1>6 DEF Entry, Good
<1>8. eps(raw[i].msg.endpoints) \in {Nil, raw[i].msg.endpoints}
    BY Zenon DEF parseClusterLoadAssignment
<1> QED
    BY Zenon, <1>2, <1>5, <1>6, <1>7, <1>8 DEF Assigned, Decodes

\* Nothing is cached or pending at first.
LEMMA CacheInit == ClusterInit => CacheInv
BY DEF ClusterInit, CacheInv

\* A response is made of its messages, an update moves it to the cache, and the
\* cleaner takes entries away.
LEMMA CacheStep == TypedInv /\ CacheInv /\ [ClusterNext]_clusterVars => CacheInv'
<1> SUFFICES ASSUME TypedInv, CacheInv, [ClusterNext]_clusterVars PROVE CacheInv'
    OBVIOUS
<1>1. ASSUME NEW raw \in RawCDS, handleCDS(raw) PROVE CacheInv'
  <2> DEFINE u == Only(UnmarshalCDS(raw).ret, watched.Cluster)
  <2>1. /\ resp' = [type |-> "Cluster", up |-> u, raw |-> raw] /\ ~UnmarshalCDS(raw).err
        /\ UNCHANGED <<origin, clusters, endpoints>>
      BY Zenon, <1>1 DEF handleCDS, managerVars
  <2>2. \A n \in DOMAIN u : n \in DOMAIN UnmarshalCDS(raw).ret /\ u[n] = UnmarshalCDS(raw).ret[n]
      BY Zenon DEF Only
  <2>3. \A n \in DOMAIN u : MadeOf(u[n], Message(raw, n))
      BY Zenon, <2>1, <2>2, CDSMade
  <2>4. resp'.up = u /\ resp'.raw = raw /\ resp'.type = "Cluster"
      BY Zenon, <2>1
  <2> HIDE DEF u
  <2> QED
      BY <2>1, <2>3, <2>4 DEF CacheInv
<1>2. ASSUME NEW raw \in RawEDS, handleEDS(raw) PROVE CacheInv'
  <2> DEFINE u == Only(UnmarshalEDS(raw).ret, watched.Endpoints)
  <2>1. /\ resp' = [type |-> "Endpoints", up |-> u, raw |-> raw] /\ ~UnmarshalEDS(raw).err
        /\ UNCHANGED <<origin, clusters, endpoints>>
      BY Zenon, <1>2 DEF handleEDS, managerVars
  <2>2. \A n \in DOMAIN u : n \in DOMAIN UnmarshalEDS(raw).ret /\ u[n] = UnmarshalEDS(raw).ret[n]
      BY Zenon DEF Only
  <2>3. \A n \in DOMAIN u : Assigned(n, u[n])
      BY Zenon, <2>1, <2>2, EDSAssigned
  <2>4. resp'.up = u /\ resp'.type = "Endpoints"
      BY Zenon, <2>1
  <2> HIDE DEF u
  <2> QED
      BY <2>1, <2>3, <2>4 DEF CacheInv
<1>3. CASE UpdateEndpoints
  <2>1. /\ resp # None /\ resp.type = "Endpoints" /\ resp' = None
        /\ endpoints' = Updated(endpoints, resp.up) /\ UNCHANGED <<origin, clusters>>
      BY Zenon, <1>3 DEF UpdateEndpoints
  <2>2. \A n \in DOMAIN endpoints' : Assigned(n, endpoints'[n])
      BY <2>1 DEF CacheInv, Updated
  <2> QED
      BY Zenon, <2>1, <2>2 DEF CacheInv
<1>4. CASE UpdateClusters \/ UpdateResource
  <2>1. resp # None /\ resp.type = "Cluster" /\ FillClusters /\ resp' = None /\ UNCHANGED endpoints
      BY Zenon, <1>4 DEF UpdateClusters, UpdateResource, FillAndNotify, TypedInv
  <2>2. DOMAIN origin' = DOMAIN clusters' /\ \A n \in DOMAIN clusters' : MadeOf(clusters'[n], origin'[n])
      BY Zenon, <2>1 DEF CacheInv, FillClusters
  <2> QED
      BY Zenon, <2>1, <2>2 DEF CacheInv
<1>5. ASSUME NEW m, CleanCluster(m) PROVE CacheInv'
  <2>1. /\ clusters' = Only(clusters, DOMAIN clusters \ {m})
        /\ origin' = Only(origin, DOMAIN clusters \ {m})
        /\ UNCHANGED <<resp, endpoints>>
      BY Zenon, <1>5 DEF CleanCluster
  <2>2. DOMAIN origin' = DOMAIN clusters' /\ \A n \in DOMAIN clusters' : MadeOf(clusters'[n], origin'[n])
      BY <2>1 DEF CacheInv, Only
  <2> QED
      BY Zenon, <2>1, <2>2 DEF CacheInv
<1>6. ASSUME NEW m, CleanEndpoints(m) PROVE CacheInv'
  <2>1. endpoints' = Only(endpoints, DOMAIN endpoints \ {m}) /\ UNCHANGED <<resp, clusters, origin>>
      BY Zenon, <1>6 DEF CleanEndpoints
  <2>2. \A n \in DOMAIN endpoints' : Assigned(n, endpoints'[n])
      BY Zenon, <2>1 DEF CacheInv, Only
  <2> QED
      BY Zenon, <2>1, <2>2 DEF CacheInv
<1>7. CASE UNCHANGED <<resp, clusters, endpoints, origin>>
    BY <1>7 DEF CacheInv
<1>8. UpdateHandlers \/ HandlerStep \/ NewCircuitBreaker \/ Registered \/ Resolve \/ WatchCluster
      \/ WatchEndpoints \/ ClusterNotified \/ GetEndpoints \/ EndpointsNotified \/ ResolveTimeout \/ ResolveAgain
      \/ UNCHANGED clusterVars => UNCHANGED <<resp, clusters, endpoints, origin>>
    BY Zenon DEF UpdateHandlers, HandlerStep, NewCircuitBreaker, Registered, Resolve, WatchCluster,
       WatchEndpoints, ClusterNotified, GetEndpoints, EndpointsNotified, ResolveTimeout, ResolveAgain,
       clusterVars, managerVars
<1> QED
    BY Zenon, <1>1, <1>2, <1>3, <1>4, <1>5, <1>6, <1>7, <1>8 DEF ClusterNext

-----------------------------------------------------------------------------
(* The breaker is configured before a cluster can be read *)

\* Nothing is registered or cached at first.
LEMMA PolicyInit == ClusterInit => PolicyInv
BY HoldersAssumption DEF ClusterInit, PolicyInv, Init

\* The handler has the lock while it works on the update that then fills the
\* cache, or on the cache itself.
LEMMA PolicyStep ==
    TypedInv /\ PolicyInv /\ [ClusterNext]_clusterVars => PolicyInv'
<1> SUFFICES ASSUME TypedInv, PolicyInv, [ClusterNext]_clusterVars PROVE PolicyInv'
    OBVIOUS
<1>1. ASSUME NEW raw \in RawCDS, handleCDS(raw) PROVE PolicyInv'
  <2> DEFINE u == Only(UnmarshalCDS(raw).ret, watched.Cluster)
  <2>1. /\ resp = None /\ resp'.up = u
        /\ UNCHANGED <<watched, clusters, made, mu, registered, pc, res>>
      BY Zenon, <1>1 DEF handleCDS, managerVars, vars
  <2>2. DOMAIN u \subseteq watched.Cluster
      BY DEF Only
  <2>3. mu # "receiver"
      BY Zenon, <2>1 DEF TypedInv
  <2> HIDE DEF u
  <2> QED
      BY Zenon, <2>1, <2>2, <2>3 DEF PolicyInv, OutlierDetections
<1>2. ASSUME NEW raw \in RawEDS, handleEDS(raw) PROVE PolicyInv'
  <2>1. /\ resp = None /\ resp'.type = "Endpoints"
        /\ UNCHANGED <<watched, clusters, made, mu, registered, pc, res>>
      BY Zenon, <1>2 DEF handleEDS, managerVars, vars
  <2>2. mu # "receiver" /\ "Endpoints" # "Cluster"
      BY Zenon, <2>1 DEF TypedInv
  <2> QED
      BY Zenon, <2>1, <2>2 DEF PolicyInv, OutlierDetections
<1>3. CASE UpdateEndpoints
  <2>1. mu = None /\ resp' = None /\ UNCHANGED <<watched, clusters, made, mu, registered, pc, res>>
      BY Zenon, <1>3 DEF UpdateEndpoints, vars
  <2>2. mu # "receiver"
      BY Zenon, <2>1, HoldersAssumption
  <2> QED
      BY Zenon, <2>1, <2>2 DEF PolicyInv, OutlierDetections
<1>4. CASE UpdateClusters \/ UpdateResource
  <2>1. /\ resp # None /\ resp.type = "Cluster" /\ FillClusters /\ resp' = None
        /\ UNCHANGED <<watched, registered, pc, res>>
      BY Zenon, <1>4 DEF UpdateClusters, UpdateResource, FillAndNotify, TypedInv, vars
  <2>2. mu' = None /\ mu' # "receiver" /\ mu' # "suite" /\ pc = "idle"
      BY Zenon, <1>4, HoldersAssumption DEF UpdateClusters, UpdateResource, PolicyInv
  <2>3. registered => res = OutlierDetections(resp.up)
      BY Zenon, <1>4 DEF UpdateClusters, UpdateResource, PolicyInv
  <2>4. clusters' = resp.up /\ (~made' => DOMAIN resp.up = {})
    <3>1. DOMAIN << >> = {}
        OBVIOUS
    <3> QED
        BY Zenon, <2>1, <3>1 DEF FillClusters
  <2>5. DOMAIN resp.up \subseteq Cluster
      BY Zenon, <2>1 DEF PolicyInv
  <2>6. registered' /\ mu' = None =>
          \A c \in DOMAIN clusters' : res'[c] = OutlierDetections(clusters)'[c]
      BY Zenon, <2>1, <2>3, <2>4 DEF OutlierDetections
  <2> QED
      BY Zenon, <2>1, <2>2, <2>4, <2>5, <2>6 DEF PolicyInv
<1>5. CASE UpdateHandlers
  <2>1. /\ mu' = "receiver" /\ registered /\ res' = OutlierDetections(resp.up)
        /\ UNCHANGED <<resp, watched, clusters, made, registered>>
      BY Zenon, <1>5 DEF UpdateHandlers, updateCircuitPolicy
  <2>2. mu' # None /\ mu' # "suite"
      BY Zenon, <2>1, HoldersAssumption
  <2>3. OutlierDetections(resp.up)' = OutlierDetections(resp.up)
      BY Zenon, <2>1 DEF OutlierDetections
  <2> QED
      BY Zenon, <2>1, <2>2, <2>3 DEF PolicyInv
<1>6. CASE HandlerStep
  <2>1. pc # "idle" /\ UNCHANGED res
      BY Zenon, <1>6 DEF HandlerStep, UpdateServiceCBConfig, Disable, LoadLastPolicies,
         StoreLastPolicies
  <2>2. UNCHANGED <<resp, watched, clusters, made, mu, registered>>
      BY Zenon, <1>6 DEF HandlerStep, managerVars
  <2>3. mu # None
      BY Zenon, <2>1 DEF PolicyInv
  <2> QED
      BY Zenon, <2>1, <2>2, <2>3 DEF PolicyInv, OutlierDetections
<1>7. CASE NewCircuitBreaker
  <2>1. mu = None /\ registered' /\ UNCHANGED <<resp, watched, clusters, made>>
      BY Zenon, <1>7 DEF NewCircuitBreaker
  <2>2. OutlierDetections(clusters)' = OutlierDetections(clusters)
      BY Zenon, <2>1 DEF OutlierDetections
  <2>3. CASE ~made /\ UNCHANGED <<vars, mu>>
    <3>1. mu' = None /\ mu' # "receiver" /\ mu' # "suite" /\ UNCHANGED <<pc, res>>
        BY Zenon, <2>1, <2>3, HoldersAssumption DEF vars
    <3>2. DOMAIN clusters' = {}
        BY Zenon, <2>1, <2>3 DEF PolicyInv
    <3> QED
        BY Zenon, <2>1, <2>3, <3>1, <3>2 DEF PolicyInv
  <2>4. CASE updateCircuitPolicy(OutlierDetections(clusters)) /\ mu' = "suite"
    <3>1. mu' # None /\ mu' # "receiver" /\ res' = OutlierDetections(clusters)
        BY Zenon, <2>4, HoldersAssumption DEF updateCircuitPolicy
    <3> QED
        BY Zenon, <2>1, <2>2, <2>4, <3>1 DEF PolicyInv
  <2> QED
      BY Zenon, <1>7, <2>3, <2>4 DEF NewCircuitBreaker
<1>8. CASE Registered
  <2>1. /\ mu = "suite" /\ mu' = None /\ pc = "idle"
        /\ UNCHANGED <<resp, watched, clusters, made, registered, pc, res>>
      BY Zenon, <1>8 DEF Registered, vars
  <2>2. mu' # "receiver" /\ mu' # "suite"
      BY Zenon, <2>1, HoldersAssumption
  <2> QED
      BY Zenon, <2>1, <2>2 DEF PolicyInv, OutlierDetections
<1>9. ASSUME NEW n, CleanCluster(n) PROVE PolicyInv'
  <2>1. /\ mu = None /\ clusters' = Only(clusters, DOMAIN clusters \ {n})
        /\ watched' = [watched EXCEPT !.Cluster = @ \ {n}]
        /\ UNCHANGED <<resp, made, mu, registered, pc, res>>
      BY Zenon, <1>9 DEF CleanCluster, vars
  <2>2. mu # "receiver" /\ mu # "suite"
      BY Zenon, <2>1, HoldersAssumption
  <2>3. /\ DOMAIN clusters' \subseteq DOMAIN clusters
        /\ \A c \in DOMAIN clusters' : clusters'[c] = clusters[c]
      BY <2>1 DEF Only
  <2>4. DOMAIN watched' = {"Cluster", "Endpoints"} /\ watched'.Cluster \subseteq Cluster
      BY <2>1 DEF PolicyInv
  <2>5. ASSUME NEW c \in DOMAIN clusters', registered
        PROVE  res'[c] = OutlierDetections(clusters)'[c]
    <3>1. res[c] = OutlierDetections(clusters)[c] /\ c \in Cluster /\ c \in DOMAIN clusters
        BY Zenon, <2>1, <2>3, <2>5 DEF PolicyInv
    <3> QED
        BY Zenon, <2>1, <2>3, <3>1 DEF OutlierDetections
  <2>6. DOMAIN clusters' \subseteq Cluster /\ (~made' => DOMAIN clusters' = {})
      BY Zenon, <2>1, <2>3 DEF PolicyInv
  <2> QED
      BY Zenon, <2>1, <2>2, <2>4, <2>5, <2>6 DEF PolicyInv
<1>10. ASSUME UNCHANGED <<resp, clusters, made, mu, registered, pc, res>>,
              DOMAIN watched' = {"Cluster", "Endpoints"}, watched'.Cluster \subseteq Cluster
       PROVE  PolicyInv'
    BY Zenon, <1>10 DEF PolicyInv, OutlierDetections
<1>11. ASSUME NEW n, CleanEndpoints(n) PROVE PolicyInv'
  <2>1. DOMAIN watched' = {"Cluster", "Endpoints"} /\ watched'.Cluster \subseteq Cluster
      BY <1>11 DEF CleanEndpoints, PolicyInv
  <2>2. UNCHANGED <<resp, clusters, made, mu, registered, pc, res>>
      BY Zenon, <1>11 DEF CleanEndpoints, vars
  <2> QED
      BY Zenon, <1>10, <2>1, <2>2
<1>12. CASE WatchCluster
  <2>1. watched' = [watched EXCEPT !.Cluster = @ \cup {Target}]
      BY Zenon, <1>12 DEF WatchCluster
  <2>2. DOMAIN watched' = {"Cluster", "Endpoints"} /\ watched'.Cluster \subseteq Cluster
      BY <2>1, TargetAssumption DEF PolicyInv
  <2>3. UNCHANGED <<resp, clusters, made, mu, registered, pc, res>>
      BY Zenon, <1>12 DEF WatchCluster, vars
  <2> QED
      BY Zenon, <1>10, <2>2, <2>3
<1>13. CASE WatchEndpoints
  <2>1. DOMAIN watched' = {"Cluster", "Endpoints"} /\ watched'.Cluster \subseteq Cluster
      BY <1>13 DEF WatchEndpoints, PolicyInv
  <2>2. UNCHANGED <<resp, clusters, made, mu, registered, pc, res>>
      BY Zenon, <1>13 DEF WatchEndpoints, vars
  <2> QED
      BY Zenon, <1>10, <2>1, <2>2
<1>14. CASE Resolve \/ GetEndpoints \/ ClusterNotified \/ EndpointsNotified \/ ResolveTimeout \/ ResolveAgain
            \/ UNCHANGED clusterVars
  <2>1. UNCHANGED <<resp, watched, clusters, made, mu, registered, pc, res>>
      BY Zenon, <1>14 DEF Resolve, GetEndpoints, ClusterNotified, EndpointsNotified, ResolveTimeout, ResolveAgain,
         managerVars, clusterVars, vars
  <2>2. DOMAIN watched' = {"Cluster", "Endpoints"} /\ watched'.Cluster \subseteq Cluster
      BY Zenon, <2>1 DEF PolicyInv
  <2> QED
      BY Zenon, <1>10, <2>1, <2>2
<1> QED
    BY Zenon, <1>1, <1>2, <1>3, <1>4, <1>5, <1>6, <1>7, <1>8, <1>9, <1>11, <1>12, <1>13, <1>14
       DEF ClusterNext

\* PolicyBeforeTraffic: whenever the manager's lock is free, the breaker of every
\* cluster in the cache is on exactly if the message the cluster is made of asks
\* for it, however updates, the registration and the cleaner interleave.
THEOREM PoliciesFirst == ClusterSpec => []PolicyBeforeTraffic
<1>1. IInv /\ TypedInv /\ CacheInv /\ PolicyInv => PolicyBeforeTraffic
  <2> SUFFICES ASSUME IInv, TypedInv, CacheInv, PolicyInv, registered, mu = None,
                      NEW c \in DOMAIN clusters
               PROVE  InForce(c).Enable <=>
                         /\ origin[c].outlierDetection # None
                         /\ 0 \notin {origin[c].outlierDetection.threshold,
                                      origin[c].outlierDetection.volume}
      BY Zenon DEF PolicyBeforeTraffic
  <2> DEFINE od == clusters[c].OutlierDetection
  <2>1. origin[c].outlierDetection = od /\ od \in OutlierDetection \cup {None}
      BY Zenon DEF CacheInv, MadeOf, TypedInv, Typed
  <2>2. c \in Cluster /\ res[c] = OutlierDetections(clusters)[c]
      BY Zenon DEF PolicyInv
  <2>3. res[c] = IF od = None THEN Plain ELSE od
      BY Zenon, <2>2 DEF OutlierDetections
  <2>4. InForce(c) = Wanted(res, c)
      BY Zenon, <2>2 DEF PolicyInv, IInv, IdleInv, BreakerFollows
  <2>5. CASE od = None
    <3>1. c \notin policies(res)
        BY Zenon, <2>3, <2>5, NoneAssumption DEF policies
    <3>2. InForce(c) = Disabled /\ ~Disabled.Enable
        BY Zenon, <2>4, <3>1 DEF Wanted, Disabled
    <3> QED
        BY Zenon, <2>1, <2>5, <3>2
  <2>6. CASE od # None
    <3>1. od \in OutlierDetection /\ InForce(c) = cbconfig(od)
        BY Zenon, <2>1, <2>2, <2>3, <2>4, <2>6 DEF policies, Wanted
    <3>2. cbconfig(od).Enable <=> od.volume # 0 /\ od.threshold # 0
        BY Zenon DEF cbconfig, Disabled
    <3> HIDE DEF od
    <3> QED
        BY Zenon, <2>1, <2>6, <3>1, <3>2
  <2> QED
      BY Zenon, <2>5, <2>6
<1>2. ClusterInit => Init
    BY DEF ClusterInit
<1> QED
    BY <1>1, <1>2, InitInv, StepInv, BreakerStep, TypedInit, TypedStep, CacheInit, CacheStep,
       PolicyInit, PolicyStep, PTL DEF ClusterSpec

-----------------------------------------------------------------------------
(* What Resolve returns *)

\* No call is under way at first.
LEMMA HeldInit == ClusterInit => HeldInv
BY DEF ClusterInit, HeldInv, ResolvedCoherent

\* The call reads a cluster and its message together.
LEMMA GotClusterHeld ==
    ASSUME CacheInv, Target \in DOMAIN clusters, GotCluster(clusters[Target])
    PROVE  HeldInv'
<1> DEFINE c == clusters[Target]
           m == origin[Target]
<1>1. MadeOf(c, m) /\ heard' = m
    BY Zenon DEF CacheInv, GotCluster
<1>2. CASE c.InlineEndpoints # None
  <2>1. c.InlineEndpoints = m.loadAssignment /\ m.loadAssignment \notin {None, <<>>}
      BY Zenon, <1>1, <1>2 DEF MadeOf, parseClusterLoadAssignment
  <2>2. Answer(c.InlineEndpoints)
      BY Zenon, <1>2 DEF GotCluster
  <2>3. rpc' = "failed" \/ (rpc' = "done" /\ answer' = Flatten(m.loadAssignment))
      BY Zenon, <2>1, <2>2 DEF Answer
  <2> QED
      BY <1>1, <2>1, <2>3 DEF HeldInv, ResolvedCoherent
<1>3. CASE c.InlineEndpoints = None
  <2>1. m.loadAssignment \in {None, <<>>}
      BY Zenon, <1>1, <1>3 DEF MadeOf, parseClusterLoadAssignment
  <2>2. rpc' = "endpoints" /\ held' = c
      BY Zenon, <1>3 DEF GotCluster
  <2>3. held'.EndpointName = IF heard'.serviceName # "" THEN heard'.serviceName ELSE heard'.name
      BY Zenon, <1>1, <2>2 DEF MadeOf
  <2> QED
      BY Zenon, <1>1, <2>1, <2>2, <2>3 DEF HeldInv, ResolvedCoherent
<1> QED
    BY Zenon, <1>2, <1>3

\* The call reads the endpoints whose name it holds.
LEMMA GotEndpointsHeld ==
    ASSUME CacheInv, HeldInv, rpc \in {"endpoints", "waitEndpoints"},
           held.EndpointName \in DOMAIN endpoints, Answer(endpoints[held.EndpointName]),
           UNCHANGED <<heard, held>>
    PROVE  HeldInv'
<1> DEFINE n == held.EndpointName
           eps == endpoints[n]
<1>1. CASE eps \in {Nil, <<>>}
  <2>1. rpc' = "failed"
      BY Zenon, <1>1 DEF Answer
  <2> QED
      BY Zenon, <2>1 DEF HeldInv, ResolvedCoherent
<1>2. CASE eps \notin {Nil, <<>>}
  <2>1. rpc' = "done" /\ answer' = Flatten(eps)
      BY Zenon, <1>2 DEF Answer
  <2>2. PICK raw \in RawEDS : \E i \in DOMAIN raw :
             raw[i].msg # None /\ raw[i].msg.name = n /\ raw[i].msg.endpoints = eps
      BY Zenon, <1>2 DEF CacheInv, Assigned
  <2>3. /\ n = IF heard.serviceName # "" THEN heard.serviceName ELSE heard.name
        /\ heard.loadAssignment \in {None, <<>>}
      BY Zenon DEF HeldInv
  <2> HIDE DEF n, eps
  <2>4. ResolvedCoherent'
      BY Zenon, <2>1, <2>2, <2>3 DEF ResolvedCoherent
  <2> QED
      BY Zenon, <2>1, <2>4 DEF HeldInv
<1> QED
    BY Zenon, <1>1, <1>2

\* Only the call's own steps change what it has read and returned.
LEMMA HeldStep == CacheInv /\ HeldInv /\ [ClusterNext]_clusterVars => HeldInv'
<1> SUFFICES ASSUME CacheInv, HeldInv, [ClusterNext]_clusterVars PROVE HeldInv'
    OBVIOUS
<1>1. CASE Resolve \/ ClusterNotified
  <2>1. CASE Target \in DOMAIN clusters
    <3>1. GotCluster(clusters[Target])
        BY Zenon, <1>1, <2>1 DEF Resolve, ClusterNotified
    <3> QED
        BY Zenon, <2>1, <3>1, GotClusterHeld
  <2>2. CASE Target \notin DOMAIN clusters
    <3>1. rpc' \in {"missedCluster", "panicked"}
        BY Zenon, <1>1, <2>2 DEF Resolve, ClusterNotified
    <3> QED
        BY Zenon, <3>1 DEF HeldInv, ResolvedCoherent
  <2> QED
      BY Zenon, <2>1, <2>2
<1>2. CASE GetEndpoints \/ EndpointsNotified
  <2>1. rpc \in {"endpoints", "waitEndpoints"} /\ UNCHANGED <<heard, held>>
      BY Zenon, <1>2 DEF GetEndpoints, EndpointsNotified
  <2>2. CASE held.EndpointName \in DOMAIN endpoints
    <3>1. Answer(endpoints[held.EndpointName])
        BY Zenon, <1>2, <2>2 DEF GetEndpoints, EndpointsNotified
    <3> QED
        BY Zenon, <2>1, <2>2, <3>1, GotEndpointsHeld
  <2>3. CASE held.EndpointName \notin DOMAIN endpoints
    <3>1. rpc' \in {"missedEndpoints", "panicked"}
        BY Zenon, <1>2, <2>3 DEF GetEndpoints, EndpointsNotified
    <3> QED
        BY Zenon, <2>1, <3>1 DEF HeldInv, ResolvedCoherent
  <2> QED
      BY Zenon, <2>2, <2>3
<1>3. CASE WatchCluster \/ ResolveTimeout \/ ResolveAgain
  <2>1. rpc' \in {"waitCluster", "failed", "idle"}
      BY Zenon, <1>3 DEF WatchCluster, ResolveTimeout, ResolveAgain
  <2> QED
      BY Zenon, <2>1 DEF HeldInv, ResolvedCoherent
<1>4. CASE UNCHANGED <<rpc, held, heard, answer>>
    BY Zenon, <1>4 DEF HeldInv, ResolvedCoherent
<1>5. ASSUME NEW n, CleanCluster(n) \/ CleanEndpoints(n) PROVE UNCHANGED <<rpc, held, heard, answer>>
    BY Zenon, <1>5 DEF CleanCluster, CleanEndpoints, resolverVars
<1>6. ASSUME NEW raw, handleCDS(raw) \/ handleEDS(raw) PROVE UNCHANGED <<rpc, held, heard, answer>>
    BY Zenon, <1>6 DEF handleCDS, handleEDS, resolverVars
<1>7. UpdateEndpoints \/ UpdateClusters \/ UpdateHandlers \/ HandlerStep \/ UpdateResource
      \/ NewCircuitBreaker \/ Registered \/ UNCHANGED clusterVars
      => UNCHANGED <<rpc, held, heard, answer>>
    BY Zenon DEF UpdateEndpoints, UpdateClusters, UpdateHandlers, HandlerStep, UpdateResource,
       NewCircuitBreaker, Registered, FillAndNotify, resolverVars, clusterVars
<1>8. CASE WatchEndpoints
  <2>1. rpc = "missedEndpoints" /\ rpc' = "waitEndpoints" /\ UNCHANGED <<held, heard>>
      BY Zenon, <1>8 DEF WatchEndpoints
  <2> QED
      BY Zenon, <2>1 DEF HeldInv, ResolvedCoherent
<1> QED
    BY Zenon, <1>1, <1>2, <1>3, <1>4, <1>5, <1>6, <1>7, <1>8 DEF ClusterNext

\* ResolvedCoherent: whatever updates and clean-ups come between its reads,
\* getEndpoints returns the inline instances of the message of the cluster it
\* read, or those a response had for the EDS name of that message.
THEOREM ResolvedInstances == ClusterSpec => []ResolvedCoherent
<1>1. HeldInv => ResolvedCoherent
    BY DEF HeldInv
<1> QED
    BY <1>1, TypedInit, TypedStep, CacheInit, CacheStep, HeldInit, HeldStep, PTL DEF ClusterSpec
=============================================================================
