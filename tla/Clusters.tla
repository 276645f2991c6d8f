------------------------------- MODULE Clusters -------------------------------
(***************************************************************************)
(* Clusters and endpoints from the wire to their users: handleCDS and      *)
(* handleEDS of core/manager/client.go, the part of the resource manager   *)
(* they reach, the CircuitBreaker, whose handler is registered for         *)
(* clusters, and a call in the XDSResolver of xdssuite/resolver.go, which  *)
(* reads a cluster and then its endpoints.                                 *)
(***************************************************************************)
EXTENDS CircuitBreaker

CONSTANTS
    RawCDS,  \* resources of CDS responses
    RawEDS,  \* resources of EDS responses
    Target,  \* the cluster the router chose: the description to resolve
    Idle     \* clusters that may go unread for so long that they expire

VARIABLES
    watched,              \* client.watchedResource: names by type
    resp,                 \* a response between its filter and its update, or None
    clusters, endpoints,  \* manager.cache[ClusterType], manager.cache[EndpointsType]
    made,                 \* the first of them exists
    meta,                 \* the names with an entry in manager.meta[ClusterType]
    mu,                   \* who holds manager.mu through several steps, or None
    registered,           \* NewCircuitBreaker has registered its handler
    rpc,                  \* where the call of Resolve is
    held,                 \* the cluster it has read
    notified,             \* the channel it waits on is closed
    expiring,             \* meta has had an entry for Target since before its Get
    answer,               \* the instances it returned
    origin,               \* history: the message each cached cluster is made of
    heard,                \* history: the message of the cluster it has read
    removed               \* history: Target left the cache while it waited

resolverVars == <<rpc, held, notified, expiring, answer, heard, removed>>
managerVars  == <<watched, clusters, endpoints, made, meta, mu, registered, origin>>
clusterVars  == <<vars, resp, managerVars, resolverVars>>

\* Other calls have made the client watch the other clusters.
ClusterInit ==
    /\ Init
    /\ watched = [Cluster |-> Cluster \ {Target}, Endpoints |-> {}]
    /\ resp = None
    /\ clusters = <<>>
    /\ endpoints = <<>>
    /\ made = FALSE
    /\ meta = {}
    /\ mu = None
    /\ registered = FALSE
    /\ rpc = "idle"
    /\ held = None
    /\ notified = FALSE
    /\ expiring = FALSE
    /\ answer = None
    /\ origin = <<>>
    /\ heard = None
    /\ removed = FALSE

Only(m, names) == [n \in DOMAIN m \cap names |-> m[n]]

\* A cache m of a type that is never complete after the update up.
Updated(m, up) ==
    [n \in DOMAIN up \cup DOMAIN m |-> IF n \in DOMAIN up THEN up[n] ELSE m[n]]

\* The outlier detection of the clusters in m has settings of the suite's types.
Typed(m) == \A n \in DOMAIN m : m[n].OutlierDetection \in OutlierDetection \cup {None}

\* Responses are sequences of resources, and what is made of one is not None.
ASSUME ResponsesAssumption ==
    /\ \A raw \in RawCDS \cup RawEDS : IsSlice(raw)
    /\ \A raw \in RawCDS : ~UnmarshalCDS(raw).err =>
          /\ Typed(UnmarshalCDS(raw).ret)
          /\ \A i \in DOMAIN raw : unmarshalCluster(raw[i]).res # None

ASSUME TargetAssumption == Target \in Cluster

\* None is not a holder of the lock.
ASSUME HoldersAssumption == None \notin {"receiver", "suite"}

-----------------------------------------------------------------------------
(* The receiver.  A response of a type never watched is ignored; one with an  *)
(* error is NACKed and changes nothing.                                       *)

\* The message that a raw response has for cluster n: the last one.
Message(raw, n) == raw[LastOf({i \in DOMAIN raw : raw[i].msg.name = n})].msg

\* handleCDS up to c.mu.RUnlock().
handleCDS(raw) ==
    /\ resp = None
    /\ watched.Cluster # {} \/ made
    /\ LET u == UnmarshalCDS(raw)
       IN  /\ ~u.err
           /\ resp' = [type |-> "Cluster", up |-> Only(u.ret, watched.Cluster), raw |-> raw]
    /\ UNCHANGED <<vars, managerVars, resolverVars>>

\* handleEDS up to c.mu.RUnlock().
handleEDS(raw) ==
    /\ resp = None
    /\ watched.Endpoints # {}
    /\ LET u == UnmarshalEDS(raw)
       IN  /\ ~u.err
           /\ resp' = [type |-> "Endpoints", up |-> Only(u.ret, watched.Endpoints), raw |-> raw]
    /\ UNCHANGED <<vars, managerVars, resolverVars>>

\* UpdateResource for endpoints: a partial response, no handler.
UpdateEndpoints ==
    /\ resp # None
    /\ resp.type = "Endpoints"
    /\ mu = None
    /\ endpoints' = Updated(endpoints, resp.up)
    /\ notified' = (notified \/ (rpc = "waitEndpoints" /\ held.EndpointName \in DOMAIN resp.up))
    /\ resp' = None
    /\ UNCHANGED <<vars, watched, clusters, made, meta, mu, registered, origin, rpc, held,
                   expiring, answer, removed, heard>>

\* What the circuit breaker's handler makes of a map of clusters.
OutlierDetections(m) ==
    [c \in Cluster |-> IF c \notin DOMAIN m THEN None
                       ELSE IF m[c].OutlierDetection = None THEN Plain
                       ELSE m[c].OutlierDetection]

\* The cache part of UpdateResource for clusters: a complete response; and
\* updateMeta, which leaves the entries of withdrawn clusters.
FillClusters ==
    /\ clusters' = resp.up
    /\ origin' = [n \in DOMAIN resp.up |-> Message(resp.raw, n)]
    /\ made' = (made \/ resp.up # <<>>)
    /\ meta' = meta \cup DOMAIN resp.up

FillAndNotify_Any ==
    /\ FillClusters
    /\ notified' = (notified \/ rpc = "waitCluster")
    /\ removed' = (removed \/ (rpc = "waitCluster" /\ Target \in DOMAIN clusters \ DOMAIN resp.up))
    /\ resp' = None
    /\ UNCHANGED <<watched, endpoints, registered, rpc, held, expiring, answer, heard>>

\* ... and the notifiers of the clusters that arrived.
FillAndNotify ==
    /\ FillClusters
    /\ notified' = (notified \/ (rpc = "waitCluster" /\ Target \in DOMAIN resp.up))
    /\ removed' = (removed \/ (rpc = "waitCluster" /\ Target \in DOMAIN clusters \ DOMAIN resp.up))
    /\ resp' = None
    /\ UNCHANGED <<watched, endpoints, registered, rpc, held, expiring, answer, heard>>

\* UpdateResource for clusters while no handler is registered ...
UpdateClusters ==
    /\ resp # None
    /\ resp.type = "Cluster"
    /\ mu = None
    /\ ~registered
    /\ FillAndNotify
    /\ UNCHANGED <<vars, mu>>

\* (The cache filled, and unlocked, before the handler runs.)
UpdateHandlers_CacheFirst ==
    /\ resp # None
    /\ resp.type = "Cluster"
    /\ mu = None
    /\ registered
    /\ updateCircuitPolicy(OutlierDetections(resp.up))
    /\ FillClusters
    /\ UNCHANGED <<resp, watched, endpoints, mu, registered, resolverVars>>

\* ... and when the circuit breaker's is: the handler runs first ...
UpdateHandlers ==
    /\ resp # None
    /\ resp.type = "Cluster"
    /\ mu = None
    /\ registered
    /\ updateCircuitPolicy(OutlierDetections(resp.up))
    /\ mu' = "receiver"
    /\ UNCHANGED <<resp, watched, clusters, endpoints, made, meta, registered, origin,
                   resolverVars>>

\* The steps of the handler, under the lock.
HandlerStep ==
    /\ \/ \E c \in Cluster : UpdateServiceCBConfig(c) \/ Disable(c)
       \/ LoadLastPolicies
       \/ StoreLastPolicies
    /\ UNCHANGED <<resp, managerVars, resolverVars>>

\* ... and then the cache is filled.
UpdateResource ==
    /\ mu = "receiver"
    /\ pc = "idle"
    /\ FillAndNotify
    /\ mu' = None
    /\ UNCHANGED vars

-----------------------------------------------------------------------------
(* The circuit breaker is built; the cleaner *)

\* NewCircuitBreaker registers the handler, which is called with the cache if
\* there is one.
NewCircuitBreaker ==
    /\ mu = None
    /\ ~registered
    /\ registered' = TRUE
    /\ \/ ~made /\ UNCHANGED <<vars, mu>>
       \/ made /\ updateCircuitPolicy(OutlierDetections(clusters)) /\ mu' = "suite"
    /\ UNCHANGED <<resp, watched, clusters, endpoints, made, meta, origin, resolverVars>>

Registered ==
    /\ mu = "suite"
    /\ pc = "idle"
    /\ mu' = None
    /\ UNCHANGED <<vars, resp, watched, clusters, endpoints, made, meta, registered, origin,
                   resolverVars>>

\* The cleaner drops a cluster that nobody has read for long, a withdrawn one
\* included.  The entry that is made while a Get of the cluster is under way has
\* not been read, or just now.
CleanCluster(n) ==
    /\ mu = None
    /\ n \in meta \cap Idle
    /\ rpc \in {"missedCluster", "waitCluster"} /\ n = Target => expiring
    /\ clusters' = Only(clusters, DOMAIN clusters \ {n})
    /\ origin' = Only(origin, DOMAIN clusters \ {n})
    /\ meta' = meta \ {n}
    /\ watched' = [watched EXCEPT !.Cluster = @ \ {n}]
    /\ expiring' = (expiring /\ n # Target)
    /\ removed' = (removed \/ (rpc = "waitCluster" /\ n = Target /\ n \in DOMAIN clusters))
    /\ UNCHANGED <<vars, resp, endpoints, made, mu, registered, rpc, held, notified, answer,
                   heard>>

\* Endpoints leave the cache and meta together.
CleanEndpoints(n) ==
    /\ mu = None
    /\ n \in DOMAIN endpoints
    /\ ~(rpc \in {"missedEndpoints", "waitEndpoints"} /\ n = held.EndpointName)
    /\ endpoints' = Only(endpoints, DOMAIN endpoints \ {n})
    /\ watched' = [watched EXCEPT !.Endpoints = @ \ {n}]
    /\ UNCHANGED <<vars, resp, clusters, made, meta, mu, registered, origin, resolverVars>>

-----------------------------------------------------------------------------
(* XDSResolver.Resolve *)

\* Resolve returns: an error without localities, else all their endpoints.
Answer(eps) ==
    IF eps \in {Nil, <<>>} THEN rpc' = "failed" /\ UNCHANGED answer
    ELSE rpc' = "done" /\ answer' = Flatten(eps)

\* getEndpoints once it has cluster c.
GotCluster(c) ==
    /\ heard' = origin[Target]
    /\ IF c.InlineEndpoints # None THEN Answer(c.InlineEndpoints) /\ UNCHANGED held
       ELSE rpc' = "endpoints" /\ held' = c /\ UNCHANGED answer

\* Resolve is called and Get finds the cluster in the cache, or does not.
Resolve ==
    /\ rpc = "idle"
    /\ mu = None
    /\ \/ /\ Target \in DOMAIN clusters
          /\ GotCluster(clusters[Target])
          /\ UNCHANGED expiring
       \/ /\ Target \notin DOMAIN clusters
          /\ rpc' = "missedCluster"
          /\ expiring' = (Target \in meta)
          /\ UNCHANGED <<held, answer, heard>>
    /\ UNCHANGED <<vars, resp, managerVars, notified, removed>>

\* The part of Get under the lock, for a cluster ...
WatchCluster ==
    /\ rpc = "missedCluster"
    /\ mu = None
    /\ watched' = [watched EXCEPT !.Cluster = @ \cup {Target}]
    /\ rpc' = "waitCluster"
    /\ UNCHANGED <<vars, resp, clusters, endpoints, made, meta, mu, registered, origin, held,
                   notified, expiring, answer, heard, removed>>

\* ... and for endpoints.
WatchEndpoints ==
    /\ rpc = "missedEndpoints"
    /\ mu = None
    /\ watched' = [watched EXCEPT !.Endpoints = @ \cup {held.EndpointName}]
    /\ rpc' = "waitEndpoints"
    /\ UNCHANGED <<vars, resp, clusters, endpoints, made, meta, mu, registered, origin, held,
                   notified, expiring, answer, heard, removed>>

\* Get returns what the cache has now; the type assertion panics on nil.
ClusterNotified ==
    /\ rpc = "waitCluster"
    /\ notified
    /\ mu = None
    /\ \/ Target \in DOMAIN clusters /\ GotCluster(clusters[Target])
       \/ Target \notin DOMAIN clusters /\ rpc' = "panicked" /\ UNCHANGED <<held, answer, heard>>
    /\ notified' = FALSE
    /\ UNCHANGED <<vars, resp, managerVars, expiring, removed>>

\* Get of the endpoints that the cluster names.
GetEndpoints ==
    /\ rpc = "endpoints"
    /\ mu = None
    /\ LET n == held.EndpointName
       IN  \/ n \in DOMAIN endpoints /\ Answer(endpoints[n])
           \/ n \notin DOMAIN endpoints /\ rpc' = "missedEndpoints" /\ UNCHANGED answer
    /\ UNCHANGED <<vars, resp, managerVars, held, notified, expiring, removed, heard>>

EndpointsNotified ==
    /\ rpc = "waitEndpoints"
    /\ notified
    /\ mu = None
    /\ LET n == held.EndpointName
       IN  \/ n \in DOMAIN endpoints /\ Answer(endpoints[n])
           \/ n \notin DOMAIN endpoints /\ rpc' = "panicked" /\ UNCHANGED answer
    /\ UNCHANGED <<vars, resp, managerVars, held, notified, expiring, removed, heard>>

\* Get times out and Resolve returns its error.
ResolveTimeout ==
    /\ rpc \in {"waitCluster", "waitEndpoints"}
    /\ mu = None
    /\ rpc' = "failed"
    /\ UNCHANGED <<vars, resp, managerVars, held, notified, expiring, answer, removed, heard>>

\* The call is over and the next may come.
ResolveAgain ==
    /\ rpc \in {"done", "failed", "panicked"}
    /\ rpc' = "idle"
    /\ held' = None
    /\ answer' = None
    /\ notified' = FALSE
    /\ expiring' = FALSE
    /\ removed' = FALSE
    /\ heard' = None
    /\ UNCHANGED <<vars, resp, managerVars>>

-----------------------------------------------------------------------------

ClusterNext ==
    \/ \E raw \in RawCDS : handleCDS(raw)
    \/ \E raw \in RawEDS : handleEDS(raw)
    \/ UpdateEndpoints
    \/ UpdateClusters
    \/ UpdateHandlers
    \/ HandlerStep
    \/ UpdateResource
    \/ NewCircuitBreaker
    \/ Registered
    \/ \E n \in meta : CleanCluster(n)
    \/ \E n \in DOMAIN endpoints : CleanEndpoints(n)
    \/ Resolve
    \/ WatchCluster
    \/ WatchEndpoints
    \/ ClusterNotified
    \/ GetEndpoints
    \/ EndpointsNotified
    \/ ResolveTimeout
    \/ ResolveAgain

ClusterSpec == ClusterInit /\ [][ClusterNext]_clusterVars

-----------------------------------------------------------------------------
(* Correctness *)

\* "should update xds updater first, as it may affect the traffic when the
\* policy is updated at the first time" (manager.go): whoever can read a cluster
\* from the cache finds its breaker configured as the cluster's message says.
PolicyBeforeTraffic ==
    registered /\ mu = None =>
        \A c \in DOMAIN clusters :
            LET od == origin[c].outlierDetection
            IN  InForce(c).Enable <=> od # None /\ 0 \notin {od.threshold, od.volume}

\* The instances Resolve returns are those of the cluster it read, as the
\* server sent it: the inline ones, or, if there are none, those that a response
\* had for the name in its EDS config, or else for its own name.
ResolvedCoherent ==
    rpc = "done" =>
        IF heard.loadAssignment \notin {None, <<>>}
        THEN answer = Flatten(heard.loadAssignment)
        ELSE \E raw \in RawEDS : \E i \in DOMAIN raw :
                /\ raw[i].msg # None
                /\ raw[i].msg.name = IF heard.serviceName # "" THEN heard.serviceName
                                     ELSE heard.name
                /\ answer = Flatten(raw[i].msg.endpoints)

\* Resolve panics only if the cluster it waited for arrived and left the cache
\* before it could read it: withdrawn by a later response, or dropped by the
\* cleaner, which goes by an entry in meta that an earlier withdrawal has left.
\* Reading endpoints never panics.
PanicsOnlyIfRemoved ==
    rpc = "panicked" => removed /\ held = None
=============================================================================
