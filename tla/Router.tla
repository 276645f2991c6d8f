-------------------------------- MODULE Router --------------------------------
(***************************************************************************)
(* The client side of one call in xdssuite: the XDSRouter of router.go     *)
(* (listener, route config, first matching route, weighted cluster), which *)
(* the retry suite (genRetryServiceKey of retry.go) and the router         *)
(* middleware both run for the same RPCInfo, while the control plane keeps *)
(* changing the resources that manager.Get returns.                        *)
(***************************************************************************)
EXTENDS XdsResource, FiniteSets

CONSTANTS
    Listeners,     \* the values the listener resource may have
    RouteConfigs,  \* for a route config's name, the values it may have
    Calls,         \* calls: [grpc, method, path, md]
    matchMethod,   \* Options.matchRetryMethod
    WordBits,      \* width of uint32
    MaxUpdates     \* bound: resource changes during the call

ASSUME ConstantsAssumption ==
    /\ matchMethod \in BOOLEAN
    /\ WordBits \in Nat \ {0}
    /\ MaxUpdates \in Nat

\* What the Unmarshal functions make: a route has clusters, with a name and a
\* weight each, and an HTTP filter the name of a route config.
GoodRoute(r) ==
    /\ r # None
    /\ IsSlice(r.clusters)
    /\ \A wc \in Range(r.clusters) : wc.name # None /\ wc.weight \in Nat

GoodConfig(cfg) ==
    /\ cfg.thrift # None => IsSlice(cfg.thrift) /\ \A r \in Range(cfg.thrift) : GoodRoute(r)
    /\ cfg.http # None => /\ IsSlice(cfg.http)
                          /\ \A rs \in Range(cfg.http) :
                                IsSlice(rs) /\ \A r \in Range(rs) : GoodRoute(r)

ASSUME RoutesAssumption ==
    /\ \A l \in Listeners :
          /\ IsSlice(l)
          /\ \A f \in Range(l) :
                /\ f # None /\ f.inline # Nil
                /\ f.inline # None => GoodConfig(f.inline)
                /\ f.type = "http" => f.name \in DOMAIN RouteConfigs
    /\ \A n \in DOMAIN RouteConfigs : \A cfg \in RouteConfigs[n] : GoodConfig(cfg)

\* Half a word.
ASSUME WordAssumption ==
    2^(WordBits - 1) \in Nat \ {0} /\ 2^WordBits = 2 * 2^(WordBits - 1)

VARIABLES
    listener, routeConfig,  \* what manager.Get would return now; routeConfig by name
    updates,                \* resource changes so far
    pc, who,                \* where the call is, and who runs the router
    call,                   \* the call, its metadata included
    routeName,              \* httpFilter.RouteConfigName, while it is fetched
    route,                  \* the matched route, between matchRoute and pickCluster
    tag, rpcTimeout,        \* RPCInfo: the RouterClusterKey tag, the RPC timeout
    key,                    \* what genRetryServiceKey returned
    heard, offers, gap      \* history: see Offer

resourceVars == <<listener, routeConfig, updates>>
historyVars  == <<heard, offers, gap>>
vars == <<resourceVars, pc, who, call, routeName, route, tag, rpcTimeout, key, historyVars>>

-----------------------------------------------------------------------------
(* Matching *)

\* Matchers.Match: a matcher is the set of header values it accepts.
Match(ms, md) == \A h \in DOMAIN ms : h \in DOMAIN md /\ md[h] \in ms[h]

\* MatchPath of HTTPRouteMatch: an exact path, or the default prefix only.
HTTPMatchPath(m, path) == IF m.path # "" THEN m.path = path ELSE m.prefix = "/"

\* MatchPath of ThriftRouteMatch: the method, if there is one to match.
ThriftMatchPath(m, method) == m.method \in {"", method}

HTTPRouteMatched(c, r) ==
    r.match # None /\ HTTPMatchPath(r.match, c.path) /\ Match(r.match.headers, c.md)

ThriftRouteMatched(c, r) ==
    r.match # None /\ ThriftMatchPath(r.match, c.method) /\ Match(r.match.headers, c.md)

\* The indices of the routes in rs that match call c.
HTTPMatches(c, rs) == {i \in DOMAIN rs : HTTPRouteMatched(c, rs[i])}

ThriftMatches(c, rs) == {i \in DOMAIN rs : ThriftRouteMatched(c, rs[i])}

\* The element of s with index i, None without an index.
ElementAt(s, i) == IF i = 0 THEN None ELSE s[i]

matchHTTPRoute_FirstHost(c, rcfg) ==
    IF rcfg.http \in {None, <<>>} THEN None
    ELSE LET rs == rcfg.http[1] IN ElementAt(rs, FirstOf(HTTPMatches(c, rs)))

\* The first match of the virtual hosts in order, their domains ignored.
matchHTTPRoute(c, rcfg) ==
    IF rcfg.http = None THEN None
    ELSE LET rs == Flatten(rcfg.http) IN ElementAt(rs, FirstOf(HTTPMatches(c, rs)))

matchThriftRoute(c, rcfg) ==
    IF rcfg.thrift = None THEN None
    ELSE ElementAt(rcfg.thrift, FirstOf(ThriftMatches(c, rcfg.thrift)))

\* The last network filter of the given type, or None.
NetworkFilter(l, type) == ElementAt(l, LastOf({i \in DOMAIN l : l[i].type = type}))

\* The route the listener's own filters give: thrift first, then inline HTTP.
InlineRoute(c, l) ==
    LET thriftFilter == NetworkFilter(l, "thrift")
        httpFilter   == NetworkFilter(l, "http")
        thriftRoute  == IF c.grpc \/ thriftFilter = None THEN None
                        ELSE IF thriftFilter.inline = None THEN None
                        ELSE matchThriftRoute(c, thriftFilter.inline)
    IN  IF thriftRoute # None THEN thriftRoute
        ELSE IF httpFilter = None THEN None
        ELSE IF httpFilter.inline = None THEN None
        ELSE matchHTTPRoute(c, httpFilter.inline)

-----------------------------------------------------------------------------
(* Weighted clusters *)

\* currWeight after each round of the loop, a uint32.
Weights(wcs) ==
    LET sum[i \in 0..Len(wcs)] ==
            IF i = 0 THEN 0 ELSE (sum[i - 1] + wcs[i].weight) % 2^WordBits
    IN  sum

calTotalWeight(wcs) == Weights(wcs)[Len(wcs)]

\* External: what Int31n(int32(total)) may return; it panics when the argument
\* is not positive, that is when total does not fit an int32.
Int31n(total) == IF total < 2^(WordBits - 1) THEN 0 .. total - 1 ELSE {}

pickIndex_NoSum(wcs, targetWeight) ==
    FirstOf({i \in DOMAIN wcs : wcs[i].weight >= targetWeight})

\* The round of pickCluster's loop that returns, 0 for "should not reach here".
pickIndex(wcs, targetWeight) ==
    FirstOf({i \in DOMAIN wcs : Weights(wcs)[i] >= targetWeight})

-----------------------------------------------------------------------------
(* History *)

\* The routes that a route config has for each protocol.
ThriftRoutes(cfg) ==
    IF cfg = None THEN <<>> ELSE IF cfg.thrift = None THEN <<>> ELSE cfg.thrift

HTTPRoutes(cfg) ==
    IF cfg \in {None, Nil} THEN <<>> ELSE IF cfg.http = None THEN <<>> ELSE Flatten(cfg.http)

\* The best route for call c when the listener is l and the route configs rcs:
\* the first that matches among the routes of the thrift filter, unless c is a
\* gRPC call, the inline ones of the HTTP filter, and those of the route config
\* that it names.
BestRoute(c, l, rcs) ==
    IF l \in {None, Nil} THEN None
    ELSE LET thrift == NetworkFilter(l, "thrift")
             http   == NetworkFilter(l, "http")
             ts == IF c.grpc \/ thrift = None THEN <<>> ELSE ThriftRoutes(thrift.inline)
             hs == IF http = None THEN <<>>
                   ELSE HTTPRoutes(http.inline) \o HTTPRoutes(rcs[http.name])
         IN  ElementAt(ts \o hs, FirstOf(ThriftMatches(c, ts)
                                         \cup {Len(ts) + i : i \in HTTPMatches(c, hs)}))

\* The (cluster, timeout) pairs that listener l and route configs rcs allow c.
Offer(c, l, rcs) ==
    LET r == BestRoute(c, l, rcs)
    IN  IF r = None THEN {} ELSE {<<wc.name, r.timeout>> : wc \in Range(r.clusters)}

\* The sums of the weights as numbers, not words.
Sums(wcs) ==
    LET sum[i \in 0..Len(wcs)] == IF i = 0 THEN 0 ELSE sum[i - 1] + wcs[i].weight
    IN  sum

\* The weights add up to what an int32 can hold.
SumFits(wcs) == Sums(wcs)[Len(wcs)] \in 1 .. 2^(WordBits - 1) - 1

\* Listener l and route configs rcs give c no cluster to go to: no route, one
\* without clusters, or weighted clusters whose weights make no sense.
Refused(c, l, rcs) ==
    LET r == BestRoute(c, l, rcs)
    IN  \/ r = None
        \/ Len(r.clusters) = 0
        \/ Len(r.clusters) > 1 /\ ~SumFits(r.clusters)

\* Record the resources that are in force after the step: heard, the listeners
\* since the call began; offers, what they and later route configs allow the
\* call; gap, whether some such pair refused it.
Record(since) ==
    /\ heard' = since \cup {listener'}
    /\ offers' = offers \cup UNION {Offer(call', l, routeConfig') : l \in heard'}
    /\ gap' = (gap \/ \E l \in heard' : Refused(call', l, routeConfig'))

-----------------------------------------------------------------------------

Init ==
    /\ listener \in Listeners \cup {None, Nil}
    /\ routeConfig \in [DOMAIN RouteConfigs -> UNION Range(RouteConfigs) \cup {None, Nil}]
    /\ \A n \in DOMAIN RouteConfigs : routeConfig[n] \in RouteConfigs[n] \cup {None, Nil}
    /\ updates = 0
    /\ pc = "start"
    /\ who = None
    /\ call \in Calls
    /\ routeName = None
    /\ route = None
    /\ tag = None
    /\ rpcTimeout = None
    /\ key = None
    /\ heard = {listener}
    /\ offers = Offer(call, listener, routeConfig)
    /\ gap = Refused(call, listener, routeConfig)

\* The manager's cache changes: an update, the cleaner, or a slow server.
UpdateResources ==
    /\ updates < MaxUpdates
    /\ updates' = updates + 1
    /\ \/ listener' \in Listeners \cup {None, Nil} /\ UNCHANGED routeConfig
       \/ /\ \E n \in DOMAIN RouteConfigs : \E r \in RouteConfigs[n] \cup {None, Nil} :
                routeConfig' = [routeConfig EXCEPT ![n] = r]
          /\ UNCHANGED listener
    /\ UNCHANGED <<pc, who, call, routeName, route, tag, rpcTimeout, key>>
    /\ Record(heard)

\* genRetryServiceKey: the cluster the RPCInfo has, or the router's.
genRetryServiceKey ==
    /\ pc \in {"start", "next"}
    /\ key = None
    /\ \/ tag # None /\ key' = <<tag>> /\ UNCHANGED <<pc, who>>
       \/ tag = None /\ pc' = "listener" /\ who' = "retry" /\ UNCHANGED key
    /\ UNCHANGED <<resourceVars, call, routeName, route, tag, rpcTimeout, historyVars>>

\* The router middleware: a call that has a cluster goes on.
RouterMiddleware ==
    /\ pc = "start"
    /\ \/ tag # None /\ pc' = "next" /\ UNCHANGED who
       \/ tag = None /\ pc' = "listener" /\ who' = "middleware"
    /\ UNCHANGED <<resourceVars, call, routeName, route, tag, rpcTimeout, key, historyVars>>

\* Route returns an error: no retry key, or the call fails.
RouteFails ==
    /\ \/ who = "retry" /\ key' = <<>> /\ pc' = "start"
       \/ who = "middleware" /\ pc' = "failed" /\ UNCHANGED key
    /\ routeName' = None
    /\ route' = None
    /\ UNCHANGED <<tag, rpcTimeout>>

\* A nil resource is dereferenced, or Int31n refuses its argument.
Panic == pc' = "panicked" /\ UNCHANGED <<routeName, route, tag, rpcTimeout, key>>

GoOn(next, name, r) ==
    /\ pc' = next
    /\ routeName' = name
    /\ route' = r
    /\ UNCHANGED <<tag, rpcTimeout, key>>

\* matchRoute up to the Get of the route config.
matchListener ==
    /\ pc = "listener"
    /\ IF listener = None THEN RouteFails
       ELSE IF listener = Nil THEN Panic
       ELSE IF InlineRoute(call, listener) # None
            THEN GoOn("pick", None, InlineRoute(call, listener))
       ELSE IF NetworkFilter(listener, "http") = None THEN RouteFails
       ELSE GoOn("routeConfig", NetworkFilter(listener, "http").name, None)
    /\ UNCHANGED <<resourceVars, who, call, historyVars>>

\* matchRoute from there on.
matchRouteConfig ==
    /\ pc = "routeConfig"
    /\ LET rcfg == routeConfig[routeName]
       IN  IF rcfg = None THEN RouteFails
           ELSE IF rcfg = Nil THEN Panic
           ELSE IF matchHTTPRoute(call, rcfg) = None THEN RouteFails
           ELSE GoOn("pick", None, matchHTTPRoute(call, rcfg))
    /\ UNCHANGED <<resourceVars, who, call, historyVars>>

Routed_NoTimeout(cluster) ==
    /\ tag' = cluster
    /\ route' = None
    /\ UNCHANGED routeName
    /\ \/ /\ who = "retry"
          /\ key' = IF matchMethod THEN <<cluster, call.method>> ELSE <<cluster>>
          /\ pc' = "start"
          /\ UNCHANGED rpcTimeout
       \/ /\ who = "middleware"
          /\ rpcTimeout' = route.timeout
          /\ pc' = "next"
          /\ UNCHANGED key

Routed_NoTag(cluster) ==
    /\ rpcTimeout' = route.timeout
    /\ route' = None
    /\ UNCHANGED routeName
    /\ \/ /\ who = "retry"
          /\ key' = IF matchMethod THEN <<cluster, call.method>> ELSE <<cluster>>
          /\ pc' = "start"
          /\ UNCHANGED tag
       \/ /\ who = "middleware"
          /\ tag' = cluster
          /\ pc' = "next"
          /\ UNCHANGED key

\* What the retry suite and the middleware do with a RouteResult.
Routed(cluster) ==
    /\ tag' = cluster
    /\ rpcTimeout' = route.timeout
    /\ route' = None
    /\ UNCHANGED routeName
    /\ \/ /\ who = "retry"
          /\ key' = IF matchMethod THEN <<cluster, call.method>> ELSE <<cluster>>
          /\ pc' = "start"
       \/ /\ who = "middleware"
          /\ pc' = "next"
          /\ UNCHANGED key

pickCluster ==
    /\ pc = "pick"
    /\ LET wcs   == route.clusters
           total == calTotalWeight(wcs)
       IN  \/ Len(wcs) = 0 /\ RouteFails
           \/ Len(wcs) = 1 /\ Routed(wcs[1].name)
           \/ Len(wcs) > 1 /\ total = 0 /\ RouteFails
           \/ Len(wcs) > 1 /\ total > 0 /\ Int31n(total) = {} /\ Panic
           \/ /\ Len(wcs) > 1
              /\ \E targetWeight \in Int31n(total) :
                    LET i == pickIndex(wcs, targetWeight)
                    IN  IF i = 0 THEN RouteFails ELSE Routed(wcs[i].name)
    /\ UNCHANGED <<resourceVars, who, call, historyVars>>

Next ==
    \/ UpdateResources
    \/ genRetryServiceKey
    \/ RouterMiddleware
    \/ matchListener
    \/ matchRouteConfig
    \/ pickCluster

Spec == Init /\ [][Next]_vars

-----------------------------------------------------------------------------
(* Correctness *)

\* The cluster a call is sent to and its timeout are those of one and the same
\* route, the best match for this call among resources in force while it was
\* routed, though listener and route config are read one after the other and
\* the router may run twice for the call.
RouteCoherent ==
    tag # None => <<tag, rpcTimeout>> \in offers

\* The retry policy is looked up for the cluster the call is sent to: nothing
\* that changes between genRetryServiceKey and the middleware separates them.
KeyOfCluster ==
    pc = "next" /\ key \notin {None, <<>>} => key[1] = tag

\* A call fails or panics in the router only if resources that were in force
\* during the call, a listener and a route config read after it, refuse it: the
\* loop of pickCluster never runs past its end ("should not reach here"), and
\* Int31n panics only for weights whose sum does not fit an int32.
FailsForAReason ==
    pc \in {"failed", "panicked"} => gap

\* How many values of targetWeight make pickCluster take cluster i.
Share(wcs, i) ==
    Cardinality({w \in Int31n(calTotalWeight(wcs)) : pickIndex(wcs, w) = i})

\* pickCluster is about to choose among clusters with usable weights.
Choosing == pc = "pick" /\ Len(route.clusters) > 1 /\ SumFits(route.clusters)

\* pickCluster gives every cluster its weight to within one unit.
SharesClose ==
    Choosing =>
        \A i \in DOMAIN route.clusters :
            /\ Share(route.clusters, i) <= route.clusters[i].weight + 1
            /\ route.clusters[i].weight <= Share(route.clusters, i) + 1

(* What the comments say and does not hold: see README. *)

\* "pickCluster selects cluster based on the weight" (router.go): of the total
\* weight each cluster gets its own.
SharesExact ==
    Choosing =>
        \A i \in DOMAIN route.clusters :
            Share(route.clusters, i) = route.clusters[i].weight
=============================================================================
