----------------------------- MODULE RetryPolicy -----------------------------
(***************************************************************************)
(* The retry suite of xdssuite/retry.go: the handler that turns each RDS   *)
(* response, as UnmarshalRDS and handleRDS leave it, into policies of      *)
(* Kitex's retry.Container.                                                *)
(*                                                                         *)
(* The handler runs under the resource manager's lock, before the manager  *)
(* merges the update into its cache; calls consult the container between   *)
(* any two steps of the handler.                                           *)
(***************************************************************************)
EXTENDS XdsResource

CONSTANTS
    Config,    \* names of the route configs on the watch list
    RawRDS,    \* resources of RDS responses
    WordBits   \* width of uint32

ASSUME ConstantsAssumption == WordBits \in Nat /\ 2^WordBits \in Nat \ {0}

VARIABLES
    pc,            \* "idle", "range", "notify", "delete"
    up,            \* the update being handled, or the last one
    todo,          \* route configs of up that the loop has yet to visit
    pending,       \* NotifyPolicyChange calls left for the current one
    stale,         \* keys the last loop has yet to delete
    lastPolicies,  \* rc.lastPolicies
    policies,      \* external: the policies of the retry.Container
    cache,         \* the route configs the resource manager holds
    registered     \* NewRetryPolicy has registered the handler

vars == <<pc, up, todo, pending, stale, lastPolicies, policies, cache, registered>>

-----------------------------------------------------------------------------
(* From a route to its policies *)

\* updateRetryPolicy's BackOffPolicy.
BackOffPolicy(b) ==
    IF b = None THEN [type |-> "none"]
    ELSE IF b.MaxInterval > b.BaseInterval
    THEN [type |-> "random", max |-> b.MaxInterval, min |-> b.BaseInterval]
    ELSE [type |-> "fixed", fix |-> b.BaseInterval]

\* The policy of a route, MaxDurationMS being a product of uint32.
retryPolicy(route) ==
    LET rp == route.retry
    IN  [MaxRetryTimes |-> rp.NumRetries,
         MaxDurationMS |-> ((rp.PerTryTimeout % 2^WordBits) * (rp.NumRetries % 2^WordBits))
                              % 2^WordBits,
         ErrorRate     |-> rp.CBErrorRate,
         BackOffPolicy |-> BackOffPolicy(rp.RetryBackOff)]

\* The keys of one cluster: the cluster itself, then retryPolicyKey for each
\* method.
clusterKeys(name, methods) ==
    <<<<name>>>> \o [j \in DOMAIN methods |-> <<name, methods[j]>>]

\* The keys a route has policies for, in the order of the calls.
routeKeys(route) ==
    Flatten([i \in DOMAIN route.clusters |->
        clusterKeys(route.clusters[i].name, route.retry.Methods)])

\* The NotifyPolicyChange calls for one route, and for a route config.
routeCalls(route) ==
    [j \in DOMAIN routeKeys(route) |->
        [key |-> routeKeys(route)[j], policy |-> retryPolicy(route)]]

Notifications(cfg) ==
    LET routes == Flatten(cfg.http)
    IN  Flatten([i \in DOMAIN routes |-> routeCalls(routes[i])])

KeysOf(cfg) == {n.key : n \in Range(Notifications(cfg))}

\* thisPolicies once the whole update u has been visited.
UpdateKeys(u) == UNION {KeysOf(u[c].cfg) : c \in {d \in Config : u[d] # None}}

\* The message a response has for route config c.
Message(raw, c) == raw[LastOf({i \in DOMAIN raw : raw[i].msg.name = c})].msg

\* What handleRDS passes on: the route configs that are watched, each with the
\* message it is made of, which only the properties look at.
Filtered(raw) ==
    LET ret == UnmarshalRDS(raw).ret
    IN  [c \in Config |-> IF c \in DOMAIN ret THEN [cfg |-> ret[c], msg |-> Message(raw, c)]
                          ELSE None]

Updates == {Filtered(raw) : raw \in {r \in RawRDS : ~UnmarshalRDS(r).err}}

Key == UNION {UpdateKeys(u) : u \in Updates}

\* What messages consist of: slices of resources, virtual hosts, routes, clusters
\* and headers, and numbers.  Nothing made of a message is None.
GoodRetry(rp) ==
    /\ rp.numRetries \in Nat /\ rp.perTryTimeout \in Nat
    /\ IsSlice(rp.headers) /\ \A h \in Range(rp.headers) : IsSlice(h.value)
    /\ rp.backOff # None => /\ rp.backOff.MaxInterval \in Nat
                            /\ unmarshalRetryPolicy(rp).RetryBackOff # None

GoodRoute(rt) ==
    /\ retryPolicy(unmarshalRoute(rt).res) # None
    /\ rt.action.kind = "route" =>
          /\ rt.action.spec.kind = "weighted" => IsSlice(rt.action.spec.clusters)
          /\ rt.action.retry # None => GoodRetry(rt.action.retry)

GoodHosts(hosts) ==
    /\ IsSlice(hosts)
    /\ \A rs \in Range(hosts) : IsSlice(rs) /\ \A rt \in Range(rs) : GoodRoute(rt)

ASSUME MessagesAssumption ==
    \A raw \in RawRDS :
        /\ IsSlice(raw)
        /\ ~UnmarshalRDS(raw).err => \A r \in Range(raw) :
              /\ GoodHosts(r.msg.hosts)
              /\ unmarshalRouteConfig(r.msg.hosts, NoRate).res # None

-----------------------------------------------------------------------------

Init ==
    /\ pc = "idle"
    /\ up = [c \in Config |-> None]
    /\ todo = {}
    /\ pending = <<>>
    /\ stale = {}
    /\ lastPolicies = {}
    /\ policies = [k \in Key |-> None]
    /\ cache = [c \in Config |-> None]
    /\ registered = FALSE

\* The cache after a partial update: what it does not mention stays.
Merged(u) == [c \in Config |-> IF u[c] # None THEN u[c] ELSE cache[c]]

\* UpdateResource before there is a handler.
UpdateCache(u) ==
    /\ pc = "idle"
    /\ ~registered
    /\ cache' = Merged(u)
    /\ UNCHANGED <<pc, up, todo, pending, stale, lastPolicies, policies, registered>>

\* NewRetryPolicy registers the handler, which is called with the cache if there
\* is one.
NewRetryPolicy ==
    /\ pc = "idle"
    /\ ~registered
    /\ registered' = TRUE
    /\ \/ /\ \A c \in Config : cache[c] = None
          /\ UNCHANGED <<pc, up, todo>>
       \/ /\ \E c \in Config : cache[c] # None
          /\ pc' = "range"
          /\ up' = cache
          /\ todo' = {c \in Config : cache[c] # None}
    /\ UNCHANGED <<pending, stale, lastPolicies, policies, cache>>

\* UpdateResource calls the handler with the route configs of a response.
updateRetryPolicy(u) ==
    /\ pc = "idle"
    /\ registered
    /\ pc' = "range"
    /\ up' = u
    /\ todo' = {c \in Config : u[c] # None}
    /\ UNCHANGED <<pending, stale, lastPolicies, policies, cache, registered>>

\* for _, resource := range res, in any order.
RangeNext(c) ==
    /\ pc = "range"
    /\ c \in todo
    /\ todo' = todo \ {c}
    /\ pending' = Notifications(up[c].cfg)
    /\ pc' = "notify"
    /\ UNCHANGED <<up, stale, lastPolicies, policies, cache, registered>>

NotifyPolicyChange_FirstWins ==
    /\ pc = "notify"
    /\ pending # <<>>
    /\ policies' = [policies EXCEPT ![Head(pending).key] =
                       IF @ = None THEN Head(pending).policy ELSE @]
    /\ pending' = Tail(pending)
    /\ UNCHANGED <<pc, up, todo, stale, lastPolicies, cache, registered>>

NotifyPolicyChange ==
    /\ pc = "notify"
    /\ pending # <<>>
    /\ policies' = [policies EXCEPT ![Head(pending).key] = Head(pending).policy]
    /\ pending' = Tail(pending)
    /\ UNCHANGED <<pc, up, todo, stale, lastPolicies, cache, registered>>

NotifyDone ==
    /\ pc = "notify"
    /\ pending = <<>>
    /\ pc' = "range"
    /\ UNCHANGED <<up, todo, pending, stale, lastPolicies, policies, cache, registered>>

RangeDone_All ==
    /\ pc = "range"
    /\ todo = {}
    /\ stale' = lastPolicies
    /\ pc' = "delete"
    /\ UNCHANGED <<up, todo, pending, lastPolicies, policies, cache, registered>>

RangeDone ==
    /\ pc = "range"
    /\ todo = {}
    /\ stale' = lastPolicies \ UpdateKeys(up)
    /\ pc' = "delete"
    /\ UNCHANGED <<up, todo, pending, lastPolicies, policies, cache, registered>>

DeletePolicy(k) ==
    /\ pc = "delete"
    /\ k \in stale
    /\ policies' = [policies EXCEPT ![k] = None]
    /\ stale' = stale \ {k}
    /\ UNCHANGED <<pc, up, todo, pending, lastPolicies, cache, registered>>

StoreLastPolicies_Never ==
    /\ pc = "delete"
    /\ stale = {}
    /\ cache' = Merged(up)
    /\ pc' = "idle"
    /\ UNCHANGED <<up, todo, pending, stale, lastPolicies, policies, registered>>

\* The deferred Store; then UpdateResource goes on and fills the cache.
StoreLastPolicies ==
    /\ pc = "delete"
    /\ stale = {}
    /\ lastPolicies' = UpdateKeys(up)
    /\ cache' = Merged(up)
    /\ pc' = "idle"
    /\ UNCHANGED <<up, todo, pending, stale, policies, registered>>

Next ==
    \/ \E u \in Updates : UpdateCache(u) \/ updateRetryPolicy(u)
    \/ NewRetryPolicy
    \/ \E c \in Config : RangeNext(c)
    \/ NotifyPolicyChange
    \/ NotifyDone
    \/ RangeDone
    \/ \E k \in Key : DeletePolicy(k)
    \/ StoreLastPolicies

Spec == Init /\ [][Next]_vars

-----------------------------------------------------------------------------
(* Correctness *)

\* Once an update has been handled the container has a policy for every cluster and
\* method that the update names, and none for those that no cached route config
\* names: the policies of vanished routes, however long ago they came, are deleted.
\* What becomes of a cached route config that the update does not mention is the
\* question of CachedRoutesHavePolicies.
PoliciesFollow ==
    [][pc # "idle" /\ pc' = "idle" =>
          LET inForce == {k \in Key : policies'[k] # None}
          IN  UpdateKeys(up) \subseteq inForce /\ inForce \subseteq UpdateKeys(cache')]_vars

\* A route of a response names key k: its action routes to the cluster, and its
\* last usable header for methods lists the method, if k has one.
NamesKey(rt, k) ==
    LET spec == rt.action.spec
        ms   == RetriableHeader(rt.action.retry.headers, "kitexRetryMethods")
    IN  /\ rt.action.kind = "route"
        /\ \/ spec.kind = "cluster" /\ spec.cluster = k[1]
           \/ spec.kind = "weighted" /\ \E i \in DOMAIN spec.clusters : spec.clusters[i].name = k[1]
        /\ Len(k) = 2 => rt.action.retry # None /\ k[2] \in Range(ms)

\* The longest pause between two tries.
LongestPause(b) == IF b.type = "random" THEN b.max ELSE b.fix

\* Policy p has what retry policy rp of a message asks for: the number of tries;
\* the time of all tries, if it fits a uint32; a pause between tries if rp has
\* one, at most the maximal interval, which is reached.  Whether the pause varies
\* from the base interval up, as rp says, is not claimed.
Agrees(p, rp) ==
    IF rp = None THEN p = retryPolicy([retry |-> NoRetryPolicy])
    ELSE /\ p.MaxRetryTimes = rp.numRetries
         /\ rp.numRetries * rp.perTryTimeout < 2^WordBits =>
               p.MaxDurationMS = rp.numRetries * rp.perTryTimeout
         /\ p.BackOffPolicy.type = "none" <=> rp.backOff = None
         /\ rp.backOff # None /\ rp.backOff.BaseInterval <= rp.backOff.MaxInterval =>
               LongestPause(p.BackOffPolicy) = rp.backOff.MaxInterval

\* Each policy in force is the one that the last route to name its key, in some
\* route config of the last update, has in the server's message: the routes of
\* one config override each other in order, and only the order of different
\* configs is left to chance.
PolicyOfRoute ==
    pc = "idle" => \A k \in UpdateKeys(up) :
        \E c \in {d \in Config : up[d] # None} :
            LET rts == Flatten(up[c].msg.hosts)
                i   == LastOf({j \in DOMAIN rts : NamesKey(rts[j], k)})
            IN  i # 0 /\ Agrees(policies[k], rts[i].action.retry)

\* No call finds its policy missing while an update that keeps the policy's key
\* is handled: new policies are in place before the old ones are deleted.
NoGap ==
    [][\A k \in Key : policies[k] # None /\ k \in UpdateKeys(up') => policies'[k] # None]_vars

(* What a comment says and does not hold: see README. *)

\* "the RDS/EDS responses are allowed to only include part of the resources"
\* (xdsresource.go): a route config that is still cached keeps its policies.
CachedRoutesHavePolicies ==
    pc = "idle" /\ registered => \A c \in Config : cache[c] # None =>
        \A k \in KeysOf(cache[c].cfg) : policies[k] # None
=============================================================================
