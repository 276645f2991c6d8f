# kitex-contrib/xds in TLA+

Specifications, model-checking runs and proofs for the xDS client of
`kitex-contrib/xds`: the part of a Kitex client or server that subscribes to an
xDS control plane (Istiod), caches its resources, and turns them into routes,
retry policies, circuit breakers and limits.

## The system

| part | source | state | operations |
|---|---|---|---|
| resource manager | `core/manager/manager.go` | `cache`, `meta`, `notifierMap`, `xdsHandlers`, `m.mu` | `Get`, `cleaner`, `UpdateResource`, `updateMeta`, `RegisterXDSUpdateHandler`, `Dump`, `Close` |
| xDS client | `core/manager/client.go` | `watchedResource`, `versionMap`, `nonceMap`, `reqCh`, `streamCh`, `closeCh`, `c.mu` | `Watch`, `sender`, `receiver`, `updateAndACK`, `reconnect`, `reqWhenReconnect`, `warmup`, `close` |
| response handlers | `core/manager/client.go` | (those of the two above) | `handleLDS`, `handleRDS`, `handleCDS`, `handleEDS`, `handleNDS` |
| name resolution | `core/manager/client.go` | the lookup table | `updateLookupTable`, `resolveAddr`, `getListenerName` |
| resources | `core/xdsresource/` | none | `Unmarshal*`, `MatchPath`, `Matchers.Match` |
| router | `xdssuite/router.go` | tags and timeout of the RPCInfo | `Route`, `matchRoute`, `pickCluster`, the middleware |
| retry suite | `xdssuite/retry.go` | `lastPolicies`, the retry container | `updateRetryPolicy`, `genRetryServiceKey` |
| circuit breaker suite | `xdssuite/circuitbreak.go` | `lastPolicies`, the CBSuite | `updateCircuitPolicy`, `updateAllCircuitConfigs` |
| limiter | `xdssuite/limiter.go` | `opt`, `updater` | `listenerUpdater`, `updateHandler`, `UpdateControl` |
| resolver | `xdssuite/resolver.go` | none | `Resolve` |
| bootstrap, options, auth | `core/manager/bootstrap.go`, `option.go`, `auth/`, `xds.go` | set at start | - |

A caller's `Get` that misses the cache registers a notifier and calls `Watch`
with `m.mu` held. `Watch` takes `c.mu`, changes the watch list and queues a
request that lists every watched name of the type. The sender goroutine drains
the queue into the stream. The receiver goroutine reads a response, queues an
ACK or NACK under `c.mu`, filters the resources with the watch list, and calls
`UpdateResource`, which under `m.mu` runs the registered handlers (retry,
circuit breaker, limiter), fills the cache and closes the notifiers. The cleaner
evicts and unsubscribes what has not been read for 30 seconds. When `Recv` fails
the receiver opens a new stream, resets the nonces, clears the queue and hands
the stream to the sender, which resends every subscription.

What is hard to test here: callers, cleaner and receiver interleave around a
cache read and a notifier; a response is filtered under one lock and applied
under another; streams break at any point of an exchange; a bounded queue is
written with the lock held that its reader may need; each suite diffs an update
against the one before; the router reads two resources that change
independently, twice per call. `PROJECT.json` lists these hazards line by line.

## Modules

| module | models | notes |
|---|---|---|
| `ResourceManager` | manager, filter of the handlers | one action per critical section; the client is its watch list |
| `ResourceStore` | what the manager promises | abstract: callers, a map, no locks, notifiers or access times; `ResourceManager` implements it |
| `XdsClient` | client, ACK/NACK, reconnection, warmup | server and stream are external actions `Push`, `Break`, `SendOK`, `SendFails` |
| `System` | manager on top of client | extends `XdsClient`, instantiates `ResourceManager`; both locks, one watch list |
| `Seqs` | loops over slices | operators only: first, last, flatten, select |
| `XdsResource` | `core/xdsresource`: `Unmarshal*` | operators only, extended by all below |
| `Names` | `bootstrap.go`, listener names | operators only |
| `Listeners` | NDS and LDS responses, cache, `Limiter` | extends `Limiter` and `Names` |
| `Clusters` | CDS and EDS responses, cache, `CircuitBreaker`, resolver | extends `CircuitBreaker` |
| `Router` | router, middleware, retry key | one call; resources change up to `MaxUpdates` times |
| `RetryPolicy` | RDS responses, cache, retry handler | its updates are what `UnmarshalRDS` makes |
| `CircuitBreaker`, `Limiter` | the two update handlers | loops over Go maps visit entries in any order, one step each |
| `MC*` | instances for TLC | constants only |
| `XdsResourceProofs` | lemmas about `Seqs` and `XdsResource` | extended by the proofs of the four modules that unmarshal |
| `*Proofs` | theorems | extend the module they are about; `SystemProofs` also instantiates `ResourceManagerProofs` |

A definition `X_Variant` beside `X` is a faulty form of it (a dropped guard, a
missing reset, a boundary off by one). It is used nowhere in the specifications;
each property must be violated when the variant takes the place of `X`.

### ResourceManager

`mu` is the holder of `m.mu` only while it is held over several steps: a `Get`
that creates a notifier keeps it while `Watch` runs (`CreateNotifier`, `Watch`,
`WatchReturns`), the cleaner keeps it during a sweep (`CleanTick`, `Clean`,
`UnwatchReturns`). Everything else that locks is one step with the guard
`mu = None`. `meta[k]` abstracts the access time: none, never accessed, fresh,
stale. `HandleResponse` filters and `UpdateResource` applies, two steps as in the
code. `Init` is the state after `NewXDSResourceManager`, with or without the
inbound listener that the warmup fetched. Notifiers are reused once nothing
refers to them, as memory is.

### XdsClient

A nonce is a pair (stream, number), so that a nonce of another stream can be told
apart; versions are small numbers; names are sets. A request is prepared and
queued in two steps with `c.mu` held between them, because the queue may be full.
`sub[s][t]` is the last request for type `t` that the server got on stream `s`.
A broken stream swallows what is sent until the error shows. The receiver's steps
follow `handleResponse`, `updateAndACK`, the filter and update, and `reconnect`.
The bounds `MaxStream`, `MaxPush` (responses per stream), `MaxPushes` (responses in
all), `MaxWatch` and `MaxVersion` cap the environment only. `QueueCircle` names the one
state the code cannot leave by itself: the queue is full, its writer holds `c.mu`, and
the sender waits for `c.mu`.

### ResourceStore

A store is a map from keys to resources. A `Get` answers from the map at once
(`Hit`) or calls for the key and later gets a `Reply`, which is what the map holds
at that moment, or gives up. An update (`Deliver`) replaces what it brings, and
removes other keys only if their type is sent in full; `Evict` never takes a
resource that somebody is waiting for or that is reserved. `ResourceManager` maps
its program counters to these states; every step is one of the store's or a
stutter (`StoreSteps`).

### System

Each call of `client.Watch` by a `Get`, the cleaner or the warmup is a `Watch` of
`XdsClient`, made with `m.mu` held and waiting for `c.mu` and for room in the
queue; each `UpdateResource` is the end of a handler. A resource is the version of
the response that brought it; `inbound` is what the last listener response had for the
inbound listener, the reference for `InboundReady`. Two things are narrower than in the two modules on
their own: nothing is ever closed, and the server sends responses that unmarshal, of
types that it was asked for.

### XdsResource and Names

A message is a record with the fields the code reads, beside its type URL; one that
cannot be decoded is `None`. The operators keep every early return and every error, and
the result of an `Unmarshal*` is an error or a map, as its callers take it. A host
is the sequence of its labels, so that `strings.Split`, its length and the suffix
test of `tryExpandFQDN` are themselves. Environments give the namespace, the node
domain and the metadata that names depend on. Recursion is by functions over the
indices of a slice, which the proofs can reason about.

### Listeners

`handleNDS` replaces the name table. `handleLDS` unmarshals, resolves the watched
names with the table of that moment and filters; the update runs the limiter's
handler and then fills the cache and `meta`, in steps while `m.mu` is held. Meanwhile
callers subscribe names, the cleaner drops names that have an entry in `meta`, and the server builds its limiter,
registers it and starts (`UpdateControl` in two steps, as in `Limiter`).

### Clusters

`handleCDS` and `handleEDS` in the same way, with the circuit breaker's handler. One
call of `Resolve` at a time reads the cluster and then its endpoints, each with a `Get`
that may hit, miss, wait or time out, while responses and the cleaner change both; the
look at the cache and the registration of the notifier are two steps, as in the code. A
call that panics is in the state `"panicked"`. `meta` has the clusters the cleaner walks
over, which a withdrawal does not shrink; `expiring` says that an entry older than the
call may run out during it, and `removed` that the cluster left the cache while the call
waited for it. The cleaner drops a cluster of `Idle` only.

### Router

`genRetryServiceKey` and `RouterMiddleware` both start `Route` for one call; the
listener and the route config are read in separate steps and change in between.
`None` is a resource that `Get` cannot fetch, `Nil` one that it returns as nil
without an error. The history variables collect what the resources in force
during the call allow, as the reference for `RouteCoherent` and
`FailsForAReason`: routes are matched there by filtering and concatenation, not
by the code's early returns. Weights are `WordBits` wide and wrap.

### The suites

The handlers step once per call into Kitex (`UpdateServiceCBConfig`,
`NotifyPolicyChange`, `DeletePolicy`, `UpdateLimit`), since RPCs read that state
meanwhile. `RetryPolicy` also keeps the manager's cache of route configs, and its
updates are what `UnmarshalRDS` makes of the responses and the filter leaves.

## Runs

Runs that pass:

| run | checks | instance |
|---|---|---|
| `ManagerSafety` | `TypeOK`, `NotifierOpen`, `NotifierHasWaiter`, `WaiterWatched`, `NotifiedFinds`, `CacheHasMeta`, `HandlerCoversCache`, `OnlyAllowedEvictions`, `StoreSteps` | two callers, a cluster and a route config, cleaner, receiver, one handler |
| `XdsClientSafety` | `TypeOK`, `SubscriptionCurrent`, `StreamsInOrder`, `NonceOfStream`, `AckedIsApplied`, `ListenerAfterNameTable`, `NoncesAdvance` | warmup of name table and listeners, two reconnections, ACK and NACK, two calls of `Watch`, a queue that fills, stopping |
| `System` | `WaiterSubscribed`, `InboundReady`, `SubscriptionsArrive`, `GetReturns`, `ReservedStaysWatched` | warmup of the inbound listener, one caller with two calls of `Get`, cleaner, one reconnection, a queue that fills |
| `Router` | `RouteCoherent`, `KeyOfCluster`, `FailsForAReason`, `SharesClose` | one call, two changes of resources |
| `Clusters` | `TypeOK`, `BreakerFollows`, `PolicyBeforeTraffic`, `ResolvedCoherent`, `PanicsOnlyIfRemoved`, `NoFlicker` | two clusters, responses good and bad, any number of them, one call of `Resolve` at a time |
| `RetryPolicy` | `PoliciesFollow`, `PolicyOfRoute`, `NoGap` | two route configs that share clusters |
| `Listeners` | `LimitInForce`, `NoStaleLimit`, `AllOrNothing`, `AliasesAgree`, `NoForeignListener` | aliases of a service and an external host, tables that disagree, listeners good and broken |

`StoreSteps` is a refinement: the steps of `ResourceManager` are steps of
`ResourceStore`. `GetReturns` and `SubscriptionsArrive` promise progress up to
`QueueCircle`, which the run does reach: without that disjunct both are violated, and
`XdsClientFullQueue` is about it.

Runs that show where the code departs from what its comments, tests or
documentation say (each stops at a counterexample):

| run | property | what the code does |
|---|---|---|
| `ManagerLostWakeup` | `WaiterNotified` | `Get` does not look at the cache again when it registers its notifier, and a timeout deletes the notifier registered now, whoever's it is: a `Get` can wait and time out for a cached resource |
| `ManagerStaleFilter` | `CachedIsWatched` | a handler filters under `c.mu` and applies after it is released (`client.go:516`): a name that the cleaner unsubscribes in between is cached and gets no more updates |
| `XdsClientFullQueue` | `WatchEnds` | on a full queue `Watch` keeps `c.mu` while the sender waits for it: neither goes on. The queue has 1024 places, so it takes that many requests between two rounds of the sender |
| `RouterWeights` | `SharesExact` | `>=` where `>` is meant: of two clusters with weight 1 the second is never picked |
| `RetryPartialUpdate` | `CachedRoutesHavePolicies` | a partial RDS response deletes the policies of the routes it leaves out |

### Other observations

The specifications contain these behaviours as the code has them; no run is
about them.

- A notified `Get` drops the second result of `getFromCache` (`manager.go:177`)
  and may return nil without an error when a complete response has removed the
  resource in between; `xds.go:41` says that it returns an error.
- Requests on a new stream carry the last version (`client.go:396`), which the
  comment at `client.go:230` says they do not. `AckedIsApplied` says which version
  that is: the one last applied.
- A listener response without `virtualInbound` makes its entry in the cache a nil
  listener (`client.go:486`) and ends the warmup all the same. `InboundReady` says that
  the entry is what the response had, so nil only then.
- `rds.go:217` reads the base interval of the backoff from the maximum, so the
  backoff is always fixed; `retry_test.go:143` has a random one for a base below the
  maximum. `PolicyOfRoute` asks for the longest pause only, the same either way.
- `MaxDurationMS` (`retry.go:67`) is a product that wraps for long timeouts.
  `PolicyOfRoute` leaves such timeouts out.
- The sum of the weights (`router.go:238`) wraps at 2^32, after which the first
  clusters take every call; a sum that does not fit an `int32` makes `Int31n`
  panic. `SharesClose` is about sums that fit, `FailsForAReason` names the panic.
- A cluster that leaves the cache between the notification of a `Get` and its read makes
  `Resolve` panic (`resolver.go:78`): a response withdraws it, or the cleaner drops it by
  an old entry in `meta`, left by an earlier withdrawal, though it has just arrived.
  `PanicsOnlyIfRemoved` says that nothing else makes it panic, and that reading endpoints
  never does.
- The comment at `client.go:419` says that `tryExpandFQDN` is invoked twice always;
  a host of three labels is looked up once. `client.go:421` says that
  `<serviceName>.<namespace>` is not supported; `tryExpandFQDN` expands it.
- Of a service in a namespace called `svc` the host `<service>.svc.svc` contains
  `.svc.`, so `tryExpandFQDN` (`bootstrap.go:139`) takes it for complete and adds no
  domain; `AliasesAgree` leaves that namespace out.
- The limit is `tokens_per_fill` (`limiter.go:58`); the project's README gives
  `max_tokens` as the limit (`README.md:263`). `NoStaleLimit` takes either.
- An update between the two statements of `UpdateControl` (`limiter.go:118`)
  changes the option and not the running server, which keeps its old limit until the
  next update. `LimitInForce` and `NoStaleLimit` hold in every other order.

### Bounds

Two callers are enough for one to time out, return and call again while the other
waits; a third caller plays one of these two parts. Two keys separate the
types with complete and with partial responses, or the inbound listener from
what the cleaner may evict. A notifier is held by a caller or registered by one,
so two identities suffice for two callers. Callers, notifiers and values are
symmetric in `ManagerSafety`, where no liveness is checked. Three streams in
`XdsClientSafety` let the receiver reconnect twice while the sender still uses the
first, so that `streamCh` is full when the third comes; for any number of them there
are the proofs. Calls of `Watch` beside the warmup, and up to two responses per stream
and `MaxPushes` in all, let a request or an answer be queued, lost, sent on the old
stream or resent. Versions have one value there beside none: with two, TLC does not
finish in a few minutes; the theorem `AcksApplied` is for any number. `ReqChCap` is 2 in
`XdsClientSafety` and 1 in `System`, so that the queue fills in both.

`System` has one caller that calls `Get` twice (`MaxWatch`), two responses and two
streams: with both locks, the queue, the stream, the cleaner and the warmup this is
what TLC finishes for liveness. Two callers that share a notifier are in
`ManagerSafety`.

In `Clusters` and `Listeners` the responses come from a small set of messages, one
for each way through the code that unmarshals them, and any number of responses
arrives. Two clusters are the one to resolve and one beside it; the first has
endpoints inline, under its own name or under another, and is the one in `Idle`. The
hosts of `Listeners` are one service under its short and qualified names, in either case
and with or without a port, and a host outside the mesh; `MaxWatched` names are watched
or have an entry in `meta` at a time, each being resolved on its own.

`WordBits` is 4: the sums 9 (not an `int32`), 0 and 5 occur in `Router`, and a
product that wraps in `RetryPolicy`. Deadlock is not checked for `XdsClient` and
`System` (the bounds end them, and a stopped client stops) and `Router` (a call
ends).

### Fairness

`System` assumes that a goroutine (caller, cleaner, sender, receiver) that may go on
again and again does: strong fairness of its steps, since it waits for locks that
others take in between, and Go's mutexes hand over the lock after 1ms of waiting.
The timer of a `Get` fires, `select` does not ignore a ready `streamCh` for
ever, and a reconnection succeeds in the end (`connect` retries with backoff and the
receiver retries `connect`). The warmup is weakly fair. Nothing is assumed of new
calls, pushes, failures, the cleaner's ticks or the expiry of entries: the server
need not send anything. `XdsClientFullQueue` assumes the same of the sender, the
receiver and `Watch`.

## Proofs

`tlapm` checks these theorems for every value of the constants that satisfies the
named assumptions of the module: any number of callers, streams, names and messages,
any widths and sizes.

| theorem | states | by |
|---|---|---|
| `ResourceManagerProofs!TypeCorrect` | `[]TypeOK` | inductive as it stands |
| `ResourceManagerProofs!NotifiersSafe` | `NotifierOpen`, `NotifierHasWaiter` | `NotifierInv`: in addition a caller that holds the notifier registered for a key is in a `Get` for that key, so none is registered twice |
| `ResourceManagerProofs!WaitersServed` | `Prompt => WaiterWatched /\ NotifiedFinds` | `LockInv` (callers in `Watch` hold `mu`; a sweep has the lock and only stale, unreserved keys; under `Prompt` the entry of a `Get` is not stale) and `WaiterInv` |
| `ResourceManagerProofs!CacheConsistent` | `CacheHasMeta`, `HandlerCoversCache` | `CacheInv`: in addition the pending update has entries of its own type only |
| `ResourceManagerProofs!ReservedSafe` | `ReservedStaysWatched` of `ResourceManager` | `LockInv` |
| `ResourceManagerProofs!EvictionsAllowed` | `OnlyAllowedEvictions` | `LockInv`, `CacheInv` |
| `ResourceManagerProofs!StoreImplemented` | `Prompt => Store!Init /\ StoreSteps` | one lemma per action: the step of the store it is, or that it is none. `Evict` needs `LockInv`, `Reply` needs `NotifiedFinds`, `Deliver` needs `CacheInv` |
| `XdsClientProofs!TypeCorrect` | `[]TypeOK` | `TypeInv`: in addition `Locals`, what a goroutine carries at each program counter |
| `XdsClientProofs!StreamsOrdered` | `StreamsInOrder` | `StreamInv`: older streams are broken, and until a stream is published the sender has an older one |
| `XdsClientProofs!NoncesOfStream` | `NonceOfStream` | `NonceInv`: except between `Reconnect` and `ResetMaps`, what is queued, prepared or in `nonceMap` was issued on the receiver's stream |
| `XdsClientProofs!AcksApplied` | `AckedIsApplied` | `AckInv`: `versionMap` differs from what is applied only by the response between `updateAndACK` and `Apply` |
| `XdsClientProofs!NameTableFirst` | `ListenerAfterNameTable` | `WarmupInv`: until the name table is applied, neither the watch list nor any request prepared, queued or sent is about listeners, or nothing is sent any more |
| `XdsClientProofs!SubscriptionsCurrent` | `SubscriptionCurrent` | `SubInv`: the last request of a type is in the hands of the holder of `c.mu`, else in the queue, else at the server, and lists the watched names there, unless the sender is about to resend the type |
| `XdsClientProofs!AnswersAdvance` | `NoncesAdvance` | `AdvanceInv`: on a stream the sender has not begun to use, nothing is sent or issued; while it resends, all nonces are empty and what is yet to resend is not at the server; responses come in the order they were issued, after all that are answered; the requests of a type are ordered from the server through the queue to `nonceMap` |
| `SystemProofs!WaitersSubscribed` | `WaiterSubscribed`, with the default times | `SystemInv`: the inductive invariants of both components over the variables of `System`, and that the type of a watched name has an entry in the client's map |
| `SystemProofs!InboundStaysWatched` | `ReservedStaysWatched` of `System`, if listeners are a type | `SystemInv`: the cleaner's sweep never has the reserved key |
| `SystemProofs!InboundStaysReady` | `InboundReady`, unless the client stops | `InboundInv`: from `listenerWarmup` on the inbound listener is watched, so every handler of a listener response passes on what the response has for it, nil included, and after the first that is what the cache has, except while the next is applied |
| `SystemProofs!SystemImplementsStore` | `ResourceStore`'s `Init` and steps, with the default times | `SystemInv`; a step of the client alone is no step of the store, any other is one of the manager's |
| `ClustersProofs!TypeCorrect` | `[]TypeOK` of `CircuitBreaker` | inductive as it stands |
| `ClustersProofs!BreakersFollow` | `BreakerFollows` | one invariant for each program counter of the handler: every breaker that is on belongs to `lastPolicies` or to the part of the update already applied |
| `ClustersProofs!BreakersSteady` | `NoFlicker` | the same invariant |
| `ClustersProofs!ServedBreakersFollow` | `BreakerFollows`, `NoFlicker` in `Clusters` | the theorems about `CircuitBreaker`, carried over by the lemma `BreakerImplemented` (a behaviour of `Clusters` is one of `CircuitBreaker`), which needs `TypedInv`: the settings in the response at hand and in the cache have the suite's types, and the handler runs only for a cluster response |
| `ClustersProofs!PoliciesFirst` | `PolicyBeforeTraffic` | `CacheInv` (what is cached, or about to be, is made of the last message with its name) and `PolicyInv` (the handler works under the lock on what comes next; with the lock free it has seen all that is cached) |
| `ClustersProofs!ResolvePanics` | `PanicsOnlyIfRemoved` | `ResolveInv`: a notified `Get` finds its cluster unless that is removed, and always its endpoints, since only the cleaner removes those and it spares what is waited for |
| `ClustersProofs!ResolvedInstances` | `ResolvedCoherent` | `CacheInv`, and `HeldInv`: a call that goes on to the endpoints has read a cluster without inline ones and holds the EDS name of its message |
| `ListenersProofs!LimitFollows` | `LimitInForce` | from the first statement of `UpdateControl` on the limit is the option, unless an update is being handled or fell between the two statements; the updater is known from the second on |
| `ListenersProofs!WholeResponses` | `AllOrNothing` | `ResponseInv`: the response on its way and the last one applied are what the filter leaves of a raw response without errors, resolved with the table of that moment; the cache is of the last one, except while it is applied; the option is the last one's |
| `ListenersProofs!LimitOfResponse` | `NoStaleLimit` | `LimitInForce`, `ResponseInv`, and what `unmarshalListener` and `getLimiterPolicy` make of any message |
| `ListenersProofs!OwnListeners` | `NoForeignListener` | `ResponseInv`, which hosts `resolveAddr` looks up, and what `UnmarshalLDS` has for the listener found |
| `ListenersProofs!AliasesResolveAlike` | `AliasesAgree` | `ResponseInv`, and that `tryExpandFQDN` completes each alias to the same host |
| `RouterProofs!RouteOfOneMoment` | `RouteCoherent` | `RouterInv`: each listener heard of is recorded with the route configs in force since; what the call carries from one read to the next comes from such a pair |
| `RouterProofs!KeyFollowsCluster` | `KeyOfCluster` | `RouterInv` |
| `RouterProofs!FailuresExplained` | `FailsForAReason` | `RouterInv`; and for any weights with a usable sum the loop of `pickCluster` picks a cluster before it ends |
| `RouterProofs!FairShares` | `SharesClose` | the targets that pick cluster `i` are an interval between two partial sums of the weights, which do not wrap if the sum fits |
| `RetryPolicyProofs!PoliciesFollowUpdates` | `PoliciesFollow` | `HandlerInv`: policies are added to those of the last update, which stay until all new ones are there; then those the update does not name are deleted, and the update itself becomes part of the cache |
| `RetryPolicyProofs!PoliciesWithoutGap` | `NoGap` | the same invariant |
| `RetryPolicyProofs!PoliciesOfRoutes` | `PolicyOfRoute` | `HandlerInv` and `PolicyInv`: a key of a route config that the loop has visited has the policy of the last call for it in some such config, unless another call for it is to come. Then, for any message: the calls are those of its routes in order, a call is made for exactly the keys a route names, and its policy agrees with the route |

Why each property needs an invariant of its own: none of them is inductive, because
a goroutine in the middle of an operation carries what the property is about in its
local variables. The invariants say what these are at each program counter.

What the code computes of messages is proved along the definitions: the lemmas of
`XdsResourceProofs` say what the loops over slices return (the range of a flattened
slice, where its last element of a kind comes from, that two slices flattened alike
stay aligned), by induction over the index (`InductionTo`), and the lemmas before
each theorem say what the `Unmarshal*` functions and the handler make of any message.

Assumptions, all evaluated by TLC for its instances:

- the types of the constants, and that `None` and other markers are none of the
  values they mark the absence of (`ConstantsAssumption`, `NoneAssumption`,
  `DistinctAssumption`, `HoldersAssumption`, `TargetAssumption`, `SystemAssumption`);
- the shape of messages and names: slices where the protocol has repeated fields,
  numbers where it has numbers, and results that are not `None`
  (`ResponsesAssumption`, `ListenersAssumption`, `NamesAssumption`,
  `RoutesAssumption`, `MessagesAssumption`). `ResponsesAssumption` also gives the outlier
  detection of an unmarshalled cluster the types the suite expects;
- `WordAssumption`, and `ConstantsAssumption` of `RetryPolicy`: the provers know
  nothing of exponentiation, so that `2^WordBits` is positive and twice
  `2^(WordBits - 1)` is stated.

Hypotheses of single theorems: `Prompt`, `FetchXDSTimeout < CacheExpireTime` (1s or
so against 30s by default), without which the statements are false: an entry could
expire under a `Get` that waits for it. `~MayStop` for `InboundStaysReady`: a client
that never connects or is closed gives up the warmup. `"Listener" \in Type` for
`InboundStaysWatched`, which is about listeners.

Only model-checked: the liveness properties `GetReturns` and `SubscriptionsArrive`
(up to `QueueCircle`), and so the counterexample to `WatchEnds`: fairness is beyond the prover. Every
invariant and every action property that a passing run checks is proved.

## Not modelled

- `Dump` (writes a file), `auth` (I/O), options and the singleton (set once), the
  generated service, the mock server.
- The node id and metadata that `newBootstrapConfig` builds, which only the
  server reads, and the check of the pod's address in it.
- `MarshalJSON` (output).
- Weights and addresses of endpoints are one value each; a locality is a sequence.
- A panic inside a handler: none of the code modelled panics on a message it can
  decode. A panic would end the receiver (`client.go:252`).
- The first connect failing for good (`client.go:331`); the warmup waiting for ever
  for a server that does not answer (`client.go:311`): the client has no timeout
  there, so there is nothing to check but that it waits.
- `Get` with an unknown resource type, which returns an error at once.
- The deadline of the caller's own context: a timeout may happen at any time.
- How long a `Get` waits for `m.mu`: `Expire` takes a `Get` to last no longer than
  its fetch timeout.
- `System` with two callers or with responses that do not unmarshal: `ManagerSafety`
  and `XdsClientSafety` have them, each in the module of its own.
