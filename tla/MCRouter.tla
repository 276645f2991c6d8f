------------------------------- MODULE MCRouter -------------------------------
(***************************************************************************)
(* Instances of Router for TLC: what UnmarshalLDS and UnmarshalRDS make of *)
(* routes that overlap, so that their order, the headers and the filter    *)
(* they come from decide, and of weights that are equal, zero, all zero,   *)
(* too large for the signed half of the word, and for the word.            *)
(***************************************************************************)
EXTENDS Router, TLC

WC(n, w) == [name |-> n, weight |-> w]

Canary == <<[name |-> "stage", kind |-> "exact", accepts |-> {"canary"}],
            [name |-> "zone", kind |-> "invalid", accepts |-> {}]>>

HTTPRoute(path, prefix, headers, clusters, timeout) ==
    [match  |-> [path |-> path, prefix |-> prefix, headers |-> headers],
     action |-> [kind |-> "route", spec |-> [kind |-> "weighted", clusters |-> clusters],
                 timeout |-> timeout, retry |-> None]]

ThriftRoute(method, headers, clusters) ==
    [match  |-> [method |-> method, headers |-> headers],
     action |-> [kind |-> "weighted", clusters |-> clusters]]

ByPath   == HTTPRoute("/s/get", "", <<>>, <<WC("a", 1), WC("b", 1)>>, 1)
ByHeader == HTTPRoute("", "/", Canary, <<WC("b", 2), WC("a", 0), WC("c", 3)>>, 2)
Default  == [HTTPRoute("", "/", <<>>, <<>>, 3) EXCEPT
                !.action.spec = [kind |-> "cluster", cluster |-> "c"]]
Prefixed == HTTPRoute("", "/s", <<>>, <<WC("a", 1)>>, 4)
NoWeight == HTTPRoute("/s/put", "", <<>>, <<WC("a", 0), WC("b", 0)>>, 5)
TooHeavy == HTTPRoute("/s/put", "", Canary, <<WC("a", 5), WC("b", 4)>>, 6)
Wrapping == HTTPRoute("/s/get", "", <<>>, <<WC("a", 10), WC("b", 9)>>, 6)
Nowhere  == [HTTPRoute("/s/put", "", <<>>, <<>>, 7) EXCEPT
                !.action = [kind |-> "redirect"]]

ThriftGet == ThriftRoute("get", <<>>, <<WC("a", 3), WC("c", 1)>>)
ThriftAny == ThriftRoute("", Canary, <<WC("b", 1)>>)

\* The route config that a response with these virtual hosts puts in the cache.
RouteConfig(hosts) ==
    UnmarshalRDS(<<[url |-> "RouteConfig", msg |-> [name |-> "r", hosts |-> hosts]]>>).ret["r"]

RouteConfigValues ==
    [r1 |-> {RouteConfig(<<<<Prefixed, ByPath, ByHeader>>, <<Default>>>>),
             RouteConfig(<<<<TooHeavy, NoWeight>>, <<Wrapping, Default>>>>),
             RouteConfig(<<<<ByHeader, Nowhere>>>>)},
     r2 |-> {RouteConfig(<<<<ByHeader>>, <<ByPath>>>>), RouteConfig(<<>>)}]

HTTPFilter(spec, name, hosts) ==
    [type |-> "http", msg |-> [filters |-> <<>>, spec |-> spec, name |-> name, hosts |-> hosts]]

ThriftFilter(routes) == [type |-> "thrift", msg |-> routes]

\* The listener that a response with these filters puts in the cache.
Listener(filters, default) ==
    UnmarshalLDS(<<[url |-> "Listener",
                    msg |-> [name |-> "l", chains |-> <<[port |-> 80, filters |-> filters]>>,
                             default |-> default]]>>).ret["l"]

ListenerValues ==
    {Listener(<<HTTPFilter("rds", "r1", None)>>, None),
     Listener(<<HTTPFilter("inline", "r2", <<<<ByPath>>>>), ThriftFilter(<<>>)>>, None),
     Listener(<<HTTPFilter("inline", "r1", <<<<Default>>>>),
                ThriftFilter(<<ThriftGet, ThriftAny>>)>>,
              [port |-> 0, filters |-> <<HTTPFilter("rds", "r2", None)>>]),
     Listener(<<ThriftFilter(<<ThriftAny>>)>>, None)}

\* TLC computes the value of a definition once, but not of one that a cfg gives
\* to a constant.
MCRouteConfigs == RouteConfigValues

MCListeners == ListenerValues

MCCalls ==
    {[grpc |-> FALSE, method |-> "get", path |-> "/s/get", md |-> <<>>],
     [grpc |-> FALSE, method |-> "put", path |-> "/s/put", md |-> ("stage" :> "canary")],
     [grpc |-> FALSE, method |-> "put", path |-> "/s/put", md |-> ("stage" :> "prod")],
     [grpc |-> TRUE, method |-> "get", path |-> "/s/get", md |-> ("stage" :> "canary")],
     [grpc |-> TRUE, method |-> "put", path |-> "/s/put", md |-> <<>>]}
=============================================================================
