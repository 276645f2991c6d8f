---------------------------- MODULE MCRetryPolicy ----------------------------
(***************************************************************************)
(* Instances of RetryPolicy for TLC: two route configs whose routes share  *)
(* a cluster, so that order matters, and differ in clusters, methods and   *)
(* settings; responses that hold one, both or none, or a broken one.       *)
(***************************************************************************)
EXTENDS RetryPolicy

Retry(n, t, b, hs) ==
    [numRetries |-> n, perTryTimeout |-> t, backOff |-> b, headers |-> hs]

BackOff(base, max) == [BaseInterval |-> base, MaxInterval |-> max]

Header(n, v) == [name |-> n, value |-> v]

Match == [path |-> "", prefix |-> "/", headers |-> <<>>]

Route(spec, retry) ==
    [match |-> Match, action |-> [kind |-> "route", spec |-> spec, timeout |-> 1, retry |-> retry]]

To(c) == [kind |-> "cluster", cluster |-> c]

Split == [kind |-> "weighted", clusters |-> <<[name |-> "c1", weight |-> 1], [name |-> "c2", weight |-> 3]>>]

Once  == Route(To("c1"), Retry(1, 2, None, <<>>))
Twice == Route(Split, Retry(2, 6, BackOff(1, 2),
                 <<Header("kitexRetryMethods", <<"n">>), Header("kitexRetryMethods", <<"m">>),
                   Header("kitexRetryErrorRate", <<30>>), Header("kitexRetryErrorRate", <<>>),
                   Header("kitexRetryMethods", <<>>)>>))
Wraps == Route(To("c2"), Retry(3, 6, BackOff(2, 2), <<>>))
Plain == Route(To("c2"), None)
Redirect == [match |-> Match, action |-> [kind |-> "redirect"]]

RC(n, hosts) == [url |-> "RouteConfig", msg |-> [name |-> n, hosts |-> hosts]]

MCRawRDS ==
    {<<>>,
     <<RC("r1", <<<<Once>>>>)>>,
     <<RC("r2", <<<<Wraps>>, <<Twice, Redirect>>>>), RC("other", <<<<Plain>>>>)>>,
     <<RC("r1", <<<<Twice, Once>>>>), RC("r2", <<<<Once>>, <<Plain>>>>)>>,
     <<RC("r2", <<<<Once>>>>), RC("r2", <<>>)>>,
     <<RC("r1", <<<<Twice>>>>), RC("r2", <<<<[Once EXCEPT !.match = None]>>>>)>>}
=============================================================================
