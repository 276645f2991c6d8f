------------------------------ MODULE MCListeners ------------------------------
(***************************************************************************)
(* Instances of Listeners for TLC: a service whose name has every form, an *)
(* external host, name tables that disagree, and listeners that limit the  *)
(* server's port, the default port or another one, or are broken.          *)
(***************************************************************************)
EXTENDS Listeners, TLC

\* Network filters, HTTP filters and chains
Bucket(n) == [kind |-> "bucket", MaxTokens |-> n + 1, TokensPerFill |-> n]

Kind(k) == [kind |-> k]

HTTP(filters, spec, name, hosts) ==
    [type |-> "http", msg |-> [filters |-> filters, spec |-> spec, name |-> name, hosts |-> hosts]]

RDS(filters) == HTTP(filters, "rds", "routes", None)

Thrift(routes) == [type |-> "thrift", msg |-> routes]

Unknown == [type |-> "tcp", msg |-> None]

Chain(p, fs) == [port |-> p, filters |-> fs]

ThriftRoute(match) ==
    [match |-> match, action |-> [kind |-> "cluster", cluster |-> "c"]]

AnyMethod == [method |-> "", headers |-> <<>>]

Lis(n, chains, default) ==
    [url |-> "Listener", msg |-> [name |-> n, chains |-> chains, default |-> default]]

Inbound(chains, default) == Lis(ReservedLdsResourceName, chains, default)

Out(ip, p) == Lis([ip |-> ip, port |-> p], <<Chain(0, <<HTTP(<<>>, "rds", ip, None)>>)>>, None)

Broken(filter) == <<Out("ip1", "80"), Inbound(<<Chain(80, <<filter>>)>>, None)>>

Short == [host |-> <<"Svc">>, ports |-> <<>>]
TwoParts == [host |-> <<"svc", "ns">>, ports |-> <<"8080">>]
Full == [host |-> <<"svc", "ns", "svc", "d">>, ports |-> <<"80">>]
ThreeParts == [host |-> <<"svc", "ns", "svc">>, ports |-> <<>>]
External == [host |-> <<"www", "ext", "com">>, ports |-> <<>>]

MCRName == {Short, TwoParts, Full, ThreeParts, External}

ListenerResponses ==
    {<<>>,
     <<Inbound(<<Chain(80, <<RDS(<<Bucket(10)>>)>>)>>, None), Out("ip1", "80"), Out("ip2", "8080")>>,
     <<Out("ip2", "80"), Out("ip1", "8080"),
       Inbound(<<Chain(81, <<RDS(<<Bucket(9)>>)>>)>>,
               Chain(0, <<RDS(<<Kind("skip"), Bucket(7)>>), Unknown>>))>>,
     <<Inbound(<<Chain(80, <<RDS(<<Bucket(10)>>)>>)>>, None),
       Inbound(<<Chain(80, <<HTTP(<<Kind("other"), Bucket(5)>>, "inline", "", <<>>)>>),
                 Chain(0, <<RDS(<<Bucket(6)>>), Thrift(<<ThriftRoute(AnyMethod)>>)>>)>>, None),
       Lis(Short, <<Chain(80, <<HTTP(<<>>, "scoped", "", None)>>)>>, None)>>,
     Broken(HTTP(<<>>, "rds", "", None)),
     Broken(HTTP(<<Kind("garbage"), Bucket(3)>>, "rds", "r", None)),
     Broken(HTTP(<<>>, "inline", "", None)),
     Broken(HTTP(<<>>, "inline", "", <<<<[match |-> None, action |-> None]>>>>)),
     Broken([type |-> "http", msg |-> None]),
     Broken(Thrift(<<ThriftRoute(AnyMethod), ThriftRoute(None)>>)),
     Broken(Thrift(None)),
     <<Out("ip1", "80"), [url |-> "Listener", msg |-> None]>>,
     <<[url |-> "Cluster", msg |-> None]>>}

NameTable(t) == <<[url |-> "NameTable", msg |-> t]>>

NameTableResponses ==
    {NameTable((<<"svc", "ns", "svc", "d">> :> <<"ip1", "ip2">>) @@ (<<"svc">> :> <<"ip2">>)
               @@ (<<"www", "ext", "com">> :> <<"ip2">>)),
     NameTable((<<"svc", "ns", "svc", "d">> :> <<>>) @@ (<<"svc">> :> <<"ip1">>)),
     NameTable(None),
     <<>>}

MCEnv ==
    [namespace : {"other"}, podName : {"pod", None}, podIP : {"ip"}, domain : {<<"d">>},
     metas : {"ns"}]

LowerCase == [l \in {"svc", "ns", "d", "www", "ext", "com"} |-> l] @@ ("Svc" :> "svc")

\* TLC computes these once, and what a cfg replaces a constant by at every use.
MCRawLDS == ListenerResponses
MCRawNDS == NameTableResponses
MCLower == LowerCase
=============================================================================
