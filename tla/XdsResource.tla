----------------------------- MODULE XdsResource -----------------------------
(***************************************************************************)
(* core/xdsresource: what the Unmarshal functions make of the resources of *)
(* a response.  No state; the modules of the handlers use it.              *)
(*                                                                         *)
(* A raw resource is [url, msg]: its type URL and its protobuf message,    *)
(* None if proto.Unmarshal fails on it.  An Unmarshal function returns     *)
(* [ret, err]: a map from names to resources, and whether there is an      *)
(* error, which the handlers answer with a NACK and drop ret.              *)
(***************************************************************************)
EXTENDS Seqs

CONSTANTS
    Nil,  \* a nil pointer boxed in a Resource
    None  \* an absent message, field or resource

-----------------------------------------------------------------------------
(* Results and errors *)

Good(x) == [err |-> FALSE, res |-> x]

Bad == [err |-> TRUE, res |-> None]

AnyErr(rs) == \E i \in DOMAIN rs : rs[i].err

\* The results without an error, in order.
Results(rs) ==
    Select([i \in DOMAIN rs |-> rs[i].res], {i \in DOMAIN rs : ~rs[i].err})

\* One error spoils all.
AllGood(rs) == IF AnyErr(rs) THEN Bad ELSE Good(Results(rs))

\* What became of one raw resource; res is None if ret does not get it.
Entry(n, r) == [name |-> n, err |-> r.err, res |-> r.res]

\* The loop of an Unmarshal function: of two resources with a name the last
\* counts, and processUnmarshalErrors makes one error of all.
Unmarshalled_Lenient(es) ==
    LET kept == {i \in DOMAIN es : es[i].res # None}
    IN  [ret |-> [n \in {es[i].name : i \in kept} |->
                     es[LastOf({i \in kept : es[i].name = n})].res],
         err |-> kept = {}]

Unmarshalled(es) ==
    LET kept == {i \in DOMAIN es : es[i].res # None}
    IN  [ret |-> [n \in {es[i].name : i \in kept} |->
                     es[LastOf({i \in kept : es[i].name = n})].res],
         err |-> AnyErr(es)]

\* The type URL is the one expected and proto.Unmarshal succeeds.
Decodes(r, url) == r.url = url /\ r.msg # None

-----------------------------------------------------------------------------
(* Clusters and endpoints *)

\* An assignment is a sequence of localities, each a sequence of endpoints.
parseClusterLoadAssignment(cla) == IF cla \in {None, <<>>} THEN None ELSE cla

convertDiscoveryType(t) == IF t \in {"EDS", "LOGICAL_DNS", "STATIC"} THEN t ELSE "EDS"

convertLbPolicy(lb) == IF lb = "RING_HASH" THEN lb ELSE "ROUND_ROBIN"

\* Cluster message: [name, type, lbPolicy, serviceName, outlierDetection,
\* loadAssignment], serviceName "" without an EDS config.
unmarshalCluster_OwnName(r) ==
    IF ~Decodes(r, "Cluster") THEN Entry("", Bad)
    ELSE Entry(r.msg.name,
        Good([DiscoveryType    |-> convertDiscoveryType(r.msg.type),
              LbPolicy         |-> convertLbPolicy(r.msg.lbPolicy),
              EndpointName     |-> r.msg.name,
              InlineEndpoints  |-> parseClusterLoadAssignment(r.msg.loadAssignment),
              OutlierDetection |-> r.msg.outlierDetection]))

unmarshalCluster(r) ==
    IF ~Decodes(r, "Cluster") THEN Entry("", Bad)
    ELSE Entry(r.msg.name,
        Good([DiscoveryType    |-> convertDiscoveryType(r.msg.type),
              LbPolicy         |-> convertLbPolicy(r.msg.lbPolicy),
              EndpointName     |-> IF r.msg.serviceName # "" THEN r.msg.serviceName
                                   ELSE r.msg.name,
              InlineEndpoints  |-> parseClusterLoadAssignment(r.msg.loadAssignment),
              OutlierDetection |-> r.msg.outlierDetection]))

UnmarshalCDS(raw) == Unmarshalled([i \in DOMAIN raw |-> unmarshalCluster(raw[i])])

\* An assignment without localities becomes a nil *EndpointsResource.
UnmarshalEDS(raw) ==
    LET Endpoints(cla) == IF parseClusterLoadAssignment(cla) = None THEN Nil
                          ELSE parseClusterLoadAssignment(cla)
    IN  Unmarshalled([i \in DOMAIN raw |->
            IF ~Decodes(raw[i], "ClusterLoadAssignment") THEN Entry("", Bad)
            ELSE Entry(raw[i].msg.name, Good(Endpoints(raw[i].msg.endpoints)))])

\* Only the first resource counts.  A name table maps hosts to lists of IPs.
UnmarshalNDS(raw) ==
    IF raw = <<>> THEN Bad
    ELSE IF ~Decodes(raw[1], "NameTable") THEN Bad ELSE Good(raw[1].msg)

-----------------------------------------------------------------------------
(* Routes *)

\* A header matcher is [name, kind, accepts]: the values it accepts, and kind
\* "exact", "prefix", "regex", or one that is ignored: an empty pattern, a
\* regular expression that does not compile, another sort of match.
BuildMatchers(headers) ==
    LET kept == {i \in DOMAIN headers : headers[i].kind \in {"exact", "prefix", "regex"}}
    IN  [n \in {headers[i].name : i \in kept} |->
            headers[LastOf({i \in kept : headers[i].name = n})].accepts]

\* spec is [kind, cluster] or [kind, clusters], or of another kind.
WeightedClusters(spec) ==
    CASE spec.kind = "cluster"  -> <<[name |-> spec.cluster, weight |-> 1]>>
      [] spec.kind = "weighted" -> spec.clusters
      [] OTHER                  -> <<>>

\* The zero value of RetryPolicy.
NoRetryPolicy ==
    [NumRetries |-> 0, PerTryTimeout |-> 0, CBErrorRate |-> 0, Methods |-> <<>>,
     RetryBackOff |-> None]

\* What the last retriable header of that name with a usable value says.  A
\* value is a sequence: empty if the header does not match one exact string, or,
\* for the error rate, if ParseFloat fails on it.
RetriableHeader(headers, name) ==
    LET i == LastOf({j \in DOMAIN headers : headers[j].name = name /\ headers[j].value # <<>>})
    IN  IF i = 0 THEN <<>> ELSE headers[i].value

\* The retry policy part of unmarshalRoutes; BaseInterval is read off the
\* message's MaxInterval.
unmarshalRetryPolicy(rp) ==
    IF rp = None THEN NoRetryPolicy
    ELSE LET rate == RetriableHeader(rp.headers, "kitexRetryErrorRate")
         IN  [NumRetries    |-> rp.numRetries,
              PerTryTimeout |-> rp.perTryTimeout,
              CBErrorRate   |-> IF rate = <<>> THEN 0 ELSE rate[1],
              Methods       |-> RetriableHeader(rp.headers, "kitexRetryMethods"),
              RetryBackOff  |-> IF rp.backOff = None THEN None
                                ELSE [BaseInterval |-> rp.backOff.MaxInterval,
                                      MaxInterval  |-> rp.backOff.MaxInterval]]

\* One route; an action of another kind than "route" leaves the zero values.
unmarshalRoute(r) ==
    IF r.match = None \/ r.action = None THEN Bad
    ELSE LET routed == r.action.kind = "route"
         IN  Good([match    |-> [path |-> r.match.path, prefix |-> r.match.prefix,
                                 headers |-> BuildMatchers(r.match.headers)],
                   clusters |-> IF routed THEN WeightedClusters(r.action.spec) ELSE <<>>,
                   timeout  |-> IF routed THEN r.action.timeout ELSE 0,
                   retry    |-> IF routed THEN unmarshalRetryPolicy(r.action.retry)
                                ELSE NoRetryPolicy])

unmarshalRoutes(rs) == AllGood([i \in DOMAIN rs |-> unmarshalRoute(rs[i])])

RouteConfigResource(http, thrift, rate) ==
    [http |-> http, thrift |-> thrift,
     MaxTokens |-> rate.MaxTokens, TokensPerFill |-> rate.TokensPerFill]

NoRate == [MaxTokens |-> 0, TokensPerFill |-> 0]

\* Virtual hosts are sequences of routes; one bad route spoils the config.
unmarshalRouteConfig(hosts, rate) ==
    LET http == AllGood([i \in DOMAIN hosts |-> unmarshalRoutes(hosts[i])])
    IN  IF http.err THEN Bad ELSE Good(RouteConfigResource(http.res, None, rate))

UnmarshalRDS(raw) ==
    Unmarshalled([i \in DOMAIN raw |->
        IF ~Decodes(raw[i], "RouteConfig") THEN Entry("", Bad)
        ELSE Entry(raw[i].msg.name, unmarshalRouteConfig(raw[i].msg.hosts, NoRate))])

-----------------------------------------------------------------------------
(* Listeners *)

\* A thrift route with its match and action, or nil ones.
unmarshalThriftRoute(r) ==
    IF r.match = None \/ r.action = None THEN Bad
    ELSE Good([match    |-> [method |-> r.match.method,
                             headers |-> BuildMatchers(r.match.headers)],
               clusters |-> WeightedClusters(r.action),
               timeout  |-> 0,
               retry    |-> NoRetryPolicy])

unmarshalThriftProxy(msg) ==
    IF msg = None THEN Bad
    ELSE LET thrift == AllGood([i \in DOMAIN msg |-> unmarshalThriftRoute(msg[i])])
         IN  IF thrift.err THEN Bad ELSE Good(RouteConfigResource(None, thrift.res, NoRate))

\* An HTTP filter is [kind, ...]: "bucket", a token bucket in either encoding;
\* "skip", a nil typed config, or a typed struct without a complete bucket;
\* "garbage", a config that does not decode; "other", no typed config, a rate limit
\* without a bucket, or another filter.  The first that is not skipped decides.
getLocalRateLimit(filters) ==
    LET i == FirstOf({j \in DOMAIN filters : filters[j].kind # "skip"})
        f == filters[i]
    IN  IF i = 0 THEN Good(NoRate)
        ELSE IF f.kind = "garbage" THEN Bad
        ELSE IF f.kind = "other" THEN Good(NoRate)
        ELSE Good([MaxTokens |-> f.MaxTokens, TokensPerFill |-> f.TokensPerFill])

\* Message: [filters, spec, name, hosts]; spec "rds", "inline" or another.
\* Returns the name and the inline route config.
unmarshallHTTPConnectionManager(msg) ==
    IF msg = None THEN Bad
    ELSE LET rate == getLocalRateLimit(msg.filters)
             Named(n, r) == IF r.err THEN Bad ELSE Good([name |-> n, inline |-> r.res])
         IN  IF rate.err THEN Bad
             ELSE CASE msg.spec = "rds" ->
                         IF msg.name = "" THEN Bad
                         ELSE Named(msg.name, Good(RouteConfigResource(None, None, rate.res)))
                    [] msg.spec = "inline" ->
                         IF msg.hosts = None THEN Bad
                         ELSE Named(msg.name, unmarshalRouteConfig(msg.hosts, rate.res))
                    [] OTHER -> Named("", Good(None))

\* A network filter [type, msg]; a thrift filter gets no port.
unmarshalFilter(f, port) ==
    LET r == IF f.type = "thrift" THEN unmarshalThriftProxy(f.msg)
             ELSE unmarshallHTTPConnectionManager(f.msg)
    IN  IF r.err THEN Bad
        ELSE IF f.type = "thrift"
        THEN Good([type |-> "thrift", name |-> "", port |-> 0, inline |-> r.res])
        ELSE Good([type |-> "http", name |-> r.res.name, port |-> port,
                   inline |-> r.res.inline])

\* A filter chain [port, filters]: the filters of a known type, one result each.
unmarshalFilterChain(fc) ==
    LET fs == Select(fc.filters, {i \in DOMAIN fc.filters : fc.filters[i].type \in {"thrift", "http"}})
    IN  [i \in DOMAIN fs |-> unmarshalFilter(fs[i], fc.port)]

\* Message: [name, chains, default].  A listener with a bad filter counts as an
\* error and stays in ret, with what is left of its filters: a chain with an
\* error is left out, of the default chain the good filters are kept.
unmarshalListener(msg) ==
    LET cs == [i \in DOMAIN msg.chains |-> unmarshalFilterChain(msg.chains[i])]
        dc == IF msg.default = None THEN <<>> ELSE unmarshalFilterChain(msg.default)
    IN  [err |-> AnyErr(dc) \/ \E i \in DOMAIN cs : AnyErr(cs[i]),
         res |-> Flatten([i \in DOMAIN cs |->
                             IF AnyErr(cs[i]) THEN <<>> ELSE Results(cs[i])])
                 \o Results(dc)]

UnmarshalLDS(raw) ==
    Unmarshalled([i \in DOMAIN raw |->
        IF ~Decodes(raw[i], "Listener") THEN Entry("", Bad)
        ELSE Entry(raw[i].msg.name, unmarshalListener(raw[i].msg))])
=============================================================================
