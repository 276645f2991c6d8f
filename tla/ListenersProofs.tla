---------------------------- MODULE ListenersProofs ----------------------------
(***************************************************************************)
(* Proofs about Listeners, for any environment, responses, names and port: *)
(* the limit the server applies is the one the last update asked for, and  *)
(* one that the messages have; a response is applied whole or not at all;  *)
(* a name gets the listener of its service, in whatever form it is given.  *)
(***************************************************************************)
EXTENDS Listeners, XdsResourceProofs

\* The server's Updater is known from its last step on, and from the first step
\* on the limit is current unless an update fell between the two or is not done.
IInv ==
    /\ updater \in BOOLEAN /\ handling \in BOOLEAN /\ missed \in BOOLEAN
    /\ updater <=> control = "done"
    /\ control \in {"init", "storing", "done"}
    /\ control # "init" /\ ~handling /\ ~missed => limit = opt

\* The first state satisfies the invariant.
LEMMA InitInv == ListenerInit => IInv
BY Zenon DEF ListenerInit, Init, IInv

\* The handler's first step keeps it, whatever the update.
LEMMA HandlerInv ==
    ASSUME NEW u, IInv, listenerUpdater(u)
    PROVE  IInv'
BY Zenon DEF IInv, listenerUpdater

\* So do the limiter's other steps, and those that are not the limiter's.
LEMMA LimiterInv ==
    ASSUME IInv, updateHandler \/ UpdateControl \/ StoreUpdater \/ UNCHANGED vars
    PROVE  IInv'
<1>1. CASE updateHandler
  <2>1. CASE updater
    BY Zenon, <1>1, <2>1 DEF IInv, updateHandler
  <2>2. CASE ~updater /\ control = "storing"
    BY Zenon, <1>1, <2>2 DEF IInv, updateHandler
  <2>3. CASE ~updater /\ control # "storing"
    <3>1. control' = "init" /\ ~updater' /\ UNCHANGED <<updater, control>>
      BY Zenon, <1>1, <2>3 DEF IInv, updateHandler
    <3> QED
      BY Zenon, <1>1, <2>3, <3>1 DEF IInv, updateHandler
  <2> QED
    BY Zenon, <2>1, <2>2, <2>3
<1>2. CASE UpdateControl
  BY Zenon, <1>2 DEF IInv, UpdateControl
<1>3. CASE StoreUpdater
  BY Zenon, <1>3 DEF IInv, StoreUpdater
<1>4. CASE UNCHANGED vars
  BY Zenon, <1>4 DEF IInv, vars
<1> QED
  BY Zenon, <1>1, <1>2, <1>3, <1>4

\* Every step takes one step of the limiter or leaves it alone.
LEMMA StepInv == IInv /\ [ListenerNext]_listenerVars => IInv'
<1> SUFFICES ASSUME IInv, [ListenerNext]_listenerVars PROVE IInv'
  BY Zenon
<1>1. ASSUME NEW n \in RName, Watch(n) \/ Clean(n) PROVE IInv'
  BY Zenon, <1>1, LimiterInv DEF Watch, Clean
<1>2. ASSUME NEW raw \in RawNDS, handleNDS(raw) PROVE IInv'
  BY Zenon, <1>2, LimiterInv DEF handleNDS
<1>3. ASSUME NEW raw \in RawLDS, handleLDS(raw) PROVE IInv'
  BY Zenon, <1>3, LimiterInv DEF handleLDS
<1>4. CASE UpdateCache
  BY Zenon, <1>4, LimiterInv DEF UpdateCache
<1>5. CASE UpdateHandlers
  BY Zenon, <1>5, HandlerInv DEF UpdateHandlers
<1>6. CASE UpdateResource
  BY Zenon, <1>6, LimiterInv DEF UpdateResource
<1>7. CASE NewLimiter
  BY Zenon, <1>7, HandlerInv, LimiterInv DEF NewLimiter
<1>8. CASE Registered
  BY Zenon, <1>8, LimiterInv DEF Registered
<1>9. CASE StartServer
  BY Zenon, <1>9, LimiterInv DEF StartServer
<1>10. CASE UNCHANGED listenerVars
  BY Zenon, <1>10, LimiterInv DEF listenerVars
<1> QED
  BY Zenon, <1>1, <1>2, <1>3, <1>4, <1>5, <1>6, <1>7, <1>8, <1>9, <1>10 DEF ListenerNext

\* UpdateControl and updateHandler together leave the server with the limit of
\* the last update, whenever the limiter is registered, the server starts and
\* responses arrive, except in the window the invariant names.
THEOREM LimitFollows == ListenerSpec => []LimitInForce
<1>1. IInv => LimitInForce
  BY Zenon DEF IInv, LimitInForce
<1> QED
  BY <1>1, InitInv, StepInv, PTL DEF ListenerSpec

-----------------------------------------------------------------------------
(* What unmarshalListener makes of a message *)

\* The chains are those in the list and the default one.
LEMMA ChainsRange ==
    ASSUME NEW msg, IsSlice(msg.chains)
    PROVE  \A c : c \in Range(Chains(msg)) <=>
                  c \in Range(msg.chains) \/ (msg.default # None /\ c = msg.default)
<1>1. PICK s : s = msg.chains /\ IsSlice(s)
    BY Zenon
<1>2. PICK t : t = IF msg.default = None THEN <<>> ELSE <<msg.default>>
    BY Zenon
<1>3. Chains(msg) = s \o t
    BY Zenon, <1>1, <1>2 DEF Chains
<1>4. PICK S : S = Range(s) \cup {msg.default}
    BY Zenon
<1>5. s \in Seq(S) /\ t \in Seq(S)
  <2>1. Len(s) \in Nat /\ s = [i \in 1 .. Len(s) |-> s[i]] /\ DOMAIN s = 1 .. Len(s)
      BY Zenon, <1>1, SliceDomain
  <2>2. \A i \in 1 .. Len(s) : s[i] \in S
      BY Zenon, <1>4, <2>1 DEF Range
  <2>3. s \in Seq(S)
      BY Zenon, <2>1, <2>2, SliceOf
  <2>4. msg.default \in S
      BY Zenon, <1>4
  <2>5. <<msg.default>> \in Seq(S) /\ << >> \in Seq(S)
      BY <2>4
  <2> QED
      BY Zenon, <1>2, <2>3, <2>5
<1>6. Range(s \o t) = Range(s) \cup Range(t)
    BY ZenonT(60), <1>5, ConcatRange
<1>7. \A c : c \in Range(t) <=> msg.default # None /\ c = msg.default
    BY <1>2 DEF Range
<1> QED
    BY Zenon, <1>1, <1>3, <1>6, <1>7

\* One bad filter makes an error of the listener.
LEMMA ListenerErr ==
    ASSUME NEW msg, IsSlice(msg.chains), \A c \in Range(Chains(msg)) : IsSlice(c.filters),
           ~unmarshalListener(msg).err,
           NEW c \in Range(Chains(msg)), NEW f \in Range(c.filters), f.type \in {"thrift", "http"}
    PROVE  ~unmarshalFilter(f, c.port).err
<1>1. ~AnyErr(unmarshalFilterChain(c))
  <2>1. CASE c \in Range(msg.chains)
      BY Zenon, <2>1 DEF unmarshalListener, Range
  <2>2. CASE msg.default # None /\ c = msg.default
      BY Zenon, <2>2 DEF unmarshalListener
  <2> QED
      BY Zenon, <2>1, <2>2, ChainsRange
<1>2. PICK x : x = unmarshalFilter(f, c.port)
    BY Zenon
<1>3. IsSlice(c.filters)
    BY Zenon
<1>4. x \in Range(unmarshalFilterChain(c))
    BY Zenon, <1>2, <1>3, FilterChainRange
<1> QED
    BY Zenon, <1>1, <1>2, <1>4 DEF AnyErr, Range

\* A good listener has the results of all its filters and no others.
LEMMA ListenerFilters ==
    ASSUME NEW msg, IsSlice(msg.chains), \A c \in Range(Chains(msg)) : IsSlice(c.filters),
           ~unmarshalListener(msg).err
    PROVE  /\ IsSlice(unmarshalListener(msg).res)
           /\ \A x \in Range(unmarshalListener(msg).res) :
                 \E c \in Range(Chains(msg)) : \E f \in Range(c.filters) :
                    /\ f.type \in {"thrift", "http"}
                    /\ x = unmarshalFilter(f, c.port).res
<1> DEFINE Of(x, c) == \E f \in Range(c.filters) :
                          f.type \in {"thrift", "http"} /\ x = unmarshalFilter(f, c.port).res
<1>1. ASSUME NEW c \in Range(Chains(msg))
      PROVE  /\ IsSlice(Results(unmarshalFilterChain(c)))
             /\ \A x \in Range(Results(unmarshalFilterChain(c))) : Of(x, c)
  <2>1. IsSlice(c.filters)
      BY Zenon, <1>1
  <2>2. PICK rs : rs = unmarshalFilterChain(c)
      BY Zenon
  <2>3. IsSlice(rs) /\ \A x \in Range(rs) : \E f \in Range(c.filters) :
                          f.type \in {"thrift", "http"} /\ x = unmarshalFilter(f, c.port)
      BY Zenon, <2>1, <2>2, FilterChainRange
  <2>4. IsSlice(Results(rs)) /\ \A x \in Range(Results(rs)) : \E y \in Range(rs) : x = y.res
      BY <2>3, ResultsRange DEF Range
  <2>5. \A x \in Range(Results(rs)) : Of(x, c)
      BY <2>3, <2>4
  <2> QED
      BY Zenon, <2>2, <2>4, <2>5
<1>2. PICK S : S = {x \in UNION {Range(Results(unmarshalFilterChain(c))) : c \in Range(Chains(msg))} :
                       \E c \in Range(Chains(msg)) : Of(x, c)}
    BY Zenon
<1>3. ASSUME NEW c \in Range(Chains(msg)) PROVE Results(unmarshalFilterChain(c)) \in Seq(S)
  <2>1. PICK s : s = Results(unmarshalFilterChain(c))
      BY Zenon
  <2>2. Len(s) \in Nat /\ s = [i \in 1 .. Len(s) |-> s[i]] /\ DOMAIN s = 1 .. Len(s)
      BY Zenon, <1>1, <1>3, <2>1, SliceDomain
  <2>3. \A i \in 1 .. Len(s) : s[i] \in Range(s)
      BY Zenon, <2>2 DEF Range
  <2>4. \A x \in Range(s) : x \in S
      BY Zenon, <1>1, <1>2, <1>3, <2>1
  <2> QED
      BY Zenon, <2>1, <2>2, <2>3, <2>4, SliceOf
<1> HIDE DEF Of
<1>4. PICK cs : cs = [i \in DOMAIN msg.chains |-> unmarshalFilterChain(msg.chains[i])]
    BY Zenon
<1>5. PICK dc : dc = IF msg.default = None THEN <<>> ELSE unmarshalFilterChain(msg.default)
    BY Zenon
<1>6. PICK ss : ss = [i \in DOMAIN cs |-> IF AnyErr(cs[i]) THEN <<>> ELSE Results(cs[i])]
    BY Zenon
<1>7. unmarshalListener(msg).res = Flatten(ss) \o Results(dc)
    BY Zenon, <1>4, <1>5, <1>6 DEF unmarshalListener
<1>8. ss \in Seq(Seq(S))
  <2>1. PICK s : s = msg.chains /\ IsSlice(s)
      BY Zenon
  <2>2. Len(s) \in Nat /\ DOMAIN s = 1 .. Len(s)
      BY Zenon, <2>1, SliceDomain
  <2>3. ss = [i \in 1 .. Len(s) |-> ss[i]]
      BY Zenon, <1>4, <1>6, <2>1, <2>2
  <2>4. ASSUME NEW i \in 1 .. Len(s) PROVE ss[i] \in Seq(S)
    <3>1. s[i] \in Range(Chains(msg))
      <4>1. s[i] \in Range(msg.chains)
          BY Zenon, <2>1, <2>2 DEF Range
      <4> QED
          BY Zenon, <4>1, ChainsRange
    <3>2. ss[i] = <<>> \/ ss[i] = Results(unmarshalFilterChain(s[i]))
        BY Zenon, <1>4, <1>6, <2>1, <2>2
    <3>3. << >> \in Seq(S)
        OBVIOUS
    <3> QED
        BY Zenon, <1>3, <3>1, <3>2, <3>3
  <2> QED
      BY Zenon, <2>2, <2>3, <2>4, SliceOf
<1>9. Results(dc) \in Seq(S)
  <2>1. CASE msg.default = None
    <3>1. dc = << >> /\ IsSlice(dc) /\ DOMAIN dc = {}
        BY <1>5, <2>1 DEF IsSlice, Range
    <3>2. PICK s : s = Results(dc)
        BY Zenon
    <3>3. IsSlice(s) /\ \A x : x \notin Range(s)
        BY Zenon, <3>1, <3>2, ResultsRange
    <3>4. s \in Seq(S)
        BY <3>3 DEF IsSlice, Range
    <3> QED
        BY Zenon, <3>2, <3>4
  <2>2. CASE msg.default # None
      BY Zenon, <1>3, <1>5, <2>2, ChainsRange
  <2> QED
      BY Zenon, <2>1, <2>2
<1>10. Flatten(ss) \in Seq(S)
    BY Zenon, <1>8, FlattenRange
<1>11. unmarshalListener(msg).res \in Seq(S)
    BY <1>7, <1>9, <1>10
<1>12. Range(unmarshalListener(msg).res) \subseteq S /\ IsSlice(unmarshalListener(msg).res)
    BY <1>11 DEF IsSlice, Range
<1> QED
    BY Zenon, <1>2, <1>12 DEF Of

\* A rate limit that does not decode is an error, unless a filter before it decides.
LEMMA RateDecodes ==
    ASSUME NEW fs, IsSlice(fs), ~getLocalRateLimit(fs).err,
           NEW i \in DOMAIN fs, fs[i].kind = "garbage"
    PROVE  \E j \in 1 .. i - 1 : fs[j].kind # "skip"
<1>1. PICK I : I = {j \in DOMAIN fs : fs[j].kind # "skip"}
    BY Zenon
<1>2. Len(fs) \in Nat /\ DOMAIN fs = 1 .. Len(fs)
    BY Zenon, SliceDomain
<1>3. I \in SUBSET Nat /\ i \in I
    BY <1>1, <1>2
<1>4. PICK k : k = FirstOf(I) /\ k \in I /\ k <= i
    BY Zenon, <1>3, FirstOfIn
<1>5. k # 0
    BY <1>1, <1>2, <1>4
<1>6. fs[k].kind # "garbage"
    BY Zenon, <1>1, <1>4, <1>5 DEF getLocalRateLimit, Bad
<1>7. k \in 1 .. i - 1
    BY <1>1, <1>2, <1>4, <1>6
<1> QED
    BY Zenon, <1>1, <1>4, <1>7

\* Routes without an error all have a match and an action.
LEMMA RoutesComplete ==
    ASSUME NEW hosts, NEW rate, ~unmarshalRouteConfig(hosts, rate).err
    PROVE  \A rs \in Range(hosts) : \A rt \in Range(rs) : None \notin {rt.match, rt.action}
<1>1. Bad.err
    BY Zenon DEF Bad
<1>2. ASSUME NEW h \in DOMAIN hosts, NEW i \in DOMAIN hosts[h]
      PROVE  None \notin {hosts[h][i].match, hosts[h][i].action}
  <2>1. PICK us : us = [k \in DOMAIN hosts |-> unmarshalRoutes(hosts[k])]
      BY Zenon
  <2>2. ~AllGood(us).err
      BY Zenon, <1>1, <2>1 DEF unmarshalRouteConfig
  <2>3. ~us[h].err
      BY Zenon, <1>1, <2>1, <2>2 DEF AllGood, AnyErr
  <2>4. PICK vs : vs = [k \in DOMAIN hosts[h] |-> unmarshalRoute(hosts[h][k])]
      BY Zenon
  <2>5. ~AllGood(vs).err
      BY Zenon, <2>1, <2>3, <2>4 DEF unmarshalRoutes
  <2>6. ~vs[i].err
      BY Zenon, <1>1, <2>4, <2>5 DEF AllGood, AnyErr
  <2> QED
      BY Zenon, <1>1, <2>4, <2>6 DEF unmarshalRoute
<1> QED
    BY Zenon, <1>2 DEF Range

\* What a filter without an error lacks not.
LEMMA FilterComplete ==
    ASSUME NEW f, NEW p, ~unmarshalFilter(f, p).err,
           f.type = "http" /\ f.msg # None => IsSlice(f.msg.filters)
    PROVE  /\ f.type = "http" => HTTPComplete(f.msg)
           /\ f.type = "thrift" => ThriftComplete(f.msg)
<1>1. ASSUME f.type = "http" PROVE ~unmarshallHTTPConnectionManager(f.msg).err
    BY Zenon, <1>1 DEF unmarshalFilter, Bad
<1>2. Bad.err
    BY Zenon DEF Bad
<1>3. ASSUME f.type = "http"
      PROVE  HTTPComplete(f.msg)
  <2>1. PICK m : m = f.msg
      BY Zenon
  <2>2. /\ m # None /\ ~getLocalRateLimit(m.filters).err
        /\ m.spec = "rds" => m.name # ""
        /\ m.spec = "inline" => m.hosts # None
      BY Zenon, <1>1, <1>2, <1>3, <2>1 DEF unmarshallHTTPConnectionManager
  <2>3. ASSUME m.spec = "inline"
        PROVE  \A rs \in Range(m.hosts) : \A rt \in Range(rs) : None \notin {rt.match, rt.action}
    <3>1. PICK rate : rate = getLocalRateLimit(m.filters).res
        BY Zenon
    <3>2. "inline" # "rds"
        BY Zenon
    <3>3. ~unmarshalRouteConfig(m.hosts, rate).err
        BY Zenon, <1>1, <1>2, <1>3, <2>1, <2>2, <2>3, <3>1, <3>2 DEF unmarshallHTTPConnectionManager
    <3> QED
        BY Zenon, <3>3, RoutesComplete
  <2>4. \A i \in DOMAIN m.filters : m.filters[i].kind = "garbage" =>
            \E j \in 1 .. i - 1 : m.filters[j].kind # "skip"
    <3>1. PICK fs : fs = m.filters /\ IsSlice(fs) /\ ~getLocalRateLimit(fs).err
        BY Zenon, <1>3, <2>1, <2>2
    <3>2. \A i \in DOMAIN fs : fs[i].kind = "garbage" => \E j \in 1 .. i - 1 : fs[j].kind # "skip"
        BY ONLY Zenon, <3>1, RateDecodes
    <3> QED
        BY Zenon, <3>1, <3>2
  <2> QED
      BY Zenon, <2>1, <2>2, <2>3, <2>4 DEF HTTPComplete
<1>4. ASSUME f.type = "thrift" PROVE ~unmarshalThriftProxy(f.msg).err
    BY Zenon, <1>4 DEF unmarshalFilter, Bad
<1>5. ASSUME f.type = "thrift"
      PROVE  ThriftComplete(f.msg)
  <2>1. PICK rs : rs = [i \in DOMAIN f.msg |-> unmarshalThriftRoute(f.msg[i])]
      BY Zenon
  <2>2. f.msg # None /\ ~AllGood(rs).err
      BY Zenon, <1>2, <1>4, <1>5, <2>1 DEF unmarshalThriftProxy
  <2>3. \A i \in DOMAIN rs : ~rs[i].err
      BY Zenon, <1>2, <2>2 DEF AllGood, AnyErr
  <2>4. \A i \in DOMAIN f.msg : None \notin {f.msg[i].match, f.msg[i].action}
      BY Zenon, <1>2, <2>1, <2>3 DEF unmarshalThriftRoute
  <2> QED
      BY Zenon, <2>2, <2>4 DEF ThriftComplete, Range
<1> QED
    BY Zenon, <1>3, <1>5

\* A limit comes from the first HTTP filter that is not skipped.
LEMMA RateFrom ==
    ASSUME NEW fs, IsSlice(fs),
           \A h \in Range(fs) : h.kind \in {"bucket", "skip", "garbage", "other"},
           ~getLocalRateLimit(fs).err, getLocalRateLimit(fs).res.TokensPerFill # 0
    PROVE  \E i \in DOMAIN fs : /\ fs[i].kind = "bucket"
                                /\ fs[i].TokensPerFill = getLocalRateLimit(fs).res.TokensPerFill
                                /\ \A j \in 1 .. i - 1 : fs[j].kind = "skip"
<1>1. PICK I : I = {j \in DOMAIN fs : fs[j].kind # "skip"}
    BY Zenon
<1>2. Len(fs) \in Nat /\ DOMAIN fs = 1 .. Len(fs)
    BY Zenon, SliceDomain
<1>3. PICK i : i = FirstOf(I)
    BY Zenon
<1>4. getLocalRateLimit(fs) =
        IF i = 0 THEN Good(NoRate)
        ELSE IF fs[i].kind = "garbage" THEN Bad
        ELSE IF fs[i].kind = "other" THEN Good(NoRate)
        ELSE Good([MaxTokens |-> fs[i].MaxTokens, TokensPerFill |-> fs[i].TokensPerFill])
    BY Zenon, <1>1, <1>3 DEF getLocalRateLimit
<1>5. Bad.err /\ Good(NoRate).res.TokensPerFill = 0
    BY Zenon DEF Bad, Good, NoRate
<1>6. i # 0 /\ fs[i].kind # "garbage" /\ fs[i].kind # "other"
    BY Zenon, <1>4, <1>5
<1>7. i \in I /\ \A j \in I : i <= j
  <2>1. I \in SUBSET (1 .. Len(fs)) /\ I \in SUBSET Nat
      BY <1>1, <1>2
  <2>2. I # {}
      BY Zenon, <1>3, <1>6 DEF FirstOf
  <2> QED
      BY Zenon, <1>3, <2>1, <2>2, FirstOfIn
<1>8. fs[i].kind = "bucket" /\ i \in DOMAIN fs
    BY Zenon, <1>1, <1>6, <1>7 DEF Range
<1>9. getLocalRateLimit(fs).res.TokensPerFill = fs[i].TokensPerFill
    BY <1>4, <1>6 DEF Good
<1>10. \A j \in 1 .. i - 1 : j \in DOMAIN fs /\ ~(i <= j)
    BY <1>2, <1>8
<1> QED
    BY Zenon, <1>1, <1>7, <1>8, <1>9, <1>10

\* A filter with a limit is an HTTP connection manager with such a filter.
LEMMA TokensFrom ==
    ASSUME NEW f, NEW p, f.type \in {"thrift", "http"}, ~unmarshalFilter(f, p).err,
           f.type = "http" /\ f.msg # None =>
              /\ IsSlice(f.msg.filters)
              /\ \A h \in Range(f.msg.filters) : h.kind \in {"bucket", "skip", "garbage", "other"},
           NEW x, x = unmarshalFilter(f, p).res,
           x.inline # None, x.inline.TokensPerFill # 0
    PROVE  /\ f.type = "http" /\ x.port = p
           /\ \E i \in DOMAIN f.msg.filters :
                 /\ f.msg.filters[i].kind = "bucket"
                 /\ f.msg.filters[i].TokensPerFill = x.inline.TokensPerFill
                 /\ \A j \in 1 .. i - 1 : f.msg.filters[j].kind = "skip"
<1>0. /\ Bad.err
      /\ \A y : Good(y).res = y
      /\ \A y, z, r : RouteConfigResource(y, z, r).TokensPerFill = r.TokensPerFill
      /\ NoRate.TokensPerFill = 0
    BY Zenon DEF Bad, Good, RouteConfigResource, NoRate
<1>1. CASE f.type = "thrift"
  <2>1. PICK r : r = unmarshalThriftProxy(f.msg)
      BY Zenon
  <2>2. ~r.err /\ x = [type |-> "thrift", name |-> "", port |-> 0, inline |-> r.res]
      BY Zenon, <1>0, <1>1, <2>1 DEF unmarshalFilter
  <2>3. x.inline = r.res
    <3>1. [type |-> "thrift", name |-> "", port |-> 0, inline |-> r.res].inline = r.res
        BY Zenon
    <3> QED
        BY Zenon, <2>2, <3>1
  <2>4. PICK y : r.res = RouteConfigResource(None, y, NoRate)
      BY Zenon, <1>0, <2>1, <2>2 DEF unmarshalThriftProxy
  <2>5. RouteConfigResource(None, y, NoRate).TokensPerFill = 0
      BY <1>0
  <2> QED
      BY Zenon, <2>3, <2>4, <2>5
<1>2. CASE f.type = "http"
  <2>1. PICK r : r = unmarshallHTTPConnectionManager(f.msg)
      BY Zenon
  <2>2. /\ ~r.err
        /\ x = [type |-> "http", name |-> r.res.name, port |-> p, inline |-> r.res.inline]
    <3>1. f.type # "thrift"
        BY Zenon, <1>2
    <3> QED
        BY Zenon, <1>0, <2>1, <3>1 DEF unmarshalFilter
  <2>3. x.inline = r.res.inline /\ x.port = p
      BY <2>2
  <2>4. PICK rate : rate = getLocalRateLimit(f.msg.filters)
      BY Zenon
  <2>5. f.msg # None /\ ~rate.err
      BY Zenon, <1>0, <2>1, <2>2, <2>4 DEF unmarshallHTTPConnectionManager
  <2>6. r.res.inline # None
      BY Zenon, <2>3
  <2>7. PICK y : r.res.inline = RouteConfigResource(y, None, rate.res)
    <3>1. \A n, y : Good([name |-> n, inline |-> y]).res.inline = y
        BY Zenon DEF Good
    <3>2. CASE f.msg.spec = "rds"
      <4>1. r.res.inline = RouteConfigResource(None, None, rate.res)
          BY Zenon, <1>0, <2>1, <2>2, <2>4, <2>5, <3>1, <3>2
             DEF unmarshallHTTPConnectionManager, Good
      <4> QED
          BY Zenon, <4>1
    <3>3. CASE f.msg.spec = "inline"
      <4>1. PICK rc : rc = unmarshalRouteConfig(f.msg.hosts, rate.res)
          BY Zenon
      <4>2. r = IF f.msg.hosts = None THEN Bad
                ELSE IF rc.err THEN Bad ELSE Good([name |-> f.msg.name, inline |-> rc.res])
          BY Zenon, <2>1, <2>4, <2>5, <3>3, <4>1 DEF unmarshallHTTPConnectionManager
      <4>3. ~rc.err /\ r.res.inline = rc.res
          BY <1>0, <2>2, <3>1, <4>2
      <4>4. \E y : rc.res = RouteConfigResource(y, None, rate.res)
          BY Zenon, <1>0, <4>1, <4>3 DEF unmarshalRouteConfig
      <4> QED
          BY Zenon, <4>3, <4>4
    <3>4. CASE f.msg.spec # "rds" /\ f.msg.spec # "inline"
      <4>1. r.res.inline = None
          BY Zenon, <2>1, <2>4, <2>5, <3>1, <3>4 DEF unmarshallHTTPConnectionManager, Good
      <4> QED
          BY Zenon, <2>6, <4>1
    <3> QED
        BY Zenon, <3>2, <3>3, <3>4
  <2>8. x.inline.TokensPerFill = rate.res.TokensPerFill
    <3>1. RouteConfigResource(y, None, rate.res).TokensPerFill = rate.res.TokensPerFill
        BY <1>0
    <3> QED
        BY Zenon, <2>3, <2>7, <3>1
  <2>9. \E i \in DOMAIN f.msg.filters :
                 /\ f.msg.filters[i].kind = "bucket"
                 /\ f.msg.filters[i].TokensPerFill = rate.res.TokensPerFill
                 /\ \A j \in 1 .. i - 1 : f.msg.filters[j].kind = "skip"
    <3>1. PICK fs : fs = f.msg.filters
        BY Zenon
    <3>2. /\ IsSlice(fs)
          /\ \A h \in Range(fs) : h.kind \in {"bucket", "skip", "garbage", "other"}
          /\ ~getLocalRateLimit(fs).err /\ getLocalRateLimit(fs).res.TokensPerFill # 0
        BY Zenon, <1>2, <2>4, <2>5, <2>8, <3>1
    <3>3. \E i \in DOMAIN fs : /\ fs[i].kind = "bucket"
                               /\ fs[i].TokensPerFill = getLocalRateLimit(fs).res.TokensPerFill
                               /\ \A j \in 1 .. i - 1 : fs[j].kind = "skip"
        BY ONLY Zenon, <3>2, RateFrom
    <3> QED
        BY Zenon, <2>4, <3>1, <3>3
  <2> QED
      BY Zenon, <1>2, <2>3, <2>8, <2>9
<1> QED
    BY Zenon, <1>1, <1>2

\* UnmarshalLDS makes each listener of the last message with its name, and of a
\* response without an error every message.
LEMMA LDSMade ==
    ASSUME NEW raw \in RawLDS, ~UnmarshalLDS(raw).err
    PROVE  /\ \A r \in Range(raw) : Decodes(r, "Listener") /\ ~unmarshalListener(r.msg).err
           /\ \A n : n \in DOMAIN UnmarshalLDS(raw).ret <=> RawListener(raw, n) # None
           /\ \A n \in DOMAIN UnmarshalLDS(raw).ret :
                 \E r \in Range(raw) :
                    /\ RawListener(raw, n) = r.msg /\ r.msg.name = n
                    /\ UnmarshalLDS(raw).ret[n] = unmarshalListener(r.msg).res
<1> DEFINE e(i) == IF ~Decodes(raw[i], "Listener") THEN Entry("", Bad)
                   ELSE Entry(raw[i].msg.name, unmarshalListener(raw[i].msg))
           J(n) == {i \in DOMAIN raw : raw[i].msg.name = n}
<1>1. PICK es : es = [i \in DOMAIN raw |-> e(i)]
    BY Zenon
<1>2. UnmarshalLDS(raw) = Unmarshalled(es)
    BY Zenon, <1>1 DEF UnmarshalLDS
<1>3. Len(raw) \in Nat /\ DOMAIN raw = 1 .. Len(raw) /\ DOMAIN es = DOMAIN raw
    BY Zenon, <1>1, ListenersAssumption, SliceDomain
<1>4. \A i \in DOMAIN raw : ~es[i].err
    BY Zenon, <1>2, <1>3, UnmarshalledAll
<1>5. ASSUME NEW i \in DOMAIN raw
      PROVE  /\ Decodes(raw[i], "Listener") /\ ~unmarshalListener(raw[i].msg).err
             /\ es[i].name = raw[i].msg.name /\ es[i].res = unmarshalListener(raw[i].msg).res
             /\ es[i].res # None /\ raw[i].msg # None
  <2>1. es[i] = e(i)
      BY Zenon, <1>1
  <2>2. Decodes(raw[i], "Listener")
    <3>1. SUFFICES ASSUME ~Decodes(raw[i], "Listener") PROVE FALSE
        BY Zenon
    <3>2. es[i] = Entry("", Bad)
        BY Zenon, <2>1, <3>1
    <3>3. Entry("", Bad).err = Bad.err /\ Bad.err = TRUE
        BY Zenon DEF Entry, Bad
    <3> QED
        BY Zenon, <1>4, <3>2, <3>3
  <2>3. es[i] = Entry(raw[i].msg.name, unmarshalListener(raw[i].msg))
      BY Zenon, <2>1, <2>2
  <2>4. /\ es[i].name = raw[i].msg.name
        /\ es[i].res = unmarshalListener(raw[i].msg).res
        /\ es[i].err = unmarshalListener(raw[i].msg).err
      BY <2>3 DEF Entry
  <2>5. raw[i] \in Range(raw)
      BY Zenon DEF Range
  <2>6. unmarshalListener(raw[i].msg).res # None
      BY Zenon, <2>2, <2>5, ListenersAssumption
  <2> QED
      BY Zenon, <1>4, <2>2, <2>4, <2>6 DEF Decodes
<1> HIDE DEF e
<1>6. ASSUME NEW n
      PROVE  /\ n \in DOMAIN Unmarshalled(es).ret <=> J(n) # {}
             /\ J(n) # {} => LastOf(J(n)) \in J(n)
             /\ LastOf(J(n)) = 0 <=> J(n) = {}
  <2>1. J(n) \in SUBSET (1 .. Len(raw))
      BY Zenon, <1>3
  <2>2. J(n) # {} => LastOf(J(n)) \in J(n)
    <3> HIDE DEF J
    <3> QED
      BY Zenon, <1>3, <2>1, LastOfIn
  <2>3. LastOf(J(n)) = 0 <=> J(n) = {}
    <3> HIDE DEF J
    <3> QED
      BY Zenon, <1>3, <2>1, NoneFound
  <2>4. n \in DOMAIN Unmarshalled(es).ret <=> \E i \in DOMAIN es : es[i].res # None /\ es[i].name = n
      BY Zenon, UnmarshalledAll
  <2>5. (\E i \in DOMAIN es : es[i].res # None /\ es[i].name = n) <=> J(n) # {}
      BY Zenon, <1>3, <1>5
  <2> QED
      BY Zenon, <2>2, <2>3, <2>4, <2>5
<1>7. ASSUME NEW n
      PROVE  RawListener(raw, n) = IF LastOf(J(n)) = 0 THEN None ELSE raw[LastOf(J(n))].msg
    BY Zenon DEF RawListener
<1>8. \A n : n \in DOMAIN UnmarshalLDS(raw).ret <=> RawListener(raw, n) # None
  <2> SUFFICES ASSUME NEW n PROVE n \in DOMAIN Unmarshalled(es).ret <=> RawListener(raw, n) # None
      BY Zenon, <1>2
  <2>1. J(n) # {} => raw[LastOf(J(n))].msg # None
      BY Zenon, <1>5, <1>6
  <2> HIDE DEF J
  <2> QED
      BY Zenon, <1>6, <1>7, <2>1
<1>9. ASSUME NEW n \in DOMAIN Unmarshalled(es).ret
      PROVE  \E r \in Range(raw) : /\ RawListener(raw, n) = r.msg /\ r.msg.name = n
                                   /\ Unmarshalled(es).ret[n] = unmarshalListener(r.msg).res
  <2>1. \E j \in DOMAIN es :
              /\ j = LastOf({i \in DOMAIN es : es[i].res # None /\ es[i].name = n})
              /\ \A i \in DOMAIN es : es[i].res # None /\ es[i].name = n => i <= j
              /\ es[j].res # None /\ es[j].name = n
              /\ Unmarshalled(es).ret[n] = es[j].res
    <3>1. DOMAIN es = 1 .. Len(raw) /\ Len(raw) \in Nat
        BY Zenon, <1>3
    <3> QED
        BY ONLY Zenon, <1>9, <3>1, UnmarshalledFrom
  <2>2. {i \in DOMAIN es : es[i].res # None /\ es[i].name = n} = J(n)
      BY Zenon, <1>3, <1>5
  <2>3. PICK j \in DOMAIN raw : j = LastOf(J(n)) /\ es[j].name = n /\ Unmarshalled(es).ret[n] = es[j].res
      BY Zenon, <1>3, <2>1, <2>2
  <2>4. j # 0
      BY <1>3
  <2>5. RawListener(raw, n) = raw[j].msg
      BY Zenon, <1>7, <2>3, <2>4
  <2>6. raw[j] \in Range(raw)
      BY Zenon DEF Range
  <2> QED
      BY Zenon, <1>5, <2>3, <2>5, <2>6
<1>10. \A r \in Range(raw) : Decodes(r, "Listener") /\ ~unmarshalListener(r.msg).err
    BY Zenon, <1>5 DEF Range
<1>11. \A n \in DOMAIN Unmarshalled(es).ret :
           \E r \in Range(raw) : /\ RawListener(raw, n) = r.msg /\ r.msg.name = n
                                 /\ Unmarshalled(es).ret[n] = unmarshalListener(r.msg).res
    BY Zenon, <1>9
<1>12. \A n \in DOMAIN UnmarshalLDS(raw).ret :
           \E r \in Range(raw) : /\ RawListener(raw, n) = r.msg /\ r.msg.name = n
                                 /\ UnmarshalLDS(raw).ret[n] = unmarshalListener(r.msg).res
    BY ONLY <1>2, <1>11
<1> QED
    BY ONLY Zenon, <1>8, <1>10, <1>12

-----------------------------------------------------------------------------
(* What the cache holds, and what the limit is of *)

NameOf(b, nds, table, n) ==
    IF nds /\ n # ReservedLdsResourceName THEN getListenerName(b, table, n) ELSE n

GoodTable(table) ==
    \A h \in DOMAIN table : IsSlice(table[h]) /\ None \notin Range(table[h])

\* A response that handleLDS has filtered.
Filtered(r, b, nds) ==
    LET res     == UnmarshalLDS(r.raw).ret
        Name(n) == NameOf(b, nds, r.table, n)
    IN  /\ r.raw \in RawLDS
        /\ ~UnmarshalLDS(r.raw).err
        /\ GoodTable(r.table)
        /\ r.watched \subseteq RName \cup {ReservedLdsResourceName}
        /\ r.up = [n \in {m \in r.watched :
                            nds /\ m # ReservedLdsResourceName => Name(m) \in DOMAIN res} |->
                      IF Name(n) \in DOMAIN res THEN res[Name(n)] ELSE Nil]

\* c is u without some of the names callers ask for.
CleanedFrom(c, u) ==
    /\ DOMAIN c \subseteq DOMAIN u
    /\ \A n \in DOMAIN c : c[n] = u[n]
    /\ ReservedLdsResourceName \in DOMAIN u => ReservedLdsResourceName \in DOMAIN c

\* The bootstrap config and the tables are those of the environment and of NDS
\* responses; the response on its way and the last one applied were filtered
\* with them; except between the handler and the update of the cache, the cache
\* is of the last one; the limit is the last one's, or there was none to give
\* the handler.
ResponseInv ==
    /\ IsSlice(bc.nodeDomain)
    /\ GoodTable(lookupTable)
    /\ watched \subseteq RName \cup {ReservedLdsResourceName}
    /\ resp # None => Filtered(resp, bc, ndsRequired)
    /\ last # None => Filtered(last, bc, ndsRequired)
    /\ mu = "receiver" => resp # None /\ last = resp
    /\ cache # None /\ mu # "receiver" => last # None /\ CleanedFrom(cache, last.up)
    /\ ~registered => opt = 0
    /\ registered /\ last # None => opt \in {0, PortOption(getLimiterPolicy(last.up))}

\* The first state satisfies it.
LEMMA ResponseInit == ListenerInit => ResponseInv
<1> SUFFICES ASSUME ListenerInit PROVE ResponseInv
    BY Zenon
<1>1. PICK e \in Env : bc = newBootstrapConfig(e) /\ bc # None
    BY Zenon DEF ListenerInit
<1>2. IsSlice(bc.nodeDomain)
  <2>1. bc.nodeDomain = IF e.domain = None THEN <<"cluster", "local">> ELSE e.domain
      BY Zenon, <1>1 DEF newBootstrapConfig
  <2>2. IsSlice(<<"cluster", "local">>)
      BY DEF IsSlice, Range
  <2> QED
      BY Zenon, <1>1, <2>1, <2>2, NamesAssumption
<1>3. GoodTable(lookupTable)
  <2>1. DOMAIN lookupTable = {}
      BY DEF ListenerInit
  <2> QED
      BY Zenon, <2>1 DEF GoodTable
<1>4. mu # "receiver" /\ opt = 0 /\ watched \subseteq RName \cup {ReservedLdsResourceName}
    BY Zenon, HoldersAssumption DEF ListenerInit, Init
<1> QED
    BY Zenon, <1>2, <1>3, <1>4 DEF ResponseInv, ListenerInit

\* handleLDS files what FilteredListeners makes of the response.
LEMMA FilteredByLDS ==
    ASSUME ResponseInv, NEW raw \in RawLDS, handleLDS(raw)
    PROVE  Filtered(resp', bc, ndsRequired)
<1>1. Decoded[raw] = UnmarshalLDS(raw)
    BY Zenon DEF Decoded
<1>2. ~UnmarshalLDS(raw).err
    BY Zenon, <1>1 DEF handleLDS
<1>3. PICK res : res = UnmarshalLDS(raw).ret
    BY Zenon
<1>4. PICK up : up = FilteredListeners(res)
    BY Zenon
<1>5. resp' = [up |-> up, raw |-> raw, table |-> lookupTable, watched |-> watched]
    BY Zenon, <1>1, <1>3, <1>4 DEF handleLDS
<1>6. PICK r : r = resp'
    BY Zenon
<1>7. r.up = up /\ r.raw = raw /\ r.table = lookupTable /\ r.watched = watched
    BY Zenon, <1>5, <1>6
<1>8. up = [n \in {m \in watched : ndsRequired /\ m # ReservedLdsResourceName =>
                                      NameOf(bc, ndsRequired, lookupTable, m) \in DOMAIN res} |->
              IF NameOf(bc, ndsRequired, lookupTable, n) \in DOMAIN res
              THEN res[NameOf(bc, ndsRequired, lookupTable, n)] ELSE Nil]
    BY Zenon, <1>4 DEF FilteredListeners, NameOf
<1>9. /\ r.raw \in RawLDS /\ ~UnmarshalLDS(r.raw).err /\ GoodTable(r.table)
      /\ r.watched \subseteq RName \cup {ReservedLdsResourceName}
    BY Zenon, <1>2, <1>7 DEF ResponseInv
<1>10. Filtered(r, bc, ndsRequired)
    BY ONLY Zenon, <1>3, <1>7, <1>8, <1>9 DEF Filtered
<1> QED
    BY Zenon, <1>6, <1>10

\* getLimiterPolicy looks at the inbound listener only.
LEMMA PolicyOfCleaned ==
    ASSUME NEW c, NEW u, CleanedFrom(c, u)
    PROVE  getLimiterPolicy(c) = getLimiterPolicy(u)
<1>1. CASE ReservedLdsResourceName \in DOMAIN u
  <2>1. ReservedLdsResourceName \in DOMAIN c /\ c[ReservedLdsResourceName] = u[ReservedLdsResourceName]
      BY Zenon, <1>1 DEF CleanedFrom
  <2> QED
      BY Zenon, <1>1, <2>1 DEF getLimiterPolicy
<1>2. CASE ReservedLdsResourceName \notin DOMAIN u
    BY Zenon, <1>2 DEF CleanedFrom, getLimiterPolicy
<1> QED
    BY Zenon, <1>1, <1>2

\* Every step preserves it.
LEMMA ResponseStep == ResponseInv /\ [ListenerNext]_listenerVars => ResponseInv'
<1> SUFFICES ASSUME ResponseInv, [ListenerNext]_listenerVars PROVE ResponseInv'
    BY Zenon
<1> USE DEF ResponseInv
<1>0. mu = None => mu # "receiver" /\ mu # "server"
    BY Zenon, HoldersAssumption
<1>a. None # "receiver" /\ "server" # "receiver"
    BY Zenon, HoldersAssumption
<1>1. ASSUME NEW n \in RName, Watch(n) PROVE ResponseInv'
  <2>1. UNCHANGED <<opt, bc, ndsRequired, lookupTable, resp, cache, mu, registered, last>>
      BY Zenon, <1>1 DEF Watch, vars, managerVars
  <2>2. watched' = watched \cup {n}
      BY Zenon, <1>1 DEF Watch
  <2> QED
      BY Zenon, <2>1, <2>2
<1>2. ASSUME NEW n \in RName, Clean(n) PROVE ResponseInv'
  <2>1. UNCHANGED <<opt, bc, ndsRequired, lookupTable, resp, mu, registered, last>>
      BY Zenon, <1>2 DEF Clean, vars
  <2>2. watched' = watched \ {n} /\ mu # "receiver" /\ n # ReservedLdsResourceName
      BY Zenon, <1>0, <1>2 DEF Clean
  <2>3. cache' = IF cache = None THEN None ELSE [m \in DOMAIN cache \ {n} |-> cache[m]]
      BY Zenon, <1>2 DEF Clean
  <2>4. cache # None => CleanedFrom(cache', last.up)
      BY Zenon, <2>2, <2>3 DEF CleanedFrom
  <2>5. cache' # None => cache # None
      BY Zenon, <2>3
  <2> QED
      BY Zenon, <2>1, <2>2, <2>4, <2>5
<1>3. ASSUME NEW raw \in RawNDS, handleNDS(raw) PROVE ResponseInv'
  <2>1. UNCHANGED <<opt, bc, ndsRequired, watched, resp, cache, mu, registered, last>>
      BY Zenon, <1>3 DEF handleNDS, vars, managerVars
  <2>2. GoodTable(lookupTable')
      BY Zenon, <1>3, NamesAssumption DEF handleNDS, GoodTable
  <2> QED
      BY Zenon, <2>1, <2>2
<1>4. ASSUME NEW raw \in RawLDS, handleLDS(raw) PROVE ResponseInv'
  <2>1. UNCHANGED <<opt, bc, ndsRequired, lookupTable, watched, cache, mu, registered, last>>
      BY Zenon, <1>4 DEF handleLDS, vars, managerVars
  <2>2. Filtered(resp', bc, ndsRequired)
      BY Zenon, <1>4, FilteredByLDS
  <2>3. mu # "receiver"
      BY Zenon, <1>4 DEF handleLDS
  <2> QED
      BY Zenon, <2>1, <2>2, <2>3
<1>5. ASSUME NEW u, u = resp, resp # None, cache' = UpdatedCache, last' = resp, resp' = None, mu' = None,
             UNCHANGED <<opt, bc, ndsRequired, lookupTable, watched, registered>>,
             registered => opt \in {0, PortOption(getLimiterPolicy(u.up))}
      PROVE  ResponseInv'
  <2>1. cache' # None => cache' = last'.up
      BY Zenon, <1>5 DEF UpdatedCache
  <2>2. cache' # None => CleanedFrom(cache', last'.up)
      BY Zenon, <2>1 DEF CleanedFrom
  <2> QED
      BY Zenon, <1>a, <1>5, <2>2
<1>6. CASE UpdateCache
    BY Zenon, <1>5, <1>6 DEF UpdateCache, Fill, vars
<1>7. CASE UpdateResource
  <2>1. UNCHANGED <<opt, bc, ndsRequired, lookupTable, watched, registered, last>> /\ resp # None /\ last = resp
      BY Zenon, <1>7 DEF UpdateResource, updateHandler
  <2> QED
      BY Zenon, <1>5, <1>7, <2>1 DEF UpdateResource, Fill
<1>8. CASE UpdateHandlers
  <2>1. UNCHANGED <<bc, ndsRequired, lookupTable, watched, resp, cache, registered>> /\ resp # None /\ last' = resp
      BY Zenon, <1>8 DEF UpdateHandlers, clientVars
  <2>2. mu' = "receiver" /\ registered /\ opt' = PortOption(getLimiterPolicy(resp.up))
      BY Zenon, <1>8 DEF UpdateHandlers, listenerUpdater
  <2> QED
      BY Zenon, <2>1, <2>2
<1>9. CASE NewLimiter
  <2>1. UNCHANGED <<bc, ndsRequired, lookupTable, watched, resp, cache, last>> /\ registered' = TRUE
      BY Zenon, <1>9 DEF NewLimiter, clientVars
  <2>2. mu # "receiver" /\ ~registered /\ mu' # "receiver"
      BY Zenon, <1>0, <1>a, <1>9 DEF NewLimiter
  <2>3. CASE cache = None /\ UNCHANGED <<vars, mu>>
      BY Zenon, <2>1, <2>2, <2>3 DEF vars
  <2>4. CASE cache # None /\ listenerUpdater(cache)
    <3>1. opt' = PortOption(getLimiterPolicy(last.up))
        BY Zenon, <2>2, <2>4, PolicyOfCleaned DEF listenerUpdater
    <3> QED
        BY Zenon, <2>1, <2>2, <2>4, <3>1
  <2> QED
      BY Zenon, <1>9, <2>3, <2>4 DEF NewLimiter
<1>10. CASE Registered
  <2>1. UNCHANGED <<opt, bc, ndsRequired, lookupTable, watched, resp, cache, registered, last>>
      BY Zenon, <1>10 DEF Registered, clientVars, updateHandler
  <2>2. mu # "receiver" /\ mu' # "receiver"
      BY Zenon, <1>a, <1>10 DEF Registered
  <2> QED
      BY Zenon, <2>1, <2>2
<1>11. CASE StartServer
  <2>1. UNCHANGED <<opt, clientVars, managerVars>>
      BY Zenon, <1>11 DEF StartServer, UpdateControl, StoreUpdater
  <2> QED
      BY Zenon, <2>1 DEF clientVars, managerVars
<1>12. CASE UNCHANGED listenerVars
    BY Zenon, <1>12 DEF listenerVars, vars, clientVars, managerVars
<1> QED
    BY Zenon, <1>1, <1>2, <1>3, <1>4, <1>6, <1>7, <1>8, <1>9, <1>10, <1>11, <1>12 DEF ListenerNext

\* What is known of the messages of an applied response.
LEMMA AppliedMessages ==
    ASSUME NEW raw \in RawLDS, ~UnmarshalLDS(raw).err, NEW r \in Range(raw)
    PROVE  /\ r.msg # None /\ r.msg.name # None /\ ~unmarshalListener(r.msg).err
           /\ IsSlice(r.msg.chains)
           /\ \A c \in Range(Chains(r.msg)) :
                 /\ IsSlice(c.filters)
                 /\ \A f \in Range(c.filters) : f.type = "http" /\ f.msg # None =>
                       /\ IsSlice(f.msg.filters)
                       /\ \A h \in Range(f.msg.filters) :
                             h.kind \in {"bucket", "skip", "garbage", "other"}
<1>1. Decodes(r, "Listener") /\ ~unmarshalListener(r.msg).err
    BY Zenon, LDSMade
<1> QED
    BY Zenon, <1>1, ListenersAssumption DEF Decodes

\* processUnmarshalErrors and the filter loops together: no response of which
\* the cache holds anything has a broken listener in it.
THEOREM WholeResponses == ListenerSpec => []AllOrNothing
<1>1. ResponseInv => AllOrNothing
  <2> SUFFICES ASSUME ResponseInv, last # None, NEW r \in Range(last.raw),
                      NEW c \in Range(Chains(r.msg)), NEW f \in Range(c.filters)
               PROVE  /\ f.type = "http" => HTTPComplete(f.msg)
                      /\ f.type = "thrift" => ThriftComplete(f.msg)
    <3>1. ASSUME ResponseInv, last # None, NEW r \in Range(last.raw) PROVE r.msg # None
        BY Zenon, <3>1, AppliedMessages DEF ResponseInv, Filtered
    <3> QED
        BY Zenon, <3>1 DEF AllOrNothing
  <2>1. last.raw \in RawLDS /\ ~UnmarshalLDS(last.raw).err
      BY Zenon DEF ResponseInv, Filtered
  <2>2. /\ ~unmarshalListener(r.msg).err /\ IsSlice(r.msg.chains)
        /\ \A d \in Range(Chains(r.msg)) : IsSlice(d.filters)
        /\ f.type = "http" /\ f.msg # None => IsSlice(f.msg.filters)
      BY Zenon, <2>1, AppliedMessages
  <2>3. f.type \in {"thrift", "http"} => ~unmarshalFilter(f, c.port).err
      BY Zenon, <2>2, ListenerErr
  <2> QED
      BY Zenon, <2>2, <2>3, FilterComplete
<1> QED
    BY <1>1, ResponseInit, ResponseStep, PTL DEF ListenerSpec

\* A port's tokens are those of a network filter of the inbound listener.
LEMMA TokensOfPort ==
    ASSUME NEW u, NEW p \in DOMAIN getLimiterPolicy(u),
           IsSlice(u[ReservedLdsResourceName])
    PROVE  \E x \in Range(u[ReservedLdsResourceName]) :
              x.inline # None /\ x.port = p /\ getLimiterPolicy(u)[p] = x.inline.TokensPerFill
<1>1. PICK fs : fs = u[ReservedLdsResourceName] /\ IsSlice(fs)
    BY Zenon
<1>2. Len(fs) \in Nat /\ DOMAIN fs = 1 .. Len(fs)
    BY Zenon, <1>1, SliceDomain
<1>3. PICK kept : kept = {i \in DOMAIN fs : fs[i].inline # None}
    BY Zenon
<1>4. DOMAIN << >> = {}
    OBVIOUS
<1>5. getLimiterPolicy(u) = [q \in {fs[i].port : i \in kept} |->
                                fs[LastOf({i \in kept : fs[i].port = q})].inline.TokensPerFill]
    BY Zenon, <1>1, <1>3, <1>4 DEF getLimiterPolicy
<1>6. PICK I : I = {i \in kept : fs[i].port = p}
    BY Zenon
<1>7. I \in SUBSET (1 .. Len(fs)) /\ I # {}
    BY Zenon, <1>2, <1>3, <1>5, <1>6
<1>8. LastOf(I) \in I
    BY Zenon, <1>2, <1>7, LastOfIn
<1>9. getLimiterPolicy(u)[p] = fs[LastOf(I)].inline.TokensPerFill
    BY Zenon, <1>5, <1>6
<1>10. fs[LastOf(I)] \in Range(fs) /\ fs[LastOf(I)].inline # None /\ fs[LastOf(I)].port = p
    BY Zenon, <1>3, <1>6, <1>8 DEF Range
<1> QED
    BY Zenon, <1>1, <1>9, <1>10

\* The option is no limit, or the tokens of the server's port or the default one.
LEMMA OptionOfPort ==
    ASSUME NEW tokens, PortOption(tokens) # MaxInt
    PROVE  \E p \in {port, DefaultServerPort} \cap DOMAIN tokens :
              tokens[p] # 0 /\ PortOption(tokens) = tokens[p]
BY Zenon DEF PortOption, setLimitOption

\* listenerUpdater, registered before or after the response is cached, and the two
\* steps of UpdateControl leave the running server with a limit of the last
\* response's inbound listener or with none, except in the window that LimitInForce
\* names.
THEOREM LimitOfResponse == ListenerSpec => []NoStaleLimit
<1>1. ASSUME ResponseInv, registered, last # None, opt \notin {0, MaxInt},
             NEW l, l = RawListener(last.raw, ReservedLdsResourceName)
      PROVE  /\ l # None
             /\ \E c \in Range(Chains(l)) :
                  /\ c.port \in {port, DefaultServerPort}
                  /\ \E f \in Range(c.filters) :
                       /\ f.type = "http"
                       /\ \E i \in DOMAIN f.msg.filters :
                            /\ f.msg.filters[i].kind = "bucket"
                            /\ f.msg.filters[i].TokensPerFill = opt
                            /\ \A j \in 1 .. i - 1 : f.msg.filters[j].kind = "skip"
  <2>1. PICK u : u = last.up
      BY Zenon
  <2>2. PICK p \in {port, DefaultServerPort} \cap DOMAIN getLimiterPolicy(u) :
            opt # 0 /\ opt = getLimiterPolicy(u)[p]
    <3>1. opt = PortOption(getLimiterPolicy(u))
        BY Zenon, <1>1, <2>1 DEF ResponseInv
    <3> QED
        BY Zenon, <1>1, <3>1, OptionOfPort
  <2>3. PICK ret : ret = UnmarshalLDS(last.raw).ret
      BY Zenon
  <2>4. last.raw \in RawLDS /\ ~UnmarshalLDS(last.raw).err
      BY Zenon, <1>1 DEF ResponseInv, Filtered
  <2>5. ReservedLdsResourceName \in DOMAIN u /\ u[ReservedLdsResourceName] # Nil
    <3>1. DOMAIN << >> = {}
        OBVIOUS
    <3> QED
        BY Zenon, <2>2, <3>1 DEF getLimiterPolicy
  <2>6. /\ ReservedLdsResourceName \in DOMAIN ret
        /\ u[ReservedLdsResourceName] = ret[ReservedLdsResourceName]
      BY Zenon, <1>1, <2>1, <2>3, <2>5 DEF ResponseInv, Filtered, NameOf
  <2>7. PICK r \in Range(last.raw) :
            l = r.msg /\ ret[ReservedLdsResourceName] = unmarshalListener(r.msg).res
      BY ZenonT(60), <1>1, <2>3, <2>4, <2>6, LDSMade
  <2>8. /\ l # None /\ ~unmarshalListener(l).err /\ IsSlice(l.chains)
        /\ \A c \in Range(Chains(l)) :
                 /\ IsSlice(c.filters)
                 /\ \A f \in Range(c.filters) : f.type = "http" /\ f.msg # None =>
                       /\ IsSlice(f.msg.filters)
                       /\ \A h \in Range(f.msg.filters) :
                             h.kind \in {"bucket", "skip", "garbage", "other"}
      BY Zenon, <2>4, <2>7, AppliedMessages
  <2>9. PICK res : res = unmarshalListener(l).res /\ res = u[ReservedLdsResourceName]
      BY Zenon, <2>6, <2>7
  <2>10. /\ IsSlice(res)
         /\ \A x \in Range(res) : \E c \in Range(Chains(l)) : \E f \in Range(c.filters) :
                    /\ f.type \in {"thrift", "http"}
                    /\ x = unmarshalFilter(f, c.port).res
    <3>0. IsSlice(l.chains) /\ ~unmarshalListener(l).err
        BY Zenon, <2>8
    <3>1. \A c \in Range(Chains(l)) : IsSlice(c.filters)
        BY Zenon, <2>8
    <3>2. /\ IsSlice(unmarshalListener(l).res)
          /\ \A x \in Range(unmarshalListener(l).res) :
                 \E c \in Range(Chains(l)) : \E f \in Range(c.filters) :
                    /\ f.type \in {"thrift", "http"}
                    /\ x = unmarshalFilter(f, c.port).res
        BY ONLY <3>1, <3>0, ListenerFilters
    <3> QED
        BY Zenon, <2>9, <3>2
  <2>11. PICK x \in Range(res) : x.inline # None /\ x.port = p /\ opt = x.inline.TokensPerFill
    <3>1. p \in DOMAIN getLimiterPolicy(u) /\ IsSlice(u[ReservedLdsResourceName])
        BY Zenon, <2>2, <2>9, <2>10
    <3>2. \E x \in Range(u[ReservedLdsResourceName]) :
              x.inline # None /\ x.port = p /\ getLimiterPolicy(u)[p] = x.inline.TokensPerFill
        BY ONLY <3>1, TokensOfPort
    <3> QED
        BY Zenon, <2>2, <2>9, <3>2
  <2>12. PICK c \in Range(Chains(l)) : \E f \in Range(c.filters) :
              f.type \in {"thrift", "http"} /\ x = unmarshalFilter(f, c.port).res
      BY Zenon, <2>10
  <2>13. PICK f \in Range(c.filters) :
              f.type \in {"thrift", "http"} /\ x = unmarshalFilter(f, c.port).res
      BY Zenon, <2>12
  <2>14. ~unmarshalFilter(f, c.port).err
      BY Zenon, <2>8, <2>13, ListenerErr
  <2>15. /\ f.type \in {"thrift", "http"}
         /\ f.type = "http" /\ f.msg # None =>
              /\ IsSlice(f.msg.filters)
              /\ \A h \in Range(f.msg.filters) : h.kind \in {"bucket", "skip", "garbage", "other"}
         /\ x.inline # None /\ x.inline.TokensPerFill # 0
      BY Zenon, <2>2, <2>8, <2>11, <2>13
  <2>16. /\ f.type = "http" /\ x.port = c.port
         /\ \E i \in DOMAIN f.msg.filters :
                 /\ f.msg.filters[i].kind = "bucket"
                 /\ f.msg.filters[i].TokensPerFill = x.inline.TokensPerFill
                 /\ \A j \in 1 .. i - 1 : f.msg.filters[j].kind = "skip"
      BY ONLY <2>13, <2>14, <2>15, TokensFrom
  <2>17. c.port \in {port, DefaultServerPort}
      BY Zenon, <2>11, <2>16
  <2> QED
      BY Zenon, <2>8, <2>11, <2>16, <2>17
<1>2. ASSUME IInv, ResponseInv, control = "done", ~handling, ~missed, limit \notin {0, MaxInt}
      PROVE  limit = opt /\ registered /\ opt \notin {0, MaxInt}
  <2>1. control # "init"
      BY Zenon, <1>2
  <2>2. limit = opt
      BY Zenon, <1>2, <2>1 DEF IInv
  <2> QED
      BY Zenon, <1>2, <2>2 DEF ResponseInv
<1>3. IInv /\ ResponseInv => NoStaleLimit
  <2> SUFFICES ASSUME IInv, ResponseInv, control = "done", ~handling, ~missed, last # None,
                      limit \notin {0, MaxInt},
                      NEW l, l = RawListener(last.raw, ReservedLdsResourceName)
               PROVE  /\ l # None
                      /\ \E c \in Range(Chains(l)) :
                           /\ c.port \in {port, DefaultServerPort}
                           /\ \E f \in Range(c.filters) :
                                /\ f.type = "http"
                                /\ \E i \in DOMAIN f.msg.filters :
                                     /\ f.msg.filters[i].kind = "bucket"
                                     /\ limit \in {f.msg.filters[i].MaxTokens,
                                                   f.msg.filters[i].TokensPerFill}
                                     /\ \A j \in 1 .. i - 1 : f.msg.filters[j].kind = "skip"
      BY Zenon DEF NoStaleLimit
  <2>1. limit = opt /\ registered /\ opt \notin {0, MaxInt}
      BY Zenon, <1>2
  <2>2. /\ l # None
        /\ \E c \in Range(Chains(l)) :
             /\ c.port \in {port, DefaultServerPort}
             /\ \E f \in Range(c.filters) :
                  /\ f.type = "http"
                  /\ \E i \in DOMAIN f.msg.filters :
                       /\ f.msg.filters[i].kind = "bucket"
                       /\ f.msg.filters[i].TokensPerFill = opt
                       /\ \A j \in 1 .. i - 1 : f.msg.filters[j].kind = "skip"
      BY Zenon, <1>1, <2>1
  <2> QED
      BY Zenon, <2>1, <2>2
<1> QED
    BY <1>3, InitInv, StepInv, ResponseInit, ResponseStep, PTL DEF ListenerSpec

-----------------------------------------------------------------------------
(* What a caller's name resolves to *)

\* Slices of one set's elements, so that they can be concatenated.
LEMMA OneSort ==
    ASSUME NEW s, NEW t, IsSlice(s), IsSlice(t), NEW E
    PROVE  \E S : s \in Seq(S) /\ t \in Seq(S) /\ E \subseteq S
<1>1. PICK S : S = Range(s) \cup Range(t) \cup E
    BY Zenon
<1>2. ASSUME NEW q, IsSlice(q), Range(q) \subseteq S PROVE q \in Seq(S)
  <2>1. Len(q) \in Nat /\ DOMAIN q = 1 .. Len(q) /\ q = [i \in 1 .. Len(q) |-> q[i]]
      BY Zenon, <1>2, SliceDomain
  <2>2. \A i \in 1 .. Len(q) : q[i] \in S
      BY Zenon, <1>2, <2>1 DEF Range
  <2> QED
      BY Zenon, <2>1, <2>2, SliceOf
<1> QED
    BY Zenon, <1>1, <1>2

\* tryExpandFQDN adds what a host may lack.
LEMMA ExpandedBy ==
    ASSUME NEW b, NEW host, IsSlice(host), IsSlice(b.nodeDomain)
    PROVE  /\ host \o <<>> = host
           /\ \E suffix \in {<<>>, b.nodeDomain, <<"svc">> \o b.nodeDomain,
                             <<b.configNamespace, "svc">> \o b.nodeDomain} :
                 tryExpandFQDN(b, host) = host \o suffix
<1>1. PICK D, ns : D = b.nodeDomain /\ ns = b.configNamespace /\ IsSlice(D)
    BY Zenon
<1>2. PICK S : host \in Seq(S) /\ D \in Seq(S) /\ {"svc", ns} \subseteq S
  <2>1. PICK E : E = {"svc", ns}
      BY Zenon
  <2>2. IsSlice(host) /\ IsSlice(D)
      BY Zenon, <1>1
  <2>3. \E S : host \in Seq(S) /\ D \in Seq(S) /\ E \subseteq S
      BY ONLY <2>2, OneSort
  <2> QED
      BY Zenon, <2>1, <2>3
<1>3. ASSUME NEW t \in Seq(S) PROVE (host \o t) \o D = host \o (t \o D)
    BY ONLY <1>2, <1>3, ConcatTwice
<1>4. host \o <<>> = host
    BY Zenon, <1>2, ConcatNothing
<1>5. (host \o <<"svc">>) \o D = host \o (<<"svc">> \o D)
  <2>1. <<"svc">> \in Seq(S)
      BY <1>2
  <2> QED
      BY Zenon, <1>3, <2>1
<1>6. (host \o <<ns, "svc">>) \o D = host \o (<<ns, "svc">> \o D)
  <2>1. <<ns, "svc">> \in Seq(S)
      BY <1>2
  <2> QED
      BY Zenon, <1>3, <2>1
<1>7. tryExpandFQDN(b, host) \in
         {host, (host \o <<"svc">>) \o D, host \o D, (host \o <<ns, "svc">>) \o D}
    BY Zenon, <1>1 DEF tryExpandFQDN
<1> QED
    BY Zenon, <1>1, <1>4, <1>5, <1>6, <1>7

\* It makes one host of the four forms of a service's name.
LEMMA AliasExpanded ==
    ASSUME NEW b, IsSlice(b.nodeDomain), NEW s, NEW ns, ns # "svc", NEW host,
           \/ host \in {<<s, ns>>, <<s, ns, "svc">>, <<s, ns, "svc">> \o b.nodeDomain}
           \/ ns = b.configNamespace /\ host = <<s>>
    PROVE  tryExpandFQDN(b, host) = <<s, ns, "svc">> \o b.nodeDomain
<1>1. PICK D : D = b.nodeDomain /\ IsSlice(D)
    BY Zenon
<1>2. PICK S : D \in Seq(S) /\ {s, ns, "svc"} \subseteq S
  <2>1. PICK E : E = {s, ns, "svc"}
      BY Zenon
  <2>2. \E S : D \in Seq(S) /\ D \in Seq(S) /\ E \subseteq S
      BY Zenon, <1>1, OneSort
  <2> QED
      BY Zenon, <2>1, <2>2
<1>3. <<s, ns, "svc">> \in Seq(S)
    BY <1>2
<1>4. CASE host = <<s, ns>>
  <2>1. host \o <<"svc">> = <<s, ns, "svc">>
    <3>1. PICK t : t = host \o <<"svc">>
        BY Zenon
    <3>2. t \in Seq(S) /\ Len(t) = 3 /\ t[1] = s /\ t[2] = ns /\ t[3] = "svc"
        BY <1>2, <1>4, <3>1
    <3>3. PICK w : w = <<s, ns, "svc">>
        BY Zenon
    <3>4. w \in Seq(S) /\ Len(w) = 3 /\ w[1] = s /\ w[2] = ns /\ w[3] = "svc"
        BY Zenon, <1>3, <3>3
    <3>5. Len(t) = Len(w) /\ \A i \in 1 .. Len(t) : t[i] = w[i]
        BY <3>2, <3>4
    <3>6. t = w
        BY Zenon, <3>2, <3>4, <3>5, SlicesEqual
    <3> QED
        BY Zenon, <3>1, <3>3, <3>6
  <2>2. tryExpandFQDN(b, host) = (host \o <<"svc">>) \o D
      BY <1>1, <1>4 DEF tryExpandFQDN
  <2> QED
      BY Zenon, <1>1, <2>1, <2>2
<1>5. CASE host = <<s, ns, "svc">>
    BY <1>1, <1>5 DEF tryExpandFQDN
<1>6. CASE host = <<s, ns, "svc">> \o D
  <2>1. CASE D = <<>>
    <3>1. host = <<s, ns, "svc">>
        BY Zenon, <1>3, <1>6, <2>1, ConcatNothing
    <3> QED
        BY Zenon, <1>5, <3>1
  <2>2. CASE D # <<>>
    <3>1. Len(D) \in Nat /\ Len(D) # 0
        BY <1>2, <2>2
    <3>2. Len(host) = 3 + Len(D) /\ host[3] = "svc"
        BY <1>2, <1>3, <1>6, <3>1
    <3>3. 3 \in 2 .. Len(host) - 1
        BY <3>1, <3>2
    <3> QED
        BY Zenon, <1>1, <1>6, <3>2, <3>3 DEF tryExpandFQDN
  <2> QED
      BY Zenon, <2>1, <2>2
<1>7. CASE ns = b.configNamespace /\ host = <<s>>
  <2>1. host \o <<ns, "svc">> = <<s, ns, "svc">>
    <3>1. PICK t : t = host \o <<ns, "svc">>
        BY Zenon
    <3>2. t \in Seq(S) /\ Len(t) = 3 /\ t[1] = s /\ t[2] = ns /\ t[3] = "svc"
        BY <1>2, <1>7, <3>1
    <3>3. PICK w : w = <<s, ns, "svc">>
        BY Zenon
    <3>4. w \in Seq(S) /\ Len(w) = 3 /\ w[1] = s /\ w[2] = ns /\ w[3] = "svc"
        BY Zenon, <1>3, <3>3
    <3>5. Len(t) = Len(w) /\ \A i \in 1 .. Len(t) : t[i] = w[i]
        BY <3>2, <3>4
    <3>6. t = w
        BY Zenon, <3>2, <3>4, <3>5, SlicesEqual
    <3> QED
        BY Zenon, <3>1, <3>3, <3>6
  <2>2. tryExpandFQDN(b, host) = (host \o <<ns, "svc">>) \o D
      BY <1>1, <1>7 DEF tryExpandFQDN
  <2> QED
      BY Zenon, <1>1, <2>1, <2>2
<1> QED
    BY Zenon, <1>1, <1>4, <1>5, <1>6, <1>7

\* A lower-case host is a slice, too.
LEMMA LowerSlice ==
    ASSUME NEW host, IsSlice(host)
    PROVE  IsSlice(ToLower(host))
<1>1. PICK t : t = ToLower(host)
    BY Zenon
<1>2. Len(host) \in Nat /\ DOMAIN host = 1 .. Len(host)
    BY Zenon, SliceDomain
<1>3. t = [i \in 1 .. Len(host) |-> t[i]]
    BY Zenon, <1>1, <1>2 DEF ToLower
<1> QED
    BY Zenon, <1>1, <1>2, <1>3, SliceOf

\* A listener name is that of a host the table has, as it is or expanded.
LEMMA NameFrom ==
    ASSUME NEW b, NEW table, NEW n, getListenerName(b, table, n) # None
    PROVE  \E h \in {ToLower(n.host), tryExpandFQDN(b, ToLower(n.host))} :
              /\ Known(table, h)
              /\ getListenerName(b, table, n) = [ip |-> table[h][1], port |-> Port(n)]
<1>1. PICK cip : cip = resolveAddr(b, table, n.host)
    BY Zenon
<1>2. cip # None /\ getListenerName(b, table, n) = [ip |-> cip, port |-> Port(n)]
    BY Zenon, <1>1 DEF getListenerName, Port
<1>3. \E h \in {ToLower(n.host), tryExpandFQDN(b, ToLower(n.host))} :
          Known(table, h) /\ cip = table[h][1]
    BY Zenon, <1>1, <1>2 DEF resolveAddr
<1> QED
    BY Zenon, <1>2, <1>3

\* What is known of a name that callers ask for.
LEMMA WatchedName ==
    ASSUME ResponseInv, last # None, NEW n \in last.watched, n # ReservedLdsResourceName
    PROVE  IsSlice(n.host) /\ IsSlice(n.ports)
BY Zenon, NamesAssumption DEF ResponseInv, Filtered

\* resolveAddr, handleLDS's filter and the update together: what the cache has for
\* a name is the listener that the response has for an IP of the name.
THEOREM OwnListeners == ListenerSpec => []NoForeignListener
<1>1. ASSUME ResponseInv, last # None, ndsRequired,
             NEW n \in DOMAIN last.up, n # ReservedLdsResourceName
      PROVE  \E suffix \in {<<>>, bc.nodeDomain, <<"svc">> \o bc.nodeDomain,
                            <<bc.configNamespace, "svc">> \o bc.nodeDomain} :
                 LET h == ToLower(n.host) \o suffix
                     l == RawListener(last.raw, [ip |-> last.table[h][1], port |-> Port(n)])
                 IN  Known(last.table, h) /\ l # None /\ last.up[n] = unmarshalListener(l).res
  <2>1. PICK name : name = getListenerName(bc, last.table, n)
      BY Zenon
  <2>2. n \in last.watched /\ name \in DOMAIN UnmarshalLDS(last.raw).ret
    <3>1. NameOf(bc, ndsRequired, last.table, n) = name
        BY Zenon, <1>1, <2>1 DEF NameOf
    <3>2. DOMAIN last.up = {m \in last.watched :
                              ndsRequired /\ m # ReservedLdsResourceName =>
                                 NameOf(bc, ndsRequired, last.table, m) \in DOMAIN UnmarshalLDS(last.raw).ret}
        BY Zenon, <1>1 DEF ResponseInv, Filtered
    <3>3. n \in last.watched /\ (ndsRequired /\ n # ReservedLdsResourceName =>
             NameOf(bc, ndsRequired, last.table, n) \in DOMAIN UnmarshalLDS(last.raw).ret)
        BY Zenon, <1>1, <3>2
    <3> QED
        BY Zenon, <1>1, <3>1, <3>3
  <2>3. last.raw \in RawLDS /\ ~UnmarshalLDS(last.raw).err
      BY Zenon, <1>1 DEF ResponseInv, Filtered
  <2>4. RawListener(last.raw, name) # None
      BY Zenon, <2>2, <2>3, LDSMade
  <2>5. name # None
    <3>1. PICK r \in Range(last.raw) : r.msg.name = name
        BY Zenon, <2>2, <2>3, LDSMade
    <3> QED
        BY Zenon, <2>3, <3>1, AppliedMessages
  <2>6. PICK host : host = ToLower(n.host) /\ IsSlice(host)
      BY Zenon, <1>1, <2>2, WatchedName, LowerSlice
  <2>7. PICK h \in {host, tryExpandFQDN(bc, host)} :
            Known(last.table, h) /\ name = [ip |-> last.table[h][1], port |-> Port(n)]
      BY Zenon, <2>1, <2>5, <2>6, NameFrom
  <2>8. PICK suffix \in {<<>>, bc.nodeDomain, <<"svc">> \o bc.nodeDomain,
                         <<bc.configNamespace, "svc">> \o bc.nodeDomain} : h = host \o suffix
    <3>1. IsSlice(host) /\ IsSlice(bc.nodeDomain)
        BY Zenon, <1>1, <2>6 DEF ResponseInv
    <3>2. /\ host \o <<>> = host
          /\ \E suffix \in {<<>>, bc.nodeDomain, <<"svc">> \o bc.nodeDomain,
                            <<bc.configNamespace, "svc">> \o bc.nodeDomain} :
                tryExpandFQDN(bc, host) = host \o suffix
        BY ONLY Zenon, <3>1, ExpandedBy
    <3> QED
        BY Zenon, <2>7, <3>2
  <2>9. last.up[n] = unmarshalListener(RawListener(last.raw, name)).res
    <3>1. PICK ret : ret = UnmarshalLDS(last.raw).ret
        BY Zenon
    <3>2. NameOf(bc, ndsRequired, last.table, n) = name
        BY Zenon, <1>1, <2>1 DEF NameOf
    <3>3. last.up[n] = ret[name]
        BY Zenon, <1>1, <2>2, <3>1, <3>2 DEF ResponseInv, Filtered
    <3>4. PICK r \in Range(last.raw) :
              RawListener(last.raw, name) = r.msg /\ ret[name] = unmarshalListener(r.msg).res
        BY ZenonT(60), <2>2, <2>3, <3>1, LDSMade
    <3> QED
        BY Zenon, <3>3, <3>4
  <2> QED
      BY Zenon, <2>4, <2>6, <2>7, <2>8, <2>9
<1>2. ASSUME ResponseInv, cache # None, mu = None, NEW n \in DOMAIN cache
      PROVE  last # None /\ n \in DOMAIN last.up /\ cache[n] = last.up[n]
    BY Zenon, <1>2, HoldersAssumption DEF ResponseInv, CleanedFrom
<1>3. ASSUME ResponseInv, cache # None, mu = None, ndsRequired,
             NEW n \in DOMAIN cache, n # ReservedLdsResourceName
      PROVE  \E suffix \in {<<>>, bc.nodeDomain, <<"svc">> \o bc.nodeDomain,
                            <<bc.configNamespace, "svc">> \o bc.nodeDomain} :
                 LET h == ToLower(n.host) \o suffix
                     l == RawListener(last.raw, [ip |-> last.table[h][1], port |-> Port(n)])
                 IN  Known(last.table, h) /\ l # None /\ cache[n] = unmarshalListener(l).res
  <2>1. PICK L : L = last.up[n] /\ L = cache[n] /\ last # None /\ n \in DOMAIN last.up
      BY Zenon, <1>2, <1>3
  <2>2. \E suffix \in {<<>>, bc.nodeDomain, <<"svc">> \o bc.nodeDomain,
                       <<bc.configNamespace, "svc">> \o bc.nodeDomain} :
            LET h == ToLower(n.host) \o suffix
                l == RawListener(last.raw, [ip |-> last.table[h][1], port |-> Port(n)])
            IN  Known(last.table, h) /\ l # None /\ L = unmarshalListener(l).res
      BY Zenon, <1>1, <1>3, <2>1
  <2> QED
      BY Zenon, <2>1, <2>2
<1>4. ResponseInv => NoForeignListener
    BY Zenon, <1>3 DEF NoForeignListener
<1> QED
    BY <1>4, ResponseInit, ResponseStep, PTL DEF ListenerSpec

\* tryExpandFQDN, resolveAddr and the filter together: all forms of a service's
\* name get the same listener, and the cache keeps it.
THEOREM AliasesResolveAlike == ListenerSpec => []AliasesAgree
<1>1. ASSUME ResponseInv, last # None, ndsRequired,
             NEW n \in last.watched, n # ReservedLdsResourceName,
             NEW fqdn \in DOMAIN last.table,
             fqdn = <<fqdn[1], fqdn[2], "svc">> \o bc.nodeDomain, fqdn[2] # "svc",
             ToLower(n.host) \in Aliases(fqdn[1], fqdn[2]),
             last.table[fqdn] # <<>>, Len(n.ports) < 2,
             NEW l, l = RawListener(last.raw, [ip |-> last.table[fqdn][1], port |-> Port(n)]),
             l # None
      PROVE  /\ n \in DOMAIN last.up /\ last.up[n] = unmarshalListener(l).res
             /\ cache # None /\ mu = None /\ n \in DOMAIN cache
                   => cache[n] = unmarshalListener(l).res
  <2>1. PICK host : host = ToLower(n.host)
      BY Zenon
  <2>2. tryExpandFQDN(bc, host) = fqdn
    <3>1. PICK s, ns : s = fqdn[1] /\ ns = fqdn[2]
        BY Zenon
    <3>2. /\ IsSlice(bc.nodeDomain) /\ ns # "svc"
          /\ \/ host \in {<<s, ns>>, <<s, ns, "svc">>, <<s, ns, "svc">> \o bc.nodeDomain}
             \/ ns = bc.configNamespace /\ host = <<s>>
        BY Zenon, <1>1, <2>1, <3>1 DEF ResponseInv, Aliases
    <3>3. tryExpandFQDN(bc, host) = <<s, ns, "svc">> \o bc.nodeDomain
        BY ONLY Zenon, <3>2, AliasExpanded
    <3> QED
        BY Zenon, <1>1, <3>1, <3>3
  <2>3. PICK ip : ip = last.table[fqdn][1]
      BY Zenon
  <2>4. ip # None
    <3>1. PICK ips : ips = last.table[fqdn] /\ IsSlice(ips) /\ None \notin Range(ips) /\ ips # <<>>
        BY Zenon, <1>1 DEF ResponseInv, Filtered, GoodTable
    <3>2. 1 \in DOMAIN ips
        BY <3>1 DEF IsSlice
    <3> QED
        BY Zenon, <2>3, <3>1, <3>2 DEF Range
  <2>5. resolveAddr(bc, last.table, n.host) = ip
      BY Zenon, <1>1, <2>1, <2>2, <2>3 DEF resolveAddr, Known
  <2>6. PICK name : name = [ip |-> ip, port |-> Port(n)]
      BY Zenon
  <2>7. getListenerName(bc, last.table, n) = name
    <3>1. Len(n.ports) \in Nat
        BY Zenon, <1>1, WatchedName, SliceDomain
    <3>2. ~(Len(n.ports) > 1)
        BY <1>1, <3>1
    <3> QED
        BY Zenon, <2>4, <2>5, <2>6, <3>2 DEF getListenerName, Port
  <2>8. PICK ret : ret = UnmarshalLDS(last.raw).ret
      BY Zenon
  <2>9. last.raw \in RawLDS /\ ~UnmarshalLDS(last.raw).err
      BY Zenon, <1>1 DEF ResponseInv, Filtered
  <2>10. name \in DOMAIN ret /\ l = RawListener(last.raw, name)
      BY Zenon, <1>1, <2>3, <2>6, <2>8, <2>9, LDSMade
  <2>11. ret[name] = unmarshalListener(l).res
    <3>1. PICK r \in Range(last.raw) :
              RawListener(last.raw, name) = r.msg /\ ret[name] = unmarshalListener(r.msg).res
        BY ZenonT(60), <2>8, <2>9, <2>10, LDSMade
    <3> QED
        BY Zenon, <2>10, <3>1
  <2>12. n \in DOMAIN last.up /\ last.up[n] = ret[name]
    <3>1. NameOf(bc, ndsRequired, last.table, n) = name
        BY Zenon, <1>1, <2>7 DEF NameOf
    <3> QED
        BY Zenon, <1>1, <2>8, <2>10, <3>1 DEF ResponseInv, Filtered
  <2>13. cache # None /\ mu = None /\ n \in DOMAIN cache => cache[n] = last.up[n]
      BY Zenon, <1>1, HoldersAssumption DEF ResponseInv, CleanedFrom
  <2> QED
      BY Zenon, <2>11, <2>12, <2>13
<1>2. ResponseInv => AliasesAgree
    BY Zenon, <1>1 DEF AliasesAgree
<1> QED
    BY <1>2, ResponseInit, ResponseStep, PTL DEF ListenerSpec
=============================================================================
