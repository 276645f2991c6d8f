-------------------------- MODULE RetryPolicyProofs --------------------------
(***************************************************************************)
(* Proofs that the policies of the retry container follow the updates, and *)
(* that each is what the server's messages ask for, for any route configs  *)
(* and responses.                                                          *)
(***************************************************************************)
EXTENDS RetryPolicy, XdsResourceProofs

-----------------------------------------------------------------------------
(* From a message to the calls of the handler *)

\* UnmarshalRDS makes a route config of the last message with its name.
LEMMA ConfigMade ==
    ASSUME NEW u \in Updates, NEW c \in Config, u[c] # None
    PROVE  \E hosts : /\ hosts = u[c].msg.hosts /\ GoodHosts(hosts)
                      /\ ~unmarshalRouteConfig(hosts, NoRate).err
                      /\ u[c].cfg = unmarshalRouteConfig(hosts, NoRate).res
<1>0. PICK raw \in RawRDS : ~UnmarshalRDS(raw).err /\ u = Filtered(raw)
    BY Zenon DEF Updates
<1> DEFINE rc(i) == unmarshalRouteConfig(raw[i].msg.hosts, NoRate)
           e(i) == IF ~Decodes(raw[i], "RouteConfig") THEN Entry("", Bad)
                   ELSE Entry(raw[i].msg.name, rc(i))
<1>1. PICK es : es = [i \in DOMAIN raw |-> e(i)]
    OBVIOUS
<1> DEFINE I == {i \in DOMAIN es : es[i].res # None /\ es[i].name = c}
           J == {i \in DOMAIN raw : raw[i].msg.name = c}
<1>2. Len(raw) \in Nat /\ DOMAIN raw = 1 .. Len(raw)
    BY Zenon, MessagesAssumption, SliceDomain
<1>3. DOMAIN es = 1 .. Len(raw)
    BY Zenon, <1>1, <1>2
<1>4. UnmarshalRDS(raw) = Unmarshalled(es)
    BY Zenon, <1>1 DEF UnmarshalRDS
<1>5. \A i \in DOMAIN raw : es[i] = e(i) /\ ~e(i).err
  <2> HIDE DEF e
  <2> QED
    BY Zenon, <1>0, <1>1, <1>4, UnmarshalledAll
<1>6. \A i \in DOMAIN raw : GoodHosts(raw[i].msg.hosts) /\ rc(i).res # None
  <2>1. \A i \in DOMAIN raw : raw[i] \in Range(raw)
      BY Zenon DEF Range
  <2> QED
      BY Zenon, <1>0, <2>1, MessagesAssumption
<1>7. \A i \in DOMAIN raw : es[i].name = raw[i].msg.name /\ es[i].res = rc(i).res /\ ~rc(i).err
  <2> SUFFICES ASSUME NEW i \in DOMAIN raw
               PROVE  es[i].name = raw[i].msg.name /\ es[i].res = rc(i).res /\ ~rc(i).err
      BY Zenon
  <2> HIDE DEF rc
  <2>1. Decodes(raw[i], "RouteConfig")
      BY <1>5 DEF Entry, Bad
  <2>2. es[i] = Entry(raw[i].msg.name, rc(i)) /\ ~es[i].err
      BY Zenon, <1>5, <2>1
  <2> QED
      BY <2>2 DEF Entry
<1>8. I = J
  <2> HIDE DEF rc
  <2> QED
    BY Zenon, <1>2, <1>3, <1>6, <1>7
<1>9. /\ c \in DOMAIN UnmarshalRDS(raw).ret
      /\ u[c] = [cfg |-> UnmarshalRDS(raw).ret[c], msg |-> Message(raw, c)]
    BY Zenon, <1>0 DEF Filtered
<1>10. PICK j \in DOMAIN es : j = LastOf(I) /\ Unmarshalled(es).ret[c] = es[j].res
  <2> HIDE DEF I
  <2>1. c \in DOMAIN Unmarshalled(es).ret
      BY Zenon, <1>4, <1>9
  <2>2. \E j \in DOMAIN es :
              /\ j = LastOf({i \in DOMAIN es : es[i].res # None /\ es[i].name = c})
              /\ \A i \in DOMAIN es : es[i].res # None /\ es[i].name = c => i <= j
              /\ es[j].res # None /\ es[j].name = c
              /\ Unmarshalled(es).ret[c] = es[j].res
      BY ONLY Zenon, <1>2, <1>3, <2>1, UnmarshalledFrom
  <2> QED
      BY Zenon, <2>2 DEF I
<1>11. Message(raw, c) = raw[j].msg
    BY Zenon, <1>8, <1>10 DEF Message
<1>12. u[c].msg = raw[j].msg /\ u[c].cfg = es[j].res
    BY SMTT(30), <1>4, <1>9, <1>10, <1>11
<1>13. j \in DOMAIN raw
    BY Zenon, <1>2, <1>3
<1> QED
    BY Zenon, <1>6, <1>7, <1>12, <1>13

\* The virtual hosts http are made of hosts, route by route.
MadeOf(hosts, http) ==
    /\ http = [h \in 1 .. Len(hosts) |-> http[h]]
    /\ \A h \in 1 .. Len(hosts) :
          /\ http[h] = [j \in 1 .. Len(hosts[h]) |-> http[h][j]]
          /\ \A j \in 1 .. Len(hosts[h]) :
                /\ http[h][j] = unmarshalRoute(hosts[h][j]).res
                /\ ~unmarshalRoute(hosts[h][j]).err

\* unmarshalRouteConfig makes one route of each, host by host.
LEMMA ConfigRoutes ==
    ASSUME NEW hosts, GoodHosts(hosts), ~unmarshalRouteConfig(hosts, NoRate).err
    PROVE  MadeOf(hosts, unmarshalRouteConfig(hosts, NoRate).res.http)
<1>1. PICK rs : rs = [h \in DOMAIN hosts |-> unmarshalRoutes(hosts[h])]
    OBVIOUS
<1>2. /\ Len(hosts) \in Nat /\ DOMAIN hosts = 1 .. Len(hosts)
      /\ \A h \in DOMAIN hosts : IsSlice(hosts[h])
  <2>1. \A h \in DOMAIN hosts : hosts[h] \in Range(hosts)
      BY Zenon DEF Range
  <2> QED
      BY Zenon, <2>1, SliceDomain DEF GoodHosts
<1>3. IsSlice(rs) /\ DOMAIN rs = DOMAIN hosts
  <2>1. rs = [h \in 1 .. Len(hosts) |-> rs[h]]
      BY <1>1, <1>2
  <2> QED
      BY Zenon, <1>1, <1>2, <2>1, SliceOf
<1>4. ~AllGood(rs).err /\ unmarshalRouteConfig(hosts, NoRate).res.http = AllGood(rs).res
  <2>1. PICK a : a = AllGood(rs)
      BY Zenon
  <2>2. unmarshalRouteConfig(hosts, NoRate) =
            IF a.err THEN Bad ELSE Good(RouteConfigResource(a.res, None, NoRate))
      BY Zenon, <1>1, <2>1 DEF unmarshalRouteConfig
  <2>3. ~a.err
      BY <2>2 DEF Bad
  <2> QED
      BY <2>1, <2>2, <2>3 DEF Good, RouteConfigResource
<1>5. /\ AllGood(rs).res = [h \in DOMAIN rs |-> rs[h].res]
      /\ \A h \in DOMAIN rs : ~rs[h].err
    BY Zenon, <1>3, <1>4, AllGoodResults
<1>6. PICK http : http = AllGood(rs).res
    BY Zenon
<1>7. ASSUME NEW h \in 1 .. Len(hosts)
      PROVE  /\ http[h] = [j \in 1 .. Len(hosts[h]) |-> http[h][j]]
             /\ \A j \in 1 .. Len(hosts[h]) :
                   /\ http[h][j] = unmarshalRoute(hosts[h][j]).res
                   /\ ~unmarshalRoute(hosts[h][j]).err
  <2>1. PICK host : host = hosts[h]
      BY Zenon
  <2>2. Len(host) \in Nat /\ DOMAIN host = 1 .. Len(host)
      BY Zenon, <1>2, <2>1, SliceDomain
  <2>3. PICK xs : xs = [j \in DOMAIN host |-> unmarshalRoute(host[j])]
      BY Zenon
  <2>4. IsSlice(xs) /\ DOMAIN xs = DOMAIN host
    <3>1. xs = [j \in 1 .. Len(host) |-> xs[j]]
        BY <2>2, <2>3
    <3> QED
        BY Zenon, <2>2, <3>1, SliceOf
  <2>5. rs[h] = AllGood(xs)
      BY Zenon, <1>1, <1>2, <2>1, <2>3 DEF unmarshalRoutes
  <2>6. http[h] = AllGood(xs).res /\ ~AllGood(xs).err
      BY Zenon, <1>2, <1>3, <1>5, <1>6, <2>5
  <2>7. /\ AllGood(xs).res = [j \in DOMAIN xs |-> xs[j].res]
        /\ \A j \in DOMAIN xs : ~xs[j].err
      BY Zenon, <2>4, <2>6, AllGoodResults
  <2>8. http[h] = [j \in 1 .. Len(host) |-> xs[j].res]
      BY Zenon, <2>2, <2>4, <2>6, <2>7
  <2>9. \A j \in 1 .. Len(host) : xs[j] = unmarshalRoute(host[j]) /\ ~xs[j].err
      BY Zenon, <2>2, <2>3, <2>4, <2>7
  <2>10. \A j \in 1 .. Len(host) : http[h][j] = xs[j].res
      BY Zenon, <2>8
  <2>11. http[h] = [j \in 1 .. Len(host) |-> http[h][j]]
      BY ONLY <2>8
  <2> QED
      BY Zenon, <2>1, <2>9, <2>10, <2>11
<1>8. http = [h \in 1 .. Len(hosts) |-> http[h]]
  <2>1. http = [h \in 1 .. Len(hosts) |-> rs[h].res]
      BY Zenon, <1>2, <1>3, <1>5, <1>6
  <2> QED
      BY ONLY <2>1
<1>9. MadeOf(hosts, http)
    BY Zenon, <1>7, <1>8 DEF MadeOf
<1> QED
    BY Zenon, <1>4, <1>6, <1>9

\* Each of the routes is made of the one of rts at its place.
Aligned(rts, routes) ==
    /\ IsSlice(rts) /\ IsSlice(routes) /\ Len(routes) = Len(rts)
    /\ \A i \in 1 .. Len(rts) : /\ GoodRoute(rts[i]) /\ ~unmarshalRoute(rts[i]).err
                                /\ routes[i] = unmarshalRoute(rts[i]).res

\* The routes of a route config are made of those of its message, in order.
LEMMA RoutesAligned ==
    ASSUME NEW u \in Updates, NEW c \in Config, u[c] # None
    PROVE  Aligned(Flatten(u[c].msg.hosts), Flatten(u[c].cfg.http))
<1>1. PICK hosts : /\ hosts = u[c].msg.hosts /\ GoodHosts(hosts)
                   /\ ~unmarshalRouteConfig(hosts, NoRate).err
                   /\ u[c].cfg = unmarshalRouteConfig(hosts, NoRate).res
    BY Zenon, ConfigMade
<1>2. PICK http : http = u[c].cfg.http /\ MadeOf(hosts, http)
    BY Zenon, <1>1, ConfigRoutes
<1>3. PICK S : S = {rt \in UNION {Range(rs) : rs \in Range(hosts)} :
                       GoodRoute(rt) /\ ~unmarshalRoute(rt).err}
    BY Zenon
<1>4. PICK U : U = {unmarshalRoute(rt).res : rt \in S}
    BY Zenon
<1>5. PICK R : R = {<<rt, unmarshalRoute(rt).res>> : rt \in S}
    BY Zenon
<1>6. /\ Len(hosts) \in Nat /\ hosts = [h \in 1 .. Len(hosts) |-> hosts[h]]
      /\ DOMAIN hosts = 1 .. Len(hosts)
    BY Zenon, <1>1, SliceDomain DEF GoodHosts
<1>7. ASSUME NEW h \in 1 .. Len(hosts)
      PROVE  /\ hosts[h] \in Seq(S) /\ http[h] \in Seq(U) /\ Len(http[h]) = Len(hosts[h])
             /\ \A j \in 1 .. Len(hosts[h]) : <<hosts[h][j], http[h][j]>> \in R
  <2>1. PICK host, made : host = hosts[h] /\ made = http[h]
      BY Zenon
  <2>2. hosts[h] \in Range(hosts)
      BY Zenon, <1>6 DEF Range
  <2>3. IsSlice(host) /\ \A rt \in Range(host) : GoodRoute(rt)
      BY Zenon, <1>1, <2>1, <2>2 DEF GoodHosts
  <2>4. /\ Len(host) \in Nat /\ DOMAIN host = 1 .. Len(host)
        /\ host = [j \in 1 .. Len(host) |-> host[j]]
      BY Zenon, <2>3, SliceDomain
  <2>5. /\ made = [j \in 1 .. Len(host) |-> made[j]]
        /\ \A j \in 1 .. Len(host) : /\ made[j] = unmarshalRoute(host[j]).res
                                     /\ ~unmarshalRoute(host[j]).err
      BY Zenon, <1>2, <2>1 DEF MadeOf
  <2>6. \A j \in 1 .. Len(host) : host[j] \in S
    <3>1. \A j \in 1 .. Len(host) : host[j] \in Range(host)
        BY Zenon, <2>4 DEF Range
    <3> QED
        BY Zenon, <1>3, <2>1, <2>2, <2>3, <2>5, <3>1
  <2>7. \A j \in 1 .. Len(host) : made[j] \in U /\ <<host[j], made[j]>> \in R
      BY Zenon, <1>4, <1>5, <2>5, <2>6
  <2>8. host \in Seq(S)
      BY Zenon, <2>4, <2>6, SliceOf
  <2>9. made \in Seq(U) /\ Len(made) = Len(host)
      BY Zenon, <2>4, <2>5, <2>7, SliceOf
  <2> QED
      BY Zenon, <2>1, <2>7, <2>8, <2>9
<1>8. hosts \in Seq(Seq(S))
    BY Zenon, <1>6, <1>7, SliceOf
<1>9. http \in Seq(Seq(U)) /\ Len(http) = Len(hosts)
  <2>1. http = [h \in 1 .. Len(hosts) |-> http[h]]
      BY Zenon, <1>2 DEF MadeOf
  <2> QED
      BY Zenon, <1>6, <1>7, <2>1, SliceOf
<1>10. PICK rts, routes : rts = Flatten(hosts) /\ routes = Flatten(http)
    BY Zenon
<1>11. rts \in Seq(S) /\ routes \in Seq(U)
    BY Zenon, <1>8, <1>9, <1>10, FlattenRange
<1>12. Len(rts) = Len(routes) /\ \A i \in 1 .. Len(rts) : <<rts[i], routes[i]>> \in R
  <2>1. /\ Len(hosts) = Len(http)
        /\ \A i \in 1 .. Len(hosts) : Len(hosts[i]) = Len(http[i]) /\
               \A j \in 1 .. Len(hosts[i]) : <<hosts[i][j], http[i][j]>> \in R
      BY Zenon, <1>7, <1>9
  <2>2. /\ Len(Flatten(hosts)) = Len(Flatten(http))
        /\ \A i \in 1 .. Len(Flatten(hosts)) : <<Flatten(hosts)[i], Flatten(http)[i]>> \in R
      BY ONLY Zenon, <1>8, <1>9, <2>1, FlattenPairs
  <2> QED
      BY Zenon, <1>10, <2>2
<1>13. \A a, b : <<a, b>> \in R => a \in S /\ b = unmarshalRoute(a).res
    BY <1>5
<1>14. \A i \in 1 .. Len(rts) : /\ GoodRoute(rts[i]) /\ ~unmarshalRoute(rts[i]).err
                                /\ routes[i] = unmarshalRoute(rts[i]).res
    BY Zenon, <1>3, <1>12, <1>13
<1>15. IsSlice(rts) /\ IsSlice(routes)
    BY Zenon, <1>11, SliceOverRange DEF IsSlice
<1>16. Aligned(rts, routes)
    BY Zenon, <1>12, <1>14, <1>15 DEF Aligned
<1> QED
    BY Zenon, <1>1, <1>2, <1>10, <1>16

\* The keys of a cluster as a set.
KeySet(name, methods) == {<<name>>} \cup {<<name, m>> : m \in Range(methods)}

\* The keys of a cluster.
LEMMA ClusterKeys ==
    ASSUME NEW name, NEW methods, IsSlice(methods)
    PROVE  /\ IsSlice(clusterKeys(name, methods))
           /\ Range(clusterKeys(name, methods)) = KeySet(name, methods)
<1>1. PICK ks : ks = [j \in DOMAIN methods |-> <<name, methods[j]>>]
    BY Zenon
<1>2. PICK S : S = KeySet(name, methods)
    BY Zenon
<1>3. Len(methods) \in Nat /\ DOMAIN methods = 1 .. Len(methods)
    BY Zenon, SliceDomain
<1>4. ks \in Seq(S)
  <2>1. ks = [j \in 1 .. Len(methods) |-> ks[j]]
      BY <1>1, <1>3
  <2>2. \A j \in 1 .. Len(methods) : ks[j] \in S
      BY Zenon, <1>1, <1>2, <1>3 DEF Range, KeySet
  <2> QED
      BY Zenon, <1>3, <2>1, <2>2, SliceOf
<1>5. PICK a, one : a = <<name>> /\ one = <<a>>
    BY Zenon
<1>6. a \in S
    BY Zenon, <1>2, <1>5 DEF KeySet
<1>7. one \in Seq(S) /\ DOMAIN one = {1} /\ one[1] = a
    BY ONLY <1>5, <1>6
<1>8. Range(one) = {<<name>>}
    BY Zenon, <1>5, <1>7 DEF Range
<1>9. Range(ks) = {<<name, m>> : m \in Range(methods)}
    BY Zenon, <1>1 DEF Range
<1>10. one \o ks \in Seq(S) /\ Range(one \o ks) = Range(one) \cup Range(ks)
  <2>1. one \o ks \in Seq(S)
      BY Zenon, <1>4, <1>7, ConcatLen
  <2>2. Range(one \o ks) = Range(one) \cup Range(ks)
      BY <1>4, <1>7, ConcatRange
  <2> QED
      BY Zenon, <2>1, <2>2
<1>11. clusterKeys(name, methods) = one \o ks
    BY Zenon, <1>1, <1>5 DEF clusterKeys
<1>12. IsSlice(one \o ks)
    BY Zenon, <1>10, SliceOverRange DEF IsSlice
<1>13. Range(one \o ks) = KeySet(name, methods)
    BY Zenon, <1>8, <1>9, <1>10 DEF KeySet
<1> QED
    BY Zenon, <1>11, <1>12, <1>13

\* The keys of a route.
LEMMA RouteKeys ==
    ASSUME NEW route, IsSlice(route.clusters), IsSlice(route.retry.Methods)
    PROVE  /\ IsSlice(routeKeys(route))
           /\ Range(routeKeys(route)) =
                 UNION {KeySet(wc.name, route.retry.Methods) : wc \in Range(route.clusters)}
<1>1. PICK wcs, ms : wcs = route.clusters /\ ms = route.retry.Methods
    BY Zenon
<1>2. PICK kss : kss = [i \in DOMAIN wcs |-> clusterKeys(wcs[i].name, ms)]
    BY Zenon
<1>3. Len(wcs) \in Nat /\ DOMAIN wcs = 1 .. Len(wcs) /\ IsSlice(ms)
  <2>1. IsSlice(wcs) /\ IsSlice(ms)
      BY Zenon, <1>1
  <2> QED
      BY Zenon, <2>1, SliceDomain
<1>4. PICK S : S = UNION {KeySet(wc.name, ms) : wc \in Range(wcs)}
    BY Zenon
<1>5. ASSUME NEW i \in DOMAIN wcs
      PROVE  /\ IsSlice(kss[i]) /\ Range(kss[i]) = KeySet(wcs[i].name, ms)
             /\ Range(kss[i]) \subseteq S
  <2>1. PICK name : name = wcs[i].name
      BY Zenon
  <2>2. kss[i] = clusterKeys(name, ms)
      BY Zenon, <1>2, <2>1
  <2>3. IsSlice(kss[i]) /\ Range(kss[i]) = KeySet(name, ms)
      BY Zenon, <1>3, <2>2, ClusterKeys
  <2>4. wcs[i] \in Range(wcs)
      BY Zenon DEF Range
  <2> QED
      BY Zenon, <1>4, <2>1, <2>3, <2>4
<1>6. ASSUME NEW i \in DOMAIN wcs PROVE kss[i] \in Seq(S)
  <2>1. PICK x : x = kss[i]
      BY Zenon
  <2>2. IsSlice(x) /\ Range(x) \subseteq S
      BY Zenon, <1>5, <2>1
  <2>3. /\ Len(x) \in Nat /\ DOMAIN x = 1 .. Len(x) /\ x = [j \in 1 .. Len(x) |-> x[j]]
      BY Zenon, <2>2, SliceDomain
  <2>4. \A j \in 1 .. Len(x) : x[j] \in S
      BY Zenon, <2>2, <2>3 DEF Range
  <2> QED
      BY Zenon, <2>1, <2>3, <2>4, SliceOf
<1>7. kss \in Seq(Seq(S)) /\ DOMAIN kss = DOMAIN wcs
  <2>1. kss = [i \in 1 .. Len(wcs) |-> kss[i]]
      BY <1>2, <1>3
  <2> QED
      BY Zenon, <1>2, <1>3, <1>6, <2>1, SliceOf
<1>8. routeKeys(route) = Flatten(kss)
    BY Zenon, <1>1, <1>2 DEF routeKeys
<1>9. Flatten(kss) \in Seq(S)
    BY Zenon, <1>7, FlattenRange
<1>10. \A k : k \in Range(Flatten(kss)) <=> \E i \in DOMAIN kss : k \in Range(kss[i])
    BY Zenon, <1>7, FlattenRange
<1>11. IsSlice(Flatten(kss))
    BY Zenon, <1>9, SliceOverRange DEF IsSlice
<1>12. \A wc : wc \in Range(wcs) <=> \E i \in DOMAIN wcs : wc = wcs[i]
    BY Zenon DEF Range
<1>13. ASSUME NEW k PROVE k \in Range(Flatten(kss)) <=> k \in S
  <2>1. ASSUME k \in Range(Flatten(kss)) PROVE k \in S
      BY Zenon, <1>5, <1>7, <1>10, <2>1
  <2>2. ASSUME k \in S PROVE k \in Range(Flatten(kss))
    <3>0. PICK wc \in Range(wcs) : k \in KeySet(wc.name, ms)
        BY Zenon, <1>4, <2>2
    <3>1. PICK i \in DOMAIN wcs : wc = wcs[i]
        BY Zenon, <1>12
    <3> QED
        BY Zenon, <1>5, <1>7, <1>10, <3>0, <3>1
  <2> QED
      BY Zenon, <2>1, <2>2
<1>14. Range(Flatten(kss)) = S
    BY Zenon, <1>13
<1> QED
    BY Zenon, <1>1, <1>4, <1>8, <1>11, <1>14

\* What unmarshalRoutes makes of one route.
LEMMA RouteMade ==
    ASSUME NEW rt, ~unmarshalRoute(rt).err
    PROVE  /\ rt.action.kind = "route" =>
                 /\ unmarshalRoute(rt).res.clusters = WeightedClusters(rt.action.spec)
                 /\ unmarshalRoute(rt).res.retry = unmarshalRetryPolicy(rt.action.retry)
           /\ rt.action.kind # "route" =>
                 /\ unmarshalRoute(rt).res.clusters = << >>
                 /\ unmarshalRoute(rt).res.retry = NoRetryPolicy
<1>1. ~(rt.match = None \/ rt.action = None)
    BY DEF unmarshalRoute, Bad
<1>2. PICK m, ks, t, rp :
        /\ unmarshalRoute(rt) = Good([match |-> m, clusters |-> ks, timeout |-> t, retry |-> rp])
        /\ ks = IF rt.action.kind = "route" THEN WeightedClusters(rt.action.spec) ELSE << >>
        /\ rp = IF rt.action.kind = "route" THEN unmarshalRetryPolicy(rt.action.retry)
                ELSE NoRetryPolicy
    BY Zenon, <1>1 DEF unmarshalRoute
<1>3. unmarshalRoute(rt).res.clusters = ks /\ unmarshalRoute(rt).res.retry = rp
    BY <1>2 DEF Good
<1> QED
    BY Zenon, <1>2, <1>3

\* The value of a header is a slice.
LEMMA HeaderSlice ==
    ASSUME NEW headers, IsSlice(headers), \A h \in Range(headers) : IsSlice(h.value), NEW name
    PROVE  IsSlice(RetriableHeader(headers, name))
<1>1. PICK I : I = {j \in DOMAIN headers : headers[j].name = name /\ headers[j].value # << >>}
    BY Zenon
<1>2. Len(headers) \in Nat /\ DOMAIN headers = 1 .. Len(headers)
    BY Zenon, SliceDomain
<1>3. RetriableHeader(headers, name) = IF LastOf(I) = 0 THEN << >> ELSE headers[LastOf(I)].value
    BY Zenon, <1>1 DEF RetriableHeader
<1>4. I \in SUBSET (1 .. Len(headers))
    BY Zenon, <1>1, <1>2
<1>5. LastOf(I) # 0 => LastOf(I) \in DOMAIN headers
  <2>1. LastOf(I) # 0 => I # {}
      BY Zenon DEF LastOf
  <2>2. I # {} => LastOf(I) \in I
      BY Zenon, <1>2, <1>4, LastOfIn
  <2> QED
      BY Zenon, <1>2, <1>4, <2>1, <2>2
<1>6. LastOf(I) # 0 => headers[LastOf(I)] \in Range(headers)
    BY Zenon, <1>5 DEF Range
<1>7. IsSlice(<< >>)
    BY DEF IsSlice
<1> QED
    BY Zenon, <1>3, <1>6, <1>7

\* The clusters of a route.
LEMMA SpecClusters ==
    ASSUME NEW spec, spec.kind = "weighted" => IsSlice(spec.clusters)
    PROVE  /\ IsSlice(WeightedClusters(spec))
           /\ \A n : (\E wc \in Range(WeightedClusters(spec)) : wc.name = n) <=>
                     \/ spec.kind = "cluster" /\ spec.cluster = n
                     \/ spec.kind = "weighted" /\
                           \E i \in DOMAIN spec.clusters : spec.clusters[i].name = n
<1>1. CASE spec.kind = "cluster"
  <2>1. PICK wc : wc = [name |-> spec.cluster, weight |-> 1]
      BY Zenon
  <2>2. WeightedClusters(spec) = <<wc>>
      BY Zenon, <1>1, <2>1 DEF WeightedClusters
  <2>3. wc.name = spec.cluster
      BY <2>1
  <2>4. IsSlice(<<wc>>) /\ \A x : x \in Range(<<wc>>) <=> x = wc
      BY ONLY TRUE DEF IsSlice, Range
  <2>5. spec.kind # "weighted"
      BY ONLY <1>1
  <2> QED
      BY Zenon, <1>1, <2>2, <2>3, <2>4, <2>5
<1>2. CASE spec.kind = "weighted"
  <2>1. spec.kind # "cluster"
      BY ONLY <1>2
  <2>2. WeightedClusters(spec) = spec.clusters
      BY <1>2, <2>1 DEF WeightedClusters
  <2> QED
      BY Zenon, <1>2, <2>1, <2>2 DEF Range
<1>3. CASE spec.kind \notin {"cluster", "weighted"}
  <2>1. WeightedClusters(spec) = << >>
      BY <1>3 DEF WeightedClusters
  <2>2. IsSlice(<< >>) /\ \A x : x \notin Range(<< >>)
      BY ONLY TRUE DEF IsSlice, Range
  <2> QED
      BY Zenon, <1>3, <2>1, <2>2
<1> QED
    BY Zenon, <1>1, <1>2, <1>3

\* A key is a cluster, or a cluster and a method.
KeyShape(k) == k = <<k[1]>> \/ k = <<k[1], k[2]>>

\* A route of a message names a key exactly if the handler makes a call for it.
LEMMA RouteNames ==
    ASSUME NEW rt, GoodRoute(rt), ~unmarshalRoute(rt).err, NEW k
    PROVE  /\ IsSlice(routeKeys(unmarshalRoute(rt).res))
           /\ k \in Range(routeKeys(unmarshalRoute(rt).res)) <=> NamesKey(rt, k) /\ KeyShape(k)
           /\ NamesKey(rt, k) => rt.action.kind = "route"
<1>1. PICK route, wcs, ms : /\ route = unmarshalRoute(rt).res
                            /\ wcs = route.clusters /\ ms = route.retry.Methods
    BY Zenon
<1>2. CASE rt.action.kind = "route"
  <2>1. PICK spec, rp : spec = rt.action.spec /\ rp = rt.action.retry
      BY Zenon
  <2>2. wcs = WeightedClusters(spec) /\ route.retry = unmarshalRetryPolicy(rp)
      BY Zenon, <1>1, <1>2, <2>1, RouteMade
  <2>3. (spec.kind = "weighted" => IsSlice(spec.clusters)) /\ (rp # None => GoodRetry(rp))
      BY Zenon, <1>2, <2>1 DEF GoodRoute
  <2>4. IsSlice(wcs)
      BY Zenon, <2>2, <2>3, SpecClusters
  <2>5. /\ rp = None => ms = << >>
        /\ rp # None => ms = RetriableHeader(rp.headers, "kitexRetryMethods")
    <3>1. CASE rp = None
        BY <1>1, <2>2, <3>1 DEF unmarshalRetryPolicy, NoRetryPolicy
    <3>2. CASE rp # None
      <4>1. PICK hs : hs = RetriableHeader(rp.headers, "kitexRetryMethods")
          BY Zenon
      <4> QED
        BY <1>1, <2>2, <3>2, <4>1 DEF unmarshalRetryPolicy
    <3> QED
        BY Zenon, <3>1, <3>2
  <2>6. IsSlice(ms) /\ (rp = None => Range(ms) = {})
    <3>1. IsSlice(<< >>) /\ Range(<< >>) = {}
        BY ONLY TRUE DEF IsSlice, Range
    <3>2. rp # None => IsSlice(RetriableHeader(rp.headers, "kitexRetryMethods"))
        BY Zenon, <2>3, HeaderSlice DEF GoodRetry
    <3> QED
        BY Zenon, <2>5, <3>1, <3>2
  <2>7. /\ IsSlice(routeKeys(route))
        /\ Range(routeKeys(route)) = UNION {KeySet(wc.name, ms) : wc \in Range(wcs)}
      BY Zenon, <1>1, <2>4, <2>6, RouteKeys
  <2>8. (\E wc \in Range(wcs) : wc.name = k[1]) <=>
            \/ spec.kind = "cluster" /\ spec.cluster = k[1]
            \/ spec.kind = "weighted" /\ \E i \in DOMAIN spec.clusters : spec.clusters[i].name = k[1]
    <3>1. \A n : (\E wc \in Range(WeightedClusters(spec)) : wc.name = n) <=>
                 \/ spec.kind = "cluster" /\ spec.cluster = n
                 \/ spec.kind = "weighted" /\
                       \E i \in DOMAIN spec.clusters : spec.clusters[i].name = n
        BY ONLY <2>3, SpecClusters
    <3> QED
        BY Zenon, <2>2, <3>1
  <2>9. NamesKey(rt, k) <=>
            /\ \E wc \in Range(wcs) : wc.name = k[1]
            /\ Len(k) = 2 => rp # None /\ k[2] \in Range(RetriableHeader(rp.headers, "kitexRetryMethods"))
      BY Zenon, <1>2, <2>1, <2>8 DEF NamesKey
  <2>10. NamesKey(rt, k) <=>
            (\E wc \in Range(wcs) : wc.name = k[1]) /\ (Len(k) = 2 => k[2] \in Range(ms))
      BY Zenon, <2>5, <2>6, <2>9
  <2>11. ASSUME k \in Range(routeKeys(route)) PROVE NamesKey(rt, k) /\ KeyShape(k)
    <3>0. PICK wc \in Range(wcs) : k \in KeySet(wc.name, ms)
        BY Zenon, <2>7, <2>11
    <3>2. PICK n : n = wc.name
        BY Zenon
    <3>1. k = <<n>> \/ \E m \in Range(ms) : k = <<n, m>>
        BY Zenon, <3>0, <3>2 DEF KeySet
    <3>3. CASE k = <<n>>
      <4>1. k[1] = n /\ Len(k) = 1
          BY ONLY <3>3
      <4>2. Len(k) # 2
          BY <4>1
      <4> QED
          BY Zenon, <2>10, <3>2, <3>3, <4>1, <4>2 DEF KeyShape
    <3>4. ASSUME NEW m \in Range(ms), k = <<n, m>> PROVE NamesKey(rt, k) /\ KeyShape(k)
      <4>1. k[1] = n /\ k[2] = m
          BY ONLY <3>4
      <4> QED
          BY Zenon, <2>10, <3>2, <3>4, <4>1 DEF KeyShape
    <3> QED
        BY Zenon, <3>1, <3>3, <3>4
  <2>12. ASSUME NamesKey(rt, k), KeyShape(k) PROVE k \in Range(routeKeys(route))
    <3>1. PICK wc \in Range(wcs) : wc.name = k[1]
        BY Zenon, <2>10, <2>12
    <3>2. k \in KeySet(wc.name, ms)
      <4>1. CASE k = <<k[1]>>
          BY Zenon, <3>1, <4>1 DEF KeySet
      <4>2. CASE k = <<k[1], k[2]>>
        <5>1. Len(k) = 2
            BY ONLY <4>2
        <5> QED
            BY Zenon, <2>10, <2>12, <3>1, <4>2, <5>1 DEF KeySet
      <4> QED
          BY Zenon, <2>12, <4>1, <4>2 DEF KeyShape
    <3> QED
        BY Zenon, <2>7, <3>2
  <2> QED
      BY Zenon, <1>1, <1>2, <2>7, <2>11, <2>12
<1>3. CASE rt.action.kind # "route"
  <2>1. wcs = << >> /\ route.retry = NoRetryPolicy
      BY Zenon, <1>1, <1>3, RouteMade
  <2>2. ms = << >>
      BY <1>1, <2>1 DEF NoRetryPolicy
  <2>3. IsSlice(<< >>) /\ \A x : x \notin Range(<< >>)
      BY ONLY TRUE DEF IsSlice, Range
  <2>4. IsSlice(wcs) /\ IsSlice(ms) /\ \A x : x \notin Range(wcs)
      BY Zenon, <2>1, <2>2, <2>3
  <2>5. /\ IsSlice(routeKeys(route))
        /\ Range(routeKeys(route)) = UNION {KeySet(wc.name, ms) : wc \in Range(wcs)}
      BY Zenon, <1>1, <2>4, RouteKeys
  <2>6. k \notin Range(routeKeys(route))
      BY Zenon, <2>4, <2>5
  <2>7. ~NamesKey(rt, k)
      BY Zenon, <1>3 DEF NamesKey
  <2> QED
      BY Zenon, <1>1, <2>5, <2>6, <2>7
<1> QED
    BY Zenon, <1>2, <1>3

\* A product of uint32 that fits is the product.
LEMMA ProductFits ==
    ASSUME NEW W \in Nat, W # 0, NEW n \in Nat, NEW t \in Nat, n * t < W
    PROVE  ((t % W) * (n % W)) % W = n * t
<1>1. ASSUME NEW x \in Nat, x < W PROVE x % W = x
    BY <1>1
<1>2. CASE n = 0
  <2>1. t % W \in Nat /\ n % W = 0
      BY <1>1, <1>2
  <2>2. (t % W) * (n % W) = 0 /\ n * t = 0
      BY <1>2, <2>1
  <2> QED
      BY <1>1, <2>2
<1>3. CASE t = 0
  <2>1. n % W \in Nat /\ t % W = 0
      BY <1>1, <1>3
  <2>2. (t % W) * (n % W) = 0 /\ n * t = 0
      BY <1>3, <2>1
  <2> QED
      BY <1>1, <2>2
<1>4. CASE n # 0 /\ t # 0
  <2>1. n <= n * t /\ t <= n * t
      BY <1>4
  <2>2. n < W /\ t < W
      BY <2>1
  <2>3. n % W = n /\ t % W = t
      BY Zenon, <1>1, <2>2
  <2>4. t * n = n * t /\ n * t \in Nat
      OBVIOUS
  <2> QED
      BY Zenon, <1>1, <2>3, <2>4
<1> QED
    BY Zenon, <1>2, <1>3, <1>4

\* The policy of a route is what its message asks for.
LEMMA PolicyAgrees ==
    ASSUME NEW rt, GoodRoute(rt), ~unmarshalRoute(rt).err, rt.action.kind = "route"
    PROVE  Agrees(retryPolicy(unmarshalRoute(rt).res), rt.action.retry)
<1>1. PICK route, rp : route = unmarshalRoute(rt).res /\ rp = rt.action.retry
    BY Zenon
<1>2. route.retry = unmarshalRetryPolicy(rp)
    BY Zenon, <1>1, RouteMade
<1>3. CASE rp = None
  <2>1. route.retry = NoRetryPolicy
      BY Zenon, <1>2, <1>3 DEF unmarshalRetryPolicy
  <2>2. [retry |-> NoRetryPolicy].retry = NoRetryPolicy
      BY Zenon
  <2>3. retryPolicy(route) = retryPolicy([retry |-> NoRetryPolicy])
      BY Zenon, <2>1, <2>2 DEF retryPolicy
  <2> QED
      BY Zenon, <1>1, <1>3, <2>3 DEF Agrees
<1>4. CASE rp # None
  <2>1. GoodRetry(rp)
      BY Zenon, <1>1, <1>4 DEF GoodRoute
  <2>2. PICK q, b : q = route.retry /\ b = q.RetryBackOff
      BY Zenon
  <2>3. /\ q.NumRetries = rp.numRetries /\ q.PerTryTimeout = rp.perTryTimeout
        /\ b = IF rp.backOff = None THEN None
               ELSE [BaseInterval |-> rp.backOff.MaxInterval, MaxInterval |-> rp.backOff.MaxInterval]
      BY <1>2, <1>4, <2>2 DEF unmarshalRetryPolicy
  <2>4. rp.backOff # None => b # None
      BY Zenon, <1>2, <2>1, <2>2 DEF GoodRetry
  <2>5. PICK p : p = retryPolicy(route)
      BY Zenon
  <2>6. /\ p.MaxRetryTimes = q.NumRetries
        /\ p.MaxDurationMS = ((q.PerTryTimeout % 2^WordBits) * (q.NumRetries % 2^WordBits)) % 2^WordBits
        /\ p.BackOffPolicy = BackOffPolicy(b)
    <3>1. PICK d : d = ((q.PerTryTimeout % 2^WordBits) * (q.NumRetries % 2^WordBits)) % 2^WordBits
        BY Zenon
    <3>2. p = [MaxRetryTimes |-> q.NumRetries, MaxDurationMS |-> d, ErrorRate |-> q.CBErrorRate,
               BackOffPolicy |-> BackOffPolicy(b)]
        BY Zenon, <2>2, <2>5, <3>1 DEF retryPolicy
    <3>3. p.MaxRetryTimes = q.NumRetries /\ p.MaxDurationMS = d /\ p.BackOffPolicy = BackOffPolicy(b)
        BY ONLY <3>2
    <3> QED
        BY Zenon, <3>1, <3>3
  <2>7. rp.numRetries * rp.perTryTimeout < 2^WordBits =>
            p.MaxDurationMS = rp.numRetries * rp.perTryTimeout
    <3>1. PICK W, n, t : W = 2^WordBits /\ n = rp.numRetries /\ t = rp.perTryTimeout
        BY Zenon
    <3>2. W \in Nat /\ W # 0 /\ n \in Nat /\ t \in Nat
      <4>1. W \in Nat \ {0}
          BY Zenon, <3>1, ConstantsAssumption
      <4> QED
          BY Zenon, <2>1, <3>1, <4>1 DEF GoodRetry
    <3>3. n * t < W => ((t % W) * (n % W)) % W = n * t
        BY Zenon, <3>2, ProductFits
    <3> QED
        BY Zenon, <2>3, <2>6, <3>1, <3>3
  <2>8. /\ p.BackOffPolicy.type = "none" <=> rp.backOff = None
        /\ rp.backOff # None => LongestPause(p.BackOffPolicy) = rp.backOff.MaxInterval
    <3>1. CASE rp.backOff = None
      <4>1. BackOffPolicy(b) = [type |-> "none"]
          BY Zenon, <2>3, <3>1 DEF BackOffPolicy
      <4>2. p.BackOffPolicy.type = "none"
          BY <2>6, <4>1
      <4> QED
          BY Zenon, <3>1, <4>2
    <3>2. CASE rp.backOff # None
      <4>1. PICK x : x = rp.backOff.MaxInterval
          BY Zenon
      <4>2. x \in Nat
          BY Zenon, <2>1, <3>2, <4>1 DEF GoodRetry
      <4>3. b.BaseInterval = x /\ b.MaxInterval = x /\ b # None
          BY <2>3, <2>4, <3>2, <4>1
      <4>4. ~(b.MaxInterval > b.BaseInterval)
          BY <4>2, <4>3
      <4>5. BackOffPolicy(b) = [type |-> "fixed", fix |-> x]
          BY Zenon, <4>3, <4>4 DEF BackOffPolicy
      <4>6. /\ [type |-> "fixed", fix |-> x].type \notin {"none", "random"}
            /\ [type |-> "fixed", fix |-> x].fix = x
          BY ONLY TRUE
      <4> QED
          BY Zenon, <2>6, <3>2, <4>1, <4>5, <4>6 DEF LongestPause
    <3> QED
        BY Zenon, <3>1, <3>2
  <2>9. p.MaxRetryTimes = rp.numRetries
      BY Zenon, <2>3, <2>6
  <2>10. Agrees(p, rp)
      BY Zenon, <1>4, <2>7, <2>8, <2>9 DEF Agrees
  <2> QED
      BY Zenon, <1>1, <2>5, <2>10
<1> QED
    BY Zenon, <1>3, <1>4

\* The calls for a route: one for each of its keys, with its policy.
LEMMA RouteCalls ==
    ASSUME NEW route, IsSlice(routeKeys(route))
    PROVE  /\ IsSlice(routeCalls(route))
           /\ \A n \in Range(routeCalls(route)) : n.policy = retryPolicy(route)
           /\ {n.key : n \in Range(routeCalls(route))} = Range(routeKeys(route))
<1>1. PICK ks, p, ns : /\ ks = routeKeys(route) /\ p = retryPolicy(route)
                       /\ ns = [j \in DOMAIN ks |-> [key |-> ks[j], policy |-> p]]
    BY Zenon
<1>2. routeCalls(route) = ns
    BY Zenon, <1>1 DEF routeCalls
<1>3. Len(ks) \in Nat /\ DOMAIN ks = 1 .. Len(ks)
    BY Zenon, <1>1, SliceDomain
<1>4. IsSlice(ns)
  <2>1. ns = [j \in 1 .. Len(ks) |-> ns[j]]
      BY ONLY <1>1, <1>3
  <2> QED
      BY Zenon, <1>3, <2>1, SliceOf
<1>5. \A j \in DOMAIN ks : ns[j].key = ks[j] /\ ns[j].policy = p
    BY ONLY <1>1
<1>6. DOMAIN ns = DOMAIN ks
    BY Zenon, <1>1
<1>7. \A n \in Range(ns) : n.policy = p
    BY Zenon, <1>5, <1>6 DEF Range
<1>8. {n.key : n \in Range(ns)} = Range(ks)
  <2>1. ASSUME NEW n \in Range(ns) PROVE n.key \in Range(ks)
    <3>1. PICK j \in DOMAIN ks : n = ns[j]
        BY Zenon, <1>6 DEF Range
    <3> QED
        BY Zenon, <1>5, <3>1 DEF Range
  <2>2. ASSUME NEW k \in Range(ks) PROVE \E n \in Range(ns) : k = n.key
    <3>1. PICK j \in DOMAIN ks : k = ks[j]
        BY Zenon DEF Range
    <3>2. ns[j] \in Range(ns)
        BY Zenon, <1>6 DEF Range
    <3> QED
        BY Zenon, <1>5, <3>1, <3>2
  <2> QED
      BY Zenon, <2>1, <2>2
<1> QED
    BY Zenon, <1>1, <1>2, <1>4, <1>7, <1>8

\* The calls for a route config, route by route, and all of them.
Blocks(cfg) == [i \in DOMAIN Flatten(cfg.http) |-> routeCalls(Flatten(cfg.http)[i])]

CallSet(cfg) == UNION {Range(Blocks(cfg)[i]) : i \in DOMAIN Flatten(cfg.http)}

\* Each route of a message, its calls, and the keys it names.
LEMMA CallBlocks ==
    ASSUME NEW u \in Updates, NEW c \in Config, u[c] # None,
           NEW i \in DOMAIN Flatten(u[c].cfg.http)
    PROVE  /\ IsSlice(Blocks(u[c].cfg)[i])
           /\ GoodRoute(Flatten(u[c].msg.hosts)[i]) /\ ~unmarshalRoute(Flatten(u[c].msg.hosts)[i]).err
           /\ \A n \in Range(Blocks(u[c].cfg)[i]) :
                 n.policy = retryPolicy(unmarshalRoute(Flatten(u[c].msg.hosts)[i]).res)
           /\ \A k : k \in {n.key : n \in Range(Blocks(u[c].cfg)[i])} <=>
                     NamesKey(Flatten(u[c].msg.hosts)[i], k) /\ KeyShape(k)
<1>1. PICK rts, routes : rts = Flatten(u[c].msg.hosts) /\ routes = Flatten(u[c].cfg.http)
    BY Zenon
<1>2. Aligned(rts, routes)
    BY Zenon, <1>1, RoutesAligned
<1>3. DOMAIN routes = 1 .. Len(rts)
  <2>1. IsSlice(routes) /\ Len(routes) = Len(rts)
      BY Zenon, <1>2 DEF Aligned
  <2> QED
      BY Zenon, <2>1, SliceDomain
<1>4. PICK rt, route : rt = rts[i] /\ route = routes[i]
    BY Zenon
<1>5. GoodRoute(rt) /\ ~unmarshalRoute(rt).err /\ route = unmarshalRoute(rt).res
    BY Zenon, <1>1, <1>2, <1>3, <1>4 DEF Aligned
<1>6. Blocks(u[c].cfg)[i] = routeCalls(route)
    BY Zenon, <1>1, <1>4 DEF Blocks
<1>7. /\ IsSlice(routeKeys(route))
      /\ \A k : k \in Range(routeKeys(route)) <=> NamesKey(rt, k) /\ KeyShape(k)
    BY Zenon, <1>5, RouteNames
<1>8. /\ IsSlice(routeCalls(route))
      /\ \A n \in Range(routeCalls(route)) : n.policy = retryPolicy(route)
      /\ {n.key : n \in Range(routeCalls(route))} = Range(routeKeys(route))
    BY Zenon, <1>7, RouteCalls
<1>9. \A k : k \in {n.key : n \in Range(routeCalls(route))} <=> NamesKey(rt, k) /\ KeyShape(k)
    BY Zenon, <1>7, <1>8
<1> QED
    BY Zenon, <1>1, <1>4, <1>5, <1>6, <1>8, <1>9

\* The calls for a route config are those for its routes, in order.
LEMMA CallsInOrder ==
    ASSUME NEW u \in Updates, NEW c \in Config, u[c] # None
    PROVE  /\ Blocks(u[c].cfg) \in Seq(Seq(CallSet(u[c].cfg)))
           /\ DOMAIN Blocks(u[c].cfg) = DOMAIN Flatten(u[c].cfg.http)
           /\ Notifications(u[c].cfg) = Flatten(Blocks(u[c].cfg))
<1>1. PICK cfg, routes, ss, S : /\ cfg = u[c].cfg /\ routes = Flatten(cfg.http)
                                /\ ss = Blocks(cfg) /\ S = CallSet(cfg)
    BY Zenon
<1>2. IsSlice(routes)
    BY Zenon, <1>1, RoutesAligned DEF Aligned
<1>3. Len(routes) \in Nat /\ DOMAIN routes = 1 .. Len(routes)
    BY Zenon, <1>2, SliceDomain
<1>4. ss = [i \in DOMAIN routes |-> routeCalls(routes[i])]
    BY Zenon, <1>1 DEF Blocks
<1>5. ASSUME NEW i \in 1 .. Len(routes) PROVE ss[i] \in Seq(S)
  <2>1. PICK x : x = ss[i]
      BY Zenon
  <2>2. IsSlice(x)
      BY Zenon, <1>1, <1>3, <2>1, CallBlocks
  <2>3. Range(x) \subseteq S
      BY Zenon, <1>1, <1>3, <2>1 DEF CallSet
  <2>4. /\ Len(x) \in Nat /\ DOMAIN x = 1 .. Len(x) /\ x = [j \in 1 .. Len(x) |-> x[j]]
      BY Zenon, <2>2, SliceDomain
  <2>5. \A j \in 1 .. Len(x) : x[j] \in S
      BY Zenon, <2>3, <2>4 DEF Range
  <2> QED
      BY Zenon, <2>1, <2>4, <2>5, SliceOf
<1>6. ss \in Seq(Seq(S))
  <2>1. ss = [i \in 1 .. Len(routes) |-> ss[i]]
      BY ONLY <1>3, <1>4
  <2> QED
      BY Zenon, <1>3, <1>5, <2>1, SliceOf
<1>7. Notifications(cfg) = Flatten(ss)
    BY Zenon, <1>1, <1>4 DEF Notifications
<1>8. DOMAIN ss = DOMAIN routes
    BY Zenon, <1>4
<1> QED
    BY Zenon, <1>1, <1>6, <1>7, <1>8

\* Every call for a route config passes a policy.
LEMMA CallsGood ==
    ASSUME NEW u \in Updates, NEW c \in Config, u[c] # None
    PROVE  /\ IsSlice(Notifications(u[c].cfg))
           /\ \A n \in Range(Notifications(u[c].cfg)) : n.policy # None
<1>1. PICK ss, S, ns : /\ ss = Blocks(u[c].cfg) /\ S = CallSet(u[c].cfg)
                       /\ ns = Notifications(u[c].cfg)
    BY Zenon
<1>2. ss \in Seq(Seq(S)) /\ DOMAIN ss = DOMAIN Flatten(u[c].cfg.http) /\ ns = Flatten(ss)
    BY Zenon, <1>1, CallsInOrder
<1>3. ns \in Seq(S) /\ \A x : x \in Range(ns) <=> \E i \in DOMAIN ss : x \in Range(ss[i])
    BY Zenon, <1>2, FlattenRange
<1>4. ASSUME NEW n \in Range(ns) PROVE n.policy # None
  <2>1. PICK i \in DOMAIN ss : n \in Range(ss[i])
      BY Zenon, <1>3
  <2>2. PICK rt : rt = Flatten(u[c].msg.hosts)[i]
      BY Zenon
  <2>3. GoodRoute(rt) /\ n.policy = retryPolicy(unmarshalRoute(rt).res)
      BY Zenon, <1>1, <1>2, <2>1, <2>2, CallBlocks
  <2> QED
      BY Zenon, <2>3 DEF GoodRoute
<1>5. IsSlice(ns)
    BY Zenon, <1>3, SliceOverRange DEF IsSlice
<1> QED
    BY Zenon, <1>1, <1>4, <1>5

\* The last of the calls ns for k passes policy p.
FinalIn(ns, k, p) ==
    \E i \in 1 .. Len(ns) : /\ ns[i].key = k /\ ns[i].policy = p
                            /\ \A j \in 1 .. Len(ns) : i < j => ns[j].key # k

\* The last call for a key is for the last route of the message to name the key.
LEMMA FinalAgrees ==
    ASSUME NEW u \in Updates, NEW c \in Config, u[c] # None, NEW k, NEW p,
           FinalIn(Notifications(u[c].cfg), k, p)
    PROVE  LET rts == Flatten(u[c].msg.hosts)
               i   == LastOf({j \in DOMAIN rts : NamesKey(rts[j], k)})
           IN  i # 0 /\ Agrees(p, rts[i].action.retry)
<1>1. PICK ss, S, ns, rts : /\ ss = Blocks(u[c].cfg) /\ S = CallSet(u[c].cfg)
                            /\ ns = Notifications(u[c].cfg) /\ rts = Flatten(u[c].msg.hosts)
    BY Zenon
<1>2. /\ ss \in Seq(Seq(S)) /\ ns = Flatten(ss)
      /\ DOMAIN ss = DOMAIN Flatten(u[c].cfg.http)
    BY Zenon, <1>1, CallsInOrder
<1>3. Len(rts) \in Nat /\ DOMAIN rts = 1 .. Len(rts) /\ DOMAIN ss = 1 .. Len(rts)
  <2>1. PICK routes : routes = Flatten(u[c].cfg.http)
      BY Zenon
  <2>2. IsSlice(rts) /\ IsSlice(routes) /\ Len(routes) = Len(rts)
      BY Zenon, <1>1, <2>1, RoutesAligned DEF Aligned
  <2>3. Len(rts) \in Nat /\ DOMAIN rts = 1 .. Len(rts)
      BY Zenon, <2>2, SliceDomain
  <2>4. DOMAIN routes = 1 .. Len(routes)
      BY Zenon, <2>2, SliceDomain
  <2> QED
      BY Zenon, <1>2, <2>1, <2>2, <2>3, <2>4
<1>4. PICK l \in 1 .. Len(ns) : /\ ns[l].key = k /\ ns[l].policy = p
                                /\ \A j \in 1 .. Len(ns) : l < j => ns[j].key # k
    BY Zenon, <1>1 DEF FinalIn
<1>5. PICK P : P = {n \in S : n.key = k}
    BY Zenon
<1>6. ns \in Seq(S)
    BY Zenon, <1>2, FlattenRange
<1>7. ns[l] \in S
    BY ONLY <1>4, <1>6
<1>8. ns[l] \in P /\ \A j \in 1 .. Len(ns) : l < j => ns[j] \notin P
    BY Zenon, <1>4, <1>5, <1>7
<1>9. PICK m \in DOMAIN ss : /\ ns[l] \in Range(ss[m])
                             /\ \A h \in DOMAIN ss : m < h => Range(ss[h]) \cap P = {}
  <2>1. /\ l \in 1 .. Len(Flatten(ss)) /\ Flatten(ss)[l] \in P
        /\ \A j \in 1 .. Len(Flatten(ss)) : l < j => Flatten(ss)[j] \notin P
      BY Zenon, <1>2, <1>8
  <2>2. \E m \in DOMAIN ss : /\ Flatten(ss)[l] \in Range(ss[m])
                             /\ \A h \in DOMAIN ss : m < h => Range(ss[h]) \cap P = {}
      BY ONLY Zenon, <1>2, <2>1, FlattenLast
  <2> QED
      BY Zenon, <1>2, <2>2
<1>10. ASSUME NEW h \in DOMAIN ss
       PROVE  /\ GoodRoute(rts[h]) /\ ~unmarshalRoute(rts[h]).err
              /\ \A n \in Range(ss[h]) : n.policy = retryPolicy(unmarshalRoute(rts[h]).res)
              /\ k \in {n.key : n \in Range(ss[h])} <=> NamesKey(rts[h], k) /\ KeyShape(k)
    BY Zenon, <1>1, <1>2, CallBlocks
<1>11. NamesKey(rts[m], k) /\ KeyShape(k)
    BY Zenon, <1>4, <1>9, <1>10
<1>12. ASSUME NEW h \in DOMAIN ss, m < h PROVE ~NamesKey(rts[h], k)
  <2>1. SUFFICES ASSUME NamesKey(rts[h], k) PROVE FALSE
      BY Zenon
  <2>2. PICK n \in Range(ss[h]) : k = n.key
      BY Zenon, <1>10, <1>11, <2>1
  <2>3. n \in S
      BY Zenon, <1>1, <1>2, <2>2 DEF CallSet
  <2> QED
      BY Zenon, <1>5, <1>9, <1>12, <2>2, <2>3
<1>13. PICK J : J = {j \in DOMAIN rts : NamesKey(rts[j], k)}
    BY Zenon
<1>14. J \in SUBSET (1 .. Len(rts)) /\ m \in J
    BY Zenon, <1>3, <1>11, <1>13
<1>15. LastOf(J) \in J /\ m <= LastOf(J)
    BY Zenon, <1>3, <1>14, LastOfIn
<1>16. ~(m < LastOf(J))
    BY Zenon, <1>3, <1>12, <1>13, <1>15
<1>17. LastOf(J) = m /\ m # 0
    BY <1>3, <1>14, <1>15, <1>16
<1>18. Agrees(p, rts[m].action.retry)
  <2>1. PICK rt : rt = rts[m]
      BY Zenon
  <2>2. GoodRoute(rt) /\ ~unmarshalRoute(rt).err /\ p = retryPolicy(unmarshalRoute(rt).res)
      BY Zenon, <1>4, <1>9, <1>10, <2>1
  <2>3. rt.action.kind = "route"
      BY Zenon, <1>11, <2>1 DEF NamesKey
  <2> QED
      BY Zenon, <2>1, <2>2, <2>3, PolicyAgrees
<1> QED
    BY Zenon, <1>1, <1>13, <1>17, <1>18

-----------------------------------------------------------------------------
(* Which policies are in force *)

\* The keys that have a policy.
InForce == {k \in Key : policies[k] # None}

\* The keys of the calls that are left for the current route config.
PendingKeys == {pending[i].key : i \in 1..Len(pending)}

\* m holds route configs of responses.
FromUpdates(m) == \A c \in Config : m[c] # None => \E u \in Updates : u[c] = m[c]

\* The loops of the handler.  It adds policies to those of the last update,
\* which stay until all new ones are there; the ones it then deletes are those
\* the update does not name.
HandlerInv ==
    /\ pc \in {"idle", "range", "notify", "delete"}
    /\ policies = [k \in Key |-> policies[k]]
    /\ FromUpdates(up) /\ FromUpdates(cache)
    /\ pc = "idle" => InForce = UpdateKeys(up) /\ lastPolicies = UpdateKeys(up)
    /\ pc \in {"range", "notify"} =>
          /\ lastPolicies \subseteq InForce
          /\ InForce \subseteq lastPolicies \cup UpdateKeys(up)
          /\ \A c \in Config \ todo : up[c] # None =>
                KeysOf(up[c].cfg) \subseteq InForce \cup PendingKeys
          /\ todo \subseteq {c \in Config : up[c] # None}
    /\ pc # "notify" => PendingKeys = {}
    /\ pc = "notify" => /\ pending \in Seq(Range(pending))
                        /\ \A i \in 1..Len(pending) : /\ pending[i].policy # None
                                                      /\ pending[i].key \in UpdateKeys(up)
    /\ pc = "delete" =>
          /\ InForce = UpdateKeys(up) \cup stale
          /\ stale \cap UpdateKeys(up) = {}

\* The route configs of responses name known keys only.
LEMMA KeysKnown ==
    ASSUME NEW m, FromUpdates(m)
    PROVE  /\ UpdateKeys(m) \subseteq Key
           /\ \A c \in Config : m[c] # None => KeysOf(m[c].cfg) \subseteq UpdateKeys(m)
<1>1. \A c \in Config : m[c] # None => KeysOf(m[c].cfg) \subseteq UpdateKeys(m)
    BY DEF UpdateKeys
<1>2. ASSUME NEW c \in Config, m[c] # None PROVE KeysOf(m[c].cfg) \subseteq Key
    <2>1. PICK u \in Updates : u[c] = m[c]
        BY <1>2 DEF FromUpdates
    <2>2. KeysOf(m[c].cfg) \subseteq UpdateKeys(u)
        BY <1>2, <2>1 DEF UpdateKeys
    <2> QED
        BY <2>1, <2>2 DEF Key
<1> QED
    BY <1>1, <1>2 DEF UpdateKeys

\* The calls for a route config of a response.
LEMMA NotificationsKnown ==
    ASSUME NEW m, FromUpdates(m), NEW c \in Config, m[c] # None
    PROVE  LET ns == Notifications(m[c].cfg)
           IN  /\ ns \in Seq(Range(ns))
               /\ KeysOf(m[c].cfg) = {ns[i].key : i \in 1..Len(ns)}
               /\ \A i \in 1..Len(ns) : ns[i].policy # None
<1> DEFINE ns == Notifications(m[c].cfg)
<1>1. PICK u \in Updates : u[c] = m[c]
    BY DEF FromUpdates
<1>2. ns \in Seq(Range(ns)) /\ \A n \in Range(ns) : n.policy # None
  <2>1. IsSlice(ns) /\ \A n \in Range(ns) : n.policy # None
      BY Zenon, <1>1, CallsGood
  <2> QED
      BY Zenon, <2>1 DEF IsSlice
<1>3. KeysOf(m[c].cfg) = {n.key : n \in Range(ns)}
    BY DEF KeysOf
<1> HIDE DEF ns
<1>4. DOMAIN ns = 1..Len(ns)
    BY <1>2
<1>5. Range(ns) = {ns[i] : i \in 1..Len(ns)}
    BY <1>4 DEF Range
<1> QED
    BY SMTT(30), <1>2, <1>3, <1>5 DEF ns

\* A call of the handler starts from the policies of the last update.
LEMMA HandlerCall ==
    ASSUME HandlerInv, NEW m, FromUpdates(m), pc = "idle", pc' = "range", up' = m,
           todo' = {c \in Config : m[c] # None},
           UNCHANGED <<pending, lastPolicies, policies, cache>>
    PROVE  HandlerInv'
<1>1. /\ lastPolicies = InForce /\ InForce' = InForce
      /\ policies' = [k \in Key |-> policies'[k]]
      /\ FromUpdates(cache)' /\ FromUpdates(up)'
    BY DEF HandlerInv, InForce, FromUpdates
<1>2. \A c \in Config \ todo' : up'[c] = None
    OBVIOUS
<1>3. PendingKeys' = {}
    BY DEF HandlerInv, PendingKeys
<1> QED
    BY <1>1, <1>2, <1>3 DEF HandlerInv

\* The loop goes on with another route config.
LEMMA HandlerRange ==
    ASSUME HandlerInv, NEW c \in Config, RangeNext(c)
    PROVE  HandlerInv'
<1> DEFINE ns == Notifications(up[c].cfg)
<1>1. /\ pc = "range" /\ pc' = "notify" /\ c \in todo /\ todo' = todo \ {c} /\ pending' = ns
      /\ UNCHANGED <<up, lastPolicies, policies, cache>>
    BY DEF RangeNext
<1>2. up[c] # None /\ FromUpdates(up)
    BY <1>1 DEF HandlerInv
<1>3. /\ ns \in Seq(Range(ns))
      /\ KeysOf(up[c].cfg) = {ns[i].key : i \in 1..Len(ns)}
      /\ \A i \in 1..Len(ns) : ns[i].policy # None
    BY <1>2, NotificationsKnown
<1>4. KeysOf(up[c].cfg) \subseteq UpdateKeys(up)
    BY <1>2, KeysKnown
<1> HIDE DEF ns
<1>5. PendingKeys' = KeysOf(up[c].cfg) /\ InForce' = InForce
    BY <1>1, <1>3 DEF PendingKeys, InForce
<1>6. \A i \in 1..Len(ns) : ns[i].key \in UpdateKeys(up)
    BY <1>3, <1>4
<1>7. \A d \in Config \ todo' : up[d] # None => KeysOf(up[d].cfg) \subseteq InForce \cup PendingKeys'
    BY <1>1, <1>5 DEF HandlerInv
<1>8. FromUpdates(up)' /\ FromUpdates(cache)' /\ policies' = [k \in Key |-> policies'[k]]
    BY <1>1 DEF HandlerInv, FromUpdates
<1>9. /\ lastPolicies \subseteq InForce /\ InForce \subseteq lastPolicies \cup UpdateKeys(up)
      /\ todo' \subseteq {d \in Config : up[d] # None}
    BY <1>1 DEF HandlerInv
<1>10. pending' \in Seq(Range(pending'))
    BY <1>1, <1>3
<1> QED
    BY <1>1, <1>3, <1>5, <1>6, <1>7, <1>8, <1>9, <1>10 DEF HandlerInv

\* One NotifyPolicyChange: the key has a policy from now on.
LEMMA HandlerNotify ==
    ASSUME HandlerInv, NotifyPolicyChange
    PROVE  HandlerInv'
<1> DEFINE h == Head(pending)
           n == Len(pending)
<1>1. /\ pc = "notify" /\ pending # <<>> /\ pending' = Tail(pending)
      /\ policies' = [policies EXCEPT ![h.key] = h.policy]
      /\ UNCHANGED <<pc, up, todo, lastPolicies, cache>>
    BY DEF NotifyPolicyChange
<1>2. pending \in Seq(Range(pending))
    BY <1>1 DEF HandlerInv
<1>3. /\ n \in Nat /\ 1 \in 1..n /\ h = pending[1] /\ Len(pending') = n - 1
      /\ \A i \in 1..(n - 1) : i + 1 \in 1..n /\ pending'[i] = pending[i + 1]
    BY <1>1, <1>2
<1>4. h.policy # None /\ h.key \in UpdateKeys(up) /\ UpdateKeys(up) \subseteq Key
    BY <1>1, <1>3, KeysKnown DEF HandlerInv
<1>5. pending' \in Seq(Range(pending'))
    <2>1. pending' \in Seq(Range(pending)) /\ DOMAIN pending' = 1..Len(pending')
        BY <1>1, <1>2
    <2>2. \A i \in 1..Len(pending') : pending'[i] \in Range(pending')
        BY <2>1 DEF Range
    <2> QED
        BY <2>1, <2>2
<1> HIDE DEF h, n
<1>6. InForce' = InForce \cup {h.key} /\ policies' = [k \in Key |-> policies'[k]]
    BY <1>1, <1>4 DEF HandlerInv, InForce
<1>7. PendingKeys \subseteq PendingKeys' \cup {h.key}
    <2> SUFFICES ASSUME NEW i \in 1..n PROVE pending[i].key \in PendingKeys' \cup {h.key}
        BY DEF PendingKeys, n
    <2>1. CASE i = 1
        BY <1>3, <2>1
    <2>2. CASE i # 1
        <3>1. i - 1 \in 1..Len(pending') /\ pending'[i - 1] = pending[i]
            BY <1>3, <2>2
        <3> QED
            BY <3>1 DEF PendingKeys
    <2> QED
        BY <2>1, <2>2
<1>8. \A i \in 1..Len(pending') : /\ pending'[i].policy # None
                                  /\ pending'[i].key \in UpdateKeys(up)
    BY <1>1, <1>3 DEF HandlerInv, n
<1>9. FromUpdates(up)' /\ FromUpdates(cache)'
    BY <1>1 DEF HandlerInv, FromUpdates
<1>10. \A c \in Config \ todo : up[c] # None => KeysOf(up[c].cfg) \subseteq InForce' \cup PendingKeys'
    BY <1>1, <1>6, <1>7 DEF HandlerInv
<1>11. /\ lastPolicies \subseteq InForce' /\ InForce' \subseteq lastPolicies \cup UpdateKeys(up)
       /\ todo \subseteq {c \in Config : up[c] # None}
    BY <1>1, <1>4, <1>6 DEF HandlerInv
<1> QED
    BY <1>1, <1>5, <1>6, <1>8, <1>9, <1>10, <1>11 DEF HandlerInv

\* Only the cache changes.
LEMMA HandlerSame ==
    ASSUME HandlerInv, FromUpdates(cache)',
           UNCHANGED <<pc, up, todo, pending, stale, lastPolicies, policies>>
    PROVE  HandlerInv'
<1>1. InForce' = InForce /\ PendingKeys' = PendingKeys /\ FromUpdates(up)'
    BY DEF HandlerInv, InForce, PendingKeys, FromUpdates
<1> QED
    BY <1>1 DEF HandlerInv

\* Every step preserves HandlerInv.
LEMMA HandlerStep == HandlerInv /\ [Next]_vars => HandlerInv'
<1> SUFFICES ASSUME HandlerInv, [Next]_vars PROVE HandlerInv'
    OBVIOUS
<1>1. ASSUME NEW u \in Updates, UpdateCache(u) PROVE HandlerInv'
    <2>1. /\ pc = "idle" /\ cache' = Merged(u)
          /\ UNCHANGED <<pc, up, todo, pending, stale, lastPolicies, policies>>
        BY <1>1 DEF UpdateCache
    <2>2. FromUpdates(cache)'
        BY <2>1 DEF HandlerInv, FromUpdates, Merged
    <2> QED
        BY <2>1, <2>2, HandlerSame
<1>2. ASSUME NEW u \in Updates, updateRetryPolicy(u) PROVE HandlerInv'
    BY <1>2, HandlerCall DEF updateRetryPolicy, FromUpdates
<1>3. CASE NewRetryPolicy
    <2>1. CASE \E c \in Config : cache[c] # None
        BY <1>3, <2>1, HandlerCall DEF NewRetryPolicy, HandlerInv
    <2>2. CASE UNCHANGED <<pc, up, todo>>
        <3>1. FromUpdates(cache)'
            BY <1>3 DEF NewRetryPolicy, HandlerInv, FromUpdates
        <3> QED
            BY <1>3, <2>2, <3>1, HandlerSame DEF NewRetryPolicy
    <2> QED
        BY <1>3, <2>1, <2>2 DEF NewRetryPolicy
<1>4. ASSUME NEW c \in Config, RangeNext(c) PROVE HandlerInv'
    BY <1>4, HandlerRange
<1>5. CASE NotifyPolicyChange
    BY <1>5, HandlerNotify
<1>6. CASE NotifyDone
    <2>1. PendingKeys = {} /\ PendingKeys' = PendingKeys /\ InForce' = InForce
        BY <1>6 DEF NotifyDone, PendingKeys, InForce
    <2> QED
        BY <1>6, <2>1 DEF NotifyDone, HandlerInv, FromUpdates
<1>7. CASE RangeDone
    <2>1. /\ pc = "range" /\ todo = {} /\ pc' = "delete" /\ stale' = lastPolicies \ UpdateKeys(up)
          /\ UNCHANGED <<up, pending, lastPolicies, policies, cache>>
        BY <1>7 DEF RangeDone
    <2>2. InForce' = InForce /\ PendingKeys' = {} /\ PendingKeys = {}
        <3>1. PendingKeys = {}
            BY <2>1 DEF HandlerInv
        <3>2. InForce' = InForce /\ PendingKeys' = PendingKeys
            BY <2>1 DEF InForce, PendingKeys
        <3> QED
            BY <3>1, <3>2
    <2>3. UpdateKeys(up) \subseteq InForce
        BY <2>1, <2>2 DEF HandlerInv, UpdateKeys
    <2>4. InForce = UpdateKeys(up) \cup stale'
        BY <2>1, <2>3 DEF HandlerInv
    <2> QED
        BY <2>1, <2>2, <2>4 DEF HandlerInv, FromUpdates
<1>8. ASSUME NEW k \in Key, DeletePolicy(k) PROVE HandlerInv'
    <2>1. /\ pc = "delete" /\ k \in stale /\ stale' = stale \ {k}
          /\ policies' = [policies EXCEPT ![k] = None]
          /\ UNCHANGED <<pc, up, pending, lastPolicies, cache>>
        BY <1>8 DEF DeletePolicy
    <2>2. InForce' = InForce \ {k} /\ policies' = [j \in Key |-> policies'[j]]
        BY <2>1 DEF HandlerInv, InForce
    <2> QED
        BY SMTT(30), <2>1, <2>2 DEF HandlerInv, FromUpdates, PendingKeys
<1>9. CASE StoreLastPolicies
    <2>1. /\ pc = "delete" /\ stale = {} /\ pc' = "idle" /\ lastPolicies' = UpdateKeys(up)
          /\ cache' = Merged(up) /\ UNCHANGED <<up, pending, policies>>
        BY <1>9 DEF StoreLastPolicies
    <2>2. FromUpdates(cache)'
        BY <2>1 DEF HandlerInv, FromUpdates, Merged
    <2>3. InForce' = InForce /\ PendingKeys' = PendingKeys /\ FromUpdates(up)'
        BY <2>1 DEF InForce, PendingKeys, FromUpdates, HandlerInv
    <2> QED
        BY <2>1, <2>2, <2>3 DEF HandlerInv
<1>10. CASE UNCHANGED vars
    <2>1. FromUpdates(cache)'
        BY <1>10 DEF vars, HandlerInv, FromUpdates
    <2> QED
        BY <1>10, <2>1, HandlerSame DEF vars
<1> QED
    BY <1>1, <1>2, <1>3, <1>4, <1>5, <1>6, <1>7, <1>8, <1>9, <1>10 DEF Next

\* HandlerInv in every reachable state.
LEMMA HandlerCorrect == Spec => []HandlerInv
<1>1. Init => HandlerInv
    <2> SUFFICES ASSUME Init PROVE HandlerInv
        OBVIOUS
    <2>1. UpdateKeys(up) = {} /\ InForce = {} /\ 1..Len(pending) = {}
        BY DEF Init, UpdateKeys, InForce
    <2> QED
        BY <2>1 DEF Init, HandlerInv, FromUpdates, PendingKeys
<1> QED
    BY <1>1, HandlerStep, PTL DEF Spec

\* The loops of updateRetryPolicy and the merge of the update into the cache: after
\* an update there are policies for all keys it names and for none that no cached
\* route config names, whatever updates came before.
THEOREM PoliciesFollowUpdates == Spec => PoliciesFollow
<1> DEFINE Step == pc # "idle" /\ pc' = "idle" =>
                      LET inForce == {k \in Key : policies'[k] # None}
                      IN  UpdateKeys(up) \subseteq inForce /\ inForce \subseteq UpdateKeys(cache')
<1>1. HandlerInv /\ [Next]_vars => [Step]_vars
  <2> SUFFICES ASSUME HandlerInv, [Next]_vars, pc # "idle", pc' = "idle"
               PROVE  Step
      BY Zenon
  <2>1. StoreLastPolicies
      BY Zenon DEF Next, vars, UpdateCache, NewRetryPolicy, updateRetryPolicy, RangeNext,
                   NotifyPolicyChange, NotifyDone, RangeDone, DeletePolicy
  <2>2. pc = "delete" /\ stale = {} /\ cache' = Merged(up) /\ policies' = policies
      BY Zenon, <2>1 DEF StoreLastPolicies
  <2>3. {k \in Key : policies'[k] # None} = UpdateKeys(up)
      BY Zenon, <2>2 DEF HandlerInv, InForce
  <2>4. \A c \in Config : up[c] # None => cache'[c] = up[c]
      BY Zenon, <2>2 DEF Merged
  <2>5. UpdateKeys(up) \subseteq UpdateKeys(cache')
      BY Zenon, <2>4 DEF UpdateKeys
  <2> QED
      BY Zenon, <2>3, <2>5
<1> QED
    BY <1>1, HandlerCorrect, PTL DEF Spec, PoliciesFollow

\* A policy whose key the update being handled keeps is never missing.
THEOREM PoliciesWithoutGap == Spec => NoGap
<1>1. HandlerInv /\ [Next]_vars =>
        [\A k \in Key : policies[k] # None /\ k \in UpdateKeys(up') => policies'[k] # None]_vars
    <2> SUFFICES ASSUME HandlerInv, Next, NEW k \in Key, policies[k] # None,
                        k \in UpdateKeys(up')
                 PROVE  policies'[k] # None
        OBVIOUS
    <2>1. CASE policies' = policies
        BY <2>1
    <2>2. CASE NotifyPolicyChange
        <3>1. /\ pc = "notify" /\ pending # <<>>
              /\ policies' = [policies EXCEPT ![Head(pending).key] = Head(pending).policy]
            BY <2>2 DEF NotifyPolicyChange
        <3>2. Head(pending) = pending[1] /\ 1 \in 1..Len(pending)
            BY <3>1 DEF HandlerInv
        <3>3. Head(pending).policy # None
            BY <3>1, <3>2 DEF HandlerInv
        <3> QED
            BY <3>1, <3>3 DEF HandlerInv
    <2>3. ASSUME NEW j \in Key, DeletePolicy(j) PROVE policies'[k] # None
        <3>1. j # k /\ policies' = [policies EXCEPT ![j] = None]
            BY <2>3 DEF DeletePolicy, HandlerInv
        <3> QED
            BY <3>1 DEF HandlerInv
    <2> QED
        BY <2>1, <2>2, <2>3
        DEF Next, UpdateCache, updateRetryPolicy, NewRetryPolicy, RangeNext, NotifyDone, RangeDone,
            StoreLastPolicies
<1> QED
    BY <1>1, HandlerCorrect, PTL DEF Spec, NoGap

-----------------------------------------------------------------------------
(* Whose policy is in force *)

\* The route configs that the loop has visited.
Visited == {c \in Config \ todo : up[c] # None}

\* s is the end of ns.
EndOf(s, ns) ==
    /\ Len(s) <= Len(ns)
    /\ \A i \in 1 .. Len(s) : s[i] = ns[Len(ns) - Len(s) + i]

\* The policy of k is the final one of a route config that was visited.
Settled(k) == \E d \in Visited : FinalIn(Notifications(up[d].cfg), k, policies[k])

\* The key of a route config that was visited is settled, unless a call for the
\* key is still to come; the calls to come are the last ones of a route config.
PolicyInv ==
    /\ \A c \in Visited : \A k \in KeysOf(up[c].cfg) : k \in PendingKeys \/ Settled(k)
    /\ pc = "notify" => \E c \in Visited : EndOf(pending, Notifications(up[c].cfg))
    /\ pc \in {"idle", "delete"} => todo = {}

\* Nothing that PolicyInv is about changes, or only pc, or other policies.
LEMMA PolicySame ==
    ASSUME PolicyInv, UNCHANGED <<up, todo, pending>>,
           \A c \in Visited : \A k \in KeysOf(up[c].cfg) : policies'[k] = policies[k],
           pc' = pc \/ (pc' \notin {"idle", "delete"} /\ pc' # "notify") \/ (todo = {} /\ pc' # "notify")
    PROVE  PolicyInv'
<1>1. Visited' = Visited /\ PendingKeys' = PendingKeys
    BY Zenon DEF Visited, PendingKeys
<1>2. ASSUME NEW c \in Visited', NEW k \in KeysOf(up'[c].cfg) PROVE k \in PendingKeys' \/ Settled(k)'
  <2>1. c \in Visited /\ k \in KeysOf(up[c].cfg)
      BY Zenon, <1>1, <1>2
  <2>2. policies'[k] = policies[k]
      BY Zenon, <2>1
  <2>3. k \in PendingKeys \/ Settled(k)
      BY Zenon, <2>1 DEF PolicyInv
  <2>4. Settled(k) => Settled(k)'
      BY Zenon, <1>1, <2>2 DEF Settled
  <2> QED
      BY Zenon, <1>1, <2>3, <2>4
<1>3. pc' = "notify" => \E c \in Visited' : EndOf(pending', Notifications(up'[c].cfg))
  <2>1. SUFFICES ASSUME pc' = "notify" PROVE \E c \in Visited' : EndOf(pending', Notifications(up'[c].cfg))
      BY Zenon
  <2>2. pc = "notify"
      BY Zenon, <2>1
  <2> QED
      BY Zenon, <1>1, <2>2 DEF PolicyInv
<1>4. pc' \in {"idle", "delete"} => todo' = {}
    BY Zenon DEF PolicyInv
<1> QED
    BY Zenon, <1>2, <1>3, <1>4 DEF PolicyInv

\* A call of the handler has visited nothing.
LEMMA PolicyCall ==
    ASSUME NEW m, pc' = "range", up' = m, todo' = {c \in Config : m[c] # None}
    PROVE  PolicyInv'
<1>1. Visited' = {}
    BY Zenon DEF Visited
<1>2. pc' # "notify" /\ pc' \notin {"idle", "delete"}
    BY ONLY pc' = "range"
<1> QED
    BY Zenon, <1>1, <1>2 DEF PolicyInv

\* All calls for the next route config are to come.
LEMMA PolicyRange ==
    ASSUME HandlerInv, PolicyInv, NEW c \in Config, RangeNext(c)
    PROVE  PolicyInv'
<1>1. PICK ns : ns = Notifications(up[c].cfg)
    BY Zenon
<1>2. /\ pc = "range" /\ pc' = "notify" /\ c \in todo /\ todo' = todo \ {c} /\ pending' = ns
      /\ up' = up /\ policies' = policies
    BY Zenon, <1>1 DEF RangeNext
<1>3. up[c] # None /\ FromUpdates(up) /\ PendingKeys = {}
    BY <1>2 DEF HandlerInv
<1>4. ns \in Seq(Range(ns)) /\ KeysOf(up[c].cfg) = {ns[i].key : i \in 1..Len(ns)}
  <2>1. /\ Notifications(up[c].cfg) \in Seq(Range(Notifications(up[c].cfg)))
        /\ KeysOf(up[c].cfg) =
              {Notifications(up[c].cfg)[i].key : i \in 1..Len(Notifications(up[c].cfg))}
      BY Zenon, <1>3, NotificationsKnown
  <2> QED
      BY Zenon, <1>1, <2>1
<1>5. PendingKeys' = KeysOf(up[c].cfg)
    BY Zenon, <1>2, <1>4 DEF PendingKeys
<1>6. Visited' = Visited \cup {c}
  <2>1. \A d : d \in Visited' <=> d \in Visited \/ d = c
      BY Zenon, <1>2, <1>3 DEF Visited
  <2> QED
      BY Zenon, <2>1
<1>7. EndOf(ns, ns)
  <2>1. Len(ns) \in Nat
      BY ONLY <1>4
  <2>2. Len(ns) <= Len(ns) /\ \A i \in 1 .. Len(ns) : Len(ns) - Len(ns) + i = i
      BY ONLY <2>1
  <2> QED
      BY Zenon, <2>2 DEF EndOf
<1>8. ASSUME NEW d \in Visited', NEW k \in KeysOf(up'[d].cfg) PROVE k \in PendingKeys' \/ Settled(k)'
  <2>1. CASE d = c
      BY Zenon, <1>2, <1>5, <1>8, <2>1
  <2>2. CASE d \in Visited
    <3>1. Settled(k)
        BY Zenon, <1>2, <1>3, <1>8, <2>2 DEF PolicyInv
    <3>2. Settled(k)'
        BY Zenon, <1>2, <1>6, <3>1 DEF Settled
    <3> QED
        BY Zenon, <3>2
  <2> QED
      BY Zenon, <1>6, <2>1, <2>2
<1>9. \E d \in Visited' : EndOf(pending', Notifications(up'[d].cfg))
    BY Zenon, <1>1, <1>2, <1>6, <1>7
<1>10. pc' \notin {"idle", "delete"}
    BY ONLY <1>2
<1> QED
    BY Zenon, <1>8, <1>9, <1>10 DEF PolicyInv

\* A call settles its key, unless another call for the key is to come.
LEMMA PolicyNotify ==
    ASSUME HandlerInv, PolicyInv, NotifyPolicyChange
    PROVE  PolicyInv'
<1>1. PICK h, n : h = Head(pending) /\ n = Len(pending)
    BY Zenon
<1>2. /\ pc = "notify" /\ pc' = "notify" /\ pending # <<>> /\ pending' = Tail(pending)
      /\ policies' = [policies EXCEPT ![h.key] = h.policy] /\ up' = up /\ todo' = todo
    BY <1>1 DEF NotifyPolicyChange
<1>3. pending \in Seq(Range(pending))
    BY Zenon, <1>2 DEF HandlerInv
<1>4. /\ n \in Nat /\ n # 0 /\ h = pending[1] /\ Len(pending') = n - 1
      /\ \A i \in 1 .. n - 1 : pending'[i] = pending[i + 1]
    BY ONLY <1>1, <1>2, <1>3
<1>5. PICK c \in Visited : EndOf(pending, Notifications(up[c].cfg))
    BY Zenon, <1>2 DEF PolicyInv
<1>6. PICK ns : ns = Notifications(up[c].cfg)
    BY Zenon
<1>7. c \in Config /\ up[c] # None /\ FromUpdates(up)
    BY Zenon, <1>5 DEF Visited, HandlerInv
<1>8. Len(ns) \in Nat
  <2>1. ns \in Seq(Range(ns))
      BY Zenon, <1>6, <1>7, NotificationsKnown
  <2> QED
      BY ONLY <2>1
<1>9. n <= Len(ns) /\ \A i \in 1 .. n : pending[i] = ns[Len(ns) - n + i]
    BY Zenon, <1>1, <1>5, <1>6 DEF EndOf
<1>10. EndOf(pending', ns)
  <2>1. \A i \in 1 .. n - 1 : pending'[i] = ns[Len(ns) - (n - 1) + i]
    <3>1. \A i \in 1 .. n - 1 : i + 1 \in 1 .. n /\ Len(ns) - n + (i + 1) = Len(ns) - (n - 1) + i
        BY ONLY <1>4, <1>8
    <3> QED
        BY Zenon, <1>4, <1>9, <3>1
  <2>2. n - 1 <= Len(ns)
      BY ONLY <1>4, <1>8, <1>9
  <2> QED
      BY Zenon, <1>4, <2>1, <2>2 DEF EndOf
<1>11. Visited' = Visited
    BY Zenon, <1>2 DEF Visited
<1>12. h.key \in Key /\ policies'[h.key] = h.policy /\ \A k \in Key : k # h.key => policies'[k] = policies[k]
  <2>1. policies = [k \in Key |-> policies[k]]
      BY Zenon DEF HandlerInv
  <2>2. h.key \in UpdateKeys(up)
    <3>1. 1 \in 1 .. Len(pending)
        BY ONLY <1>1, <1>4
    <3> QED
        BY Zenon, <1>2, <1>4, <3>1 DEF HandlerInv
  <2>3. h.key \in Key
      BY Zenon, <1>7, <2>2, KeysKnown
  <2> QED
      BY ONLY <1>2, <2>1, <2>3
<1>13. ASSUME h.key \notin PendingKeys' PROVE FinalIn(ns, h.key, h.policy)
  <2>1. PICK i : i = Len(ns) - n + 1
      BY Zenon
  <2>2. i \in 1 .. Len(ns) /\ 1 \in 1 .. n
      BY ONLY <1>4, <1>8, <1>9, <2>1
  <2>3. ns[i] = h
      BY Zenon, <1>4, <1>9, <2>1, <2>2
  <2>4. ASSUME NEW j \in 1 .. Len(ns), i < j PROVE ns[j].key # h.key
    <3>1. PICK g : g = j - i
        BY Zenon
    <3>2. g \in 1 .. n - 1 /\ g + 1 \in 1 .. n /\ Len(ns) - n + (g + 1) = j
        BY ONLY <1>4, <1>8, <1>9, <2>1, <2>2, <2>4, <3>1
    <3>3. ns[j] = pending'[g]
        BY Zenon, <1>4, <1>9, <3>2
    <3>4. pending'[g].key \in PendingKeys'
        BY Zenon, <1>4, <3>2 DEF PendingKeys
    <3> QED
        BY Zenon, <1>13, <3>3, <3>4
  <2> QED
      BY Zenon, <2>2, <2>3, <2>4 DEF FinalIn
<1>14. ASSUME NEW d \in Visited', NEW k \in KeysOf(up'[d].cfg), k \notin PendingKeys' PROVE Settled(k)'
  <2>1. CASE k = h.key
      BY Zenon, <1>2, <1>5, <1>6, <1>11, <1>12, <1>13, <1>14, <2>1 DEF Settled
  <2>2. CASE k # h.key
    <3>1. d \in Visited /\ k \in KeysOf(up[d].cfg)
        BY Zenon, <1>2, <1>11, <1>14
    <3>2. k \notin PendingKeys
      <4>1. SUFFICES ASSUME k \in PendingKeys PROVE FALSE
          BY Zenon
      <4>2. PICK i \in 1 .. n : k = pending[i].key
          BY Zenon, <1>1, <4>1 DEF PendingKeys
      <4>3. i # 1
          BY Zenon, <1>4, <2>2, <4>2
      <4>4. i - 1 \in 1 .. n - 1 /\ (i - 1) + 1 = i
          BY ONLY <1>4, <4>2, <4>3
      <4>5. pending'[i - 1] = pending[i]
          BY Zenon, <1>4, <4>4
      <4> QED
          BY Zenon, <1>4, <1>14, <4>2, <4>4, <4>5 DEF PendingKeys
    <3>3. Settled(k)
        BY Zenon, <3>1, <3>2 DEF PolicyInv
    <3>4. k \in Key
      <4>1. d \in Config /\ up[d] # None
          BY Zenon, <3>1 DEF Visited
      <4> QED
          BY Zenon, <1>7, <3>1, <4>1, KeysKnown
    <3>5. policies'[k] = policies[k]
        BY Zenon, <1>12, <2>2, <3>4
    <3> QED
        BY Zenon, <1>2, <1>11, <3>3, <3>5 DEF Settled
  <2> QED
      BY Zenon, <2>1, <2>2
<1>15. \E d \in Visited' : EndOf(pending', Notifications(up'[d].cfg))
    BY Zenon, <1>2, <1>5, <1>6, <1>10, <1>11
<1>16. pc' \notin {"idle", "delete"}
    BY ONLY <1>2
<1> QED
    BY Zenon, <1>14, <1>15, <1>16 DEF PolicyInv

\* Every step preserves PolicyInv.
LEMMA PolicyStep == HandlerInv /\ PolicyInv /\ [Next]_vars => PolicyInv'
<1> SUFFICES ASSUME HandlerInv, PolicyInv, [Next]_vars PROVE PolicyInv'
    BY Zenon
<1>1. ASSUME NEW u \in Updates, UpdateCache(u) PROVE PolicyInv'
  <2>1. UNCHANGED <<up, todo, pending>> /\ policies' = policies /\ pc' = pc
      BY <1>1 DEF UpdateCache
  <2> QED
      BY Zenon, <2>1, PolicySame
<1>2. ASSUME NEW u \in Updates, updateRetryPolicy(u) PROVE PolicyInv'
  <2>1. pc' = "range" /\ up' = u /\ todo' = {c \in Config : u[c] # None}
      BY Zenon, <1>2 DEF updateRetryPolicy
  <2> QED
      BY Zenon, <2>1, PolicyCall
<1>3. CASE NewRetryPolicy
  <2>1. CASE UNCHANGED <<pc, up, todo>>
    <3>1. UNCHANGED <<up, todo, pending>> /\ policies' = policies /\ pc' = pc
        BY <1>3, <2>1 DEF NewRetryPolicy
    <3> QED
        BY Zenon, <3>1, PolicySame
  <2>2. CASE pc' = "range" /\ up' = cache /\ todo' = {c \in Config : cache[c] # None}
      BY Zenon, <2>2, PolicyCall
  <2> QED
      BY Zenon, <1>3, <2>1, <2>2 DEF NewRetryPolicy
<1>4. ASSUME NEW c \in Config, RangeNext(c) PROVE PolicyInv'
    BY Zenon, <1>4, PolicyRange
<1>5. CASE NotifyPolicyChange
    BY Zenon, <1>5, PolicyNotify
<1>6. CASE NotifyDone
  <2>1. /\ UNCHANGED <<up, todo, pending>> /\ policies' = policies
        /\ pc' \notin {"idle", "delete"} /\ pc' # "notify"
      BY <1>6 DEF NotifyDone
  <2> QED
      BY Zenon, <2>1, PolicySame
<1>7. CASE RangeDone
  <2>1. UNCHANGED <<up, todo, pending>> /\ policies' = policies /\ todo = {} /\ pc' # "notify"
      BY <1>7 DEF RangeDone
  <2> QED
      BY Zenon, <2>1, PolicySame
<1>8. ASSUME NEW k \in Key, DeletePolicy(k) PROVE PolicyInv'
  <2>1. /\ pc = "delete" /\ k \in stale /\ policies' = [policies EXCEPT ![k] = None]
        /\ UNCHANGED <<up, todo, pending>> /\ pc' = pc
      BY <1>8 DEF DeletePolicy
  <2>2. k \notin UpdateKeys(up) /\ FromUpdates(up)
      BY Zenon, <2>1 DEF HandlerInv
  <2>3. ASSUME NEW c \in Visited, NEW j \in KeysOf(up[c].cfg) PROVE policies'[j] = policies[j]
    <3>1. c \in Config /\ up[c] # None
        BY Zenon DEF Visited
    <3>2. j \in UpdateKeys(up) /\ j \in Key
        BY Zenon, <2>2, <2>3, <3>1, KeysKnown
    <3>3. j # k
        BY Zenon, <2>2, <3>2
    <3>4. policies = [i \in Key |-> policies[i]]
        BY Zenon DEF HandlerInv
    <3> QED
        BY ONLY <2>1, <3>2, <3>3, <3>4
  <2> QED
      BY Zenon, <2>1, <2>3, PolicySame
<1>9. CASE StoreLastPolicies
  <2>1. /\ UNCHANGED <<up, todo, pending>> /\ policies' = policies
        /\ pc = "delete" /\ pc' # "notify"
      BY <1>9 DEF StoreLastPolicies
  <2>2. todo = {}
      BY Zenon, <2>1 DEF PolicyInv
  <2> QED
      BY Zenon, <2>1, <2>2, PolicySame
<1>10. CASE UNCHANGED vars
  <2>1. UNCHANGED <<up, todo, pending>> /\ policies' = policies /\ pc' = pc
      BY <1>10 DEF vars
  <2> QED
      BY Zenon, <2>1, PolicySame
<1> QED
    BY Zenon, <1>1, <1>2, <1>3, <1>4, <1>5, <1>6, <1>7, <1>8, <1>9, <1>10 DEF Next

\* Between updates each policy in force is the one that the last route to name
\* its key has in the server's message, for some route config of the last
\* update, whatever the messages, the updates before, and the order in which the
\* loop visits the route configs.
THEOREM PoliciesOfRoutes == Spec => []PolicyOfRoute
<1>1. Init => PolicyInv
  <2> SUFFICES ASSUME Init PROVE PolicyInv
      BY Zenon
  <2>1. Visited = {}
      BY Zenon DEF Init, Visited
  <2>2. pc # "notify" /\ todo = {}
      BY DEF Init
  <2> QED
      BY Zenon, <2>1, <2>2 DEF PolicyInv
<1>2. HandlerInv /\ PolicyInv => PolicyOfRoute
  <2> SUFFICES ASSUME HandlerInv, PolicyInv, pc = "idle", NEW k \in UpdateKeys(up)
               PROVE  \E c \in {d \in Config : up[d] # None} :
                         LET rts == Flatten(up[c].msg.hosts)
                             i   == LastOf({j \in DOMAIN rts : NamesKey(rts[j], k)})
                         IN  i # 0 /\ Agrees(policies[k], rts[i].action.retry)
      BY Zenon DEF PolicyOfRoute
  <2>1. todo = {} /\ PendingKeys = {} /\ FromUpdates(up)
      BY DEF PolicyInv, HandlerInv
  <2>2. PICK c \in Config : up[c] # None /\ k \in KeysOf(up[c].cfg)
      BY Zenon DEF UpdateKeys
  <2>3. c \in Visited
      BY Zenon, <2>1, <2>2 DEF Visited
  <2>4. PICK d \in Visited : FinalIn(Notifications(up[d].cfg), k, policies[k])
      BY Zenon, <2>1, <2>2, <2>3 DEF PolicyInv, Settled
  <2>5. d \in Config /\ up[d] # None
      BY Zenon DEF Visited
  <2>6. PICK u \in Updates : u[d] = up[d]
      BY Zenon, <2>1, <2>5 DEF FromUpdates
  <2>7. u[d] # None /\ FinalIn(Notifications(u[d].cfg), k, policies[k])
      BY Zenon, <2>4, <2>5, <2>6
  <2>8. LET rts == Flatten(u[d].msg.hosts)
            i   == LastOf({j \in DOMAIN rts : NamesKey(rts[j], k)})
        IN  i # 0 /\ Agrees(policies[k], rts[i].action.retry)
      BY Zenon, <2>5, <2>7, FinalAgrees
  <2> QED
      BY Zenon, <2>5, <2>6, <2>8
<1> QED
    BY <1>1, <1>2, PolicyStep, HandlerCorrect, PTL DEF Spec
=============================================================================
