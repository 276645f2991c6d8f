------------------------------- MODULE Listeners -------------------------------
(***************************************************************************)
(* Listeners from the wire to their users: handleNDS and handleLDS of      *)
(* core/manager/client.go, the part of the resource manager they reach,    *)
(* and the server's Limiter, the handler registered for listeners.         *)
(*                                                                         *)
(* The receiver goroutine handles one response at a time; callers of Get   *)
(* subscribe names and the cleaner drops them meanwhile; the server builds *)
(* its limiter and starts.                                                 *)
(***************************************************************************)
EXTENDS Limiter, Names, FiniteSets

CONSTANTS
    Env,        \* environments the process may be started in
    RawNDS,     \* resources of NDS responses
    RawLDS,     \* resources of LDS responses
    RName,      \* names that callers ask for: [host, ports]
    MaxWatched  \* bound: names of callers watched, or with an entry in meta, at a time

VARIABLES
    bc, ndsRequired,  \* the bootstrap config; ~XDSServerConfig.NDSNotRequired
    lookupTable,      \* cipResolver.lookupTable
    watched,          \* client.watchedResource[ListenerType]
    resp,             \* the response between its filter and its update, or None
    cache,            \* manager.cache[ListenerType], None before it is made
    meta,             \* the names with an entry in manager.meta[ListenerType]
    mu,               \* who holds manager.mu through several steps, or None
    registered,       \* NewLimiter has registered its handler
    last              \* history: the response the cache is of, with the table and
                      \* the watch list it was filtered with, or None

clientVars == <<bc, ndsRequired, lookupTable, watched, resp>>
managerVars == <<cache, meta, mu, registered, last>>
listenerVars == <<vars, clientVars, managerVars>>

ListenerInit ==
    /\ Init
    /\ bc \in {newBootstrapConfig(e) : e \in Env} \ {None}
    /\ ndsRequired \in BOOLEAN
    /\ lookupTable = <<>>
    /\ watched \in {{}, {ReservedLdsResourceName}}
    /\ resp = None
    /\ cache = None
    /\ meta = {}
    /\ mu = None
    /\ registered = FALSE
    /\ last = None

-----------------------------------------------------------------------------
(* Callers of Get and the cleaner *)

\* Get of a name that is not in the cache, and its client.Watch.
Watch(n) ==
    /\ mu = None
    /\ n \notin watched
    /\ Cardinality((watched \cup meta \cup {n}) \ {ReservedLdsResourceName}) <= MaxWatched
    /\ watched' = watched \cup {n}
    /\ UNCHANGED <<vars, bc, ndsRequired, lookupTable, resp, managerVars>>

\* The cleaner drops a listener that has expired, a withdrawn one included.
Clean(n) ==
    /\ mu = None
    /\ n # ReservedLdsResourceName
    /\ n \in meta
    /\ watched' = watched \ {n}
    /\ meta' = meta \ {n}
    /\ cache' = IF cache = None THEN None ELSE [m \in DOMAIN cache \ {n} |-> cache[m]]
    /\ UNCHANGED <<vars, bc, ndsRequired, lookupTable, resp, mu, registered, last>>

-----------------------------------------------------------------------------
(* The receiver.  A response of a type never watched is ignored; one with an  *)
(* error is NACKed and changes nothing.                                       *)

handleNDS(raw) ==
    /\ resp = None
    /\ ndsRequired
    /\ ~UnmarshalNDS(raw).err
    /\ lookupTable' = UnmarshalNDS(raw).res
    /\ UNCHANGED <<vars, bc, ndsRequired, watched, resp, managerVars>>

FilteredListeners_Fallback(res) ==
    LET Resolved(n) == getListenerName(bc, lookupTable, n)
        Resolve(n)  == ndsRequired /\ n # ReservedLdsResourceName
        Name(n)     == IF Resolve(n) /\ Resolved(n) # None THEN Resolved(n) ELSE n
    IN  [n \in {m \in watched : Resolve(m) => Name(m) \in DOMAIN res} |->
            IF Name(n) \in DOMAIN res THEN res[Name(n)] ELSE Nil]

\* The filter of handleLDS: a name resolved with the name table has to be in
\* the response, any other watched name gets a nil listener if it is not.
FilteredListeners(res) ==
    LET Resolve(n) == ndsRequired /\ n # ReservedLdsResourceName
        Name(n)    == IF Resolve(n) THEN getListenerName(bc, lookupTable, n) ELSE n
    IN  [n \in {m \in watched : Resolve(m) => Name(m) \in DOMAIN res} |->
            IF Name(n) \in DOMAIN res THEN res[Name(n)] ELSE Nil]

\* What becomes of each response; TLC computes it once.
Decoded == [raw \in RawLDS |-> UnmarshalLDS(raw)]

\* handleLDS up to c.mu.RUnlock().
handleLDS(raw) ==
    /\ resp = None
    /\ watched # {} \/ last # None
    /\ LET u == Decoded[raw]
       IN  /\ ~u.err
           /\ resp' = [up      |-> FilteredListeners(u.ret),
                       raw     |-> raw,
                       table   |-> lookupTable,
                       watched |-> watched]
    /\ UNCHANGED <<vars, bc, ndsRequired, lookupTable, watched, managerVars>>

\* The cache after UpdateResource: a listener response is complete.
UpdatedCache == IF cache = None /\ resp.up = <<>> THEN None ELSE resp.up

\* The cache is filled, and updateMeta.
Fill ==
    /\ cache' = UpdatedCache
    /\ meta' = meta \cup DOMAIN resp.up

\* UpdateResource when no handler is registered ...
UpdateCache ==
    /\ resp # None
    /\ mu = None
    /\ ~registered
    /\ Fill
    /\ last' = resp
    /\ resp' = None
    /\ UNCHANGED <<vars, bc, ndsRequired, lookupTable, watched, mu, registered>>

\* ... and when the limiter's is: it runs first ...
UpdateHandlers ==
    /\ resp # None
    /\ mu = None
    /\ registered
    /\ listenerUpdater(resp.up)
    /\ mu' = "receiver"
    /\ last' = resp
    /\ UNCHANGED <<clientVars, cache, meta, registered>>

\* ... then the cache is filled.
UpdateResource ==
    /\ mu = "receiver"
    /\ updateHandler
    /\ Fill
    /\ mu' = None
    /\ resp' = None
    /\ UNCHANGED <<bc, ndsRequired, lookupTable, watched, registered, last>>

-----------------------------------------------------------------------------
(* The server *)

\* NewLimiter registers the handler, which is called with the cache if there
\* is one.
NewLimiter ==
    /\ mu = None
    /\ ~registered
    /\ registered' = TRUE
    /\ \/ cache = None /\ UNCHANGED <<vars, mu>>
       \/ cache # None /\ listenerUpdater(cache) /\ mu' = "server"
    /\ UNCHANGED <<clientVars, cache, meta, last>>

Registered ==
    /\ mu = "server"
    /\ updateHandler
    /\ mu' = None
    /\ UNCHANGED <<clientVars, cache, meta, registered, last>>

\* The server starts: limit.Option.UpdateControl.
StartServer ==
    /\ registered
    /\ mu # "server"
    /\ UpdateControl \/ StoreUpdater
    /\ UNCHANGED <<clientVars, managerVars>>

ListenerNext ==
    \/ \E n \in RName : Watch(n) \/ Clean(n)
    \/ \E raw \in RawNDS : handleNDS(raw)
    \/ \E raw \in RawLDS : handleLDS(raw)
    \/ UpdateCache
    \/ UpdateHandlers
    \/ UpdateResource
    \/ NewLimiter
    \/ Registered
    \/ StartServer

ListenerSpec == ListenerInit /\ [][ListenerNext]_listenerVars

-----------------------------------------------------------------------------
(* Correctness *)

\* The listener with that name in a list of raw resources: the last one.
RawListener(raw, n) ==
    LET i == LastOf({j \in DOMAIN raw : raw[j].msg.name = n})
    IN  IF i = 0 THEN None ELSE raw[i].msg

\* The filter chains of a listener message, the default one last.
Chains(msg) == msg.chains \o (IF msg.default = None THEN <<>> ELSE <<msg.default>>)

ASSUME ListenersAssumption ==
    \A raw \in RawLDS :
        /\ IsSlice(raw)
        /\ \A r \in Range(raw) : Decodes(r, "Listener") =>
              /\ None \notin {r.msg.name, unmarshalListener(r.msg).res}
              /\ IsSlice(r.msg.chains)
              /\ \A c \in Range(Chains(r.msg)) :
                    /\ IsSlice(c.filters)
                    /\ \A f \in Range(c.filters) : f.type = "http" /\ f.msg # None =>
                          /\ IsSlice(f.msg.filters)
                          /\ \A h \in Range(f.msg.filters) :
                                h.kind \in {"bucket", "skip", "garbage", "other"}

\* None is not a holder of the lock.
ASSUME HoldersAssumption == None \notin {"receiver", "server"}

ASSUME NamesAssumption ==
    /\ \A n \in RName : IsSlice(n.host) /\ IsSlice(n.ports)
    /\ \A e \in Env : e.domain = None \/ IsSlice(e.domain)
    /\ \A raw \in RawNDS : ~UnmarshalNDS(raw).err =>
          \A h \in DOMAIN UnmarshalNDS(raw).res :
              IsSlice(UnmarshalNDS(raw).res[h]) /\ None \notin Range(UnmarshalNDS(raw).res[h])

\* Whatever came before, and whether the handler was registered before or after
\* the response arrived: the running server applies a limit only if the inbound
\* listener of the last response has a bucket with that number, before any filter
\* that is not one, in a chain for the server's port or for none.  Without one, or
\* without the listener, the limit is lifted.  An update that fell between the two
\* steps of UpdateControl is the exception, as in LimitInForce: until the next one
\* the server keeps the limit it started with.
NoStaleLimit ==
    control = "done" /\ ~handling /\ ~missed /\ last # None /\ limit \notin {0, MaxInt} =>
        /\ RawListener(last.raw, ReservedLdsResourceName) # None
        /\ \E c \in Range(Chains(RawListener(last.raw, ReservedLdsResourceName))) :
              /\ c.port \in {port, DefaultServerPort}
              /\ \E f \in Range(c.filters) :
                    /\ f.type = "http"
                    /\ \E i \in DOMAIN f.msg.filters :
                          /\ f.msg.filters[i].kind = "bucket"
                          /\ limit \in {f.msg.filters[i].MaxTokens, f.msg.filters[i].TokensPerFill}
                          /\ \A j \in 1 .. i - 1 : f.msg.filters[j].kind = "skip"

\* What a filter's message must have: a name or complete routes, and a rate limit
\* that decodes if it is the first filter that is not skipped.
HTTPComplete(m) ==
    /\ m # None
    /\ m.spec = "rds" => m.name # ""
    /\ m.spec = "inline" =>
          /\ m.hosts # None
          /\ \A rs \in Range(m.hosts) : \A rt \in Range(rs) : None \notin {rt.match, rt.action}
    /\ \A i \in DOMAIN m.filters : m.filters[i].kind = "garbage" =>
          \E j \in 1 .. i - 1 : m.filters[j].kind # "skip"

ThriftComplete(m) ==
    m # None /\ \A rt \in Range(m) : None \notin {rt.match, rt.action}

\* Nothing of a response with any flaw is used: if one filter of one listener
\* does not decode, has a rate limit that does not, lacks its route config, or has
\* a route without a match or an action, the other listeners of the response are
\* not applied either.
AllOrNothing ==
    last # None =>
        \A r \in Range(last.raw) :
            /\ r.msg # None
            /\ \A c \in Range(Chains(r.msg)) : \A f \in Range(c.filters) :
                  /\ f.type = "http" => HTTPComplete(f.msg)
                  /\ f.type = "thrift" => ThriftComplete(f.msg)

\* The hosts of service s of namespace ns, as Kubernetes DNS has them.
Aliases(s, ns) ==
    {<<s, ns>>, <<s, ns, "svc">>, <<s, ns, "svc">> \o bc.nodeDomain}
    \cup (IF ns = bc.configNamespace THEN {<<s>>} ELSE {})

Port(n) == IF n.ports = <<>> THEN "80" ELSE n.ports[1]

\* Whatever form of a service's name a caller uses, in whatever case, a complete
\* response gives it the listener of the first IP the name table in use has for
\* the service, and the cache holds no other.  Of a namespace called svc this is
\* not so: <service>.svc.svc passes for complete.
AliasesAgree ==
    last # None /\ ndsRequired =>
        \A n \in last.watched \ {ReservedLdsResourceName}, fqdn \in DOMAIN last.table :
            /\ Len(fqdn) > 2 /\ fqdn = <<fqdn[1], fqdn[2], "svc">> \o bc.nodeDomain
            /\ fqdn[2] # "svc"
            /\ ToLower(n.host) \in Aliases(fqdn[1], fqdn[2])
            /\ last.table[fqdn] # <<>> /\ Len(n.ports) < 2
            => LET l == RawListener(last.raw, [ip |-> last.table[fqdn][1], port |-> Port(n)])
                   L == unmarshalListener(l).res
               IN  l # None => /\ n \in DOMAIN last.up /\ last.up[n] = L
                               /\ cache # None /\ mu = None /\ n \in DOMAIN cache
                                  => cache[n] = L

\* No name gets another service's listener, or an empty one: what a caller finds in
\* the cache is made of the message that the last response has for an IP and port
\* of the name, the IP being one that the table in use has for the name as it is or
\* completed with what it may lack.
NoForeignListener ==
    cache # None /\ mu = None /\ ndsRequired =>
        \A n \in DOMAIN cache \ {ReservedLdsResourceName} :
            \E suffix \in {<<>>, bc.nodeDomain, <<"svc">> \o bc.nodeDomain,
                           <<bc.configNamespace, "svc">> \o bc.nodeDomain} :
                LET h == ToLower(n.host) \o suffix
                    l == RawListener(last.raw, [ip |-> last.table[h][1], port |-> Port(n)])
                IN  Known(last.table, h) /\ l # None /\ cache[n] = unmarshalListener(l).res
=============================================================================
