--------------------------------- MODULE Names ---------------------------------
(***************************************************************************)
(* From the name a caller asks for to the name of a listener: the          *)
(* bootstrap configuration (core/manager/bootstrap.go) and the functions   *)
(* of core/manager/client.go that resolve a host with the name table.      *)
(*                                                                         *)
(* A host is the sequence of its labels, "www.example.com" is              *)
(* <<"www", "example", "com">>; a name is [host, ports], split at ":".     *)
(***************************************************************************)
EXTENDS XdsResource  \* None: an error, an unset environment variable

CONSTANT Lower  \* Lower[label]: the label in lower case

ToLower(host) == [i \in DOMAIN host |-> Lower[host[i]]]

\* Environment: [namespace, podName, podIP, domain, metas], metas the NAMESPACE
\* in KITEX_XDS_METAS ("" without one), or None if that is not set or no JSON.
\* The node's id and metadata go to the server only.
newBootstrapConfig(env) ==
    IF None \in {env.namespace, env.podName, env.podIP} THEN None
    ELSE [configNamespace |-> IF env.metas \in {None, ""} THEN env.namespace ELSE env.metas,
          nodeDomain      |-> IF env.domain = None THEN <<"cluster", "local">> ELSE env.domain]

\* A host with ".svc." in it is complete.
tryExpandFQDN(bc, host) ==
    IF \E i \in 2 .. Len(host) - 1 : host[i] = "svc" THEN host
    ELSE CASE Len(host) = 2 -> host \o <<"svc">> \o bc.nodeDomain
           [] Len(host) = 3 -> IF host[3] = "svc" THEN host \o bc.nodeDomain ELSE host
           [] OTHER -> host \o <<bc.configNamespace, "svc">> \o bc.nodeDomain

\* lookupHost, where an empty list of IPs is as good as none.
Known(table, host) == host \in DOMAIN table /\ table[host] # <<>>

resolveAddr_HostFirst(bc, table, h) ==
    LET host == ToLower(h)
        fqdn == tryExpandFQDN(bc, host)
    IN  IF Known(table, host) THEN table[host][1]
        ELSE IF Known(table, fqdn) THEN table[fqdn][1] ELSE None

\* The first IP of the expanded host, or else of the host as it is.
resolveAddr(bc, table, h) ==
    LET host == ToLower(h)
        fqdn == tryExpandFQDN(bc, host)
    IN  IF Known(table, fqdn) THEN table[fqdn][1]
        ELSE IF Known(table, host) THEN table[host][1] ELSE None

\* [ip, port] stands for ${clusterIP}_${port}, None for an error.
getListenerName(bc, table, n) ==
    IF Len(n.ports) > 1 THEN None
    ELSE LET cip == resolveAddr(bc, table, n.host)
         IN  IF cip = None THEN None
             ELSE [ip |-> cip, port |-> IF n.ports = <<>> THEN "80" ELSE n.ports[1]]
=============================================================================
