---------------------------- MODULE CircuitBreaker ----------------------------
(***************************************************************************)
(* The circuit breaker suite of xdssuite/circuitbreak.go: the handler that *)
(* turns each cluster update into configurations of Kitex's CBSuite.       *)
(*                                                                         *)
(* The handler runs under the resource manager's lock, so updates come one *)
(* at a time; the calls that consult the CBSuite see it between any two    *)
(* steps of the handler.                                                   *)
(***************************************************************************)
EXTENDS XdsResource

CONSTANTS
    Cluster,    \* cluster names
    Threshold,  \* values of failure_percentage_threshold
    Volume,     \* values of failure_percentage_request_volume
    Plain       \* a cluster without outlier detection

ASSUME ConstantsAssumption == Threshold \subseteq Nat /\ Volume \subseteq Nat

OutlierDetection == [threshold : Threshold, volume : Volume]

CBConfig == [Enable : BOOLEAN, ErrRate : Threshold \cup {0}, MinSample : Volume \cup {0}]

Disabled == [Enable |-> FALSE, ErrRate |-> 0, MinSample |-> 0]

ASSUME NoneAssumption ==
    /\ None \notin OutlierDetection \cup CBConfig \cup {Plain}
    /\ Plain \notin OutlierDetection
    /\ \A S \in SUBSET Cluster : None # S

VARIABLES
    pc,            \* "idle", "set" or "disable": where the handler is
    res,           \* the update being handled, or the last one
    todo,          \* clusters the current loop has yet to visit
    lastPolicies,  \* cb.lastPolicies, None before the first Store
    service        \* external: the CBSuite's service configurations

vars == <<pc, res, todo, lastPolicies, service>>

Init ==
    /\ pc = "idle"
    /\ res = [c \in Cluster |-> None]
    /\ todo = {}
    /\ lastPolicies = None
    /\ service = [c \in Cluster |-> None]

\* The clusters that updateCircuitPolicy makes a configuration for.
policies(up) == {c \in Cluster : up[c] \in OutlierDetection}

cbconfig_Swapped(od) ==
    IF od.volume # 0 /\ od.threshold # 0
    THEN [Enable |-> TRUE, ErrRate |-> od.volume, MinSample |-> od.threshold]
    ELSE Disabled

\* The configuration of one of them; ErrRate in percent.
cbconfig(od) ==
    IF od.volume # 0 /\ od.threshold # 0
    THEN [Enable |-> TRUE, ErrRate |-> od.threshold, MinSample |-> od.volume]
    ELSE Disabled

\* The handler is called; updateAllCircuitConfigs ranges over the policies ...
updateCircuitPolicy(up) ==
    /\ pc = "idle"
    /\ pc' = "set"
    /\ res' = up
    /\ todo' = policies(up)
    /\ UNCHANGED <<lastPolicies, service>>

UpdateServiceCBConfig(c) ==
    /\ pc = "set"
    /\ c \in todo
    /\ service' = [service EXCEPT ![c] = cbconfig(res[c])]
    /\ todo' = todo \ {c}
    /\ UNCHANGED <<pc, res, lastPolicies>>

LoadLastPolicies_LateDefer ==
    /\ pc = "set"
    /\ todo = {}
    /\ \/ lastPolicies = None /\ pc' = "idle" /\ UNCHANGED todo
       \/ lastPolicies # None /\ pc' = "disable" /\ todo' = lastPolicies \ policies(res)
    /\ UNCHANGED <<res, lastPolicies, service>>

LoadLastPolicies_All ==
    /\ pc = "set"
    /\ todo = {}
    /\ \/ /\ lastPolicies = None
          /\ pc' = "idle"
          /\ lastPolicies' = policies(res)
          /\ UNCHANGED todo
       \/ /\ lastPolicies # None
          /\ pc' = "disable"
          /\ todo' = lastPolicies
          /\ UNCHANGED lastPolicies
    /\ UNCHANGED <<res, service>>

\* ... loads the policies of the update before ...
LoadLastPolicies ==
    /\ pc = "set"
    /\ todo = {}
    /\ \/ /\ lastPolicies = None
          /\ pc' = "idle"
          /\ lastPolicies' = policies(res)
          /\ UNCHANGED todo
       \/ /\ lastPolicies # None
          /\ pc' = "disable"
          /\ todo' = lastPolicies \ policies(res)
          /\ UNCHANGED lastPolicies
    /\ UNCHANGED <<res, service>>

\* ... disables those that are gone ...
Disable(c) ==
    /\ pc = "disable"
    /\ c \in todo
    /\ service' = [service EXCEPT ![c] = Disabled]
    /\ todo' = todo \ {c}
    /\ UNCHANGED <<pc, res, lastPolicies>>

\* ... and stores the new ones, deferred to the return.
StoreLastPolicies ==
    /\ pc = "disable"
    /\ todo = {}
    /\ lastPolicies' = policies(res)
    /\ pc' = "idle"
    /\ UNCHANGED <<res, todo, service>>

Next ==
    \/ \E up \in [Cluster -> OutlierDetection \cup {Plain, None}] : updateCircuitPolicy(up)
    \/ \E c \in Cluster : UpdateServiceCBConfig(c) \/ Disable(c)
    \/ LoadLastPolicies
    \/ StoreLastPolicies

Spec == Init /\ [][Next]_vars

-----------------------------------------------------------------------------
(* Correctness *)

\* The type invariant; ErrRate is a threshold and MinSample a request volume of
\* the outlier detection, or zero.
TypeOK ==
    /\ pc \in {"idle", "set", "disable"}
    /\ res \in [Cluster -> OutlierDetection \cup {Plain, None}]
    /\ todo \in SUBSET Cluster
    /\ lastPolicies = None \/ lastPolicies \in SUBSET Cluster
    /\ service \in [Cluster -> CBConfig \cup {None}]

\* The configuration that the update up asks for; absence counts as disabled.
Wanted(up, c) == IF c \in policies(up) THEN cbconfig(up[c]) ELSE Disabled

InForce(c) == IF service[c] = None THEN Disabled ELSE service[c]

\* Between updates every cluster's breaker is configured as the last update
\* says: one that vanished, or lost its outlier detection, any number of updates
\* ago is disabled.
BreakerFollows ==
    pc = "idle" => \A c \in Cluster : InForce(c) = Wanted(res, c)

\* While an update is handled a cluster goes straight from its old to its new
\* configuration: no call sees a breaker switched off that is on before and
\* after.
NoFlicker ==
    [][\A c \in Cluster :
          InForce(c).Enable /\ Wanted(res', c).Enable => service'[c].Enable]_vars
=============================================================================
