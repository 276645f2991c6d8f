---------------------------- MODULE ResourceStore ----------------------------
(***************************************************************************)
(* What the resource manager promises a caller of Get, and nothing of how: *)
(* a store of resources without locks, notifiers, ages or a watch list.    *)
(* ResourceManager implements it.                                          *)
(***************************************************************************)
CONSTANTS Caller, Key, TypeOf, ReservedKey, Resource, TimeoutErr, None,
          Complete    \* the types whose responses have to be complete

VARIABLES
    cache,            \* the resources in the store
    status,           \* per caller: "idle", "pending" or "returned"
    key,              \* the resource it asked for
    result            \* what it was given

vars == <<cache, status, key, result>>

Init ==
    /\ cache \in [Key -> Resource \cup {None}]
    /\ \A k \in Key \ {ReservedKey} : cache[k] = None
    /\ status = [g \in Caller |-> "idle"]
    /\ key = [g \in Caller |-> None]
    /\ result = [g \in Caller |-> None]

Answer(g, r) ==
    /\ status' = [status EXCEPT ![g] = "returned"]
    /\ result' = [result EXCEPT ![g] = r]

\* What is in the store is returned at once ...
Hit(g, k) ==
    /\ status[g] = "idle"
    /\ cache[k] # None
    /\ key' = [key EXCEPT ![g] = k]
    /\ Answer(g, cache[k])
    /\ UNCHANGED cache

\* ... and the caller of what is not waits.
Call(g, k) ==
    /\ status[g] = "idle"
    /\ cache[k] = None
    /\ key' = [key EXCEPT ![g] = k]
    /\ status' = [status EXCEPT ![g] = "pending"]
    /\ UNCHANGED <<cache, result>>

\* It is given what the store holds when it returns: never an old value, never
\* another resource, and nothing without an error only if the control plane may
\* have withdrawn it.
Reply(g) ==
    /\ status[g] = "pending"
    /\ cache[key[g]] # None \/ TypeOf[key[g]] \in Complete
    /\ Answer(g, cache[key[g]])
    /\ UNCHANGED <<cache, key>>

GiveUp(g) ==
    /\ status[g] = "pending"
    /\ Answer(g, TimeoutErr)
    /\ UNCHANGED <<cache, key>>

Return(g) ==
    /\ status[g] = "returned"
    /\ status' = [status EXCEPT ![g] = "idle"]
    /\ key' = [key EXCEPT ![g] = None]
    /\ result' = [result EXCEPT ![g] = None]
    /\ UNCHANGED cache

\* A response replaces resources of one type, and takes some away only if the
\* responses of the type have to be complete.
Deliver(t) ==
    /\ cache' \in [Key -> Resource \cup {None}]
    /\ \A k \in Key : TypeOf[k] # t => cache'[k] = cache[k]
    /\ t \notin Complete => \A k \in Key : cache[k] # None => cache'[k] # None
    /\ UNCHANGED <<status, key, result>>

\* A resource nobody is waiting for is dropped, the reserved listener never.
Evict(k) ==
    /\ k # ReservedKey
    /\ \A g \in Caller : status[g] = "pending" => key[g] # k
    /\ cache' = [cache EXCEPT ![k] = None]
    /\ UNCHANGED <<status, key, result>>

Next ==
    \/ \E g \in Caller :
          \/ \E k \in Key : Hit(g, k) \/ Call(g, k)
          \/ Reply(g)
          \/ GiveUp(g)
          \/ Return(g)
    \/ \E k \in Key : Deliver(TypeOf[k]) \/ Evict(k)

Spec == Init /\ [][Next]_vars
=============================================================================
