-------------------------------- MODULE Limiter --------------------------------
(***************************************************************************)
(* The server side of xdssuite: the limiter of limiter.go, which turns the *)
(* token buckets of the reserved inbound listener into the limit of a      *)
(* Kitex server.                                                           *)
(*                                                                         *)
(* Two goroutines: the handler that the resource manager calls for each    *)
(* listener update, under its lock, and the server that starts and calls   *)
(* UpdateControl once.  They share l.opt and l.updater without a lock.     *)
(* Listeners composes their steps with what calls them.                    *)
(***************************************************************************)
EXTENDS XdsResource

CONSTANTS
    ReservedLdsResourceName,  \* "virtualInbound"
    port,                     \* Options.servicePort
    DefaultServerPort,        \* 0
    MaxInt                    \* math.MaxInt: no limit

ASSUME ConstantsAssumption == port \in Nat /\ DefaultServerPort \in Nat /\ MaxInt \in Nat

VARIABLES
    opt,       \* l.opt.MaxQPS
    updater,   \* l.updater holds the server's Updater
    limit,     \* external: the limit the server applies
    handling,  \* the handler has changed opt and has yet to load updater
    control,   \* where the server is: "init", "storing" or "done"
    missed     \* history: the last update fell between the two steps of UpdateControl

vars == <<opt, updater, limit, handling, control, missed>>

-----------------------------------------------------------------------------
(* From the listener to the limit *)

\* The tokens per fill of each port; of two network filters with one port the
\* last that has an InlineRouteConfig counts.
getLimiterPolicy(u) ==
    IF ReservedLdsResourceName \notin DOMAIN u THEN <<>>
    ELSE IF u[ReservedLdsResourceName] = Nil THEN <<>>
    ELSE LET fs   == u[ReservedLdsResourceName]
             kept == {i \in DOMAIN fs : fs[i].inline # None}
         IN  [p \in {fs[i].port : i \in kept} |->
                 fs[LastOf({i \in kept : fs[i].port = p})].inline.TokensPerFill]

setLimitOption(token) == IF token = 0 THEN MaxInt ELSE token

PortOption_Keep(tokens) ==
    LET known == {port, DefaultServerPort} \cap DOMAIN tokens
    IN  IF port \in known THEN setLimitOption(tokens[port])
        ELSE IF DefaultServerPort \in known THEN setLimitOption(tokens[DefaultServerPort])
        ELSE opt

\* listenerUpdater's choice: the port's own, the default port's, or no limit.
PortOption(tokens) ==
    LET known == {port, DefaultServerPort} \cap DOMAIN tokens
    IN  IF port \in known THEN setLimitOption(tokens[port])
        ELSE IF DefaultServerPort \in known THEN setLimitOption(tokens[DefaultServerPort])
        ELSE setLimitOption(0)

-----------------------------------------------------------------------------

\* NewLimiter has registered the handler; opt is the zero value.
Init ==
    /\ opt = 0
    /\ updater = FALSE
    /\ limit = 0
    /\ handling = FALSE
    /\ control = "init"
    /\ missed = FALSE

\* listenerUpdater and updateHandler up to l.updater.Load().
listenerUpdater(u) ==
    /\ ~handling
    /\ handling' = TRUE
    /\ opt' = PortOption(getLimiterPolicy(u))
    /\ UNCHANGED <<updater, limit, control, missed>>

\* The rest of updateHandler: tell the server, if it is known.
updateHandler ==
    /\ handling
    /\ handling' = FALSE
    /\ limit' = IF updater THEN opt ELSE limit
    /\ missed' = (~updater /\ control = "storing")
    /\ UNCHANGED <<opt, updater, control>>

UpdateControl_NoUpdate ==
    /\ control = "init"
    /\ control' = "storing"
    /\ UNCHANGED <<opt, updater, limit, handling, missed>>

\* UpdateControl: u.UpdateLimit(l.opt) ...
UpdateControl ==
    /\ control = "init"
    /\ control' = "storing"
    /\ limit' = opt
    /\ UNCHANGED <<opt, updater, handling, missed>>

\* ... and l.updater.Store(u).
StoreUpdater ==
    /\ control = "storing"
    /\ control' = "done"
    /\ updater' = TRUE
    /\ UNCHANGED <<opt, limit, handling, missed>>

-----------------------------------------------------------------------------
(* Correctness *)

\* The limit the server applies is the one the last update asks for, whether
\* updates came before the server started, after, or while it did - unless the
\* update fell between the two steps of UpdateControl, where it is lost until
\* the next one.
LimitInForce ==
    control = "done" /\ ~handling /\ ~missed => limit = opt
=============================================================================
