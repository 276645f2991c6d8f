------------------------------- MODULE MCSystem -------------------------------
(***************************************************************************)
(* An instance of System for TLC: a server that warms up its inbound       *)
(* listener, a caller that gets two resources, or one again, a             *)
(* reconnection.  reqCh has room for one request, so that it fills.        *)
(***************************************************************************)
EXTENDS System
=============================================================================
