----------------------------- MODULE MCXdsClient -----------------------------
(***************************************************************************)
(* Instances of XdsClient for TLC.  The capacity of reqCh, 1024 in the     *)
(* code, is small enough for the queue to fill.                            *)
(***************************************************************************)
EXTENDS XdsClient
=============================================================================
