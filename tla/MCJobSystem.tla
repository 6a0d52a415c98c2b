----------------------------- MODULE MCJobSystem -----------------------------
(***************************************************************************)
(* An instance of JobSystem for TLC.                                       *)
(***************************************************************************)
EXTENDS JobSystem

CONSTANTS w1, w2
=============================================================================
