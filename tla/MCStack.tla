------------------------------- MODULE MCStack -------------------------------
(***************************************************************************)
(* Service and Client together on a small instance.                        *)
(***************************************************************************)
EXTENDS Stack
=============================================================================
