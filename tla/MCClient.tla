------------------------------ MODULE MCClient ------------------------------
(***************************************************************************)
(* The client on small instances: all constants are given by the configs.  *)
(***************************************************************************)
EXTENDS Client

\* Service as the owner: it never calls close().
ServiceNext == Next /\ closing' = "no"
ServiceSpec == Init /\ [][ServiceNext]_vars
=============================================================================
