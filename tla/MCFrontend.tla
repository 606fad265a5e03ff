----------------------------- MODULE MCFrontend -----------------------------
(***************************************************************************)
(* The frontend on small instances: the configs give the constants.        *)
(***************************************************************************)
EXTENDS Frontend

\* Slugs of ASCII characters.
Kept == [p \in Slugs |-> p]

\* A slug with an umlaut: every conversion makes another one of it.
Doubled == [p \in Slugs |-> p \o "~"]

\* "p1" and "p2" keep their slugs, and "p3" becomes one like no other.
Mixed == [p \in Slugs |-> IF p = "p3" THEN "P3" ELSE p]
=============================================================================
