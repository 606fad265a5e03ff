------------------------------ MODULE MCLogging ------------------------------
(***************************************************************************)
(* The logger with a few threads, and tags up to twice the length shown.   *)
(***************************************************************************)
EXTENDS Logging

Letters == <<"a", "b", "c", "d", "e", "f", "g", "h", "i", "j", "k", "l", "m",
             "n", "o", "p", "q", "r", "s", "t", "u", "v", "w", "x", "y", "z">>
MCTags == {SubSeq(Letters, 1, n) : n \in (0..2) \cup (14..17) \cup {26}}
=============================================================================
