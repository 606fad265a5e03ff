---------------------------- MODULE RequestQueue -----------------------------
(***************************************************************************)
(* What the service promises the application that calls it: the calls are  *)
(* completed one at a time, in the order they were made, each exactly      *)
(* once, whatever happens to the connection in between.                    *)
(***************************************************************************)
EXTENDS Naturals, Sequences

VARIABLES
  issued,     \* how many calls the application has made
  completed   \* the calls whose handler has run, oldest first

vars == <<issued, completed>>

Init == issued = 0 /\ completed = <<>>

\* The application makes its next call.
Issue == issued' = issued + 1 /\ UNCHANGED completed

\* The handler of the oldest uncompleted call runs.
Complete ==
  /\ Len(completed) < issued
  /\ completed' = Append(completed, Len(completed) + 1)
  /\ UNCHANGED issued

Next == Issue \/ Complete

Spec == Init /\ [][Next]_vars
=============================================================================
