----------------------------- MODULE MCWeldCommand -----------------------------
(* Payloads for WeldCommand: a correction (group output) and the arc start     *)
(* (digital output), with the marker for "no change" and other values below 0. *)
EXTENDS WeldCommand

MCPayload ==
  [k \in 1..NCmds |->
     CASE k = 1 -> [correction |-> 5,        arc_start |-> 1]
       [] k = 2 -> [correction |-> -2,       arc_start |-> NoChange]
       [] k = 3 -> [correction |-> NoChange, arc_start |-> -2]]
=============================================================================
