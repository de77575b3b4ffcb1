---------------------------- MODULE PointTransfer ----------------------------
(***************************************************************************)
(* What the interface between the relay (karel/ros_relay.kl) and the move  *)
(* state machine (tpe/ros_movesm.ls) promises: trajectory points pass      *)
(* through a one-place slot owned by the relay and a one-place cache owned *)
(* by the state machine, and each one starts at most one motion, in the    *)
(* order in which the points were offered.                                 *)
(*                                                                         *)
(* The relay is told what became of the point it offered last: refused     *)
(* before it was taken, or accepted.                                       *)
(*                                                                         *)
(* With Lossy = FALSE a point leaves the pipeline only by being refused or *)
(* by starting a motion.  With Lossy = TRUE the state machine may also be  *)
(* aborted, which drops what it holds and what is on offer, and the relay  *)
(* is told "accepted" all the same.                                        *)
(***************************************************************************)
CONSTANTS
  Points,     \* joint positions that may be offered
  NoPoint,    \* an empty place, not a point
  Lossy       \* may the consumer be aborted?

VARIABLES
  slot,       \* offered by the relay, not yet taken
  cache,      \* taken, motion not yet started
  motion,     \* target of the motion in progress
  verdict     \* what the relay was told of its last offer

vars == <<slot, cache, motion, verdict>>

Place == Points \cup {NoPoint}

Verdicts == {"none", "offered", "accepted", "refused"}

TypeOK ==
  /\ slot \in Place /\ cache \in Place /\ motion \in Place
  /\ verdict \in Verdicts

Init == slot = NoPoint /\ cache = NoPoint /\ motion = NoPoint /\ verdict = "none"

\* The relay offers a point; it may do so while earlier points are still
\* cached or moving.
Offer(p) ==
  /\ slot = NoPoint
  /\ verdict # "offered"
  /\ slot' = p /\ verdict' = "offered"
  /\ UNCHANGED <<cache, motion>>

\* The point is refused before the state machine took it.
Refuse ==
  /\ slot # NoPoint
  /\ slot' = NoPoint /\ verdict' = "refused"
  /\ UNCHANGED <<cache, motion>>

\* The state machine takes the offered point over.
Take ==
  /\ slot # NoPoint
  /\ cache = NoPoint
  /\ motion = NoPoint
  /\ cache' = slot
  /\ slot' = NoPoint /\ verdict' = "accepted"
  /\ UNCHANGED motion

\* The cached point becomes the target of a motion.
Start ==
  /\ cache # NoPoint
  /\ motion = NoPoint
  /\ motion' = cache
  /\ cache' = NoPoint
  /\ UNCHANGED <<slot, verdict>>

\* The motion ends.
Finish ==
  /\ motion # NoPoint
  /\ motion' = NoPoint
  /\ UNCHANGED <<slot, cache, verdict>>

\* The state machine is aborted: everything it holds is gone, and the point
\* that is on offer may go with it.
Abandon ==
  /\ Lossy
  /\ cache' = NoPoint
  /\ motion' = NoPoint
  /\ \/ UNCHANGED <<slot, verdict>>
     \/ slot # NoPoint /\ slot' = NoPoint /\ verdict' = "accepted"

Next ==
  \/ \E p \in Points : Offer(p)
  \/ Refuse
  \/ Take
  \/ Start
  \/ Finish
  \/ Abandon

Spec == Init /\ [][Next]_vars
=============================================================================
