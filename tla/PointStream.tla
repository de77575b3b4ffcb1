---------------------------- MODULE PointStream ----------------------------
(***************************************************************************)
(* What the trajectory path promises the client that streams a trajectory  *)
(* to it: points are moved to in their order, one motion at a time; no     *)
(* point is passed over unless it was refused, or the one before it was;   *)
(* and the robot is never more than MaxAhead points behind what the client *)
(* has been told.                                                          *)
(*                                                                         *)
(* A point may be started before the client has read the reply to it, but  *)
(* not before it was sent.  After a lost connection the last point may be  *)
(* repeated, because the client sends again what was not answered.  An     *)
(* abort of the motion program drops points that the client was told of;   *)
(* the order of the rest is kept.                                          *)
(***************************************************************************)
EXTENDS Naturals, FiniteSets

CONSTANTS
  NPts,      \* length of the trajectory
  MaxAhead   \* points the client may be ahead of the robot

VARIABLES
  told,      \* points the client takes for accepted: the first ones so many
  motion,    \* the point of the motion in progress, 0 if there is none
  last,      \* the point of the motion started last
  refused,   \* points that were not executed
  lost,      \* a connection was lost
  aborted    \* the motion program was aborted

vars == <<told, motion, last, refused, lost, aborted>>

\* The client has sent what it was told of, and the point after it.
Sent == {p \in 1..NPts : p <= told + 1}

\* Refused, or answered by the refusal of the point before it.
Excused(q) == q \in refused \/ q - 1 \in refused

Ahead == {q \in (last + 1)..told : ~Excused(q)}

Init ==
  /\ told = 0 /\ motion = 0 /\ last = 0 /\ refused = {} /\ lost = FALSE
  /\ aborted \in BOOLEAN

\* The client learns that its next point was accepted, or takes it for accepted.
Tell ==
  /\ told < NPts
  /\ told' = told + 1
  /\ ~aborted => Cardinality(Ahead') <= MaxAhead
  /\ UNCHANGED <<motion, last, refused, lost, aborted>>

Refuse(p) ==
  /\ refused' = refused \cup {p}
  /\ UNCHANGED <<told, motion, last, lost, aborted>>

Start(p) ==
  /\ motion = 0
  /\ p > last \/ (p = last /\ lost)
  /\ ~aborted => \A q \in (last + 1)..(p - 1) : Excused(q)
  /\ motion' = p /\ last' = p
  /\ UNCHANGED <<told, refused, lost, aborted>>

\* A motion reaches its point, or a STOP ends it.
End ==
  /\ motion # 0
  /\ motion' = 0
  /\ UNCHANGED <<told, last, refused, lost, aborted>>

Lose ==
  /\ lost' = TRUE
  /\ UNCHANGED <<told, motion, last, refused, aborted>>

Abort ==
  /\ aborted' = TRUE
  /\ motion' \in {motion, 0}
  /\ UNCHANGED <<told, last, refused, lost>>

Next ==
  \/ Tell \/ End \/ Lose \/ Abort
  \/ \E p \in Sent : Refuse(p) \/ Start(p)

Spec == Init /\ [][Next]_vars
=============================================================================
