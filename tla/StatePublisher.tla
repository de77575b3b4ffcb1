--------------------------- MODULE StatePublisher ---------------------------
(***************************************************************************)
(* karel/ros_state.kl among the other server programs, with libind_rs: a   *)
(* joint position packet per iteration of its inner loop, a robot status   *)
(* packet every now and then.  irs_update reads the controller's signals   *)
(* one after the other while they go on changing, each as it likes, and    *)
(* derives "motion possible" from the mixture.  What the packet copies and *)
(* nothing is derived from (e-stop, in motion, error code) is left out.    *)
(***************************************************************************)
EXTENDS ServerTags, Sequences, FiniteSets

CONSTANTS
  Pub,        \* ros_state, among the Programs
  SloopDiv,   \* cfg_.sloop_div
  MaxChanges  \* how often the signals change during one irs_update

ASSUME PublisherAssumption == Pub \in Programs /\ SloopDiv \in Nat /\ MaxChanges \in Nat

VARIABLES
  step,     \* 0 at the top of the loop, then the next of irs_update's reads
  count,    \* stat_count_
  joints,   \* history: joint packets written since the last status packet
  env,      \* the signals that are on, during an update
  rs,       \* those irs_update has read as on
  changes,  \* how often env changed during this update
  blocked   \* history: what has kept the robot from moving ever since this
            \* update began
pubVars == <<step, count, joints, env, rs, changes, blocked>>
vars == <<tagVars, pubVars>>

\* "relay" and "ros" are the two tasks is_running_ looks at; "deadman" is on when
\* the switch is released.
Signals == {"auto", "deadman", "fault", "servo", "hold", "tp", "shift", "relay", "ros"}
-----------------------------------------------------------------------------
(* Wrong variants: mistakes this code could contain, used by no specification *)

\* HOLD is not looked at.
ReadsWithoutHold == <<"auto", "deadman", "fault", "servo", "tp", "shift", "relay", "ros">>
\* The divider is compared with > instead of >=.
StatusDueLate == count > SloopDiv
-----------------------------------------------------------------------------
(* irs_update and mot_poss_, for a set of signals *)

\* The reads, in their order.
Reads == <<"auto", "deadman", "fault", "servo", "hold", "tp", "shift", "relay", "ros">>
Done == Len(Reads) + 1

MotionPossible(s) ==
  /\ "fault" \notin s
  /\ "hold" \notin s
  /\ "servo" \in s
  /\ "auto" \notin s /\ "tp" \in s => "deadman" \notin s /\ "shift" \in s
  /\ "relay" \in s /\ "ros" \in s

\* What keeps the robot from moving: the deadman and shift keys do in teach mode.
Blocks(s) ==
  (s \cap {"fault", "hold"}) \cup ({"servo", "relay", "ros"} \ s)
    \cup IF "auto" \notin s /\ "tp" \in s THEN (s \cap {"deadman"}) \cup ({"shift"} \ s) ELSE {}

PubTypeOK ==
  /\ TypeOK
  /\ step \in 0..Done /\ count \in 0..SloopDiv /\ joints \in 0..(SloopDiv + 1)
  /\ env \in SUBSET Signals /\ rs \in SUBSET Signals
  /\ changes \in 0..MaxChanges /\ blocked \in SUBSET Signals
-----------------------------------------------------------------------------
\* Any one signal changes, whatever the others are.
EnvChange ==
  /\ step \in 1..(Done - 1) /\ changes < MaxChanges
  /\ \E x \in Signals : env' = (env \ {x}) \cup ({x} \ env)
  /\ changes' = changes + 1
  /\ blocked' = blocked \cap Blocks(env')
  /\ UNCHANGED <<tagVars, step, count, joints, rs>>
-----------------------------------------------------------------------------
InLoop == At(Pub, "loop")

StatusDue == count >= SloopDiv

\* The test of shutdwn_req_ at the end of an iteration.  A WRITE that begins
\* after it, or after CANCEL FILE, may still succeed while the connection is there.
NextIteration == IF shut[Pub] THEN LoopEnds(Pub) ELSE UNCHANGED tagVars

SendJoint ==
  /\ InLoop /\ step = 0 /\ Holds(Pub)
  /\ IF StatusDue
       THEN /\ joints' = joints + 1
            /\ step' = 1
            /\ env' \in SUBSET Signals
            /\ blocked' = Blocks(env')
            /\ UNCHANGED <<tagVars, count>>
       ELSE /\ count' = count + 1
            /\ joints' = IF shut[Pub] THEN 0 ELSE joints + 1
            /\ NextIteration
            /\ UNCHANGED <<step, env, blocked>>
  /\ UNCHANGED <<rs, changes>>

Sample ==
  /\ step \in 1..(Done - 1)
  /\ rs' = rs \cup (env \cap {Reads[step]})
  /\ step' = step + 1
  /\ UNCHANGED <<tagVars, count, joints, env, changes, blocked>>

\* After the packet nothing of the update is left.
EndUpdate == step' = 0 /\ rs' = {} /\ changes' = 0 /\ blocked' = {} /\ env' = {}

SendStatus ==
  /\ step = Done /\ Holds(Pub)
  /\ count' = 0 /\ joints' = 0
  /\ EndUpdate
  /\ NextIteration

\* Either WRITE fails: ssock_dconn2 and out of the inner loop.  stat_count_ is
\* kept for the next client.
PubLoopEnds ==
  /\ step \in {0, Done}
  /\ LoopEnds(Pub)
  /\ joints' = 0
  /\ EndUpdate
  /\ UNCHANGED count

PubStart ==
  /\ Start(Pub)
  /\ count' = 0
  /\ UNCHANGED <<step, joints, env, rs, changes, blocked>>

PubInit ==
  /\ TagsInit
  /\ step = 0 /\ count = 0 /\ joints = 0
  /\ env = {} /\ rs = {} /\ changes = 0 /\ blocked = {}

PubMain ==
  \/ SendJoint \/ Sample \/ SendStatus \/ PubLoopEnds
  \/ Main(Pub) /\ UNCHANGED pubVars

Others(p) == (Around(p) \/ LoopEnds(p)) /\ UNCHANGED pubVars

Outside(p) == (AbortHandler(p) \/ Configure(p) \/ Dial(p) \/ Leave(p)) /\ UNCHANGED pubVars

Next ==
  \/ PubStart \/ PubMain \/ Outside(Pub)
  \/ \E p \in Programs \ {Pub} : Others(p)
  \/ EnvChange

\* The publisher's task runs, and an abort that POST_ERR asked for comes.
\* Nothing else is fair, no client and no other program.
Fairness ==
  /\ WF_vars(PubMain)
  /\ WF_vars(line[Tag(Pub)].st = "bad" /\ AbortHandler(Pub) /\ UNCHANGED pubVars)

Spec     == PubInit /\ [][Next]_vars
FairSpec == Spec /\ Fairness
-----------------------------------------------------------------------------
(* Properties *)

\* A client never waits for a status packet longer than the divider says, the
\* first one of a connection included: at most SloopDiv + 1 joint packets.
StatusOnTime == joints <= IF step = 0 THEN SloopDiv ELSE SloopDiv + 1

\* A status packet says that motion is possible only if nothing has kept the robot
\* from moving all the time irs_update was reading, however often and in whatever
\* order the signals changed meanwhile.  (What was true only for a part of that
\* time may be missed.)
BlockedIsReported == step = Done /\ blocked # {} => ~MotionPossible(rs)

\* A publisher that nobody disturbs and whose connection broke listens again or
\* ends.
ListensAgain ==
  At(Pub, "discon") /\ Pub \notin mixed ~> pc[Pub] \in {"connecting", "off"} \/ Pub \in mixed
=============================================================================
