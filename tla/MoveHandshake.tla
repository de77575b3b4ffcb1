---------------------------- MODULE MoveHandshake ----------------------------
(***************************************************************************)
(* The two-flag handshake by which the trajectory relay hands joint        *)
(* positions to the motion program.                                        *)
(*                                                                         *)
(* Two tasks of the controller run concurrently, one statement at a time:  *)
(*   - exec_move_ of karel/ros_relay.kl, called for every trajectory point *)
(*     (program counter rpc, argument pkt, return value result);           *)
(*   - the TP program tpe/ros_movesm.ls (program counter mpc, named after  *)
(*     its lines).                                                         *)
(* They share flag F[1] "ready" (rdy), flag F[2] "data ready" (drdy), the  *)
(* position register PR[1] (pr1), the speed and termination registers R[1] *)
(* and R[2] (spd, cnt); PR[2] (pr2) belongs to the motion program.         *)
(*                                                                         *)
(* The values of R[1] and R[2] are abstracted to whether the register      *)
(* holds what the relay's configuration says ("cfg") or anything else that *)
(* was left in it ("stale"): the relay only ever writes cfg.move_speed and *)
(* cfg.move_cnt.                                                           *)
(***************************************************************************)
CONSTANTS
  Points,      \* joint positions the relay may be asked to execute
  Reachable,   \* those for which J_IN_RANGE holds
  NoPoint      \* contents of a register nothing was written to

ASSUME HandshakeAssumption ==
  /\ Reachable \subseteq Points
  /\ NoPoint \notin Points

VARIABLES rpc, pkt, result, mpc, rdy, drdy, pr1, pr2, spd, cnt, motion

relayVars  == <<rpc, pkt, result>>
regVars    == <<pr1, spd, cnt>>
movesmVars == <<mpc, pr2, motion>>
hvars      == <<rpc, pkt, result, mpc, rdy, drdy, pr1, pr2, spd, cnt, motion>>

RelayPC  == {"idle", "convert", "sync", "setPos", "setSpd", "setCnt", "setDrdy", "waitAck"}
MovesmPC == {"off", "init3", "init4", "ready9", "wait12", "copy15", "unready18",
             "ack19", "start22", "moving22"}
Results  == {"none", "ok", "oor", "err"}
RegValue == {"cfg", "stale"}

TypeOK ==
  /\ rpc \in RelayPC
  /\ pkt \in Points \cup {NoPoint}
  /\ result \in Results
  /\ mpc \in MovesmPC
  /\ rdy \in BOOLEAN /\ drdy \in BOOLEAN
  /\ pr1 \in Points \cup {NoPoint}
  /\ pr2 \in Points \cup {NoPoint}
  /\ spd \in RegValue /\ cnt \in RegValue
  /\ motion \in Points \cup {NoPoint}
-----------------------------------------------------------------------------
(* Wrong variants of some of the definitions below, each a mistake this code  *)
(* could contain.  No specification uses them: they show which property       *)
(* notices the mistake.                                                       *)

\* exec_move_ returns KAREL's raw status.
ReturnRaw(r) == rpc' = "idle" /\ result' = "stat" /\ UNCHANGED pkt

\* exec_move_ does not wait for the acknowledgement.
WaitAckAtOnce ==
  /\ rpc = "waitAck"
  /\ rpc' = "idle" /\ result' = "ok" /\ UNCHANGED pkt
  /\ UNCHANGED <<mpc, rdy, drdy, pr1, pr2, spd, cnt, motion>>

\* Line 4 is missing.
Init4Missing ==
  /\ mpc = "init4" /\ mpc' = "ready9"
  /\ UNCHANGED <<rpc, pkt, result, rdy, drdy, pr1, pr2, spd, cnt, motion>>

\* Line 12 does not wait.
Wait12AtOnce ==
  /\ mpc = "wait12" /\ mpc' = "copy15"
  /\ UNCHANGED <<rpc, pkt, result, rdy, drdy, pr1, pr2, spd, cnt, motion>>

\* Line 15 copies the wrong way round.
Copy15Swapped ==
  /\ mpc = "copy15" /\ mpc' = "unready18"
  /\ pr1' = pr2
  /\ UNCHANGED <<rpc, pkt, result, rdy, drdy, pr2, spd, cnt, motion>>

\* Line 18 is missing.
Unready18Missing ==
  /\ mpc = "unready18" /\ mpc' = "ack19"
  /\ UNCHANGED <<rpc, pkt, result, rdy, drdy, pr1, pr2, spd, cnt, motion>>

\* Line 19 is missing.
Ack19Missing ==
  /\ mpc = "ack19" /\ mpc' = "start22"
  /\ UNCHANGED <<rpc, pkt, result, rdy, drdy, pr1, pr2, spd, cnt, motion>>

\* The jump back to LBL[10] comes before the motion.
Ack19Jumps ==
  /\ mpc = "ack19" /\ mpc' = "ready9"
  /\ drdy' = FALSE
  /\ UNCHANGED <<rpc, pkt, result, rdy, pr1, pr2, spd, cnt, motion>>
-----------------------------------------------------------------------------
(* exec_move_, statement by statement *)

\* The relay's main loop calls exec_move_ for the packet it just read.
Call(p) ==
  /\ rpc = "idle"
  /\ rpc' = "convert"
  /\ pkt' = p
  /\ result' = "none"
  /\ UNCHANGED <<mpc, rdy, drdy, pr1, pr2, spd, cnt, motion>>

\* RETURN: the caller sees the status.
Return(r) == rpc' = "idle" /\ result' = r /\ UNCHANGED pkt

Goto(l) == rpc' = l /\ UNCHANGED <<pkt, result>>

\* CNV_REL_JPOS may fail; a position that is not J_IN_RANGE is refused.
Convert ==
  /\ rpc = "convert"
  /\ \/ Return("err")
     \/ pkt \notin Reachable /\ Return("oor")
     \/ pkt \in Reachable /\ Goto("sync")
  /\ UNCHANGED <<mpc, rdy, drdy, pr1, pr2, spd, cnt, motion>>

\* WAIT FOR (FLG[cfg.f_msm_rdy] = ON)
Sync ==
  /\ rpc = "sync"
  /\ rdy
  /\ Goto("setPos")
  /\ UNCHANGED <<mpc, rdy, drdy, pr1, pr2, spd, cnt, motion>>

\* SET_JPOS_REG, SET_INT_REG: each may fail, and then exec_move_ returns at
\* once and leaves the ready flag ON.
SetPos ==
  /\ rpc = "setPos"
  /\ \/ Return("err") /\ UNCHANGED pr1
     \/ Goto("setSpd") /\ pr1' = pkt
  /\ UNCHANGED <<mpc, rdy, drdy, pr2, spd, cnt, motion>>

SetSpd ==
  /\ rpc = "setSpd"
  /\ \/ Return("err") /\ UNCHANGED spd
     \/ Goto("setCnt") /\ spd' = "cfg"
  /\ UNCHANGED <<mpc, rdy, drdy, pr1, pr2, cnt, motion>>

SetCnt ==
  /\ rpc = "setCnt"
  /\ \/ Return("err") /\ UNCHANGED cnt
     \/ Goto("setDrdy") /\ cnt' = "cfg"
  /\ UNCHANGED <<mpc, rdy, drdy, pr1, pr2, spd, motion>>

\* FLG[cfg.f_msm_drdy] = ON
SetDrdy ==
  /\ rpc = "setDrdy"
  /\ drdy' = TRUE
  /\ Goto("waitAck")
  /\ UNCHANGED <<mpc, rdy, pr1, pr2, spd, cnt, motion>>

WaitAck ==
  /\ rpc = "waitAck"
  /\ ~drdy
  /\ Return("ok")
  /\ UNCHANGED <<mpc, rdy, drdy, pr1, pr2, spd, cnt, motion>>

Relay == Convert \/ Sync \/ SetPos \/ SetSpd \/ SetCnt \/ SetDrdy \/ WaitAck
-----------------------------------------------------------------------------
(* ros_movesm, line by line *)

Line(from, to) == mpc = from /\ mpc' = to

\* 3: F[1:ROS-I rdy]=(OFF)
Init3 ==
  /\ Line("init3", "init4")
  /\ rdy' = FALSE
  /\ UNCHANGED <<rpc, pkt, result, drdy, pr1, pr2, spd, cnt, motion>>

\* 4: F[2:ROS-I drdy]=(OFF)
Init4 ==
  /\ Line("init4", "ready9")
  /\ drdy' = FALSE
  /\ UNCHANGED <<rpc, pkt, result, rdy, pr1, pr2, spd, cnt, motion>>

\* 9: F[1:ROS-I rdy]=(ON)
Ready9 ==
  /\ Line("ready9", "wait12")
  /\ rdy' = TRUE
  /\ UNCHANGED <<rpc, pkt, result, drdy, pr1, pr2, spd, cnt, motion>>

\* 12: WAIT (F[2:ROS-I drdy])
Wait12 ==
  /\ drdy
  /\ Line("wait12", "copy15")
  /\ UNCHANGED <<rpc, pkt, result, rdy, drdy, pr1, pr2, spd, cnt, motion>>

\* 15: PR[2:ROS-I p cache]=PR[1:ROS-I pos]
Copy15 ==
  /\ Line("copy15", "unready18")
  /\ pr2' = pr1
  /\ UNCHANGED <<rpc, pkt, result, rdy, drdy, pr1, spd, cnt, motion>>

\* 18: F[1:ROS-I rdy]=(OFF), before the acknowledgement of line 19
Unready18 ==
  /\ Line("unready18", "ack19")
  /\ rdy' = FALSE
  /\ UNCHANGED <<rpc, pkt, result, drdy, pr1, pr2, spd, cnt, motion>>

\* 19: F[2:ROS-I drdy]=(OFF)
Ack19 ==
  /\ Line("ack19", "start22")
  /\ drdy' = FALSE
  /\ UNCHANGED <<rpc, pkt, result, rdy, pr1, pr2, spd, cnt, motion>>

\* 22: J PR[2] R[1]% CNT R[2] begins: the three registers are read here.
Start22 ==
  /\ Line("start22", "moving22")
  /\ motion' = pr2
  /\ UNCHANGED <<rpc, pkt, result, rdy, drdy, pr1, pr2, spd, cnt>>

\* 22 ends, 25: JMP LBL[10]
Finish22 ==
  /\ Line("moving22", "ready9")
  /\ motion' = NoPoint
  /\ UNCHANGED <<rpc, pkt, result, rdy, drdy, pr1, pr2, spd, cnt>>

Movesm ==
  \/ Init3 \/ Init4 \/ Ready9 \/ Wait12 \/ Copy15
  \/ Unready18 \/ Ack19 \/ Start22 \/ Finish22
-----------------------------------------------------------------------------
(* The operator.  The relay survives an ABORT (its condition handler says   *)
(* NOABORT), the motion program does not; running ROS again starts the      *)
(* motion program from its first line while the flags keep their values.    *)

AbortMovesm ==
  /\ mpc # "off"
  /\ mpc' = "off"
  /\ motion' = NoPoint
  /\ UNCHANGED <<rpc, pkt, result, rdy, drdy, pr1, pr2, spd, cnt>>

RunMovesm ==
  /\ Line("off", "init3")
  /\ UNCHANGED <<rpc, pkt, result, rdy, drdy, pr1, pr2, spd, cnt, motion>>
-----------------------------------------------------------------------------
\* The relay is started before the motion program (ros.ls), so its first call
\* may come before line 3 ran.  The registers hold what was left in them.
StartUp ==
  /\ rpc = "idle" /\ pkt = NoPoint /\ result = "none"
  /\ mpc = "init3"
  /\ drdy \in BOOLEAN
  /\ pr1 = NoPoint /\ pr2 = NoPoint /\ motion = NoPoint
  /\ spd \in RegValue /\ cnt \in RegValue

\* A first start: the ready flag is OFF, as line 3 and line 18 leave it.
Init == StartUp /\ rdy = FALSE

\* A start after an abort: the ready flag may still be ON from line 9.
InitStale == StartUp /\ rdy \in BOOLEAN

Next == (\E p \in Points : Call(p)) \/ Relay \/ Movesm

NextAbort == Next \/ AbortMovesm \/ RunMovesm

\* Both tasks are scheduled; a motion ends.  Nothing forces the relay to be
\* called or the operator to act, except that what was aborted is run again.
Fairness == WF_hvars(Relay) /\ WF_hvars(Movesm)

Spec == Init /\ [][Next]_hvars /\ Fairness

SpecAbort == InitStale /\ [][NextAbort]_hvars
-----------------------------------------------------------------------------
(* Properties *)

\* The relay is between its two WAITs: it may be writing PR[1], R[1], R[2].
RelayWriting == rpc \in {"setPos", "setSpd", "setCnt", "setDrdy"}

\* The motion program is between seeing "data ready" and the start of the
\* motion: it is reading PR[1], then R[1] and R[2].
MovesmReading == mpc \in {"copy15", "unready18", "ack19", "start22"}

\* The relay never writes a shared register while the motion program is
\* copying the position or has yet to read speed and termination, whatever is
\* aborted and run again in between.
NoRegisterRace == ~(RelayWriting /\ MovesmReading)

\* Every motion runs to a point the relay handed over completely, at the
\* configured speed and termination: never with what was left in a register.
MotionConfigured ==
  mpc \in {"start22", "moving22"} => pr2 \in Reachable /\ spd = "cfg" /\ cnt = "cfg"

\* exec_move_ returns 0 only for a point that the motion program has cached
\* or is already moving to.
AckMeansTaken ==
  [][(rpc = "waitAck" /\ rpc' = "idle") =>
       pr2 = pkt /\ mpc \in {"start22", "moving22", "ready9", "wait12"}]_hvars

\* A point that exec_move_ was called for is decided: it returns, and when it
\* returns 0 the motion to that point starts.
CallReturns == rpc # "idle" ~> rpc = "idle"

TakenMoves == \A p \in Points : (mpc = "unready18" /\ pr2 = p) ~> (motion = p)

\* The state machine holds a point from the copy until the motion starts.
Held == mpc \in {"unready18", "ack19", "start22"}

\* A point on offer is still to be taken.  Once "data ready" is up it is taken
\* only by a motion program that has passed line 4: lines 3 and 4 discard it.
Pending ==
  IF rpc = "waitAck"
    THEN drdy /\ mpc \notin {"unready18", "ack19", "off", "init3", "init4"}
    ELSE rpc # "idle"

OnOffer == IF Pending THEN pkt ELSE NoPoint
Cached  == IF Held THEN pr2 ELSE NoPoint
Verdict ==
  IF Pending THEN "offered"
  ELSE IF rpc = "waitAck" \/ result = "ok" THEN "accepted"
  ELSE IF result = "none" THEN "none" ELSE "refused"

Pipe == INSTANCE PointTransfer WITH
  Lossy <- FALSE, slot <- OnOffer, cache <- Cached, verdict <- Verdict

LossyPipe == INSTANCE PointTransfer WITH
  Lossy <- TRUE, slot <- OnOffer, cache <- Cached, verdict <- Verdict

\* The handshake implements the lossless one-place pipeline: every point that
\* is not refused starts exactly one motion, in order.
Lossless == Pipe!Spec

\* With aborts it implements the lossy one: points may be dropped, but none is
\* executed twice, out of order, or half written.
AtMostOnce == LossyPipe!Spec
=============================================================================
