------------------------ MODULE MoveHandshake_proofs ------------------------
(***************************************************************************)
(* Proofs about the handshake between exec_move_ and ros_movesm, for every *)
(* set of points.                                                          *)
(*                                                                         *)
(* The argument.  Whoever may touch the shared registers is told by the    *)
(* flags: the relay writes only after it saw rdy, the motion program reads *)
(* only after it saw drdy, and drdy is raised after the last write.  HInv  *)
(* says this of every pair of program counters, and it survives aborts of  *)
(* the motion program because lines 3 and 4 take both flags down before    *)
(* line 12 reads drdy.  LInv adds what aborts break: that drdy goes down   *)
(* under a waiting relay only because line 19 ran.                         *)
(***************************************************************************)
EXTENDS MoveHandshake, TLAPS

\* The registers the relay has set so far hold the point in its hand.
RegistersWritten ==
  /\ rpc \in {"setSpd", "setCnt", "setDrdy", "waitAck"} => pr1 = pkt
  /\ rpc \in {"setCnt", "setDrdy", "waitAck"} => spd = "cfg"
  /\ rpc \in {"setDrdy", "waitAck"} => cnt = "cfg"

\* Past line 4, drdy is ON only while the relay waits for its acknowledgement.
DrdyMeansWaiting ==
  /\ mpc \in {"ready9", "wait12"} /\ drdy => rpc = "waitAck"
  /\ mpc \in {"copy15", "unready18", "ack19"} => drdy /\ rpc = "waitAck"

\* From line 19 to the end of the motion both flags are OFF and the relay
\* cannot pass its first WAIT.
BothDown ==
  /\ mpc = "ack19" => ~rdy
  /\ mpc \in {"start22", "moving22"} => ~rdy /\ ~drdy /\ ~RelayWriting

\* What the motion program holds is what the relay handed over.
CopiedIsHanded ==
  /\ mpc \in {"unready18", "ack19"} => pr2 = pkt
  /\ MotionConfigured
  /\ motion # NoPoint <=> mpc = "moving22"
  /\ mpc = "moving22" => motion = pr2

HInv ==
  /\ TypeOK
  /\ rpc \notin {"idle", "convert"} => pkt \in Reachable
  /\ rpc = "convert" => pkt \in Points
  /\ RegistersWritten
  /\ DrdyMeansWaiting
  /\ BothDown
  /\ CopiedIsHanded
-----------------------------------------------------------------------------
LEMMA HInvInit == InitStale => HInv
  BY HandshakeAssumption
  DEF InitStale, StartUp, HInv, TypeOK, RegistersWritten, DrdyMeansWaiting, BothDown,
      CopiedIsHanded, MotionConfigured, RelayWriting, RelayPC, MovesmPC, Results, RegValue

\* One step of either task, or of the operator, preserves the invariant.
LEMMA HInvStep == HInv /\ [NextAbort]_hvars => HInv'
<1> SUFFICES ASSUME HInv, [NextAbort]_hvars PROVE HInv'
  OBVIOUS
<1> USE HandshakeAssumption
    DEF HInv, TypeOK, RegistersWritten, DrdyMeansWaiting, BothDown, CopiedIsHanded,
        MotionConfigured, RelayWriting, RelayPC, MovesmPC, Results, RegValue,
        Return, Goto, Line
<1>1. ASSUME NEW p \in Points, Call(p) PROVE HInv'
  BY <1>1 DEF Call
<1>2. CASE Convert
  BY <1>2 DEF Convert
<1>3. CASE Sync
  BY <1>3 DEF Sync
<1>4. CASE SetPos
  BY <1>4 DEF SetPos
<1>5. CASE SetSpd
  BY <1>5 DEF SetSpd
<1>6. CASE SetCnt
  BY <1>6 DEF SetCnt
<1>7. CASE SetDrdy
  BY <1>7 DEF SetDrdy
<1>8. CASE WaitAck
  BY <1>8 DEF WaitAck
<1>9. CASE Init3
  <2>1. TypeOK'
    BY <1>9 DEF Init3
  <2>2. /\ (rpc \notin {"idle", "convert"} => pkt \in Reachable)'
        /\ (rpc = "convert" => pkt \in Points)'
        /\ RegistersWritten'
    BY <1>9 DEF Init3
  <2>3. DrdyMeansWaiting' /\ BothDown'
    BY <1>9 DEF Init3
  <2>4. CopiedIsHanded'
    BY <1>9 DEF Init3
  <2> QED
    BY <2>1, <2>2, <2>3, <2>4
<1>10. CASE Init4
  <2>1. TypeOK'
    BY <1>10 DEF Init4
  <2>2. /\ (rpc \notin {"idle", "convert"} => pkt \in Reachable)'
        /\ (rpc = "convert" => pkt \in Points)'
        /\ RegistersWritten'
    BY <1>10 DEF Init4
  <2>3. DrdyMeansWaiting' /\ BothDown'
    BY <1>10 DEF Init4
  <2>4. CopiedIsHanded'
    BY <1>10 DEF Init4
  <2> QED
    BY <2>1, <2>2, <2>3, <2>4
<1>11. CASE Ready9
  BY <1>11 DEF Ready9
<1>12. CASE Wait12
  BY <1>12 DEF Wait12
<1>13. CASE Copy15
  BY <1>13 DEF Copy15
<1>14. CASE Unready18
  BY <1>14 DEF Unready18
<1>15. CASE Ack19
  BY <1>15 DEF Ack19
<1>16. CASE Start22
  BY <1>16 DEF Start22
<1>17. CASE Finish22
  BY <1>17 DEF Finish22
<1>18. CASE AbortMovesm
  BY <1>18 DEF AbortMovesm
<1>19. CASE RunMovesm
  BY <1>19 DEF RunMovesm
<1>20. CASE UNCHANGED hvars
  BY <1>20 DEF hvars
<1> QED
  BY <1>1, <1>2, <1>3, <1>4, <1>5, <1>6, <1>7, <1>8, <1>9, <1>10,
     <1>11, <1>12, <1>13, <1>14, <1>15, <1>16, <1>17, <1>18, <1>19, <1>20
  DEF NextAbort, Next, Relay, Movesm

LEMMA HInvariant == SpecAbort => []HInv
  BY HInvInit, HInvStep, PTL DEF SpecAbort

\* Type correctness, with aborts of the motion program at any moment and with
\* any flags left over from an earlier run.
THEOREM TypeCorrect == SpecAbort => []TypeOK
<1>1. HInv => TypeOK
  BY DEF HInv
<1> QED
  BY <1>1, HInvariant, PTL

\* The shared registers are never written while the motion program has yet to
\* read them: the order of lines 18 and 19 and the two WAITs suffice, even
\* when the motion program is aborted and run again at any moment.
THEOREM RaceFree == SpecAbort => []NoRegisterRace
<1>1. HInv => NoRegisterRace
  BY DEF HInv, NoRegisterRace, RelayWriting, MovesmReading, DrdyMeansWaiting, BothDown
<1> QED
  BY <1>1, HInvariant, PTL

\* No motion ever runs with a position, speed or termination that the relay
\* did not set for it.
THEOREM MotionsConfigured == SpecAbort => []MotionConfigured
<1>1. HInv => MotionConfigured
  BY DEF HInv, CopiedIsHanded
<1> QED
  BY <1>1, HInvariant, PTL
-----------------------------------------------------------------------------
(* Without aborts and from a first start: nothing is lost. *)

\* The ready flag is ON only while the motion program waits or copies, so the
\* relay writes only then, and drdy goes down only after the copy.
LInv ==
  /\ mpc # "off"
  /\ mpc \in {"init3", "init4"} => rpc \in {"idle", "convert", "sync"}
  /\ rdy => mpc \in {"wait12", "copy15", "unready18"}
  /\ RelayWriting => mpc = "wait12"
  /\ rpc = "waitAck" =>
       IF drdy THEN mpc \in {"wait12", "copy15", "unready18", "ack19"}
               ELSE pr2 = pkt /\ mpc \in {"start22", "moving22", "ready9", "wait12"}

LEMMA LInvInit == Init => LInv
  BY DEF Init, StartUp, LInv, RelayWriting

LEMMA LInvStep == HInv /\ LInv /\ [Next]_hvars => LInv'
<1> SUFFICES ASSUME HInv, LInv, [Next]_hvars PROVE LInv'
  OBVIOUS
<1> USE DEF LInv, HInv, TypeOK, RegistersWritten, DrdyMeansWaiting, BothDown,
            CopiedIsHanded, RelayWriting, RelayPC, MovesmPC, Return, Goto, Line
<1>1. ASSUME NEW p \in Points, Call(p) PROVE LInv'
  BY <1>1 DEF Call
<1>2. CASE Convert
  BY <1>2 DEF Convert
<1>3. CASE Sync
  BY <1>3 DEF Sync
<1>4. CASE SetPos \/ SetSpd \/ SetCnt
  BY <1>4 DEF SetPos, SetSpd, SetCnt
<1>5. CASE SetDrdy
  BY <1>5 DEF SetDrdy
<1>6. CASE WaitAck
  BY <1>6 DEF WaitAck
<1>7. CASE Init3
  BY <1>7 DEF Init3
<1>8. CASE Init4
  BY <1>8 DEF Init4
<1>9. CASE Ready9
  BY <1>9 DEF Ready9
<1>10. CASE Wait12
  BY <1>10 DEF Wait12
<1>11. CASE Copy15
  BY <1>11 DEF Copy15
<1>12. CASE Unready18
  BY <1>12 DEF Unready18
<1>13. CASE Ack19
  BY <1>13 DEF Ack19
<1>14. CASE Start22
  BY <1>14 DEF Start22
<1>15. CASE Finish22
  BY <1>15 DEF Finish22
<1>16. CASE UNCHANGED hvars
  BY <1>16 DEF hvars
<1> QED
  BY <1>1, <1>2, <1>3, <1>4, <1>5, <1>6, <1>7, <1>8, <1>9, <1>10,
     <1>11, <1>12, <1>13, <1>14, <1>15, <1>16
  DEF Next, Relay, Movesm

LEMMA LosslessInvariant == Spec => [](HInv /\ LInv)
<1>1. Init => InitStale
  BY DEF Init, InitStale
<1>2. [Next]_hvars => [NextAbort]_hvars
  BY DEF NextAbort
<1>3. HInv /\ LInv /\ [Next]_hvars => (HInv /\ LInv)'
  BY <1>2, HInvStep, LInvStep
<1>4. Init => HInv /\ LInv
  BY <1>1, HInvInit, LInvInit
<1> QED
  BY <1>3, <1>4, PTL DEF Spec

\* exec_move_ returns 0 only for a point the motion program has taken over, as
\* long as the motion program is not aborted.
THEOREM AcknowledgedIsTaken == Spec => AckMeansTaken
<1>1. HInv /\ LInv /\ [Next]_hvars =>
        [(rpc = "waitAck" /\ rpc' = "idle") =>
           pr2 = pkt /\ mpc \in {"start22", "moving22", "ready9", "wait12"}]_hvars
  <2> SUFFICES ASSUME HInv, LInv, Next, rpc = "waitAck", rpc' = "idle"
               PROVE  pr2 = pkt /\ mpc \in {"start22", "moving22", "ready9", "wait12"}
    OBVIOUS
  <2>1. ~drdy
    BY DEF Next, Relay, Movesm, Call, Convert, Sync, SetPos, SetSpd, SetCnt, SetDrdy, WaitAck,
           Init3, Init4, Ready9, Wait12, Copy15, Unready18, Ack19, Start22, Finish22
  <2> QED
    BY <2>1 DEF LInv
<1> QED
  BY <1>1, LosslessInvariant, PTL DEF Spec, AckMeansTaken
-----------------------------------------------------------------------------
(* The handshake implements the abstract pipeline. *)

\* What a step of the handshake is to the lossless pipeline: Call offers, a
\* failing RETURN refuses, line 15 takes, line 22 starts and finishes, and
\* every other statement is a stutter.
LEMMA PipeStep ==
  HInv /\ LInv /\ [Next]_hvars => [Pipe!Next]_(Pipe!vars)
<1> SUFFICES ASSUME HInv, LInv, [Next]_hvars PROVE [Pipe!Next]_(Pipe!vars)
  OBVIOUS
<1> USE HandshakeAssumption
    DEF HInv, LInv, TypeOK, RegistersWritten, DrdyMeansWaiting, BothDown, CopiedIsHanded,
        RelayWriting, RelayPC, MovesmPC, Results, Return, Goto, Line,
        Pending, Held, OnOffer, Cached, Verdict
<1>1. ASSUME NEW p \in Points, Call(p) PROVE Pipe!Offer(p)
  BY <1>1 DEF Call, Pipe!Offer
<1>2. CASE Convert
  <2>1. CASE rpc' = "idle"
    BY <1>2, <2>1 DEF Convert, Pipe!Next, Pipe!Refuse
  <2>2. CASE rpc' = "sync"
    BY <1>2, <2>2 DEF Convert, Pipe!vars
  <2> QED
    BY <1>2, <2>1, <2>2 DEF Convert
<1>3. CASE SetPos \/ SetSpd \/ SetCnt
  <2>1. CASE rpc' = "idle"
    BY <1>3, <2>1 DEF SetPos, SetSpd, SetCnt, Pipe!Next, Pipe!Refuse
  <2>2. CASE rpc' # "idle"
    BY <1>3, <2>2 DEF SetPos, SetSpd, SetCnt, Pipe!vars
  <2> QED
    BY <2>1, <2>2
<1>4. CASE Sync \/ SetDrdy
  BY <1>4 DEF Sync, SetDrdy, Pipe!vars
<1>5. CASE WaitAck
  BY <1>5 DEF WaitAck, Pipe!vars
<1>6. CASE Init3 \/ Ready9 \/ Wait12
  BY <1>6 DEF Init3, Ready9, Wait12, Pipe!vars
<1>7. CASE Init4
  BY <1>7 DEF Init4, Pipe!vars
<1>8. CASE Copy15
  BY <1>8 DEF Copy15, Pipe!Next, Pipe!Take
<1>9. CASE Unready18 \/ Ack19
  BY <1>9 DEF Unready18, Ack19, Pipe!vars
<1>10. CASE Start22
  BY <1>10 DEF Start22, MotionConfigured, Pipe!Next, Pipe!Start
<1>11. CASE Finish22
  BY <1>11 DEF Finish22, Pipe!Next, Pipe!Finish
<1>12. CASE UNCHANGED hvars
  BY <1>12 DEF hvars, Pipe!vars
<1> QED
  BY <1>1, <1>2, <1>3, <1>4, <1>5, <1>6, <1>7, <1>8, <1>9, <1>10, <1>11, <1>12
  DEF Next, Relay, Movesm, Pipe!Next

\* Every point that is not refused starts exactly one motion, in the order of
\* the calls, and the relay is told so.
THEOREM ImplementsLossless == Spec => Lossless
<1>1. Init => Pipe!Init
  BY DEF Init, StartUp, Pipe!Init, OnOffer, Cached, Verdict, Pending, Held
<1> QED
  BY <1>1, PipeStep, LosslessInvariant, PTL DEF Spec, Lossless, Pipe!Spec

\* The same with aborts: a step that loses a point is a step of the pipeline
\* that abandons it.
LEMMA LossyPipeStep ==
  HInv /\ [NextAbort]_hvars => [LossyPipe!Next]_(LossyPipe!vars)
<1> SUFFICES ASSUME HInv, [NextAbort]_hvars PROVE [LossyPipe!Next]_(LossyPipe!vars)
  OBVIOUS
<1> USE HandshakeAssumption
    DEF HInv, TypeOK, RegistersWritten, DrdyMeansWaiting, BothDown, CopiedIsHanded,
        RelayWriting, RelayPC, MovesmPC, Results, Return, Goto, Line,
        Pending, Held, OnOffer, Cached, Verdict
<1>1. ASSUME NEW p \in Points, Call(p) PROVE LossyPipe!Offer(p)
  BY <1>1 DEF Call, LossyPipe!Offer
<1>2. CASE Convert
  <2>1. CASE rpc' = "idle"
    BY <1>2, <2>1 DEF Convert, LossyPipe!Next, LossyPipe!Refuse
  <2>2. CASE rpc' = "sync"
    BY <1>2, <2>2 DEF Convert, LossyPipe!vars
  <2> QED
    BY <1>2, <2>1, <2>2 DEF Convert
<1>3. CASE SetPos \/ SetSpd \/ SetCnt
  <2>1. CASE rpc' = "idle"
    BY <1>3, <2>1 DEF SetPos, SetSpd, SetCnt, LossyPipe!Next, LossyPipe!Refuse
  <2>2. CASE rpc' # "idle"
    BY <1>3, <2>2 DEF SetPos, SetSpd, SetCnt, LossyPipe!vars
  <2> QED
    BY <2>1, <2>2
<1>4. CASE Sync
  BY <1>4 DEF Sync, LossyPipe!vars
<1>5. CASE SetDrdy
  <2>1. CASE mpc \in {"off", "init3", "init4"}
    BY <1>5, <2>1 DEF SetDrdy, LossyPipe!Next, LossyPipe!Abandon
  <2>2. CASE mpc \notin {"off", "init3", "init4"}
    BY <1>5, <2>2 DEF SetDrdy, LossyPipe!vars
  <2> QED
    BY <2>1, <2>2
<1>6. CASE WaitAck
  BY <1>6 DEF WaitAck, LossyPipe!vars
<1>7. CASE Init3 \/ Ready9 \/ Wait12
  BY <1>7 DEF Init3, Ready9, Wait12, LossyPipe!vars
<1>8. CASE Init4
  BY <1>8 DEF Init4, LossyPipe!vars
<1>9. CASE Copy15
  BY <1>9 DEF Copy15, LossyPipe!Next, LossyPipe!Take
<1>10. CASE Unready18 \/ Ack19
  BY <1>10 DEF Unready18, Ack19, LossyPipe!vars
<1>11. CASE Start22
  BY <1>11 DEF Start22, MotionConfigured, LossyPipe!Next, LossyPipe!Start
<1>12. CASE Finish22
  BY <1>12 DEF Finish22, LossyPipe!Next, LossyPipe!Finish
<1>13. CASE AbortMovesm
  BY <1>13 DEF AbortMovesm, LossyPipe!Next, LossyPipe!Abandon
<1>14. CASE RunMovesm
  BY <1>14 DEF RunMovesm, LossyPipe!vars
<1>15. CASE UNCHANGED hvars
  BY <1>15 DEF hvars, LossyPipe!vars
<1> QED
  BY <1>1, <1>2, <1>3, <1>4, <1>5, <1>6, <1>7, <1>8, <1>9, <1>10,
     <1>11, <1>12, <1>13, <1>14, <1>15
  DEF NextAbort, Next, Relay, Movesm, LossyPipe!Next

\* Aborts may drop a point, but none is executed twice, out of order or with a
\* half-written register.
THEOREM ImplementsLossy == SpecAbort => AtMostOnce
<1>1. InitStale => LossyPipe!Init
  BY DEF InitStale, StartUp, LossyPipe!Init, OnOffer, Cached, Verdict, Pending, Held
<1> QED
  BY <1>1, LossyPipeStep, HInvariant, PTL DEF SpecAbort, AtMostOnce, LossyPipe!Spec
=============================================================================
