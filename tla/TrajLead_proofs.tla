---------------------------- MODULE TrajLead_proofs ----------------------------
(***************************************************************************)
(* How far the client of the trajectory path may be ahead of the robot,    *)
(* what a STOP leaves, and which points may be passed over: proofs for     *)
(* every trajectory and any number of lost connections, as long as the     *)
(* motion program is not aborted.                                          *)
(*                                                                         *)
(* The argument.  A point whose positive reply is on its way or was read   *)
(* has been started, is in the motion program's cache, is in the relay's   *)
(* hand, or was refused; or the NACK of the point before it was taken for  *)
(* its answer (NothingLost).  The acknowledgement of the handshake means   *)
(* that the cache has the point, which is LInv of MoveHandshake_proofs.    *)
(***************************************************************************)
EXTENDS TrajRelay_proofs, FiniteSetTheorems

\* The motion program has the point, or has started its motion.
Taken(q) == q <= last \/ (H!Held /\ pr2 = q)

\* What became of a point that the client counts as accepted.
Known(q) ==
  Taken(q) \/ (main = "exec" /\ pkt = q) \/ q \in refused \/ q - 1 \in refused

InExec == main \in {"exec", "nack"}

\* There is one NACK on its way at most, and it is for the point before the one
\* the client is at by then.
NackIsLast ==
  /\ \A i, j \in 1..Len(r2c) : r2c[i].type = "fail" /\ r2c[j].type = "fail" => i = j
  /\ \A i \in 1..Len(r2c) : r2c[i].type = "fail" => NextInEffect - 1 \in refused

InHandInv ==
  /\ InExec /\ cup => NextInEffect = pkt + 1
  /\ main = "nack" => pkt \in refused
  /\ rpc = "waitAck" /\ ~drdy => Taken(pkt)
  /\ main = "exec" /\ rpc = "idle" /\ result = "ok" => Taken(pkt)
  /\ mpc = "start22" /\ main = "exec" /\ rpc = "idle" /\ result # "ok" => Before(pr2, pkt)

NothingLost ==
  /\ \A q \in 1..(NextInEffect - 1) : Known(q)
  /\ NackIsLast
  /\ InHandInv

Lead == ~aborted => HP!LInv /\ NothingLost

Flow == TagInv /\ FlowInv /\ BookInv /\ ExecInv /\ HP!HInv /\ Chain
-----------------------------------------------------------------------------
(* The handshake without aborts *)

LEMMA Unaborted ==
  ASSUME FlowInv, [Next]_vars, ~aborted'
  PROVE  ~aborted /\ [H!Next]_hvars
<1>1. ~MovesmAbortStep
  BY DEF MovesmAbortStep
<1>2. CASE Reply
  <2>1. cur.kind = "point" => cur.pt \in Points
    BY <1>2 DEF FlowInv, Reply, At, Answering
  <2> QED
    BY <1>2, <2>1 DEF Reply, H!Next, histVars
<1>3. CASE ~Reply
  <2>1. aborted' = aborted /\ (H!Relay \/ H!Movesm \/ UNCHANGED hvars)
    BY <1>1, <1>3 DEF Next, RelayMain, Client, vars, histVars,
      StartRelay, Ctor, DconnAtStart, AcceptFails, Listen, Accepted, OpenFile,
      LoopTest, PollFails, PollNothing, ReadWaits, ReadPacket, ReadFails, HandleSpecial, HandleStop, HandlePoint,
      ReplyFails, Executed, Nack, Disconnect, OuterEnds, FinishRelay,
      Abort, AbortHandler, ExecStep, MovesmStep,
      Connect, SendPoint, SendStop, SendSpecial, Receive, SeeEof, Drop, Arrive, H!Movesm
  <2> QED
    BY <2>1 DEF H!Next
<1> QED
  BY <1>2, <1>3

LEMMA LInvInside == HP!HInv /\ HP!LInv /\ [H!Next]_hvars => HP!LInv'
  BY HandshakeOK, HP!LInvStep
  DEF H!HandshakeAssumption, HP!HandshakeAssumption, hvars, HP!hvars,
      H!Next, HP!Next, H!Call, HP!Call, H!Relay, HP!Relay,
      H!Movesm, HP!Movesm, H!Convert, HP!Convert, H!Sync, HP!Sync, H!SetPos, HP!SetPos,
      H!SetSpd, HP!SetSpd, H!SetCnt, HP!SetCnt, H!SetDrdy, HP!SetDrdy,
      H!WaitAck, HP!WaitAck, H!Return, HP!Return, H!Goto, HP!Goto, H!Line, HP!Line,
      H!Init3, HP!Init3, H!Init4, HP!Init4, H!Ready9, HP!Ready9, H!Wait12, HP!Wait12,
      H!Copy15, HP!Copy15, H!Unready18, HP!Unready18, H!Ack19, HP!Ack19,
      H!Start22, HP!Start22, H!Finish22, HP!Finish22

LEMMA Numbers ==
  ASSUME Flow
  PROVE  /\ {last, next, NextInEffect, pkt, pr1, pr2, motion} \subseteq Nat /\ drops \in Nat
         /\ NextInEffect = next \/ NextInEffect = next + 1
         /\ \A i \in 1..(NextInEffect - 1) : i \in Nat
  BY TrajAssumption DEF Flow, BookInv, Points, NoPoint, NextInEffect, HP!HInv, HP!TypeOK

LEMMA LeadInit == Init => Lead
<1> SUFFICES ASSUME Init, ~aborted PROVE HP!LInv /\ NothingLost
  BY DEF Lead
<1>1. /\ rpc = "idle" /\ mpc = "init3" /\ rdy = FALSE /\ main = "off" /\ r2c = <<>>
      /\ next = 1 /\ await = "none"
  BY DEF Init, H!StartUp
<1>2. HP!LInv
  BY <1>1 DEF HP!LInv, HP!RelayWriting
<1>3. NextInEffect = 1 /\ Len(r2c) = 0
  BY <1>1, EmptyFacts DEF NextInEffect
<1>4. 1..(1 - 1) = {} /\ 1..0 = {}
  OBVIOUS
<1> QED
  BY <1>1, <1>2, <1>3, <1>4 DEF NothingLost, NackIsLast, InHandInv, InExec
-----------------------------------------------------------------------------
(* Steps outside the handshake *)

\* What changes neither what is in the handshake nor what is known of it.
LEMMA LeadQuiet ==
  ASSUME Flow, NothingLost, UNCHANGED <<hvars, last, refused, next>>,
         drops' = 0 => drops = 0,
         (r2c' = r2c /\ NextInEffect' = NextInEffect) \/ r2c' = <<>>,
         main' = main \/ (main # "exec" /\ ~InExec'),
         InExec' /\ cup' => cup /\ r2c' = r2c /\ NextInEffect' = NextInEffect
  PROVE  NothingLost'
<1>1. {next, NextInEffect, pkt, pr2} \subseteq Nat /\ drops \in Nat
      /\ (NextInEffect = next \/ NextInEffect = next + 1)
  BY Numbers
<1>2. /\ NextInEffect' \in Nat /\ NextInEffect' <= NextInEffect
      /\ r2c' = <<>> => NextInEffect' = next
  BY <1>1 DEF NextInEffect
<1>3. ASSUME NEW q PROVE Known(q) => Known(q)'
  BY DEF Known, Taken, H!Held, InExec, hvars
<1>4. \A q \in 1..(NextInEffect' - 1) : Known(q)'
  <2>1. \A a, b \in Nat : a <= b => 1..(a - 1) \subseteq 1..(b - 1)
    OBVIOUS
  <2> QED
    BY <1>1, <1>2, <1>3, <2>1 DEF NothingLost
<1>5. NackIsLast'
  <2>1. CASE r2c' = r2c /\ NextInEffect' = NextInEffect
    BY <2>1 DEF NothingLost, NackIsLast
  <2>2. CASE r2c' = <<>>
    <3>1. Len(r2c') = 0 /\ 1..0 = {}
      BY <2>2, EmptyFacts
    <3> QED
      BY <3>1 DEF NackIsLast
  <2> QED
    BY <2>1, <2>2
<1>6. InHandInv'
  BY <1>1 DEF NothingLost, InHandInv, InExec, Taken, Before, H!Held, hvars
<1> QED
  BY <1>4, <1>5, <1>6 DEF NothingLost

\* The client reads a reply.  A NACK that it takes for the answer to a point is
\* that of the point before.
LEMMA LeadReceive ==
  ASSUME Flow, NothingLost, Receive
  PROVE  NothingLost'
<1>1. /\ UNCHANGED <<hvars, main, last, refused, drops, cup>>
      /\ await # "none" /\ await' = "none" /\ r2c # <<>> /\ r2c' = Tail(r2c)
      /\ next' = (IF await = "point" THEN next + 1 ELSE next)
  BY DEF Receive, relayVars, histVars
<1>2. {next, NextInEffect, pkt, pr2} \subseteq Nat
  BY Numbers
<1>3. NextInEffect' = next'
  BY <1>1 DEF NextInEffect
<1>4. /\ Len(r2c) \in Nat /\ Len(r2c) # 0 /\ Len(r2c') = Len(r2c) - 1
      /\ \A i \in 1..Len(r2c') : r2c'[i] = r2c[i + 1]
      /\ r2c[1].type \in {"succ", "fail"}
  <2>1. /\ Len(r2c) \in Nat /\ Len(r2c) # 0 /\ Len(r2c') = Len(r2c) - 1
        /\ \A i \in 1..(Len(r2c) - 1) : r2c'[i] = r2c[i + 1]
    BY <1>1, EmptyFacts, TailFacts DEF Flow, FlowInv, FlowTypes
  <2>2. \A n \in Nat : n # 0 => 1 \in 1..n
    OBVIOUS
  <2>3. r2c[1] \in Replies
    BY <2>1, <2>2, EmptyFacts DEF Flow, FlowInv, FlowTypes
  <2> QED
    BY <2>1, <2>3 DEF Replies
<1>5. 1 \in 1..Len(r2c) /\ \A i \in 1..Len(r2c') : i + 1 \in 1..Len(r2c) /\ i + 1 # 1
  <2>1. \A n \in Nat : n # 0 => 1 \in 1..n /\ \A i \in 1..(n - 1) : i + 1 \in 1..n /\ i + 1 # 1
    OBVIOUS
  <2> QED
    BY <1>4, <2>1
<1>6. ASSUME NEW q PROVE Known(q)' <=> Known(q)
  BY <1>1 DEF Known, Taken, H!Held, hvars
<1>7. CASE NextInEffect' = NextInEffect
  <2>1. NackIsLast'
    <3>1. \A i, j \in 1..Len(r2c') :
            r2c'[i].type = "fail" /\ r2c'[j].type = "fail" => i + 1 = j + 1
      BY <1>4, <1>5 DEF NothingLost, NackIsLast
    <3>2. \A i, j \in 1..Len(r2c') : i + 1 = j + 1 => i = j
      <4>1. \A n \in Nat : \A i, j \in 1..n : i + 1 = j + 1 => i = j
        OBVIOUS
      <4> QED
        BY <4>1, <1>4
    <3> QED
      BY <1>1, <1>4, <1>5, <1>7, <3>1, <3>2 DEF NothingLost, NackIsLast
  <2>2. InHandInv'
    BY <1>1, <1>7 DEF NothingLost, InHandInv, InExec, Taken, Before, H!Held, hvars
  <2> QED
    BY <1>6, <1>7, <2>1, <2>2 DEF NothingLost
<1>8. CASE NextInEffect' # NextInEffect
  <2>1. /\ await = "point" /\ r2c[1].type = "fail" /\ NextInEffect = next /\ next' = next + 1
    BY <1>1, <1>3, <1>4, <1>8 DEF NextInEffect
  <2>2. next - 1 \in refused
    BY <1>5, <2>1 DEF NothingLost, NackIsLast
  <2>3. \A i \in 1..Len(r2c') : r2c'[i].type # "fail"
    BY <1>4, <1>5, <2>1 DEF NothingLost, NackIsLast
  <2>4. Known(next)
    BY <2>2 DEF Known
  <2>5. \A q \in 1..(NextInEffect' - 1) : Known(q)'
    <3>1. \A n \in Nat : \A q \in 1..((n + 1) - 1) : q \in 1..(n - 1) \/ q = n
      OBVIOUS
    <3>2. \A q \in 1..(NextInEffect' - 1) : q \in 1..(NextInEffect - 1) \/ q = next
      BY <1>2, <1>3, <2>1, <3>1
    <3>3. \A q : Known(q)' <=> Known(q)
      BY <1>6
    <3> QED
      BY <2>4, <3>2, <3>3 DEF NothingLost
  <2>6. ~InExec
    <3> SUFFICES ASSUME InExec PROVE FALSE
      OBVIOUS
    <3>1. InService
      BY DEF InExec, InService, Flow, TagInv, Serving
    <3> QED
      BY <3>1, <1>5, <2>1 DEF Flow, FlowInv, OneRequest
  <2>7. InHandInv'
    BY <1>1, <2>6 DEF NothingLost, InHandInv, InExec, Taken, Before, H!Held, hvars
  <2> QED
    BY <2>3, <2>5, <2>7 DEF NothingLost, NackIsLast
<1> QED
  BY <1>7, <1>8

\* The acknowledgement, and the call of exec_move_.
LEMMA LeadReply ==
  ASSUME Flow, NothingLost, Reply
  PROVE  NothingLost'
<1> DEFINE r == [pt |-> cur.pt, type |-> "succ"]
<1>1. /\ main = "reply" /\ UNCHANGED <<cup, await, next, last, refused, drops>>
      /\ r2c' = IF cup THEN Append(r2c, r) ELSE r2c
      /\ IF cur.kind = "point" THEN H!Call(cur.pt) /\ main' = "exec"
                               ELSE main' = "loop" /\ UNCHANGED hvars
  BY DEF Reply, At, To, Write, clientVars, histVars
<1>2. InService /\ Answering
  BY <1>1 DEF Flow, TagInv, FlowInv, Serving, InService, Answering
<1>3. /\ r2c = <<>> /\ (cur.kind = "point" => cur.pt = next) /\ (cup => await = cur.kind)
  BY <1>2 DEF Flow, FlowInv, OneRequest, IsNext
<1>4. {next, NextInEffect, pkt, pr2} \subseteq Nat
  BY Numbers
<1>5. NextInEffect = next
  BY <1>3 DEF NextInEffect
<1>6. /\ r \in Replies /\ r.type = "succ" /\ r.pt = cur.pt /\ r2c \in Seq(Replies)
      /\ Len(r2c) = 0
  BY <1>3, EmptyFacts DEF Flow, FlowInv, FlowTypes, Packets, Replies
<1> HIDE DEF r
<1>7. /\ \A i \in 1..Len(r2c') : r2c'[i].type # "fail"
      /\ cup => r2c' # <<>> /\ r2c'[1] = r
  <2>1. CASE cup
    <3>1. Len(r2c') = 0 + 1 /\ r2c'[0 + 1] = r /\ r2c' # <<>>
      BY <1>1, <1>6, <2>1, AppendFacts
    <3>2. 0 + 1 = 1 /\ \A i \in 1..1 : i = 1
      OBVIOUS
    <3> QED
      BY <1>6, <3>1, <3>2
  <2>2. CASE ~cup
    <3>1. 1..0 = {}
      OBVIOUS
    <3> QED
      BY <1>1, <1>6, <2>2, <3>1
  <2> QED
    BY <2>1, <2>2
<1>8. NackIsLast'
  BY <1>7 DEF NackIsLast
<1>9. CASE cur.kind = "point"
  <2>1. /\ main' = "exec" /\ rpc' = "convert" /\ pkt' = next
        /\ UNCHANGED <<mpc, pr2, drdy, motion>>
    BY <1>1, <1>3, <1>9 DEF H!Call
  <2>2. NextInEffect' = (IF cup THEN next + 1 ELSE next)
    BY <1>1, <1>3, <1>6, <1>7, <1>9 DEF NextInEffect
  <2>3. ASSUME NEW q, Known(q) PROVE Known(q)'
    BY <1>1, <2>1, <2>3 DEF Known, Taken, H!Held
  <2>4. \A q \in 1..(NextInEffect' - 1) : Known(q)'
    <3>1. \A n \in Nat : \A q \in 1..((n + 1) - 1) : q \in 1..(n - 1) \/ q = n
      OBVIOUS
    <3>2. \A q \in 1..(NextInEffect' - 1) : q \in 1..(NextInEffect - 1) \/ q = next
      BY <1>4, <1>5, <2>2, <3>1
    <3>3. \A q \in 1..(NextInEffect - 1) : Known(q)
      BY DEF NothingLost
    <3>4. \A q : Known(q) => Known(q)'
      BY <2>3
    <3> SUFFICES ASSUME NEW q \in 1..(NextInEffect' - 1) PROVE Known(q)'
      OBVIOUS
    <3>5. CASE q \in 1..(NextInEffect - 1)
      BY <3>3, <3>4, <3>5
    <3>6. CASE q = next
      BY <1>1, <2>1, <3>6 DEF Known
    <3> QED
      BY <3>2, <3>5, <3>6
  <2>5. InHandInv'
    BY <1>1, <2>1, <2>2 DEF InHandInv, InExec
  <2> QED
    BY <1>8, <2>4, <2>5 DEF NothingLost
<1>10. CASE cur.kind # "point"
  <2>1. main' = "loop" /\ UNCHANGED hvars
    BY <1>1, <1>10
  <2>2. NextInEffect' = next
    BY <1>1, <1>3, <1>10, EmptyFacts DEF NextInEffect
  <2>3. ASSUME NEW q, Known(q) PROVE Known(q)'
    BY <1>1, <2>1, <2>3 DEF Known, Taken, H!Held, hvars
  <2>4. InHandInv'
    BY <1>1, <2>1 DEF NothingLost, InHandInv, InExec, Taken, H!Held, hvars
  <2> QED
    BY <1>5, <1>8, <2>2, <2>3, <2>4 DEF NothingLost
<1> QED
  BY <1>9, <1>10

\* exec_move_ has returned, and the relay knows its result.
LEMMA LeadExecuted ==
  ASSUME Flow, NothingLost, Executed
  PROVE  NothingLost'
<1>1. /\ main = "exec" /\ rpc = "idle" /\ UNCHANGED <<hvars, r2c, cup, next, await, last, drops>>
      /\ IF result = "ok" THEN main' = "loop" /\ refused' = refused
                          ELSE main' = "nack" /\ refused' = refused \cup {pkt}
  BY DEF Executed, At, To, chanVars, clientVars
<1>2. NextInEffect' = NextInEffect
  BY <1>1 DEF NextInEffect
<1>3. ASSUME NEW q, Known(q) PROVE Known(q)'
  BY <1>1, <1>3 DEF NothingLost, InHandInv, Known, Taken, H!Held, hvars
<1>4. NackIsLast'
  BY <1>1, <1>2 DEF NothingLost, NackIsLast
<1>5. InHandInv'
  BY <1>1, <1>2 DEF NothingLost, InHandInv, InExec, Taken, H!Held, hvars
<1> QED
  BY <1>2, <1>3, <1>4, <1>5 DEF NothingLost

\* The NACK.
LEMMA LeadNack ==
  ASSUME Flow, NothingLost, Nack
  PROVE  NothingLost'
<1> DEFINE r == [pt |-> cur.pt, type |-> "fail"]
<1>1. /\ main = "nack" /\ main' = "discon"
      /\ UNCHANGED <<hvars, cup, next, await, last, refused, drops>>
      /\ (r2c' = Append(r2c, r) /\ cup) \/ r2c' = r2c
  BY DEF Nack, Write, AfterNack, At, To, clientVars, histVars
<1>2. CASE r2c' = r2c
  <2>1. NextInEffect' = NextInEffect
    BY <1>1, <1>2 DEF NextInEffect
  <2> QED
    BY <1>1, <1>2, <2>1 DEF NothingLost, NackIsLast, InHandInv, InExec, Known, Taken,
                            H!Held, hvars
<1>3. CASE r2c' = Append(r2c, r) /\ cup
  <2>1. InService
    BY <1>1 DEF Flow, TagInv, Serving, InService
  <2>2. \A i \in 1..Len(r2c) : r2c[i].type = "succ"
    BY <2>1 DEF Flow, FlowInv, OneRequest
  <2>3. /\ r \in Replies /\ r.type = "fail" /\ r2c \in Seq(Replies)
        /\ Len(r2c) \in Nat /\ (r2c = <<>> <=> Len(r2c) = 0)
    BY EmptyFacts DEF Flow, FlowInv, FlowTypes, Packets, Replies
  <2> HIDE DEF r
  <2>4. /\ Len(r2c') = Len(r2c) + 1 /\ r2c' # <<>> /\ r2c'[Len(r2c) + 1] = r
        /\ \A i \in 1..Len(r2c) : r2c'[i] = r2c[i]
    BY <1>3, <2>3, AppendFacts
  <2>5. \A i \in 1..Len(r2c') : r2c'[i].type = "fail" => i = Len(r2c) + 1
    <3>1. \A n \in Nat : \A i \in 1..(n + 1) : i \in 1..n \/ i = n + 1
      OBVIOUS
    <3> QED
      BY <2>2, <2>3, <2>4, <3>1
  <2>6. NextInEffect' = NextInEffect
    <3>1. \A n \in Nat : (n # 0 => 1 \in 1..n) /\ (n = 0 => n + 1 = 1)
      OBVIOUS
    <3>2. /\ r2c = <<>> => r2c'[1] = r
          /\ r2c # <<>> => r2c'[1] = r2c[1]
      BY <2>3, <2>4, <3>1
    <3> QED
      BY <1>1, <2>3, <2>4, <3>2 DEF NextInEffect
  <2>7. NextInEffect - 1 = pkt /\ pkt \in refused
    <3>1. NextInEffect = pkt + 1 /\ pkt \in refused
      BY <1>1, <1>3 DEF NothingLost, InHandInv, InExec
    <3>2. pkt \in Nat
      BY Numbers
    <3> QED
      BY <3>1, <3>2
  <2>8. NackIsLast'
    BY <1>1, <2>5, <2>6, <2>7 DEF NackIsLast
  <2>9. ASSUME NEW q, Known(q) PROVE Known(q)'
    BY <1>1, <2>9 DEF Known, Taken, H!Held, hvars
  <2>10. InHandInv'
    BY <1>1 DEF NothingLost, InHandInv, InExec, Taken, H!Held, hvars
  <2> QED
    BY <2>6, <2>8, <2>9, <2>10 DEF NothingLost
<1> QED
  BY <1>1, <1>2, <1>3

\* exec_move_ and the motion program.
LEMMA LeadInside ==
  ASSUME Flow, HP!LInv, NothingLost,
         UNCHANGED <<refused, next, await, cup, r2c, drops>>,
         main' = main \/ (~InExec /\ ~InExec'),
         \/ H!Relay /\ last' = last
         \/ H!Movesm /\ last' = (IF motion' # NoPoint THEN motion' ELSE last)
         \/ H!Finish22 /\ last' = last
  PROVE  NothingLost'
<1>1. {last, pkt, pr2} \subseteq Nat
  BY Numbers
<1>2. NextInEffect' = NextInEffect
  BY DEF NextInEffect
<1>3. NackIsLast'
  BY <1>2 DEF NothingLost, NackIsLast
<1>4. ASSUME NEW q \in Nat, Known(q), Taken(q) => Taken(q)' PROVE Known(q)'
  <2>1. pkt' = pkt
    BY DEF H!Relay, H!Convert, H!Sync, H!SetPos, H!SetSpd, H!SetCnt, H!SetDrdy, H!WaitAck,
      H!Return, H!Goto, H!Movesm, H!Init3, H!Init4, H!Ready9, H!Wait12, H!Copy15,
      H!Unready18, H!Ack19, H!Start22, H!Finish22
  <2> QED
    BY <1>4, <2>1 DEF Known, InExec
<1>5. SUFFICES (\A q \in Nat : Taken(q) => Taken(q)') /\ InHandInv'
  <2>1. \A n \in Nat : \A q \in 1..(n - 1) : q \in Nat
    OBVIOUS
  <2>2. NextInEffect \in Nat
    BY Numbers
  <2> QED
    BY <1>2, <1>3, <1>4, <1>5, <2>1, <2>2 DEF NothingLost
<1>6. CASE H!Relay /\ last' = last
  <2>1. rpc # "idle" /\ UNCHANGED <<mpc, pr2, pkt, motion>>
    BY <1>6 DEF H!Relay, H!Convert, H!Sync, H!SetPos, H!SetSpd, H!SetCnt, H!SetDrdy,
                H!WaitAck, H!Return, H!Goto
  <2>2. main' = main
    BY <2>1 DEF Flow, ExecInv, InExec
  <2>3. \A q : Taken(q)' <=> Taken(q)
    BY <1>6, <2>1 DEF Taken, H!Held
  <2>4. rpc' = "waitAck" => drdy'
    BY <1>6 DEF H!Relay, H!Convert, H!Sync, H!SetPos, H!SetSpd, H!SetCnt, H!SetDrdy,
                H!WaitAck, H!Return, H!Goto
  <2>5. rpc' = "idle" /\ result' = "ok" => rpc = "waitAck" /\ ~drdy
    BY <1>6 DEF H!Relay, H!Convert, H!Sync, H!SetPos, H!SetSpd, H!SetCnt, H!SetDrdy,
                H!WaitAck, H!Return, H!Goto
  <2>6. rpc' = "idle" /\ result' # "ok" => rpc = "convert" \/ HP!RelayWriting
    BY <1>6 DEF H!Relay, H!Convert, H!Sync, H!SetPos, H!SetSpd, H!SetCnt, H!SetDrdy,
                H!WaitAck, H!Return, H!Goto, HP!RelayWriting
  <2>7. mpc = "start22" /\ rpc = "convert" => Before(pr2, pkt)
    BY DEF Flow, Chain
  <2>8. mpc = "start22" => ~HP!RelayWriting
    BY DEF Flow, HP!HInv, HP!BothDown
  <2> QED
    BY <1>2, <2>1, <2>2, <2>3, <2>4, <2>5, <2>6, <2>7, <2>8
    DEF NothingLost, InHandInv, InExec, Before
<1>7. CASE ~(H!Relay /\ last' = last)
  <2>1. H!Movesm /\ UNCHANGED <<rpc, pkt, result>>
    BY <1>7 DEF H!Movesm, H!Init3, H!Init4, H!Ready9, H!Wait12, H!Copy15, H!Unready18,
                H!Ack19, H!Start22, H!Finish22
  <2>2. mpc # "moving22" => motion = NoPoint
    BY DEF Flow, HP!HInv, HP!CopiedIsHanded
  <2>3. last' = (IF H!Start22 THEN pr2 ELSE last)
    BY <1>1, <1>7, <2>1, <2>2, HandshakeOK
    DEF H!Movesm, H!Init3, H!Init4, H!Ready9, H!Wait12, H!Copy15, H!Unready18,
        H!Ack19, H!Start22, H!Finish22, H!Line, H!HandshakeAssumption,
        Flow, HP!HInv, HP!CopiedIsHanded, HP!MotionConfigured
  <2>4. H!Held => last <= pr2
    BY <1>1 DEF Flow, Chain, Before
  <2>5. \A q \in Nat : Taken(q) => Taken(q)'
    BY <1>1, <2>1, <2>3, <2>4
    DEF Taken, H!Held, H!Movesm, H!Init3, H!Init4, H!Ready9, H!Wait12, H!Copy15, H!Unready18,
        H!Ack19, H!Start22, H!Finish22, H!Line
  <2>6. rpc = "waitAck" /\ ~drdy' => Taken(pkt)'
    <3>1. CASE H!Ack19
      BY <3>1, <2>1 DEF H!Ack19, H!Line, Taken, H!Held, Flow, HP!HInv, HP!CopiedIsHanded
    <3>2. CASE H!Init4
      BY <3>2 DEF H!Init4, H!Line, HP!LInv
    <3>3. CASE ~H!Ack19 /\ ~H!Init4
      <4>1. drdy' = drdy
        BY <3>3, <2>1 DEF H!Movesm, H!Init3, H!Ready9, H!Wait12, H!Copy15, H!Unready18,
                          H!Start22, H!Finish22
      <4> QED
        BY <4>1, <1>1, <2>1, <2>5 DEF NothingLost, InHandInv
    <3> QED
      BY <3>1, <3>2, <3>3
  <2>7. mpc' = "start22" => rpc = "waitAck"
    BY <2>1 DEF H!Movesm, H!Init3, H!Init4, H!Ready9, H!Wait12, H!Copy15, H!Unready18,
        H!Ack19, H!Start22, H!Finish22, H!Line, Flow, HP!HInv, HP!DrdyMeansWaiting
  <2> QED
    BY <1>1, <1>2, <2>1, <2>5, <2>6, <2>7 DEF NothingLost, InHandInv, InExec
<1> QED
  BY <1>6, <1>7
-----------------------------------------------------------------------------
LEMMA LeadStep == Flow /\ Lead /\ [Next]_vars => Lead'
<1> SUFFICES ASSUME Flow, Lead, [Next]_vars, ~aborted' PROVE HP!LInv' /\ NothingLost'
  BY DEF Lead
<1>1. ~aborted /\ [H!Next]_hvars
  BY Unaborted DEF Flow
<1>2. HP!LInv /\ NothingLost
  BY <1>1 DEF Lead
<1>3. HP!LInv'
  BY <1>1, <1>2, LInvInside DEF Flow
<1>4. drops' = 0 => drops = 0
  BY OrderStays DEF Flow
<1>5. SUFFICES NothingLost'
  BY <1>3
<1> USE DEF At, To, InExec, sockVars, chanVars, clientVars, relayVars, histVars
<1>6. CASE \/ StartRelay \/ Ctor \/ AcceptFails \/ Listen \/ Accepted \/ OpenFile
           \/ LoopTest \/ PollFails \/ PollNothing \/ ReadWaits \/ ReadPacket
           \/ ReadFails \/ HandleSpecial \/ HandlePoint
           \/ (HandleStop /\ UNCHANGED hvars) \/ ReplyFails \/ OuterEnds
  <2>1. /\ UNCHANGED <<hvars, last, refused, next, await, cup, r2c>>
        /\ ~InExec /\ ~InExec'
    BY <1>6 DEF StartRelay, Ctor, AcceptFails, Listen, Accepted, OpenFile, LoopTest, PollFails, PollNothing, ReadWaits, ReadPacket, ReadFails, HandleSpecial, HandlePoint, HandleStop, ReplyFails,
                OuterEnds
  <2>2. NextInEffect' = NextInEffect
    BY <2>1 DEF NextInEffect
  <2> QED
    BY <1>2, <1>4, <2>1, <2>2, LeadQuiet
<1>7. CASE Abort \/ AbortHandler \/ Arrive \/ UNCHANGED vars
  <2>1. /\ UNCHANGED <<hvars, last, refused, next, await, cup, r2c>>
        /\ main' = main \/ (main # "exec" /\ main' = "discon")
    <3>1. CASE Abort \/ Arrive \/ UNCHANGED vars
      BY <3>1 DEF Abort, Arrive, vars
    <3>2. CASE AbortHandler
      BY <3>2, CancelledTo DEF AbortHandler
    <3> QED
      BY <1>7, <3>1, <3>2
  <2>2. NextInEffect' = NextInEffect
    BY <2>1 DEF NextInEffect
  <2> QED
    BY <1>2, <1>4, <2>1, <2>2, LeadQuiet
<1>8. CASE DconnAtStart \/ FinishRelay \/ Disconnect
  <2>1. /\ UNCHANGED <<hvars, last, refused, next, await, cup>>
        /\ r2c' = r2c \/ r2c' = <<>>
        /\ ~InExec /\ ~InExec'
    BY <1>8 DEF DconnAtStart, FinishRelay, Disconnect, DconnForced, Dconn2, MsgDisco
  <2>2. r2c' = r2c => NextInEffect' = NextInEffect
    BY <2>1 DEF NextInEffect
  <2> QED
    BY <1>2, <1>4, <2>1, <2>2, LeadQuiet
<1>9. CASE Connect \/ SeeEof \/ Drop
  <2>1. /\ UNCHANGED <<hvars, main, last, refused, next>>
        /\ r2c' = <<>> /\ (Connect \/ ~cup')
    BY <1>9 DEF Connect, SeeEof, Drop, CloseClient
  <2>2. Connect => ~InExec'
    BY DEF Connect, Flow, TagInv, Serving
  <2> QED
    BY <1>2, <1>4, <2>1, <2>2, LeadQuiet
<1>10. CASE SendPoint \/ SendStop \/ SendSpecial
  <2>1. UNCHANGED <<hvars, main, last, refused, next, cup, r2c>> /\ await = "none"
    BY <1>10 DEF SendPoint, SendStop, SendSpecial
  <2>2. r2c # <<>> => r2c[1].type # "succ"
    BY <2>1 DEF Flow, FlowInv, PositiveFirst
  <2>3. NextInEffect' = NextInEffect
    BY <2>1, <2>2 DEF NextInEffect
  <2> QED
    BY <1>2, <1>4, <2>1, <2>3, LeadQuiet
<1>11. CASE Receive \/ Reply \/ Executed \/ Nack
  BY <1>2, <1>11, LeadReceive, LeadReply, LeadExecuted, LeadNack
<1>12. CASE ExecStep \/ MovesmStep \/ (HandleStop /\ H!Finish22)
  <2>1. /\ UNCHANGED <<refused, next, await, cup, r2c, drops>>
        /\ main' = main \/ (~InExec /\ ~InExec')
    BY <1>12 DEF ExecStep, MovesmStep, HandleStop
  <2>2. \/ H!Relay /\ last' = last
        \/ H!Movesm /\ last' = (IF motion' # NoPoint THEN motion' ELSE last)
        \/ H!Finish22 /\ last' = last
    BY <1>12 DEF ExecStep, MovesmStep, HandleStop
  <2> QED
    BY <1>2, <2>1, <2>2, LeadInside
<1>13. ~MovesmAbortStep
  BY DEF MovesmAbortStep
<1>14. HandleStop => UNCHANGED hvars \/ H!Finish22
  BY DEF HandleStop
<1> QED
  BY <1>6, <1>7, <1>8, <1>9, <1>10, <1>11, <1>12, <1>13, <1>14 DEF Next, RelayMain, Client

LEMMA LeadHolds == Spec => [](Flow /\ Lead)
<1>1. Spec => []Flow
  BY FlowHolds, BookHolds, HInvHolds, ChainHolds, PTL DEF Flow
<1> QED
  BY <1>1, LeadInit, LeadStep, PTL DEF Spec
-----------------------------------------------------------------------------
(* Theorems *)

LEMMA AheadIsSomewhere ==
  ASSUME Flow, Lead, ~aborted
  PROVE  Ahead \subseteq {pr2} \cup (IF main = "exec" THEN {pkt} ELSE {})
<1> SUFFICES ASSUME NEW q \in Ahead
             PROVE  q \in {pr2} \cup (IF main = "exec" THEN {pkt} ELSE {})
  OBVIOUS
<1>1. /\ q \in (last + 1)..(next - 1) /\ q \notin refused /\ q - 1 \notin refused
  BY DEF Ahead
<1>2. {last, next, NextInEffect} \subseteq Nat
      /\ (NextInEffect = next \/ NextInEffect = next + 1)
  BY Numbers
<1>3. q \in 1..(NextInEffect - 1) /\ ~(q <= last)
  BY <1>1, <1>2
<1>4. Known(q)
  BY <1>3 DEF Lead, NothingLost
<1> QED
  BY <1>1, <1>3, <1>4 DEF Known, Taken

LEMMA AtMostTwo ==
  ASSUME NEW a, NEW b, NEW S, S \subseteq {a} \cup {b}
  PROVE  Cardinality(S) <= 2
<1>1. IsFiniteSet({a}) /\ Cardinality({a}) = 1
  BY FS_Singleton
<1>2. IsFiniteSet({a} \cup {b}) /\ Cardinality({a} \cup {b}) \in {1, 1 + 1}
  BY <1>1, FS_AddElement
<1>3. IsFiniteSet(S) /\ Cardinality(S) <= Cardinality({a} \cup {b})
  BY <1>2, FS_Subset
<1>4. Cardinality(S) \in Nat
  BY <1>3, FS_CardinalityType
<1> QED
  BY <1>2, <1>3, <1>4

LEMMA LeadBounded == Flow /\ Lead => BoundedLead
<1> SUFFICES ASSUME Flow, Lead, ~aborted PROVE Cardinality(Ahead) <= 2
  BY DEF BoundedLead
<1>1. Ahead \subseteq {pr2} \cup {pkt}
  BY AheadIsSomewhere
<1> QED
  BY <1>1, AtMostTwo

\* Without aborts of the motion program, the points that the client counts as
\* accepted and the robot has not started are two at most: the one cached by
\* line 15 of ros_movesm and the one exec_move_ is waiting with.
THEOREM AtMostTwoAhead == Spec => []BoundedLead
  BY LeadBounded, LeadHolds, PTL

\* When a STOP is answered, one motion at most of all the points accepted
\* before it is still to come: the relay has none in its hand, because it reads
\* the STOP only after exec_move_ returned.
THEOREM StopLeavesOneMore == Spec => []StopLeavesOne
<1>1. ASSUME Flow, Lead, ~aborted, main # "exec" PROVE Cardinality(Ahead) <= 1
  <2>1. Ahead \subseteq {pr2}
    BY <1>1, AheadIsSomewhere
  <2>2. IsFiniteSet({pr2}) /\ Cardinality({pr2}) = 1
    BY FS_Singleton
  <2> QED
    BY <2>1, <2>2, FS_Subset
<1>2. Flow /\ Lead => StopLeavesOne
  BY <1>1 DEF StopLeavesOne
<1> QED
  BY <1>2, LeadHolds, PTL

LEMMA SkipsExcused ==
  ASSUME Flow, Lead, [Next]_vars, motion' # motion, motion' # NoPoint, ~aborted,
         NEW q \in Skipped(motion')
  PROVE  q \in refused \/ q - 1 \in refused
<1>1. H!Start22
  BY MotionBegins
<1>2. mpc = "start22" /\ motion' = pr2 /\ H!Held
  BY <1>1 DEF H!Start22, H!Line, H!Held
<1>3. {last, next, NextInEffect, pkt, pr2} \subseteq Nat /\ drops \in Nat
      /\ (NextInEffect = next \/ NextInEffect = next + 1)
  BY Numbers
<1>4. q \in Nat /\ last < q /\ q < pr2
  BY <1>2, <1>3 DEF Skipped
<1>5. q \in 1..(NextInEffect - 1)
  BY <1>2, <1>3, <1>4 DEF Flow, Chain, NotBeyond
<1>6. Known(q)
  BY <1>5 DEF Lead, NothingLost
<1>7. main = "exec" => pkt # q
  <2> SUFFICES ASSUME main = "exec", pkt = q PROVE FALSE
    OBVIOUS
  <2>1. CASE rpc = "idle"
    <3>1. result = "ok" => Taken(pkt)
      BY <2>1 DEF Lead, NothingLost, InHandInv
    <3>2. result # "ok" => Before(pr2, pkt)
      BY <1>2, <2>1 DEF Lead, NothingLost, InHandInv
    <3> QED
      BY <1>3, <1>4, <3>1, <3>2 DEF Taken, Before
  <2>2. CASE rpc \in {"convert", "sync"}
    BY <1>2, <1>3, <1>4, <2>2 DEF Flow, Chain, Before
  <2>3. CASE rpc \in {"setPos", "setSpd", "setCnt", "setDrdy"}
    BY <1>2, <2>3 DEF Flow, HP!HInv, HP!BothDown, HP!RelayWriting
  <2>4. CASE rpc = "waitAck"
    BY <1>2, <1>3, <1>4, <2>4 DEF Flow, HP!HInv, HP!BothDown, Lead, HP!LInv
  <2> QED
    BY <2>1, <2>2, <2>3, <2>4 DEF Flow, HP!HInv, HP!TypeOK, HP!RelayPC
<1> QED
  BY <1>3, <1>4, <1>6, <1>7 DEF Known, Taken

\* Without aborts a point of the trajectory is never passed over silently: only
\* one that exec_move_ refused, and the one after it, whose answer the client
\* takes the NACK for.
THEOREM SkipsAreRefusals == Spec => SkippedOnlyAfterRefusal
<1>1. Flow /\ Lead /\ [Next]_vars =>
        [motion' # motion /\ motion' # NoPoint =>
           aborted \/ \A q \in Skipped(motion') : q \in refused \/ q - 1 \in refused]_vars
  BY SkipsExcused
<1> QED
  BY <1>1, LeadHolds, PTL DEF Spec, SkippedOnlyAfterRefusal
-----------------------------------------------------------------------------
(* The trajectory path as a stream of points *)

\* The relay has in hand what the client has sent.
HandSent == main = "exec" => pkt <= next

LEMMA HandSentStep ==
  ASSUME Flow, Flow', HandSent, [Next]_vars
  PROVE  HandSent'
<1> SUFFICES ASSUME main' = "exec" PROVE pkt' <= next'
  BY DEF HandSent
<1>1. /\ {next, NextInEffect, pkt} \subseteq Nat
      /\ (NextInEffect = next \/ NextInEffect = next + 1)
  BY Numbers
<1>2. /\ next' \in Nat /\ pkt' \in Nat
      /\ NextInEffect' = next' \/ NextInEffect' = next' + 1
  <2>1. BookInv' /\ HP!TypeOK'
    BY DEF Flow, HP!HInv
  <2>2. next' \in 1..(NPts + 1) /\ pkt' \in Points \cup {NoPoint}
    BY <2>1 DEF BookInv, HP!TypeOK
  <2>3. NextInEffect' = next' \/ NextInEffect' = next' + 1
    BY DEF NextInEffect
  <2> QED
    BY <2>2, <2>3, TrajAssumption DEF Points, NoPoint
<1>3. CASE rpc' # "idle"
  <2>1. NotBeyond(pkt)'
    BY <1>3 DEF Flow, Chain
  <2> QED
    BY <1>2, <2>1 DEF NotBeyond
<1>4. CASE rpc' = "idle"
  <2>1. ~Reply
    BY <1>4 DEF Reply, H!Call, To
  <2>2. main = "exec"
    BY <2>1, CancelledTo DEF Next, RelayMain, Client, vars, relayVars, To,
      StartRelay, Ctor, DconnAtStart, AcceptFails, Listen, Accepted, OpenFile,
      LoopTest, PollFails, PollNothing, ReadWaits, ReadPacket, ReadFails, HandleSpecial, HandleStop, HandlePoint,
      ReplyFails, Executed, Nack, AfterNack, Disconnect, OuterEnds, FinishRelay,
      Abort, AbortHandler, ExecStep, MovesmStep, MovesmAbortStep,
      Connect, SendPoint, SendStop, SendSpecial, Receive, SeeEof, Drop, Arrive
  <2>3. pkt' = pkt
    <3>1. UNCHANGED hvars \/ H!Relay \/ H!Movesm \/ H!AbortMovesm \/ H!RunMovesm
      BY <2>1 DEF Next, RelayMain, Client, vars,
        StartRelay, Ctor, DconnAtStart, AcceptFails, Listen, Accepted, OpenFile,
        LoopTest, PollFails, PollNothing, ReadWaits, ReadPacket, ReadFails, HandleSpecial, HandleStop, HandlePoint,
        ReplyFails, Executed, Nack, Disconnect, OuterEnds, FinishRelay,
        Abort, AbortHandler, ExecStep, MovesmStep, MovesmAbortStep,
        Connect, SendPoint, SendStop, SendSpecial, Receive, SeeEof, Drop, Arrive, H!Movesm
    <3> QED
      BY <3>1 DEF hvars, H!Relay, H!Movesm, H!Goto, H!Convert, H!Sync, H!SetPos, H!SetSpd, H!SetCnt,
        H!SetDrdy, H!WaitAck, H!Return, H!Init3, H!Init4, H!Ready9, H!Wait12, H!Copy15,
        H!Unready18, H!Ack19, H!Start22, H!Finish22, H!AbortMovesm, H!RunMovesm
  <2>4. next' = next \/ next' = next + 1
    BY DEF Next, RelayMain, Client, vars, clientVars,
      StartRelay, Ctor, DconnAtStart, AcceptFails, Listen, Accepted, OpenFile,
      LoopTest, PollFails, PollNothing, ReadWaits, ReadPacket, ReadFails, HandleSpecial, HandleStop, HandlePoint,
      Reply, ReplyFails, Executed, Nack, Disconnect, OuterEnds, FinishRelay,
      Abort, AbortHandler, ExecStep, MovesmStep, MovesmAbortStep,
      Connect, SendPoint, SendStop, SendSpecial, Receive, SeeEof, Drop, Arrive
  <2> QED
    BY <1>1, <2>2, <2>3, <2>4 DEF HandSent
<1> QED
  BY <1>3, <1>4

\* Only these steps are seen by the client of the stream.
LEMMA StreamSteps ==
  ASSUME [Next]_vars
  PROVE  \/ UNCHANGED <<motion, last, refused, next, drops, aborted>>
         \/ Receive \/ Executed \/ Drop \/ MovesmAbortStep
         \/ /\ UNCHANGED <<refused, next, drops, aborted>>
            /\ \/ H!Movesm /\ last' = IF motion' # NoPoint THEN motion' ELSE last
               \/ H!Finish22 /\ last' = last
<1>1. CASE ExecStep
  BY <1>1 DEF ExecStep, histVars, clientVars, H!Relay, H!Convert, H!Sync, H!SetPos, H!SetSpd,
    H!SetCnt, H!SetDrdy, H!WaitAck
<1>2. CASE MovesmStep \/ HandleStop
  BY <1>2 DEF MovesmStep, HandleStop, hvars, histVars, clientVars
<1>3. CASE Reply
  BY <1>3 DEF Reply, H!Call, hvars, histVars, clientVars
<1> QED
  BY <1>1, <1>2, <1>3 DEF Next, RelayMain, Client, vars, hvars, histVars, clientVars,
    StartRelay, Ctor, DconnAtStart, AcceptFails, Listen, Accepted, OpenFile,
    LoopTest, PollFails, PollNothing, ReadWaits, ReadPacket, ReadFails, HandleSpecial, HandlePoint,
    ReplyFails, Nack, Disconnect, OuterEnds, FinishRelay, Abort, AbortHandler,
    Connect, SendPoint, SendStop, SendSpecial, SeeEof, Arrive

LEMMA StreamStep ==
  ASSUME Flow, Lead, HandSent, Flow', BoundedLead', [Next]_vars
  PROVE  [Stream!Next]_(Stream!vars)
<1> USE DEF Stream!vars
<1>0. /\ {last, next, pkt, pr2, motion} \subseteq Nat /\ drops \in Nat /\ NPts \in Nat
      /\ NextInEffect = next \/ NextInEffect = next + 1
  BY Numbers, TrajAssumption
<1>1. /\ motion # NoPoint => motion = last
      /\ motion # NoPoint <=> mpc = "moving22"
  BY DEF Flow, Chain, HP!HInv, HP!CopiedIsHanded
<1>2. CASE UNCHANGED <<motion, last, refused, next, drops, aborted>>
  BY <1>2
<1>3. CASE Receive
  <2>1. UNCHANGED <<motion, last, refused, drops, aborted>> /\ next' \in {next, next + 1}
    BY <1>3 DEF Receive, hvars, histVars
  <2>2. CASE next' = next + 1
    <3>1. (next - 1)' = (next - 1) + 1 /\ next - 1 < NPts
      <4>1. next' \in 1..(NPts + 1)
        BY DEF Flow, BookInv
      <4> QED
        BY <1>0, <2>2, <4>1
    <3>2. ~aborted => Cardinality(Stream!Ahead') <= 2
      <4>1. Stream!Ahead' = Ahead'
        BY DEF Stream!Ahead, Stream!Excused, Ahead
      <4> QED
        BY <2>1, <4>1 DEF BoundedLead
    <3>3. (drops > 0)' = (drops > 0)
      BY <2>1
    <3>4. Stream!Tell
      BY <2>1, <3>1, <3>2, <3>3 DEF Stream!Tell, Stream!Cardinality, Cardinality
    <3> QED
      BY <3>4 DEF Stream!Next
  <2> QED
    BY <1>2, <2>1, <2>2
<1>4. CASE Executed
  <2>1. /\ UNCHANGED <<motion, last, next, drops, aborted>>
        /\ refused' \in {refused, refused \cup {pkt}} /\ main = "exec"
    BY <1>4 DEF Executed, hvars, clientVars, At
  <2>2. pkt \in Points /\ pkt <= next
    BY <2>1 DEF Flow, ExecInv, HandSent
  <2>3. pkt \in Stream!Sent
    BY <1>0, <2>2 DEF Stream!Sent, Points
  <2>4. CASE refused' = refused \cup {pkt}
    BY <2>1, <2>3, <2>4 DEF Stream!Next, Stream!Refuse
  <2> QED
    BY <1>2, <2>1, <2>4
<1>5. CASE Drop
  <2>1. UNCHANGED <<motion, last, refused, next, aborted>> /\ drops' > 0
    BY <1>0, <1>5 DEF Drop, hvars, histVars
  <2> QED
    BY <2>1 DEF Stream!Next, Stream!Lose
<1>6. CASE MovesmAbortStep
  <2>1. /\ UNCHANGED <<last, refused, next, drops>> /\ aborted' = TRUE
        /\ motion' \in {motion, NoPoint}
    BY <1>6 DEF MovesmAbortStep, H!AbortMovesm, H!RunMovesm, clientVars
  <2> QED
    BY <2>1 DEF Stream!Next, Stream!Abort, NoPoint
<1>7. CASE /\ UNCHANGED <<refused, next, drops, aborted>>
           /\ \/ H!Movesm /\ last' = IF motion' # NoPoint THEN motion' ELSE last
              \/ H!Finish22 /\ last' = last
  <2>1. CASE motion' = motion
    BY <1>1, <1>2, <1>7, <2>1 DEF H!Finish22
  <2>2. CASE motion' = NoPoint /\ motion # NoPoint
    BY <1>7, <2>2 DEF Stream!Next, Stream!End, NoPoint
  <2>3. CASE motion' # NoPoint /\ motion' # motion
    <3>1. H!Start22
      BY <2>3, MotionBegins
    <3>2. mpc = "start22" /\ motion' = pr2 /\ H!Held /\ last' = motion'
      BY <1>7, <2>3, <3>1 DEF H!Start22, H!Finish22, H!Line, H!Held
    <3>3. motion = NoPoint
      BY <1>1, <3>2
    <3>4. motion' \in Stream!Sent
      <4>1. pr2 \in Points \cup {NoPoint}
        BY DEF Flow, HP!HInv, HP!TypeOK
      <4>2. pr2 <= next
        BY <1>0, <3>2 DEF Flow, Chain, NotBeyond
      <4> QED
        BY <1>0, <2>3, <3>2, <4>1, <4>2 DEF Stream!Sent, Points
    <3>5. motion' > last \/ (motion' = last /\ drops > 0)
      BY <2>3, MotionsAscend DEF Flow
    <3>6. ~aborted => \A q \in (last + 1)..(motion' - 1) : Stream!Excused(q)
      BY <2>3, SkipsExcused DEF Skipped, Stream!Excused
    <3>7. Stream!Start(motion')
      BY <1>7, <3>2, <3>3, <3>5, <3>6 DEF Stream!Start, NoPoint
    <3> QED
      BY <3>4, <3>7 DEF Stream!Next
  <2> QED
    BY <2>1, <2>2, <2>3
<1> QED
  BY <1>2, <1>3, <1>4, <1>5, <1>6, <1>7, StreamSteps

\* End to end, for every trajectory and any number of lost connections, refusals,
\* stops and aborts: what the client is told and what the robot does is what
\* PointStream promises, with the robot two points behind at most.
THEOREM ImplementsStream == Spec => StreamsPoints
<1>1. Init => Stream!Init
  <2> SUFFICES ASSUME Init PROVE Stream!Init
    OBVIOUS
  <2>1. /\ motion = 0 /\ last = 0 /\ refused = {} /\ aborted = rdy
        /\ next = 1 /\ drops = 0
    BY DEF Init, H!StartUp, NoPoint
  <2>2. rdy \in BOOLEAN
    <3>1. rdy \in IF MovesmAborts THEN BOOLEAN ELSE {FALSE}
      BY DEF Init
    <3>2. MovesmAborts \in BOOLEAN
      BY TrajAssumption
    <3> QED
      BY <3>1, <3>2
  <2>3. aborted \in BOOLEAN
    BY <2>1, <2>2
  <2>4. next - 1 = 0 /\ (drops > 0) = FALSE
    BY <2>1
  <2> QED
    BY <2>1, <2>3, <2>4 DEF Stream!Init
<1>2. Init => HandSent
  BY DEF Init, HandSent
<1>3. Spec => []HandSent
  BY <1>2, HandSentStep, LeadHolds, PTL DEF Spec
<1> QED
  BY <1>1, <1>3, StreamStep, LeadHolds, AtMostTwoAhead, PTL
     DEF Spec, StreamsPoints, Stream!Spec
=============================================================================
