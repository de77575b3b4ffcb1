---------------------------- MODULE TrajRelay_proofs ----------------------------
(***************************************************************************)
(* Proofs about the trajectory path, for every trajectory and any number   *)
(* of lost connections, stops and aborts.                                  *)
(*                                                                         *)
(* The argument.  The relay holds the tag's connection exactly while it    *)
(* serves it (TagInv).  A connection the relay serves has one request at   *)
(* most, and it is in one place: unread, being answered, or answered by    *)
(* what is in r2c (OneRequest); the NACK comes on top of that, just before *)
(* the relay gives the connection up (AfterService).  Then the points on   *)
(* their way from the client to the motion are in ascending order (Chain), *)
(* strictly so until a connection is lost under the client.                *)
(***************************************************************************)
EXTENDS TrajRelay, ChannelFacts, TLAPS

HP == INSTANCE MoveHandshake_proofs

\* The relay has accepted the connection and not yet given it up.
Serving ==
  main \in {"ofd", "loop", "poll", "reading", "handle", "reply", "exec", "nack"}

TagInv ==
  /\ Serving => connected /\ tag = "up"
  /\ connected => Serving \/ main = "discon"
  /\ tag = "up" => Serving \/ main = "connecting" \/ (main = "discon" /\ connected)
  /\ tag = "listening" => main = "connecting"
  /\ main = "connecting" => tag \in {"listening", "up"}

\* The connection is up and the relay is still at it.
InService == tag = "up" /\ main # "discon"

\* The packet in hand has yet to be answered.
Answering == main \in {"handle", "reply"} /\ cur.kind # "special"

IsRequest(m) == m.kind # "special"
HasRequest   == c2r # <<>> /\ IsRequest(c2r[Len(c2r)])

\* Only the first packet that waits to be read can be a special one.
SpecialsFirst == \A i \in 2..Len(c2r) : IsRequest(c2r[i])

\* A packet answers to what the client waits for.
IsNext(m) == m.kind = "point" => m.pt = next

OneRequest ==
  InService =>
    /\ \A i \in 1..Len(c2r) : IsNext(c2r[i])
    /\ Len(c2r) <= 1 \/ (Len(c2r) = 2 /\ ~IsRequest(c2r[1]))
    /\ Len(r2c) <= 1
    /\ Answering => IsNext(cur) /\ c2r = <<>> /\ r2c = <<>>
    /\ \A i \in 1..Len(r2c) : r2c[i].type = "succ"
    /\ cup => (await # "none" <=> HasRequest \/ Answering \/ r2c # <<>>)
    /\ HasRequest /\ cup => await = c2r[Len(c2r)].kind
    /\ Answering /\ cup => await = cur.kind

Unread == IF c2r # <<>> /\ ~IsRequest(c2r[1]) THEN Len(c2r) - 1 ELSE Len(c2r)
Waits  == IF await # "none" \/ ~cup THEN 1 ELSE 0

AfterService == ~InService => Unread + Len(r2c) <= Waits + 1

\* A positive reply is the first one on its way, somebody waits for it, and
\* nothing was sent since.
PositiveFirst ==
  /\ \A i \in 2..Len(r2c) : r2c[i].type = "fail"
  /\ r2c # <<>> /\ r2c[1].type = "succ" =>
       /\ await # "none" /\ c2r = <<>>
       /\ await = "point" => r2c[1].pt = next

Gone ==
  /\ c2r # <<>> => tag = "up"
  /\ ~cup => await = "none" /\ r2c = <<>>
  /\ ~cup /\ tag = "up" => drops > 0

FlowTypes ==
  /\ c2r \in Seq(Packets) /\ r2c \in Seq(Replies)
  /\ cup \in BOOLEAN /\ next \in Nat \ {0} /\ await \in {"none", "point", "stop"}
  /\ cur \in Packets /\ drops \in Nat

FlowInv ==
  /\ FlowTypes
  /\ SpecialsFirst /\ OneRequest /\ AfterService /\ PositiveFirst /\ Gone
  /\ main = "reply" => cur.kind # "special"
  /\ Answering /\ cur.kind = "point" => cur.pt \in Points
  /\ \A i \in 1..Len(c2r) : c2r[i].kind = "point" => c2r[i].pt \in Points

\* The client's next point once it has read what is on its way.
NextInEffect ==
  IF await = "point" /\ r2c # <<>> /\ r2c[1].type = "succ" THEN next + 1 ELSE next

Before(a, b) == IF drops = 0 THEN a < b ELSE a <= b
NotBeyond(a) == IF drops = 0 THEN a < NextInEffect ELSE a <= next

\* The point in the relay's hand has not been taken, or may not have been.
InHand == rpc # "idle" /\ ~(rpc = "waitAck" /\ ~drdy)

Chain ==
  /\ motion # NoPoint => motion = last
  /\ NotBeyond(last)
  /\ H!Held => Before(last, pr2) /\ NotBeyond(pr2)
  /\ rpc # "idle" => NotBeyond(pkt)
  /\ InHand => Before(last, pkt)
  /\ mpc = "start22" /\ rpc \in {"convert", "sync"} => Before(pr2, pkt)

ExecInv ==
  /\ main = "exec" => pkt \in Points
  /\ rpc # "idle" => main = "exec"

\* The rest of TypeOK.
BookInv ==
  /\ main \in MainPC
  /\ shut \in BOOLEAN /\ ahOn \in BOOLEAN /\ abortReq \in BOOLEAN
  /\ connected \in BOOLEAN /\ tag \in {"bad", "idle", "listening", "up"}
  /\ next \in 1..(NPts + 1) /\ (await = "point" => next \in Points)
  /\ drops \in 0..MaxDrops /\ stops \in 0..MaxStops
  /\ last \in Points \cup {NoPoint} /\ refused \subseteq Points /\ aborted \in BOOLEAN

TrajInv == TagInv /\ FlowInv /\ ExecInv /\ BookInv /\ HP!HInv /\ Chain
-----------------------------------------------------------------------------
(* The tag *)

\* CANCEL FILE leaves the program where it is, or its call fails.
LEMMA CancelledTo ==
  ASSUME main' \in Cancelled
  PROVE  main' = main \/ (main \in {"poll", "reading", "reply", "nack"} /\ main' = "discon")
  BY DEF Cancelled, AfterNack

LEMMA TagInit == Init => TagInv
  BY DEF Init, TagInv, Serving

LEMMA TagStep == TagInv /\ [Next]_vars => TagInv'
<1> SUFFICES ASSUME TagInv, [Next]_vars PROVE TagInv'
  OBVIOUS
<1> USE DEF TagInv, Serving, At, To, sockVars, relayVars
<1>1. CASE StartRelay \/ Ctor \/ DconnAtStart \/ AcceptFails \/ Listen \/ Accepted \/ OpenFile
  BY <1>1 DEF StartRelay, Ctor, DconnAtStart, AcceptFails, Listen, Accepted, OpenFile,
              DconnForced, MsgDisco, CannotAccept
<1>2. CASE \/ LoopTest \/ PollFails \/ PollNothing \/ ReadWaits \/ ReadPacket \/ ReadFails
           \/ HandleSpecial \/ HandleStop \/ HandlePoint
  BY <1>2 DEF LoopTest, PollFails, PollNothing, ReadWaits, ReadPacket, ReadFails,
              HandleSpecial, HandleStop, HandlePoint
<1>3. CASE Reply \/ ReplyFails \/ Executed \/ Nack
  BY <1>3 DEF Reply, ReplyFails, Executed, Nack, AfterNack
<1>4. CASE Disconnect \/ OuterEnds \/ FinishRelay
  BY <1>4 DEF Disconnect, OuterEnds, FinishRelay, Dconn2, DconnForced, MsgDisco
<1>5. CASE Abort \/ ExecStep \/ MovesmStep \/ MovesmAbortStep
  BY <1>5 DEF Abort, ExecStep, MovesmStep, MovesmAbortStep
<1>6. CASE Client
  BY <1>6 DEF Client, Connect, SendPoint, SendStop, SendSpecial, Receive, SeeEof, Drop, Arrive
<1>7. CASE UNCHANGED vars
  BY <1>7 DEF vars
<1>8. CASE AbortHandler
  BY <1>8, CancelledTo DEF AbortHandler
<1> QED
  BY <1>1, <1>2, <1>3, <1>4, <1>5, <1>6, <1>7, <1>8 DEF Next, RelayMain

\* The relay never waits for a client on a tag that still has a connection.
THEOREM AcceptsOnIdleTag == Spec => []AcceptOnIdleTag
<1>1. TagInv => AcceptOnIdleTag
  BY DEF TagInv, Serving, AcceptOnIdleTag, At
<1> QED
  BY <1>1, TagInit, TagStep, PTL DEF Spec
-----------------------------------------------------------------------------
(* The handshake *)

LEMMA HandshakeOK == H!HandshakeAssumption
  BY TrajAssumption DEF H!HandshakeAssumption, Points, NoPoint

LEMMA HStep ==
  ASSUME FlowInv, [Next]_vars
  PROVE  [H!NextAbort]_hvars
<1>1. CASE Reply
  <2>1. cur.kind = "point" => cur.pt \in Points
    BY <1>1 DEF FlowInv, Reply, At, Answering
  <2>2. (\E p \in Points : H!Call(p)) \/ UNCHANGED hvars
    BY <1>1, <2>1 DEF Reply
  <2> QED
    BY <2>2 DEF H!NextAbort, H!Next
<1>2. CASE ~Reply
  <2>1. H!Relay \/ H!Movesm \/ H!AbortMovesm \/ H!RunMovesm \/ UNCHANGED hvars
    BY <1>2 DEF Next, RelayMain, Client, vars,
      StartRelay, Ctor, DconnAtStart, AcceptFails, Listen, Accepted, OpenFile,
      LoopTest, PollFails, PollNothing, ReadWaits, ReadPacket, ReadFails, HandleSpecial, HandleStop, HandlePoint,
      ReplyFails, Executed, Nack, Disconnect, OuterEnds, FinishRelay,
      Abort, AbortHandler, ExecStep, MovesmStep, MovesmAbortStep,
      Connect, SendPoint, SendStop, SendSpecial, Receive, SeeEof, Drop, Arrive, H!Movesm
  <2> QED
    BY <2>1 DEF H!NextAbort, H!Next
<1> QED
  BY <1>1, <1>2

LEMMA HInit == Init => H!InitStale
  BY DEF Init, H!InitStale

LEMMA HInvInit == Init => HP!HInv
  BY HInit, HandshakeOK, HP!HInvInit
  DEF H!HandshakeAssumption, HP!HandshakeAssumption, H!InitStale, HP!InitStale,
      H!StartUp, HP!StartUp, H!RegValue, HP!RegValue

LEMMA HInvStep == HP!HInv /\ [H!NextAbort]_hvars => HP!HInv'
  BY HandshakeOK, HP!HInvStep
  DEF H!HandshakeAssumption, HP!HandshakeAssumption, hvars, HP!hvars,
      H!NextAbort, HP!NextAbort, H!Next, HP!Next, H!Call, HP!Call, H!Relay, HP!Relay,
      H!Movesm, HP!Movesm, H!Convert, HP!Convert, H!Sync, HP!Sync, H!SetPos, HP!SetPos,
      H!SetSpd, HP!SetSpd, H!SetCnt, HP!SetCnt, H!SetDrdy, HP!SetDrdy,
      H!WaitAck, HP!WaitAck, H!Return, HP!Return, H!Goto, HP!Goto, H!Line, HP!Line,
      H!Init3, HP!Init3, H!Init4, HP!Init4, H!Ready9, HP!Ready9, H!Wait12, HP!Wait12,
      H!Copy15, HP!Copy15, H!Unready18, HP!Unready18, H!Ack19, HP!Ack19,
      H!Start22, HP!Start22, H!Finish22, HP!Finish22,
      H!AbortMovesm, HP!AbortMovesm, H!RunMovesm, HP!RunMovesm
-----------------------------------------------------------------------------
(* The connection *)

\* A connection the relay serves has one request or one reply on its way.
LEMMA OneOnItsWay ==
  ASSUME FlowInv, InService
  PROVE  /\ Unread \in Nat /\ Unread = (IF HasRequest THEN 1 ELSE 0)
         /\ Unread + Len(r2c) <= Waits
         /\ Answering => Waits = 1 /\ Len(c2r) = 0 /\ Len(r2c) = 0
<1>1. /\ Len(c2r) \in Nat /\ Len(r2c) \in Nat
      /\ c2r = <<>> <=> Len(c2r) = 0
      /\ r2c = <<>> <=> Len(r2c) = 0
  BY EmptyFacts DEF FlowInv, FlowTypes
<1>2. /\ Len(c2r) <= 1 \/ (Len(c2r) = 2 /\ ~IsRequest(c2r[1]))
      /\ Len(c2r) = 2 => IsRequest(c2r[2])
  BY <1>1 DEF FlowInv, OneRequest, SpecialsFirst
<1>3. Unread \in Nat /\ Unread = (IF HasRequest THEN 1 ELSE 0)
  <2>1. CASE Len(c2r) = 0
    BY <2>1, <1>1 DEF Unread, HasRequest
  <2>2. CASE Len(c2r) = 1
    BY <2>2, <1>1 DEF Unread, HasRequest
  <2>3. CASE Len(c2r) = 2
    BY <2>3, <1>1, <1>2 DEF Unread, HasRequest
  <2>4. Len(c2r) = 0 \/ Len(c2r) = 1 \/ Len(c2r) = 2
    <3>1. \A n \in Nat : n <= 1 \/ n = 2 => n = 0 \/ n = 1 \/ n = 2
      OBVIOUS
    <3> QED
      BY <1>1, <1>2, <3>1
  <2> QED
    BY <2>1, <2>2, <2>3, <2>4
<1>4. Unread + Len(r2c) <= Waits
  BY <1>1, <1>3 DEF FlowInv, OneRequest, PositiveFirst, Gone, Waits, HasRequest
<1>5. Answering => Waits = 1 /\ Len(c2r) = 0 /\ Len(r2c) = 0
  BY <1>1 DEF FlowInv, OneRequest, Waits
<1> QED
  BY <1>3, <1>4, <1>5

LEMMA OnTheWay ==
  ASSUME FlowInv
  PROVE  /\ Unread \in Nat /\ Len(c2r) \in Nat /\ Len(r2c) \in Nat
         /\ Unread + Len(r2c) <= Waits + 1
         /\ c2r = <<>> => Unread = 0
         /\ Unread <= Len(c2r) /\ Len(c2r) <= Unread + 1
<1>1. /\ Len(c2r) \in Nat /\ Len(r2c) \in Nat
      /\ c2r = <<>> <=> Len(c2r) = 0
  BY EmptyFacts DEF FlowInv, FlowTypes
<1>2. Unread \in Nat /\ (c2r = <<>> => Unread = 0) /\ Unread <= Len(c2r) /\ Len(c2r) <= Unread + 1
  BY <1>1 DEF Unread
<1>3. Unread + Len(r2c) <= Waits + 1
  <2>1. CASE InService
    <3>1. Unread + Len(r2c) <= Waits
      BY <2>1, OneOnItsWay
    <3>2. \A a, b \in Nat, w \in {0, 1} : a + b <= w => a + b <= w + 1
      OBVIOUS
    <3>3. Waits \in {0, 1}
      BY DEF Waits
    <3> QED
      BY <3>1, <3>2, <3>3, <1>1, <1>2
  <2>2. CASE ~InService
    BY <2>2 DEF FlowInv, AfterService
  <2> QED
    BY <2>1, <2>2
<1> QED
  BY <1>1, <1>2, <1>3

\* What does not touch the connection and answers nothing, or gives up.
LEMMA Quiet ==
  ASSUME FlowInv,
         UNCHANGED <<cur, tag, c2r, r2c, cup, next, await, drops>>,
         Answering' => Answering,
         main' = "reply" => main = "reply" \/ (main = "handle" /\ cur.kind # "special"),
         InService' => InService /\ (Answering => Answering')
  PROVE  FlowInv'
<1>1. FlowTypes' /\ SpecialsFirst' /\ PositiveFirst' /\ Gone'
  BY DEF FlowInv, FlowTypes, SpecialsFirst, PositiveFirst, Gone, IsRequest
<1>2. OneRequest'
  BY DEF FlowInv, OneRequest, IsNext, IsRequest, HasRequest
<1>3. AfterService'
  <2>1. Unread' = Unread /\ Waits' = Waits
    BY DEF Unread, Waits, IsRequest
  <2> QED
    BY <2>1, OnTheWay DEF AfterService
<1>4. /\ main' = "reply" => cur'.kind # "special"
      /\ Answering' /\ cur'.kind = "point" => cur'.pt \in Points
      /\ \A i \in 1..Len(c2r') : c2r'[i].kind = "point" => c2r'[i].pt \in Points
  BY DEF FlowInv
<1> QED
  BY <1>1, <1>2, <1>3, <1>4 DEF FlowInv

\* MSG_DISCO: what was not read is gone, and replies may be.
LEMMA MsgDiscoFlow ==
  ASSUME FlowInv, MsgDisco,
         UNCHANGED <<cur, cup, next, await, drops>>,
         main' \notin {"handle", "reply"}
  PROVE  FlowInv'
<1>1. tag' # "up" /\ c2r' = <<>> /\ (r2c' = r2c \/ r2c' = <<>>)
  BY DEF MsgDisco
<1>2. FlowTypes' /\ SpecialsFirst' /\ PositiveFirst' /\ Gone'
  <2>1. <<>> \in Seq(Packets) /\ <<>> \in Seq(Replies) /\ Len(<<>>) = 0
    BY EmptyFacts
  <2>2. FlowTypes' /\ Gone'
    BY <1>1, <2>1 DEF FlowInv, FlowTypes, Gone
  <2>4. SpecialsFirst'
    BY <1>1, <2>1 DEF SpecialsFirst
  <2>3. PositiveFirst'
    BY <1>1, <2>1 DEF FlowInv, PositiveFirst
  <2> QED
    BY <2>2, <2>3, <2>4
<1>3. AfterService'
  <2>1. Unread' = 0 /\ Waits' = Waits /\ Len(<<>>) = 0
    BY <1>1, EmptyFacts DEF Unread, Waits
  <2>2. Unread \in Nat /\ Len(r2c) \in Nat /\ Unread + Len(r2c) <= Waits + 1 /\ Waits \in {0, 1}
    BY OnTheWay DEF Waits
  <2>3. \A a, b \in Nat, w \in {0, 1} : a + b <= w + 1 => 0 + b <= w + 1 /\ 0 + 0 <= w + 1
    OBVIOUS
  <2>4. Unread' + Len(r2c') <= Waits' + 1
    BY <1>1, <2>1, <2>2, <2>3
  <2> QED
    BY <2>4 DEF AfterService
<1>4. ~InService' /\ ~Answering'
  BY <1>1 DEF InService, Answering
<1> QED
  BY <1>1, <1>2, <1>3, <1>4, EmptyFacts DEF FlowInv, OneRequest

\* The client sends a request.
LEMMA RequestFlow ==
  ASSUME FlowInv, NEW m \in Packets, IsRequest(m), IsNext(m),
         m.kind = "point" => m.pt \in Points,
         cup, await = "none", await' = m.kind, await' # "none",
         Send(m),
         UNCHANGED <<main, cur, tag, r2c, cup, next, drops>>
  PROVE  FlowInv'
<1>1. c2r' = (IF tag = "up" THEN Append(c2r, m) ELSE c2r)
  BY DEF Send
<1>2. /\ Len(c2r) \in Nat /\ Len(r2c) \in Nat
      /\ c2r = <<>> <=> Len(c2r) = 0
      /\ r2c = <<>> <=> Len(r2c) = 0
      /\ c2r \in Seq(Packets) /\ r2c \in Seq(Replies)
  BY EmptyFacts DEF FlowInv, FlowTypes
<1>3. tag = "up" => /\ c2r' \in Seq(Packets) /\ c2r' # <<>>
                    /\ Len(c2r') = Len(c2r) + 1
                    /\ c2r'[Len(c2r) + 1] = m
                    /\ \A i \in 1..Len(c2r) : c2r'[i] = c2r[i]
  BY <1>1, <1>2, AppendFacts
<1>4. FlowTypes'
  BY <1>1, <1>2, <1>3 DEF FlowInv, FlowTypes, IsRequest, Packets, Kinds
<1>5. /\ SpecialsFirst'
      /\ \A i \in 1..Len(c2r') : c2r'[i].kind = "point" => c2r'[i].pt \in Points
  <2>1. CASE tag = "up"
    <3>1. \A n \in Nat : \A i \in 1..(n + 1) : i \in 1..n \/ i = n + 1
      OBVIOUS
    <3>2. \A n \in Nat : \A i \in 2..(n + 1) : i \in 2..n \/ i = n + 1
      OBVIOUS
    <3>3. \A n \in Nat : 2..n \subseteq 1..n
      OBVIOUS
    <3> QED
      BY <2>1, <1>2, <1>3, <3>1, <3>2, <3>3 DEF FlowInv, SpecialsFirst, IsRequest
  <2>2. CASE tag # "up"
    BY <2>2, <1>1 DEF FlowInv, SpecialsFirst, IsRequest
  <2> QED
    BY <2>1, <2>2
<1>6. PositiveFirst' /\ Gone'
  BY <1>1 DEF FlowInv, PositiveFirst, Gone
<1>7. OneRequest'
  <2> SUFFICES ASSUME InService' PROVE OneRequest'
    BY DEF OneRequest
  <2>1. InService /\ tag = "up"
    BY DEF InService
  <2>2. ~HasRequest /\ ~Answering /\ r2c = <<>> /\ ~Answering'
    BY <2>1 DEF FlowInv, OneRequest, Answering
  <2>3. Len(c2r) = 0 \/ (Len(c2r) = 1 /\ ~IsRequest(c2r[1]))
    <3>1. Len(c2r) = 0 \/ Len(c2r) = 1 \/ Len(c2r) = 2
      <4>1. \A n \in Nat : n <= 1 \/ n = 2 => n = 0 \/ n = 1 \/ n = 2
        OBVIOUS
      <4> QED
        BY <4>1, <1>2, <2>1 DEF FlowInv, OneRequest
    <3>2. CASE Len(c2r) = 1
      BY <3>2, <2>2, <1>2 DEF HasRequest
    <3>3. Len(c2r) # 2
      BY <2>2, <1>2 DEF FlowInv, SpecialsFirst, HasRequest
    <3> QED
      BY <3>1, <3>2, <3>3
  <2>4. HasRequest' /\ c2r'[Len(c2r')] = m
    BY <1>3, <2>1 DEF HasRequest, IsRequest
  <2>5. \A i \in 1..Len(c2r') : c2r'[i].kind = "point" => c2r'[i].pt = next
    <3>1. \A i \in 1..Len(c2r) : c2r[i].kind = "point" => c2r[i].pt = next
      BY <2>1 DEF FlowInv, OneRequest, IsNext
    <3>2. \A n \in Nat : \A i \in 1..(n + 1) : i \in 1..n \/ i = n + 1
      OBVIOUS
    <3> QED
      BY <3>1, <3>2, <1>2, <1>3, <2>1 DEF IsNext
  <2>6. Len(c2r') <= 1 \/ (Len(c2r') = 2 /\ ~IsRequest(c2r'[1]))
    <3>1. CASE Len(c2r) = 0
      <4>1. Len(c2r') = 0 + 1
        BY <3>1, <1>3, <2>1
      <4>2. \A n \in Nat : n = 0 + 1 => n <= 1
        OBVIOUS
      <4> QED
        BY <4>1, <4>2
    <3>2. CASE Len(c2r) = 1 /\ ~IsRequest(c2r[1])
      <4>1. 1 \in 1..1
        OBVIOUS
      <4> QED
        BY <3>2, <4>1, <1>3, <2>1
    <3> QED
      BY <2>3, <3>1, <3>2
  <2>7. Len(r2c') = 0 /\ Len(r2c') <= 1 /\ \A i \in 1..Len(r2c') : FALSE
    BY <1>2, <2>2
  <2> QED
    BY <2>1, <2>2, <2>4, <2>5, <2>6, <2>7 DEF OneRequest, IsRequest, IsNext
<1>8. AfterService'
  <2> SUFFICES ASSUME ~InService' PROVE Unread' + Len(r2c') <= Waits' + 1
    BY DEF AfterService
  <2>1. Unread \in Nat /\ Unread + Len(r2c) <= Waits + 1 /\ Waits = 0 /\ Waits' = 1
    BY OnTheWay DEF Waits
  <2>2. Unread' = Unread \/ Unread' = Unread + 1
    <3>1. CASE tag # "up"
      BY <3>1, <1>1 DEF Unread, IsRequest
    <3>2. CASE tag = "up" /\ Len(c2r) = 0
      <4>1. Len(c2r') = 1 /\ c2r'[1] = m /\ c2r' # <<>>
        BY <3>2, <1>3
      <4> QED
        BY <4>1, <3>2, <1>2 DEF Unread, IsRequest
    <3>3. CASE tag = "up" /\ Len(c2r) # 0
      <4>1. c2r'[1] = c2r[1]
        <5>1. \A n \in Nat : n # 0 => 1 \in 1..n
          OBVIOUS
        <5> QED
          BY <5>1, <3>3, <1>2, <1>3
      <4> QED
        BY <4>1, <3>3, <1>2, <1>3 DEF Unread, IsRequest
    <3> QED
      BY <3>1, <3>2, <3>3
  <2>3. \A a, b \in Nat : a + b <= 0 + 1 => a + b <= 1 + 1 /\ (a + 1) + b <= 1 + 1
    OBVIOUS
  <2> QED
    BY <1>2, <2>1, <2>2, <2>3
<1>9. main' = "reply" => cur'.kind # "special"
  BY DEF FlowInv
<1>10. Answering' /\ cur'.kind = "point" => cur'.pt \in Points
  BY DEF FlowInv, Answering
<1> QED
  BY <1>4, <1>5, <1>6, <1>7, <1>8, <1>9, <1>10 DEF FlowInv

LEMMA SpecialFlow == FlowInv /\ SendSpecial => FlowInv'
<1> SUFFICES ASSUME FlowInv, SendSpecial PROVE FlowInv'
  OBVIOUS
<1> DEFINE m == [kind |-> "special", pt |-> NoPoint]
<1> USE DEF sockVars, relayVars
<1>1. CASE tag # "up"
  <2>1. UNCHANGED <<main, cur, tag, c2r, r2c, cup, next, await, drops>>
    BY <1>1 DEF SendSpecial, Send
  <2>2. Answering' = Answering /\ InService' = InService
    BY <2>1 DEF Answering, InService
  <2> QED
    BY <2>1, <2>2, Quiet DEF FlowInv
<1>2. CASE tag = "up"
  <2>1. UNCHANGED <<main, cur, tag, r2c, cup, next, await, drops>> /\ cup /\ await = "none"
    BY DEF SendSpecial
  <2>2. Len(r2c) \in Nat /\ c2r = <<>> /\ m \in Packets /\ <<>> \in Seq(Packets) /\ Len(<<>>) = 0
    BY EmptyFacts DEF SendSpecial, FlowInv, FlowTypes, Packets, Kinds
  <2>3. /\ c2r' = Append(<<>>, m) /\ c2r' # <<>> /\ c2r' \in Seq(Packets)
        /\ Len(c2r') = 0 + 1 /\ c2r'[0 + 1] = m
    <3> HIDE DEF m
    <3>1. c2r' = Append(<<>>, m)
      BY <1>2, <2>2 DEF SendSpecial, Send, m
    <3> QED
      BY <3>1, <2>2, AppendFacts
  <2>4. Len(c2r') = 1 /\ c2r'[1] = m /\ ~IsRequest(c2r'[1])
    BY <2>3 DEF IsRequest
  <2>5. Unread' = 0 /\ ~HasRequest' /\ Waits' = Waits
    BY <2>1, <2>3, <2>4 DEF Unread, HasRequest, Waits, IsRequest
  <2>6. FlowTypes' /\ SpecialsFirst' /\ PositiveFirst' /\ Gone'
    <3>1. FlowTypes' /\ PositiveFirst' /\ Gone'
      BY <1>2, <2>1, <2>3 DEF FlowInv, FlowTypes, PositiveFirst, Gone
    <3>2. SpecialsFirst'
      BY <2>4 DEF SpecialsFirst
    <3> QED
      BY <3>1, <3>2
  <2>7. OneRequest'
    BY <2>1, <2>3, <2>4, <2>5 DEF FlowInv, OneRequest, IsNext, Answering, InService
  <2>8. AfterService'
    <3>1. Len(r2c) <= Waits + 1
      <4>1. \A a, b \in Nat, w \in {0, 1} : a + b <= w + 1 => b <= w + 1
        OBVIOUS
      <4>2. Unread \in Nat /\ Unread + Len(r2c) <= Waits + 1 /\ Waits \in {0, 1}
        BY OnTheWay DEF Waits
      <4> QED
        BY <4>1, <4>2, <2>2
    <3>2. \A n \in Nat : 0 + n = n
      OBVIOUS
    <3> QED
      BY <3>1, <3>2, <2>1, <2>2, <2>5 DEF AfterService
  <2>9. \A i \in 1..Len(c2r') : c2r'[i].kind = "point" => c2r'[i].pt \in Points
    BY <2>4
  <2> QED
    BY <2>1, <2>6, <2>7, <2>8, <2>9 DEF FlowInv, Answering
<1> QED
  BY <1>1, <1>2

LEMMA ReceiveFlow == FlowInv /\ Receive => FlowInv'
<1> SUFFICES ASSUME FlowInv, Receive PROVE FlowInv'
  OBVIOUS
<1>1. /\ UNCHANGED <<main, cur, tag, c2r, cup, drops>>
      /\ cup /\ await # "none" /\ await' = "none"
      /\ r2c # <<>> /\ r2c' = Tail(r2c)
      /\ next' = next \/ next' = next + 1
  BY DEF Receive, sockVars, relayVars
<1>2. /\ r2c' \in Seq(Replies) /\ Len(r2c') = Len(r2c) - 1
      /\ \A i \in 1..(Len(r2c) - 1) : r2c'[i] = r2c[i + 1]
  BY <1>1, TailFacts DEF FlowInv, FlowTypes
<1>3. /\ Len(c2r) \in Nat /\ Len(r2c) \in Nat /\ Len(r2c) # 0 /\ Len(r2c') \in Nat
      /\ r2c' = <<>> <=> Len(r2c') = 0
  <2>1. \A s \in Seq(Replies) : Len(s) \in Nat /\ (s = <<>> <=> Len(s) = 0)
    BY EmptyFacts
  <2>2. Len(c2r) \in Nat
    BY EmptyFacts DEF FlowInv, FlowTypes
  <2> QED
    BY <2>1, <2>2, <1>1, <1>2 DEF FlowInv, FlowTypes
<1>4. FlowTypes' /\ SpecialsFirst' /\ Gone'
  BY <1>1, <1>2 DEF FlowInv, FlowTypes, SpecialsFirst, Gone, IsRequest
<1>5. PositiveFirst'
  <2>1. \A i \in 1..Len(r2c') : r2c'[i].type = "fail"
    <3>1. \A n \in Nat : n # 0 => \A i \in 1..(n - 1) : i + 1 \in 2..n
      OBVIOUS
    <3> QED
      BY <3>1, <1>2, <1>3 DEF FlowInv, PositiveFirst
  <2>2. \A n \in Nat : 2..n \subseteq 1..n /\ (n # 0 => 1 \in 1..n)
    OBVIOUS
  <2> QED
    BY <2>1, <2>2, <1>3 DEF PositiveFirst
<1>6. OneRequest'
  <2> SUFFICES ASSUME InService' PROVE OneRequest'
    BY DEF OneRequest
  <2>1. InService /\ tag = "up"
    BY <1>1 DEF InService
  <2>2. r2c[1].type = "succ" /\ Len(r2c) = 1
    <3>1. \A n \in Nat : n # 0 /\ n <= 1 => n = 1 /\ 1 \in 1..n
      OBVIOUS
    <3> QED
      BY <3>1, <1>3, <2>1 DEF FlowInv, OneRequest
  <2>3. c2r = <<>> /\ Len(c2r) = 0 /\ r2c' = <<>> /\ Len(r2c') = 0
    <3>1. c2r = <<>>
      BY <2>2, <1>1 DEF FlowInv, PositiveFirst
    <3>2. 1 - 1 = 0
      OBVIOUS
    <3> QED
      BY <3>1, <3>2, <2>2, <1>2, <1>3, EmptyFacts DEF FlowInv, FlowTypes
  <2>4. ~Answering
    BY <2>1, <1>1 DEF FlowInv, OneRequest
  <2>5. ~Answering' /\ ~HasRequest'
    BY <2>3, <2>4, <1>1 DEF Answering, HasRequest
  <2>6. /\ c2r' = <<>> /\ Len(c2r') <= 1 /\ Len(r2c') <= 1
        /\ \A i \in 1..Len(c2r') : FALSE
        /\ \A i \in 1..Len(r2c') : FALSE
    BY <2>3, <1>1
  <2> QED
    BY <1>1, <2>3, <2>5, <2>6 DEF OneRequest
<1>7. AfterService'
  <2> SUFFICES ASSUME ~InService' PROVE Unread' + Len(r2c') <= Waits' + 1
    BY DEF AfterService
  <2>1. Unread \in Nat /\ Unread + Len(r2c) <= 1 + 1 /\ Unread' = Unread /\ Waits' = 0
    BY <1>1, OnTheWay DEF Waits, Unread, IsRequest
  <2>2. \A a, b \in Nat : b # 0 /\ a + b <= 1 + 1 => a + (b - 1) <= 0 + 1
    OBVIOUS
  <2> QED
    BY <2>1, <2>2, <1>2, <1>3
<1> QED
  BY <1>1, <1>4, <1>5, <1>6, <1>7 DEF FlowInv, Answering

\* The client closes its end, or sees it closed; what it sent may be lost.
LEMMA CloseFlow ==
  ASSUME FlowInv, cup, CloseClient,
         c2r' = c2r \/ c2r' = <<>>,
         tag = "up" => drops' > 0,
         drops' \in Nat,
         UNCHANGED <<main, cur, tag, next>>
  PROVE  FlowInv'
<1>1. ~cup' /\ await' = "none" /\ r2c' = <<>> /\ Len(r2c') = 0 /\ <<>> \in Seq(Packets) /\ <<>> \in Seq(Replies)
  BY EmptyFacts DEF CloseClient
<1>2. Len(c2r) \in Nat /\ Len(c2r') \in Nat /\ (c2r' = <<>> => Len(c2r') = 0)
  BY <1>1, EmptyFacts DEF FlowInv, FlowTypes
<1>3. FlowTypes' /\ Gone'
  BY <1>1 DEF FlowInv, FlowTypes, Gone, CloseClient
<1>4. SpecialsFirst' /\ \A i \in 1..Len(c2r') : c2r'[i].kind = "point" => c2r'[i].pt \in Points
  BY <1>2 DEF FlowInv, SpecialsFirst, IsRequest
<1>5. PositiveFirst'
  BY <1>1 DEF PositiveFirst
<1>6. OneRequest'
  BY <1>1, <1>2 DEF FlowInv, OneRequest, IsNext, IsRequest, Answering, InService
<1>7. AfterService'
  <2>1. Waits' = 1 /\ (Unread' = Unread \/ Unread' = 0)
    BY <1>1, <1>2 DEF Waits, Unread, IsRequest
  <2>2. Unread \in Nat /\ Len(r2c) \in Nat /\ Unread + Len(r2c) <= Waits + 1 /\ Waits \in {0, 1}
    BY OnTheWay DEF Waits
  <2>3. \A a, b \in Nat, w \in {0, 1} : a + b <= w + 1 => a + 0 <= 1 + 1 /\ 0 + 0 <= 1 + 1
    OBVIOUS
  <2> QED
    BY <1>1, <2>1, <2>2, <2>3 DEF AfterService
<1>8. /\ main' = "reply" => cur'.kind # "special"
      /\ Answering' /\ cur'.kind = "point" => cur'.pt \in Points
  BY DEF FlowInv, Answering
<1> QED
  BY <1>3, <1>4, <1>5, <1>6, <1>7, <1>8 DEF FlowInv

LEMMA ConnectFlow == FlowInv /\ TagInv /\ Connect => FlowInv'
<1> SUFFICES ASSUME FlowInv, TagInv, Connect PROVE FlowInv'
  OBVIOUS
<1>1. /\ main = "connecting" /\ main' = main /\ UNCHANGED <<cur, next, await, drops>>
      /\ await = "none" /\ cup' = TRUE /\ tag' = "up" /\ c2r' = <<>> /\ r2c' = <<>>
  BY DEF Connect, TagInv, relayVars, FlowInv, Gone
<1>2. <<>> \in Seq(Packets) /\ <<>> \in Seq(Replies) /\ Len(<<>>) = 0
  BY EmptyFacts
<1>3. ~Answering' /\ ~HasRequest' /\ InService'
  BY <1>1 DEF Answering, HasRequest, InService
<1>4. FlowTypes' /\ Gone' /\ AfterService'
  BY <1>1, <1>2, <1>3 DEF FlowInv, FlowTypes, Gone, AfterService
<1>5. SpecialsFirst' /\ PositiveFirst' /\ OneRequest'
  BY <1>1, <1>2, <1>3 DEF SpecialsFirst, PositiveFirst, OneRequest
<1> QED
  BY <1>1, <1>2, <1>3, <1>4, <1>5 DEF FlowInv

LEMMA ListenFlow == FlowInv /\ TagInv /\ Listen => FlowInv'
<1> SUFFICES ASSUME FlowInv, TagInv, Listen PROVE FlowInv'
  OBVIOUS
<1>1. /\ tag # "up" /\ tag' = "listening" /\ main' = "connecting" /\ main = "outer"
      /\ UNCHANGED <<cur, c2r, r2c, cup, next, await, drops>>
  BY DEF Listen, CannotAccept, At, To, chanVars, clientVars
<1>2. ~InService /\ ~InService' /\ ~Answering'
  BY <1>1 DEF InService, Answering
<1>3. FlowTypes' /\ SpecialsFirst' /\ PositiveFirst' /\ Gone' /\ OneRequest'
  BY <1>1, <1>2 DEF FlowInv, FlowTypes, SpecialsFirst, PositiveFirst, Gone, OneRequest, IsRequest
<1>4. AfterService'
  <2>1. Unread' = Unread /\ Waits' = Waits
    BY <1>1 DEF Unread, Waits, IsRequest
  <2> QED
    BY <2>1, <1>1, OnTheWay DEF AfterService
<1> QED
  BY <1>1, <1>2, <1>3, <1>4 DEF FlowInv

LEMMA ReadFlow == FlowInv /\ TagInv /\ ReadPacket => FlowInv'
<1> SUFFICES ASSUME FlowInv, TagInv, ReadPacket PROVE FlowInv'
  OBVIOUS
<1>1. /\ main \in {"poll", "reading"} /\ main' = "handle" /\ tag = "up" /\ c2r # <<>>
      /\ cur' = Head(c2r) /\ c2r' = Tail(c2r)
      /\ UNCHANGED <<tag, r2c, cup, next, await, drops>>
  BY DEF ReadPacket, At, To, TagInv, Serving, sockVars, clientVars
<1>2. InService /\ InService' /\ ~Answering
  BY <1>1 DEF InService, Answering
<1>3. /\ cur' = c2r[1] /\ c2r' \in Seq(Packets) /\ Len(c2r') = Len(c2r) - 1
      /\ \A i \in 1..(Len(c2r) - 1) : c2r'[i] = c2r[i + 1]
  BY <1>1, TailFacts DEF FlowInv, FlowTypes
<1>4. /\ Len(c2r) \in Nat /\ Len(c2r) # 0 /\ Len(r2c) \in Nat
      /\ (r2c = <<>> <=> Len(r2c) = 0) /\ (c2r' = <<>> <=> Len(c2r') = 0)
  <2>1. \A s \in Seq(Packets) : Len(s) \in Nat /\ (s = <<>> <=> Len(s) = 0)
    BY EmptyFacts
  <2>2. \A s \in Seq(Replies) : Len(s) \in Nat /\ (s = <<>> <=> Len(s) = 0)
    BY EmptyFacts
  <2> QED
    BY <2>1, <2>2, <1>1, <1>3 DEF FlowInv, FlowTypes
<1>5. \/ Len(c2r) = 1
      \/ Len(c2r) = 2 /\ ~IsRequest(c2r[1])
  <2>1. \A n \in Nat : n <= 1 => n = 0 \/ n = 1
    OBVIOUS
  <2>2. Len(c2r) <= 1 \/ (Len(c2r) = 2 /\ ~IsRequest(c2r[1]))
    BY <1>2 DEF FlowInv, OneRequest
  <2> QED
    BY <2>1, <2>2, <1>4
<1>6. cur' \in Packets /\ (cur'.kind = "point" => cur'.pt \in Points /\ cur'.pt = next)
  <2>1. \A n \in Nat : n # 0 => 1 \in 1..n
    OBVIOUS
  <2> QED
    BY <2>1, <1>2, <1>3, <1>4, EmptyFacts DEF FlowInv, FlowTypes, OneRequest, IsNext
<1>7. CASE Len(c2r) = 1
  <2>1. c2r' = <<>> /\ Len(c2r') = 0
    <3>1. 1 - 1 = 0
      OBVIOUS
    <3> QED
      BY <3>1, <1>3, <1>4, <1>7
  <2>2. HasRequest <=> IsRequest(cur')
    BY <1>1, <1>3, <1>7 DEF HasRequest
  <2>3. ~HasRequest' /\ (Answering' <=> HasRequest)
    BY <2>1, <2>2, <1>1 DEF HasRequest, Answering, IsRequest
  <2>4. Answering' => r2c = <<>>
    <3>1. r2c # <<>> => r2c[1].type = "succ"
      <4>1. \A n \in Nat : n # 0 => 1 \in 1..n
        OBVIOUS
      <4> QED
        BY <4>1, <1>2, <1>4 DEF FlowInv, OneRequest
    <3> QED
      BY <3>1, <1>1 DEF FlowInv, PositiveFirst
  <2>5. \A i \in 1..Len(c2r') : FALSE
    BY <2>1
  <2>6. OneRequest'
    <3>1. Len(c2r') <= 1
      BY <2>1
    <3>2. HasRequest /\ cup => await = cur'.kind
      BY <1>2, <1>3, <1>7 DEF FlowInv, OneRequest
    <3>3. cup => (await # "none" <=> HasRequest \/ r2c # <<>>)
      BY <1>2 DEF FlowInv, OneRequest
    <3>4. Len(r2c) <= 1 /\ \A i \in 1..Len(r2c) : r2c[i].type = "succ"
      BY <1>2 DEF FlowInv, OneRequest
    <3> QED
      BY <3>1, <3>2, <3>3, <3>4, <1>1, <1>6, <2>1, <2>3, <2>4, <2>5 DEF OneRequest, IsNext
  <2>7. FlowTypes' /\ SpecialsFirst' /\ PositiveFirst' /\ Gone'
    BY <1>1, <1>3, <1>6, <2>1, <2>5 DEF FlowInv, FlowTypes, SpecialsFirst, PositiveFirst, Gone
  <2> QED
    BY <1>1, <1>2, <1>6, <2>5, <2>6, <2>7 DEF FlowInv, AfterService, Answering
<1>8. CASE Len(c2r) = 2 /\ ~IsRequest(c2r[1])
  <2>1. Len(c2r') = 1 /\ c2r' # <<>> /\ c2r'[1] = c2r[2]
    <3>1. 2 - 1 = 1 /\ 1 \in 1..1 /\ 1 + 1 = 2
      OBVIOUS
    <3> QED
      BY <3>1, <1>3, <1>4, <1>8
  <2>2. ~Answering' /\ (HasRequest' <=> HasRequest)
    BY <2>1, <1>1, <1>3, <1>8 DEF HasRequest, Answering, IsRequest
  <2>3. \A i \in 1..Len(c2r') : c2r'[i] = c2r[2]
    BY <2>1
  <2>4. 2 \in 1..2
    OBVIOUS
  <2>5. OneRequest'
    <3>1. Len(c2r') <= 1
      BY <2>1
    <3>2. HasRequest /\ cup => await = c2r'[1].kind
      BY <2>1, <1>2, <1>8 DEF FlowInv, OneRequest
    <3>3. cup => (await # "none" <=> HasRequest \/ r2c # <<>>)
      BY <1>2 DEF FlowInv, OneRequest
    <3>4. Len(r2c) <= 1 /\ \A i \in 1..Len(r2c) : r2c[i].type = "succ"
      BY <1>2 DEF FlowInv, OneRequest
    <3>5. c2r[2].kind = "point" => c2r[2].pt = next
      BY <2>4, <1>2, <1>8 DEF FlowInv, OneRequest, IsNext
    <3> QED
      BY <3>1, <3>2, <3>3, <3>4, <3>5, <1>1, <2>1, <2>2, <2>3 DEF OneRequest, IsNext
  <2>6. FlowTypes' /\ SpecialsFirst' /\ PositiveFirst' /\ Gone'
    <3>1. \A i \in 2..Len(c2r') : FALSE
      BY <2>1
    <3> QED
      BY <1>1, <1>3, <1>6, <3>1 DEF FlowInv, FlowTypes, SpecialsFirst, PositiveFirst, Gone
  <2>7. \A i \in 1..Len(c2r') : c2r'[i].kind = "point" => c2r'[i].pt \in Points
    BY <2>3, <2>4, <1>8 DEF FlowInv
  <2> QED
    BY <1>1, <1>2, <1>6, <2>5, <2>6, <2>7 DEF FlowInv, AfterService, Answering
<1> QED
  BY <1>5, <1>7, <1>8

LEMMA ReplyFlow == FlowInv /\ TagInv /\ Reply => FlowInv'
<1> SUFFICES ASSUME FlowInv, TagInv, Reply PROVE FlowInv'
  OBVIOUS
<1> DEFINE r == [pt |-> cur.pt, type |-> "succ"]
<1>1. /\ main = "reply" /\ main' \in {"exec", "loop"} /\ tag = "up"
      /\ r2c' = (IF cup THEN Append(r2c, r) ELSE r2c)
      /\ UNCHANGED <<cur, tag, c2r, cup, next, await, drops>>
  BY DEF Reply, Write, At, To, TagInv, Serving, sockVars, clientVars
<1>2. InService /\ InService' /\ Answering /\ ~Answering'
  BY <1>1 DEF InService, Answering, FlowInv
<1>3. /\ c2r = <<>> /\ r2c = <<>> /\ Len(<<>>) = 0 /\ <<>> \in Seq(Replies)
      /\ cup => await = cur.kind /\ await # "none"
      /\ cur.kind = "point" => cur.pt = next
      /\ r \in Replies
  <2>1. r \in Replies
    BY DEF FlowInv, FlowTypes, Packets, Replies
  <2> QED
    BY <2>1, <1>2, EmptyFacts DEF FlowInv, OneRequest, IsNext
<1>4. cup => r2c' \in Seq(Replies) /\ Len(r2c') = 1 /\ r2c'[1] = r /\ r2c' # <<>>
  <2> HIDE DEF r
  <2>1. cup => r2c' = Append(<<>>, r)
    BY <1>1, <1>3
  <2>2. cup => r2c' \in Seq(Replies) /\ Len(r2c') = 0 + 1 /\ r2c'[0 + 1] = r /\ r2c' # <<>>
    <3>1. \A e \in Replies : /\ Append(<<>>, e) \in Seq(Replies) /\ Append(<<>>, e) # <<>>
                            /\ Len(Append(<<>>, e)) = Len(<<>>) + 1
                            /\ Append(<<>>, e)[Len(<<>>) + 1] = e
      BY <1>3, AppendFacts
    <3> QED
      BY <2>1, <3>1, <1>3
  <2>3. 0 + 1 = 1
    OBVIOUS
  <2> QED
    BY <2>2, <2>3
<1>5. ~cup => r2c' = <<>>
  BY <1>1, <1>3
<1>6. ~HasRequest' /\ Len(c2r') = 0 /\ \A i \in 1..Len(c2r') : FALSE
  BY <1>1, <1>3 DEF HasRequest
<1>7. OneRequest'
  <2>1. Len(r2c') <= 1 /\ \A i \in 1..Len(r2c') : r2c'[i].type = "succ"
    <3>1. CASE cup
      <4>1. 1 <= 1 /\ \A i \in 1..1 : i = 1
        OBVIOUS
      <4>2. r.type = "succ"
        OBVIOUS
      <4> QED
        BY <3>1, <4>1, <4>2, <1>4
    <3>2. CASE ~cup
      BY <3>2, <1>3, <1>5
    <3> QED
      BY <3>1, <3>2
  <2>2. Len(c2r') <= 1
    BY <1>6
  <2> QED
    BY <2>1, <2>2, <1>1, <1>2, <1>3, <1>4, <1>6 DEF OneRequest
<1>8. PositiveFirst'
  <2>1. \A i \in 2..Len(r2c') : FALSE
    <3>1. CASE cup
      <4>1. \A i \in 2..1 : FALSE
        OBVIOUS
      <4> QED
        BY <3>1, <4>1, <1>4
    <3>2. CASE ~cup
      BY <3>2, <1>3, <1>5
    <3> QED
      BY <3>1, <3>2
  <2> QED
    BY <2>1, <1>1, <1>3, <1>4, <1>5 DEF PositiveFirst
<1>9. FlowTypes' /\ SpecialsFirst' /\ Gone'
  BY <1>1, <1>3, <1>4, <1>5, <1>6 DEF FlowInv, FlowTypes, SpecialsFirst, Gone
<1> QED
  BY <1>1, <1>2, <1>6, <1>7, <1>8, <1>9 DEF FlowInv, AfterService

LEMMA NackFlow == FlowInv /\ TagInv /\ Nack => FlowInv'
<1> SUFFICES ASSUME FlowInv, TagInv, Nack PROVE FlowInv'
  OBVIOUS
<1> DEFINE r == [pt |-> cur.pt, type |-> "fail"]
<1>1. /\ main = "nack" /\ main' = "discon" /\ tag = "up"
      /\ (r2c' = Append(r2c, r) /\ cup) \/ r2c' = r2c
      /\ UNCHANGED <<cur, tag, c2r, cup, next, await, drops>>
  BY DEF Nack, Write, AfterNack, At, To, TagInv, Serving, sockVars, clientVars
<1>2. InService /\ ~InService' /\ ~Answering'
  BY <1>1 DEF InService, Answering
<1>3. CASE r2c' = r2c
  BY <1>1, <1>2, <1>3, Quiet
<1>4. CASE r2c' = Append(r2c, r) /\ cup
  <2>1. r \in Replies /\ r.type = "fail" /\ r2c \in Seq(Replies) /\ Len(r2c) \in Nat
        /\ (r2c = <<>> <=> Len(r2c) = 0)
    BY EmptyFacts DEF FlowInv, FlowTypes, Packets, Replies
  <2> HIDE DEF r
  <2>2. /\ r2c' \in Seq(Replies) /\ r2c' # <<>> /\ Len(r2c') = Len(r2c) + 1
        /\ r2c'[Len(r2c) + 1] = r
        /\ \A i \in 1..Len(r2c) : r2c'[i] = r2c[i]
    BY <1>4, <2>1, AppendFacts
  <2>3. PositiveFirst'
    <3>1. \A n \in Nat : \A i \in 2..(n + 1) : i \in 2..n \/ i = n + 1
      OBVIOUS
    <3>2. \A n \in Nat : 2..n \subseteq 1..n /\ (n # 0 => 1 \in 1..n) /\ (n = 0 => n + 1 = 1)
      OBVIOUS
    <3>3. \A i \in 2..Len(r2c') : r2c'[i].type = "fail"
      BY <3>1, <3>2, <2>1, <2>2 DEF FlowInv, PositiveFirst
    <3>4. r2c'[1].type = "succ" => r2c # <<>> /\ r2c'[1] = r2c[1]
      BY <3>2, <2>1, <2>2
    <3> QED
      BY <3>3, <3>4, <1>1 DEF FlowInv, PositiveFirst
  <2>4. AfterService'
    <3>1. Unread' = Unread /\ Waits' = Waits
      BY <1>1 DEF Unread, Waits, IsRequest
    <3>2. Unread \in Nat /\ Unread + Len(r2c) <= Waits /\ Waits \in {0, 1}
      BY <1>2, OneOnItsWay DEF Waits
    <3>3. \A a, b \in Nat, w \in {0, 1} : a + b <= w => a + (b + 1) <= w + 1
      OBVIOUS
    <3> QED
      BY <3>1, <3>2, <3>3, <2>1, <2>2 DEF AfterService
  <2>5. FlowTypes' /\ SpecialsFirst' /\ Gone' /\ OneRequest'
    BY <1>1, <1>2, <1>4, <2>2 DEF FlowInv, FlowTypes, SpecialsFirst, Gone, OneRequest, IsRequest
  <2> QED
    BY <1>1, <1>2, <2>3, <2>4, <2>5 DEF FlowInv
<1> QED
  BY <1>1, <1>3, <1>4

LEMMA FlowInit == Init => FlowInv
<1> SUFFICES ASSUME Init PROVE FlowInv
  OBVIOUS
<1>1. <<>> \in Seq(Packets) /\ <<>> \in Seq(Replies) /\ Len(<<>>) = 0
  BY EmptyFacts
<1>2. c2r = <<>> /\ r2c = <<>> /\ main = "off" /\ tag # "up"
  BY DEF Init
<1>3. FlowTypes
  <2>1. 1 \in Nat \ {0} /\ 0 \in Nat
    OBVIOUS
  <2> QED
    BY <1>1, <2>1 DEF Init, FlowTypes, Packets, Kinds
<1>4. SpecialsFirst /\ PositiveFirst /\ Gone
  BY <1>1, <1>2 DEF Init, SpecialsFirst, PositiveFirst, Gone
<1>5. OneRequest /\ ~Answering
  BY <1>2 DEF OneRequest, InService, Answering
<1>6. AfterService
  BY <1>1, <1>2 DEF Init, AfterService, Unread, Waits
<1> QED
  BY <1>1, <1>2, <1>3, <1>4, <1>5, <1>6 DEF FlowInv

LEMMA FlowStep == FlowInv /\ TagInv /\ [Next]_vars => FlowInv'
<1> SUFFICES ASSUME FlowInv, TagInv, [Next]_vars PROVE FlowInv'
  OBVIOUS
<1> USE DEF At, To, sockVars, relayVars, chanVars, clientVars
<1>1. CASE \/ StartRelay \/ Ctor \/ AcceptFails \/ Accepted \/ OpenFile
           \/ LoopTest \/ PollFails \/ PollNothing \/ ReadWaits \/ ReadFails
           \/ HandleSpecial \/ HandleStop \/ HandlePoint
           \/ ReplyFails \/ Executed \/ OuterEnds
  <2>1. /\ UNCHANGED <<cur, tag, c2r, r2c, cup, next, await, drops>>
        /\ Answering' => Answering
        /\ main' = "reply" => main = "handle" /\ cur.kind # "special"
        /\ InService' => InService /\ (Answering => Answering')
    BY <1>1 DEF StartRelay, Ctor, AcceptFails, Accepted, OpenFile, LoopTest, PollFails,
                PollNothing, ReadWaits, ReadFails,
                HandleSpecial, HandleStop, HandlePoint, ReplyFails, Executed, OuterEnds,
                Answering, InService
  <2> QED
    BY <2>1, Quiet
<1>2. CASE Abort \/ ExecStep \/ MovesmStep \/ MovesmAbortStep \/ Arrive \/ UNCHANGED vars
  <2>1. UNCHANGED <<main, cur, tag, c2r, r2c, cup, next, await, drops>>
    BY <1>2 DEF Abort, ExecStep, MovesmStep, MovesmAbortStep, Arrive, vars
  <2> QED
    BY <2>1, Quiet DEF Answering, InService
<1>7. CASE AbortHandler
  <2>1. /\ UNCHANGED <<cur, tag, c2r, r2c, cup, next, await, drops>>
        /\ main' = main \/ main' = "discon"
    BY <1>7, CancelledTo DEF AbortHandler
  <2> QED
    BY <2>1, Quiet DEF Answering, InService
<1>3. CASE DconnAtStart \/ FinishRelay \/ (Disconnect /\ connected)
  <2>1. /\ MsgDisco
        /\ UNCHANGED <<cur, cup, next, await, drops>>
        /\ main' \notin {"handle", "reply"}
    BY <1>3 DEF DconnAtStart, FinishRelay, Disconnect, DconnForced, Dconn2
  <2> QED
    BY <2>1, MsgDiscoFlow
<1>4. CASE Disconnect /\ ~connected
  <2>1. /\ UNCHANGED <<cur, tag, c2r, r2c, cup, next, await, drops>>
        /\ main = "discon" /\ main' = "outer" /\ tag # "up"
    BY <1>4 DEF Disconnect, Dconn2, TagInv, Serving
  <2> QED
    BY <2>1, Quiet DEF Answering, InService
<1>5. CASE SendPoint \/ SendStop
  <2>1. PICK m \in Packets :
          /\ m.kind \in {"point", "stop"} /\ (m.kind = "point" => m.pt \in Points /\ m.pt = next)
          /\ await' = m.kind /\ Send(m)
    <3>1. CASE SendPoint
      <4>1. next \in Points
        BY <3>1, TrajAssumption DEF SendPoint, Points, FlowInv, FlowTypes
      <4> QED
        BY <3>1, <4>1 DEF SendPoint, Packets, Kinds
    <3>2. CASE SendStop
      BY <3>2 DEF SendStop, Packets, Kinds
    <3> QED
      BY <1>5, <3>1, <3>2
  <2>2. /\ UNCHANGED <<main, cur, tag, r2c, cup, next, drops>>
        /\ cup /\ await = "none"
    BY <1>5 DEF SendPoint, SendStop
  <2> QED
    BY <2>1, <2>2, RequestFlow DEF IsRequest, IsNext
<1>6. CASE SeeEof \/ Drop
  <2>1. /\ cup /\ CloseClient /\ (c2r' = c2r \/ c2r' = <<>>)
        /\ (tag = "up" => drops' > 0) /\ drops' \in Nat
        /\ UNCHANGED <<main, cur, tag, next>>
    <3>1. CASE SeeEof
      BY <3>1 DEF SeeEof, FlowInv, FlowTypes
    <3>2. CASE Drop
      BY <3>2 DEF Drop, FlowInv, FlowTypes
    <3> QED
      BY <1>6, <3>1, <3>2
  <2> QED
    BY <2>1, CloseFlow
<1> QED
  BY <1>1, <1>2, <1>3, <1>4, <1>5, <1>6, <1>7, SpecialFlow, ReceiveFlow, ConnectFlow, ListenFlow,
     ReadFlow, ReplyFlow, NackFlow
  DEF Next, RelayMain, Client

LEMMA FlowHolds == Spec => [](FlowInv /\ TagInv)
  BY FlowInit, FlowStep, TagInit, TagStep, PTL DEF Spec

\* A positive reply that the client takes for the answer to a point is the
\* acknowledgement of that point.
THEOREM RepliesAreAnswers == Spec => []RepliesMatch
<1>1. FlowInv => RepliesMatch
  <2> SUFFICES ASSUME FlowInv, await = "point", r2c # <<>>, Head(r2c).type = "succ"
               PROVE  Head(r2c).pt = next
    BY DEF RepliesMatch
  <2>1. Head(r2c) = r2c[1]
    BY TailFacts DEF FlowInv, FlowTypes
  <2> QED
    BY <2>1 DEF FlowInv, PositiveFirst
<1> QED
  BY <1>1, FlowHolds, PTL
-----------------------------------------------------------------------------
(* The handshake inside *)

LEMMA HInvHolds == Spec => []HP!HInv
<1>1. FlowInv /\ [Next]_vars => [H!NextAbort]_hvars
  BY HStep
<1> QED
  BY <1>1, HInvInit, HInvStep, FlowHolds, PTL DEF Spec

\* With its guarantees: no register is written while it is read ...
THEOREM NoRaceInside == Spec => []H!NoRegisterRace
<1>1. HP!HInv => H!NoRegisterRace
  BY DEF HP!HInv, HP!DrdyMeansWaiting, HP!BothDown, HP!RelayWriting,
         H!NoRegisterRace, H!RelayWriting, H!MovesmReading
<1> QED
  BY <1>1, HInvHolds, PTL

\* ... and every motion is to a point handed over completely.
THEOREM MotionsConfiguredInside == Spec => []H!MotionConfigured
<1>1. HP!HInv => H!MotionConfigured
  BY DEF HP!HInv, HP!CopiedIsHanded, HP!MotionConfigured, H!MotionConfigured
<1> QED
  BY <1>1, HInvHolds, PTL
-----------------------------------------------------------------------------
(* Types *)

LEMMA ExecInit == Init => ExecInv
  BY DEF Init, H!StartUp, ExecInv

LEMMA ExecStays == ExecInv /\ FlowInv /\ [Next]_vars => ExecInv'
<1> SUFFICES ASSUME ExecInv, FlowInv, [Next]_vars PROVE ExecInv'
  OBVIOUS
<1> USE DEF ExecInv, At, To, hvars, relayVars
<1>1. CASE Reply
  BY <1>1 DEF Reply, H!Call, FlowInv, Answering
<1>2. CASE ExecStep
  BY <1>2 DEF ExecStep, H!Relay, H!Convert, H!Sync, H!SetPos, H!SetSpd, H!SetCnt,
              H!SetDrdy, H!WaitAck, H!Return, H!Goto
<1>3. CASE MovesmStep \/ MovesmAbortStep
  <2>1. UNCHANGED <<main, rpc, pkt>>
    BY <1>3 DEF MovesmStep, MovesmAbortStep, H!AbortMovesm, H!RunMovesm, H!Movesm, H!Line,
                H!Init3, H!Init4, H!Ready9, H!Wait12, H!Copy15, H!Unready18, H!Ack19,
                H!Start22, H!Finish22
  <2> QED
    BY <2>1
<1>4. CASE HandleStop
  BY <1>4 DEF HandleStop, H!Finish22
<1>5. CASE Executed
  BY <1>5 DEF Executed
<1>6. CASE \/ StartRelay \/ Ctor \/ DconnAtStart \/ AcceptFails \/ Listen \/ Accepted
           \/ OpenFile \/ LoopTest \/ PollFails \/ PollNothing \/ ReadWaits
           \/ ReadPacket \/ ReadFails \/ HandleSpecial \/ HandlePoint \/ ReplyFails \/ Nack \/ Disconnect \/ OuterEnds \/ FinishRelay
  BY <1>6 DEF StartRelay, Ctor, DconnAtStart, AcceptFails, Listen, Accepted, OpenFile,
              LoopTest, PollFails, PollNothing, ReadWaits, ReadPacket, ReadFails, HandleSpecial, HandlePoint, ReplyFails,
              Nack, AfterNack, Disconnect, OuterEnds, FinishRelay
<1>7. CASE Abort \/ Client \/ UNCHANGED vars
  BY <1>7 DEF Abort, Client, vars,
              Connect, SendPoint, SendStop, SendSpecial, Receive, SeeEof, Drop, Arrive
<1>8. CASE AbortHandler
  BY <1>8, CancelledTo DEF AbortHandler
<1> QED
  BY <1>1, <1>2, <1>3, <1>4, <1>5, <1>6, <1>7, <1>8 DEF Next, RelayMain

LEMMA BookInit == Init => BookInv
<1>1. 1 \in 1..(NPts + 1) /\ 0 \in 0..MaxDrops /\ 0 \in 0..MaxStops
  BY TrajAssumption
<1> QED
  BY <1>1 DEF Init, BookInv, MainPC

LEMMA BookStep == BookInv /\ ExecInv /\ FlowInv /\ HP!HInv' /\ [Next]_vars => BookInv'
<1> SUFFICES ASSUME BookInv, ExecInv, FlowInv, HP!HInv', [Next]_vars PROVE BookInv'
  OBVIOUS
<1> USE DEF BookInv, MainPC, At, To, relayVars, sockVars, clientVars, histVars
<1>1. CASE StartRelay \/ Ctor \/ DconnAtStart
  BY <1>1 DEF StartRelay, Ctor, DconnAtStart, DconnForced, MsgDisco
<1>13. CASE AcceptFails \/ Listen \/ Accepted \/ OpenFile
  BY <1>13 DEF AcceptFails, Listen, Accepted, OpenFile
<1>14. CASE \/ LoopTest \/ PollFails \/ PollNothing \/ ReadWaits \/ ReadPacket \/ ReadFails
            \/ HandleSpecial
  <2>1. main' \in MainPC
    BY <1>14 DEF LoopTest, PollFails, PollNothing, ReadWaits, ReadPacket, ReadFails, HandleSpecial
  <2>2. UNCHANGED <<shut, ahOn, abortReq, connected, tag, next, await, drops, stops,
                    last, refused, aborted>>
    BY <1>14 DEF LoopTest, PollFails, PollNothing, ReadWaits, ReadPacket, ReadFails, HandleSpecial
  <2> QED
    BY <2>1, <2>2
<1>2. CASE HandleStop \/ HandlePoint \/ Reply \/ ReplyFails \/ Nack
  <2>1. main' \in MainPC
    BY <1>2 DEF HandleStop, HandlePoint, Reply, ReplyFails, Nack, AfterNack
  <2>2. UNCHANGED <<shut, ahOn, abortReq, connected, tag, next, await, drops, stops,
                    last, refused, aborted>>
    BY <1>2 DEF HandleStop, HandlePoint, Reply, ReplyFails, Nack
  <2> QED
    BY <2>1, <2>2
<1>11. CASE Disconnect \/ OuterEnds \/ FinishRelay
  BY <1>11 DEF Disconnect, OuterEnds, FinishRelay, DconnForced, Dconn2, MsgDisco
<1>3. CASE Executed
  BY <1>3 DEF Executed, ExecInv
<1>4. CASE Abort \/ UNCHANGED vars
  BY <1>4 DEF Abort, vars
<1>16. CASE Arrive
  BY <1>16 DEF Arrive
<1>15. CASE AbortHandler
  BY <1>15, CancelledTo DEF AbortHandler
<1>12. CASE ExecStep \/ MovesmAbortStep
  <2>1. UNCHANGED <<main, shut, ahOn, abortReq, connected, tag, next, await, drops, stops,
                    last, refused>>
    BY <1>12 DEF ExecStep, MovesmAbortStep
  <2>2. aborted' \in BOOLEAN
    BY <1>12 DEF ExecStep, MovesmAbortStep
  <2> QED
    BY <2>1, <2>2
<1>5. CASE MovesmStep
  <2>1. motion' \in Points \cup {NoPoint}
    BY DEF HP!HInv, HP!TypeOK
  <2> QED
    BY <1>5, <2>1 DEF MovesmStep
<1>6. CASE Connect \/ SeeEof
  BY <1>6 DEF Connect, SeeEof, CloseClient
<1>7. CASE SendPoint
  <2>1. next \in Points
    BY <1>7, TrajAssumption DEF SendPoint, Points
  <2> QED
    BY <1>7, <2>1 DEF SendPoint
<1>8. CASE SendStop \/ SendSpecial
  <2>1. stops' \in 0..MaxStops
    BY <1>8, TrajAssumption DEF SendStop, SendSpecial
  <2> QED
    BY <1>8, <2>1 DEF SendStop, SendSpecial
<1>9. CASE Receive
  <2>1. next' \in 1..(NPts + 1)
    BY <1>9, TrajAssumption DEF Receive, Points
  <2> QED
    BY <1>9, <2>1 DEF Receive
<1>10. CASE Drop
  <2>1. drops' \in 0..MaxDrops
    BY <1>10, TrajAssumption DEF Drop
  <2> QED
    BY <1>10, <2>1 DEF Drop, CloseClient
<1> QED
  BY <1>1, <1>2, <1>3, <1>4, <1>5, <1>6, <1>7, <1>8, <1>9, <1>10, <1>11, <1>12,
     <1>13, <1>14, <1>15, <1>16
  DEF Next, RelayMain, Client

LEMMA BookHolds == Spec => [](BookInv /\ ExecInv)
  BY BookInit, BookStep, ExecInit, ExecStays, FlowHolds, HInvHolds, PTL DEF Spec

\* Bytes are missing only of a packet that is on its way.
NearInv == near \in BOOLEAN /\ (near => c2r # <<>>)

LEMMA NearStep == NearInv /\ FlowInv /\ [Next]_vars => NearInv'
<1> SUFFICES ASSUME NearInv, FlowInv, [Next]_vars PROVE NearInv'
  OBVIOUS
<1> USE DEF NearInv, chanVars
<1>1. CASE UNCHANGED <<c2r, near>>
  BY <1>1
<1>2. CASE near' = FALSE
  BY <1>2
<1>3. CASE ReadPacket
  BY <1>3 DEF ReadPacket
<1>4. ASSUME NEW m \in Packets, Send(m) PROVE NearInv'
  <2>1. Append(c2r, m) # <<>>
    BY AppendFacts DEF FlowInv, FlowTypes
  <2> QED
    BY <1>4, <2>1 DEF Send
<1>5. SendPoint \/ SendStop \/ SendSpecial => \E m \in Packets : Send(m)
  <2>1. SendPoint => next \in Points
    BY TrajAssumption DEF SendPoint, Points, FlowInv, FlowTypes
  <2> QED
    BY <2>1 DEF SendPoint, SendStop, SendSpecial, Packets, Kinds
<1> QED
  <2>1. \/ UNCHANGED <<c2r, near>> \/ near' = FALSE \/ ReadPacket
        \/ SendPoint \/ SendStop \/ SendSpecial
    BY DEF Next, RelayMain, Client, vars,
      StartRelay, Ctor, DconnAtStart, AcceptFails, Listen, Accepted, OpenFile,
      LoopTest, PollFails, PollNothing, ReadWaits, ReadFails, HandleSpecial, HandleStop,
      HandlePoint, Reply, ReplyFails, Executed, Nack, Disconnect, OuterEnds, FinishRelay,
      DconnForced, Dconn2, MsgDisco, Abort, AbortHandler, ExecStep, MovesmStep,
      MovesmAbortStep, Connect, Receive, SeeEof, Drop, Arrive
  <2> QED
    BY <2>1, <1>1, <1>2, <1>3, <1>4, <1>5

\* Types, and how much can be on its way in either direction.
THEOREM TypeCorrect == Spec => []TypeOK
<1>1. ASSUME FlowInv, BookInv, NearInv, HP!HInv PROVE TypeOK
  <2>1. H!TypeOK
    BY <1>1 DEF HP!HInv, HP!TypeOK, H!TypeOK, HP!RelayPC, H!RelayPC, HP!MovesmPC, H!MovesmPC,
                HP!Results, H!Results, HP!RegValue, H!RegValue
  <2>2. Len(c2r) <= 3 /\ Len(r2c) <= 2
    <3>1. /\ Unread \in Nat /\ Len(c2r) \in Nat /\ Len(r2c) \in Nat
          /\ Unread + Len(r2c) <= Waits + 1 /\ Len(c2r) <= Unread + 1
          /\ Waits \in {0, 1}
      BY <1>1, OnTheWay DEF Waits
    <3>2. \A a, b, c \in Nat, w \in {0, 1} :
            a + b <= w + 1 /\ c <= a + 1 => c <= 3 /\ b <= 2
      OBVIOUS
    <3> QED
      BY <3>1, <3>2
  <2> QED
    BY <1>1, <2>1, <2>2 DEF TypeOK, BookInv, NearInv, FlowInv, FlowTypes
<1>2. Init => NearInv
  BY DEF Init, NearInv
<1> QED
  BY <1>1, <1>2, NearStep, FlowHolds, BookHolds, HInvHolds, PTL DEF Spec
-----------------------------------------------------------------------------
(* The order of the points *)

LEMMA OrderStays ==
  ASSUME FlowInv, TagInv, [Next]_vars
  PROVE  /\ drops' = 0 => drops = 0
         /\ \A a \in Nat : NotBeyond(a) => NotBeyond(a)'
<1> USE DEF sockVars, relayVars, chanVars, clientVars
<1>1. CASE \/ StartRelay \/ Ctor \/ AcceptFails \/ Listen \/ Accepted \/ OpenFile
           \/ LoopTest \/ PollFails \/ PollNothing \/ ReadWaits \/ ReadPacket
           \/ ReadFails \/ HandleSpecial \/ HandleStop \/ HandlePoint \/ ReplyFails \/ Executed \/ OuterEnds
  <2>1. UNCHANGED <<r2c, await, next, drops>>
    BY <1>1 DEF StartRelay, Ctor, AcceptFails, Listen, Accepted, OpenFile, LoopTest, PollFails, PollNothing, ReadWaits, ReadPacket, ReadFails, HandleSpecial, HandleStop, HandlePoint, ReplyFails,
                Executed, OuterEnds
  <2> QED
    BY <2>1 DEF NotBeyond, NextInEffect
<1>2. CASE \/ Abort \/ AbortHandler \/ ExecStep \/ MovesmStep \/ MovesmAbortStep
           \/ Arrive \/ UNCHANGED vars
  <2>1. UNCHANGED <<r2c, await, next, drops>>
    BY <1>2 DEF Abort, AbortHandler, ExecStep, MovesmStep, MovesmAbortStep, Arrive, vars
  <2> QED
    BY <2>1 DEF NotBeyond, NextInEffect
<1>3. CASE DconnAtStart \/ FinishRelay \/ Disconnect
  <2>1. /\ UNCHANGED <<await, next, drops>>
        /\ r2c' = r2c \/ (r2c' = <<>> /\ c2r # <<>>)
    BY <1>3 DEF DconnAtStart, FinishRelay, Disconnect, DconnForced, Dconn2, MsgDisco
  <2>2. NextInEffect' = NextInEffect
    BY <2>1 DEF NextInEffect, FlowInv, PositiveFirst
  <2> QED
    BY <2>1, <2>2 DEF NotBeyond
<1>4. CASE Connect \/ SendPoint \/ SendStop \/ SendSpecial \/ SeeEof
  <2>1. /\ UNCHANGED <<next, drops>>
        /\ NextInEffect = next /\ NextInEffect' = next
    BY <1>4 DEF Connect, SendPoint, SendStop, SendSpecial, SeeEof, CloseClient,
                NextInEffect, FlowInv, PositiveFirst, Gone
  <2> QED
    BY <2>1 DEF NotBeyond
<1>5. CASE Receive
  <2>1. next \in Nat /\ drops' = drops /\ NextInEffect' = next' /\ next' >= next
        /\ next' >= NextInEffect
    BY <1>5 DEF Receive, NextInEffect, FlowInv, FlowTypes
  <2>2. NextInEffect \in Nat /\ next' \in Nat
    BY <1>5 DEF Receive, NextInEffect, FlowInv, FlowTypes
  <2> QED
    BY <2>1, <2>2 DEF NotBeyond
<1>6. CASE Drop
  <2>1. /\ next \in Nat /\ drops \in Nat /\ drops' = drops + 1 /\ next' = next
        /\ NextInEffect = next \/ NextInEffect = next + 1
    BY <1>6 DEF Drop, CloseClient, NextInEffect, FlowInv, FlowTypes
  <2> QED
    BY <2>1 DEF NotBeyond
<1>7. CASE Reply
  <2>1. /\ next \in Nat /\ UNCHANGED <<next, drops, await>> /\ main = "reply"
    BY <1>7 DEF Reply, FlowInv, FlowTypes, At
  <2>2. r2c = <<>>
    BY <2>1 DEF FlowInv, TagInv, Serving, OneRequest, InService, Answering
  <2>3. NextInEffect = next /\ (NextInEffect' = next \/ NextInEffect' = next + 1)
    BY <2>1, <2>2 DEF NextInEffect
  <2> QED
    BY <2>1, <2>3 DEF NotBeyond
<1>8. CASE Nack
  <2> DEFINE r == [pt |-> cur.pt, type |-> "fail"]
  <2>1. /\ UNCHANGED <<next, drops, await>>
        /\ r2c' = r2c \/ r2c' = Append(r2c, r)
    BY <1>8 DEF Nack, Write
  <2>2. /\ r \in Replies /\ r.type = "fail" /\ r2c \in Seq(Replies) /\ Len(r2c) \in Nat
        /\ (r2c = <<>> <=> Len(r2c) = 0)
    BY EmptyFacts DEF FlowInv, FlowTypes, Packets, Replies
  <2> HIDE DEF r
  <2>3. r2c' = Append(r2c, r) =>
          /\ r2c = <<>> => r2c'[1].type = "fail"
          /\ r2c # <<>> => r2c'[1] = r2c[1] /\ r2c' # <<>>
    <3>1. /\ Append(r2c, r)[Len(r2c) + 1] = r /\ Append(r2c, r) # <<>>
          /\ \A i \in 1..Len(r2c) : Append(r2c, r)[i] = r2c[i]
      BY <2>2, AppendFacts
    <3>2. \A n \in Nat : (n # 0 => 1 \in 1..n) /\ (n = 0 => n + 1 = 1)
      OBVIOUS
    <3> QED
      BY <3>1, <3>2, <2>2
  <2>4. NextInEffect' = NextInEffect
    BY <2>1, <2>3 DEF NextInEffect
  <2> QED
    BY <2>1, <2>4 DEF NotBeyond
<1> QED
  BY <1>1, <1>2, <1>3, <1>4, <1>5, <1>6, <1>7, <1>8 DEF Next, RelayMain, Client

LEMMA ChainInit == Init => Chain
<1> SUFFICES ASSUME Init PROVE Chain
  OBVIOUS
<1>1. /\ motion = NoPoint /\ last = 0 /\ next = 1 /\ drops = 0 /\ rpc = "idle"
      /\ mpc = "init3" /\ r2c = <<>>
  BY DEF Init, H!StartUp, NoPoint
<1>2. NextInEffect = 1
  BY <1>1 DEF NextInEffect
<1> QED
  BY <1>1, <1>2 DEF Chain, NotBeyond, H!Held, InHand

\* What moves inside the handshake keeps the order: nothing else changes.
LEMMA ChainInside ==
  ASSUME HP!HInv, Chain, {last, next, NextInEffect} \subseteq Nat, drops \in Nat,
         UNCHANGED <<next, drops, NextInEffect>>,
         \/ H!Relay /\ last' = last
         \/ H!Movesm /\ last' = (IF motion' # NoPoint THEN motion' ELSE last)
         \/ (H!Finish22 \/ H!AbortMovesm \/ H!RunMovesm) /\ last' = last
  PROVE  Chain'
<1>1. {pkt, pr1, pr2, motion} \subseteq Nat
  BY TrajAssumption DEF HP!HInv, HP!TypeOK, Points, NoPoint
<1> USE DEF Chain, H!Held, InHand, NotBeyond, Before
<1>2. CASE H!Relay /\ last' = last
  <2>1. UNCHANGED <<mpc, pr2, motion, pkt>>
    BY <1>2 DEF H!Relay, H!Convert, H!Sync, H!SetPos, H!SetSpd, H!SetCnt,
                H!SetDrdy, H!WaitAck, H!Return, H!Goto
  <2>2. /\ rpc # "idle"
        /\ InHand' => InHand
        /\ rpc' \in {"convert", "sync"} => rpc \in {"convert", "sync"}
    BY <1>2 DEF H!Relay, H!Convert, H!Sync, H!SetPos, H!SetSpd, H!SetCnt,
                H!SetDrdy, H!WaitAck, H!Return, H!Goto, HP!HInv, HP!TypeOK
  <2> QED
    BY <1>2, <2>1, <2>2
<1>3. CASE H!Movesm /\ last' = (IF motion' # NoPoint THEN motion' ELSE last)
  <2> USE DEF H!Line, HP!HInv, HP!DrdyMeansWaiting, HP!BothDown, HP!RelayWriting,
              HP!RegistersWritten, HP!CopiedIsHanded, HP!MotionConfigured, HP!TypeOK
  <2>0. mpc # "moving22" => motion = NoPoint
    OBVIOUS
  <2>1. CASE H!Init3 \/ H!Init4 \/ H!Ready9 \/ H!Wait12
    BY <1>3, <2>0, <2>1 DEF H!Init3, H!Init4, H!Ready9, H!Wait12
  <2>2. CASE H!Copy15
    BY <1>3, <2>0, <2>2 DEF H!Copy15
  <2>3. CASE H!Unready18
    BY <1>3, <2>0, <2>3 DEF H!Unready18
  <2>4. CASE H!Ack19
    BY <1>3, <2>0, <2>4 DEF H!Ack19
  <2>5. CASE H!Start22
    <3>1. /\ mpc = "start22" /\ mpc' = "moving22" /\ motion' = pr2 /\ pr2 # NoPoint
          /\ last' = pr2 /\ UNCHANGED <<rpc, pkt, drdy, pr2>>
      BY <1>3, <2>5, HandshakeOK DEF H!Start22, H!HandshakeAssumption
    <3>2. InHand => rpc \in {"convert", "sync"}
      BY <3>1 DEF HP!RelayPC
    <3> QED
      BY <3>1, <3>2
  <2>6. CASE H!Finish22
    BY <1>3, <2>6 DEF H!Finish22
  <2> QED
    BY <1>3, <2>1, <2>2, <2>3, <2>4, <2>5, <2>6 DEF H!Movesm
<1>4. CASE (H!Finish22 \/ H!AbortMovesm \/ H!RunMovesm) /\ last' = last
  BY <1>4 DEF H!Finish22, H!AbortMovesm, H!RunMovesm, H!Line
<1> QED
  BY <1>2, <1>3, <1>4

LEMMA ChainStep ==
  TagInv /\ FlowInv /\ BookInv /\ ExecInv /\ HP!HInv /\ Chain /\ [Next]_vars => Chain'
<1> SUFFICES ASSUME TagInv, FlowInv, BookInv, ExecInv, HP!HInv, Chain, [Next]_vars PROVE Chain'
  OBVIOUS
<1>1. /\ {last, next, NextInEffect, pkt, pr2} \subseteq Nat /\ drops \in Nat
  BY TrajAssumption DEF BookInv, Points, NoPoint, NextInEffect, HP!HInv, HP!TypeOK
<1>2. /\ drops' = 0 => drops = 0
      /\ \A a \in Nat : NotBeyond(a) => NotBeyond(a)'
  BY OrderStays
<1>3. CASE UNCHANGED <<hvars, last>>
  BY <1>1, <1>2, <1>3 DEF Chain, Before, H!Held, InHand, hvars
<1>4. CASE ExecStep \/ MovesmStep \/ MovesmAbortStep \/ (HandleStop /\ H!Finish22)
  <2>1. UNCHANGED <<next, drops, NextInEffect>>
    BY <1>4 DEF ExecStep, MovesmStep, MovesmAbortStep, HandleStop, NextInEffect,
                clientVars, chanVars
  <2>2. \/ H!Relay /\ last' = last
        \/ H!Movesm /\ last' = (IF motion' # NoPoint THEN motion' ELSE last)
        \/ (H!Finish22 \/ H!AbortMovesm \/ H!RunMovesm) /\ last' = last
    BY <1>4 DEF ExecStep, MovesmStep, MovesmAbortStep, HandleStop, histVars
  <2> QED
    BY <1>1, <2>1, <2>2, ChainInside
<1>5. CASE Reply /\ cur.kind = "point"
  <2>1. /\ rpc = "idle" /\ rpc' = "convert" /\ pkt' = cur.pt
        /\ UNCHANGED <<mpc, drdy, pr2, motion, next, drops, last, await, cup>>
        /\ main = "reply" /\ tag = "up" /\ cur.pt \in Nat
    BY <1>5, TrajAssumption
    DEF Reply, H!Call, At, clientVars, histVars, TagInv, Serving, FlowInv, Answering, Points
  <2>2. r2c = <<>> /\ cur.pt = next /\ (cup => await = "point") /\ (~cup => drops > 0)
    BY <1>5, <2>1 DEF FlowInv, OneRequest, InService, Answering, IsNext, Gone
  <2>3. NextInEffect = next
    BY <2>2 DEF NextInEffect
  <2>4. cup => NextInEffect' = next + 1
    <3> DEFINE r == [pt |-> cur.pt, type |-> "succ"]
    <3>1. r \in Replies /\ <<>> \in Seq(Replies) /\ Len(<<>>) = 0 /\ r.type = "succ"
      BY EmptyFacts DEF FlowInv, FlowTypes, Packets, Replies
    <3>2. cup => r2c' = Append(<<>>, r)
      BY <1>5, <2>2 DEF Reply, Write
    <3> HIDE DEF r
    <3>3. Append(<<>>, r) # <<>> /\ Append(<<>>, r)[0 + 1] = r
      BY <3>1, AppendFacts
    <3>4. 0 + 1 = 1
      OBVIOUS
    <3> QED
      BY <2>1, <2>2, <3>1, <3>2, <3>3, <3>4 DEF NextInEffect
  <2>5. NotBeyond(next)'
    BY <1>1, <2>1, <2>2, <2>4 DEF NotBeyond
  <2>6. NotBeyond(last)' /\ (H!Held => NotBeyond(pr2)')
    BY <1>1, <1>2, <2>1 DEF Chain, NotBeyond
  <2>7. \A a \in Nat : NotBeyond(a) => Before(a, pkt)'
    BY <1>1, <2>1, <2>2, <2>3 DEF NotBeyond, Before
  <2> QED
    BY <1>1, <2>1, <2>2, <2>5, <2>6, <2>7 DEF Chain, H!Held, InHand, NotBeyond, Before
<1> QED
  <2>1. \/ UNCHANGED <<hvars, last>>
        \/ ExecStep \/ MovesmStep \/ MovesmAbortStep \/ (HandleStop /\ H!Finish22)
        \/ (Reply /\ cur.kind = "point")
    BY DEF Next, RelayMain, Client, vars, histVars,
      StartRelay, Ctor, DconnAtStart, AcceptFails, Listen, Accepted, OpenFile,
      LoopTest, PollFails, PollNothing, ReadWaits, ReadPacket, ReadFails, HandleSpecial, HandleStop, HandlePoint,
      Reply, ReplyFails, Executed, Nack, Disconnect, OuterEnds, FinishRelay, Abort, AbortHandler,
      Connect, SendPoint, SendStop, SendSpecial, Receive, SeeEof, Drop, Arrive
  <2> QED
    BY <2>1, <1>3, <1>4, <1>5

LEMMA ChainHolds == Spec => []Chain
  BY ChainInit, ChainStep, FlowHolds, BookHolds, HInvHolds, PTL DEF Spec

LEMMA MotionBegins ==
  ASSUME [Next]_vars, motion' # motion, motion' # NoPoint
  PROVE  H!Start22
  BY DEF Next, RelayMain, Client, vars, hvars,
    StartRelay, Ctor, DconnAtStart, AcceptFails, Listen, Accepted, OpenFile,
    LoopTest, PollFails, PollNothing, ReadWaits, ReadPacket, ReadFails, HandleSpecial, HandleStop, HandlePoint,
    Reply, ReplyFails, Executed, Nack, Disconnect, OuterEnds, FinishRelay,
    Abort, AbortHandler, ExecStep, MovesmStep, MovesmAbortStep,
    Connect, SendPoint, SendStop, SendSpecial, Receive, SeeEof, Drop, Arrive,
    H!Call, H!Relay, H!Movesm, H!Convert, H!Sync, H!SetPos, H!SetSpd, H!SetCnt,
    H!SetDrdy, H!WaitAck, H!Init3, H!Init4, H!Ready9, H!Wait12, H!Copy15, H!Unready18,
    H!Ack19, H!Finish22, H!AbortMovesm, H!RunMovesm

LEMMA MotionsAscend ==
  ASSUME BookInv, HP!HInv, Chain, [Next]_vars, motion' # motion, motion' # NoPoint
  PROVE  motion' > last \/ (motion' = last /\ drops > 0)
<1>1. H!Start22
  BY MotionBegins
<1>2. motion' = pr2 /\ Before(last, pr2)
  BY <1>1 DEF H!Start22, H!Line, Chain, H!Held
<1>3. {last, pr2} \subseteq Nat /\ drops \in Nat
  BY TrajAssumption DEF BookInv, Points, NoPoint, HP!HInv, HP!TypeOK
<1> QED
  BY <1>2, <1>3 DEF Before

\* Points start their motions in the order of the trajectory and none starts
\* twice, unless a connection was lost under the client, and then only the last.
THEOREM PointsInOrderOnce == Spec => InOrderOnce
<1>1. BookInv /\ HP!HInv /\ Chain /\ [Next]_vars =>
        [motion' # motion /\ motion' # NoPoint =>
           motion' > last \/ (motion' = last /\ drops > 0)]_vars
  BY MotionsAscend
<1> QED
  BY <1>1, ChainHolds, BookHolds, HInvHolds, PTL DEF Spec, InOrderOnce
=============================================================================
