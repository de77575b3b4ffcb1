--------------------------- MODULE WeldCommand_proofs ---------------------------
(***************************************************************************)
(* Proofs about the welding command path, for every sequence of commands   *)
(* and any number of lost nodes.                                           *)
(*                                                                         *)
(* The argument.  The node numbers its commands as it sends them, so what  *)
(* is on its way, what is being executed and what was executed is in       *)
(* ascending order as long as no buffer outlives its connection (Order).   *)
(* The reply is written after the outputs and so trails them (Trail).  The *)
(* idle counter of a live connection never gets further than one heartbeat *)
(* period and one delivery (Clock).                                        *)
(***************************************************************************)
EXTENDS WeldCommand, ChannelFacts, TLAPS

\* The relay has accepted the connection and not yet given it up.
Serving == main \in {"ofd", "loop", "check", "reading", "exec", "reply"}

TagInv ==
  /\ Serving => tag = "up"
  /\ tag # "up" => c2r = <<>>
  /\ tag = "up" => up \/ gone

\* What was sent last is the greatest, what was executed is past.
Order ==
  /\ \A k \in executed : k < next
  /\ \A i \in 1..Len(c2r) : c2r[i] # HB =>
       /\ c2r[i] < next
       /\ \A k \in executed : k < c2r[i]
       /\ main = "exec" => cmd < c2r[i]
  /\ \A i, j \in 1..Len(c2r) : i < j /\ c2r[i] # HB /\ c2r[j] # HB => c2r[i] < c2r[j]
  /\ main = "exec" /\ cmd # HB => cmd < next /\ \A k \in executed : k < cmd

Trail ==
  /\ \A i \in 1..Len(r2n) : r2n[i] \in executed \cup {HB}
  /\ \A i, j \in 1..Len(r2n) : i < j /\ r2n[i] # HB /\ r2n[j] # HB => r2n[i] < r2n[j]
  /\ main = "reply" /\ cmd # HB =>
       cmd \in executed /\ \A i \in 1..Len(r2n) : r2n[i] # HB => r2n[i] < cmd

\* What has been idle for longer than the heartbeats are apart has a packet on
\* its way.
Clock ==
  main \in {"loop", "check", "reading"} /\ ~gone =>
    /\ c2r = <<>> => idle <= hbAge
    /\ c2r # <<>> /\ arrived = 0 => idle <= HbPeriod + late
-----------------------------------------------------------------------------
(* Types and the tag *)

LEMMA Numbers == /\ 0 \in 0..NCmds /\ 1..NCmds \subseteq 0..NCmds /\ NCmds \in Nat
                 /\ \A i \in 0..NCmds : i # 0 => i \in 1..NCmds
  BY WeldAssumption

LEMMA WeldInit == Init => TypeOK /\ TagInv
<1> SUFFICES ASSUME Init PROVE TypeOK /\ TagInv
  OBVIOUS
<1>1. <<>> \in Seq(0..NCmds) /\ Len(<<>>) = 0
  BY EmptyFacts
<1>2. /\ 0 \in 0..(Timeout + 1) /\ 1 \in 1..(NCmds + 1) /\ 0 \in 0..HbPeriod
      /\ 0 \in 0..MaxExits /\ 0 \in 0..MaxDelay /\ 0 \in 0..0 /\ 0 \in Int
  BY WeldAssumption
<1> QED
  BY <1>1, <1>2, Numbers DEF Init, TypeOK, MainPC, TagInv, Serving

\* A lost client may take the end of what is on its way with it.
LEMMA Truncated ==
  ASSUME TypeOK, LoseClient
  PROVE  /\ c2r' \in Seq(0..NCmds) /\ Len(c2r') \in Nat
         /\ arrived <= Len(c2r') /\ Len(c2r') <= Len(c2r)
         /\ \A i \in 1..Len(c2r') : c2r'[i] = c2r[i] /\ i \in 1..Len(c2r)
<1>1. c2r \in Seq(0..NCmds) /\ Len(c2r) \in Nat /\ arrived \in Nat
  BY EmptyFacts DEF TypeOK
<1>2. PICK k \in arrived..Len(c2r) : c2r' = SubSeq(c2r, 1, k)
  BY DEF LoseClient, DropConnection
<1>3. \A n, a \in Nat : \A j \in a..n : j \in 0..n /\ j \in Nat /\ a <= j /\ j <= n
  OBVIOUS
<1>4. k \in 0..Len(c2r) /\ k \in Nat /\ arrived <= k /\ k <= Len(c2r)
  BY <1>1, <1>2, <1>3
<1>5. /\ c2r' \in Seq(0..NCmds) /\ Len(c2r') = k
      /\ \A i \in 1..k : c2r'[i] = c2r[i] /\ i \in 1..Len(c2r)
  <2>1. /\ SubSeq(c2r, 1, k) \in Seq(0..NCmds)
        /\ Len(SubSeq(c2r, 1, k)) = k
        /\ \A i \in 1..k : SubSeq(c2r, 1, k)[i] = c2r[i] /\ i \in 1..Len(c2r)
    <3> HIDE <1>2
    <3> QED
      BY <1>1, <1>4, PrefixFacts
  <2> QED
    BY <1>2, <2>1
<1> QED
  BY <1>4, <1>5

\* CANCEL FILE leaves the program where it is, or its call fails.
LEMMA CancelledTo ==
  ASSUME main' \in Cancelled
  PROVE  main' = main \/ (main \in {"check", "reading", "reply"} /\ main' = "discon")
  BY DEF Cancelled

LEMMA TagStep == TypeOK /\ TagInv /\ [Next]_vars => TagInv'
<1> SUFFICES ASSUME TypeOK, TagInv, [Next]_vars PROVE TagInv'
  OBVIOUS
<1> USE DEF TagInv, Serving, At, To, relayVars, sockVars, nodeVars, netVars
<1>1. CASE \/ StartRelay \/ DconnAtStart \/ DconnOuter \/ AcceptFails \/ Listen \/ Accepted
           \/ OpenFile \/ LoopTest \/ CheckFails
  BY <1>1 DEF StartRelay, DconnAtStart, DconnOuter, AcceptFails, Listen, Accepted, OpenFile,
              LoopTest, CheckFails, DconnForced, Dconn2, MsgDisco, CannotAccept
<1>2. CASE IdleStep \/ ReadBlocks \/ Exec \/ Reply \/ ReplyFails
  BY <1>2 DEF IdleStep, ReadBlocks, Exec, Reply, ReplyFails
<1>3. CASE ReadPacket
  BY <1>3 DEF ReadPacket, Consume
<1>4. CASE Disconnect \/ OuterEnds \/ FinishRelay
  BY <1>4 DEF Disconnect, OuterEnds, FinishRelay, DconnForced, Dconn2, MsgDisco
<1>8. CASE AbortHandler
  BY <1>8, CancelledTo DEF AbortHandler
<1>5. CASE Command \/ ConnectAndCommand \/ CommandDropped \/ Heartbeat \/ SendFails
  BY <1>5 DEF Command, ConnectAndCommand, CommandDropped, Heartbeat, SendFails, Send
<1>6. CASE RecvReply \/ RecvNothing \/ RecvClosed \/ Fragment \/ Arrive \/ UNCHANGED vars
  BY <1>6 DEF RecvReply, RecvNothing, RecvClosed, Fragment, Arrive, vars
<1>7. CASE LoseClient
  <2>1. c2r = <<>> => c2r' = <<>>
    <3>1. \A t \in Seq(0..NCmds) : t = <<>> <=> Len(t) = 0
      BY EmptyFacts
    <3>2. \A n \in Nat : n <= 0 => n = 0
      OBVIOUS
    <3> QED
      BY <1>7, <3>1, <3>2, Truncated DEF TypeOK
  <2> QED
    BY <1>7, <2>1 DEF LoseClient, DropConnection
<1> QED
  BY <1>1, <1>2, <1>3, <1>4, <1>5, <1>6, <1>7, <1>8 DEF Next, RelayMain, Node

\* What is sent.
LEMMA Sent ==
  ASSUME TypeOK, NEW m \in 0..NCmds, Send(m), tag' = tag
  PROVE  /\ c2r' \in Seq(0..NCmds) /\ Len(c2r') \in Nat /\ Len(c2r) \in Nat
         /\ \/ c2r' = c2r
            \/ /\ Len(c2r') = Len(c2r) + 1 /\ c2r'[Len(c2r) + 1] = m
               /\ \A i \in 1..Len(c2r) : c2r'[i] = c2r[i]
<1>1. c2r \in Seq(0..NCmds) /\ Len(c2r) \in Nat
  BY EmptyFacts DEF TypeOK
<1>2. \A n \in Nat : n + 1 \in Nat
  OBVIOUS
<1>3. Len(Append(c2r, m)) = Len(c2r) + 1 /\ Append(c2r, m) \in Seq(0..NCmds)
      /\ Append(c2r, m)[Len(c2r) + 1] = m
      /\ \A i \in 1..Len(c2r) : Append(c2r, m)[i] = c2r[i]
  BY <1>1, AppendFacts
<1>4. CASE tag = "up"
  BY <1>1, <1>2, <1>3, <1>4 DEF Send
<1>5. CASE tag # "up"
  BY <1>1, <1>5 DEF Send
<1> QED
  BY <1>4, <1>5

LEMMA TypeStep == TypeOK /\ TagInv /\ [Next]_vars => TypeOK'
<1> SUFFICES ASSUME TypeOK, TagInv, [Next]_vars PROVE TypeOK'
  OBVIOUS
<1>0. /\ <<>> \in Seq(0..NCmds) /\ Len(<<>>) = 0 /\ 0 \in 0..0 /\ 0 \in 0..NCmds
      /\ 0 \in 0..MaxDelay /\ 0 \in 0..(Timeout + 1) /\ 0 \in 0..HbPeriod
      /\ c2r \in Seq(0..NCmds) /\ Len(c2r) \in Nat /\ arrived \in Nat
  BY WeldAssumption, EmptyFacts DEF TypeOK
<1> USE DEF TypeOK, MainPC, At, To, relayVars, sockVars, nodeVars, netVars, outVars
<1>1. CASE DconnAtStart \/ DconnOuter \/ Disconnect \/ FinishRelay
  BY <1>0, <1>1 DEF DconnAtStart, DconnOuter, Disconnect, FinishRelay, DconnForced, Dconn2, MsgDisco
<1>2. CASE StartRelay \/ AcceptFails \/ Listen \/ Accepted \/ OpenFile
  <2>1. /\ main' \in MainPC /\ cmd' \in 0..NCmds /\ shut' \in BOOLEAN
        /\ connected' \in BOOLEAN /\ tag' \in {"bad", "idle", "listening", "up"}
        /\ idle' \in 0..(Timeout + 1)
    BY <1>0, <1>2 DEF StartRelay, AcceptFails, Listen, Accepted, OpenFile
  <2>2. UNCHANGED <<npc, up, next, hbAge, exits, c2r, arrived, part, late, gone, r2n,
                    out, executed>>
    BY <1>2 DEF StartRelay, AcceptFails, Listen, Accepted, OpenFile
  <2> QED
    BY <2>1, <2>2
<1>3. CASE LoopTest \/ CheckFails \/ ReadBlocks \/ ReplyFails \/ OuterEnds \/ AbortHandler
  <2>1. main' \in MainPC /\ shut' \in BOOLEAN
    BY <1>3, CancelledTo
    DEF LoopTest, CheckFails, ReadBlocks, ReplyFails, OuterEnds, AbortHandler
  <2>2. UNCHANGED <<cmd, connected, tag, idle, npc, up, next, hbAge, exits, c2r, arrived,
                    part, late, gone, r2n, out, executed>>
    BY <1>3, CancelledTo
    DEF LoopTest, CheckFails, ReadBlocks, ReplyFails, OuterEnds, AbortHandler
  <2> QED
    BY <2>1, <2>2
<1>4. CASE IdleStep
  <2>1. late' \in 0..MaxDelay
    BY <1>0, <1>4, WeldAssumption DEF IdleStep, MayPass, Pass
  <2>2. hbAge' \in 0..HbPeriod
    BY <1>4, WeldAssumption DEF IdleStep, MayPass, Pass
  <2>3. idle' \in 0..(Timeout + 1)
    BY <1>4, WeldAssumption DEF IdleStep
  <2> QED
    BY <1>4, <2>1, <2>2, <2>3 DEF IdleStep
<1>5. CASE ReadPacket
  <2>1. Len(c2r) # 0 /\ c2r # <<>>
    <3>1. \A n \in Nat : \A a \in 0..n : a > 0 => n # 0
      OBVIOUS
    <3> QED
      BY <3>1, <1>0, <1>5 DEF ReadPacket
  <2>2. /\ Head(c2r) = c2r[1] /\ Tail(c2r) \in Seq(0..NCmds) /\ Len(Tail(c2r)) = Len(c2r) - 1
    BY <2>1, <1>0, TailFacts
  <2>3. Head(c2r) \in 0..NCmds
    <3>1. \A n \in Nat : n # 0 => 1 \in 1..n
      OBVIOUS
    <3>2. \A i \in 1..Len(c2r) : c2r[i] \in 0..NCmds
      BY <1>0, EmptyFacts
    <3> QED
      BY <3>1, <3>2, <2>1, <2>2, <1>0
  <2>4. arrived - 1 \in 0..(Len(c2r) - 1)
    BY <1>0, <1>5 DEF ReadPacket
  <2> QED
    BY <1>5, <2>2, <2>3, <2>4 DEF ReadPacket, Consume
<1>6. CASE Exec
  <2>1. cmd # HB => Written \in [Outputs -> Int]
    <3>1. \A o \in Outputs, v \in Int : Level(o, v) \in Int
      BY DEF Level
    <3>2. cmd # HB => cmd \in 1..NCmds
      BY Numbers DEF HB
    <3> QED
      BY <3>1, <3>2, WeldAssumption DEF Written, Outputs
  <2>2. cmd # HB => cmd \in 1..NCmds
    BY Numbers DEF HB
  <2> QED
    BY <1>6, <2>1, <2>2 DEF Exec
<1>7. CASE Reply
  <2>1. r2n' \in Seq(0..NCmds)
    BY <1>7, AppendFacts DEF Reply
  <2> QED
    BY <1>0, <1>7, <2>1 DEF Reply, IdleAfterReply
<1>8. CASE Command \/ Heartbeat
  <2>1. next' \in 1..(NCmds + 1) /\ hbAge' \in 0..HbPeriod
    BY <1>0, <1>8, WeldAssumption DEF Command, Heartbeat
  <2>2. PICK m \in 0..NCmds : Send(m)
    BY <1>8, WeldAssumption DEF Command, Heartbeat, HB
  <2>3. tag' = tag /\ arrived' = arrived
    BY <1>8 DEF Command, Heartbeat
  <2>4. c2r' \in Seq(0..NCmds) /\ arrived' \in 0..Len(c2r')
    <3>1. \A n \in Nat : \A a \in 0..n : a \in 0..(n + 1)
      OBVIOUS
    <3> QED
      BY <3>1, <1>0, <2>2, <2>3, Sent
  <2> QED
    BY <1>8, <2>1, <2>3, <2>4 DEF Command, Heartbeat
<1>9. CASE ConnectAndCommand
  <2>1. next \in 0..NCmds /\ next' \in 1..(NCmds + 1) /\ hbAge' \in 0..HbPeriod
    BY <1>0, <1>9, WeldAssumption DEF ConnectAndCommand
  <2>2. c2r = <<>> /\ arrived = 0
    BY <1>0, <1>9 DEF ConnectAndCommand, TagInv
  <2>3. c2r' = Append(<<>>, next)
    BY <1>9 DEF ConnectAndCommand
  <2>4. c2r' \in Seq(0..NCmds) /\ arrived' \in 0..Len(c2r')
    <3>1. c2r' \in Seq(0..NCmds) /\ Len(c2r') = 0 + 1
      BY <1>0, <2>1, <2>3, AppendFacts
    <3>2. 0 \in 0..(0 + 1)
      OBVIOUS
    <3> QED
      BY <3>1, <3>2, <1>9, <2>2 DEF ConnectAndCommand
  <2> QED
    BY <1>9, <2>1, <2>4 DEF ConnectAndCommand
<1>10. CASE CommandDropped \/ SendFails
  <2>1. next' \in 1..(NCmds + 1)
    BY <1>10, WeldAssumption DEF CommandDropped, SendFails
  <2>2. hbAge' \in 0..HbPeriod /\ r2n' \in Seq(0..NCmds) /\ up' \in BOOLEAN
    BY <1>0, <1>10 DEF CommandDropped, SendFails
  <2>3. UNCHANGED <<main, cmd, shut, connected, tag, idle, npc, exits, c2r, arrived,
                    part, late, gone, out, executed>>
    BY <1>10 DEF CommandDropped, SendFails
  <2> QED
    BY <2>1, <2>2, <2>3
<1>11. CASE RecvReply
  <2>1. r2n' \in Seq(0..NCmds)
    BY <1>11, TailFacts DEF RecvReply
  <2> QED
    BY <1>11, <2>1 DEF RecvReply
<1>12. CASE RecvNothing \/ RecvClosed \/ Fragment \/ UNCHANGED vars
  <2>1. /\ npc' \in {"idle", "recv", "recvHb"} /\ up' \in BOOLEAN
        /\ part' \in {"none", "short", "near"}
    BY <1>12 DEF RecvNothing, RecvClosed, Fragment, vars
  <2>2. UNCHANGED <<main, cmd, shut, connected, tag, idle, next, hbAge, exits, c2r, arrived,
                    late, gone, r2n, out, executed>>
    BY <1>12 DEF RecvNothing, RecvClosed, Fragment, vars
  <2> QED
    BY <2>1, <2>2
<1>13. CASE LoseClient
  <2>1. c2r' \in Seq(0..NCmds) /\ arrived' \in 0..Len(c2r')
    <3>1. \A n, a \in Nat : a <= n => a \in 0..n
      OBVIOUS
    <3> QED
      BY <3>1, <1>0, <1>13, Truncated DEF LoseClient
  <2>2. exits' \in 0..MaxExits
    BY <1>13, WeldAssumption DEF LoseClient
  <2> QED
    BY <1>0, <1>13, <2>1, <2>2 DEF LoseClient, DropConnection
<1>14. CASE Arrive
  <2>1. arrived' \in 0..Len(c2r)
    BY <1>0, <1>14 DEF Arrive, InFlight
  <2> QED
    BY <1>0, <1>14, <2>1 DEF Arrive
<1> QED
  BY <1>1, <1>2, <1>3, <1>4, <1>5, <1>6, <1>7, <1>8, <1>9, <1>10, <1>11, <1>12, <1>13, <1>14
  DEF Next, RelayMain, Node

LEMMA TypeHolds == Spec => [](TypeOK /\ TagInv)
  BY WeldInit, TypeStep, TagStep, PTL DEF Spec

\* Types: no counter passes its bound, no more has arrived than was sent.
THEOREM TypeCorrect == Spec => []TypeOK
  BY TypeHolds, PTL
-----------------------------------------------------------------------------
(* The order of the commands *)

\* Nothing is sent, and at most lost.
LEMMA OrderKept ==
  ASSUME TypeOK, Order, next' \in Nat, next' >= next, executed' = executed,
         Len(c2r') \in Nat,
         \A i \in 1..Len(c2r') : c2r'[i] = c2r[i] /\ i \in 1..Len(c2r),
         main' = "exec" => main = "exec" /\ cmd' = cmd
  PROVE  Order'
<1>1. next \in Nat /\ executed \subseteq Nat /\ cmd \in Nat
  BY WeldAssumption DEF TypeOK
<1>2. \A i \in 1..Len(c2r) : c2r[i] \in Nat
  BY EmptyFacts, WeldAssumption DEF TypeOK
<1>3. \A a, b, c \in Nat : a < b /\ c >= b => a < c
  OBVIOUS
<1>4. \A k \in executed' : k < next'
  BY <1>1, <1>3 DEF Order
<1>5. \A i \in 1..Len(c2r') : c2r'[i] # HB =>
        /\ c2r'[i] < next'
        /\ \A k \in executed' : k < c2r'[i]
        /\ main' = "exec" => cmd' < c2r'[i]
  BY <1>1, <1>2, <1>3 DEF Order
<1>6. \A i, j \in 1..Len(c2r') : i < j /\ c2r'[i] # HB /\ c2r'[j] # HB => c2r'[i] < c2r'[j]
  BY DEF Order
<1>7. main' = "exec" /\ cmd' # HB => cmd' < next' /\ \A k \in executed' : k < cmd'
  BY <1>1, <1>3 DEF Order
<1> QED
  BY <1>4, <1>5, <1>6, <1>7 DEF Order

\* A command has the number next, a heartbeat none.
LEMMA OrderSent ==
  ASSUME TypeOK, Order, NEW m \in 0..NCmds,
         \/ m = HB /\ next' = next
         \/ m = next /\ next' = next + 1,
         UNCHANGED <<executed, main, cmd>>,
         Len(c2r) \in Nat,
         Len(c2r') = Len(c2r) + 1, c2r'[Len(c2r) + 1] = m,
         \A i \in 1..Len(c2r) : c2r'[i] = c2r[i]
  PROVE  Order'
<1>1. next \in Nat /\ executed \subseteq Nat /\ cmd \in Nat /\ next' \in Nat /\ next' >= next
  BY WeldAssumption DEF TypeOK
<1>2. \A i \in 1..Len(c2r) : c2r[i] \in Nat
  BY EmptyFacts, WeldAssumption DEF TypeOK
<1>3. \A a, b, c \in Nat : a < b /\ c >= b => a < c
  OBVIOUS
<1>4. \A i \in 1..Len(c2r') : i \in 1..Len(c2r) \/ (i = Len(c2r) + 1 /\ c2r'[i] = m)
  <2>1. \A n \in Nat : \A i \in 1..(n + 1) : i \in 1..n \/ i = n + 1
    OBVIOUS
  <2> QED
    BY <2>1
<1>5. m # HB => m = next /\ next < next'
  BY <1>1
<1>6. \A k \in executed' : k < next'
  BY <1>1, <1>3 DEF Order
<1>7. main' = "exec" => cmd' = cmd /\ (cmd # HB => cmd < next)
  BY DEF Order
<1>8. ASSUME NEW i \in 1..Len(c2r'), c2r'[i] # HB
      PROVE  /\ c2r'[i] < next'
             /\ \A k \in executed' : k < c2r'[i]
             /\ main' = "exec" => cmd' < c2r'[i]
  <2>1. CASE i \in 1..Len(c2r)
    BY <1>1, <1>2, <1>3, <1>8, <2>1 DEF Order
  <2>2. CASE c2r'[i] = m
    <3>1. m = next /\ m < next'
      BY <1>5, <1>8, <2>2
    <3>2. main' = "exec" => cmd' < m
      <4>1. 0 < next
        BY WeldAssumption DEF TypeOK
      <4> QED
        BY <3>1, <4>1, <1>7 DEF HB
    <3> QED
      BY <2>2, <3>1, <3>2 DEF Order
  <2> QED
    BY <1>4, <2>1, <2>2
<1>9. ASSUME NEW i \in 1..Len(c2r'), NEW j \in 1..Len(c2r'),
             i < j, c2r'[i] # HB, c2r'[j] # HB
      PROVE  c2r'[i] < c2r'[j]
  <2>1. i \in 1..Len(c2r)
    BY <1>4, <1>9
  <2>2. CASE j \in 1..Len(c2r)
    BY <1>9, <2>1, <2>2 DEF Order
  <2>3. CASE c2r'[j] = m
    BY <1>5, <1>9, <2>1, <2>3 DEF Order
  <2> QED
    BY <1>4, <2>2, <2>3
<1>10. main' = "exec" /\ cmd' # HB => cmd' < next' /\ \A k \in executed' : k < cmd'
  BY <1>1, <1>3 DEF Order
<1> QED
  BY <1>6, <1>8, <1>9, <1>10 DEF Order

LEMMA OrderRead == TypeOK /\ Order /\ ReadPacket => Order'
<1> SUFFICES ASSUME TypeOK, Order, ReadPacket PROVE Order'
  OBVIOUS
<1>1. /\ c2r \in Seq(0..NCmds) /\ Len(c2r) \in Nat
      /\ \A i \in 1..Len(c2r) : c2r[i] \in Nat
      /\ next \in Nat /\ executed \subseteq Nat
  BY EmptyFacts, WeldAssumption DEF TypeOK
<1>2. Len(c2r) # 0 /\ c2r # <<>>
  <2>1. \A n \in Nat : \A a \in 0..n : a > 0 => n # 0
    OBVIOUS
  <2> QED
    BY <2>1, <1>1, EmptyFacts DEF ReadPacket, TypeOK
<1>3. /\ cmd' = c2r[1] /\ c2r' = Tail(c2r) /\ Len(Tail(c2r)) = Len(c2r) - 1
      /\ \A i \in 1..(Len(c2r) - 1) : Tail(c2r)[i] = c2r[i + 1]
  BY <1>1, <1>2, TailFacts DEF ReadPacket, Consume
<1>4. UNCHANGED <<next, executed>> /\ main' = "exec"
  BY DEF ReadPacket, nodeVars, outVars, To
<1>5. \A n \in Nat : n # 0 => 1 \in 1..n
  OBVIOUS
<1>6. \A n \in Nat : n # 0 => \A i \in 1..(n - 1) : i + 1 \in 1..n /\ 1 < i + 1
  OBVIOUS
<1>7. \A i \in 1..Len(c2r') : c2r'[i] = c2r[i + 1] /\ i + 1 \in 1..Len(c2r) /\ 1 < i + 1
  BY <1>1, <1>2, <1>3, <1>6
<1>8. 1 \in 1..Len(c2r)
  BY <1>1, <1>2, <1>5
<1>9. \A i \in 1..Len(c2r') : c2r'[i] # HB => cmd' < c2r'[i]
  <2> SUFFICES ASSUME NEW i \in 1..Len(c2r'), c2r'[i] # HB PROVE cmd' < c2r'[i]
    OBVIOUS
  <2>1. CASE cmd' = HB
    <3>1. \A n \in Nat : n # 0 => 0 < n
      OBVIOUS
    <3> QED
      BY <2>1, <3>1, <1>1, <1>7 DEF HB
  <2>2. CASE cmd' # HB
    BY <2>2, <1>3, <1>7, <1>8 DEF Order
  <2> QED
    BY <2>1, <2>2
<1>10. \A i, j \in 1..Len(c2r') : i < j /\ c2r'[i] # HB /\ c2r'[j] # HB => c2r'[i] < c2r'[j]
  <2> SUFFICES ASSUME NEW i \in 1..Len(c2r'), NEW j \in 1..Len(c2r'),
                      i < j, c2r'[i] # HB, c2r'[j] # HB
               PROVE  c2r'[i] < c2r'[j]
    OBVIOUS
  <2>1. i + 1 < j + 1
    <3>1. \A n, a, b \in Nat : a < b => a + 1 < b + 1
      OBVIOUS
    <3>2. \A n : \A a \in 1..n : a \in Nat
      OBVIOUS
    <3> QED
      BY <3>1, <3>2
  <2> QED
    BY <2>1, <1>7 DEF Order
<1>11. /\ \A i \in 1..Len(c2r') : c2r'[i] # HB =>
            c2r'[i] < next /\ \A k \in executed : k < c2r'[i]
       /\ cmd' # HB => cmd' < next /\ \A k \in executed : k < cmd'
       /\ \A k \in executed : k < next
  BY <1>3, <1>7, <1>8 DEF Order
<1> QED
  BY <1>4, <1>9, <1>10, <1>11 DEF Order

LEMMA OrderExec == TypeOK /\ Order /\ Exec => Order'
<1> SUFFICES ASSUME TypeOK, Order, Exec PROVE Order'
  OBVIOUS
<1>1. /\ main = "exec" /\ main' = "reply" /\ UNCHANGED <<next, c2r>>
      /\ executed' = (IF cmd = HB THEN executed ELSE executed \cup {cmd})
  BY DEF Exec, At, To, outVars, nodeVars, netVars
<1>2. \A k \in executed' : k < next
  BY <1>1 DEF Order
<1>3. \A i \in 1..Len(c2r) : c2r[i] # HB => \A k \in executed' : k < c2r[i]
  BY <1>1 DEF Order
<1> QED
  BY <1>1, <1>2, <1>3 DEF Order

LEMMA OrderStep == TypeOK /\ TagInv /\ Order /\ [Next]_vars => Order'
<1> SUFFICES ASSUME TypeOK, TagInv, Order, [Next]_vars PROVE Order'
  OBVIOUS
<1>0. /\ c2r \in Seq(0..NCmds) /\ Len(c2r) \in Nat /\ next \in Nat
      /\ Len(<<>>) = 0 /\ \A i \in 1..Len(<<>>) : FALSE
  BY EmptyFacts, WeldAssumption DEF TypeOK
<1> USE DEF At, To, relayVars, sockVars, nodeVars, netVars, outVars
<1>1. CASE DconnAtStart \/ DconnOuter \/ Disconnect \/ FinishRelay
  <2>1. /\ UNCHANGED <<next, executed>> /\ main' # "exec" /\ (c2r' = c2r \/ c2r' = <<>>)
    BY <1>1 DEF DconnAtStart, DconnOuter, Disconnect, FinishRelay, DconnForced, Dconn2, MsgDisco
  <2> QED
    BY <1>0, <2>1, OrderKept
<1>2. CASE \/ StartRelay \/ AcceptFails \/ Listen \/ Accepted \/ OpenFile \/ LoopTest
           \/ CheckFails \/ ReadBlocks \/ Reply \/ ReplyFails
           \/ OuterEnds \/ IdleStep
  <2>1. UNCHANGED <<next, executed, c2r>> /\ main' # "exec"
    BY <1>2 DEF StartRelay, AcceptFails, Listen, Accepted, OpenFile, LoopTest, CheckFails,
                ReadBlocks, Reply, ReplyFails, OuterEnds, IdleStep
  <2> QED
    BY <1>0, <2>1, OrderKept
<1>7. CASE AbortHandler
  <2>1. UNCHANGED <<executed, c2r, cmd, next>> /\ (main' = "exec" => main = "exec")
    BY <1>7, CancelledTo DEF AbortHandler
  <2> QED
    BY <1>0, <2>1, OrderKept
<1>3. CASE \/ CommandDropped \/ SendFails \/ RecvReply \/ RecvNothing
           \/ RecvClosed \/ Fragment \/ Arrive \/ UNCHANGED vars
  <2>1. UNCHANGED <<executed, c2r, main, cmd>> /\ (next' = next \/ next' = next + 1)
    BY <1>3 DEF CommandDropped, SendFails, RecvReply, RecvNothing, RecvClosed,
                Fragment, Arrive, vars
  <2>2. next' \in Nat /\ next' >= next
    BY <1>0, <2>1
  <2> QED
    BY <1>0, <2>1, <2>2, OrderKept
<1>4. CASE LoseClient
  <2>1. UNCHANGED <<executed, next, main, cmd>>
    BY <1>4 DEF LoseClient, DropConnection
  <2> QED
    BY <1>0, <1>4, <2>1, Truncated, OrderKept
<1>5. CASE Command \/ Heartbeat
  <2>1. PICK m \in 0..NCmds :
          /\ Send(m)
          /\ (m = HB /\ next' = next) \/ (m = next /\ next' = next + 1)
    BY <1>5, WeldAssumption DEF Command, Heartbeat, HB, TypeOK
  <2>2. UNCHANGED <<tag, executed, main, cmd>>
    BY <1>5 DEF Command, Heartbeat
  <2>3. CASE c2r' = c2r
    <3>1. next' \in Nat /\ next' >= next
      BY <1>0, <2>1
    <3> QED
      BY <1>0, <2>2, <2>3, <3>1, OrderKept
  <2>4. CASE c2r' # c2r
    BY <1>0, <2>1, <2>2, <2>4, Sent, OrderSent
  <2> QED
    BY <2>3, <2>4
<1>6. CASE ConnectAndCommand
  <2>1. /\ next \in 0..NCmds /\ next' = next + 1 /\ c2r = <<>> /\ c2r' = Append(<<>>, next)
        /\ UNCHANGED <<executed, main, cmd>>
    BY <1>6, WeldAssumption DEF ConnectAndCommand, TagInv, TypeOK
  <2>2. /\ Len(c2r') = Len(<<>>) + 1 /\ c2r'[Len(<<>>) + 1] = next
    BY <1>0, <2>1, AppendFacts
  <2> QED
    BY <1>0, <2>1, <2>2, OrderSent
<1> QED
  BY <1>1, <1>7, <1>2, <1>3, <1>4, <1>5, <1>6, OrderRead, OrderExec DEF Next, RelayMain, Node

LEMMA OrderInit == Init => Order
  BY EmptyFacts DEF Init, Order

LEMMA OrderHolds == Spec => []Order
  BY OrderInit, OrderStep, TypeHolds, PTL DEF Spec

\* No command writes the outputs twice or after a later one.
THEOREM CommandsInOrder == Spec => ExecutedInOrder
<1>1. TypeOK /\ Order => [At("exec") /\ To("reply") /\ cmd # HB => \A k \in executed : cmd > k]_vars
  <2>1. TypeOK => cmd \in Nat /\ executed \subseteq Nat
    BY WeldAssumption DEF TypeOK
  <2> QED
    BY <2>1 DEF Order, At
<1> QED
  BY <1>1, TypeHolds, OrderHolds, PTL DEF Spec, ExecutedInOrder
-----------------------------------------------------------------------------
(* The replies *)

LEMMA TrailStep == TypeOK /\ Order /\ Trail /\ [Next]_vars => Trail'
<1> SUFFICES ASSUME TypeOK, Order, Trail, [Next]_vars PROVE Trail'
  OBVIOUS
<1>0. /\ r2n \in Seq(0..NCmds) /\ Len(r2n) \in Nat
      /\ \A i \in 1..Len(r2n) : r2n[i] \in Nat
      /\ Len(<<>>) = 0 /\ \A i \in 1..Len(<<>>) : FALSE
  BY EmptyFacts, WeldAssumption DEF TypeOK
<1> USE DEF At, To, relayVars, sockVars, nodeVars, netVars, outVars
<1>1. CASE DconnAtStart \/ DconnOuter \/ Disconnect \/ FinishRelay
  <2>1. UNCHANGED executed /\ main' # "reply" /\ (r2n' = r2n \/ r2n' = <<>>)
    BY <1>1 DEF DconnAtStart, DconnOuter, Disconnect, FinishRelay, DconnForced, Dconn2, MsgDisco
  <2> QED
    BY <1>0, <2>1 DEF Trail
<1>2. CASE \/ StartRelay \/ AcceptFails \/ Listen \/ Accepted \/ OpenFile \/ LoopTest
           \/ CheckFails \/ ReadBlocks \/ ReplyFails
           \/ OuterEnds \/ IdleStep \/ ReadPacket
  <2>1. UNCHANGED <<executed, r2n>> /\ main' # "reply"
    BY <1>2 DEF StartRelay, AcceptFails, Listen, Accepted, OpenFile, LoopTest, CheckFails,
                ReadBlocks, ReplyFails, OuterEnds, IdleStep, ReadPacket
  <2> QED
    BY <2>1 DEF Trail
<1>7. CASE AbortHandler
  <2>1. UNCHANGED <<executed, r2n, cmd>> /\ (main' = "reply" => main = "reply")
    BY <1>7, CancelledTo DEF AbortHandler
  <2> QED
    BY <2>1 DEF Trail
<1>3. CASE \/ CommandDropped \/ SendFails \/ RecvNothing \/ Command \/ Heartbeat
           \/ RecvClosed \/ Fragment \/ Arrive \/ LoseClient \/ ConnectAndCommand \/ UNCHANGED vars
  <2>1. UNCHANGED <<executed, main, cmd>> /\ (r2n' = r2n \/ r2n' = <<>>)
    BY <1>3 DEF CommandDropped, SendFails, RecvNothing, RecvClosed, Command, Heartbeat,
                Fragment, Arrive, LoseClient, DropConnection, ConnectAndCommand, vars
  <2> QED
    BY <1>0, <2>1 DEF Trail
<1>4. CASE RecvReply
  <2>1. /\ UNCHANGED <<executed, main, cmd>> /\ Len(r2n') = Len(r2n) - 1 /\ Len(r2n) # 0
        /\ \A i \in 1..(Len(r2n) - 1) : r2n'[i] = r2n[i + 1]
    <3>1. r2n # <<>> /\ r2n' = Tail(r2n) /\ UNCHANGED <<executed, main, cmd>>
      BY <1>4 DEF RecvReply
    <3>2. Len(r2n) # 0
      BY <1>0, <3>1, EmptyFacts
    <3> QED
      BY <1>0, <3>1, <3>2, TailFacts
  <2>2. \A n \in Nat : n # 0 => \A i \in 1..(n - 1) : i \in Nat /\ i + 1 \in 1..n
    OBVIOUS
  <2>3. \A a, b \in Nat : a < b => a + 1 < b + 1
    OBVIOUS
  <2>4. \A i \in 1..Len(r2n') : r2n'[i] = r2n[i + 1] /\ i + 1 \in 1..Len(r2n) /\ i \in Nat
    BY <1>0, <2>1, <2>2
  <2>5. \A i, j \in 1..Len(r2n') : i < j => i + 1 < j + 1
    BY <2>3, <2>4
  <2> QED
    BY <2>1, <2>4, <2>5 DEF Trail
<1>5. CASE Exec
  <2>1. /\ r2n' = r2n /\ cmd' = cmd /\ main = "exec"
        /\ executed' = (IF cmd = HB THEN executed ELSE executed \cup {cmd})
    BY <1>5 DEF Exec
  <2>2. cmd # HB => cmd \in executed' /\ \A i \in 1..Len(r2n) : r2n[i] # HB => r2n[i] < cmd
    BY <2>1 DEF Trail, Order
  <2> QED
    BY <2>1, <2>2 DEF Trail
<1>6. CASE Reply
  <2>1. /\ main = "reply" /\ main' # "reply" /\ executed' = executed
        /\ r2n' = r2n \/ r2n' = Append(r2n, cmd)
    BY <1>6 DEF Reply
  <2>2. CASE r2n' = r2n
    BY <2>1, <2>2 DEF Trail
  <2>3. CASE r2n' = Append(r2n, cmd)
    <3>1. /\ Len(r2n') = Len(r2n) + 1 /\ r2n'[Len(r2n) + 1] = cmd
          /\ \A i \in 1..Len(r2n) : r2n'[i] = r2n[i]
      BY <1>0, <2>3, AppendFacts DEF TypeOK
    <3>2. \A n \in Nat : \A i \in 1..(n + 1) : i \in 1..n \/ i = n + 1
      OBVIOUS
    <3>3. \A n \in Nat : \A i \in 1..(n + 1) : ~(n + 1 < i)
      OBVIOUS
    <3>4. \A i \in 1..Len(r2n') : /\ (i \in 1..Len(r2n) \/ (i = Len(r2n) + 1 /\ r2n'[i] = cmd))
                                   /\ ~(Len(r2n) + 1 < i)
      BY <1>0, <3>1, <3>2, <3>3
    <3>5. \A i \in 1..Len(r2n') : r2n'[i] \in executed \cup {HB}
      BY <2>1, <3>1, <3>4 DEF Trail
    <3>6. ASSUME NEW i \in 1..Len(r2n'), NEW j \in 1..Len(r2n'),
                 i < j, r2n'[i] # HB, r2n'[j] # HB
          PROVE  r2n'[i] < r2n'[j]
      <4>1. i \in 1..Len(r2n)
        BY <3>4, <3>6
      <4>2. CASE j \in 1..Len(r2n)
        BY <3>1, <3>6, <4>1, <4>2 DEF Trail
      <4>3. CASE r2n'[j] = cmd
        BY <2>1, <3>1, <3>6, <4>1, <4>3 DEF Trail
      <4> QED
        BY <3>4, <4>2, <4>3
    <3> QED
      BY <2>1, <3>5, <3>6 DEF Trail
  <2> QED
    BY <2>1, <2>2, <2>3
<1> QED
  BY <1>1, <1>7, <1>2, <1>3, <1>4, <1>5, <1>6 DEF Next, RelayMain, Node

\* The replies the node has yet to read answer what was done, in its order.
THEOREM RepliesTrail == Spec => []AcksTrail
<1>1. Init => Trail
  BY EmptyFacts DEF Init, Trail
<1>2. TypeOK /\ Trail => AcksTrail
  <2>1. TypeOK => DOMAIN r2n = 1..Len(r2n)
    BY DEF TypeOK
  <2> QED
    BY <2>1 DEF Trail, AcksTrail
<1> QED
  BY <1>1, <1>2, TrailStep, TypeHolds, OrderHolds, PTL DEF Spec
-----------------------------------------------------------------------------
(* The outputs *)

LEMMA OutputsStep == TypeOK /\ Order /\ OutputsFollow /\ [Next]_vars => OutputsFollow'
<1> SUFFICES ASSUME TypeOK, Order, OutputsFollow, [Next]_vars PROVE OutputsFollow'
  OBVIOUS
<1>1. CASE UNCHANGED outVars
  BY <1>1 DEF OutputsFollow, Setting, outVars
<1>2. CASE Exec /\ cmd # HB
  <2>1. /\ main = "exec" /\ out' = Written /\ executed' = executed \cup {cmd}
        /\ cmd \in 1..NCmds /\ executed \subseteq 1..NCmds
    BY <1>2, Numbers DEF Exec, At, TypeOK, HB
  <2>2. \A k \in executed : k < cmd
    BY <1>2, <2>1 DEF Order
  <2> SUFFICES ASSUME NEW o \in Outputs
               PROVE  /\ Setting(o)' = {} => out'[o] = 0
                      /\ \A k \in Setting(o)' : (\A l \in Setting(o)' : l <= k) =>
                           out'[o] \in Asked(o, Payload[k][o])
    BY DEF OutputsFollow
  <2>3. CASE Payload[cmd][o] = NoChange
    <3>1. Setting(o)' = Setting(o) /\ out'[o] = out[o]
      BY <2>1, <2>3 DEF Setting, Written, Sets
    <3> QED
      BY <3>1 DEF OutputsFollow
  <2>4. CASE Payload[cmd][o] # NoChange
    <3>1. cmd \in Setting(o)' /\ Setting(o)' \subseteq executed \cup {cmd}
      BY <2>1, <2>4 DEF Setting
    <3>2. out'[o] \in Asked(o, Payload[cmd][o])
      <4>1. out'[o] = Level(o, Payload[cmd][o]) /\ Payload[cmd][o] \in Int
        BY <2>1, <2>4, WeldAssumption DEF Written, Sets, Outputs
      <4>2. ASSUME NEW v \in Int PROVE Level(o, v) \in Asked(o, v)
        BY WeldAssumption DEF Level, Asked, Outputs
      <4> QED
        BY <4>1, <4>2
    <3>3. \A k \in Setting(o)' : cmd <= k => k = cmd
      BY <2>1, <2>2, <3>1, WeldAssumption
    <3> QED
      BY <3>1, <3>2, <3>3
  <2> QED
    BY <2>3, <2>4
<1> QED
  BY <1>1, <1>2
  DEF Next, RelayMain, Node, vars, outVars,
    StartRelay, DconnAtStart, DconnOuter, AcceptFails, Listen, Accepted, OpenFile, LoopTest,
    CheckFails, IdleStep, ReadPacket, ReadBlocks, Exec, Reply, ReplyFails,
    Disconnect, OuterEnds, FinishRelay, AbortHandler, Command, ConnectAndCommand,
    CommandDropped, Heartbeat, SendFails, RecvReply, RecvNothing, RecvClosed, LoseClient,
    Fragment, Arrive

\* An output has the value of the newest command executed that had one for it.
THEOREM OutputsAreNewest == Spec => []OutputsFollow
<1>1. Init => OutputsFollow
  BY DEF Init, OutputsFollow, Setting
<1> QED
  BY <1>1, OutputsStep, TypeHolds, OrderHolds, PTL DEF Spec
-----------------------------------------------------------------------------
(* The idle timeout *)

LEMMA ClockStep ==
  ASSUME TypeOK, TagInv, TagInv', Clock, [Next]_vars, NodeHb, HbPeriod + MaxDelay <= Timeout
  PROVE  Clock'
<1>0. /\ idle \in Nat /\ hbAge \in Nat /\ hbAge <= HbPeriod /\ late \in Nat
      /\ late <= MaxDelay /\ HbPeriod \in Nat /\ arrived \in Nat
  BY WeldAssumption, EmptyFacts DEF TypeOK
<1> USE DEF At, To, relayVars, sockVars, nodeVars, netVars, outVars
<1>1. CASE \/ StartRelay \/ DconnAtStart \/ DconnOuter \/ AcceptFails \/ Listen \/ Accepted
           \/ CheckFails \/ Exec \/ ReadPacket
           \/ ReplyFails \/ Disconnect \/ OuterEnds \/ FinishRelay
  <2>1. main' \notin {"loop", "check", "reading"}
    BY <1>1 DEF StartRelay, DconnAtStart, DconnOuter, AcceptFails, Listen, Accepted, CheckFails,
                Exec, ReadPacket, ReplyFails, Disconnect, OuterEnds,
                FinishRelay
  <2> QED
    BY <2>1 DEF Clock
<1>2. CASE OpenFile \/ Reply
  <2>1. main' = "discon" \/ (idle' = 0 /\ UNCHANGED <<hbAge, late>>)
    BY <1>2 DEF OpenFile, Reply, IdleAfterReply
  <2> QED
    BY <1>0, <2>1 DEF Clock
<1>3. CASE \/ LoopTest \/ ReadBlocks \/ AbortHandler \/ CommandDropped \/ RecvReply \/ RecvNothing
           \/ Fragment \/ UNCHANGED vars
  <2>1. /\ UNCHANGED <<idle, hbAge, late, c2r, arrived, gone>>
        /\ main' \in {main, "discon"} \/ main \in {"loop", "check"}
    BY <1>3, CancelledTo DEF LoopTest, ReadBlocks, AbortHandler, CommandDropped, RecvReply, RecvNothing, Fragment, vars
  <2> QED
    BY <2>1 DEF Clock
<1>4. CASE SendFails \/ RecvClosed \/ LoseClient \/ ConnectAndCommand
  <2>1. main' \notin {"loop", "check", "reading"} \/ gone'
    BY <1>4 DEF SendFails, RecvClosed, LoseClient, DropConnection, ConnectAndCommand, TagInv, Serving
  <2> QED
    BY <2>1 DEF Clock
<1>5. CASE Arrive
  <2>1. arrived' # 0 /\ UNCHANGED <<main, gone, c2r, idle, hbAge>>
    BY <1>0, <1>5 DEF Arrive
  <2>2. Len(c2r) \in Nat /\ c2r # <<>>
    BY <1>5, EmptyFacts DEF Arrive, InFlight, TypeOK
  <2> QED
    BY <2>1, <2>2 DEF Clock
<1>6. CASE Command
  <2>1. UNCHANGED <<main, gone, idle, hbAge, late, arrived, tag>>
    BY <1>6 DEF Command
  <2>2. main \in {"loop", "check", "reading"} => c2r' # <<>>
    <3>1. c2r \in Seq(0..NCmds) /\ next \in 0..NCmds
      BY <1>6, WeldAssumption DEF Command, TypeOK
    <3>2. Append(c2r, next) # <<>>
      BY <3>1, AppendFacts
    <3> QED
      BY <1>6, <3>2 DEF Command, Send, TagInv, Serving
  <2>3. \A i, h, p, l \in Nat : i <= h /\ h <= p => i <= p + l
    OBVIOUS
  <2> QED
    BY <1>0, <2>1, <2>2, <2>3 DEF Clock
<1>7. CASE Heartbeat
  <2>1. UNCHANGED <<main, gone, idle, late, arrived, tag>>
    BY <1>7 DEF Heartbeat
  <2>2. main \in {"loop", "check", "reading"} => c2r' # <<>>
    <3>1. c2r \in Seq(0..NCmds) /\ HB \in 0..NCmds
      BY WeldAssumption DEF TypeOK, HB
    <3>2. Append(c2r, HB) # <<>>
      BY <3>1, AppendFacts
    <3> QED
      BY <1>7, <3>2 DEF Heartbeat, Send, TagInv, Serving
  <2>3. \A i, h, p, l \in Nat : i <= h /\ h <= p => i <= p + l
    OBVIOUS
  <2> QED
    BY <1>0, <2>1, <2>2, <2>3 DEF Clock
<1>8. CASE IdleStep
  <2>1. /\ UNCHANGED <<gone, c2r, arrived>> /\ main = "check" /\ arrived = 0
        /\ (up => hbAge < HbPeriod /\ hbAge' = hbAge + 1)
        /\ (idle' = idle + 1 \/ idle' = idle)
    BY <1>8 DEF IdleStep, MayPass, Pass
  <2>2. c2r # <<>> => late' = late + 1
    <3>1. c2r # <<>> => Len(c2r) # 0 /\ Len(c2r) \in Nat
      BY EmptyFacts DEF TypeOK
    <3>2. \A n \in Nat : n # 0 => 0 < n
      OBVIOUS
    <3> QED
      BY <1>8, <2>1, <3>1, <3>2 DEF IdleStep, Pass, InFlight
  <2>3. up \/ gone
    BY <2>1 DEF TagInv, Serving
  <2> QED
    BY <1>0, <2>1, <2>2, <2>3 DEF Clock
<1> QED
  BY <1>1, <1>2, <1>3, <1>4, <1>5, <1>6, <1>7, <1>8 DEF Next, RelayMain, Node

\* With heartbeats that come in time the relay never gives up a live client.
THEOREM LiveClientStays ==
  ASSUME NodeHb, HbPeriod + MaxDelay <= Timeout
  PROVE  Spec => LiveClientKept
<1>1. Init => Clock
  BY DEF Init, Clock
<1>2. TypeOK /\ TagInv /\ TagInv' /\ Clock /\ [Next]_vars => Clock'
  BY ClockStep
<1>3. TypeOK /\ TagInv /\ Clock /\ [Next]_vars =>
        [main' = "discon" /\ main \in {"loop", "check", "reading"} => shut' \/ gone]_vars
  <2> SUFFICES ASSUME TypeOK, TagInv, Clock, [Next]_vars,
                      main \in {"loop", "check", "reading"}, main' = "discon", ~gone
               PROVE  shut'
    OBVIOUS
  <2>1. LoopTest \/ CheckFails \/ IdleStep \/ AbortHandler
    BY DEF Next, RelayMain, Node, vars, At, To, relayVars,
      StartRelay, DconnAtStart, DconnOuter, AcceptFails, Listen, Accepted, OpenFile,
      ReadPacket, ReadBlocks, Exec, Reply, ReplyFails,
      Disconnect, OuterEnds, FinishRelay, Command, ConnectAndCommand,
      CommandDropped, Heartbeat, SendFails, RecvReply, RecvNothing, RecvClosed, LoseClient,
      Fragment, Arrive
  <2>2. CASE IdleStep
    <3>0. /\ idle \in Nat /\ hbAge \in Nat /\ late \in Nat /\ HbPeriod \in Nat
          /\ MaxDelay \in Nat /\ Timeout \in Nat
      BY WeldAssumption DEF TypeOK
    <3>1. idle + 1 > Timeout /\ arrived = 0
      BY <2>2 DEF IdleStep, TimedOut, To
    <3>2. up
      BY DEF TagInv, Serving
    <3>3. CASE c2r = <<>>
      <4>1. idle <= hbAge /\ hbAge < HbPeriod
        BY <2>2, <3>2, <3>3 DEF IdleStep, MayPass, Clock
      <4> QED
        BY <3>0, <3>1, <4>1
    <3>4. CASE c2r # <<>>
      <4>1. Len(c2r) # 0 /\ Len(c2r) \in Nat
        BY <3>4, EmptyFacts DEF TypeOK
      <4>2. \A n \in Nat : n # 0 => 0 < n
        OBVIOUS
      <4>3. late < MaxDelay
        BY <2>2, <3>1, <4>1, <4>2 DEF IdleStep, MayPass, InFlight
      <4>4. idle <= HbPeriod + late
        BY <3>1, <3>4 DEF Clock
      <4> QED
        BY <3>0, <3>1, <4>3, <4>4
    <3> QED
      BY <3>3, <3>4
  <2> QED
    BY <2>1, <2>2 DEF LoopTest, CheckFails, AbortHandler, At, To
<1> QED
  BY <1>1, <1>2, <1>3, TypeHolds, PTL DEF Spec, LiveClientKept
=============================================================================
