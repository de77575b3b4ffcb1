------------------------ MODULE StatePublisher_proofs ------------------------
(***************************************************************************)
(* Proofs about the server programs and the state publisher, for every set *)
(* of programs, tags and ports and every divider.                          *)
(*                                                                         *)
(* The argument.  A program that is past ssock_ctor works with the tag and *)
(* port of its configuration, which nobody edits while it runs; whoever    *)
(* shares one of them is in `mixed`.  So MSG_DISCO on the tag of a program *)
(* that is not can only be its own (TagInv), and who dials its port is its *)
(* own node (PortInv).  The publisher's divider needs only that counting   *)
(* stops with the inner loop (CountInv).                                   *)
(***************************************************************************)
EXTENDS StatePublisher, TLAPS

Running(p) == pc[p] \notin {"off", "ctor"}

\* What a program works with is what it was configured for.
CfgInv ==
  /\ \A p \in Programs : pc[p] # "off" => cfg[p].tag # Uninit /\ cfg[p].port # Uninit
  /\ \A p \in Programs : Running(p) => sock[p] = [tag |-> cfg[p].tag, port |-> cfg[p].port]
  /\ \A p \in Programs : Clash(p) => p \in mixed

\* A tag in use has a user, one that is not has none; a program that gives up a
\* connection without connected_ has none.
LineInv ==
  /\ \A t \in Tags : line[t].st \in {"listening", "up"} => line[t].user \in Programs
  /\ \A t \in Tags : line[t].st \in {"bad", "idle"} => line[t].user = Uninit
  /\ \A p \in Programs : pc[p] \in {"ofd", "loop"} => connected[p]
  /\ \A p \in Programs : pc[p] = "discon" /\ ~connected[p] => line[Tag(p)].user # p

\* Nobody takes the tag of a program that shares it with none.
HeldInv ==
  \A p \in Programs \ mixed :
    /\ pc[p] = "connecting" => line[Tag(p)].user = p
    /\ pc[p] \in {"ofd", "loop"} => Holds(p)

\* ... nor does anybody else's node dial its port.
PortInv ==
  \A p \in Programs \ mixed :
    Running(p) /\ line[Tag(p)].st # "bad" =>
      /\ port[Tag(p)] = cfg[p].port
      /\ line[Tag(p)].user = p => line[Tag(p)].on = cfg[p].port
      /\ line[Tag(p)].user = p /\ line[Tag(p)].st = "up" => line[Tag(p)].client = p

TagInv == TypeOK /\ CfgInv /\ LineInv /\ Owned /\ HeldInv /\ PortInv

\* A step of some program or its node.
TagStep == \E p \in Programs : Around(p) \/ LoopEnds(p)
-----------------------------------------------------------------------------
LEMMA TagInit == TagsInit => TagInv
<1> SUFFICES ASSUME TagsInit PROVE TagInv
  OBVIOUS
<1> USE TagsAssumption DEF TagsInit
<1>1. TypeOK
  <2>1. line \in [Tags -> Lines]
    <3>1. Free("bad") \in Lines /\ Free("idle") \in Lines
      BY DEF Lines, Free
    <3> QED
      BY <3>1
  <2>2. sock \in [Programs -> [tag : Tags, port : Ports]]
    OBVIOUS
  <2>3. cfg \in [Programs -> Cfgs]
    BY DEF Cfgs
  <2> QED
    BY <2>1, <2>2, <2>3 DEF TypeOK, ServerPC
<1>2. CfgInv
  BY DEF CfgInv, Running, Clash
<1>3. LineInv /\ Owned
  <2>1. \A t \in Tags : line[t].st \in {"bad", "idle"} /\ line[t].user = Uninit
    <3>1. \A t \in Tags : line[t] \in {Free("bad"), Free("idle")}
      OBVIOUS
    <3> QED
      BY <3>1 DEF Free
  <2> QED
    BY <2>1 DEF LineInv, Owned
<1>4. HeldInv /\ PortInv
  BY DEF HeldInv, PortInv, Running
<1> QED
  BY <1>1, <1>2, <1>3, <1>4 DEF TagInv

\* MSG_DISCO frees the tag of the program and no other.
LEMMA DconnFrees ==
  ASSUME TypeOK, NEW p \in Programs, DconnForced(p)
  PROVE  /\ line' \in [Tags -> Lines] /\ connected' \in [Programs -> BOOLEAN]
         /\ \A t \in Tags : t # Tag(p) => line'[t] = line[t]
         /\ line'[Tag(p)].st \in {"bad", "idle"} /\ line'[Tag(p)].user = Uninit
         /\ \A q \in Programs : connected'[q] = (q # p /\ connected[q])
<1> DEFINE st == IF line[Tag(p)].st = "bad" THEN "bad" ELSE "idle"
<1>1. Tag(p) \in Tags
  BY DEF TypeOK, Tag
<1>2. Free(st) \in Lines /\ Free(st).st \in {"bad", "idle"} /\ Free(st).user = Uninit
  BY DEF Free, Lines
<1>3. line' = [line EXCEPT ![Tag(p)] = Free(st)]
  BY DEF DconnForced, MsgDisco
<1> HIDE DEF st
<1>4. connected' = [connected EXCEPT ![p] = FALSE]
  BY DEF DconnForced
<1> QED
  BY <1>1, <1>2, <1>3, <1>4 DEF TypeOK

LEMMA TagStepInv ==
  ASSUME TagInv, NEW p \in Programs, Around(p) \/ LoopEnds(p)
  PROVE  TagInv'
<1> USE TagsAssumption DEF TagInv, At, To, Tag
<1>1. CASE Start(p)
  <2>1. TypeOK'
    <3>1. Filled(cfg[p]) \in Cfgs
      BY DEF Filled, TypeOK, Cfgs
    <3>2. cfg' \in [Programs -> Cfgs]
      BY <1>1, <3>1 DEF Start, TypeOK
    <3>3. mixed' \subseteq Programs
      BY <1>1 DEF Start, NoteClash, TypeOK
    <3> QED
      BY <1>1, <3>2, <3>3 DEF Start, TypeOK, ServerPC
  <2>2. CfgInv'
    BY <1>1 DEF Start, Filled, NoteClash, TypeOK, CfgInv, Clash, Running, ServerPC
  <2>3. LineInv' /\ Owned'
    BY <1>1 DEF Start, Filled, NoteClash, TypeOK, LineInv, Owned, CfgInv, Running, ServerPC
  <2>4. HeldInv'
    BY <1>1 DEF Start, Filled, NoteClash, TypeOK, HeldInv, LineInv, Owned, Holds, CfgInv, Clash, Running, ServerPC
  <2>5. PortInv'
    BY <1>1 DEF Start, Filled, NoteClash, TypeOK, PortInv, HeldInv, LineInv, Owned, CfgInv, Clash, Running, ServerPC
  <2> QED
    BY <2>1, <2>2, <2>3, <2>4, <2>5
<1>2. CASE Ctor(p)
  <2>1. TypeOK'
    <3>1. cfg[p].tag \in Tags /\ cfg[p].port \in Ports
      BY <1>2 DEF Ctor, TypeOK, CfgInv, Cfgs
    <3>2. sock' \in [Programs -> [tag : Tags, port : Ports]]
      BY <1>2, <3>1 DEF Ctor, TypeOK
    <3>3. port' \in [Tags -> Ports]
      BY <1>2, <3>2 DEF Ctor, SetPort, TypeOK
    <3> QED
      BY <1>2, <3>2, <3>3 DEF Ctor, TypeOK, ServerPC
  <2>2. CfgInv'
    BY <1>2 DEF Ctor, SetPort, TypeOK, CfgInv, Clash, Running, ServerPC
  <2>3. LineInv' /\ Owned'
    BY <1>2 DEF Ctor, SetPort, TypeOK, LineInv, Owned, CfgInv, Running, ServerPC
  <2>4. HeldInv'
    BY <1>2 DEF Ctor, SetPort, TypeOK, HeldInv, LineInv, Owned, Holds, CfgInv, Clash, Running, ServerPC
  <2>5. PortInv'
    <3>1. cfg[p].tag \in Tags /\ cfg[p].port \in Ports
      BY <1>2 DEF Ctor, TypeOK, CfgInv, Cfgs
    <3>2. sock'[p] = [tag |-> cfg[p].tag, port |-> cfg[p].port]
      BY <1>2 DEF Ctor, TypeOK
    <3>3. line[cfg[p].tag].st # "bad" => port' = [port EXCEPT ![cfg[p].tag] = cfg[p].port]
      BY <1>2, <3>2 DEF Ctor, SetPort
    <3>4. line[cfg[p].tag].user # p
      <4>1. line[cfg[p].tag] \in Lines
        BY <3>1 DEF TypeOK
      <4>2. line[cfg[p].tag].st \in {"bad", "idle", "listening", "up"}
        BY <4>1 DEF Lines
      <4>3. CASE line[cfg[p].tag].st \in {"bad", "idle"}
        BY <3>1, <4>3 DEF LineInv
      <4>4. CASE line[cfg[p].tag].st \in {"listening", "up"}
        BY <1>2, <3>1, <4>4 DEF Ctor, Owned
      <4> QED
        BY <4>2, <4>3, <4>4
    <3>5. ASSUME NEW q \in Programs \ mixed, q # p, Running(q) PROVE sock[q].tag # cfg[p].tag
      BY <1>2, <3>1, <3>5 DEF Ctor, CfgInv, Clash, TypeOK, Running
    <3>6. ASSUME NEW q \in Programs \ mixed', Running(q)', (line[Tag(q)].st # "bad")'
          PROVE  /\ (port[Tag(q)] = cfg[q].port)'
                 /\ (line[Tag(q)].user = q => line[Tag(q)].on = cfg[q].port)'
                 /\ (line[Tag(q)].user = q /\ line[Tag(q)].st = "up" => line[Tag(q)].client = q)'
      <4>1. CASE q = p
        BY <1>2, <3>1, <3>2, <3>3, <3>4, <3>6, <4>1 DEF Ctor, TypeOK
      <4>2. CASE q # p
        <5>1. sock'[q] = sock[q] /\ Running(q) /\ q \notin mixed /\ line' = line /\ cfg' = cfg
          BY <1>2, <3>6, <4>2 DEF Ctor, TypeOK, Running
        <5>2. port'[sock[q].tag] = port[sock[q].tag]
          BY <1>2, <3>1, <3>3, <3>5, <4>2, <5>1 DEF Ctor, TypeOK
        <5> QED
          BY <3>6, <5>1, <5>2 DEF PortInv
      <4> QED
        BY <4>1, <4>2
    <3> QED
      BY <3>6 DEF PortInv
  <2> QED
    BY <2>1, <2>2, <2>3, <2>4, <2>5
<1>3. CASE DconnAtStart(p)
  <2>1. TypeOK'
    BY <1>3 DEF DconnAtStart, DconnForced, MsgDisco, Free, TypeOK, ServerPC, Lines, Cfgs
  <2>2. CfgInv'
    BY <1>3 DEF DconnAtStart, DconnForced, MsgDisco, Free, TypeOK, CfgInv, Clash, Running, ServerPC
  <2>3. LineInv' /\ Owned'
    BY <1>3 DEF DconnAtStart, DconnForced, MsgDisco, Free, TypeOK, LineInv, Owned, CfgInv, Running, ServerPC
  <2>4. HeldInv'
    BY <1>3 DEF DconnAtStart, DconnForced, MsgDisco, Free, TypeOK, HeldInv, LineInv, Owned, Holds, CfgInv, Clash, Running, ServerPC
  <2>5. PortInv'
    BY <1>3 DEF DconnAtStart, DconnForced, MsgDisco, Free, TypeOK, PortInv, HeldInv, LineInv, Owned, CfgInv, Clash, Running, ServerPC
  <2> QED
    BY <2>1, <2>2, <2>3, <2>4, <2>5
<1>4. CASE OuterBegins(p)
  <2>1. TypeOK'
    <3>1. CASE p \in DconnFirst /\ connected[p]
      <4>1. DconnForced(p)
        BY <1>4, <3>1 DEF OuterBegins, Dconn2
      <4> QED
        BY <1>4, <4>1, DconnFrees DEF OuterBegins, TypeOK, ServerPC
    <3>2. CASE ~(p \in DconnFirst /\ connected[p])
      BY <1>4, <3>2 DEF OuterBegins, Dconn2, TypeOK, ServerPC
    <3> QED
      BY <3>1, <3>2
  <2>2. CfgInv'
    BY <1>4 DEF OuterBegins, Dconn2, DconnForced, MsgDisco, Free, TypeOK, CfgInv, Clash, Running, ServerPC
  <2>3. LineInv' /\ Owned'
    <3>1. CASE p \in DconnFirst /\ connected[p]
      <4>1. DconnForced(p)
        BY <1>4, <3>1 DEF OuterBegins, Dconn2
      <4>2. /\ \A t \in Tags : t # sock[p].tag => line'[t] = line[t]
            /\ line'[sock[p].tag].st \in {"bad", "idle"} /\ line'[sock[p].tag].user = Uninit
            /\ \A q \in Programs : q # p => connected'[q] = connected[q] /\ pc'[q] = pc[q]
            /\ sock' = sock /\ pc'[p] = "accept"
        BY <1>4, <4>1, DconnFrees DEF OuterBegins, TypeOK
      <4>3. LineInv'
        BY <4>2 DEF TypeOK, LineInv
      <4>4. Owned'
        BY <4>2 DEF TypeOK, Owned, LineInv
      <4> QED
        BY <4>3, <4>4
    <3>2. CASE ~(p \in DconnFirst /\ connected[p])
      BY <1>4, <3>2 DEF OuterBegins, Dconn2, TypeOK, LineInv, Owned, ServerPC
    <3> QED
      BY <3>1, <3>2
  <2>4. HeldInv'
    BY <1>4 DEF OuterBegins, Dconn2, DconnForced, MsgDisco, Free, TypeOK, HeldInv, LineInv, Owned, Holds, CfgInv, Clash, Running, ServerPC
  <2>5. PortInv'
    BY <1>4 DEF OuterBegins, Dconn2, DconnForced, MsgDisco, Free, TypeOK, PortInv, HeldInv, LineInv, Owned, CfgInv, Clash, Running, ServerPC
  <2> QED
    BY <2>1, <2>2, <2>3, <2>4, <2>5
<1>5. CASE AcceptFails(p)
  <2>1. TypeOK'
    BY <1>5 DEF AcceptFails, CannotAccept, TypeOK, ServerPC, Lines, Cfgs
  <2>2. CfgInv'
    BY <1>5 DEF AcceptFails, CannotAccept, TypeOK, CfgInv, Clash, Running, ServerPC
  <2>3. LineInv' /\ Owned'
    <3>1. line[Tag(p)].user # p
      BY <1>5 DEF AcceptFails, TypeOK, LineInv, Owned, Lines
    <3> QED
      BY <1>5, <3>1 DEF AcceptFails, TypeOK, LineInv, Owned
  <2>4. HeldInv'
    BY <1>5 DEF AcceptFails, CannotAccept, TypeOK, HeldInv, LineInv, Owned, Holds, CfgInv, Clash, Running, ServerPC
  <2>5. PortInv'
    BY <1>5 DEF AcceptFails, CannotAccept, TypeOK, PortInv, HeldInv, LineInv, Owned, CfgInv, Clash, Running, ServerPC
  <2> QED
    BY <2>1, <2>2, <2>3, <2>4, <2>5
<1>6. CASE Listen(p)
  <2>1. TypeOK'
    BY <1>6 DEF Listen, CannotAccept, Free, TypeOK, ServerPC, Lines, Cfgs
  <2>2. CfgInv'
    BY <1>6 DEF Listen, CannotAccept, Free, TypeOK, CfgInv, Clash, Running, ServerPC
  <2>3. LineInv' /\ Owned'
    BY <1>6 DEF Listen, CannotAccept, Free, TypeOK, LineInv, Owned, CfgInv, Running, ServerPC
  <2>4. HeldInv'
    BY <1>6 DEF Listen, CannotAccept, Free, TypeOK, HeldInv, LineInv, Owned, Holds, CfgInv, Clash, Running, ServerPC
  <2>5. PortInv'
    BY <1>6 DEF Listen, CannotAccept, Free, TypeOK, PortInv, HeldInv, LineInv, Owned, CfgInv, Clash, Running, ServerPC
  <2> QED
    BY <2>1, <2>2, <2>3, <2>4, <2>5
<1>7. CASE Accepted(p)
  <2>1. TypeOK'
    BY <1>7 DEF Accepted, Holds, TypeOK, ServerPC, Lines, Cfgs
  <2>2. CfgInv'
    BY <1>7 DEF Accepted, Holds, TypeOK, CfgInv, Clash, Running, ServerPC
  <2>3. LineInv' /\ Owned'
    BY <1>7 DEF Accepted, Holds, TypeOK, LineInv, Owned, CfgInv, Running, ServerPC
  <2>4. HeldInv'
    BY <1>7 DEF Accepted, Holds, TypeOK, HeldInv, LineInv, Owned, Holds, CfgInv, Clash, Running, ServerPC
  <2>5. PortInv'
    BY <1>7 DEF Accepted, Holds, TypeOK, PortInv, HeldInv, LineInv, Owned, CfgInv, Clash, Running, ServerPC
  <2> QED
    BY <2>1, <2>2, <2>3, <2>4, <2>5
<1>8. CASE ListenEnds(p)
  <2>1. TypeOK'
    BY <1>8 DEF ListenEnds, TypeOK, ServerPC, Lines, Cfgs
  <2>2. CfgInv'
    BY <1>8 DEF ListenEnds, TypeOK, CfgInv, Clash, Running, ServerPC
  <2>3. LineInv' /\ Owned'
    BY <1>8 DEF ListenEnds, TypeOK, LineInv, Owned, CfgInv, Running, ServerPC
  <2>4. HeldInv'
    BY <1>8 DEF ListenEnds, TypeOK, HeldInv, LineInv, Owned, Holds, CfgInv, Clash, Running, ServerPC
  <2>5. PortInv'
    BY <1>8 DEF ListenEnds, TypeOK, PortInv, HeldInv, LineInv, Owned, CfgInv, Clash, Running, ServerPC
  <2> QED
    BY <2>1, <2>2, <2>3, <2>4, <2>5
<1>9. CASE OpenFile(p)
  <2>1. TypeOK'
    BY <1>9 DEF OpenFile, TypeOK, ServerPC, Lines, Cfgs
  <2>2. CfgInv'
    BY <1>9 DEF OpenFile, TypeOK, CfgInv, Clash, Running, ServerPC
  <2>3. LineInv' /\ Owned'
    <3>1. CASE To(p, "loop")
      BY <1>9, <3>1 DEF OpenFile, TypeOK, LineInv, Owned
    <3>2. CASE To(p, "discon")
      BY <1>9, <3>2 DEF OpenFile, TypeOK, LineInv, Owned
    <3> QED
      BY <1>9, <3>1, <3>2 DEF OpenFile
  <2>4. HeldInv'
    BY <1>9 DEF OpenFile, TypeOK, HeldInv, LineInv, Owned, Holds, CfgInv, Clash, Running, ServerPC
  <2>5. PortInv'
    BY <1>9 DEF OpenFile, TypeOK, PortInv, HeldInv, LineInv, Owned, CfgInv, Clash, Running, ServerPC
  <2> QED
    BY <2>1, <2>2, <2>3, <2>4, <2>5
<1>10. CASE LoopEnds(p)
  <2>1. TypeOK'
    BY <1>10 DEF LoopEnds, Broken, TypeOK, ServerPC, Lines, Cfgs
  <2>2. CfgInv'
    BY <1>10 DEF LoopEnds, Broken, TypeOK, CfgInv, Clash, Running, ServerPC
  <2>3. LineInv' /\ Owned'
    BY <1>10 DEF LoopEnds, Broken, TypeOK, LineInv, Owned, CfgInv, Running, ServerPC
  <2>4. HeldInv'
    BY <1>10 DEF LoopEnds, Broken, TypeOK, HeldInv, LineInv, Owned, Holds, CfgInv, Clash, Running, ServerPC
  <2>5. PortInv'
    BY <1>10 DEF LoopEnds, Broken, TypeOK, PortInv, HeldInv, LineInv, Owned, CfgInv, Clash, Running, ServerPC
  <2> QED
    BY <2>1, <2>2, <2>3, <2>4, <2>5
<1>11. CASE Disconnect(p)
  <2>1. TypeOK'
    <3>1. CASE connected[p]
      <4>1. DconnForced(p)
        BY <1>11, <3>1 DEF Disconnect, Dconn2
      <4> QED
        BY <1>11, <4>1, DconnFrees DEF Disconnect, TypeOK, ServerPC
    <3>2. CASE ~(connected[p])
      BY <1>11, <3>2 DEF Disconnect, Dconn2, TypeOK, ServerPC
    <3> QED
      BY <3>1, <3>2
  <2>2. CfgInv'
    BY <1>11 DEF Disconnect, Dconn2, DconnForced, MsgDisco, Free, TypeOK, CfgInv, Clash, Running, ServerPC
  <2>3. LineInv' /\ Owned'
    <3>1. CASE connected[p]
      <4>1. DconnForced(p)
        BY <1>11, <3>1 DEF Disconnect, Dconn2
      <4>2. /\ \A t \in Tags : t # sock[p].tag => line'[t] = line[t]
            /\ line'[sock[p].tag].st \in {"bad", "idle"} /\ line'[sock[p].tag].user = Uninit
            /\ \A q \in Programs : q # p => connected'[q] = connected[q] /\ pc'[q] = pc[q]
            /\ sock' = sock /\ pc'[p] = "outer"
        BY <1>11, <4>1, DconnFrees DEF Disconnect, TypeOK
      <4>3. LineInv'
        BY <4>2 DEF TypeOK, LineInv
      <4>4. Owned'
        BY <4>2 DEF TypeOK, Owned, LineInv
      <4> QED
        BY <4>3, <4>4
    <3>2. CASE ~(connected[p])
      BY <1>11, <3>2 DEF Disconnect, Dconn2, TypeOK, LineInv, Owned, ServerPC
    <3> QED
      BY <3>1, <3>2
  <2>4. HeldInv'
    BY <1>11 DEF Disconnect, Dconn2, DconnForced, MsgDisco, Free, TypeOK, HeldInv, LineInv, Owned, Holds, CfgInv, Clash, Running, ServerPC
  <2>5. PortInv'
    BY <1>11 DEF Disconnect, Dconn2, DconnForced, MsgDisco, Free, TypeOK, PortInv, HeldInv, LineInv, Owned, CfgInv, Clash, Running, ServerPC
  <2> QED
    BY <2>1, <2>2, <2>3, <2>4, <2>5
<1>12. CASE OuterEnds(p)
  <2>1. TypeOK'
    BY <1>12 DEF OuterEnds, TypeOK, ServerPC, Lines, Cfgs
  <2>2. CfgInv'
    BY <1>12 DEF OuterEnds, TypeOK, CfgInv, Clash, Running, ServerPC
  <2>3. LineInv' /\ Owned'
    BY <1>12 DEF OuterEnds, TypeOK, LineInv, Owned, CfgInv, Running, ServerPC
  <2>4. HeldInv'
    BY <1>12 DEF OuterEnds, TypeOK, HeldInv, LineInv, Owned, Holds, CfgInv, Clash, Running, ServerPC
  <2>5. PortInv'
    BY <1>12 DEF OuterEnds, TypeOK, PortInv, HeldInv, LineInv, Owned, CfgInv, Clash, Running, ServerPC
  <2> QED
    BY <2>1, <2>2, <2>3, <2>4, <2>5
<1>13. CASE Finish(p)
  <2>1. TypeOK'
    BY <1>13 DEF Finish, DconnForced, MsgDisco, Free, TypeOK, ServerPC, Lines, Cfgs
  <2>2. CfgInv'
    BY <1>13 DEF Finish, DconnForced, MsgDisco, Free, TypeOK, CfgInv, Clash, Running, ServerPC
  <2>3. LineInv' /\ Owned'
    BY <1>13 DEF Finish, DconnForced, MsgDisco, Free, TypeOK, LineInv, Owned, CfgInv, Running, ServerPC
  <2>4. HeldInv'
    BY <1>13 DEF Finish, DconnForced, MsgDisco, Free, TypeOK, HeldInv, LineInv, Owned, Holds, CfgInv, Clash, Running, ServerPC
  <2>5. PortInv'
    BY <1>13 DEF Finish, DconnForced, MsgDisco, Free, TypeOK, PortInv, HeldInv, LineInv, Owned, CfgInv, Clash, Running, ServerPC
  <2> QED
    BY <2>1, <2>2, <2>3, <2>4, <2>5
<1>14. CASE AbortHandler(p)
  <2>1. TypeOK'
    BY <1>14 DEF AbortHandler, TypeOK, ServerPC, Lines, Cfgs
  <2>2. CfgInv'
    BY <1>14 DEF AbortHandler, TypeOK, CfgInv, Clash, Running, ServerPC
  <2>3. LineInv' /\ Owned'
    BY <1>14 DEF AbortHandler, TypeOK, LineInv, Owned, CfgInv, Running, ServerPC
  <2>4. HeldInv'
    BY <1>14 DEF AbortHandler, TypeOK, HeldInv, LineInv, Owned, Holds, CfgInv, Clash, Running, ServerPC
  <2>5. PortInv'
    BY <1>14 DEF AbortHandler, TypeOK, PortInv, HeldInv, LineInv, Owned, CfgInv, Clash, Running, ServerPC
  <2> QED
    BY <2>1, <2>2, <2>3, <2>4, <2>5
<1>15. CASE Configure(p)
  <2>1. TypeOK'
    BY <1>15 DEF Configure, NoteClash, TypeOK, ServerPC, Lines, Cfgs
  <2>2. CfgInv'
    BY <1>15 DEF Configure, NoteClash, TypeOK, CfgInv, Clash, Running, ServerPC
  <2>3. LineInv' /\ Owned'
    BY <1>15 DEF Configure, NoteClash, TypeOK, LineInv, Owned, CfgInv, Running, ServerPC
  <2>4. HeldInv'
    BY <1>15 DEF Configure, NoteClash, TypeOK, HeldInv, LineInv, Owned, Holds, CfgInv, Clash, Running, ServerPC
  <2>5. PortInv'
    BY <1>15 DEF Configure, NoteClash, TypeOK, PortInv, HeldInv, LineInv, Owned, CfgInv, Clash, Running, ServerPC
  <2> QED
    BY <2>1, <2>2, <2>3, <2>4, <2>5
<1>16. CASE Dial(p)
  <2>1. TypeOK'
    <3>1. PICK t \in Tags : line' = [line EXCEPT ![t].st = "up", ![t].client = p]
      BY <1>16 DEF Dial
    <3>2. [line[t] EXCEPT !.st = "up", !.client = p] \in Lines
      BY DEF TypeOK, Lines
    <3>3. line' = [line EXCEPT ![t] = [line[t] EXCEPT !.st = "up", !.client = p]]
      BY <3>1 DEF TypeOK, Lines
    <3>4. line' \in [Tags -> Lines]
      BY <3>2, <3>3 DEF TypeOK
    <3> QED
      BY <1>16, <3>4 DEF Dial, TypeOK
  <2>2. CfgInv'
    BY <1>16 DEF Dial, TypeOK, CfgInv, Clash, Running, ServerPC
  <2>3. LineInv' /\ Owned'
    BY <1>16 DEF Dial, TypeOK, LineInv, Owned, CfgInv, Running, ServerPC
  <2>4. HeldInv'
    BY <1>16 DEF Dial, TypeOK, HeldInv, LineInv, Owned, Holds, CfgInv, Clash, Running, ServerPC
  <2>5. PortInv'
    BY <1>16 DEF Dial, TypeOK, PortInv, HeldInv, LineInv, Owned, CfgInv, Clash, Running, ServerPC
  <2> QED
    BY <2>1, <2>2, <2>3, <2>4, <2>5
<1>17. CASE Leave(p)
  <2>1. TypeOK'
    <3>1. PICK t \in Tags : line' = [line EXCEPT ![t].gone = TRUE]
      BY <1>17 DEF Leave
    <3>2. [line[t] EXCEPT !.gone = TRUE] \in Lines
      BY DEF TypeOK, Lines
    <3>3. line' = [line EXCEPT ![t] = [line[t] EXCEPT !.gone = TRUE]]
      BY <3>1 DEF TypeOK, Lines
    <3>4. line' \in [Tags -> Lines]
      BY <3>2, <3>3 DEF TypeOK
    <3> QED
      BY <1>17, <3>4 DEF Leave, TypeOK
  <2>2. CfgInv'
    BY <1>17 DEF Leave, TypeOK, CfgInv, Clash, Running, ServerPC
  <2>3. LineInv' /\ Owned'
    BY <1>17 DEF Leave, TypeOK, LineInv, Owned, CfgInv, Running, ServerPC
  <2>4. HeldInv'
    BY <1>17 DEF Leave, TypeOK, HeldInv, LineInv, Owned, Holds, CfgInv, Clash, Running, ServerPC
  <2>5. PortInv'
    BY <1>17 DEF Leave, TypeOK, PortInv, HeldInv, LineInv, Owned, CfgInv, Clash, Running, ServerPC
  <2> QED
    BY <2>1, <2>2, <2>3, <2>4, <2>5
<1> QED
  BY <1>1, <1>2, <1>3, <1>4, <1>5, <1>6, <1>7, <1>8, <1>9, <1>10, <1>11, <1>12, <1>13, <1>14, <1>15, <1>16, <1>17 DEF Around, Main
-----------------------------------------------------------------------------
LEMMA PubNext == Next => TagStep \/ UNCHANGED tagVars
<1> USE PublisherAssumption DEF TagStep
<1>1. PubStart \/ Outside(Pub) => TagStep
  BY DEF PubStart, Outside, Around
<1>2. PubMain => TagStep \/ UNCHANGED tagVars
  <2>1. SendJoint \/ SendStatus => LoopEnds(Pub) \/ UNCHANGED tagVars
    BY DEF SendJoint, SendStatus, NextIteration
  <2> QED
    BY <2>1 DEF PubMain, Around, Sample, PubLoopEnds
<1>3. (\E p \in Programs \ {Pub} : Others(p)) => TagStep
  BY DEF Others
<1>4. EnvChange => UNCHANGED tagVars
  BY DEF EnvChange
<1> QED
  BY <1>1, <1>2, <1>3, <1>4 DEF Next

LEMMA TagInvHolds == Spec => []TagInv
<1>1. PubInit => TagInv
  BY TagInit DEF PubInit
<1>2. TagInv /\ [Next]_vars => TagInv'
  <2> SUFFICES ASSUME TagInv, [Next]_vars PROVE TagInv'
    OBVIOUS
  <2>1. CASE TagStep
    BY <2>1, TagStepInv DEF TagStep
  <2>2. CASE UNCHANGED tagVars
    BY <2>2 DEF tagVars, TagInv, TypeOK, CfgInv, LineInv, Owned, HeldInv, PortInv, Running, Clash,
       Tag, Holds
  <2> QED
    BY <2>1, <2>2, PubNext DEF vars
<1> QED
  BY <1>1, <1>2, PTL DEF Spec

\* The connection of a program that shares neither its tag nor its port is there
\* as long as the program uses it, and the client on it is its own node.
THEOREM ConnectionsUndisturbed == Spec => []Undisturbed
<1>1. TagInv => Undisturbed
  <2> SUFFICES ASSUME TagInv, NEW p \in Programs \ mixed, pc[p] \in {"ofd", "loop"}
               PROVE  Holds(p) /\ line[Tag(p)].client = p
    BY DEF Undisturbed
  <2>1. Holds(p) /\ Running(p)
    BY DEF TagInv, HeldInv, Running
  <2> QED
    BY <2>1 DEF TagInv, PortInv, Holds
<1> QED
  BY <1>1, TagInvHolds, PTL

\* No connection is left behind without a program that knows of it.
THEOREM ConnectionsOwned == Spec => []Owned
<1>1. TagInv => Owned
  BY DEF TagInv
<1> QED
  BY <1>1, TagInvHolds, PTL
-----------------------------------------------------------------------------
\* The divider counts joint packets within one connection only, and outside the
\* inner loop no update is under way.
CountInv ==
  /\ step # 0 \/ joints # 0 => InLoop
  /\ joints <= IF step = 0 THEN count ELSE count + 1

PubInv == PubTypeOK /\ CountInv

\* Steps of the tags alone do not end the inner loop of the publisher.
LEMMA LoopStays ==
  ASSUME TypeOK, InLoop, \/ \E p \in Programs \ {Pub} : Others(p)
                        \/ Main(Pub) \/ Outside(Pub)
  PROVE  InLoop'
  BY PublisherAssumption
  DEF TypeOK, InLoop, Others, Outside, Around, Main, At, To, Start, Ctor, DconnAtStart, OuterBegins,
      AcceptFails, Listen, Accepted, ListenEnds, OpenFile, LoopEnds, Disconnect, OuterEnds, Finish,
      AbortHandler, Configure, Dial, Leave

LEMMA NineReads == Done = 10
  BY DEF Done, Reads

LEMMA PubInvHolds == Spec => []PubInv
<1> USE PublisherAssumption
<1>1. PubInit => PubInv
  <2>1. PubInit => PubTypeOK
    <3>1. PubInit => TypeOK
      BY TagInit DEF PubInit, TagInv
    <3>2. PubInit => step \in 0..Done /\ env \in SUBSET Signals /\ rs \in SUBSET Signals
      BY NineReads DEF PubInit
    <3>3. PubInit => /\ count \in 0..SloopDiv /\ joints \in 0..(SloopDiv + 1)
                     /\ changes \in 0..MaxChanges
      BY DEF PubInit
    <3>4. PubInit => blocked \in SUBSET Signals
      BY DEF PubInit
    <3> QED
      BY <3>1, <3>2, <3>3, <3>4 DEF PubTypeOK
  <2> QED
    BY <2>1 DEF PubInit, PubInv, CountInv
<1>2. PubInv /\ TypeOK' /\ [Next]_vars => PubInv'
  <2> SUFFICES ASSUME PubInv, TypeOK', [Next]_vars PROVE PubInv'
    OBVIOUS
  <2> USE NineReads DEF PubInv, PubTypeOK, CountInv
  <2>1. CASE SendJoint
    <3>1. CASE StatusDue
      <4>1. env' \in SUBSET Signals /\ blocked' \in SUBSET Signals
        BY <2>1, <3>1 DEF SendJoint, Blocks, Signals
      <4>2. InLoop'
        BY <2>1, <3>1 DEF SendJoint, InLoop, At, tagVars
      <4> QED
        BY <2>1, <3>1, <4>1, <4>2 DEF SendJoint, StatusDue
    <3>2. CASE ~StatusDue
      <4>1. shut[Pub] \/ InLoop'
        BY <2>1, <3>2 DEF SendJoint, NextIteration, InLoop, At, tagVars
      <4> QED
        BY <2>1, <3>2, <4>1 DEF SendJoint, StatusDue
    <3> QED
      BY <3>1, <3>2
  <2>2. CASE Sample
    <3>1. rs' \in SUBSET Signals
      BY <2>2 DEF Sample
    <3> QED
      BY <2>2, <3>1 DEF Sample, InLoop, At, tagVars
  <2>3. CASE SendStatus
    <3>1. env' \in SUBSET Signals /\ rs' \in SUBSET Signals /\ blocked' \in SUBSET Signals
      BY <2>3 DEF SendStatus, EndUpdate
    <3> QED
      BY <2>3, <3>1 DEF SendStatus, EndUpdate
  <2>4. CASE PubLoopEnds
    <3>1. env' \in SUBSET Signals /\ rs' \in SUBSET Signals /\ blocked' \in SUBSET Signals
      BY <2>4 DEF PubLoopEnds, EndUpdate
    <3> QED
      BY <2>4, <3>1 DEF PubLoopEnds, EndUpdate
  <2>5. CASE PubStart
    <3>1. ~InLoop
      BY <2>5 DEF PubStart, Start, InLoop, At
    <3> QED
      BY <2>5, <3>1 DEF PubStart
  <2>6. CASE EnvChange
    <3>1. env' \in SUBSET Signals /\ blocked' \in SUBSET Signals
      BY <2>6 DEF EnvChange
    <3>2. InLoop' <=> InLoop
      BY <2>6 DEF EnvChange, InLoop, At, tagVars
    <3> QED
      BY <2>6, <3>1, <3>2 DEF EnvChange
  <2>7. CASE \/ \E p \in Programs \ {Pub} : Others(p)
             \/ Main(Pub) /\ UNCHANGED pubVars
             \/ Outside(Pub)
    <3>1. InLoop => InLoop'
      BY <2>7, LoopStays
    <3> QED
      BY <2>7, <3>1 DEF pubVars, Others, Outside
  <2>8. CASE UNCHANGED vars
    BY <2>8 DEF vars, pubVars, tagVars, InLoop, At
  <2> QED
    BY <2>1, <2>2, <2>3, <2>4, <2>5, <2>6, <2>7, <2>8 DEF Next, PubMain
<1>3. TagInv => TypeOK
  BY DEF TagInv
<1> QED
  BY <1>1, <1>2, <1>3, TagInvHolds, PTL DEF Spec

\* Every variable has its type, whatever the programs, tags and ports.
THEOREM TypeCorrect == Spec => []PubTypeOK
<1>1. PubInv => PubTypeOK
  BY DEF PubInv
<1> QED
  BY <1>1, PubInvHolds, PTL

\* For every divider, a status packet comes after SloopDiv + 1 joint packets at
\* the latest, on every connection.
THEOREM StatusInTime == Spec => []StatusOnTime
<1>1. PubInv => StatusOnTime
  BY PublisherAssumption DEF PubInv, PubTypeOK, CountInv, StatusOnTime
<1> QED
  BY <1>1, PubInvHolds, PTL
-----------------------------------------------------------------------------
(***************************************************************************)
(* irs_update.  What has stood since it began was there when the signals it *)
(* shows in were read, whenever that was.                                   *)
(***************************************************************************)

\* What is in `blocked` still keeps the robot from moving, and is in what has been
\* read so far: the j-th signal is, once `step` is past j.
Seen ==
  /\ "fault" \in blocked /\ step > 3 => "fault" \in rs
  /\ "servo" \in blocked /\ step > 4 => "servo" \notin rs
  /\ "hold"  \in blocked /\ step > 5 => "hold" \in rs
  /\ "relay" \in blocked /\ step > 8 => "relay" \notin rs
  /\ "ros"   \in blocked /\ step > 9 => "ros" \notin rs

SeenInTeachMode ==
  /\ blocked \cap {"deadman", "shift"} # {} =>
       /\ step > 1 => "auto" \notin rs
       /\ step > 6 => "tp" \in rs
  /\ "deadman" \in blocked /\ step > 2 => "deadman" \in rs
  /\ "shift"   \in blocked /\ step > 7 => "shift" \notin rs

\* ... and nothing has been read that its turn has not come for.
Unread == \A i \in 1..9 : step <= i => Reads[i] \notin rs

UpdateInv ==
  step \in 1..Done => blocked \subseteq Blocks(env) /\ Seen /\ SeenInTeachMode /\ Unread

\* The signals are nine different ones.
LEMMA ReadsByName ==
  /\ Reads[1] = "auto" /\ Reads[2] = "deadman" /\ Reads[3] = "fault" /\ Reads[4] = "servo"
  /\ Reads[5] = "hold" /\ Reads[6] = "tp" /\ Reads[7] = "shift" /\ Reads[8] = "relay"
  /\ Reads[9] = "ros"
  BY DEF Reads

\* A due status packet starts an update.
Begins ==
  /\ step = 0 /\ step' = 1 /\ blocked' = Blocks(env')
  /\ UNCHANGED <<rs, changes>>

LEMMA UpdateSteps ==
  [Next]_vars => \/ UNCHANGED <<step, env, rs, blocked>>
                 \/ Begins \/ Sample \/ EndUpdate \/ EnvChange
<1>1. SendJoint => Begins \/ UNCHANGED <<step, env, rs, blocked>>
  BY DEF SendJoint, Begins
<1>2. SendStatus \/ PubLoopEnds => EndUpdate
  BY DEF SendStatus, PubLoopEnds
<1>3. ASSUME \/ PubStart
             \/ Main(Pub) /\ UNCHANGED pubVars
             \/ Outside(Pub)
             \/ \E p \in Programs \ {Pub} : Others(p)
             \/ UNCHANGED vars
      PROVE  UNCHANGED <<step, env, rs, blocked>>
  BY <1>3 DEF PubStart, Outside, Others, pubVars, vars
<1> QED
  BY <1>1, <1>2, <1>3 DEF Next, PubMain

\* Between two updates nothing has been read.
IdleInv == step = 0 => rs = {}

LEMMA UpdateInvStep ==
  ASSUME PubInv, IdleInv, UpdateInv, [Next]_vars
  PROVE  IdleInv' /\ UpdateInv'
<1> USE NineReads
<1>t. step \in 0..10
  BY DEF PubInv, PubTypeOK
<1>1. CASE UNCHANGED <<step, env, rs, blocked>>
  BY <1>1 DEF UpdateInv, IdleInv, Blocks, Seen, SeenInTeachMode, Unread
<1>2. CASE Begins
  BY <1>2 DEF Begins, IdleInv, UpdateInv, Seen, SeenInTeachMode, Unread
<1>3. CASE Sample
  <2>1. /\ step \in 1..9 /\ step' = step + 1 /\ env' = env /\ blocked' = blocked
        /\ rs' = rs \cup (env \cap {Reads[step]})
        /\ blocked \subseteq Blocks(env) /\ Seen /\ SeenInTeachMode /\ Unread
    BY <1>3 DEF Sample, UpdateInv
  \* What blocks shows in the signals as they are ...
  <2>2. /\ "fault" \in blocked => "fault" \in env
        /\ "hold" \in blocked => "hold" \in env
        /\ "servo" \in blocked => "servo" \notin env
        /\ "relay" \in blocked => "relay" \notin env
        /\ "ros" \in blocked => "ros" \notin env
        /\ "deadman" \in blocked => "deadman" \in env
        /\ "shift" \in blocked => "shift" \notin env
        /\ blocked \cap {"deadman", "shift"} # {} => "auto" \notin env /\ "tp" \in env
    BY <2>1 DEF Blocks
  \* ... and the signal that is read is as it is, the others stay as they were read.
  <2>3. ASSUME NEW i \in 1..9
        PROVE  Reads[i] \in rs' <=> IF i = step THEN Reads[i] \in env ELSE Reads[i] \in rs
    <3>1. i # step => Reads[i] # Reads[step]
      BY <2>1, ReadsByName
    <3>2. i = step => Reads[i] \notin rs
      BY <2>1 DEF Unread
    <3> QED
      BY <2>1, <3>1, <3>2
  <2>4. Unread'
    BY <2>1, <2>3 DEF Unread
  <2>5. Seen'
    <3>1. /\ "fault" \in rs' <=> IF 3 = step THEN "fault" \in env ELSE "fault" \in rs
          /\ "servo" \in rs' <=> IF 4 = step THEN "servo" \in env ELSE "servo" \in rs
          /\ "hold" \in rs' <=> IF 5 = step THEN "hold" \in env ELSE "hold" \in rs
          /\ "relay" \in rs' <=> IF 8 = step THEN "relay" \in env ELSE "relay" \in rs
          /\ "ros" \in rs' <=> IF 9 = step THEN "ros" \in env ELSE "ros" \in rs
      BY <2>3, ReadsByName
    <3> QED
      BY <2>1, <2>2, <3>1 DEF Seen
  <2>6. SeenInTeachMode'
    <3>1. /\ "auto" \in rs' <=> IF 1 = step THEN "auto" \in env ELSE "auto" \in rs
          /\ "deadman" \in rs' <=> IF 2 = step THEN "deadman" \in env ELSE "deadman" \in rs
          /\ "tp" \in rs' <=> IF 6 = step THEN "tp" \in env ELSE "tp" \in rs
          /\ "shift" \in rs' <=> IF 7 = step THEN "shift" \in env ELSE "shift" \in rs
      BY <2>3, ReadsByName
    <3> QED
      BY <2>1, <2>2, <3>1 DEF SeenInTeachMode
  <2>7. blocked' \subseteq Blocks(env')
    BY <2>1
  <2> QED
    BY <2>1, <2>4, <2>5, <2>6, <2>7 DEF UpdateInv, IdleInv
<1>4. CASE EndUpdate
  BY <1>4 DEF EndUpdate, UpdateInv, IdleInv
<1>5. CASE EnvChange
  <2>1. /\ step \in 1..9 /\ UNCHANGED <<step, rs>> /\ blocked' \subseteq blocked
        /\ blocked' \subseteq Blocks(env')
    BY <1>5 DEF EnvChange
  <2> QED
    BY <2>1 DEF UpdateInv, IdleInv, Seen, SeenInTeachMode, Unread
<1> QED
  BY <1>1, <1>2, <1>3, <1>4, <1>5, UpdateSteps

\* Whatever changes how often while irs_update reads: what has kept the robot from
\* moving all the time is in the packet, and motion is not called possible.
THEOREM StandingBlocksReported == Spec => []BlockedIsReported
<1>1. PubInit => IdleInv /\ UpdateInv
  BY NineReads DEF PubInit, UpdateInv, IdleInv
<1>2. PubInv /\ IdleInv /\ UpdateInv /\ [Next]_vars => IdleInv' /\ UpdateInv'
  BY UpdateInvStep
<1>3. PubInv /\ UpdateInv => BlockedIsReported
  <2> SUFFICES ASSUME PubInv, UpdateInv, step = Done, blocked # {}
               PROVE  ~MotionPossible(rs)
    BY DEF BlockedIsReported
  <2>1. step = 10 /\ Seen /\ SeenInTeachMode /\ blocked \subseteq Blocks(env)
    BY NineReads DEF UpdateInv
  <2>2. PICK b \in blocked : TRUE
    OBVIOUS
  <2>3. b \in {"fault", "servo", "hold", "relay", "ros", "deadman", "shift"}
    BY <2>1 DEF Blocks
  <2>4. CASE b \in {"fault", "servo", "hold", "relay", "ros"}
    BY <2>1, <2>4 DEF Seen, MotionPossible
  <2>5. CASE b \in {"deadman", "shift"}
    BY <2>1, <2>5 DEF SeenInTeachMode, MotionPossible
  <2> QED
    BY <2>3, <2>4, <2>5
<1> QED
  BY <1>1, <1>2, <1>3, PubInvHolds, PTL DEF Spec
=============================================================================
