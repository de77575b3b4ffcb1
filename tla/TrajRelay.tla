------------------------------ MODULE TrajRelay ------------------------------
(***************************************************************************)
(* The trajectory path: a ROS client streams joint points over one TCP     *)
(* connection to karel/ros_relay.kl, whose main loop acknowledges each     *)
(* packet, hands its point to the motion program through the handshake of  *)
(* MoveHandshake, and goes back to its socket.                             *)
(*                                                                         *)
(* The relay's program counter is `main`; while it is "exec" the relay is  *)
(* inside exec_move_, which is MoveHandshake's rpc.  The server socket is  *)
(* libssock's: `connected` is ssock_t.connected_, `tag` the state of the   *)
(* controller's server tag.  The abort handler runs between any two        *)
(* statements.  The client is industrial_robot_client's joint trajectory   *)
(* streamer, which is not in this repository: it keeps one request         *)
(* outstanding, takes any reply as the answer to it, and sends the same    *)
(* point again when the connection was lost before a reply.                *)
(*                                                                         *)
(* Points are numbered in the order in which the client sends them.        *)
(***************************************************************************)
EXTENDS Naturals, Sequences, FiniteSets

CONSTANTS
  NPts,         \* length of the trajectory
  Reachable,    \* points for which J_IN_RANGE holds
  MaxDrops,     \* how often the client loses its connection
  MaxStops,     \* how often it asks for a stop
  MovesmAborts  \* may the operator abort and re-run the motion program?

ASSUME TrajAssumption ==
  /\ NPts \in Nat
  /\ Reachable \subseteq 1..NPts
  /\ MaxDrops \in Nat /\ MaxStops \in Nat
  /\ MovesmAborts \in BOOLEAN

Points  == 1..NPts
NoPoint == 0

VARIABLES
  rpc, pkt, result, mpc, rdy, drdy, pr1, pr2, spd, cnt, motion,  \* MoveHandshake
  main,       \* program counter of the relay's main program
  cur,        \* pkt_in_: the packet read last
  shut,       \* shutdwn_req_
  ahOn,       \* the ABORT condition handler is enabled
  abortReq,   \* an ABORT was posted and the handler has not run yet
  connected,  \* sock_.connected_
  tag,        \* the server tag: "bad" is one that is not STARTED
  c2r, r2c,   \* bytes in flight, as whole packets
  near,       \* of the first packet in c2r only 56 bytes have arrived so far
  cup,        \* the client's end of its connection is open
  next,       \* the client's next point
  await,      \* what the client waits a reply for
  drops, stops,
  last,       \* history: the point of the motion started last
  refused,    \* history: the points exec_move_ did not return 0 for
  aborted     \* history: the motion program was aborted, now or before the start

H == INSTANCE MoveHandshake

hvars      == <<rpc, pkt, result, mpc, rdy, drdy, pr1, pr2, spd, cnt, motion>>
sockVars   == <<connected, tag>>
clientVars == <<cup, next, await, drops, stops>>
chanVars   == <<c2r, near, r2c>>
relayVars  == <<main, cur, shut, ahOn, abortReq>>
histVars   == <<last, refused, aborted>>
vars == <<hvars, relayVars, sockVars, chanVars, clientVars, histVars>>

Kinds    == {"point", "stop", "special"}
Packets  == [kind: Kinds, pt: Points \cup {NoPoint}]
Replies  == [pt: Points \cup {NoPoint}, type: {"succ", "fail"}]
MainPC   == {"off", "ctor", "dconnf", "outer", "connecting", "ofd", "loop",
             "poll", "reading", "handle", "reply", "exec", "nack", "discon", "finish"}

TypeOK ==
  /\ H!TypeOK
  /\ main \in MainPC /\ cur \in Packets
  /\ shut \in BOOLEAN /\ ahOn \in BOOLEAN /\ abortReq \in BOOLEAN
  /\ connected \in BOOLEAN /\ tag \in {"bad", "idle", "listening", "up"}
  /\ c2r \in Seq(Packets) /\ Len(c2r) <= 3
  /\ near \in BOOLEAN /\ (near => c2r # <<>>)
  /\ r2c \in Seq(Replies) /\ Len(r2c) <= 2
  /\ cup \in BOOLEAN /\ next \in 1..(NPts + 1)
  /\ await \in {"none", "point", "stop"}
  /\ drops \in 0..MaxDrops /\ stops \in 0..MaxStops
  /\ last \in Points \cup {NoPoint} /\ refused \subseteq Points /\ aborted \in BOOLEAN
-----------------------------------------------------------------------------
At(l) == main = l
To(l) == main' = l

(* Wrong variants of some of the definitions below, each a mistake this code  *)
(* could contain.  No specification uses them: they show which property       *)
(* notices the mistake.                                                       *)

\* ssock_dconn2 forgets MSG_DISCO.
Dconn2FileOnly == connected' = FALSE /\ UNCHANGED <<tag, chanVars>>

\* ssock_dconn2 forgets connected_.
Dconn2StaysConnected ==
  /\ tag' = "idle" /\ c2r' = <<>> /\ near' = FALSE /\ r2c' = <<>>
  /\ UNCHANGED connected


\* The abort handler forgets CANCEL FILE.
AbortHandlerNoCancel ==
  /\ ahOn /\ abortReq
  /\ abortReq' = FALSE /\ shut' = TRUE /\ ahOn' = FALSE
  /\ UNCHANGED <<hvars, main, cur, sockVars, chanVars, clientVars, histVars>>

\* A STOP is not acknowledged.
HandleStopSilently ==
  /\ At("handle") /\ To("loop")
  /\ cur.kind = "stop"
  /\ H!Finish22 \/ (mpc # "moving22" /\ UNCHANGED hvars)
  /\ UNCHANGED <<cur, shut, ahOn, abortReq, sockVars, chanVars, clientVars, histVars>>

\* A packet stays in the buffer it was read from.
ReadPacketStays ==
  /\ main \in {"poll", "reading"} /\ To("handle")
  /\ c2r # <<>> /\ ~near
  /\ cur' = Head(c2r)
  /\ UNCHANGED <<hvars, shut, ahOn, abortReq, sockVars, chanVars, clientVars, histVars>>

\* A NACK leaves the connection open.
AfterNackStays(stat) == "loop"

\* A NACK that was written is written again.
AfterNackRepeats(stat) == IF stat = "ok" THEN "nack" ELSE "discon"
-----------------------------------------------------------------------------
(* libssock, as far as the relay uses it *)

\* MSG_DISCO closes the tag's connection, if any.  What the relay had not read
\* is gone; then TCP resets the connection, and replies on their way may be
\* lost too.
MsgDisco ==
  /\ tag' = IF tag = "bad" THEN "bad" ELSE "idle"
  /\ c2r' = <<>> /\ near' = FALSE
  /\ r2c' \in {r2c} \cup (IF c2r = <<>> THEN {} ELSE {<<>>})

\* ssock_dconnf: MSG_DISCO whatever connected_ says.
DconnForced == MsgDisco /\ connected' = FALSE

\* ssock_dconn2: nothing unless connected_, then CLOSE FILE and MSG_DISCO.
Dconn2 ==
  IF connected THEN MsgDisco /\ connected' = FALSE
               ELSE UNCHANGED <<connected, tag, chanVars>>
-----------------------------------------------------------------------------
(* ros_relay: start and connection *)

\* The configuration is accepted; the ABORT handler is installed.
StartRelay ==
  /\ At("off") /\ To("ctor")
  /\ shut' = FALSE
  /\ ahOn' = TRUE
  /\ UNCHANGED <<hvars, cur, abortReq, sockVars, chanVars, clientVars, histVars>>

\* ssock_ctor fails when the tag is not STARTED.  POST_ERR asks for an abort,
\* which the handler turns into a shutdown request; the program goes on.
Ctor ==
  /\ At("ctor") /\ To("dconnf")
  /\ connected' = FALSE
  /\ abortReq' = (abortReq \/ tag = "bad")
  /\ UNCHANGED <<hvars, cur, shut, ahOn, tag, chanVars, clientVars, histVars>>

DconnAtStart ==
  /\ At("dconnf") /\ To("outer")
  /\ DconnForced
  /\ UNCHANGED <<hvars, cur, shut, ahOn, abortReq, clientVars, histVars>>

\* ssock_accept: refused when connected_; MSG_CONNECT fails on a tag that is
\* not STARTED or still has its connection.
CannotAccept == connected \/ tag \in {"bad", "up"}

AcceptFails ==
  /\ At("outer") /\ ~shut
  /\ CannotAccept
  /\ To("discon")
  /\ UNCHANGED <<hvars, cur, shut, ahOn, abortReq, sockVars, chanVars, clientVars, histVars>>

\* Otherwise MSG_CONNECT listens, and returns only when a client connects.
Listen ==
  /\ At("outer") /\ ~shut
  /\ ~CannotAccept
  /\ tag' = "listening"
  /\ To("connecting")
  /\ UNCHANGED <<hvars, cur, shut, ahOn, abortReq, connected, chanVars, clientVars, histVars>>

Accepted ==
  /\ At("connecting") /\ To("ofd")
  /\ tag = "up"
  /\ connected' = TRUE
  /\ UNCHANGED <<hvars, cur, shut, ahOn, abortReq, tag, chanVars, clientVars, histVars>>

\* ssock_ofd: OPEN FILE may fail; connected_ stays TRUE.
OpenFile ==
  /\ At("ofd")
  /\ To("loop") \/ To("discon")
  /\ UNCHANGED <<hvars, cur, shut, ahOn, abortReq, sockVars, chanVars, clientVars, histVars>>
-----------------------------------------------------------------------------
(* ros_relay: the relay loop *)

\* The one test of shutdwn_req_ in an iteration; what follows it tests nothing.
LoopTest ==
  /\ At("loop")
  /\ To(IF shut THEN "discon" ELSE "poll")
  /\ UNCHANGED <<hvars, cur, shut, ahOn, abortReq, sockVars, chanVars, clientVars, histVars>>

\* BYTES_AHEAD may report a connection the client has closed.
PollFails ==
  /\ At("poll") /\ To("discon")
  /\ ~cup
  /\ UNCHANGED <<hvars, cur, shut, ahOn, abortReq, sockVars, chanVars, clientVars, histVars>>

PollNothing ==
  /\ At("poll") /\ To("loop")
  /\ c2r = <<>>
  /\ UNCHANGED <<hvars, cur, shut, ahOn, abortReq, sockVars, chanVars, clientVars, histVars>>

\* RI_SZ_HDR + RI_SZB_JPOS is 56, a joint position packet has 60 bytes and a
\* trajectory point 68: the READs are begun with the last ones missing, and one
\* of them waits, for as long as they do not come.
ReadWaits ==
  /\ At("poll") /\ To("reading")
  /\ near
  /\ UNCHANGED <<hvars, cur, shut, ahOn, abortReq, sockVars, chanVars, clientVars, histVars>>

\* All of the packet is there.  Of the one behind it, again, not all need be.
ReadPacket ==
  /\ main \in {"poll", "reading"} /\ To("handle")
  /\ c2r # <<>> /\ ~near
  /\ cur' = Head(c2r)
  /\ c2r' = Tail(c2r)
  /\ near' \in (IF Tail(c2r) = <<>> THEN {FALSE} ELSE BOOLEAN)
  /\ UNCHANGED <<hvars, shut, ahOn, abortReq, sockVars, r2c, clientVars, histVars>>

\* The READ that waits ends when the client closes the connection.
ReadFails ==
  /\ At("reading") /\ To("discon")
  /\ ~cup
  /\ UNCHANGED <<hvars, cur, shut, ahOn, abortReq, sockVars, chanVars, clientVars, histVars>>

\* Negative sequence numbers other than RI_SEQ_STPRJ are only logged.
HandleSpecial ==
  /\ At("handle") /\ To("loop")
  /\ cur.kind = "special"
  /\ UNCHANGED <<hvars, cur, shut, ahOn, abortReq, sockVars, chanVars, clientVars, histVars>>

\* RI_SEQ_STPRJ: CANCEL ends the motion in progress, if there is one.
HandleStop ==
  /\ At("handle") /\ To("reply")
  /\ cur.kind = "stop"
  /\ H!Finish22 \/ (mpc # "moving22" /\ UNCHANGED hvars)
  /\ UNCHANGED <<cur, shut, ahOn, abortReq, sockVars, chanVars, clientVars, histVars>>

HandlePoint ==
  /\ At("handle") /\ To("reply")
  /\ cur.kind = "point"
  /\ UNCHANGED <<hvars, cur, shut, ahOn, abortReq, sockVars, chanVars, clientVars, histVars>>

\* A packet written while the client is there reaches it; one written to a
\* connection the client has closed is lost.  ipkt_srlise is 15 WRITEs: when a
\* later one fails, so does the reply, of which the client never gets the rest.
Write(r) == r2c' = IF cup THEN Append(r2c, r) ELSE r2c

\* req_next_: acknowledge, before the point is executed.
Reply ==
  /\ At("reply")
  /\ Write([pt |-> cur.pt, type |-> "succ"])
  /\ UNCHANGED <<c2r, near>>
  /\ IF cur.kind = "point" THEN H!Call(cur.pt) /\ To("exec")
                           ELSE To("loop") /\ UNCHANGED hvars
  /\ UNCHANGED <<cur, shut, ahOn, abortReq, sockVars, clientVars, histVars>>

ReplyFails ==
  /\ At("reply") /\ To("discon")
  /\ ~cup
  /\ UNCHANGED <<hvars, cur, shut, ahOn, abortReq, sockVars, chanVars, clientVars, histVars>>

\* exec_move_ has returned.
Executed ==
  /\ At("exec")
  /\ rpc = "idle"
  /\ IF result = "ok" THEN To("loop") /\ UNCHANGED refused
                      ELSE To("nack") /\ refused' = refused \cup {pkt}
  /\ UNCHANGED <<hvars, cur, shut, ahOn, abortReq, sockVars, chanVars, clientVars, last, aborted>>

\* send_err_ overwrites stat_, which held exec_move_'s status, before stat_ is
\* compared with MOVERR_OOR: 0 or a negated I/O error, never MOVERR_OOR.
AfterNack(stat) == IF stat # "oor" THEN "discon" ELSE "loop"

Nack ==
  /\ At("nack")
  /\ \/ Write([pt |-> cur.pt, type |-> "fail"]) /\ To(AfterNack("ok"))
     \/ ~cup /\ UNCHANGED r2c /\ To(AfterNack("io"))
  /\ UNCHANGED <<hvars, cur, shut, ahOn, abortReq, sockVars, c2r, near, clientVars, histVars>>

Disconnect ==
  /\ At("discon") /\ To("outer")
  /\ Dconn2
  /\ UNCHANGED <<hvars, cur, shut, ahOn, abortReq, clientVars, histVars>>

\* The outer loop ends; the handler is purged.
OuterEnds ==
  /\ At("outer") /\ To("finish")
  /\ shut
  /\ UNCHANGED <<hvars, cur, shut, ahOn, abortReq, sockVars, chanVars, clientVars, histVars>>

FinishRelay ==
  /\ At("finish") /\ To("off")
  /\ DconnForced
  /\ ahOn' = FALSE
  /\ abortReq' = FALSE
  /\ UNCHANGED <<hvars, cur, shut, clientVars, histVars>>
-----------------------------------------------------------------------------
(* The operator and the abort handler *)

Abort ==
  /\ ahOn /\ ~abortReq
  /\ abortReq' = TRUE
  /\ UNCHANGED <<hvars, main, cur, shut, ahOn, sockVars, chanVars, clientVars, histVars>>

\* CANCEL FILE ends the I/O the program is in.  It finds a READ that waits; a
\* call that does not wait it may or may not find, and of one that begins later
\* it knows nothing.
Cancelled ==
  CASE main = "reading" -> {"discon"}
    [] main \in {"poll", "reply"} -> {main, "discon"}
    [] main = "nack" -> {main, AfterNack("io")}
    [] OTHER -> {main}

\* NOABORT, ab_hndlr_: request the shutdown and CANCEL FILE.  A condition
\* handler that fired is disabled, and nothing enables this one again.
AbortHandler ==
  /\ ahOn /\ abortReq
  /\ abortReq' = FALSE
  /\ shut' = TRUE
  /\ ahOn' = FALSE
  /\ main' \in Cancelled
  /\ UNCHANGED <<hvars, cur, sockVars, chanVars, clientVars, histVars>>

\* exec_move_, the motion program and, in some runs, its abort.
ExecStep ==
  /\ H!Relay
  /\ UNCHANGED <<relayVars, sockVars, chanVars, clientVars, histVars>>

MovesmStep ==
  /\ H!Movesm
  /\ last' = IF motion' # NoPoint THEN motion' ELSE last
  /\ UNCHANGED <<relayVars, sockVars, chanVars, clientVars, refused, aborted>>

MovesmAbortStep ==
  /\ MovesmAborts
  /\ H!AbortMovesm \/ H!RunMovesm
  /\ aborted' = TRUE
  /\ UNCHANGED <<relayVars, sockVars, chanVars, clientVars, last, refused>>
-----------------------------------------------------------------------------
(* The client (external) *)

Connect ==
  /\ ~cup /\ tag = "listening"
  /\ cup' = TRUE
  /\ tag' = "up"
  /\ c2r' = <<>> /\ near' = FALSE /\ r2c' = <<>>
  /\ UNCHANGED <<hvars, relayVars, connected, next, await, drops, stops, histVars>>

\* What is sent after the controller closed the connection reaches nobody.
Send(m) ==
  IF tag = "up" THEN /\ c2r' = Append(c2r, m)
                     /\ near' \in (IF c2r = <<>> THEN BOOLEAN ELSE {near})
                ELSE UNCHANGED <<c2r, near>>

\* The bytes that were missing arrive; nothing says that they ever do.
Arrive ==
  /\ near
  /\ near' = FALSE
  /\ UNCHANGED <<hvars, relayVars, sockVars, c2r, r2c, clientVars, histVars>>

SendPoint ==
  /\ cup /\ await = "none" /\ next <= NPts
  /\ Send([kind |-> "point", pt |-> next])
  /\ await' = "point"
  /\ UNCHANGED <<hvars, relayVars, sockVars, r2c, cup, next, drops, stops, histVars>>

SendStop ==
  /\ cup /\ await = "none" /\ stops < MaxStops
  /\ Send([kind |-> "stop", pt |-> NoPoint])
  /\ await' = "stop"
  /\ stops' = stops + 1
  /\ UNCHANGED <<hvars, relayVars, sockVars, r2c, cup, next, drops, histVars>>

\* A special sequence number gets no reply, and the client waits for none.
SendSpecial ==
  /\ cup /\ await = "none" /\ stops < MaxStops
  /\ Len(c2r) = 0
  /\ Send([kind |-> "special", pt |-> NoPoint])
  /\ stops' = stops + 1
  /\ UNCHANGED <<hvars, relayVars, sockVars, r2c, cup, next, await, drops, histVars>>

Receive ==
  /\ cup /\ await # "none"
  /\ r2c # <<>>
  /\ r2c' = Tail(r2c)
  /\ await' = "none"
  /\ next' = IF await = "point" THEN next + 1 ELSE next
  /\ UNCHANGED <<hvars, relayVars, sockVars, c2r, near, cup, drops, stops, histVars>>

CloseClient == cup' = FALSE /\ await' = "none" /\ r2c' = <<>>

\* The client learns that the controller closed the connection, after it has
\* read what was still on its way.
SeeEof ==
  /\ cup /\ tag # "up"
  /\ r2c = <<>> \/ await = "none"
  /\ CloseClient
  /\ UNCHANGED <<hvars, relayVars, sockVars, c2r, near, next, drops, stops, histVars>>

\* The connection is lost or closed on the client's side; what it sent last
\* may or may not have arrived.
Drop ==
  /\ cup /\ tag = "up" /\ drops < MaxDrops
  /\ CloseClient
  /\ \/ UNCHANGED <<c2r, near>>
     \/ c2r' = <<>> /\ near' = FALSE
  /\ drops' = drops + 1
  /\ UNCHANGED <<hvars, relayVars, sockVars, next, stops, histVars>>
-----------------------------------------------------------------------------
Init ==
  /\ H!StartUp /\ spd = "stale" /\ cnt = "stale"
  /\ rdy \in (IF MovesmAborts THEN BOOLEAN ELSE {FALSE})
  /\ main = "off" /\ cur = [kind |-> "point", pt |-> NoPoint]
  /\ shut = FALSE /\ ahOn = FALSE /\ abortReq = FALSE
  /\ connected = FALSE /\ tag \in {"bad", "idle"}
  /\ c2r = <<>> /\ near = FALSE /\ r2c = <<>>
  /\ cup = FALSE /\ next = 1 /\ await = "none" /\ drops = 0 /\ stops = 0
  /\ last = NoPoint /\ refused = {} /\ aborted = rdy

\* The steps of the relay's own task.
RelayMain ==
  \/ Ctor \/ DconnAtStart \/ AcceptFails \/ Listen \/ Accepted \/ OpenFile
  \/ LoopTest \/ PollFails \/ PollNothing \/ ReadWaits \/ ReadPacket \/ ReadFails
  \/ HandleSpecial \/ HandleStop \/ HandlePoint
  \/ Reply \/ ReplyFails \/ Executed \/ Nack \/ Disconnect \/ OuterEnds \/ FinishRelay

Client ==
  \/ Connect \/ SendPoint \/ SendStop \/ SendSpecial \/ Receive \/ SeeEof \/ Drop
  \/ Arrive

Next ==
  \/ StartRelay \/ RelayMain
  \/ Abort \/ AbortHandler
  \/ ExecStep \/ MovesmStep \/ MovesmAbortStep
  \/ Client

\* The controller runs its tasks and its condition handlers.  Nothing makes
\* BYTES_AHEAD report a closed connection instead of no bytes.
ControllerFairness ==
  /\ WF_vars(RelayMain)
  /\ WF_vars(AbortHandler)
  /\ WF_vars(ExecStep)
  /\ WF_vars(MovesmStep)

\* The client reads what arrives and notices a closed connection.  It need not
\* connect, nor send anything, and what it sends need not arrive in whole.
ClientFairness ==
  /\ WF_vars(Receive)
  /\ WF_vars(SeeEof)

Spec     == Init /\ [][Next]_vars
FairSpec == Spec /\ ControllerFairness /\ ClientFairness
-----------------------------------------------------------------------------
(* Properties *)

\* Points start their motions in the order of the trajectory, and none starts
\* twice, whatever is refused, stopped or aborted; only a lost connection makes
\* the client repeat a point, and then it is the point that started last.
InOrderOnce ==
  [][motion' # motion /\ motion' # NoPoint =>
       motion' > last \/ (motion' = last /\ drops > 0)]_vars

\* Unless the motion program is aborted, a point is passed over only if
\* exec_move_ refused it, or refused the point right before it: then the client
\* takes the second reply (the NACK) for the answer to the next point, which is
\* lost with the connection.
Skipped(p) == (last + 1)..(p - 1)

SkippedOnlyAfterRefusal ==
  [][motion' # motion /\ motion' # NoPoint =>
       aborted \/ \A q \in Skipped(motion') : q \in refused \/ q - 1 \in refused]_vars

\* Unless the motion program is aborted, the client is at most two points ahead
\* of the motion: one in the motion program's cache, one in the relay's hand.
Ahead == {q \in (last + 1)..(next - 1) : q \notin refused /\ q - 1 \notin refused}

BoundedLead == ~aborted => Cardinality(Ahead) <= 2

\* A positive reply that the client takes for the answer to a point really is
\* the acknowledgement of that point.
RepliesMatch ==
  await = "point" /\ r2c # <<>> /\ Head(r2c).type = "succ" => Head(r2c).pt = next

\* The relay never waits for a client on a tag that still has a connection: it
\* would get an error from MSG_CONNECT for ever.
AcceptOnIdleTag == At("outer") => ~connected /\ tag # "up"

\* End to end: whatever happens to the connection, to the relay and to the motion
\* program, what the client is told and what the robot does is a behaviour of
\* PointStream: the robot is at most two points behind.
Stream == INSTANCE PointStream WITH
            told <- next - 1, lost <- drops > 0, MaxAhead <- 2

StreamsPoints == Stream!Spec

\* Every request is answered, or its connection closed, if the packets arrive
\* in whole.
Answered == []<>~near => (await # "none" ~> await = "none")

\* A broken connection is cleaned up, and the relay listens again or ends.
ListensAgain == main = "discon" ~> main \in {"connecting", "off"}


\* An abort does end the READ it finds the relay waiting in, although the client
\* neither sends the rest nor closes the connection.
AbortEndsRead == main = "reading" /\ abortReq ~> main # "reading"

\* Of all the points answered before a STOP, one motion at most is still to come
\* when the STOP is answered: the one the motion program had cached.
StopLeavesOne ==
  ~aborted /\ cur.kind = "stop" /\ main \in {"reply", "loop"} => Cardinality(Ahead) <= 1

\* An out-of-range point does not cost the connection.
OutOfRangeKeepsConnection == [][main = "nack" /\ result = "oor" /\ cup => main' # "discon"]_vars
=============================================================================
