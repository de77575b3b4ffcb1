------------------------------ MODULE WeldCommand ------------------------------
(***************************************************************************)
(* The welding command path: src/fanuc_weld_command_node.cpp sends 60-byte *)
(* command packets over one long-lived TCP connection, and                 *)
(* karel/ros_weld_relay.kl polls its socket, writes the outputs and sends  *)
(* a 20-byte reply.                                                        *)
(*                                                                         *)
(* Commands are numbered in the order of their callbacks; a heartbeat      *)
(* (sequence number RI_SEQ_HB) is HB.  Payload gives the ten fields of a   *)
(* command, one for each of the group and digital outputs it may set.      *)
(*                                                                         *)
(* Time is counted in sleeps of the relay's loop (DELAY sleep_time_):      *)
(* IdleStep is the clock of the model.  HbPeriod and Timeout are the       *)
(* node's 3 s timer and the relay's 10 s limit in that unit.               *)
(***************************************************************************)
EXTENDS Integers, Sequences

CONSTANTS
  NCmds,      \* commands published
  GOs, DOs,   \* group and digital outputs
  Payload,    \* what each command says for each output
  MaxExits,   \* how often the node or its connection dies
  HbEn,       \* cfg_.hb_en
  NodeHb,     \* the node's enable_heartbeat parameter
  HbPeriod,   \* loop sleeps between two heartbeats
  Timeout,    \* 10 * cfg_.loop_hz
  MaxDelay,   \* loop sleeps a packet spends in the network, at most
  Fragments,  \* may a packet arrive in two pieces?
  MaxUnread   \* a bound: replies the node may fall behind by

ASSUME WeldAssumption ==
  /\ NCmds \in Nat /\ MaxExits \in Nat
  /\ GOs \cap DOs = {}
  /\ Payload \in [1..NCmds -> [GOs \cup DOs -> Int]]
  /\ HbEn \in BOOLEAN /\ NodeHb \in BOOLEAN /\ Fragments \in BOOLEAN
  /\ HbPeriod \in Nat \ {0} /\ Timeout \in Nat /\ MaxDelay \in Nat \ {0}
  /\ MaxUnread \in Nat \ {0}

HB == 0
NoChange == -1
Outputs == GOs \cup DOs

VARIABLES
  main,       \* program counter of ros_weld_relay
  cmd,        \* weld_cmd_in_: number of the command in it
  shut,       \* shutdwn_req_
  connected,  \* sock_.connected_
  tag,        \* the server tag; "bad" is one that is not STARTED
  idle,       \* idle_counter_
  npc,        \* the node: between callbacks, or between send() and recv()
  up,         \* the node's connected_
  next,       \* number of the next command
  hbAge,      \* loop sleeps since the heartbeat timer fired
  c2r,        \* packets sent and not yet read
  arrived,    \* how many of them have arrived as a whole
  part,       \* what has arrived of the next one: "short" < 56 <= "near" < 60
  late,       \* loop sleeps that one has been under way
  gone,       \* the relay's connection has lost its client
  r2n,        \* replies the node has not read
  exits,
  out,        \* what was assigned last to GOUT and DOUT (0 for OFF, 1 for ON)
  executed    \* history: the commands exec_weld_cmd_ was called for

relayVars == <<main, cmd, shut>>
sockVars  == <<connected, tag>>
nodeVars  == <<npc, up, next, hbAge, exits>>
netVars   == <<c2r, arrived, part, late, gone>>
outVars   == <<out, executed>>
vars == <<relayVars, sockVars, idle, nodeVars, netVars, r2n, outVars>>

MainPC == {"off", "dconnf", "outer", "accept", "connecting", "ofd", "loop", "check",
           "reading", "exec", "reply", "discon", "finish"}

TypeOK ==
  /\ main \in MainPC /\ cmd \in 0..NCmds /\ shut \in BOOLEAN
  /\ connected \in BOOLEAN /\ tag \in {"bad", "idle", "listening", "up"}
  /\ idle \in 0..(Timeout + 1)
  /\ npc \in {"idle", "recv", "recvHb"} /\ up \in BOOLEAN
  /\ next \in 1..(NCmds + 1) /\ hbAge \in 0..HbPeriod /\ exits \in 0..MaxExits
  /\ c2r \in Seq(0..NCmds) /\ arrived \in 0..Len(c2r)
  /\ part \in {"none", "short", "near"} /\ late \in 0..MaxDelay /\ gone \in BOOLEAN
  /\ r2n \in Seq(0..NCmds)
  /\ out \in [Outputs -> Int] /\ executed \subseteq 1..NCmds

At(l) == main = l
To(l) == main' = l
-----------------------------------------------------------------------------
(* Wrong variants of some of the definitions below, each a mistake this code  *)
(* could contain.  No specification uses them: they show which property       *)
(* notices the mistake.                                                       *)

\* What was in the socket's buffer survives the connection.
MsgDiscoKeepsBuffer ==
  /\ tag' = IF tag = "bad" THEN "bad" ELSE "idle"
  /\ gone' = FALSE
  /\ UNCHANGED <<c2r, arrived, part, late, r2n>>

\* A packet is read but stays in the buffer.
ConsumeNot ==
  /\ cmd' = Head(c2r)
  /\ UNCHANGED <<c2r, arrived, part, late, gone>>

\* A command is acknowledged when it is read, not when it was executed.
ReadPacketAcks ==
  /\ main \in {"check", "reading"}
  /\ arrived > 0
  /\ cmd' = Head(c2r) /\ c2r' = Tail(c2r) /\ arrived' = arrived - 1
  /\ r2n' = Append(r2n, cmd')
  /\ To("exec")
  /\ UNCHANGED <<shut, sockVars, idle, nodeVars, part, late, gone, outVars>>

\* A heartbeat is answered but does not reset the idle counter.
IdleAfterReplyKept == IF cmd = HB THEN idle ELSE 0

\* Every negative value is taken for "no change".
SetsNonNegative(v) == v >= 0

\* The idle counter is never compared.
TimedOutNever(i) == FALSE
-----------------------------------------------------------------------------
(* libssock *)

\* MSG_DISCO: unread packets are gone, and unread replies may be.
MsgDisco ==
  /\ tag' = IF tag = "bad" THEN "bad" ELSE "idle"
  /\ c2r' = <<>> /\ arrived' = 0 /\ part' = "none" /\ late' = 0
  /\ gone' = FALSE
  /\ r2n' \in {r2n, <<>>}

DconnForced == MsgDisco /\ connected' = FALSE

Dconn2 ==
  IF connected THEN MsgDisco /\ connected' = FALSE
               ELSE UNCHANGED <<sockVars, netVars, r2n>>
-----------------------------------------------------------------------------
(* ros_weld_relay *)

\* check_cfg_ accepts; the ABORT handler is installed; ssock_ctor.
StartRelay ==
  /\ At("off") /\ To("dconnf")
  /\ shut' = FALSE
  /\ cmd' = 0
  /\ connected' = FALSE
  /\ UNCHANGED <<tag, idle, nodeVars, netVars, r2n, outVars>>

DconnAtStart ==
  /\ At("dconnf") /\ To("outer")
  /\ DconnForced
  /\ UNCHANGED <<cmd, shut, idle, nodeVars, outVars>>

DconnOuter ==
  /\ At("outer") /\ To("accept")
  /\ ~shut
  /\ Dconn2
  /\ UNCHANGED <<cmd, shut, idle, nodeVars, outVars>>

CannotAccept == connected \/ tag \in {"bad", "up"}

AcceptFails ==
  /\ At("accept") /\ To("discon")
  /\ CannotAccept
  /\ UNCHANGED <<cmd, shut, sockVars, idle, nodeVars, netVars, r2n, outVars>>

Listen ==
  /\ At("accept") /\ To("connecting")
  /\ ~CannotAccept
  /\ tag' = "listening"
  /\ UNCHANGED <<cmd, shut, connected, idle, nodeVars, netVars, r2n, outVars>>

Accepted ==
  /\ At("connecting") /\ To("ofd")
  /\ tag = "up"
  /\ connected' = TRUE
  /\ UNCHANGED <<cmd, shut, tag, idle, nodeVars, netVars, r2n, outVars>>

OpenFile ==
  /\ At("ofd")
  /\ \/ To("loop") /\ idle' = 0
     \/ To("discon") /\ UNCHANGED idle
  /\ UNCHANGED <<cmd, shut, sockVars, nodeVars, netVars, r2n, outVars>>

\* The one test of shutdwn_req_ in an iteration.
LoopTest ==
  /\ At("loop")
  /\ To(IF shut THEN "discon" ELSE "check")
  /\ UNCHANGED <<cmd, shut, sockVars, idle, nodeVars, netVars, r2n, outVars>>

\* BYTES_AHEAD or a blocked READ reports a connection that lost its client.
\* BYTES_AHEAD may as well go on reporting 0 bytes.
CheckFails ==
  /\ main \in {"check", "reading"} /\ To("discon")
  /\ gone
  /\ UNCHANGED <<cmd, shut, sockVars, idle, nodeVars, netVars, r2n, outVars>>

TimedOut(i) == HbEn /\ i > Timeout

\* The clock may tick: no timer of the node is due, no callback of it is half
\* done, no packet has been under way for longer than MaxDelay.
InFlight == arrived < Len(c2r)

MayPass ==
  /\ npc = "idle"
  /\ up /\ NodeHb => hbAge < HbPeriod
  /\ InFlight => late < MaxDelay

Pass ==
  /\ late' = IF InFlight THEN late + 1 ELSE 0
  /\ hbAge' = IF up /\ NodeHb THEN hbAge + 1 ELSE hbAge

\* Fewer than 56 bytes: no command, one sleep.  Without hb_en the counter only
\* grows; it is capped where a timeout would occur.
IdleStep ==
  /\ At("check")
  /\ arrived = 0 /\ part # "near"
  /\ MayPass /\ Pass
  /\ idle' = IF idle <= Timeout THEN idle + 1 ELSE idle
  /\ IF TimedOut(idle + 1) THEN To("discon") ELSE To("loop")
  /\ UNCHANGED <<cmd, shut, sockVars, npc, up, next, exits, c2r, arrived, part, gone, r2n, outVars>>

Consume ==
  /\ cmd' = Head(c2r)
  /\ c2r' = Tail(c2r)
  /\ arrived' = arrived - 1
  /\ UNCHANGED <<part, late, gone>>

ReadPacket ==
  /\ main \in {"check", "reading"}
  /\ arrived > 0
  /\ Consume
  /\ To("exec")
  /\ UNCHANGED <<shut, sockVars, idle, nodeVars, r2n, outVars>>

\* RI_SZ_HDR + 4 + 40 is 56: between 56 and 59 bytes the READ of 60 is started,
\* and waits.
ReadBlocks ==
  /\ At("check")
  /\ arrived = 0 /\ part = "near"
  /\ To("reading")
  /\ UNCHANGED <<cmd, shut, sockVars, idle, nodeVars, netVars, r2n, outVars>>

\* exec_weld_cmd_ writes the outputs the command has a value for, and always
\* returns 0; a heartbeat writes none.
Sets(v) == v # NoChange

\* What GOUT makes of a negative value is the controller's matter.
Level(o, v) == IF o \in GOs THEN v ELSE IF v > 0 THEN 1 ELSE 0

Written == [o \in Outputs |->
              IF Sets(Payload[cmd][o]) THEN Level(o, Payload[cmd][o]) ELSE out[o]]

Exec ==
  /\ At("exec") /\ To("reply")
  /\ IF cmd = HB THEN UNCHANGED outVars
                 ELSE out' = Written /\ executed' = executed \cup {cmd}
  /\ UNCHANGED <<cmd, shut, sockVars, idle, nodeVars, netVars, r2n>>

IdleAfterReply == 0

Reply ==
  /\ At("reply") /\ To("loop")
  /\ r2n' = IF up /\ tag = "up" /\ ~gone THEN Append(r2n, cmd) ELSE r2n
  /\ idle' = IdleAfterReply
  /\ cmd' = 0
  /\ UNCHANGED <<shut, sockVars, nodeVars, netVars, outVars>>

ReplyFails ==
  /\ At("reply") /\ To("discon")
  /\ gone
  /\ UNCHANGED <<cmd, shut, sockVars, idle, nodeVars, netVars, r2n, outVars>>

Disconnect ==
  /\ At("discon") /\ To("outer")
  /\ Dconn2
  /\ UNCHANGED <<cmd, shut, idle, nodeVars, outVars>>

OuterEnds ==
  /\ At("outer") /\ To("finish")
  /\ shut
  /\ UNCHANGED <<cmd, shut, sockVars, idle, nodeVars, netVars, r2n, outVars>>

FinishRelay ==
  /\ At("finish") /\ To("off")
  /\ DconnForced
  /\ UNCHANGED <<cmd, shut, idle, nodeVars, outVars>>

\* CANCEL FILE ends a READ that waits, and may find another call on the file; of
\* what begins later it knows nothing.
Cancelled ==
  CASE main = "reading" -> {"discon"}
    [] main \in {"check", "reply"} -> {main, "discon"}
    [] OTHER -> {main}

\* An ABORT, by the operator or by POST_ERR after ssock_ctor failed.
AbortHandler ==
  /\ main \notin {"off", "finish"} /\ ~shut
  /\ shut' = TRUE
  /\ main' \in Cancelled
  /\ UNCHANGED <<cmd, sockVars, idle, nodeVars, netVars, r2n, outVars>>
-----------------------------------------------------------------------------
(* The node; its callbacks run one at a time *)

\* send() to a connection the relay has closed seems to succeed.
Send(m) == c2r' = IF tag = "up" THEN Append(c2r, m) ELSE c2r

\* send() failed, recv() failed or found the connection closed: disconnect().
\* What was sent and has not arrived may be lost.
DropConnection ==
  /\ up' = FALSE
  /\ gone' = (tag = "up")
  /\ r2n' = <<>>
  /\ c2r' \in {SubSeq(c2r, 1, k) : k \in arrived..Len(c2r)}

\* commandCallback up to send(), on the connection there is.
Command ==
  /\ npc = "idle" /\ next <= NCmds
  /\ up
  /\ next' = next + 1
  /\ npc' = "recv"
  /\ Send(next)
  /\ UNCHANGED <<relayVars, sockVars, idle, up, hbAge, exits, arrived, part, late, gone, r2n, outVars>>

\* The same after connect() succeeded.
ConnectAndCommand ==
  /\ npc = "idle" /\ next <= NCmds
  /\ ~up /\ tag = "listening"
  /\ up' = TRUE
  /\ tag' = "up"
  /\ hbAge' \in IF NodeHb THEN 0..HbPeriod ELSE {0}
  /\ next' = next + 1
  /\ npc' = "recv"
  /\ c2r' = <<next>>
  /\ UNCHANGED <<relayVars, connected, idle, exits, arrived, part, late, gone, r2n, outVars>>

\* connect() failed: the command is dropped.
CommandDropped ==
  /\ npc = "idle" /\ next <= NCmds
  /\ ~up /\ tag # "listening"
  /\ next' = next + 1
  /\ UNCHANGED <<relayVars, sockVars, idle, npc, up, hbAge, exits, netVars, r2n, outVars>>

\* heartbeatCallback, at its due time.
Heartbeat ==
  /\ npc = "idle" /\ NodeHb
  /\ up /\ hbAge = HbPeriod
  /\ hbAge' = 0
  /\ npc' = "recvHb"
  /\ Send(HB)
  /\ UNCHANGED <<relayVars, sockVars, idle, up, next, exits, arrived, part, late, gone, r2n, outVars>>

\* send() on a connection the relay closed reports the reset: the command or
\* heartbeat is lost, and the node disconnects.
SendFails ==
  /\ npc = "idle"
  /\ up /\ tag # "up"
  /\ up' = FALSE
  /\ \/ next <= NCmds /\ next' = next + 1 /\ UNCHANGED hbAge
     \/ NodeHb /\ hbAge = HbPeriod /\ hbAge' = 0 /\ UNCHANGED next
  /\ r2n' = <<>>
  /\ UNCHANGED <<relayVars, sockVars, idle, npc, exits, netVars, outVars>>

\* recv(MSG_DONTWAIT) takes the oldest reply there is, whatever it answers.
RecvReply ==
  /\ npc # "idle" /\ npc' = "idle"
  /\ r2n # <<>>
  /\ r2n' = Tail(r2n)
  /\ UNCHANGED <<relayVars, sockVars, idle, up, next, hbAge, exits, netVars, outVars>>

\* ... or finds none: replies may be on their way for longer than a callback
\* lasts.  MaxUnread bounds how many.
RecvNothing ==
  /\ npc # "idle" /\ npc' = "idle"
  /\ Len(r2n) < MaxUnread
  /\ UNCHANGED <<relayVars, sockVars, idle, up, next, hbAge, exits, netVars, r2n, outVars>>

\* ... or finds that the relay closed the connection.  heartbeatCallback does
\* not look at what recv() returns.
RecvClosed ==
  /\ npc = "recv" /\ npc' = "idle"
  /\ tag # "up" /\ r2n = <<>>
  /\ up' = FALSE
  /\ UNCHANGED <<relayVars, sockVars, idle, next, hbAge, exits, netVars, r2n, outVars>>

\* The node exits, its host or the network fails, or send() does.  A new node
\* starts without a connection.
LoseClient ==
  /\ up /\ exits < MaxExits
  /\ exits' = exits + 1
  /\ npc' = "idle"
  /\ DropConnection
  /\ late' = 0
  /\ UNCHANGED <<relayVars, sockVars, idle, next, hbAge, arrived, part, outVars>>
-----------------------------------------------------------------------------
(* The network (external) *)

\* A piece of the next packet arrives, or all that is missing of it.
Fragment ==
  /\ Fragments
  /\ InFlight
  /\ \/ part = "none"  /\ part' \in {"short", "near"}
     \/ part = "short" /\ part' = "near"
  /\ UNCHANGED <<relayVars, sockVars, idle, nodeVars, c2r, arrived, late, gone, r2n, outVars>>

Arrive ==
  /\ InFlight
  /\ arrived' = arrived + 1
  /\ part' = "none"
  /\ late' = 0
  /\ UNCHANGED <<relayVars, sockVars, idle, nodeVars, c2r, gone, r2n, outVars>>
-----------------------------------------------------------------------------
Init ==
  /\ main = "off" /\ cmd = 0 /\ shut = FALSE
  /\ connected = FALSE /\ tag \in {"bad", "idle"} /\ idle = 0
  /\ npc = "idle" /\ up = FALSE /\ next = 1 /\ hbAge = 0 /\ exits = 0
  /\ c2r = <<>> /\ arrived = 0 /\ part = "none" /\ late = 0 /\ gone = FALSE
  /\ r2n = <<>> /\ out = [o \in Outputs |-> 0] /\ executed = {}

RelayMain ==
  \/ DconnAtStart \/ DconnOuter \/ AcceptFails \/ Listen \/ Accepted \/ OpenFile
  \/ LoopTest \/ IdleStep \/ ReadPacket \/ ReadBlocks
  \/ Exec \/ Reply \/ ReplyFails \/ Disconnect \/ OuterEnds \/ FinishRelay

Node ==
  \/ Command \/ ConnectAndCommand \/ CommandDropped \/ Heartbeat \/ SendFails
  \/ RecvReply \/ RecvNothing \/ RecvClosed \/ LoseClient

Next ==
  \/ StartRelay \/ RelayMain \/ CheckFails \/ AbortHandler
  \/ Node
  \/ Fragment \/ Arrive

\* The relay's task runs, packets of a live or dead connection arrive or are
\* lost, and a callback that was begun ends.  Nothing makes BYTES_AHEAD report
\* a lost client: CheckFails is not fair.
Fairness ==
  /\ WF_vars(RelayMain)
  /\ WF_vars(Arrive)
  /\ WF_vars(RecvReply \/ RecvNothing)
  /\ WF_vars(Heartbeat)

Spec     == Init /\ [][Next]_vars
FairSpec == Spec /\ Fairness
-----------------------------------------------------------------------------
(* Properties *)

\* No command writes the outputs twice or after a later one, over any number of
\* lost connections and restarts: the node never sends one again, and nothing of
\* an old connection is read on a new one.
ExecutedInOrder ==
  [][At("exec") /\ To("reply") /\ cmd # HB => \A k \in executed : cmd > k]_vars

\* The replies the node has yet to read answer heartbeats and commands that were
\* executed, in the order of their execution.
AcksTrail ==
  /\ \A i \in DOMAIN r2n : r2n[i] \in executed \cup {HB}
  /\ \A i, j \in DOMAIN r2n : i < j /\ r2n[i] # HB /\ r2n[j] # HB => r2n[i] < r2n[j]

\* Whatever was lost, repeated or idle in between, an output has the value of the
\* newest command executed that had one for it: heartbeats and "no change" leave
\* it alone, a negative correction does not.  A switch may be either way after a
\* negative value other than "no change": exec_weld_cmd_ turns it off, and
\* msg/WeldCommand.msg says that any non-zero value is ON.
Setting(o) == {k \in executed : Payload[k][o] # NoChange}

Asked(o, v) ==
  CASE o \in GOs -> {v}
    [] o \in DOs /\ v > 0 -> {1}
    [] o \in DOs /\ v = 0 -> {0}
    [] OTHER -> {0, 1}

OutputsFollow ==
  \A o \in Outputs :
    /\ Setting(o) = {} => out[o] = 0
    /\ \A k \in Setting(o) :
          (\A l \in Setting(o) : l <= k) => out[o] \in Asked(o, Payload[k][o])

\* The relay gives up a connection only when asked to end or when the client
\* really is gone: with heartbeats a client that has nothing to say is kept.
LiveClientKept ==
  [][main' = "discon" /\ main \in {"loop", "check", "reading"} => shut' \/ gone]_vars

\* A connection whose client is gone is closed in the end, whether or not
\* BYTES_AHEAD ever reports it, unless the relay is inside a READ that waits for
\* the rest of a packet.
GoneClientNoticed == gone ~> ~gone \/ main = "reading"

\* READ is started only when a full packet has arrived.
NoPartialRead == At("reading") => arrived > 0
=============================================================================
