----------------------------- MODULE ServerTags -----------------------------
(***************************************************************************)
(* The KAREL server programs and the controller's server tags they share:  *)
(* karel/libssock.kl, the check_cfg_ routines, and the accept/disconnect   *)
(* skeleton that ros_state, ros_weld_state_reader and ros_weld_relay have  *)
(* in common.  A program is configured with a tag and a TCP port; every    *)
(* one of them has the same defaults, and MSG_DISCO on a tag ends whatever *)
(* is on it, whoever put it there.                                         *)
(*                                                                         *)
(* Each program has its ROS node, named like the program, which dials the  *)
(* port its program is configured for.                                     *)
(***************************************************************************)
EXTENDS Naturals

CONSTANTS
  Programs, Tags, Ports,
  Uninit,           \* the value of an uninitialised KAREL variable
  DefTag, DefPort,  \* the defaults of every program
  DconnFirst,       \* programs that call ssock_dconn2 before ssock_accpt2
  UserCfgs          \* what the user may enter: tag, port, or neither

Cfgs == [tag : Tags \cup {Uninit}, port : Ports \cup {Uninit}, checked : BOOLEAN]

ASSUME TagsAssumption ==
  /\ DefTag \in Tags /\ DefPort \in Ports
  /\ Uninit \notin Tags \cup Ports \cup Programs
  /\ DconnFirst \subseteq Programs /\ UserCfgs \subseteq Cfgs

VARIABLES
  pc,         \* program counters
  cfg,        \* cfg_ of each program
  sock,       \* tag_idx_ and port_ of its ssock_t
  connected,  \* connected_ of its ssock_t
  shut,       \* shutdwn_req_
  port,       \* $HOSTS_CFG[t].$SERVER_PORT
  line,       \* what is on each tag
  mixed       \* history: programs that shared a tag or port since they started
tagVars == <<pc, cfg, sock, connected, shut, port, line, mixed>>

\* A tag that is "listening" or "up" does so for `user`, on the port it was
\* given then; `client` is who connected, `gone` whether it has left.
Lines == [st : {"bad", "idle", "listening", "up"}, on : Ports \cup {Uninit},
          user : Programs \cup {Uninit}, client : Programs \cup {Uninit}, gone : BOOLEAN]
Free(st) == [st |-> st, on |-> Uninit, user |-> Uninit, client |-> Uninit, gone |-> FALSE]

ServerPC == {"off", "ctor", "dconnf", "outer", "accept", "connecting", "ofd", "loop",
             "discon", "finish"}

TypeOK ==
  /\ pc \in [Programs -> ServerPC] /\ cfg \in [Programs -> Cfgs]
  /\ sock \in [Programs -> [tag : Tags, port : Ports]]
  /\ connected \in [Programs -> BOOLEAN] /\ shut \in [Programs -> BOOLEAN]
  /\ port \in [Tags -> Ports] /\ line \in [Tags -> Lines] /\ mixed \subseteq Programs

At(p, l)  == pc[p] = l
To(p, l)  == pc' = [pc EXCEPT ![p] = l]
Tag(p)    == sock[p].tag
Holds(p)  == line[Tag(p)].st = "up" /\ line[Tag(p)].user = p
\* A program's I/O fails when its connection was taken or lost its client, or
\* when the abort handler cancelled it.
Broken(p) == ~Holds(p) \/ line[Tag(p)].gone \/ shut[p]
-----------------------------------------------------------------------------
(* Wrong variants: mistakes this code could contain, used by no specification *)

\* ssock_ctor leaves the tag's port alone.
CtorKeepsPort(p) == UNCHANGED port
\* ssock_dconn2 forgets connected_, or closes the file only.
Dconn2StaysConnected(p) ==
  IF connected[p] THEN line' = [line EXCEPT ![Tag(p)] = Free(IF @.st = "bad" THEN "bad" ELSE "idle")]
                       /\ UNCHANGED connected
                  ELSE UNCHANGED <<line, connected>>
Dconn2FileOnly(p) == connected' = [connected EXCEPT ![p] = FALSE] /\ UNCHANGED line
-----------------------------------------------------------------------------
(* libssock *)

MsgDisco(p) == line' = [line EXCEPT ![Tag(p)] = Free(IF @.st = "bad" THEN "bad" ELSE "idle")]

DconnForced(p) == MsgDisco(p) /\ connected' = [connected EXCEPT ![p] = FALSE]

Dconn2(p) == IF connected[p] THEN DconnForced(p) ELSE UNCHANGED <<line, connected>>

\* The end of ssock_ctor, reached only if the tag is STARTED.
SetPort(p) == port' = [port EXCEPT ![sock'[p].tag] = sock'[p].port]

CannotAccept(p) == connected[p] \/ line[Tag(p)].st # "idle"
-----------------------------------------------------------------------------
(* A server program *)

Clash(p) == \E q \in Programs \ {p} : \/ cfg[q].tag = cfg[p].tag /\ cfg[p].tag # Uninit
                                      \/ cfg[q].port = cfg[p].port /\ cfg[p].port # Uninit

NoteClash(p) == mixed' = (mixed \ {p}) \cup {q \in Programs : Clash(q)'}

Filled(c) == [c EXCEPT !.tag  = IF @ = Uninit THEN DefTag ELSE @,
                       !.port = IF @ = Uninit THEN DefPort ELSE @]

\* check_cfg_ fills in the defaults; the program goes on only if it had nothing
\* to fill in and the user has set cfg_.checked.
Start(p) ==
  /\ At(p, "off")
  /\ cfg' = [cfg EXCEPT ![p] = Filled(@)]
  /\ IF cfg'[p] = cfg[p] /\ cfg[p].checked
       THEN To(p, "ctor") /\ shut' = [shut EXCEPT ![p] = FALSE]
       ELSE UNCHANGED <<pc, shut>>
  /\ NoteClash(p)
  /\ UNCHANGED <<sock, connected, port, line>>

Ctor(p) ==
  /\ At(p, "ctor") /\ To(p, "dconnf")
  /\ sock' = [sock EXCEPT ![p] = [tag |-> cfg[p].tag, port |-> cfg[p].port]]
  /\ connected' = [connected EXCEPT ![p] = FALSE]
  /\ IF line[cfg[p].tag].st = "bad" THEN UNCHANGED port ELSE SetPort(p)
  /\ UNCHANGED <<cfg, shut, line, mixed>>

DconnAtStart(p) ==
  /\ At(p, "dconnf") /\ To(p, "outer")
  /\ DconnForced(p)
  /\ UNCHANGED <<cfg, sock, shut, port, mixed>>

OuterBegins(p) ==
  /\ At(p, "outer") /\ ~shut[p] /\ To(p, "accept")
  /\ IF p \in DconnFirst THEN Dconn2(p) ELSE UNCHANGED <<line, connected>>
  /\ UNCHANGED <<cfg, sock, shut, port, mixed>>

AcceptFails(p) ==
  /\ At(p, "accept") /\ To(p, "discon")
  /\ CannotAccept(p)
  /\ UNCHANGED <<cfg, sock, connected, shut, port, line, mixed>>

Listen(p) ==
  /\ At(p, "accept") /\ To(p, "connecting")
  /\ ~CannotAccept(p)
  /\ line' = [line EXCEPT ![Tag(p)] =
                [Free("listening") EXCEPT !.on = port[Tag(p)], !.user = p]]
  /\ UNCHANGED <<cfg, sock, connected, shut, port, mixed>>

Accepted(p) ==
  /\ At(p, "connecting") /\ To(p, "ofd")
  /\ Holds(p)
  /\ connected' = [connected EXCEPT ![p] = TRUE]
  /\ UNCHANGED <<cfg, sock, shut, port, line, mixed>>

\* MSG_CONNECT ends with an error when another program's MSG_DISCO took the tag.
ListenEnds(p) ==
  /\ At(p, "connecting") /\ To(p, "discon")
  /\ line[Tag(p)].user # p
  /\ UNCHANGED <<cfg, sock, connected, shut, port, line, mixed>>

\* ssock_ofd, and the first test of shutdwn_req_ in the inner loop.  OPEN FILE may
\* fail, and connected_ stays TRUE.
OpenFile(p) ==
  /\ At(p, "ofd")
  /\ \/ To(p, "loop") /\ ~shut[p]
     \/ To(p, "discon")
  /\ UNCHANGED <<cfg, sock, connected, shut, port, line, mixed>>

\* The inner loop: WHILE NOT shutdwn_req_, or an I/O error.
LoopEnds(p) ==
  /\ At(p, "loop") /\ To(p, "discon")
  /\ Broken(p)
  /\ UNCHANGED <<cfg, sock, connected, shut, port, line, mixed>>

Disconnect(p) ==
  /\ At(p, "discon") /\ To(p, "outer")
  /\ Dconn2(p)
  /\ UNCHANGED <<cfg, sock, shut, port, mixed>>

OuterEnds(p) ==
  /\ At(p, "outer") /\ To(p, "finish")
  /\ shut[p]
  /\ UNCHANGED <<cfg, sock, connected, shut, port, line, mixed>>

Finish(p) ==
  /\ At(p, "finish") /\ To(p, "off")
  /\ DconnForced(p)
  /\ UNCHANGED <<cfg, sock, shut, port, mixed>>

\* ab_hndlr_: an ABORT by the operator, or by POST_ERR after ssock_ctor failed.
AbortHandler(p) ==
  /\ pc[p] \notin {"off", "finish"} /\ ~shut[p]
  /\ shut' = [shut EXCEPT ![p] = TRUE]
  /\ UNCHANGED <<pc, cfg, sock, connected, port, line, mixed>>

Main(p) ==
  \/ Ctor(p) \/ DconnAtStart(p) \/ OuterBegins(p) \/ AcceptFails(p) \/ Listen(p)
  \/ Accepted(p) \/ ListenEnds(p) \/ OpenFile(p) \/ Disconnect(p)
  \/ OuterEnds(p) \/ Finish(p)
-----------------------------------------------------------------------------
(* The user and the ROS nodes (external) *)

\* The user edits the configuration and ticks `checked`.
Configure(p) ==
  /\ At(p, "off")
  /\ \E c \in UserCfgs :
       cfg' = [cfg EXCEPT ![p] = [tag  |-> IF c.tag = Uninit THEN @.tag ELSE c.tag,
                                  port |-> IF c.port = Uninit THEN @.port ELSE c.port,
                                  checked |-> TRUE]]
  /\ NoteClash(p)
  /\ UNCHANGED <<pc, sock, connected, shut, port, line>>

Dial(c) ==
  /\ \A t \in Tags : line[t].client = c => line[t].gone
  /\ \E t \in Tags :
       /\ line[t].st = "listening" /\ line[t].on = cfg[c].port
       /\ line' = [line EXCEPT ![t].st = "up", ![t].client = c]
  /\ UNCHANGED <<pc, cfg, sock, connected, shut, port, mixed>>

Leave(c) ==
  /\ \E t \in Tags :
       /\ line[t].client = c /\ ~line[t].gone
       /\ line' = [line EXCEPT ![t].gone = TRUE]
  /\ UNCHANGED <<pc, cfg, sock, connected, shut, port, mixed>>

TagsInit ==
  /\ pc = [p \in Programs |-> "off"]
  /\ cfg = [p \in Programs |-> [tag |-> Uninit, port |-> Uninit, checked |-> FALSE]]
  /\ sock \in [Programs -> [tag : {DefTag}, port : {DefPort}]]
  /\ connected = [p \in Programs |-> FALSE] /\ shut = connected
  /\ port \in [Tags -> Ports]
  /\ line \in [Tags -> {Free("bad"), Free("idle")}]
  /\ mixed = {}

\* Everything of program p and its node but the inner loop's body.
Around(p) == Start(p) \/ Main(p) \/ AbortHandler(p) \/ Configure(p) \/ Dial(p) \/ Leave(p)
-----------------------------------------------------------------------------
(* Properties *)

\* The connection of a program that shares neither tag nor port with another is
\* taken by nobody else: while the program uses it, it is there, it is the
\* program's, and the client on it is the program's own ROS node.
Undisturbed == \A p \in Programs \ mixed :
  pc[p] \in {"ofd", "loop"} => Holds(p) /\ line[Tag(p)].client = p

\* What is on a tag was put there by a program that still knows of it, and that
\* is configured for this tag: no connection is left behind without an owner.
Owned == \A t \in Tags : line[t].st \in {"listening", "up"} =>
  LET p == line[t].user IN Tag(p) = t /\ pc[p] \in {"connecting", "ofd", "loop", "discon"}
=============================================================================
