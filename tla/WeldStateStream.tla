-------------------------- MODULE WeldStateStream --------------------------
(***************************************************************************)
(* The welding state stream: karel/ros_weld_state_reader.kl writes frames  *)
(* to whoever is connected, and fanuc_weld_state_node{,_simple}.cpp cuts   *)
(* the byte stream into messages again.  A frame is a header of a length   *)
(* and three words, a sequence number, nine words of data and a carriage   *)
(* return.  How many bytes an unformatted CR puts on the wire is not in    *)
(* the source (`cr`), and the length the KAREL program declares is not the *)
(* number of bytes that follow; documentation and nodes have other ideas   *)
(* (`length`).  So the stream is modelled by the position of its bytes.    *)
(***************************************************************************)
EXTENDS Integers, Sequences

CONSTANTS
  Nodes,    \* which of the nodes is launched: "tcp", "simple"
  Lengths,  \* what hdr_.length_ may be set to
  CrSizes,  \* bytes of CR
  MaxSeq,   \* frames
  Data      \* the data of each of them

\* arc_ok to mot_curr; inputs and groups of up to 16 of them.
Fields == 9

ASSUME StreamAssumption ==
  /\ Nodes \subseteq {"tcp", "simple"} /\ Lengths \subseteq 1..255
  /\ CrSizes \subseteq {0, 1} /\ MaxSeq \in Nat

ASSUME DataAssumption ==
  /\ Data \in [1..MaxSeq -> [1..Fields -> Nat]]
  /\ \A k \in 1..MaxSeq, i \in 1..Fields : Data[k][i] < 65536

VARIABLES
  node, length, cr,  \* fixed from the start
  srv,    \* the reader program: "listening" or "up"
  seq,    \* seq_nr_
  sock,   \* the node's socket: "none", "up", or "eof" once the program closed it
  npc,    \* the node: what it waits for
  need,   \* how many bytes of it
  pos,    \* bytes the node has consumed on this connection
  sent,   \* bytes that have arrived on it
  base,   \* frames before this connection
  errs,   \* error_count, up to the 6 from which the node reconnects
  out     \* history: the message published last: number, frame it began in, words

fixed  == <<node, length, cr>>
vars   == <<fixed, srv, seq, sock, npc, need, pos, sent, base, errs, out>>
stream == <<pos, sent, base>>

HdrSize  == 16
Payload  == 4 * Fields
FrameLen == HdrSize + 4 + Payload + cr

\* The words of the k-th frame, as WRITE puts them out, and their bytes.
Word(k, i) == IF i < 5 THEN <<length, 15, 1, 0, k>>[i + 1] ELSE Data[k][i - 4]
Shift(j)   == <<1, 256, 65536, 16777216>>[j + 1]

\* What is at position x of this connection's stream.
FrameAt(x) == base + (x \div FrameLen) + 1
ByteAt(x) ==
  LET o == x % FrameLen
  IN  IF o = HdrSize + 4 + Payload THEN 13
      ELSE (Word(FrameAt(x), o \div 4) \div Shift(o % 4)) % 256
WordAt(x) ==
  ByteAt(x) + 256 * ByteAt(x + 1) + 65536 * ByteAt(x + 2) + 16777216 * ByteAt(x + 3)
CrLf(x) == ByteAt(x) \in {10, 13}

NoMsg == [n |-> 0, frame |-> 0, words |-> <<>>]

TypeOK ==
  /\ node \in Nodes /\ length \in Lengths /\ cr \in CrSizes
  /\ srv \in {"listening", "up"} /\ seq \in 0..MaxSeq /\ base \in 0..seq
  /\ sock \in {"none", "up", "eof"}
  /\ npc \in {"header", "body", "junk", "error", "exit"} /\ need \in Nat
  /\ pos \in 0..sent /\ sent \in 0..(FrameLen * (MaxSeq - base)) /\ errs \in 0..6
  /\ out \in [n : 0..seq, frame : 0..seq, words : Seq(Int)]
-----------------------------------------------------------------------------
(* Wrong variants: mistakes this code could contain, used by no specification *)

\* The new connection is read from where the old one ended.
FreshStreamNot == pos' = pos /\ sent' = 0 /\ base' = seq
\* The body is looked at with MSG_PEEK and stays in the socket's buffer.
PeeksOnly(n) == pos' = pos - HdrSize
\* The sequence number is taken for the first word of the data.
OffsetAlwaysZero(n) == 0
\* A failed receive is not counted.
FailUncounted == errs' = errs /\ npc' = "header" /\ UNCHANGED sock
-----------------------------------------------------------------------------
(* ros_weld_state_reader *)

\* Where the next frame begins, the CR before it counted in.
Boundary == FrameLen * ((sent + cr) \div FrameLen)

\* The CR may arrive later than the rest.  What is written to a node that has
\* closed its end is lost.
WriteFrame ==
  /\ srv = "up" /\ seq < MaxSeq
  /\ seq' = seq + 1
  /\ IF sock = "up" THEN \E late \in 0..cr : sent' = Boundary + FrameLen - late ELSE UNCHANGED sent
  /\ UNCHANGED <<fixed, srv, sock, npc, need, pos, base, errs, out>>

CrArrives ==
  /\ sock = "up" /\ sent % FrameLen = HdrSize + 4 + Payload
  /\ sent' = sent + 1
  /\ UNCHANGED <<fixed, srv, seq, sock, npc, need, pos, base, errs, out>>

\* What has been written when one of the 14 words or the CR fails.
Written == {4 * k : k \in 0..14} \cup {FrameLen}

\* A WRITE fails, because the node has closed the connection or for another reason:
\* ssock_dconn2, and the program listens again.  seq_nr_ is incremented after the
\* fourth word, before the WRITE of it.  What the node has not read may be lost.
WriteFails ==
  /\ srv = "up" /\ seq < MaxSeq
  /\ srv' = "listening"
  /\ \E written \in Written :
       /\ seq' \in {seq, seq + 1}
       /\ written < HdrSize => seq' = seq
       /\ written > HdrSize => seq' = seq + 1
       /\ IF sock = "none" THEN UNCHANGED <<sock, sent>>
          ELSE sock' = "eof" /\ sent' \in pos..(Boundary + written)
  /\ UNCHANGED <<fixed, npc, need, pos, base, errs, out>>
-----------------------------------------------------------------------------
(* The node *)

\* receiveExactly: all that is needed, or the end of the stream.
Arrived == sent - pos >= need
Ended   == ~Arrived /\ sock # "up"

Waits(l, n) == npc' = l /\ need' = n
NextHeader  == Waits("header", HdrSize)

\* error_count++; from the sixth on reconnect() closes the socket.
Fail ==
  /\ errs' = IF errs < 6 THEN errs + 1 ELSE 6
  /\ IF errs' > 5 THEN npc' = "error" /\ sock' = "none" ELSE npc' = "header" /\ UNCHANGED sock

HeaderEnds ==
  /\ npc = "header" /\ Ended
  /\ pos' = sent
  /\ Fail
  /\ need' = HdrSize
  /\ UNCHANGED <<fixed, srv, seq, sent, base, out>>

Valid(x) == WordAt(x + 4) = 15 /\ WordAt(x + 8) = 1

\* Header validation of the tcp node: with a type it does not expect it throws
\* away as many bytes as the length says.
TcpHeader ==
  /\ node = "tcp" /\ npc = "header" /\ Arrived
  /\ pos' = pos + HdrSize
  /\ LET len == WordAt(pos)
     IN  IF Valid(pos) /\ len >= 4 + Payload THEN Waits("body", len - 12)
         ELSE IF len > 0 THEN Waits("junk", len) ELSE NextHeader
  /\ UNCHANGED <<fixed, srv, seq, sock, sent, base, errs, out>>

\* Junk read, or the stream ended in it or in a body: back to the next header,
\* without counting an error.
TcpSkip ==
  /\ \/ npc = "junk" /\ (Arrived \/ Ended)
     \/ npc = "body" /\ node = "tcp" /\ Ended
  /\ pos' = IF Arrived THEN pos + need ELSE sent
  /\ NextHeader
  /\ UNCHANGED <<fixed, srv, seq, sock, sent, base, errs, out>>

\* Up to two bytes of the remainder are trimmed.
Trimmed(n) == LET e == pos + n IN
  IF ~CrLf(e - 1) THEN n ELSE IF ~CrLf(e - 2) THEN n - 1 ELSE n - 2

\* Where the data begins: n bytes are left after trimming.
Offset(n) == IF n \in {Payload, Payload + 1} THEN 0 ELSE 4

\* Then CR and LF bytes are consumed as long as some have already arrived.
Consume(n) ==
  \E more \in 0..(sent - (pos + n)) :
    /\ pos' = pos + n + more
    /\ \A x \in (pos + n)..(pos' - 1) : CrLf(x)
    /\ pos' < sent => ~CrLf(pos')

Message(x) == [n |-> out.n + 1, frame |-> FrameAt(pos - HdrSize),
               words |-> [i \in 1..Fields |-> WordAt(x + 4 * (i - 1))]]

TcpBody ==
  /\ node = "tcp" /\ npc = "body" /\ Arrived
  /\ LET n == Trimmed(need)
     IN  IF n \in {Payload, Payload + 1, Payload + 4, Payload + 5}
           THEN /\ out' = Message(pos + Offset(n))
                /\ errs' = 0
                /\ Consume(need)
           ELSE pos' = pos + need /\ UNCHANGED <<out, errs>>
  /\ NextHeader
  /\ UNCHANGED <<fixed, srv, seq, sock, sent, base>>

\* receiveSimpleMessage: the length is that of the data alone, or 53; anything
\* else is an error and stays in the stream.
SimpleHeader ==
  /\ node = "simple" /\ npc = "header" /\ Arrived
  /\ pos' = pos + HdrSize
  /\ IF Valid(pos) /\ WordAt(pos) \in {Payload, 53}
       THEN /\ Waits("body", IF WordAt(pos) = 53 THEN 4 + Payload ELSE Payload)
            /\ UNCHANGED <<errs, sock>>
       ELSE Fail /\ need' = HdrSize
  /\ UNCHANGED <<fixed, srv, seq, sent, base, out>>

SimpleBodyEnds ==
  /\ node = "simple" /\ npc = "body" /\ Ended
  /\ pos' = sent
  /\ Fail
  /\ need' = HdrSize
  /\ UNCHANGED <<fixed, srv, seq, sent, base, out>>

\* In the format of length 53 payload_buf points into a vector that is gone when
\* it is read: what is published may be anything.
Garbage(m) == [m EXCEPT !.words = <<>>]

SimpleBody ==
  /\ node = "simple" /\ npc = "body" /\ Arrived
  /\ out' \in IF need = Payload THEN {Message(pos)} ELSE {Message(pos + 4), Garbage(Message(pos))}
  /\ pos' = pos + need + (IF pos + need < sent /\ CrLf(pos + need) THEN 1 ELSE 0)
  /\ errs' = 0
  /\ NextHeader
  /\ UNCHANGED <<fixed, srv, seq, sock, sent, base>>

FreshStream == pos' = 0 /\ sent' = 0 /\ base' = seq

\* reconnect(), a second later: init() succeeds if the program listens by then,
\* otherwise run() ends.
Reconnect ==
  /\ npc = "error"
  /\ IF srv = "listening"
       THEN srv' = "up" /\ sock' = "up" /\ FreshStream /\ NextHeader
       ELSE npc' = "exit" /\ UNCHANGED <<srv, sock, stream, need>>
  /\ UNCHANGED <<fixed, seq, errs, out>>

\* The node is started (again) by its user.
StartNode ==
  /\ npc = "exit" /\ srv = "listening"
  /\ srv' = "up" /\ sock' = "up" /\ FreshStream /\ NextHeader
  /\ errs' = 0
  /\ UNCHANGED <<fixed, seq, out>>
-----------------------------------------------------------------------------
Init ==
  /\ node \in Nodes /\ length \in Lengths /\ cr \in CrSizes
  /\ srv = "listening" /\ seq = 0 /\ sock = "none"
  /\ npc = "exit" /\ need = HdrSize
  /\ pos = 0 /\ sent = 0 /\ base = 0 /\ errs = 0
  /\ out = NoMsg

Node ==
  \/ HeaderEnds \/ TcpHeader \/ TcpSkip \/ TcpBody
  \/ SimpleHeader \/ SimpleBody \/ SimpleBodyEnds \/ Reconnect

Next == WriteFrame \/ CrArrives \/ WriteFails \/ Node \/ StartNode

\* The node runs; what the program does and when the user acts is left open.
Spec == Init /\ [][Next]_vars /\ WF_vars(Node)
-----------------------------------------------------------------------------
(* Properties *)

\* Every message begins in a later frame than the one before, over any number of
\* connections and frames written in part: nothing is published twice.
InOrderOnce == [][out' # out => out'.frame > out.frame]_vars

\* If the declared length is what follows it, the tcp node publishes the data of
\* a frame, and of every frame of a connection, whenever the CR arrives.
Agreed == node = "tcp" /\ length = FrameLen - 4

ExactWhenAgreed ==
  [][Agreed /\ out' # out =>
       /\ out'.words = Data[out'.frame]
       /\ out'.frame \in {out.frame + 1, base + 1}]_vars

\* A connection that the program closed is given up: the node gets a new one, or
\* ends.
ClosedIsLeft == sock = "eof" ~> sock # "eof"

\* What is published is the data of a frame.
PublishedIsSent == out.frame # 0 => out.words = Data[out.frame]
=============================================================================
