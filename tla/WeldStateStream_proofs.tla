----------------------- MODULE WeldStateStream_proofs -----------------------
(***************************************************************************)
(* Proofs about the welding state stream, for any number of frames with    *)
(* any data, either node, any length that fits a byte and a CR of any of   *)
(* the sizes allowed.                                                      *)
(*                                                                         *)
(* The argument.  A node that has lost its place may take bytes of the     *)
(* data for a header, so nothing can be said of what it publishes.  But a  *)
(* message takes the node at least 52 bytes on, and in the bytes of a      *)
(* frame from the 52nd on no header can begin: its type and communication  *)
(* type would lie in the length and the type of the next frame.  So the    *)
(* next message begins in a later frame (FrameInv).  A frame written in    *)
(* part is one of them, counted unless there is no more of it than its     *)
(* header, too little for a message; so what one connection carried is     *)
(* behind the next one (ConnInv).  If the declared length is right the tcp *)
(* node never loses its place (AgreedInv).                                 *)
(***************************************************************************)
EXTENDS WeldStateStream, SequenceTheorems, TLAPS

LEMMA DivMod ==
  ASSUME NEW F \in {56, 57}, NEW x \in Nat
  PROVE  x % F \in 0..(F - 1) /\ x \div F \in Nat /\ x = F * (x \div F) + (x % F)
<1>1. CASE F = 56
  <2>1. x % 56 \in 0..55 /\ x \div 56 \in Nat /\ x = 56 * (x \div 56) + (x % 56)
    OBVIOUS
  <2> QED
    BY <1>1, <2>1
<1>2. CASE F = 57
  <2>1. x % 57 \in 0..56 /\ x \div 57 \in Nat /\ x = 57 * (x \div 57) + (x % 57)
    OBVIOUS
  <2> QED
    BY <1>2, <2>1
<1> QED
  BY <1>1, <1>2

LEMMA ModPlus ==
  ASSUME NEW F \in {56, 57}, NEW x \in Nat, NEW k \in 0..55
  PROVE  (x + k) % F = IF (x % F) + k < F THEN (x % F) + k ELSE (x % F) + k - F
<1>1. CASE F = 56
  <2>1. (x + k) % 56 = IF (x % 56) + k < 56 THEN (x % 56) + k ELSE (x % 56) + k - 56
    OBVIOUS
  <2> QED
    BY <1>1, <2>1
<1>2. CASE F = 57
  <2>1. (x + k) % 57 = IF (x % 57) + k < 57 THEN (x % 57) + k ELSE (x % 57) + k - 57
    OBVIOUS
  <2> QED
    BY <1>2, <2>1
<1> QED
  BY <1>1, <1>2

\* Which frame a position belongs to.
LEMMA InFrame ==
  ASSUME NEW F \in {56, 57}, NEW x \in Nat, NEW n \in Int
  PROVE  /\ x < F * n <=> x \div F < n
         /\ x >= F * n + 52 /\ x % F < 52 => x \div F > n
<1>1. CASE F = 56
  <2>1. x < 56 * n <=> x \div 56 < n
    OBVIOUS
  <2>2. x >= 56 * n + 52 /\ x % 56 < 52 => x \div 56 > n
    OBVIOUS
  <2> QED
    BY <1>1, <2>1, <2>2
<1>2. CASE F = 57
  <2>1. x < 57 * n <=> x \div 57 < n
    OBVIOUS
  <2>2. x >= 57 * n + 52 /\ x % 57 < 52 => x \div 57 > n
    OBVIOUS
  <2> QED
    BY <1>2, <2>1, <2>2
<1> QED
  BY <1>1, <1>2

LEMMA MoreFrames ==
  ASSUME NEW F \in {56, 57}, NEW m \in Int, NEW n \in Int
  PROVE  /\ F * m \in Int /\ F * (m + 1) = F * m + F
         /\ m < n => F * m + F <= F * n
         /\ m <= n => F * m <= F * n
         /\ m >= 0 => F * m >= 0
<1>1. CASE F = 56
  BY <1>1
<1>2. CASE F = 57
  BY <1>2
<1> QED
  BY <1>1, <1>2

LEMMA FrameSize ==
  ASSUME TypeOK
  PROVE  /\ cr \in {0, 1} /\ FrameLen = 56 + cr /\ FrameLen \in {56, 57}
         /\ HdrSize = 16 /\ Payload = 36 /\ Fields = 9 /\ length \in 1..255
         /\ base \in Nat /\ seq \in Nat /\ sent \in Nat /\ pos \in Nat /\ MaxSeq \in Nat
<1>1. cr \in {0, 1} /\ length \in 1..255 /\ MaxSeq \in Nat
  <2>1. cr \in CrSizes /\ length \in Lengths
    BY DEF TypeOK
  <2>2. Lengths \subseteq 1..255 /\ CrSizes \subseteq {0, 1} /\ MaxSeq \in Nat
    BY StreamAssumption
  <2> QED
    BY <2>1, <2>2
<1>2. HdrSize = 16 /\ Payload = 36 /\ Fields = 9
  BY DEF HdrSize, Payload, Fields
<1>3. FrameLen = 56 + cr
  BY <1>1, <1>2 DEF FrameLen
<1>4. seq \in Nat /\ base \in Nat
  BY <1>1 DEF TypeOK
<1>5. sent \in Nat /\ pos \in Nat
  BY <1>1, <1>3, <1>4 DEF TypeOK
<1> QED
  BY <1>1, <1>2, <1>3, <1>4, <1>5

\* Where a frame begins: its length, and its type.
LEMMA HeaderBytes ==
  ASSUME TypeOK, NEW x \in Nat
  PROVE  /\ x % FrameLen = 0 => ByteAt(x) = length
         /\ x % FrameLen \in {1, 2, 3, 5, 6, 7, 9, 10, 11} => ByteAt(x) = 0
         /\ x % FrameLen = 4 => ByteAt(x) = 15
         /\ x % FrameLen = 8 => ByteAt(x) = 1
         /\ x % FrameLen = 56 => ByteAt(x) = 13
<1> DEFINE o == x % FrameLen
<1>1. ByteAt(x) = IF o = 56 THEN 13 ELSE (Word(FrameAt(x), o \div 4) \div Shift(o % 4)) % 256
  BY FrameSize DEF ByteAt
<1>2. length \in 1..255
  BY FrameSize
<1> HIDE DEF o
<1>3. /\ Word(FrameAt(x), 0) = length /\ Word(FrameAt(x), 1) = 15 /\ Word(FrameAt(x), 2) = 1
      /\ Shift(0) = 1 /\ Shift(1) = 256 /\ Shift(2) = 65536 /\ Shift(3) = 16777216
  BY DEF Word, Shift
<1>4. o = 0 => ByteAt(x) = length
  BY <1>1, <1>2, <1>3
<1>5. /\ o = 1 => ByteAt(x) = 0
      /\ o = 2 => ByteAt(x) = 0
      /\ o = 3 => ByteAt(x) = 0
  BY <1>1, <1>2, <1>3
<1>6. /\ o = 4 => ByteAt(x) = 15
      /\ o \in {5, 6, 7} => ByteAt(x) = 0
  BY <1>1, <1>3
<1>7. /\ o = 8 => ByteAt(x) = 1
      /\ o \in {9, 10, 11} => ByteAt(x) = 0
  BY <1>1, <1>3
<1>8. o = 56 => ByteAt(x) = 13
  BY <1>1
<1> QED
  BY <1>4, <1>5, <1>6, <1>7, <1>8 DEF o

\* No header begins in the last bytes of a frame, whatever its length and data.
LEMMA NoLateHeader ==
  ASSUME TypeOK, NEW x \in Nat, Valid(x)
  PROVE  x % FrameLen < 52
<1> DEFINE r == x % FrameLen
<1>1. SUFFICES ASSUME r >= 52 PROVE FALSE
  BY FrameSize, DivMod
<1>2. r \in 52..56 /\ (FrameLen = 56 => r # 56)
  BY <1>1, FrameSize, DivMod
<1>3. ASSUME NEW k \in 4..11
      PROVE  (x + k) % FrameLen = IF r + k < FrameLen THEN r + k ELSE r + k - FrameLen
  <2>1. FrameLen \in {56, 57} /\ k \in 0..55
    BY FrameSize
  <2> QED
    BY <2>1, ModPlus
<1>4. /\ WordAt(x + 4) = ByteAt(x + 4) + 256 * ByteAt(x + 5) + 65536 * ByteAt(x + 6)
                           + 16777216 * ByteAt(x + 7)
      /\ WordAt(x + 8) = ByteAt(x + 8) + 256 * ByteAt(x + 9) + 65536 * ByteAt(x + 10)
                           + 16777216 * ByteAt(x + 11)
  BY DEF WordAt
<1>5. WordAt(x + 4) = 15 /\ WordAt(x + 8) = 1 /\ length \in 1..255 /\ FrameLen \in {56, 57}
  BY FrameSize DEF Valid
<1> HIDE DEF r
<1>6. CASE (FrameLen = 56 /\ r = 52) \/ (FrameLen = 57 /\ r = 53)
  <2>1. ByteAt(x + 8) = 15 /\ ByteAt(x + 9) = 0 /\ ByteAt(x + 10) = 0 /\ ByteAt(x + 11) = 0
    BY <1>3, <1>6, HeaderBytes
  <2> QED
    BY <1>4, <1>5, <2>1
<1>7. CASE FrameLen = 57 /\ r = 52
  <2>1. /\ ByteAt(x + 4) = 13 /\ ByteAt(x + 5) = length
        /\ ByteAt(x + 6) = 0 /\ ByteAt(x + 7) = 0
    BY <1>3, <1>7, HeaderBytes
  <2> QED
    BY <1>4, <1>5, <2>1
<1>8. CASE (FrameLen = 56 /\ r = 53) \/ (FrameLen = 57 /\ r = 54)
  <2>1. ByteAt(x + 4) = 0 /\ ByteAt(x + 5) = 0 /\ ByteAt(x + 6) = 0 /\ ByteAt(x + 7) = 15
    BY <1>3, <1>8, HeaderBytes
  <2> QED
    BY <1>4, <1>5, <2>1
<1>9. CASE (FrameLen = 56 /\ r = 54) \/ (FrameLen = 57 /\ r = 55)
  <2>1. ByteAt(x + 4) = 0 /\ ByteAt(x + 5) = 0 /\ ByteAt(x + 6) = 15 /\ ByteAt(x + 7) = 0
    BY <1>3, <1>9, HeaderBytes
  <2> QED
    BY <1>4, <1>5, <2>1
<1>10. CASE (FrameLen = 56 /\ r = 55) \/ (FrameLen = 57 /\ r = 56)
  <2>1. ByteAt(x + 4) = 0 /\ ByteAt(x + 5) = 15 /\ ByteAt(x + 6) = 0 /\ ByteAt(x + 7) = 0
    BY <1>3, <1>10, HeaderBytes
  <2> QED
    BY <1>4, <1>5, <2>1
<1> QED
  BY <1>2, <1>5, <1>6, <1>7, <1>8, <1>9, <1>10

\* What has arrived is bytes, and the words in it are numbers.
LEMMA FrameRange ==
  ASSUME TypeOK, NEW x \in Nat, x < sent
  PROVE  FrameAt(x) \in 1..MaxSeq /\ FrameAt(x) > base
<1>1. x < FrameLen * (MaxSeq - base)
  BY FrameSize DEF TypeOK
<1>2. x \div FrameLen < MaxSeq - base
  BY <1>1, FrameSize, InFrame
<1>3. x \div FrameLen \in Nat
  BY FrameSize, DivMod
<1> QED
  BY <1>2, <1>3, FrameSize DEF FrameAt

LEMMA DataRange ==
  ASSUME NEW k \in 1..MaxSeq
  PROVE  /\ Data[k] \in [1..9 -> Nat]
         /\ \A i \in 1..9 : Data[k][i] \in Nat /\ Data[k][i] < 65536
<1> DEFINE Row == [1..Fields -> Nat]
<1>1. Data \in [1..MaxSeq -> Row]
  BY DataAssumption
<1> HIDE DEF Row
<1>2. Data[k] \in Row
  BY <1>1
<1>3. Data[k] \in [1..9 -> Nat]
  BY <1>2 DEF Row, Fields
<1>4. \A i \in 1..Fields : Data[k][i] < 65536
  BY DataAssumption
<1> QED
  BY <1>3, <1>4 DEF Fields

LEMMA ByteRange ==
  ASSUME TypeOK, NEW x \in Nat, x < sent
  PROVE  ByteAt(x) \in 0..255
<1> DEFINE o == x % FrameLen
           w == Word(FrameAt(x), o \div 4)
<1>1. o \in 0..56
  BY FrameSize, DivMod
<1>2. ByteAt(x) = IF o = 56 THEN 13 ELSE (w \div Shift(o % 4)) % 256
  BY FrameSize DEF ByteAt
<1>3. CASE o = 56
  BY <1>2, <1>3
<1>4. CASE o # 56
  <2>1. o \div 4 \in 0..13 /\ o % 4 \in 0..3
    BY <1>1, <1>4
  <2>2. Shift(o % 4) \in {1, 256, 65536, 16777216}
    BY <2>1 DEF Shift
  <2>3. w \in Nat
    <3>1. CASE o \div 4 < 5
      <4>1. o \div 4 \in 0..4
        BY <2>1, <3>1
      <4>2. w = <<length, 15, 1, 0, FrameAt(x)>>[(o \div 4) + 1]
        BY <3>1 DEF Word
      <4> QED
        BY <4>1, <4>2, FrameSize, FrameRange
    <3>2. CASE ~(o \div 4 < 5)
      <4>1. (o \div 4) - 4 \in 1..9 /\ FrameAt(x) \in 1..MaxSeq
        BY <2>1, <3>2, FrameRange
      <4>2. Data[FrameAt(x)][(o \div 4) - 4] \in Nat
        BY <4>1, DataRange
      <4>3. w = Data[FrameAt(x)][(o \div 4) - 4]
        BY <3>2 DEF Word
      <4> QED
        BY <4>2, <4>3
    <3> QED
      BY <3>1, <3>2
  <2> HIDE DEF w
  <2>4. \A d \in {1, 256, 65536, 16777216} : (w \div d) % 256 \in 0..255
    BY <2>3
  <2> HIDE DEF o
  <2> QED
    BY <1>2, <1>4, <2>2, <2>4
<1> QED
  BY <1>3, <1>4

LEMMA WordRange ==
  ASSUME TypeOK, NEW x \in Nat, x + 3 < sent
  PROVE  WordAt(x) \in Nat
<1>1. \A k \in 0..3 : ByteAt(x + k) \in 0..255
  <2> SUFFICES ASSUME NEW k \in 0..3 PROVE ByteAt(x + k) \in 0..255
    OBVIOUS
  <2>1. x + k \in Nat /\ x + k < sent
    BY FrameSize
  <2> QED
    BY <2>1, ByteRange
<1>2. ByteAt(x + 0) \in Nat /\ ByteAt(x + 1) \in Nat /\ ByteAt(x + 2) \in Nat /\ ByteAt(x + 3) \in Nat
  BY <1>1
<1>3. x + 0 = x
  OBVIOUS
<1> QED
  BY <1>2, <1>3 DEF WordAt
-----------------------------------------------------------------------------
(* The inductive invariant *)

\* As long as the connection is there it has carried every frame since it was
\* made, but perhaps the last CR; what comes after the frames that count when it is
\* cut is no more than a header.
ConnInv ==
  /\ sock = "up" =>
       /\ srv = "up"
       /\ \/ sent = FrameLen * (seq - base)
          \/ cr = 1 /\ seq > base /\ sent = FrameLen * (seq - base) - 1
  /\ sock = "eof" =>
       /\ srv = "listening"
       /\ sent <= FrameLen * (seq - base) + HdrSize
  /\ npc \in {"error", "exit"} <=> sock = "none"

\* The node is past what it needs for a message in the frame it published last,
\* and a body it waits for began later.
FrameInv ==
  /\ out.n <= out.frame
  /\ out.frame > base => pos >= FrameLen * (out.frame - base - 1) + 52
  /\ npc = "header" => need = HdrSize
  /\ npc = "body" => pos >= HdrSize /\ FrameAt(pos - HdrSize) > out.frame
  /\ npc = "body" /\ node = "simple" => need \in {Payload, Payload + 4}

\* A tcp node and a program that agree on the length: the node is where a frame
\* or its body begins, in the frame that is next, or at the end of the stream.
NextOne(f) == f = base + 1 \/ f = out.frame + 1

AgreedInv ==
  Agreed =>
    /\ npc # "junk"
    /\ npc = "header" => \/ pos % FrameLen = 0 /\ NextOne(FrameAt(pos))
                         \/ pos = sent /\ sock = "eof"
    /\ npc = "body" => /\ pos % FrameLen = HdrSize /\ need = FrameLen - HdrSize
                       /\ NextOne(FrameAt(pos - HdrSize))

StreamInv == TypeOK /\ ConnInv /\ FrameInv

\* A message takes 52 bytes that have arrived, so it begins in a frame that counts.
LEMMA MessageFrame ==
  ASSUME StreamInv, npc = "body", Arrived, need >= 36
  PROVE  /\ pos - HdrSize \in Nat
         /\ FrameAt(pos - HdrSize) \in (out.frame + 1)..seq
         /\ FrameAt(pos - HdrSize) > base
         /\ pos + need >= FrameLen * (FrameAt(pos - HdrSize) - base - 1) + 52
<1> DEFINE h == pos - HdrSize
           q == h \div FrameLen
<1>0. TypeOK
  BY DEF StreamInv
<1>1. /\ FrameLen \in {56, 57} /\ HdrSize = 16 /\ seq \in Nat /\ base \in Nat
      /\ pos \in Nat /\ sent \in Nat
  BY <1>0, FrameSize
<1>2. need \in Nat /\ base <= seq /\ out.frame \in 0..seq
  BY <1>0 DEF TypeOK
<1>3. h \in Nat /\ h + 52 <= pos + need /\ pos + need <= sent /\ FrameAt(h) > out.frame
  BY <1>1, <1>2 DEF StreamInv, FrameInv, Arrived
<1>4. seq - base \in Int /\ FrameLen * (seq - base) \in Int
  BY <1>1, MoreFrames
<1>5. sent <= FrameLen * (seq - base) + 16
  <2>1. CASE sock = "up"
    <3> DEFINE all == FrameLen * (seq - base)
    <3>1. sent = all \/ sent = all - 1
      BY <2>1 DEF StreamInv, ConnInv
    <3> HIDE DEF all
    <3>2. all \in Int => sent <= all + 16
      BY <3>1
    <3> QED
      BY <1>4, <3>2 DEF all
  <2>2. CASE sock = "eof"
    BY <1>1, <2>2 DEF StreamInv, ConnInv
  <2>3. sock \in {"up", "eof"}
    BY <1>0 DEF StreamInv, ConnInv, TypeOK
  <2> QED
    BY <2>1, <2>2, <2>3
<1>7. FrameAt(h) = base + q + 1
  BY DEF FrameAt
<1>8. q \in Nat /\ h >= FrameLen * q
  BY <1>1, <1>3, DivMod
<1> HIDE DEF h
<1>9. h < FrameLen * (seq - base)
  <2> DEFINE all == FrameLen * (seq - base)
  <2>1. all \in Int /\ sent <= all + 16
    BY <1>4, <1>5
  <2> HIDE DEF all
  <2>2. h < all
    BY <1>1, <1>2, <1>3, <2>1
  <2> QED
    BY <2>2 DEF all
<1>10. q < seq - base
  BY <1>1, <1>3, <1>4, <1>9, InFrame
<1> HIDE DEF q
<1>11. FrameAt(h) \in (out.frame + 1)..seq /\ FrameAt(h) > base
  BY <1>1, <1>2, <1>3, <1>7, <1>8, <1>10
<1>12. FrameAt(h) - base - 1 = q
  BY <1>1, <1>7, <1>8
<1>13. pos + need >= FrameLen * q + 52
  BY <1>1, <1>2, <1>3, <1>8
<1> QED
  BY <1>3, <1>11, <1>12, <1>13 DEF h

\* A header the node takes for valid lies in a later frame than the last message.
LEMMA HeaderFrame ==
  ASSUME StreamInv, Valid(pos)
  PROVE  FrameAt(pos) > out.frame
<1>0. TypeOK
  BY DEF StreamInv
<1>1. /\ FrameLen \in {56, 57} /\ pos \in Nat /\ base \in Nat /\ out.frame \in Nat
  BY <1>0, FrameSize DEF TypeOK
<1>2. FrameAt(pos) = base + (pos \div FrameLen) + 1 /\ pos \div FrameLen \in Nat
  BY <1>1, DivMod DEF FrameAt
<1>3. CASE out.frame <= base
  BY <1>1, <1>2, <1>3
<1>4. CASE out.frame > base
  <2>1. pos >= FrameLen * (out.frame - base - 1) + 52
    BY <1>4 DEF StreamInv, FrameInv
  <2>2. pos % FrameLen < 52
    BY <1>0, <1>1, NoLateHeader
  <2>3. out.frame - base - 1 \in Int
    BY <1>1
  <2>4. pos \div FrameLen > out.frame - base - 1
    BY <1>1, <2>1, <2>2, <2>3, InFrame
  <2> QED
    BY <1>1, <1>2, <2>4
<1> QED
  BY <1>1, <1>3, <1>4

\* The program's last byte but perhaps a CR.
LEMMA LastByte ==
  ASSUME NEW F \in {56, 57}, NEW c \in {0, 1}, F = 56 + c, NEW n \in Nat, NEW s \in Nat,
         s = F * n \/ (c = 1 /\ n > 0 /\ s = F * n - 1)
  PROVE  /\ (s + c) \div F = n
         /\ s % F = 0 => s = F * n
         /\ s % F = 56 => c = 1 /\ n > 0 /\ s = F * n - 1
<1>1. CASE c = 0
  <2>1. s = 56 * n /\ (s + c) \div 56 = n /\ s % 56 = 0
    BY <1>1
  <2> QED
    BY <1>1, <2>1
<1>2. CASE c = 1
  <2>1. s = 57 * n \/ (n > 0 /\ s = 57 * n - 1)
    BY <1>2
  <2>2. (s + 1) \div 57 = n /\ (s % 57 = 0 => s = 57 * n)
        /\ (s % 57 = 56 => n > 0 /\ s = 57 * n - 1)
    BY <2>1
  <2> QED
    BY <1>2, <2>2
<1> QED
  BY <1>1, <1>2
-----------------------------------------------------------------------------
(* What each kind of step does to the stream *)

\* What the program does leaves the node alone.
Server == WriteFrame \/ CrArrives \/ WriteFails

\* The frames there are room for, and what is where on the connection.
SentOK ==
  /\ seq \in 0..MaxSeq /\ base \in 0..seq
  /\ srv \in {"listening", "up"} /\ sock \in {"none", "up", "eof"}
  /\ pos \in 0..sent /\ sent \in 0..(FrameLen * (MaxSeq - base))

LEMMA ServerStep ==
  ASSUME StreamInv, Server
  PROVE  SentOK' /\ ConnInv' /\ seq' >= seq
<1>0. TypeOK /\ ConnInv
  BY DEF StreamInv
<1>1. /\ FrameLen \in {56, 57} /\ cr \in {0, 1} /\ FrameLen = 56 + cr /\ HdrSize = 16 /\ Payload = 36
      /\ seq \in Nat /\ base \in Nat /\ pos \in Nat /\ sent \in Nat /\ MaxSeq \in Nat
  BY <1>0, FrameSize
<1>2. /\ base <= seq /\ seq <= MaxSeq /\ pos <= sent
      /\ sent <= FrameLen * (MaxSeq - base)
      /\ srv \in {"listening", "up"} /\ sock \in {"none", "up", "eof"}
  BY <1>0, <1>1 DEF TypeOK
<1>3. UNCHANGED <<fixed, npc, pos, base>> /\ FrameLen' = FrameLen
  BY DEF Server, WriteFrame, CrArrives, WriteFails, fixed, FrameLen, HdrSize, Payload
<1>4. sock = "up" => /\ srv = "up"
                     /\ \/ sent = FrameLen * (seq - base)
                        \/ cr = 1 /\ seq - base > 0 /\ sent = FrameLen * (seq - base) - 1
  BY <1>0, <1>1 DEF ConnInv
<1>5. sock = "eof" => srv = "listening"
  BY <1>0 DEF ConnInv
<1>6. seq - base \in Nat /\ MaxSeq - base \in Nat
  BY <1>1, <1>2
<1>7. sock = "up" =>
        /\ (sent + cr) \div FrameLen = seq - base
        /\ sent % FrameLen = 0 => sent = FrameLen * (seq - base)
        /\ sent % FrameLen = 56 => /\ cr = 1 /\ seq - base > 0
                                   /\ sent = FrameLen * (seq - base) - 1
  BY <1>1, <1>4, <1>6, LastByte
<1>8. /\ FrameLen * (seq - base) \in Nat
      /\ FrameLen * (MaxSeq - base) \in Nat
      /\ FrameLen * (seq - base + 1) = FrameLen * (seq - base) + FrameLen
      /\ seq < MaxSeq => FrameLen * (seq - base) + FrameLen <= FrameLen * (MaxSeq - base)
      /\ FrameLen * (seq - base) <= FrameLen * (MaxSeq - base)
  BY <1>1, <1>2, <1>6, MoreFrames
<1>9. CASE WriteFrame
  <2>1. /\ srv = "up" /\ srv' = srv /\ seq' = seq + 1 /\ seq < MaxSeq
        /\ sock' = sock /\ sock # "eof"
    BY <1>5, <1>9 DEF WriteFrame
  <2>2. CASE sock = "up"
    <3>1. PICK late \in 0..cr : sent' = FrameLen * ((sent + cr) \div FrameLen) + FrameLen - late
      BY <1>9, <2>2 DEF WriteFrame, Boundary
    <3>2. sent' = FrameLen * (seq - base) + FrameLen - late
      <4>1. (sent + cr) \div FrameLen = seq - base
        BY <1>7, <2>2
      <4> QED
        BY <3>1, <4>1
    <3>3. seq' - base = seq - base + 1
      BY <1>1, <2>1
    <3>4. \/ sent' = FrameLen * (seq' - base)
          \/ cr = 1 /\ seq' > base /\ sent' = FrameLen * (seq' - base) - 1
      <4> DEFINE all == FrameLen * (seq - base)
                 more == FrameLen * (seq' - base)
      <4>1. more = all + FrameLen /\ all \in Nat /\ sent' = all + FrameLen - late
        BY <1>8, <3>2, <3>3
      <4>2. late = 0 \/ (late = 1 /\ cr = 1 /\ seq' > base)
        BY <1>1, <1>2, <2>1, <3>1
      <4> HIDE DEF all, more
      <4>3. sent' = more \/ (cr = 1 /\ seq' > base /\ sent' = more - 1)
        BY <1>1, <4>1, <4>2
      <4> QED
        BY <4>3 DEF more
    <3>5. SentOK'
      BY <1>1, <1>2, <1>3, <1>4, <1>8, <2>1, <2>2, <3>1, <3>2 DEF SentOK
    <3>6. ConnInv'
      BY <1>0, <1>3, <1>4, <2>1, <2>2, <3>4 DEF ConnInv, fixed
    <3> QED
      BY <1>1, <2>1, <3>5, <3>6
  <2>3. CASE sock = "none"
    <3>1. sent' = sent
      BY <1>9, <2>3 DEF WriteFrame
    <3>2. SentOK'
      BY <1>1, <1>2, <1>3, <2>1, <2>3, <3>1 DEF SentOK
    <3>3. ConnInv'
      BY <1>0, <1>3, <2>1, <2>3 DEF ConnInv
    <3> QED
      BY <1>1, <2>1, <3>2, <3>3
  <2> QED
    BY <1>2, <2>1, <2>2, <2>3
<1>10. CASE CrArrives
  <2>1. /\ sock = "up" /\ sent % FrameLen = 56 /\ sent' = sent + 1
        /\ UNCHANGED <<srv, seq, sock>>
    BY <1>1, <1>10 DEF CrArrives
  <2>2. sent' = FrameLen * (seq - base)
    BY <1>1, <1>7, <1>8, <2>1
  <2>3. SentOK'
    BY <1>1, <1>2, <1>3, <1>8, <2>1, <2>2 DEF SentOK
  <2>4. ConnInv'
    BY <1>0, <1>3, <1>4, <2>1, <2>2 DEF ConnInv
  <2> QED
    BY <1>1, <2>1, <2>3, <2>4
<1>11. CASE WriteFails
  <2>1. srv = "up" /\ seq < MaxSeq /\ srv' = "listening" /\ sock # "eof"
    BY <1>5, <1>11 DEF WriteFails
  <2>2. PICK written \in Written :
          /\ seq' \in {seq, seq + 1} /\ (written > HdrSize => seq' = seq + 1)
          /\ IF sock = "none" THEN UNCHANGED <<sock, sent>>
             ELSE sock' = "eof" /\ sent' \in pos..(Boundary + written)
    BY <1>11 DEF WriteFails
  <2>3. /\ seq' \in Nat /\ seq' >= seq /\ seq' <= MaxSeq
        /\ written \in 0..FrameLen
    <3>1. written \in 0..FrameLen
      BY <1>1 DEF Written
    <3> QED
      BY <1>1, <1>2, <2>1, <2>2, <3>1
  <2>4. CASE sock = "none"
    <3>1. sent' = sent /\ sock' = sock
      BY <2>2, <2>4
    <3>2. SentOK'
      BY <1>1, <1>2, <1>3, <2>1, <2>3, <2>4, <3>1 DEF SentOK
    <3>3. ConnInv'
      BY <1>0, <1>3, <2>4, <3>1 DEF ConnInv
    <3> QED
      BY <2>3, <3>2, <3>3
  <2>5. CASE sock = "up"
    <3> DEFINE all == FrameLen * (seq - base)
    <3>1. /\ sock' = "eof" /\ sent' \in pos..(all + written)
          /\ all \in Nat /\ all + FrameLen <= FrameLen * (MaxSeq - base)
          /\ FrameLen * (MaxSeq - base) \in Nat
      BY <1>7, <1>8, <2>1, <2>2, <2>5 DEF Boundary
    <3>2. FrameLen * (seq' - base) = IF seq' = seq THEN all ELSE all + FrameLen
      <4>1. seq' = seq + 1 => seq' - base = seq - base + 1
        BY <1>1
      <4> QED
        BY <1>8, <2>2, <4>1
    <3>3. pos <= sent' /\ sent' \in 0..(FrameLen * (MaxSeq - base))
      <4> HIDE DEF all
      <4> QED
        BY <1>1, <1>8, <2>3, <3>1
    <3>4. SentOK'
      BY <1>1, <1>2, <1>3, <2>1, <2>3, <3>1, <3>3 DEF SentOK
    <3>5. npc' \notin {"error", "exit"}
      BY <1>0, <1>3, <2>5 DEF ConnInv
    <3>6. sent' <= FrameLen * (seq' - base) + 16
      <4> DEFINE more == FrameLen * (seq' - base)
      <4>1. /\ sent' \in pos..(all + written) /\ all \in Nat /\ more = IF seq' = seq THEN all ELSE all + FrameLen
        BY <3>1, <3>2
      <4>2. written \in 0..FrameLen /\ (written > 16 => seq' # seq)
        BY <1>1, <2>2, <2>3
      <4> HIDE DEF all, more
      <4>3. sent' <= more + 16
        BY <1>1, <4>1, <4>2
      <4> QED
        BY <4>3 DEF more
    <3>7. ConnInv'
      BY <1>1, <1>3, <2>1, <3>1, <3>5, <3>6 DEF ConnInv, HdrSize
    <3> QED
      BY <2>3, <3>4, <3>7
  <2> QED
    BY <1>2, <2>1, <2>4, <2>5
<1> QED
  BY <1>9, <1>10, <1>11 DEF Server

NodeOK ==
  /\ npc \in {"header", "body", "junk", "error", "exit"} /\ need \in Nat /\ errs \in 0..6
  /\ out \in [n : 0..seq, frame : 0..seq, words : Seq(Int)]

LEMMA TypeParts == TypeOK <=> SentOK /\ NodeOK /\ node \in Nodes /\ length \in Lengths /\ cr \in CrSizes
  BY DEF TypeOK, SentOK, NodeOK

\* The node reads on, or gives up the connection.
Receiving == npc \in {"header", "body", "junk"}
MovesOn ==
  /\ UNCHANGED <<fixed, srv, seq, sent, base>>
  /\ pos' \in pos..sent
  /\ \/ sock' = sock /\ npc' \in {"header", "body", "junk"}
     \/ sock' = "none" /\ npc' = "error"

LEMMA MovesOnStep ==
  ASSUME StreamInv, Receiving, MovesOn
  PROVE  SentOK' /\ ConnInv' /\ FrameLen' = FrameLen
<1>1. SentOK /\ ConnInv
  BY TypeParts DEF StreamInv
<1>2. pos \in Nat /\ sent \in Nat
  BY FrameSize DEF StreamInv
<1>3. FrameLen' = FrameLen
  BY DEF MovesOn, fixed, FrameLen, HdrSize, Payload
<1>4. SentOK'
  BY <1>1, <1>2, <1>3 DEF SentOK, MovesOn
<1>5. sock # "none"
  BY <1>1 DEF ConnInv, Receiving
<1>6. ConnInv'
  BY <1>1, <1>3, <1>5 DEF ConnInv, MovesOn, fixed
<1> QED
  BY <1>3, <1>4, <1>6

\* ... and is past the message published last all the more.
LEMMA StaysPast ==
  ASSUME StreamInv, Receiving, MovesOn, out' = out
  PROVE  /\ (out.n <= out.frame)'
         /\ (out.frame > base => pos >= FrameLen * (out.frame - base - 1) + 52)'
<1>1. FrameLen' = FrameLen /\ base' = base /\ pos' >= pos
  <2>1. pos \in Nat /\ sent \in Nat
    BY FrameSize DEF StreamInv
  <2> QED
    BY <2>1, MovesOnStep DEF MovesOn
<1>2. pos \in Nat /\ pos' \in Nat /\ base \in Nat /\ out.frame \in Nat /\ FrameLen \in {56, 57}
  BY FrameSize DEF StreamInv, TypeOK, MovesOn
<1>3. FrameLen * (out.frame - base - 1) \in Int
  BY <1>2, MoreFrames
<1> DEFINE z == FrameLen * (out.frame - base - 1)
<1>4. /\ out.n <= out.frame
      /\ out.frame > base => pos >= z + 52
  BY DEF StreamInv, FrameInv
<1>5. out.frame > base => pos' >= z + 52
  <2> HIDE DEF z
  <2> QED
    BY <1>1, <1>2, <1>3, <1>4 DEF z
<1> QED
  BY <1>1, <1>4, <1>5

LEMMA FailMoves ==
  ASSUME TypeOK, Fail
  PROVE  /\ errs' \in 0..6
         /\ (sock' = sock /\ npc' = "header") \/ (sock' = "none" /\ npc' = "error")
  BY DEF TypeOK, Fail

LEMMA MessageWords ==
  ASSUME TypeOK, NEW x \in Nat, x + 36 <= sent
  PROVE  [i \in 1..Fields |-> WordAt(x + 4 * (i - 1))] \in Seq(Int)
<1>1. Fields = 9 /\ sent \in Nat
  BY FrameSize
<1>2. ASSUME NEW i \in 1..9 PROVE WordAt(x + 4 * (i - 1)) \in Int
  <2>1. x + 4 * (i - 1) \in Nat /\ x + 4 * (i - 1) + 3 < sent
    BY <1>1
  <2> QED
    BY <2>1, WordRange
<1>3. [i \in 1..9 |-> WordAt(x + 4 * (i - 1))] \in [1..9 -> Int]
  BY <1>2
<1>4. [1..9 -> Int] \subseteq Seq(Int)
  <2>1. Seq(Int) = UNION {[1..n -> Int] : n \in Nat}
    BY SeqDef
  <2>2. 9 \in Nat
    OBVIOUS
  <2> QED
    BY <2>1, <2>2, Zenon
<1> QED
  BY <1>1, <1>3, <1>4

\* A message published moves the node on by what it is made of.
Publishes ==
  /\ Receiving /\ npc = "body" /\ Arrived /\ need >= 36
  /\ out'.n = out.n + 1 /\ out'.frame = FrameAt(pos - HdrSize)
  /\ out' \in [n : Int, frame : Int, words : Seq(Int)]
  /\ UNCHANGED <<fixed, srv, seq, sent, base>>
  /\ pos' \in (pos + need)..sent
  /\ sock' = sock /\ npc' = "header" /\ need' = HdrSize /\ errs' = 0

LEMMA PublishesStep ==
  ASSUME StreamInv, Publishes
  PROVE  SentOK' /\ ConnInv' /\ NodeOK' /\ FrameInv'
<1>1. /\ FrameLen \in {56, 57} /\ HdrSize = 16 /\ seq \in Nat /\ base \in Nat
      /\ pos \in Nat /\ sent \in Nat
  BY FrameSize DEF StreamInv
<1>2. need \in Nat /\ out.n \in Nat /\ out.frame \in Nat /\ out.n <= out.frame
  BY <1>1 DEF StreamInv, TypeOK, FrameInv
<1> DEFINE f == FrameAt(pos - HdrSize)
<1>3. f \in (out.frame + 1)..seq /\ f > base /\ pos + need >= FrameLen * (f - base - 1) + 52
  BY MessageFrame DEF Publishes
<1>4. MovesOn
  BY <1>1, <1>2 DEF Publishes, MovesOn
<1>5. SentOK' /\ ConnInv' /\ FrameLen' = FrameLen
  BY <1>4, MovesOnStep DEF Publishes
<1>6. out'.n = out.n + 1 /\ out'.frame = f
  BY DEF Publishes
<1> HIDE DEF f
<1>7. out'.n \in 0..seq /\ out'.frame \in 0..seq /\ out'.n <= out'.frame
  BY <1>1, <1>2, <1>3, <1>6
<1>8. NodeOK'
  <2>1. out' \in [n : 0..seq, frame : 0..seq, words : Seq(Int)]
    BY <1>7 DEF Publishes
  <2> QED
    BY <1>1, <2>1 DEF Publishes, NodeOK
<1>9. pos' >= FrameLen * (f - base - 1) + 52
  <2>1. FrameLen * (f - base - 1) \in Int
    BY <1>1, <1>3, MoreFrames
  <2>2. pos' >= pos + need /\ pos' \in Int
    BY <1>1, <1>2 DEF Publishes
  <2> QED
    BY <1>1, <1>2, <1>3, <2>1, <2>2
<1>10. FrameInv'
  BY <1>1, <1>5, <1>6, <1>7, <1>9 DEF FrameInv, Publishes, HdrSize
<1> QED
  BY <1>5, <1>8, <1>10

\* A message the tcp node publishes leaves it behind the body and what it has
\* consumed of a CR.
LEMMA TcpPublishes ==
  ASSUME StreamInv, TcpBody
  PROVE  \/ Publishes
         \/ MovesOn /\ out' = out /\ errs' = errs /\ npc' = "header" /\ need' = HdrSize
<1>0. TypeOK
  BY DEF StreamInv
<1>1. /\ HdrSize = 16 /\ Payload = 36 /\ pos \in Nat /\ sent \in Nat /\ need \in Nat
      /\ npc = "body" /\ pos + need <= sent
  BY <1>0, FrameSize DEF TypeOK, TcpBody, Arrived
<1> DEFINE n == Trimmed(need)
<1>2. n \in {need, need - 1, need - 2}
  BY <1>1 DEF Trimmed
<1>3. /\ UNCHANGED <<fixed, srv, seq, sock, sent, base>>
      /\ npc' = "header" /\ need' = HdrSize
  BY DEF TcpBody, NextHeader, Waits
<1>4. CASE n \in {36, 37, 40, 41}
  <2>1. out' = Message(pos + Offset(n)) /\ errs' = 0 /\ Consume(need)
    BY <1>1, <1>4 DEF TcpBody
  <2>2. pos + Offset(n) \in Nat /\ pos + Offset(n) + 36 <= sent /\ need >= 36
    BY <1>1, <1>2, <1>4 DEF Offset
  <2>3. [i \in 1..Fields |-> WordAt(pos + Offset(n) + 4 * (i - 1))] \in Seq(Int)
    BY <1>0, <2>2, MessageWords
  <2>4. /\ out'.n = out.n + 1 /\ out'.frame = FrameAt(pos - HdrSize)
        /\ out' = [n |-> out.n + 1, frame |-> FrameAt(pos - HdrSize),
                   words |-> [i \in 1..Fields |-> WordAt(pos + Offset(n) + 4 * (i - 1))]]
    BY <2>1 DEF Message
  <2>5. FrameAt(pos - HdrSize) \in Int /\ out.n \in Int
    <3>1. pos - HdrSize \in Nat
      BY <1>1 DEF StreamInv, FrameInv
    <3>2. FrameLen \in {56, 57} /\ base \in Nat /\ seq \in Nat
      BY <1>0, FrameSize
    <3>3. (pos - HdrSize) \div FrameLen \in Nat
      BY <3>1, <3>2, DivMod
    <3> QED
      BY <1>0, <3>2, <3>3 DEF FrameAt, TypeOK
  <2>6. out' \in [n : Int, frame : Int, words : Seq(Int)]
    BY <2>3, <2>4, <2>5
  <2>7. pos' \in (pos + need)..sent
    BY <1>1, <2>1 DEF Consume
  <2> QED
    BY <1>1, <1>3, <2>1, <2>2, <2>4, <2>6, <2>7 DEF Publishes, Receiving, TcpBody
<1>5. CASE n \notin {36, 37, 40, 41}
  <2>1. pos' = pos + need /\ out' = out /\ errs' = errs
    BY <1>1, <1>5 DEF TcpBody
  <2> QED
    BY <1>1, <1>3, <2>1 DEF MovesOn
<1> QED
  BY <1>4, <1>5

LEMMA SimplePublishes ==
  ASSUME StreamInv, SimpleBody
  PROVE  Publishes
<1>0. TypeOK
  BY DEF StreamInv
<1>1. /\ HdrSize = 16 /\ Payload = 36 /\ pos \in Nat /\ sent \in Nat
      /\ npc = "body" /\ node = "simple" /\ need \in {36, 40} /\ Arrived /\ pos - HdrSize \in Nat
  BY <1>0, FrameSize DEF StreamInv, FrameInv, SimpleBody
<1>2. pos + need <= sent
  BY <1>1 DEF Arrived
<1>3. /\ UNCHANGED <<fixed, srv, seq, sock, sent, base>>
      /\ npc' = "header" /\ need' = HdrSize /\ errs' = 0
  BY DEF SimpleBody, NextHeader, Waits
<1>4. pos' \in (pos + need)..sent
  BY <1>1, <1>2 DEF SimpleBody
<1>5. FrameAt(pos - HdrSize) \in Int /\ out.n \in Int
  <2>1. FrameLen \in {56, 57} /\ base \in Nat /\ seq \in Nat
    BY <1>0, FrameSize
  <2>2. (pos - HdrSize) \div FrameLen \in Nat
    BY <1>1, <2>1, DivMod
  <2> QED
    BY <1>0, <2>1, <2>2 DEF FrameAt, TypeOK
<1>6. PICK x \in {pos, pos + 4} :
        x + 36 <= pos + need /\ out' \in {Message(x), Garbage(Message(x))}
  BY <1>1 DEF SimpleBody
<1> DEFINE w == [i \in 1..Fields |-> WordAt(x + 4 * (i - 1))]
<1>7. Message(x) = [n |-> out.n + 1, frame |-> FrameAt(pos - HdrSize), words |-> w]
  BY DEF Message
<1>8. w \in Seq(Int)
  <2>1. x \in Nat /\ x + 36 <= sent
    BY <1>1, <1>2, <1>6
  <2> QED
    BY <1>0, <2>1, MessageWords
<1>9. <<>> \in Seq(Int)
  OBVIOUS
<1> HIDE DEF w
<1>10. Garbage(Message(x)) = [n |-> out.n + 1, frame |-> FrameAt(pos - HdrSize), words |-> <<>>]
  BY <1>7 DEF Garbage
<1>11. PICK v \in Seq(Int) :
         out' = [n |-> out.n + 1, frame |-> FrameAt(pos - HdrSize), words |-> v]
  BY <1>6, <1>7, <1>8, <1>9, <1>10
<1>12. /\ out'.n = out.n + 1 /\ out'.frame = FrameAt(pos - HdrSize)
       /\ out' \in [n : Int, frame : Int, words : Seq(Int)]
  BY <1>5, <1>11
<1> QED
  BY <1>1, <1>3, <1>4, <1>12 DEF Publishes, Receiving

\* Any other step of a node that is receiving: a body begins after a valid header.
ReadsOn ==
  /\ Receiving /\ MovesOn /\ out' = out /\ need' \in Nat /\ errs' \in 0..6
  /\ npc' = "header" => need' = HdrSize
  /\ npc' = "body" => /\ npc = "header" /\ pos' = pos + HdrSize /\ Valid(pos)
                      /\ node = "simple" => need' \in {Payload, Payload + 4}

LEMMA ReadsOnStep ==
  ASSUME StreamInv, ReadsOn
  PROVE  SentOK' /\ ConnInv' /\ NodeOK' /\ FrameInv'
<1>0. TypeOK /\ HdrSize = 16 /\ Payload = 36 /\ pos \in Nat
  BY FrameSize DEF StreamInv
<1>1. SentOK' /\ ConnInv' /\ FrameLen' = FrameLen
  BY MovesOnStep DEF ReadsOn
<1>2. NodeOK'
  BY <1>0, TypeParts DEF NodeOK, ReadsOn, MovesOn
<1>3. npc' = "body" => pos' >= HdrSize /\ FrameAt(pos - HdrSize)' > out'.frame
  <2> SUFFICES ASSUME npc' = "body" PROVE pos' >= HdrSize /\ FrameAt(pos - HdrSize)' > out'.frame
    OBVIOUS
  <2>1. pos' = pos + HdrSize /\ FrameAt(pos) > out.frame /\ out' = out /\ base' = base
    BY HeaderFrame DEF ReadsOn, MovesOn
  <2>2. pos' - HdrSize = pos
    BY <1>0, <2>1
  <2>3. FrameAt(pos - HdrSize)' = FrameAt(pos)
    BY <1>1, <2>1, <2>2 DEF FrameAt, HdrSize
  <2> QED
    BY <1>0, <2>1, <2>3
<1>4. FrameInv'
  <2>1. node' = node /\ HdrSize' = HdrSize /\ Payload' = Payload
    BY DEF ReadsOn, MovesOn, fixed, HdrSize, Payload, Fields
  <2>2. npc' = "body" => (node' = "simple" => need' \in {Payload, Payload + 4})
    BY <2>1 DEF ReadsOn
  <2>3. npc' = "header" => need' = HdrSize
    BY DEF ReadsOn
  <2> QED
    BY <1>3, <2>1, <2>2, <2>3, StaysPast DEF FrameInv, ReadsOn
<1> QED
  BY <1>1, <1>2, <1>4

\* A new connection carries what has not been sent on an earlier one.
Connects ==
  /\ srv' = "up" /\ sock' = "up" /\ FreshStream /\ NextHeader /\ errs' \in 0..6
  /\ UNCHANGED <<fixed, seq, out>>

LEMMA ConnectsStep ==
  ASSUME StreamInv, Connects
  PROVE  SentOK' /\ ConnInv' /\ NodeOK' /\ FrameInv'
<1>0. TypeOK /\ HdrSize = 16 /\ FrameLen \in {56, 57} /\ seq \in Nat /\ MaxSeq \in Nat
  BY FrameSize DEF StreamInv
<1>1. /\ seq \in 0..MaxSeq
      /\ out \in [n : 0..seq, frame : 0..seq, words : Seq(Int)]
  BY <1>0 DEF TypeOK
<1>2. /\ srv' = "up" /\ sock' = "up" /\ npc' = "header" /\ need' = HdrSize
      /\ pos' = 0 /\ sent' = 0 /\ base' = seq
      /\ UNCHANGED <<node, length, cr, seq, out>>
  BY DEF Connects, FreshStream, NextHeader, Waits, fixed
<1>3. FrameLen' = FrameLen
  BY <1>2 DEF FrameLen, HdrSize, Payload
<1>4. SentOK'
  <2>1. FrameLen * (MaxSeq - seq) >= 0 /\ FrameLen * (MaxSeq - seq) \in Int
    BY <1>0, <1>1, MoreFrames
  <2> QED
    BY <1>0, <1>1, <1>2, <1>3, <2>1 DEF SentOK
<1>5. ConnInv'
  <2>1. FrameLen * (seq - seq) = 0
    BY <1>0
  <2> QED
    BY <1>0, <1>1, <1>2, <1>3, <2>1 DEF ConnInv
<1>6. NodeOK'
  BY <1>0, <1>1, <1>2 DEF NodeOK, Connects
<1>7. FrameInv'
  <2>1. out.n <= out.frame /\ ~(out.frame > seq)
    BY <1>0, <1>1 DEF StreamInv, FrameInv
  <2> QED
    BY <1>2, <2>1 DEF FrameInv, HdrSize
<1> QED
  BY <1>4, <1>5, <1>6, <1>7

LEMMA NodeSteps ==
  ASSUME StreamInv, Node \/ StartNode
  PROVE  \/ Publishes \/ ReadsOn \/ Connects
         \/ npc = "error" /\ npc' = "exit" /\ UNCHANGED <<fixed, srv, seq, sock, stream, need, errs, out>>
<1>0. /\ TypeOK /\ HdrSize = 16 /\ Payload = 36 /\ pos \in Nat /\ sent \in Nat /\ pos <= sent
      /\ need \in Nat /\ errs \in 0..6
  BY FrameSize DEF StreamInv, TypeOK
<1>h. npc = "header" => need = 16
  BY <1>0 DEF StreamInv, FrameInv
<1>1. CASE HeaderEnds
  BY <1>0, <1>1, FailMoves DEF HeaderEnds, ReadsOn, MovesOn, Receiving
<1>2. CASE TcpHeader
  <2>1. pos + 16 <= sent /\ npc = "header"
    BY <1>0, <1>2, <1>h DEF TcpHeader, Arrived
  <2>2. WordAt(pos) \in Nat
    BY <1>0, <2>1, WordRange
  <2>3. MovesOn
    BY <1>0, <1>2, <2>1 DEF TcpHeader, MovesOn, Waits, NextHeader
  <2>4. /\ Receiving /\ out' = out /\ errs' \in 0..6 /\ pos' = pos + HdrSize /\ node = "tcp"
    BY <1>0, <1>2 DEF TcpHeader, Receiving
  <2>5. CASE Valid(pos) /\ WordAt(pos) >= 4 + Payload
    <3>1. npc' = "body" /\ need' = WordAt(pos) - 12
      BY <1>2, <2>5 DEF TcpHeader, Waits
    <3>2. need' \in Nat
      BY <1>0, <2>2, <2>5, <3>1
    <3> QED
      BY <2>1, <2>3, <2>4, <2>5, <3>1, <3>2 DEF ReadsOn
  <2>6. CASE ~(Valid(pos) /\ WordAt(pos) >= 4 + Payload)
    <3>1. \/ npc' = "junk" /\ need' = WordAt(pos)
          \/ npc' = "header" /\ need' = HdrSize
      BY <1>2, <2>6 DEF TcpHeader, Waits, NextHeader
    <3> QED
      BY <1>0, <2>2, <2>3, <2>4, <3>1 DEF ReadsOn
  <2> QED
    BY <2>5, <2>6
<1>3. CASE TcpSkip
  <2>1. pos' \in pos..sent
    BY <1>0, <1>3 DEF TcpSkip, Arrived
  <2> QED
    BY <1>0, <1>3, <2>1 DEF TcpSkip, ReadsOn, MovesOn, Receiving, NextHeader, Waits
<1>4. CASE TcpBody
  <2>1. CASE MovesOn /\ out' = out /\ errs' = errs /\ npc' = "header" /\ need' = HdrSize
    BY <1>0, <1>4, <2>1 DEF TcpBody, ReadsOn, Receiving
  <2> QED
    BY <1>4, <2>1, TcpPublishes
<1>5. CASE SimpleHeader
  <2>1. pos + 16 <= sent /\ npc = "header" /\ pos' = pos + HdrSize /\ out' = out
    BY <1>0, <1>5, <1>h DEF SimpleHeader, Arrived
  <2>2. pos' \in pos..sent
    BY <1>0, <2>1
  <2>3. CASE Valid(pos) /\ WordAt(pos) \in {Payload, 53}
    <3>1. /\ npc' = "body" /\ errs' = errs /\ sock' = sock
          /\ need' \in {4 + Payload, Payload}
          /\ UNCHANGED <<fixed, srv, seq, sent, base>>
      BY <1>5, <2>3 DEF SimpleHeader, Waits
    <3> QED
      BY <1>0, <2>1, <2>2, <2>3, <3>1 DEF ReadsOn, MovesOn, Receiving
  <2>4. CASE ~(Valid(pos) /\ WordAt(pos) \in {Payload, 53})
    <3>1. Fail /\ need' = HdrSize /\ UNCHANGED <<fixed, srv, seq, sent, base>>
      BY <1>5, <2>4 DEF SimpleHeader
    <3> QED
      BY <1>0, <2>1, <2>2, <3>1, FailMoves DEF ReadsOn, MovesOn, Receiving
  <2> QED
    BY <2>3, <2>4
<1>6. CASE SimpleBody
  BY <1>6, SimplePublishes
<1>7. CASE SimpleBodyEnds
  BY <1>0, <1>7, FailMoves DEF SimpleBodyEnds, ReadsOn, MovesOn, Receiving
<1>8. CASE Reconnect
  BY <1>0, <1>8 DEF Reconnect, Connects
<1>9. CASE StartNode
  BY <1>0, <1>9 DEF StartNode, Connects
<1> QED
  BY <1>1, <1>2, <1>3, <1>4, <1>5, <1>6, <1>7, <1>8, <1>9 DEF Node
-----------------------------------------------------------------------------
LEMMA StreamInit == Init => StreamInv
<1> SUFFICES ASSUME Init PROVE StreamInv
  OBVIOUS
<1>1. cr \in {0, 1} /\ MaxSeq \in Nat
  BY StreamAssumption DEF Init
<1>2. FrameLen = 56 + cr /\ FrameLen \in {56, 57} /\ HdrSize = 16
  BY <1>1 DEF FrameLen, HdrSize, Payload, Fields
<1>3. FrameLen * (MaxSeq - 0) >= 0 /\ FrameLen * (MaxSeq - 0) \in Int
  BY <1>1, <1>2, MoreFrames
<1>4. SentOK
  BY <1>1, <1>2, <1>3 DEF Init, SentOK
<1>5. <<>> \in Seq(Int)
  OBVIOUS
<1>6. NodeOK
  BY <1>2, <1>5 DEF Init, NodeOK, NoMsg
<1>7. TypeOK
  BY <1>4, <1>6, TypeParts DEF Init
<1>8. ConnInv /\ FrameInv
  BY <1>2 DEF Init, ConnInv, FrameInv, NoMsg
<1> QED
  BY <1>7, <1>8 DEF StreamInv

LEMMA StreamStep ==
  ASSUME StreamInv, [Next]_vars
  PROVE  StreamInv'
<1>0. TypeOK /\ ConnInv /\ FrameInv /\ SentOK /\ NodeOK
  BY TypeParts DEF StreamInv
<1>1. UNCHANGED fixed
  BY DEF Next, Server, Node, WriteFrame, CrArrives, WriteFails, HeaderEnds, TcpHeader, TcpSkip,
     TcpBody, SimpleHeader, SimpleBody, SimpleBodyEnds, Reconnect, StartNode, vars
<1>2. SentOK' /\ ConnInv' /\ NodeOK' /\ FrameInv'
  <2>1. CASE Server
    <3>1. SentOK' /\ ConnInv' /\ seq' >= seq
      BY <2>1, ServerStep
    <3>2. UNCHANGED <<fixed, npc, need, pos, base, errs, out>>
      BY <2>1 DEF Server, WriteFrame, CrArrives, WriteFails
    <3>3. seq \in Nat /\ seq' \in Nat
      BY <1>0, <3>1, FrameSize DEF SentOK
    <3>4. 0..seq \subseteq 0..seq'
      BY <3>1, <3>3
    <3>5. NodeOK'
      BY <1>0, <3>2, <3>4 DEF NodeOK
    <3>6. FrameInv'
      BY <1>0, <3>2 DEF FrameInv, fixed, FrameAt, FrameLen, HdrSize, Payload
    <3> QED
      BY <3>1, <3>5, <3>6
  <2>2. CASE \/ npc = "error" /\ npc' = "exit"
                /\ UNCHANGED <<fixed, srv, seq, sock, stream, need, errs, out>>
             \/ UNCHANGED vars
    <3>1. UNCHANGED <<fixed, srv, seq, sock, pos, sent, base, need, errs, out>>
      BY <2>2 DEF stream, vars
    <3>2. npc' = npc \/ (npc = "error" /\ npc' = "exit")
      BY <2>2 DEF vars
    <3>3. FrameLen' = FrameLen
      BY <3>1 DEF fixed, FrameLen, HdrSize, Payload
    <3>4. SentOK'
      BY <1>0, <3>1, <3>3 DEF SentOK
    <3>5. ConnInv'
      BY <1>0, <3>1, <3>2, <3>3 DEF ConnInv, fixed
    <3>6. NodeOK'
      BY <1>0, <3>1, <3>2 DEF NodeOK
    <3>7. FrameInv'
      BY <1>0, <3>1, <3>2, <3>3 DEF FrameInv, fixed, FrameAt, HdrSize
    <3> QED
      BY <3>4, <3>5, <3>6, <3>7
  <2>3. CASE Node \/ StartNode
    BY <2>2, <2>3, NodeSteps, PublishesStep, ReadsOnStep, ConnectsStep
  <2> QED
    BY <2>1, <2>2, <2>3 DEF Next, Server
<1>3. TypeOK'
  <2>1. node' \in Nodes /\ length' \in Lengths /\ cr' \in CrSizes
    BY <1>0, <1>1 DEF TypeOK, fixed
  <2>2. (SentOK /\ NodeOK /\ node \in Nodes /\ length \in Lengths /\ cr \in CrSizes => TypeOK)'
    BY DEF TypeOK, SentOK, NodeOK, FrameLen
  <2> QED
    BY <1>2, <2>1, <2>2
<1> QED
  BY <1>2, <1>3 DEF StreamInv

\* Every variable has its type; in particular the node never reads more than has
\* arrived and never publishes more messages than frames were sent.
THEOREM TypeCorrect == Spec => []TypeOK
<1>1. StreamInv => TypeOK
  BY DEF StreamInv
<1> QED
  BY <1>1, StreamInit, StreamStep, PTL DEF Spec

\* Whatever the length that is declared and whatever the data, each message begins
\* in a later frame than the one before, over any number of connections, and none
\* in a frame written in part.
THEOREM MessagesInOrder == Spec => InOrderOnce
<1>1. StreamInv /\ [Next]_vars =>
        [out' # out => out'.frame > out.frame]_vars
  <2> SUFFICES ASSUME StreamInv, [Next]_vars, out' # out
               PROVE  out'.frame > out.frame
    OBVIOUS
  <2>1. Node \/ StartNode
    BY DEF Next, Server, WriteFrame, CrArrives, WriteFails, vars
  <2>2. Publishes
    BY <2>1, NodeSteps DEF ReadsOn, Connects
  <2>3. FrameAt(pos - HdrSize) \in (out.frame + 1)..seq
    BY <2>2, MessageFrame DEF Publishes
  <2>4. out.frame \in Nat /\ seq \in Nat
    BY FrameSize DEF StreamInv, TypeOK
  <2> QED
    BY <2>2, <2>3, <2>4 DEF Publishes
<1> QED
  BY <1>1, StreamInit, StreamStep, PTL DEF Spec, InOrderOnce
-----------------------------------------------------------------------------
(* A tcp node and a program that agree on the length *)

\* From the beginning of a frame to that of the next one.
LEMMA WithinFrame ==
  ASSUME NEW F \in {56, 57}, NEW x \in Nat, x % F = 0, NEW k \in 0..55
  PROVE  (x + k) % F = k /\ (x + k) \div F = x \div F
<1>1. CASE F = 56
  <2>1. x % 56 = 0 => (x + k) % 56 = k /\ (x + k) \div 56 = x \div 56
    OBVIOUS
  <2> QED
    BY <1>1, <2>1
<1>2. CASE F = 57
  <2>1. x % 57 = 0 => (x + k) % 57 = k /\ (x + k) \div 57 = x \div 57
    OBVIOUS
  <2> QED
    BY <1>2, <2>1
<1> QED
  BY <1>1, <1>2

LEMMA NextFrame ==
  ASSUME NEW F \in {56, 57}, NEW x \in Nat, x % F = 0
  PROVE  (x + F) % F = 0 /\ (x + F) \div F = (x \div F) + 1
<1>1. CASE F = 56
  <2>1. x % 56 = 0 => (x + 56) % 56 = 0 /\ (x + 56) \div 56 = (x \div 56) + 1
    OBVIOUS
  <2> QED
    BY <1>1, <2>1
<1>2. CASE F = 57
  <2>1. x % 57 = 0 => (x + 57) % 57 = 0 /\ (x + 57) \div 57 = (x \div 57) + 1
    OBVIOUS
  <2> QED
    BY <1>2, <2>1
<1> QED
  BY <1>1, <1>2

\* At the beginning of a frame the node finds a valid header.
LEMMA HeaderThere ==
  ASSUME TypeOK, NEW x \in Nat, x % FrameLen = 0
  PROVE  WordAt(x) = length /\ Valid(x)
<1>0. FrameLen \in {56, 57} /\ length \in 1..255
  BY FrameSize
<1>1. ASSUME NEW k \in 0..11
      PROVE  (x + k) % FrameLen = k /\ (x + k) \div FrameLen = x \div FrameLen
  <2>1. k \in 0..55
    OBVIOUS
  <2> QED
    BY <1>0, <2>1, WithinFrame
<1>2. ASSUME NEW k \in 0..11
      PROVE  /\ k = 0 => ByteAt(x + k) = length
             /\ k \in {1, 2, 3, 5, 6, 7, 9, 10, 11} => ByteAt(x + k) = 0
             /\ k = 4 => ByteAt(x + k) = 15
             /\ k = 8 => ByteAt(x + k) = 1
  <2>1. x + k \in Nat
    OBVIOUS
  <2> QED
    BY <1>1, <2>1, HeaderBytes
<1>3. /\ ByteAt(x) = length /\ ByteAt(x + 1) = 0 /\ ByteAt(x + 2) = 0 /\ ByteAt(x + 3) = 0
      /\ ByteAt(x + 4) = 15 /\ ByteAt(x + 5) = 0 /\ ByteAt(x + 6) = 0 /\ ByteAt(x + 7) = 0
      /\ ByteAt(x + 8) = 1 /\ ByteAt(x + 9) = 0 /\ ByteAt(x + 10) = 0 /\ ByteAt(x + 11) = 0
  <2>1. x + 0 = x
    OBVIOUS
  <2> QED
    BY <1>2, <2>1
<1>4. length \in Nat
  BY <1>0
<1>5. /\ WordAt(x) = ByteAt(x) + 256 * ByteAt(x + 1) + 65536 * ByteAt(x + 2)
                       + 16777216 * ByteAt(x + 3)
      /\ WordAt(x + 4) = ByteAt(x + 4) + 256 * ByteAt(x + 5) + 65536 * ByteAt(x + 6)
                           + 16777216 * ByteAt(x + 7)
      /\ WordAt(x + 8) = ByteAt(x + 8) + 256 * ByteAt(x + 9) + 65536 * ByteAt(x + 10)
                           + 16777216 * ByteAt(x + 11)
  BY DEF WordAt
<1> QED
  BY <1>3, <1>4, <1>5 DEF Valid

\* The bytes of the i-th word of the data of the frame that begins at x.
LEMMA DataBytes ==
  ASSUME TypeOK, NEW x \in Nat, x % FrameLen = 0, NEW i \in 1..9, NEW j \in 0..3
  PROVE  ByteAt(x + (16 + 4 * i + j)) = (Data[FrameAt(x)][i] \div Shift(j)) % 256
<1> DEFINE k == 16 + 4 * i + j
<1>0. FrameLen \in {56, 57} /\ HdrSize = 16 /\ Payload = 36 /\ base \in Nat
  BY FrameSize
<1>1. k \in 0..55 /\ k \div 4 = i + 4 /\ k % 4 = j
  OBVIOUS
<1> HIDE DEF k
<1>2. (x + k) % FrameLen = k /\ (x + k) \div FrameLen = x \div FrameLen
  BY <1>0, <1>1, WithinFrame
<1>3. FrameAt(x + k) = FrameAt(x)
  BY <1>2 DEF FrameAt
<1>4. Word(FrameAt(x), i + 4) = Data[FrameAt(x)][i]
  <2>1. ~(i + 4 < 5) /\ (i + 4) - 4 = i
    OBVIOUS
  <2> QED
    BY <2>1 DEF Word
<1>5. ByteAt(x + k) = (Word(FrameAt(x), i + 4) \div Shift(j)) % 256
  <2>1. k # 56
    BY <1>1
  <2> QED
    BY <1>0, <1>1, <1>2, <1>3, <2>1 DEF ByteAt
<1> QED
  BY <1>4, <1>5 DEF k

LEMMA DataWord ==
  ASSUME TypeOK, NEW x \in Nat, x % FrameLen = 0, x < sent, NEW i \in 1..9
  PROVE  WordAt(x + (16 + 4 * i)) = Data[FrameAt(x)][i]
<1> DEFINE v == Data[FrameAt(x)][i]
           p == x + (16 + 4 * i)
<1>1. v \in Nat /\ v < 65536
  BY FrameRange, DataRange
<1>2. ASSUME NEW j \in 0..3 PROVE ByteAt(p + j) = (v \div Shift(j)) % 256
  <2>1. p + j = x + (16 + 4 * i + j)
    OBVIOUS
  <2> QED
    BY <2>1, DataBytes
<1>3. p \in Nat /\ p + 0 = p
  OBVIOUS
<1> HIDE DEF p, v
<1>4. Shift(0) = 1 /\ Shift(1) = 256 /\ Shift(2) = 65536 /\ Shift(3) = 16777216
  BY DEF Shift
<1>5. /\ ByteAt(p) = v % 256 /\ ByteAt(p + 1) = (v \div 256) % 256
      /\ ByteAt(p + 2) = 0 /\ ByteAt(p + 3) = 0
  <2>1. /\ v \div 1 = v /\ v \div 65536 = 0 /\ v \div 16777216 = 0
    BY <1>1
  <2>2. ByteAt(p + 0) = (v \div Shift(0)) % 256
    BY <1>2
  <2>3. ByteAt(p + 1) = (v \div Shift(1)) % 256
    BY <1>2
  <2>4. ByteAt(p + 2) = (v \div Shift(2)) % 256
    BY <1>2
  <2>5. ByteAt(p + 3) = (v \div Shift(3)) % 256
    BY <1>2
  <2> QED
    BY <1>3, <1>4, <2>1, <2>2, <2>3, <2>4, <2>5
<1>6. (v % 256) + 256 * ((v \div 256) % 256) = v
  BY <1>1
<1>7. WordAt(p) = v
  BY <1>1, <1>5, <1>6 DEF WordAt
<1> QED
  BY <1>7 DEF p, v

\* The body of a frame: what is trimmed is the CR, and what follows is a header.
LEMMA BodyThere ==
  ASSUME TypeOK, Agreed, NEW x \in Nat, x % FrameLen = 0, x < sent
  PROVE  /\ ByteAt(x + 55) = 0
         /\ FrameLen = 57 => ByteAt(x + 56) = 13
         /\ ~CrLf(x + FrameLen)
<1>0. FrameLen \in {56, 57} /\ length \in 1..255 /\ length = FrameLen - 4
  BY FrameSize DEF Agreed
<1>1. ByteAt(x + 55) = 0
  <2> DEFINE v == Data[FrameAt(x)][9]
  <2>1. v \in Nat /\ v < 65536
    BY FrameRange, DataRange
  <2>2. ByteAt(x + (16 + 4 * 9 + 3)) = (v \div Shift(3)) % 256
    BY DataBytes
  <2> HIDE DEF v
  <2>3. Shift(3) = 16777216
    BY DEF Shift
  <2>4. v \div 16777216 = 0
    BY <2>1
  <2> QED
    BY <2>2, <2>3, <2>4
<1>2. ASSUME FrameLen = 57 PROVE ByteAt(x + 56) = 13
  <2>1. x % 57 = 0 => (x + 56) % 57 = 56
    OBVIOUS
  <2>2. (x + 56) % FrameLen = 56 /\ x + 56 \in Nat
    BY <1>2, <2>1
  <2> QED
    BY <2>2, HeaderBytes
<1>3. ~CrLf(x + FrameLen)
  <2>1. (x + FrameLen) % FrameLen = 0 /\ x + FrameLen \in Nat
    BY <1>0, NextFrame
  <2>2. ByteAt(x + FrameLen) = length
    BY <2>1, HeaderBytes
  <2> QED
    BY <1>0, <2>2 DEF CrLf
<1> QED
  BY <1>1, <1>2, <1>3

\* Waiting for a body that has arrived, the node publishes it and is at the next
\* frame.
LEMMA AgreedBody ==
  ASSUME StreamInv, AgreedInv, Agreed, TcpBody
  PROVE  LET h == pos - HdrSize
         IN  /\ h \in Nat /\ h % FrameLen = 0 /\ NextOne(FrameAt(h))
             /\ out'.frame = FrameAt(h) /\ out'.words = Data[FrameAt(h)]
             /\ pos' = h + FrameLen
<1>0. TypeOK
  BY DEF StreamInv
<1>1. /\ FrameLen \in {56, 57} /\ HdrSize = 16 /\ Payload = 36 /\ Fields = 9
      /\ pos \in Nat /\ sent \in Nat
  BY <1>0, FrameSize
<1>2. /\ npc = "body" /\ pos % FrameLen = 16 /\ need = FrameLen - 16
      /\ NextOne(FrameAt(pos - HdrSize)) /\ pos - HdrSize \in Nat /\ pos + need <= sent
  BY <1>1 DEF AgreedInv, TcpBody, StreamInv, FrameInv, Arrived
<1> DEFINE h == pos - HdrSize
<1>3. h \in Nat /\ pos = h + 16 /\ h < sent
  BY <1>1, <1>2
<1> HIDE DEF h
<1>4. h % FrameLen = 0
  <2>1. (h + 16) % 56 = 16 => h % 56 = 0
    BY <1>3
  <2>2. (h + 16) % 57 = 16 => h % 57 = 0
    BY <1>3
  <2> QED
    BY <1>1, <1>2, <1>3, <2>1, <2>2
<1>5. /\ ByteAt(h + 55) = 0 /\ (FrameLen = 57 => ByteAt(h + 56) = 13) /\ ~CrLf(h + FrameLen)
  BY <1>0, <1>3, <1>4, BodyThere
<1>6. Trimmed(need) = 40
  <2>1. CASE FrameLen = 56
    <3>1. (pos + need) - 1 = h + 55 /\ need = 40
      BY <1>2, <1>3, <2>1
    <3> QED
      BY <1>5, <3>1 DEF Trimmed, CrLf
  <2>2. CASE FrameLen = 57
    <3>1. (pos + need) - 1 = h + 56 /\ (pos + need) - 2 = h + 55 /\ need = 41
      BY <1>2, <1>3, <2>2
    <3> QED
      BY <1>5, <2>2, <3>1 DEF Trimmed, CrLf
  <2> QED
    BY <1>1, <2>1, <2>2
<1>7. out' = Message(pos + 4) /\ Consume(need)
  BY <1>1, <1>6 DEF TcpBody, Offset
<1>8. pos' = h + FrameLen
  <2>1. pos + need = h + FrameLen
    BY <1>1, <1>2, <1>3
  <2>2. PICK more \in 0..(sent - (pos + need)) :
          /\ pos' = pos + need + more
          /\ \A x \in (pos + need)..(pos' - 1) : CrLf(x)
    BY <1>7 DEF Consume
  <2>3. more = 0
    <3> SUFFICES ASSUME more > 0 PROVE FALSE
      BY <1>1, <1>2, <2>2
    <3>1. (pos + need) \in (pos + need)..(pos' - 1)
      BY <1>1, <1>2, <2>2
    <3> QED
      BY <1>5, <2>1, <2>2, <3>1
  <2> QED
    BY <1>1, <1>2, <1>3, <2>1, <2>2, <2>3
<1>9. out'.frame = FrameAt(h) /\ out'.words = Data[FrameAt(h)]
  <2>1. /\ out'.frame = FrameAt(h)
        /\ out'.words = [i \in 1..9 |-> WordAt(pos + 4 + 4 * (i - 1))]
    BY <1>1, <1>7 DEF Message, h
  <2>2. \A i \in 1..9 : WordAt(pos + 4 + 4 * (i - 1)) = Data[FrameAt(h)][i]
    <3> SUFFICES ASSUME NEW i \in 1..9
                 PROVE  WordAt(pos + 4 + 4 * (i - 1)) = Data[FrameAt(h)][i]
      OBVIOUS
    <3>1. pos + 4 + 4 * (i - 1) = h + (16 + 4 * i)
      BY <1>3
    <3> QED
      BY <1>0, <1>3, <1>4, <3>1, DataWord
  <2>3. Data[FrameAt(h)] \in [1..9 -> Nat]
    BY <1>0, <1>3, FrameRange, DataRange
  <2>4. Data[FrameAt(h)] = [i \in 1..9 |-> Data[FrameAt(h)][i]]
    BY <2>3
  <2> QED
    BY <2>1, <2>2, <2>4
<1> QED
  BY <1>2, <1>3, <1>4, <1>8, <1>9 DEF h

LEMMA AgreedNext ==
  ASSUME StreamInv, AgreedInv, [Next]_vars
  PROVE  AgreedInv'
<1>0. TypeOK /\ ConnInv /\ FrameInv
  BY DEF StreamInv
<1>1. /\ FrameLen \in {56, 57} /\ HdrSize = 16 /\ Payload = 36 /\ Fields = 9
      /\ pos \in Nat /\ sent \in Nat /\ base \in Nat /\ length \in 1..255
  BY <1>0, FrameSize
<1>2. UNCHANGED <<node, length, cr>>
  BY DEF Next, Server, Node, WriteFrame, CrArrives, WriteFails, HeaderEnds, TcpHeader, TcpSkip,
     TcpBody, SimpleHeader, SimpleBody, SimpleBodyEnds, Reconnect, StartNode, vars, fixed
<1>3. /\ FrameLen' = FrameLen /\ HdrSize' = HdrSize /\ Agreed' = Agreed
      /\ \A x : base' = base => FrameAt(x)' = FrameAt(x)
  BY <1>2 DEF FrameLen, HdrSize, Payload, Agreed, FrameAt
<1> SUFFICES ASSUME Agreed PROVE AgreedInv'
  BY <1>3 DEF AgreedInv
<1>4. /\ npc # "junk" /\ node = "tcp" /\ length = FrameLen - 4
      /\ npc = "header" => \/ pos % FrameLen = 0 /\ NextOne(FrameAt(pos))
                           \/ pos = sent /\ sock = "eof"
      /\ npc = "body" => /\ pos % FrameLen = 16 /\ need = FrameLen - 16
                         /\ NextOne(FrameAt(pos - HdrSize))
  BY <1>1 DEF AgreedInv, Agreed
<1>5. CASE UNCHANGED <<npc, need, pos, base, out>> /\ (sock = "eof" => UNCHANGED <<sent, sock>>)
  BY <1>1, <1>2, <1>3, <1>4, <1>5 DEF AgreedInv, NextOne, FrameAt
<1>6. CASE Server
  <2>1. sock # "eof"
    BY <1>0, <1>6 DEF Server, WriteFrame, CrArrives, WriteFails, ConnInv
  <2>2. UNCHANGED <<npc, need, pos, base, out>>
    BY <1>6 DEF Server, WriteFrame, CrArrives, WriteFails
  <2> QED
    BY <1>5, <2>1, <2>2
<1>7. CASE HeaderEnds \/ (TcpSkip /\ ~Arrived)
  <2>1. pos' = sent /\ sent' = sent /\ sock = "eof"
    <3>1. /\ npc \in {"header", "body"} /\ Ended /\ pos' = sent /\ sent' = sent
      BY <1>4, <1>7 DEF HeaderEnds, TcpSkip
    <3>2. sock # "up" /\ sock # "none" /\ sock \in {"none", "up", "eof"}
      BY <1>0, <3>1 DEF Ended, ConnInv, TypeOK
    <3> QED
      BY <3>1, <3>2
  <2>2. (npc' = "header" /\ sock' = sock) \/ npc' = "error"
    BY <1>7 DEF HeaderEnds, TcpSkip, Fail, NextHeader, Waits
  <2> QED
    BY <2>1, <2>2 DEF AgreedInv
<1>8. CASE TcpSkip /\ Arrived
  BY <1>4, <1>8 DEF TcpSkip, Ended
<1>9. CASE TcpHeader
  <2>1. npc = "header" /\ need = 16 /\ sent - pos >= 16
    BY <1>0, <1>1, <1>9 DEF TcpHeader, Arrived, FrameInv
  <2>2. pos % FrameLen = 0 /\ NextOne(FrameAt(pos))
    BY <1>1, <1>4, <2>1
  <2>3. WordAt(pos) = length /\ Valid(pos)
    BY <1>0, <1>1, <2>2, HeaderThere
  <2>4. /\ pos' = pos + 16 /\ npc' = "body" /\ need' = length - 12
        /\ base' = base /\ out' = out
    <3>1. length >= 40
      BY <1>1, <1>4
    <3> QED
      BY <1>1, <1>9, <2>3, <3>1 DEF TcpHeader, Waits
  <2>5. pos' % FrameLen = 16 /\ need' = FrameLen - 16 /\ pos' - HdrSize = pos
    <3>1. (pos + 16) % FrameLen = 16 /\ (pos + 16) \div FrameLen = pos \div FrameLen
      BY <1>1, <2>2, WithinFrame
    <3>2. need' = FrameLen - 16 /\ pos' - HdrSize = pos
      BY <1>1, <1>4, <2>4
    <3> QED
      BY <2>4, <3>1, <3>2
  <2>6. FrameAt(pos - HdrSize)' = FrameAt(pos)
    BY <1>3, <2>4, <2>5 DEF FrameAt
  <2>7. NextOne(FrameAt(pos - HdrSize))'
    BY <2>2, <2>4, <2>6 DEF NextOne
  <2> QED
    BY <1>1, <1>3, <2>4, <2>5, <2>7 DEF AgreedInv
<1>10. CASE TcpBody
  <2> DEFINE h == pos - HdrSize
  <2>1. /\ h \in Nat /\ h % FrameLen = 0
        /\ out'.frame = FrameAt(h) /\ pos' = h + FrameLen
    BY <1>10, AgreedBody
  <2>2. base' = base /\ npc' = "header"
    BY <1>10 DEF TcpBody, NextHeader, Waits
  <2> HIDE DEF h
  <2>3. pos' % FrameLen = 0 /\ pos' \div FrameLen = (h \div FrameLen) + 1
    BY <1>1, <2>1, NextFrame
  <2>4. FrameAt(pos)' = FrameAt(h) + 1
    <3>1. h \div FrameLen \in Nat
      BY <1>1, <2>1, DivMod
    <3> QED
      BY <1>1, <1>3, <2>2, <2>3, <3>1 DEF FrameAt
  <2>5. NextOne(FrameAt(pos))'
    BY <2>1, <2>4 DEF NextOne
  <2> QED
    BY <1>3, <2>2, <2>3, <2>5 DEF AgreedInv
<1>11. CASE Reconnect \/ StartNode
  <2>1. CASE npc' = "exit"
    BY <2>1 DEF AgreedInv
  <2>2. CASE npc' # "exit"
    <3>1. npc' = "header" /\ pos' = 0 /\ base' = seq
      BY <1>11, <2>2 DEF Reconnect, StartNode, NextHeader, Waits, FreshStream
    <3>2. 0 % FrameLen = 0 /\ 0 \div FrameLen = 0
      BY <1>1
    <3>3. seq \in Nat
      BY <1>0, FrameSize
    <3>4. FrameAt(pos)' = base' + 1
      BY <1>3, <3>1, <3>2, <3>3 DEF FrameAt
    <3> QED
      BY <1>3, <3>1, <3>2, <3>4 DEF AgreedInv, NextOne
  <2> QED
    BY <2>1, <2>2
<1>12. CASE SimpleHeader \/ SimpleBody \/ SimpleBodyEnds
  BY <1>4, <1>12 DEF SimpleHeader, SimpleBody, SimpleBodyEnds
<1>13. CASE UNCHANGED vars
  BY <1>5, <1>13 DEF vars, stream
<1> QED
  BY <1>6, <1>7, <1>8, <1>9, <1>10, <1>11, <1>12, <1>13 DEF Next, Server, Node

\* If the declared length is the number of bytes that follow it, what the tcp node
\* publishes is the data of a frame, of each frame of a connection in turn from the
\* first on, whether or not a CR has a byte and whenever that arrives.
THEOREM ExactMessages == Spec => ExactWhenAgreed
<1>1. StreamInv /\ AgreedInv /\ [Next]_vars =>
        [Agreed /\ out' # out => /\ out'.words = Data[out'.frame]
                                 /\ out'.frame \in {out.frame + 1, base + 1}]_vars
  <2> SUFFICES ASSUME StreamInv, AgreedInv, [Next]_vars, Agreed, out' # out
               PROVE  out'.words = Data[out'.frame] /\ out'.frame \in {out.frame + 1, base + 1}
    OBVIOUS
  <2>1. TcpBody
    BY DEF Agreed, Next, Node, WriteFrame, CrArrives, WriteFails, HeaderEnds, TcpHeader, TcpSkip,
       SimpleHeader, SimpleBody, SimpleBodyEnds, Reconnect, StartNode, vars
  <2> QED
    BY <2>1, AgreedBody DEF NextOne
<1>2. Init => AgreedInv
  BY DEF Init, AgreedInv
<1> QED
  BY <1>1, <1>2, StreamInit, StreamStep, AgreedNext, PTL DEF Spec, ExactWhenAgreed
=============================================================================
