--------------------------- MODULE SocketIOProofs ---------------------------
(* For every buffer size, every set of commands and every way TCP cuts the   *)
(* stream: the receiver's cursors stay inside the buffer, and the command    *)
(* handed to the handler is the next one the PC sent, whole.                 *)
EXTENDS SocketIO, CodecProofs, SequenceTheorems

----------------------------------------------------------------------------
(* The inductive invariant.  CommandIntact speaks of the moment the handler  *)
(* gets a command; what makes it true is that the server's place in the      *)
(* stream is at all times the start of a command plus what it has read of    *)
(* it, and that what it has read of it is in the buffer.                     *)

(* The types of the variables; TypeOK without its bounds.                    *)
Types ==
    /\ msgs \in Seq(Messages) /\ stream \in Seq(Byte) /\ starts \in Seq(Nat)
    /\ arrived \in Nat /\ arrived <= Len(stream)
    /\ read \in Nat /\ read <= arrived
    /\ alive \in BOOLEAN
    /\ pc \in {"len", "body", "handle", "send", "closed"}
    /\ xbh_cmd \in [1..PacketMax -> Byte]
    /\ want \in Nat /\ want <= PacketMax
    /\ recved \in Nat /\ recved <= want
    /\ taken \in Nat /\ taken <= Len(msgs)
    /\ len \in Nat /\ len <= MaxReply
    /\ sent \in Nat /\ sent <= len

(* The k-th command lies in the stream from starts[k] on.                    *)
Streamed ==
    /\ Len(starts) = Len(msgs) + 1
    /\ starts[Len(msgs) + 1] = Len(stream)
    /\ \A k \in 1..Len(msgs) :
        /\ starts[k] + FrameLen(msgs[k]) = starts[k + 1]
        /\ starts[k + 1] <= Len(stream)
        /\ \A i \in 1..FrameLen(msgs[k]) : stream[starts[k] + i] = Framed(k, msgs[k])[i]

(* The first n bytes of the buffer are bytes of the k-th command, from its   *)
(* byte d + 1 on.                                                            *)
Holds(k, d, n) == \A i \in 1..n : xbh_cmd[i] = Framed(k, msgs[k])[d + i]

AtLen ==
    pc = "len" =>
        /\ want = CMDLEN_SZ
        /\ read = starts[taken + 1] + recved
        /\ Holds(taken + 1, 0, recved)

AtBody ==
    pc = "body" =>
        /\ taken < Len(msgs)
        /\ want = msgs[taken + 1].len
        /\ read = starts[taken + 1] + CMDLEN_SZ + recved
        /\ Holds(taken + 1, CMDLEN_SZ, recved)

AtHandle ==
    /\ pc \in {"handle", "send"} => read = starts[taken + 1]
    /\ pc = "handle" => /\ taken > 0
                        /\ want = msgs[taken].len
                        /\ Holds(taken, CMDLEN_SZ, want)

IInv == Types /\ Streamed /\ AtLen /\ AtBody /\ AtHandle

----------------------------------------------------------------------------
(* What the PC writes.                                                       *)

(* A command's frame is bytes, as many as FrameLen says: the four digits and *)
(* at least the part of the command that decides its fate.                   *)
LEMMA FrameTypes ==
    ASSUME NEW k \in Nat, NEW m \in Messages
    PROVE  /\ FrameLen(m) \in Nat /\ FrameLen(m) >= CMDLEN_SZ
           /\ m.len \in Nat /\ m.len < 65536
           /\ (m.len <= PacketMax => FrameLen(m) = CMDLEN_SZ + m.len)
           /\ Framed(k, m) \in Seq(Byte) /\ Len(Framed(k, m)) = FrameLen(m)
<1>1. m.len \in Nat /\ m.len < 65536
  <2>1. m.len \in 0..LenMax
    BY MessagesAssumption
  <2>2. m.len \in Nat /\ m.len <= LenMax
    BY <2>1, SMT
  <2> QED BY <2>2, SMT DEF LenMax
<1>2. /\ FrameLen(m) \in Nat /\ FrameLen(m) >= CMDLEN_SZ
      /\ (m.len <= PacketMax => FrameLen(m) = CMDLEN_SZ + m.len)
  BY <1>1, PacketMaxAssumption, SMT DEF FrameLen, CMDLEN_SZ
<1>3. ASSUME NEW i \in 1..FrameLen(m) PROVE CharAt(m, i) \in 0..255
  <2>1. CASE i <= CMDLEN_SZ
    <3> DEFINE h == len2hex(m.len)
    <3>1. h[1] \in 0..255 /\ h[2] \in 0..255 /\ h[3] \in 0..255 /\ h[4] \in 0..255
      BY <1>1, Nibbles, DigitRead, SMT DEF len2hex
    <3>2. i \in 1..4
      BY <1>2, <2>1, SMT DEF CMDLEN_SZ
    <3>3. h[i] \in 0..255
      <4> HIDE DEF h
      <4> QED BY <3>1, <3>2, SMT
    <3> QED BY <2>1, <3>3 DEF CharAt
  <2>2. CASE ~(i <= CMDLEN_SZ)
    <3>1. CASE m.xbh /\ i - CMDLEN_SZ <= 3
      <4>1. i \in {5, 6, 7}
        BY <1>2, <2>2, <3>1, SMT DEF CMDLEN_SZ
      <4>2. CharAt(m, i) = XBH[i - CMDLEN_SZ]
        BY <2>2, <3>1 DEF CharAt
      <4> QED BY <4>1, <4>2, SMT DEF XBH, CMDLEN_SZ
    <3>2. CASE ~(m.xbh /\ i - CMDLEN_SZ <= 3)
      <4>1. CharAt(m, i) = 0
        BY <2>2, <3>2 DEF CharAt
      <4> QED BY <4>1, SMT
    <3> QED BY <3>1, <3>2
  <2> QED BY <2>1, <2>2
<1>4. Framed(k, m) \in [1..FrameLen(m) -> Byte]
  <2>1. ASSUME NEW i \in 1..FrameLen(m)
        PROVE  [ch |-> CharAt(m, i), cmd |-> k, at |-> i] \in Byte
    BY <1>2, <1>3, SMT DEF Byte
  <2> QED BY <2>1 DEF Framed
<1>5. Framed(k, m) \in Seq(Byte) /\ Len(Framed(k, m)) = FrameLen(m)
  BY <1>2, <1>4, SMT
<1> QED BY <1>1, <1>2, <1>5

(* The length decoded from the first four bytes of a frame is the command's. *)
LEMMA FrameLength ==
    ASSUME NEW k \in Nat, NEW m \in Messages, NEW c \in [1..PacketMax -> Byte],
           \A i \in 1..CMDLEN_SZ : c[i] = Framed(k, m)[i]
    PROVE  hex2len([i \in 1..CMDLEN_SZ |-> c[i].ch]) = m.len
<1>1. m.len \in Nat /\ m.len < 65536 /\ FrameLen(m) \in Nat /\ FrameLen(m) >= 4
  BY FrameTypes DEF CMDLEN_SZ
<1>2. ASSUME NEW i \in 1..4 PROVE c[i].ch = len2hex(m.len)[i]
  <2>1. i \in 1..FrameLen(m) /\ i <= CMDLEN_SZ /\ i \in 1..CMDLEN_SZ
    BY <1>1, SMT DEF CMDLEN_SZ
  <2>2. Framed(k, m)[i] = [ch |-> CharAt(m, i), cmd |-> k, at |-> i]
    BY <2>1 DEF Framed
  <2>3. c[i].ch = CharAt(m, i)
    BY <2>1, <2>2
  <2> QED BY <2>1, <2>3 DEF CharAt
<1> DEFINE b == [i \in 1..CMDLEN_SZ |-> c[i].ch]
           h == len2hex(m.len)
<1>3. b[1] = h[1] /\ b[2] = h[2] /\ b[3] = h[3] /\ b[4] = h[4]
  BY <1>2, SMT DEF CMDLEN_SZ
<1>4. hex2len(b) = hex2len(h)
  <2> HIDE DEF b, h
  <2> QED BY <1>3 DEF hex2len
<1> QED BY <1>1, <1>4, HexRoundTrip

----------------------------------------------------------------------------
(* The invariant holds at first and is kept by every action.                 *)

(* The invariant holds at the start.                                         *)
LEMMA InitInvariant == Init => IInv
<1> SUFFICES ASSUME Init PROVE IInv
  OBVIOUS
<1> USE DEF Init
<1>1. xbh_cmd \in [1..PacketMax -> Byte]
  <2>1. NoByte \in Byte
    BY SMT DEF NoByte, Byte
  <2> QED BY <2>1
<1>2. Types
  BY <1>1, PacketMaxAssumption, BoundsAssumption, SMT DEF Types, CMDLEN_SZ
<1>3. Streamed
  BY SMT DEF Streamed
<1>4. AtLen /\ AtBody /\ AtHandle
  BY SMT DEF AtLen, AtBody, AtHandle, Holds
<1> QED BY <1>2, <1>3, <1>4 DEF IInv

(* The PC appends a command; what was streamed before stays where it is.     *)
LEMMA SendCommandInvariant == IInv /\ SendCommand => IInv'
<1> SUFFICES ASSUME IInv, SendCommand PROVE IInv'
  OBVIOUS
<1> USE DEF IInv
<1>1. PICK m \in Messages :
        /\ msgs' = Append(msgs, m)
        /\ stream' = stream \o Framed(Len(msgs) + 1, m)
        /\ starts' = Append(starts, Len(stream) + FrameLen(m))
  BY DEF SendCommand
<1>2. UNCHANGED <<arrived, alive, pc, read, xbh_cmd, want, recved, taken, len, sent, wire>>
  BY DEF SendCommand, recvVars, sendVars
<1> DEFINE n == Len(msgs)
           f == Framed(n + 1, m)
<1>3. /\ msgs \in Seq(Messages) /\ stream \in Seq(Byte) /\ starts \in Seq(Nat)
      /\ n \in Nat /\ Len(stream) \in Nat /\ Len(starts) = n + 1
  BY SMT DEF Types, Streamed
<1>4. /\ FrameLen(m) \in Nat /\ f \in Seq(Byte) /\ Len(f) = FrameLen(m)
  BY <1>3, FrameTypes
<1>5. /\ msgs' \in Seq(Messages) /\ Len(msgs') = n + 1 /\ msgs'[n + 1] = m
      /\ \A k \in 1..n : msgs'[k] = msgs[k]
  BY <1>1, <1>3, SMT
<1>6. /\ stream' \in Seq(Byte) /\ Len(stream') = Len(stream) + FrameLen(m)
      /\ \A i \in 1..Len(stream) : stream'[i] = stream[i]
      /\ \A i \in 1..FrameLen(m) : stream'[Len(stream) + i] = f[i]
  <2>1. stream' = stream \o f
    BY <1>1
  <2> HIDE DEF f
  <2>2. /\ stream' \in Seq(Byte) /\ Len(stream') = Len(stream) + Len(f)
        /\ \A i \in 1..Len(stream') :
            stream'[i] = IF i <= Len(stream) THEN stream[i] ELSE f[i - Len(stream)]
    <3>1. /\ stream \o f \in Seq(Byte)
          /\ Len(stream \o f) = Len(stream) + Len(f)
          /\ \A i \in 1..(Len(stream) + Len(f)) :
                (stream \o f)[i] = IF i <= Len(stream) THEN stream[i] ELSE f[i - Len(stream)]
      BY <1>3, <1>4, ConcatProperties, Zenon
    <3> QED BY <2>1, <3>1
  <2>3. \A i \in 1..Len(stream) : stream'[i] = stream[i]
    BY <2>2, <1>3, <1>4, SMT
  <2>4. ASSUME NEW i \in 1..FrameLen(m) PROVE stream'[Len(stream) + i] = f[i]
    <3>1. /\ Len(stream) + i \in 1..Len(stream') /\ ~(Len(stream) + i <= Len(stream))
          /\ (Len(stream) + i) - Len(stream) = i
      BY <2>2, <1>3, <1>4, SMT
    <3> QED BY <2>2, <3>1
  <2> QED BY <2>2, <2>3, <2>4, <1>4
<1>7. /\ starts' \in Seq(Nat) /\ Len(starts') = n + 2
      /\ starts'[n + 2] = Len(stream')
      /\ \A k \in 1..(n + 1) : starts'[k] = starts[k]
  BY <1>1, <1>3, <1>4, <1>6, SMT
<1> HIDE DEF n, f
<1>8. Types'
  BY <1>2, <1>3, <1>4, <1>5, <1>6, <1>7, SMT DEF Types, n
<1>9. Streamed'
  <2>1. Len(starts') = Len(msgs') + 1 /\ starts'[Len(msgs') + 1] = Len(stream')
    BY <1>3, <1>5, <1>7, SMT
  <2>2. ASSUME NEW k \in 1..(n + 1)
        PROVE  /\ starts'[k] + FrameLen(msgs'[k]) = starts'[k + 1]
               /\ starts'[k + 1] <= Len(stream')
               /\ \A i \in 1..FrameLen(msgs'[k]) : stream'[starts'[k] + i] = Framed(k, msgs'[k])[i]
    <3>1. CASE k = n + 1
      <4>1. starts'[k] = Len(stream) /\ msgs'[k] = m /\ starts'[k + 1] = Len(stream')
        BY <1>3, <1>5, <1>7, <3>1, SMT DEF Streamed, n
      <4>2. Framed(k, msgs'[k]) = f
        BY <4>1, <3>1 DEF f
      <4>3. \A i \in 1..FrameLen(m) : stream'[Len(stream) + i] = f[i]
        BY <1>6
      <4>4. \A i \in 1..FrameLen(msgs'[k]) : stream'[starts'[k] + i] = Framed(k, msgs'[k])[i]
        BY <4>1, <4>2, <4>3
      <4>5. Len(stream) + FrameLen(m) = Len(stream') /\ Len(stream') <= Len(stream')
        BY <1>3, <1>4, <1>6, SMT
      <4> QED BY <4>1, <4>4, <4>5
    <3>2. CASE k # n + 1
      <4>1. k \in 1..n /\ k \in 1..(n + 1) /\ k + 1 \in 1..(n + 1)
        BY <1>3, <3>2, SMT
      <4>2. starts'[k] = starts[k] /\ starts'[k + 1] = starts[k + 1] /\ msgs'[k] = msgs[k]
        BY <1>5, <1>7, <4>1
      <4>3. /\ starts[k] + FrameLen(msgs[k]) = starts[k + 1]
            /\ starts[k + 1] <= Len(stream)
            /\ \A i \in 1..FrameLen(msgs[k]) : stream[starts[k] + i] = Framed(k, msgs[k])[i]
        BY <4>1 DEF Streamed, n
      <4>4. starts[k] \in Nat /\ FrameLen(msgs[k]) \in Nat /\ starts[k + 1] \in Nat
        <5>1. msgs[k] \in Messages
          BY <1>3, <4>1, SMT DEF n
        <5>2. FrameLen(msgs[k]) \in Nat
          BY <5>1, <4>1, FrameTypes
        <5>3. starts[k] \in Nat /\ starts[k + 1] \in Nat
          BY <1>3, <4>1, SMT
        <5> QED BY <5>2, <5>3
      <4>5. ASSUME NEW i \in 1..FrameLen(msgs[k])
            PROVE  stream'[starts[k] + i] = Framed(k, msgs[k])[i]
        <5>1. starts[k] + i \in 1..Len(stream)
          BY <1>3, <4>3, <4>4, SMT
        <5> QED BY <1>6, <4>3, <5>1
      <4>6. starts[k + 1] <= Len(stream')
        BY <1>3, <1>4, <1>6, <4>3, <4>4, SMT
      <4> QED BY <4>2, <4>3, <4>5, <4>6
    <3> QED BY <3>1, <3>2
  <2> QED BY <2>1, <2>2, <1>5 DEF Streamed
<1>10. starts'[taken + 1] = starts[taken + 1]
  BY <1>3, <1>7, SMT DEF Types, n
<1>11. ASSUME NEW k \in 1..n, NEW d, NEW c, Holds(k, d, c) PROVE Holds(k, d, c)'
  BY <1>2, <1>5, <1>11 DEF Holds
<1>12. AtLen'
  <2> SUFFICES ASSUME pc = "len" PROVE AtLen'
    BY <1>2 DEF AtLen
  <2>1. want = CMDLEN_SZ /\ read = starts[taken + 1] + recved /\ Holds(taken + 1, 0, recved)
    BY DEF AtLen
  <2>2. Holds(taken + 1, 0, recved)'
    <3>1. CASE taken < n
      <4>1. taken + 1 \in 1..n
        BY <1>3, <3>1, SMT DEF Types, n
      <4> QED BY <1>2, <1>11, <2>1, <4>1
    <3>2. CASE ~(taken < n)
      <4>0. taken = n /\ read <= Len(stream) /\ read \in Nat /\ recved \in Nat
        BY <1>3, <3>2, SMT DEF Types, n
      <4>1. recved = 0
        BY <1>3, <2>1, <4>0, SMT DEF Streamed, n
      <4> QED BY <1>2, <4>1, SMT DEF Holds
    <3> QED BY <3>1, <3>2
  <2> QED BY <1>2, <1>10, <2>1, <2>2 DEF AtLen
<1>13. AtBody'
  <2> SUFFICES ASSUME pc = "body" PROVE AtBody'
    BY <1>2 DEF AtBody
  <2>1. /\ taken < n /\ want = msgs[taken + 1].len
        /\ read = starts[taken + 1] + CMDLEN_SZ + recved /\ Holds(taken + 1, CMDLEN_SZ, recved)
    BY DEF AtBody, n
  <2>2. taken + 1 \in 1..n
    BY <1>3, <2>1, SMT DEF Types, n
  <2>3. taken < Len(msgs')
    BY <1>3, <1>5, <2>1, SMT DEF Types, n
  <2> QED BY <1>2, <1>5, <1>10, <1>11, <2>1, <2>2, <2>3 DEF AtBody
<1>14. AtHandle'
  <2>1. CASE pc = "handle"
    <3>1. taken \in 1..n
      BY <1>3, <2>1, SMT DEF Types, AtHandle, n
    <3> QED BY <1>2, <1>5, <1>10, <1>11, <2>1, <3>1 DEF AtHandle
  <2>2. CASE pc # "handle"
    BY <1>2, <1>10, <2>2 DEF AtHandle
  <2> QED BY <2>1, <2>2
<1> QED BY <1>8, <1>9, <1>12, <1>13, <1>14 DEF IInv

(* The actions that leave the server's place and its buffer alone.           *)
LEMMA QuietInvariant ==
    ASSUME IInv,
           \/ Arrive \/ PeerLeaves \/ RecvFails \/ StartReply \/ SendSome
           \/ UNCHANGED vars
    PROVE  IInv'
<1> USE DEF IInv
<1>1. UNCHANGED <<msgs, stream, starts, read, xbh_cmd, want, recved, taken>>
  BY DEF Arrive, PeerLeaves, RecvFails, StartReply, SendSome, vars, pcVars, recvVars, sendVars
<1>2. /\ pc' \in {"len", "body", "handle", "send", "closed"}
      /\ pc' = pc \/ pc' = "closed" \/ (pc = "handle" /\ pc' = "send")
  BY DEF Arrive, PeerLeaves, RecvFails, StartReply, SendSome, vars, Types
<1>3. /\ alive' \in BOOLEAN
      /\ arrived' \in Nat /\ arrived' <= Len(stream) /\ read <= arrived'
  <2>1. CASE Arrive
    BY <2>1, SMT DEF Arrive, Types
  <2>2. CASE ~Arrive
    BY <2>2 DEF PeerLeaves, RecvFails, StartReply, SendSome, vars, pcVars, recvVars, sendVars, Types
  <2> QED BY <2>1, <2>2
<1>4. len' \in Nat /\ len' <= MaxReply /\ sent' \in Nat /\ sent' <= len'
  <2>1. CASE StartReply
    BY <2>1, BoundsAssumption, SMT DEF StartReply, Types
  <2>2. CASE SendSome
    BY <2>2, SMT DEF SendSome, Types
  <2>3. CASE ~StartReply /\ ~SendSome
    BY <2>3 DEF Arrive, PeerLeaves, RecvFails, vars, sendVars, Types
  <2> QED BY <2>1, <2>2, <2>3
<1>5. Types'
  BY <1>1, <1>2, <1>3, <1>4 DEF Types
<1>6. Streamed'
  BY <1>1 DEF Streamed
<1>7. AtLen' /\ AtBody' /\ AtHandle'
  <2>1. ASSUME NEW k, NEW d, NEW n PROVE Holds(k, d, n)' <=> Holds(k, d, n)
    BY <1>1 DEF Holds
  <2>2. AtLen'
    BY <1>1, <1>2, <2>1 DEF AtLen
  <2>3. AtBody'
    BY <1>1, <1>2, <2>1 DEF AtBody
  <2>4. AtHandle'
    BY <1>1, <1>2, <2>1 DEF AtHandle
  <2> QED BY <2>2, <2>3, <2>4
<1> QED BY <1>5, <1>6, <1>7

(* A command that is read from is one that was sent: what the server has     *)
(* read of it ends within the stream, so the command is not past its end.    *)
LEMMA ReadOfSent ==
    ASSUME Types, Streamed, NEW n \in Nat, n > 0, starts[taken + 1] + n <= Len(stream)
    PROVE  /\ taken + 1 \in 1..Len(msgs) /\ msgs[taken + 1] \in Messages
           /\ starts[taken + 1] \in Nat /\ taken + 1 \in Nat
<1>1. /\ msgs \in Seq(Messages) /\ starts \in Seq(Nat) /\ taken \in Nat /\ taken <= Len(msgs)
      /\ Len(msgs) \in Nat /\ Len(stream) \in Nat /\ Len(starts) = Len(msgs) + 1
      /\ starts[Len(msgs) + 1] = Len(stream)
  BY SMT DEF Types, Streamed
<1>2. taken # Len(msgs)
  BY <1>1, SMT
<1>3. taken + 1 \in 1..Len(msgs) /\ taken + 1 \in Nat
  BY <1>1, <1>2, SMT
<1>4. msgs[taken + 1] \in Messages /\ starts[taken + 1] \in Nat
  BY <1>1, <1>3, SMT
<1> QED BY <1>3, <1>4

(* recv appends what it returns, and that is the next bytes of the command.  *)
LEMMA RecvSomeInvariant == IInv /\ RecvSome => IInv'
<1> SUFFICES ASSUME IInv, RecvSome PROVE IInv'
  OBVIOUS
<1> USE DEF IInv
<1>1. PICK n \in 1..(want - recved) :
        /\ n <= arrived - read
        /\ xbh_cmd' = [i \in 1..PacketMax |->
                        IF i \in (recved + 1)..(recved + n) THEN stream[read + i - recved]
                        ELSE xbh_cmd[i]]
        /\ recved' = recved + n
        /\ read' = read + n
  BY DEF RecvSome
<1>2. /\ pc \in {"len", "body"}
      /\ UNCHANGED <<msgs, stream, starts, arrived, alive, pc, want, taken, len, sent, wire>>
  BY DEF RecvSome, pcVars, sendVars
<1>3. /\ arrived \in Nat /\ arrived <= Len(stream) /\ read \in Nat /\ Len(stream) \in Nat
      /\ want \in Nat /\ want <= PacketMax /\ recved \in Nat /\ PacketMax \in Nat
      /\ stream \in Seq(Byte) /\ xbh_cmd \in [1..PacketMax -> Byte]
  BY PacketMaxAssumption, SMT DEF Types
<1>4. /\ n \in Nat /\ n > 0 /\ recved' \in Nat /\ recved' <= want
      /\ read' \in Nat /\ read' <= arrived
  BY <1>1, <1>3, SMT
<1>5. xbh_cmd' \in [1..PacketMax -> Byte]
  <2>1. ASSUME NEW i \in 1..PacketMax, i \in (recved + 1)..(recved + n)
        PROVE  stream[read + i - recved] \in Byte
    <3>1. read + i - recved \in 1..Len(stream)
      BY <1>1, <1>3, <1>4, <2>1, SMT
    <3> QED BY <1>3, <3>1, SMT
  <2>2. ASSUME NEW i \in 1..PacketMax PROVE xbh_cmd[i] \in Byte
    BY <1>3
  <2> QED BY <1>1, <2>1, <2>2
<1>6. Types'
  BY <1>2, <1>4, <1>5 DEF Types
<1>7. Streamed'
  BY <1>2 DEF Streamed
<1> DEFINE k == taken + 1
           d == IF pc = "len" THEN 0 ELSE CMDLEN_SZ
<1>8. /\ read = starts[k] + d + recved /\ Holds(k, d, recved)
      /\ d \in Nat /\ d \in {0, CMDLEN_SZ}
  <2>1. CASE pc = "len"
    <3>1. d = 0 /\ read = starts[k] + recved /\ Holds(k, 0, recved)
      BY <2>1 DEF AtLen
    <3>2. starts[k] \in Nat
      <4>1. k \in 1..Len(starts) /\ starts \in Seq(Nat)
        BY SMT DEF Types, Streamed
      <4> QED BY <4>1, SMT
    <3>3. starts[k] + 0 + recved = starts[k] + recved
      BY <1>3, <3>2, SMT
    <3> QED BY <3>1, <3>3
  <2>2. CASE pc = "body"
    BY <2>2 DEF AtBody, CMDLEN_SZ
  <2> QED BY <1>2, <2>1, <2>2
<1>9. starts[k] \in Nat
  <2>1. k \in 1..Len(starts) /\ starts \in Seq(Nat)
    BY SMT DEF Types, Streamed
  <2> QED BY <2>1, SMT
<1>10. PICK s \in Nat, o \in Nat : s = starts[k] /\ o = d /\ read = s + o + recved
  BY <1>8, <1>9
<1>11. read' = s + o + recved' /\ s \in Nat /\ o \in Nat
  <2>1. /\ n \in Nat /\ recved' = recved + n /\ read' = read + n
        /\ read = s + o + recved /\ s \in Nat /\ o \in Nat
    BY <1>1, <1>4, <1>10
  <2> QED BY <1>3, <2>1, SMT
<1>12. /\ k \in 1..Len(msgs) /\ msgs[k] \in Messages /\ k \in Nat
  <2>1. d + recved' \in Nat /\ d + recved' > 0 /\ starts[k] + (d + recved') <= Len(stream)
    <3>1. n \in Nat /\ n > 0 /\ read + n <= arrived
      BY <1>1, <1>3, <1>4, SMT
    <3>2. s \in Nat /\ o \in Nat /\ read = s + o + recved /\ recved' = recved + n
      BY <1>1, <1>10
    <3>3. /\ o + (recved + n) \in Nat /\ o + (recved + n) > 0
          /\ s + (o + (recved + n)) <= Len(stream)
      BY <1>3, <3>1, <3>2, SMT
    <3> QED BY <1>10, <3>2, <3>3
  <2> QED BY <2>1, ReadOfSent
<1> DEFINE m == msgs[k]
<1>13. d + recved' <= FrameLen(m)
  <2>1. /\ FrameLen(m) \in Nat /\ FrameLen(m) >= CMDLEN_SZ
        /\ (m.len <= PacketMax => FrameLen(m) = CMDLEN_SZ + m.len)
    BY <1>12, FrameTypes
  <2>2. CASE pc = "len"
    <3>1. d = 0 /\ want = CMDLEN_SZ
      BY <2>2 DEF AtLen
    <3> HIDE DEF d, m
    <3> QED BY <1>4, <2>1, <3>1, SMT DEF CMDLEN_SZ
  <2>3. CASE pc = "body"
    <3>1. d = CMDLEN_SZ /\ want = m.len
      BY <2>3 DEF AtBody
    <3> HIDE DEF d, m
    <3> QED BY <1>3, <1>4, <2>1, <3>1, SMT DEF CMDLEN_SZ
  <2> QED BY <1>2, <2>2, <2>3
<1>14. ASSUME NEW i \in 1..recved' PROVE xbh_cmd'[i] = Framed(k, m)[d + i]
  <2>1. i \in 1..PacketMax
    BY <1>3, <1>4, SMT
  <2>2. CASE i <= recved
    <3>1. i \in 1..recved /\ ~(i \in (recved + 1)..(recved + n))
      BY <1>3, <1>4, <2>2, SMT
    <3>2. xbh_cmd'[i] = xbh_cmd[i]
      BY <1>1, <2>1, <3>1
    <3> QED BY <1>8, <3>1, <3>2 DEF Holds
  <2>3. CASE ~(i <= recved)
    <3>1. i \in (recved + 1)..(recved + n)
      BY <1>1, <1>3, <1>4, <2>3, SMT
    <3>2. xbh_cmd'[i] = stream[read + i - recved]
      BY <1>1, <2>1, <3>1
    <3>3. read + i - recved = starts[k] + (d + i) /\ d + i \in 1..FrameLen(m)
      <4>1. FrameLen(m) \in Nat
        BY <1>12, FrameTypes
      <4>2. PICK l \in Nat : l = FrameLen(m)
        BY <4>1
      <4>3. o + recved' <= l
        BY <1>10, <1>13, <4>2
      <4>4. read = s + o + recved
        BY <1>10
      <4>5. read + i - recved = s + (o + i)
        BY <1>3, <1>4, <4>4, SMT
      <4>6. o + i \in 1..l
        BY <1>4, <1>11, <4>2, <4>3, SMT
      <4> QED BY <1>10, <4>2, <4>5, <4>6
    <3>4. \A j \in 1..FrameLen(m) : stream[starts[k] + j] = Framed(k, m)[j]
      BY <1>12 DEF Streamed
    <3> QED BY <3>2, <3>3, <3>4
  <2> QED BY <2>2, <2>3
<1>15. Holds(k, d, recved)'
  <2>1. k' = k /\ d' = d /\ m' = m /\ Framed(k, m)' = Framed(k, m)
    BY <1>2
  <2> QED BY <1>2, <1>14, <2>1 DEF Holds
<1>16. read' = starts[k] + d + recved'
  BY <1>10, <1>11
<1>17. AtLen'
  <2>1. CASE pc = "len"
    <3>1. d = 0 /\ starts[k] + 0 + recved' = starts[k] + recved'
      BY <1>4, <1>9, <2>1, SMT
    <3>2. want = CMDLEN_SZ
      BY <2>1 DEF AtLen
    <3> QED BY <1>2, <1>15, <1>16, <2>1, <3>1, <3>2 DEF AtLen
  <2>2. CASE pc # "len"
    BY <1>2, <2>2 DEF AtLen
  <2> QED BY <2>1, <2>2
<1>18. AtBody'
  <2>1. CASE pc = "body"
    <3>1. d = CMDLEN_SZ /\ d' = CMDLEN_SZ
      BY <1>2, <2>1
    <3> QED BY <1>2, <1>15, <1>16, <2>1, <3>1 DEF AtBody
  <2>2. CASE pc # "body"
    BY <1>2, <2>2 DEF AtBody
  <2> QED BY <2>1, <2>2
<1>19. AtHandle'
  BY <1>2 DEF AtHandle
<1> QED BY <1>6, <1>7, <1>17, <1>18, <1>19

(* The length is decoded from the whole prefix, and is the command's; one    *)
(* that is more than the buffer holds ends the connection.                   *)
LEMMA LenReceivedInvariant == IInv /\ LenReceived => IInv'
<1> SUFFICES ASSUME IInv, LenReceived PROVE IInv'
  OBVIOUS
<1> USE DEF IInv
<1>1. /\ pc = "len" /\ recved = want
      /\ UNCHANGED <<msgs, stream, starts, arrived, alive, read, xbh_cmd, taken, len, sent, wire>>
  BY DEF LenReceived, pcVars, sendVars
<1> DEFINE n == hex2len([i \in 1..CMDLEN_SZ |-> xbh_cmd[i].ch])
           k == taken + 1
<1>2. \/ LenTooLong(n) /\ pc' = "closed" /\ UNCHANGED <<want, recved>>
      \/ ~LenTooLong(n) /\ pc' = "body" /\ want' = n /\ recved' = 0
  BY DEF LenReceived
<1>3. want = CMDLEN_SZ /\ read = starts[k] + CMDLEN_SZ /\ Holds(k, 0, CMDLEN_SZ)
  BY <1>1 DEF AtLen
<1>4. k \in 1..Len(msgs) /\ msgs[k] \in Messages /\ k \in Nat /\ starts[k] \in Nat
  <2>1. starts[k] + CMDLEN_SZ <= Len(stream) /\ CMDLEN_SZ \in Nat /\ CMDLEN_SZ > 0
    BY <1>3, SMT DEF Types, CMDLEN_SZ
  <2> QED BY <2>1, ReadOfSent
<1>5. n = msgs[k].len
  <2>1. \A i \in 1..CMDLEN_SZ : xbh_cmd[i] = Framed(k, msgs[k])[i]
    <3> TAKE i \in 1..CMDLEN_SZ
    <3>1. 0 + i = i
      BY SMT
    <3> QED BY <1>3, <3>1 DEF Holds
  <2>2. xbh_cmd \in [1..PacketMax -> Byte]
    BY DEF Types
  <2> QED BY <1>4, <2>1, <2>2, FrameLength
<1>6. n \in Nat
  BY <1>4, <1>5, FrameTypes
<1> HIDE DEF n
<1>7. Types'
  <2>1. /\ want' \in Nat /\ want' <= PacketMax /\ recved' \in Nat /\ recved' <= want'
    <3>1. CASE LenTooLong(n)
      BY <1>2, <3>1 DEF Types
    <3>2. CASE ~LenTooLong(n)
      BY <1>2, <1>6, <3>2, PacketMaxAssumption, SMT DEF LenTooLong
    <3> QED BY <3>1, <3>2
  <2> QED BY <1>1, <1>2, <2>1 DEF Types
<1>8. Streamed'
  BY <1>1 DEF Streamed
<1>9. AtLen' /\ AtHandle'
  BY <1>2 DEF AtLen, AtHandle
<1>10. AtBody'
  <2> SUFFICES ASSUME pc' = "body" PROVE AtBody'
    BY DEF AtBody
  <2>1. want' = msgs[k].len /\ recved' = 0
    BY <1>2, <1>5
  <2>2. taken < Len(msgs)
    BY <1>4, SMT DEF Types
  <2>3. read = starts[k] + CMDLEN_SZ + 0
    BY <1>3, <1>4, SMT DEF CMDLEN_SZ
  <2>4. Holds(k, CMDLEN_SZ, 0)'
    BY SMT DEF Holds
  <2> QED BY <1>1, <2>1, <2>2, <2>3, <2>4 DEF AtBody
<1> QED BY <1>7, <1>8, <1>9, <1>10

(* A complete command that fits is as long as its frame without the prefix:  *)
(* the server is at the start of the next one.                               *)
LEMMA BodyReceivedInvariant == IInv /\ BodyReceived => IInv'
<1> SUFFICES ASSUME IInv, BodyReceived PROVE IInv'
  OBVIOUS
<1> USE DEF IInv
<1>1. /\ pc = "body" /\ recved = want
      /\ UNCHANGED <<msgs, stream, starts, arrived, alive, read, xbh_cmd, want, recved, len, sent, wire>>
      /\ \/ pc' = "handle" /\ taken' = taken + 1
         \/ pc' = "closed" /\ taken' = taken
  BY DEF BodyReceived, pcVars, sendVars
<1> DEFINE k == taken + 1
<1>2. /\ taken < Len(msgs) /\ want = msgs[k].len
      /\ read = starts[k] + CMDLEN_SZ + want /\ Holds(k, CMDLEN_SZ, want)
  BY <1>1 DEF AtBody
<1>3. k \in 1..Len(msgs) /\ msgs[k] \in Messages /\ k \in Nat /\ k > 0 /\ k <= Len(msgs) /\ starts[k] \in Nat
  <2>1. msgs \in Seq(Messages) /\ starts \in Seq(Nat) /\ Len(starts) = Len(msgs) + 1
    BY DEF Types, Streamed
  <2>2. k \in 1..Len(msgs) /\ k \in 1..Len(starts) /\ k \in Nat /\ k > 0 /\ k <= Len(msgs)
    BY <1>2, <2>1, SMT DEF Types
  <2> QED BY <2>1, <2>2, SMT
<1>4. read = starts[k + 1]
  <2>1. FrameLen(msgs[k]) = CMDLEN_SZ + want /\ want \in Nat
    BY <1>2, <1>3, FrameTypes DEF Types
  <2>2. starts[k] + FrameLen(msgs[k]) = starts[k + 1]
    BY <1>3 DEF Streamed
  <2>3. starts[k] + CMDLEN_SZ + want = starts[k] + (CMDLEN_SZ + want)
    BY <1>3, <2>1, SMT DEF CMDLEN_SZ
  <2> QED BY <1>2, <2>1, <2>2, <2>3
<1>5. Types'
  BY <1>1, <1>3 DEF Types
<1>6. Streamed'
  BY <1>1 DEF Streamed
<1>7. AtLen' /\ AtBody'
  BY <1>1 DEF AtLen, AtBody
<1>8. AtHandle'
  <2> SUFFICES ASSUME pc' = "handle" PROVE AtHandle'
    BY <1>1 DEF AtHandle
  <2>1. taken' = k
    BY <1>1
  <2>2. \A i \in 1..want : xbh_cmd[i] = Framed(k, msgs[k])[CMDLEN_SZ + i]
    BY <1>2 DEF Holds
  <2>3. \A i \in 1..want' : xbh_cmd'[i] = Framed(taken', msgs'[taken'])[CMDLEN_SZ + i]
    BY <1>1, <2>1, <2>2
  <2>4. Holds(taken, CMDLEN_SZ, want)'
    BY <2>3 DEF Holds, Framed, CharAt, FrameLen
  <2> QED BY <1>1, <1>2, <1>3, <1>4, <2>1, <2>4 DEF AtHandle
<1> QED BY <1>5, <1>6, <1>7, <1>8

(* It is kept when a reply has been sent and the next command is awaited.    *)
LEMMA SendReturnsInvariant == IInv /\ SendReturns => IInv'
<1> SUFFICES ASSUME IInv, SendReturns PROVE IInv'
  OBVIOUS
<1> USE DEF IInv
<1>1. /\ pc = "send" /\ pc' = "len" /\ want' = CMDLEN_SZ /\ recved' = 0
      /\ UNCHANGED <<msgs, stream, starts, arrived, alive, read, xbh_cmd, taken, len, sent, wire>>
  BY DEF SendReturns, pcVars, sendVars
<1>2. Types'
  <2>1. want' \in Nat /\ want' <= PacketMax /\ recved' \in Nat /\ recved' <= want'
    BY <1>1, PacketMaxAssumption, SMT DEF CMDLEN_SZ
  <2> QED BY <1>1, <2>1 DEF Types
<1>3. Streamed'
  BY <1>1 DEF Streamed
<1>4. AtBody' /\ AtHandle'
  BY <1>1 DEF AtBody, AtHandle
<1>5. AtLen'
  <2>1. read = starts[taken + 1] + 0
    <3>1. read = starts[taken + 1] /\ read \in Nat
      BY <1>1 DEF AtHandle, Types
    <3> QED BY <3>1, SMT
  <2>2. Holds(taken + 1, 0, 0)'
    BY SMT DEF Holds
  <2> QED BY <1>1, <2>1, <2>2 DEF AtLen
<1> QED BY <1>2, <1>3, <1>4, <1>5

----------------------------------------------------------------------------
(* Every reachable state satisfies the invariant, and with it the runs'      *)
(* properties.                                                               *)

(* It is kept by every step.                                                 *)
LEMMA StepInvariant == IInv /\ [Next]_vars => IInv'
<1> SUFFICES ASSUME IInv, [Next]_vars PROVE IInv'
  OBVIOUS
<1>1. CASE SendCommand
  BY <1>1, SendCommandInvariant
<1>2. CASE RecvSome
  BY <1>2, RecvSomeInvariant
<1>3. CASE LenReceived
  BY <1>3, LenReceivedInvariant
<1>4. CASE BodyReceived
  BY <1>4, BodyReceivedInvariant
<1>5. CASE SendReturns
  BY <1>5, SendReturnsInvariant
<1>6. CASE Arrive \/ PeerLeaves \/ RecvFails \/ StartReply \/ SendSome \/ UNCHANGED vars
  BY <1>6, QuietInvariant
<1> QED BY <1>1, <1>2, <1>3, <1>4, <1>5, <1>6 DEF Next, Server

(* The invariant holds in every state the server, the PC and TCP can reach.  *)
THEOREM Invariance == Spec => []IInv
<1>1. Init => IInv
  BY InitInvariant
<1>2. IInv /\ [Next]_vars => IInv'
  BY StepInvariant
<1> QED BY <1>1, <1>2, PTL DEF Spec

(* The cursors of recv_waitall and sendall stay inside their buffers,        *)
(* whatever the lengths the PC announces and however TCP cuts the stream.    *)
THEOREM TypeCorrect == Spec => []TypeOK
<1>1. IInv => TypeOK
  <2> SUFFICES ASSUME IInv PROVE TypeOK
    OBVIOUS
  <2>1. Types
    BY DEF IInv
  <2>2. /\ arrived \in 0..Len(stream) /\ read \in 0..arrived
        /\ want \in 0..PacketMax /\ recved \in 0..want
        /\ taken \in 0..Len(msgs)
        /\ len \in 0..MaxReply /\ sent \in 0..len
    BY <2>1, PacketMaxAssumption, BoundsAssumption, SMT DEF Types
  <2> QED BY <2>1, <2>2 DEF Types, TypeOK
<1> QED BY <1>1, Invariance, PTL

(* The command handed to the handler is the next one the PC sent, byte for   *)
(* byte, whatever it sent before or since.                                   *)
THEOREM CommandsIntact == Spec => []CommandIntact
<1>1. IInv => CommandIntact
  BY DEF IInv, AtHandle, Holds, CommandIntact
<1> QED BY <1>1, Invariance, PTL
=============================================================================
