------------------------------ MODULE SocketIO ------------------------------
(* How commands and replies cross the TCP stream: recv_waitall, sendall,     *)
(* len2hex and hex2len of util.c and recv_cmd of xbh_server.c, one           *)
(* connection, bytes arriving and leaving in pieces of any size.             *)
EXTENDS Codec

CONSTANTS
    PacketMax,      \* XBH_PACKET_SIZE_MAX, size of xbh_cmd
    Messages,       \* commands a PC may send: [len |-> length, xbh |-> starts with "XBH"]
    MaxMsgs,        \* bound: commands sent
    MaxReply        \* bound: length of a reply

ASSUME PacketMaxAssumption == PacketMax \in Nat /\ PacketMax >= CMDLEN_SZ
ASSUME MessagesAssumption == Messages \subseteq [len : 0..LenMax, xbh : BOOLEAN]
ASSUME BoundsAssumption == MaxMsgs \in Nat /\ MaxReply \in Nat \ {0}

----------------------------------------------------------------------------
(* A byte is its character, and which byte of which command it is.           *)

Byte == [ch : 0..255, cmd : Nat, at : Nat]
NoByte == [ch |-> 0, cmd |-> 0, at |-> 0]
XBH == <<88, 66, 72>>

(* What the PC writes: the length in hexadecimal, then the command; of one   *)
(* that will not fit only the start.                                         *)
FrameLen(m) == CMDLEN_SZ + (IF m.len > PacketMax THEN PacketMax + 1 ELSE m.len)
CharAt(m, i) ==
    IF i <= CMDLEN_SZ THEN len2hex(m.len)[i]
    ELSE IF m.xbh /\ i - CMDLEN_SZ <= 3 THEN XBH[i - CMDLEN_SZ] ELSE 0
Framed(k, m) == [i \in 1..FrameLen(m) |-> [ch |-> CharAt(m, i), cmd |-> k, at |-> i]]

----------------------------------------------------------------------------
VARIABLES
    msgs,           \* the commands the PC has sent, in order
    stream,         \* their bytes
    starts,         \* history: where in it each begins, and the next will
    arrived,        \* bytes of it TCP has delivered to the board
    read,           \* bytes of it recv has returned
    alive,          \* the PC is there
    pc,             \* where the server task is
    xbh_cmd,        \* the command buffer
    want, recved,   \* recv_waitall's len and recved
    taken,          \* commands accepted
    len, sent,      \* sendall's len and sent
    wire            \* offsets in reply_buf of the bytes sent of this reply

pcVars == <<msgs, stream, starts, arrived, alive>>
recvVars == <<read, xbh_cmd, want, recved, taken>>
sendVars == <<len, sent, wire>>
vars == <<pcVars, pc, recvVars, sendVars>>

Init ==
    /\ msgs = <<>> /\ stream = <<>> /\ starts = <<0>>
    /\ arrived = 0 /\ read = 0 /\ alive = TRUE
    /\ pc = "len" /\ want = CMDLEN_SZ /\ recved = 0 /\ taken = 0
    /\ xbh_cmd = [i \in 1..PacketMax |-> NoByte]
    /\ len = 0 /\ sent = 0 /\ wire = <<>>

(* The PC sends a command, whatever it still waits for; TCP delivers some    *)
(* more of them; the PC goes away.                                           *)
SendCommand ==
    /\ alive
    /\ Len(msgs) < MaxMsgs
    /\ \E m \in Messages :
        /\ msgs' = Append(msgs, m)
        /\ stream' = stream \o Framed(Len(msgs) + 1, m)
        /\ starts' = Append(starts, Len(stream) + FrameLen(m))
    /\ UNCHANGED <<arrived, alive, pc, recvVars, sendVars>>

Arrive ==
    /\ alive
    /\ arrived < Len(stream)
    /\ arrived' \in (arrived + 1)..Len(stream)
    /\ UNCHANGED <<msgs, stream, starts, alive, pc, recvVars, sendVars>>

PeerLeaves ==
    /\ alive
    /\ alive' = FALSE
    /\ UNCHANGED <<msgs, stream, starts, arrived, pc, recvVars, sendVars>>

(* Mutation: a short receive is taken for a complete one.                    *)
RecvSomeOnce ==
    /\ pc \in {"len", "body"}
    /\ \E n \in 1..(want - recved) :
        /\ n <= arrived - read
        /\ xbh_cmd' = [i \in 1..PacketMax |->
                        IF i \in 1..n THEN stream[read + i] ELSE xbh_cmd[i]]
        /\ recved' = want
        /\ read' = read + n
    /\ UNCHANGED <<pcVars, pc, want, taken, sendVars>>

(* recv_waitall: one recv() returns between one byte and what is missing.    *)
RecvSome ==
    /\ pc \in {"len", "body"}
    /\ \E n \in 1..(want - recved) :
        /\ n <= arrived - read
        /\ xbh_cmd' = [i \in 1..PacketMax |->
                        IF i \in (recved + 1)..(recved + n) THEN stream[read + i - recved]
                        ELSE xbh_cmd[i]]
        /\ recved' = recved + n
        /\ read' = read + n
    /\ UNCHANGED <<pcVars, pc, want, taken, sendVars>>

(* recv() returns 0 or -1 once the PC is gone and nothing more arrives, and  *)
(* 0 when asked for 0 bytes; recv_cmd then fails and the server closes.      *)
RecvFails ==
    /\ pc \in {"len", "body"}
    /\ \/ ~alive /\ recved < want
       \/ want = 0
    /\ pc' = "closed"
    /\ UNCHANGED <<pcVars, recvVars, sendVars>>

(* Mutation: the length is not compared with the buffer's.                   *)
LenTooLongIgnored(n) == FALSE

LenTooLong(n) == n > PacketMax

(* The prefix is complete: decode it, refuse what does not fit.              *)
LenReceived ==
    /\ pc = "len" /\ recved = want
    /\ LET n == hex2len([i \in 1..CMDLEN_SZ |-> xbh_cmd[i].ch])
       IN  IF LenTooLong(n)
           THEN pc' = "closed" /\ UNCHANGED <<want, recved>>
           ELSE pc' = "body" /\ want' = n /\ recved' = 0
    /\ UNCHANGED <<pcVars, read, xbh_cmd, taken, sendVars>>

(* The command is complete: it must start with "XBH".                        *)
BodyReceived ==
    /\ pc = "body" /\ recved = want /\ want > 0
    /\ IF \A i \in 1..3 : xbh_cmd[i].ch = XBH[i]
       THEN pc' = "handle" /\ taken' = taken + 1
       ELSE pc' = "closed" /\ UNCHANGED taken
    /\ UNCHANGED <<pcVars, read, xbh_cmd, want, recved, sendVars>>

(* The handler has left a reply of n bytes, prefix included.                 *)
StartReply ==
    /\ pc = "handle"
    /\ len' \in 1..MaxReply
    /\ sent' = 0 /\ wire' = <<>>
    /\ pc' = "send"
    /\ UNCHANGED <<pcVars, recvVars>>

(* Mutation: a short send is taken for a complete one.                       *)
SendSomeOnce ==
    /\ pc = "send" /\ sent < len
    /\ \E n \in 1..(len - sent) :
        /\ wire' = wire \o [i \in 1..n |-> i]
        /\ sent' = len
    /\ UNCHANGED <<pcVars, pc, recvVars, len>>

(* sendall: send() accepts some of the len - sent bytes offered, which are   *)
(* always those at the start of the buffer.                                  *)
SendSome ==
    /\ pc = "send" /\ sent < len
    /\ \E n \in 1..(len - sent) :
        /\ wire' = wire \o [i \in 1..n |-> i]
        /\ sent' = sent + n
    /\ UNCHANGED <<pcVars, pc, recvVars, len>>

(* sendall returns: the server goes on to the next command either way.       *)
SendReturns ==
    /\ pc = "send"
    /\ sent >= len \/ ~alive
    /\ pc' = "len" /\ want' = CMDLEN_SZ /\ recved' = 0
    /\ UNCHANGED <<pcVars, read, xbh_cmd, taken, sendVars>>

Server ==
    \/ RecvSome \/ RecvFails \/ LenReceived \/ BodyReceived
    \/ StartReply \/ SendSome \/ SendReturns

Next == SendCommand \/ Arrive \/ PeerLeaves \/ Server

Spec == Init /\ [][Next]_vars
FairSpec == Spec /\ WF_vars(Arrive) /\ WF_vars(Server)

----------------------------------------------------------------------------
(* Properties *)

(* Type invariant: the calls' cursors stay inside their buffers.             *)
TypeOK ==
    /\ msgs \in Seq(Messages) /\ stream \in Seq(Byte)
    /\ arrived \in 0..Len(stream) /\ read \in 0..arrived
    /\ alive \in BOOLEAN
    /\ pc \in {"len", "body", "handle", "send", "closed"}
    /\ xbh_cmd \in [1..PacketMax -> Byte]
    /\ want \in 0..PacketMax /\ recved \in 0..want
    /\ taken \in 0..Len(msgs)
    /\ len \in 0..MaxReply /\ sent \in 0..len

(* The command handed to the handler is the next one the PC sent, whole and  *)
(* in order, however TCP cut the stream and whatever it sent before or since.*)
CommandIntact ==
    pc = "handle" =>
        /\ want = msgs[taken].len
        /\ \A i \in 1..want : xbh_cmd[i] = Framed(taken, msgs[taken])[CMDLEN_SZ + i]

(* Commands of a PC that stays are all taken, as long as they are well       *)
(* formed.                                                                   *)
WellFormed(m) == m.xbh /\ m.len \in 3..PacketMax
AllTaken ==
    \A k \in 1..MaxMsgs :
        (Len(msgs) >= k /\ \A j \in 1..k : WellFormed(msgs[j])) ~> (taken >= k \/ ~alive)

(* What util.c says of sendall, "Sends entire buffer": at its success every  *)
(* byte of the buffer was sent, in order.                                    *)
EntireBufferSent ==
    pc = "send" /\ sent >= len => wire = [i \in 1..len |-> i]
=============================================================================
