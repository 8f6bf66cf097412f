------------------------------ MODULE XbhServer ------------------------------
(* The command server of the XBH (xbh_server.c): the TCP server task, the    *)
(* command handler task, the two FreeRTOS queues and the two static buffers  *)
(* they share, and the PC connections they serve.                            *)
(*                                                                           *)
(* Both tasks have the same priority and are time sliced, so their steps     *)
(* interleave freely.  A connection is a number, used once; a command is     *)
(* <<connection, position in that connection's stream>>.  The bytes of a     *)
(* command are not modelled: what is kept is whose bytes a buffer holds, or  *)
(* that it holds a mix (Torn).                                               *)
EXTENDS Naturals, Sequences

CONSTANTS
    MaxConn,        \* bound: connections ever made by PCs
    MaxReq,         \* bound: commands sent on one connection
    ReplyQLen,      \* capacity of the handler-to-server queue (15 in the code)
    KeepAlive,      \* ticks of silence before a keepalive (1000 in the code)
    ProbeSeesPeer,  \* whether lwIP's zero-length send reports a lost peer
    AcceptMayFail   \* whether accept() may return an error

ASSUME MaxConnAssumption == MaxConn \in Nat
ASSUME MaxReqAssumption == MaxReq \in Nat
ASSUME ReplyQLenAssumption == ReplyQLen \in Nat \ {0}
ASSUME KeepAliveAssumption == KeepAlive \in Nat
ASSUME ProbeAssumption == ProbeSeesPeer \in BOOLEAN
ASSUME AcceptAssumption == AcceptMayFail \in BOOLEAN

VARIABLES
    (* the network and the PCs *)
    peer,           \* connection -> state of the PC's end
    backlog,        \* connections waiting to be accepted
    sent,           \* connection -> kinds of the commands the PC has sent
    out,            \* connection -> replies delivered to the PC
    (* xbh_srv_task *)
    pc,             \* where the task is in its loop
    state,          \* its variable `state`
    clnt_sock,      \* its variable `clnt_sock` (NoConn is -1)
    opened,         \* descriptors accepted and not closed
    rcvd,           \* connection -> commands received completely
    rx_msg,         \* the handler's message being replied
    silence,        \* ticks since last_sent, counted up to KeepAlive + 1
    (* shared *)
    xbh_cmd,        \* contents of the command buffer
    reply_buf,      \* contents of the reply buffer
    srv_to_hndlr,   \* queue, capacity 1
    hndlr_to_srv,   \* queue, capacity ReplyQLen
    (* xbh_hndlr_task *)
    hpc,            \* where the handler is
    hlen,           \* length it was given: the command that length belongs to
    hreq            \* command XBH_handle dispatched on

net == <<peer, backlog, sent, out>>
srv == <<pc, state, clnt_sock, opened, rcvd, rx_msg, silence>>
hndlr == <<hpc, hlen, hreq>>
vars == <<net, srv, hndlr, xbh_cmd, reply_buf, srv_to_hndlr, hndlr_to_srv>>

Conns == 1..MaxConn
NoConn == 0
Commands == Conns \X (1..MaxReq)
Torn == <<0, 0>>                  \* no single command's bytes
Contents == Commands \cup {Torn}

PeerStates == {"none", "up", "fin", "rst"}
SrvStates == {"ACCEPT", "CMD", "WAIT"}
SrvPcs == {"probe", "accept", "recvlen", "recvbody", "enqueue", "wait",
           "reply", "halt"}
HndlrPcs == {"idle", "dispatch", "run", "post", "hung"}

(* "cmd" is a stream position recv_cmd accepts, "bad" one it rejects: a      *)
(* length above XBH_PACKET_SIZE_MAX, bytes that do not start with "XBH", or  *)
(* a stream that ends inside the command.                                    *)
Kinds == {"cmd", "bad"}

----------------------------------------------------------------------------
(* The PCs and lwIP: connections are made, commands arrive, and a PC may     *)
(* close its end ("fin") or vanish so that lwIP aborts the connection        *)
(* ("rst") at any moment.                                                    *)

Connect(c) ==
    /\ peer[c] = "none"
    /\ \A d \in 1..(c - 1) : peer[d] # "none"    \* connections are numbered in order
    /\ peer' = [peer EXCEPT ![c] = "up"]
    /\ backlog' = Append(backlog, c)
    /\ UNCHANGED <<sent, out, srv, hndlr, xbh_cmd, reply_buf, srv_to_hndlr, hndlr_to_srv>>

SendCommand(c, kind) ==
    /\ peer[c] = "up"
    /\ Len(sent[c]) < MaxReq
    /\ sent' = [sent EXCEPT ![c] = Append(@, kind)]
    /\ UNCHANGED <<peer, backlog, out, srv, hndlr, xbh_cmd, reply_buf, srv_to_hndlr, hndlr_to_srv>>

ClosePeer(c) ==
    /\ peer[c] = "up"
    /\ peer' = [peer EXCEPT ![c] = "fin"]
    /\ UNCHANGED <<backlog, sent, out, srv, hndlr, xbh_cmd, reply_buf, srv_to_hndlr, hndlr_to_srv>>

LosePeer(c) ==
    /\ peer[c] \in {"up", "fin"}
    /\ peer' = [peer EXCEPT ![c] = "rst"]
    /\ UNCHANGED <<backlog, sent, out, srv, hndlr, xbh_cmd, reply_buf, srv_to_hndlr, hndlr_to_srv>>

(* What a send on an open descriptor does: it reaches a PC that is up; the   *)
(* first one after the PC closed its end is accepted by lwIP and answered by *)
(* a reset; on a reset connection it returns -1.                             *)
SendFails(c) == peer[c] = "rst"
AfterSend(c) == IF peer[c] = "fin" THEN [peer EXCEPT ![c] = "rst"] ELSE peer

(* The FreeRTOS tick.                                                        *)
Tick ==
    /\ silence <= KeepAlive
    /\ silence' = silence + 1
    /\ UNCHANGED <<net, pc, state, clnt_sock, opened, rcvd, rx_msg, hndlr,
                   xbh_cmd, reply_buf, srv_to_hndlr, hndlr_to_srv>>

----------------------------------------------------------------------------
(* xbh_srv_task *)

(* Mutation: a probe that reports the loss of the peer.                      *)
ProbeFailsOnLoss == clnt_sock \notin opened \/ SendFails(clnt_sock)

(* send(clnt_sock, NULL, 0, 0): an unused descriptor is always an error;     *)
(* whether a dead connection is one too depends on the lwIP build.           *)
ProbeFails ==
    \/ clnt_sock \notin opened
    \/ ProbeSeesPeer /\ SendFails(clnt_sock)

Entry(st) == CASE st = "ACCEPT" -> "accept"
               [] st = "CMD" -> "recvlen"
               [] st = "WAIT" -> "wait"

(* Top of the loop.  A failed probe selects XBHSRV_ACCEPT and nothing else:  *)
(* the descriptor is not closed, the queues are not emptied.                 *)
SrvProbe ==
    /\ pc = "probe"
    /\ LET st == IF ProbeFails THEN "ACCEPT" ELSE state
       IN  /\ state' = st
           /\ pc' = Entry(st)
    /\ UNCHANGED <<net, clnt_sock, opened, rcvd, rx_msg, silence, hndlr,
                   xbh_cmd, reply_buf, srv_to_hndlr, hndlr_to_srv>>

SrvAccept ==
    /\ pc = "accept"
    /\ backlog # <<>>
    /\ clnt_sock' = Head(backlog)
    /\ backlog' = Tail(backlog)
    /\ opened' = opened \cup {Head(backlog)}
    /\ state' = "CMD"
    /\ pc' = "probe"
    /\ UNCHANGED <<peer, sent, out, rcvd, rx_msg, silence, hndlr,
                   xbh_cmd, reply_buf, srv_to_hndlr, hndlr_to_srv>>

(* accept() < 0: LOOP_ERRMSG prints for ever, the task never leaves it.      *)
SrvAcceptFails ==
    /\ pc = "accept"
    /\ AcceptMayFail
    /\ backlog # <<>>
    /\ clnt_sock' = NoConn
    /\ backlog' = Tail(backlog)
    /\ pc' = "halt"
    /\ UNCHANGED <<peer, sent, out, state, opened, rcvd, rx_msg, silence, hndlr,
                   xbh_cmd, reply_buf, srv_to_hndlr, hndlr_to_srv>>

Unread(c) == rcvd[c] < Len(sent[c])
NextKind(c) == sent[c][rcvd[c] + 1]
StreamEnded(c) == peer[c] = "rst" \/ (peer[c] = "fin" /\ ~Unread(c))

(* recv_cmd, first half: the length prefix is received into xbh_cmd itself.  *)
SrvRecvLen ==
    /\ pc = "recvlen"
    /\ Unread(clnt_sock)
    /\ xbh_cmd' = Torn
    /\ pc' = "recvbody"
    /\ UNCHANGED <<net, state, clnt_sock, opened, rcvd, rx_msg, silence, hndlr,
                   reply_buf, srv_to_hndlr, hndlr_to_srv>>

(* recv_cmd, second half: the command replaces the prefix and is validated.  *)
SrvRecvBody ==
    /\ pc = "recvbody"
    /\ NextKind(clnt_sock) = "cmd"
    /\ rcvd' = [rcvd EXCEPT ![clnt_sock] = @ + 1]
    /\ xbh_cmd' = <<clnt_sock, rcvd[clnt_sock] + 1>>
    /\ pc' = "enqueue"
    /\ UNCHANGED <<net, state, clnt_sock, opened, rx_msg, silence, hndlr,
                   reply_buf, srv_to_hndlr, hndlr_to_srv>>

(* Mutation: cmd_err without its close().                                    *)
SrvCmdErrNoClose ==
    /\ \/ pc = "recvlen" /\ StreamEnded(clnt_sock)
       \/ pc = "recvbody" /\ (NextKind(clnt_sock) = "bad" \/ peer[clnt_sock] = "rst")
    /\ clnt_sock' = NoConn
    /\ state' = "ACCEPT"
    /\ pc' = "probe"
    /\ UNCHANGED <<net, opened, rcvd, rx_msg, silence, hndlr,
                   xbh_cmd, reply_buf, srv_to_hndlr, hndlr_to_srv>>

(* recv_cmd returns -1 (no bytes, or a command it rejects): cmd_err closes   *)
(* the descriptor and goes back to XBHSRV_ACCEPT.                            *)
SrvCmdErr ==
    /\ \/ pc = "recvlen" /\ StreamEnded(clnt_sock)
       \/ pc = "recvbody" /\ (NextKind(clnt_sock) = "bad" \/ peer[clnt_sock] = "rst")
    /\ opened' = opened \ {clnt_sock}
    /\ state' = "ACCEPT"
    /\ pc' = "probe"
    /\ UNCHANGED <<net, clnt_sock, rcvd, rx_msg, silence, hndlr,
                   xbh_cmd, reply_buf, srv_to_hndlr, hndlr_to_srv>>

(* Mutation: the next command is received while this one is handled.         *)
SrvEnqueuePipelined ==
    /\ pc = "enqueue"
    /\ Len(srv_to_hndlr) <= 1
    /\ srv_to_hndlr' = Append(srv_to_hndlr, xbh_cmd)
    /\ state' = "CMD"
    /\ pc' = "probe"
    /\ UNCHANGED <<net, clnt_sock, opened, rcvd, rx_msg, silence, hndlr,
                   xbh_cmd, reply_buf, hndlr_to_srv>>

(* xQueueSend to the handler blocks while the one slot is taken.             *)
SrvEnqueue ==
    /\ pc = "enqueue"
    /\ srv_to_hndlr = <<>>
    /\ srv_to_hndlr' = <<xbh_cmd>>
    /\ state' = "WAIT"
    /\ pc' = "probe"
    /\ UNCHANGED <<net, clnt_sock, opened, rcvd, rx_msg, silence, hndlr,
                   xbh_cmd, reply_buf, hndlr_to_srv>>

(* Mutation: the message is read and left in the queue.                      *)
SrvWaitDonePeek ==
    /\ pc = "wait"
    /\ hndlr_to_srv # <<>>
    /\ rx_msg' = Head(hndlr_to_srv)
    /\ pc' = "reply"
    /\ UNCHANGED <<net, state, clnt_sock, opened, rcvd, silence, hndlr,
                   xbh_cmd, reply_buf, srv_to_hndlr, hndlr_to_srv>>

(* XBHSRV_WAIT, the handler's message is there.                              *)
SrvWaitDone ==
    /\ pc = "wait"
    /\ hndlr_to_srv # <<>>
    /\ rx_msg' = Head(hndlr_to_srv)
    /\ hndlr_to_srv' = Tail(hndlr_to_srv)
    /\ pc' = "reply"
    /\ UNCHANGED <<net, state, clnt_sock, opened, rcvd, silence, hndlr,
                   xbh_cmd, reply_buf, srv_to_hndlr>>

(* The length prefix goes in front of what reply_buf holds and sendall sends *)
(* that many bytes of it; its result is ignored.                             *)
SrvReply ==
    /\ pc = "reply"
    /\ out' = IF peer[clnt_sock] = "up"
              THEN [out EXCEPT ![clnt_sock] = Append(@, <<rx_msg, reply_buf>>)]
              ELSE out
    /\ peer' = AfterSend(clnt_sock)
    /\ state' = "CMD"
    /\ silence' = 0
    /\ pc' = "probe"
    /\ UNCHANGED <<backlog, sent, clnt_sock, opened, rcvd, rx_msg, hndlr,
                   xbh_cmd, reply_buf, srv_to_hndlr, hndlr_to_srv>>

(* xQueueReceive timed out after one tick, the last transmission is recent.  *)
SrvWaitAgain ==
    /\ pc = "wait"
    /\ hndlr_to_srv = <<>>
    /\ silence <= KeepAlive
    /\ pc' = "probe"
    /\ UNCHANGED <<net, state, clnt_sock, opened, rcvd, rx_msg, silence, hndlr,
                   xbh_cmd, reply_buf, srv_to_hndlr, hndlr_to_srv>>

(* Timed out and silent for too long: send "XBH..kao", which leaves.         *)
SrvKeepalive ==
    /\ pc = "wait"
    /\ hndlr_to_srv = <<>>
    /\ silence > KeepAlive
    /\ ~SendFails(clnt_sock)
    /\ peer' = AfterSend(clnt_sock)
    /\ silence' = 0
    /\ pc' = "probe"
    /\ UNCHANGED <<backlog, sent, out, state, clnt_sock, opened, rcvd, rx_msg, hndlr,
                   xbh_cmd, reply_buf, srv_to_hndlr, hndlr_to_srv>>

(* Mutation: on a failed keepalive close and accept, as the code disabled    *)
(* behind "#if 0" (wait_err) does.                                           *)
SrvWaitErr ==
    /\ pc = "wait"
    /\ hndlr_to_srv = <<>>
    /\ silence > KeepAlive
    /\ SendFails(clnt_sock)
    /\ opened' = opened \ {clnt_sock}
    /\ state' = "ACCEPT"
    /\ pc' = "probe"
    /\ UNCHANGED <<net, clnt_sock, rcvd, rx_msg, silence, hndlr,
                   xbh_cmd, reply_buf, srv_to_hndlr, hndlr_to_srv>>

(* Mutation: the failure of the keepalive is ignored.                        *)
SrvResetIgnored ==
    /\ pc = "wait"
    /\ hndlr_to_srv = <<>>
    /\ silence > KeepAlive
    /\ SendFails(clnt_sock)
    /\ silence' = 0
    /\ pc' = "probe"
    /\ UNCHANGED <<net, state, clnt_sock, opened, rcvd, rx_msg, hndlr,
                   xbh_cmd, reply_buf, srv_to_hndlr, hndlr_to_srv>>

(* The keepalive cannot be sent: xbh_reset restarts the whole board.  Both   *)
(* tasks, queues and statics start afresh and every connection is lost.      *)
SrvReset ==
    /\ pc = "wait"
    /\ hndlr_to_srv = <<>>
    /\ silence > KeepAlive
    /\ SendFails(clnt_sock)
    /\ peer' = [c \in Conns |-> IF peer[c] = "none" THEN "none" ELSE "rst"]
    /\ backlog' = <<>>
    /\ pc' = "probe"
    /\ state' = "ACCEPT"
    /\ clnt_sock' = NoConn
    /\ opened' = {}
    /\ rx_msg' = Torn
    /\ silence' = 0
    /\ hpc' = "idle" /\ hlen' = Torn /\ hreq' = Torn
    /\ xbh_cmd' = Torn
    /\ reply_buf' = Torn
    /\ srv_to_hndlr' = <<>>
    /\ hndlr_to_srv' = <<>>
    /\ UNCHANGED <<sent, out, rcvd>>

----------------------------------------------------------------------------
(* xbh_hndlr_task *)

HndlrReceive ==
    /\ hpc = "idle"
    /\ srv_to_hndlr # <<>>
    /\ hlen' = Head(srv_to_hndlr)
    /\ srv_to_hndlr' = Tail(srv_to_hndlr)
    /\ hpc' = "dispatch"
    /\ UNCHANGED <<net, srv, hreq, xbh_cmd, reply_buf, hndlr_to_srv>>

(* XBH_handle compares the command codes in xbh_cmd and begins its work,     *)
(* which reads its operands from xbh_cmd and fills reply_buf as it goes.     *)
HndlrDispatch ==
    /\ hpc = "dispatch"
    /\ hreq' = xbh_cmd
    /\ reply_buf' = Torn
    /\ hpc' = "run"
    /\ UNCHANGED <<net, srv, hlen, xbh_cmd, srv_to_hndlr, hndlr_to_srv>>

(* Mutation: XBH_handle's return is not followed by a message.               *)
HndlrFinishSilent ==
    /\ hpc = "run"
    /\ reply_buf' = hreq
    /\ hpc' = "idle"
    /\ UNCHANGED <<net, srv, hlen, hreq, xbh_cmd, srv_to_hndlr, hndlr_to_srv>>

(* XBH_handle returns.  The reply answers the command dispatched on, if its  *)
(* operands and its length were that command's all along.                    *)
HndlrFinish ==
    /\ hpc = "run"
    /\ reply_buf' = IF xbh_cmd = hreq /\ hlen = hreq THEN hreq ELSE Torn
    /\ hpc' = "post"
    /\ UNCHANGED <<net, srv, hlen, hreq, xbh_cmd, srv_to_hndlr, hndlr_to_srv>>

(* XBH_handle never returns: the loops of i2c_comm.c and measure.c that wait *)
(* for the device have no timeout.                                           *)
HndlrHang ==
    /\ hpc = "run"
    /\ hpc' = "hung"
    /\ UNCHANGED <<net, srv, hlen, hreq, xbh_cmd, reply_buf, srv_to_hndlr, hndlr_to_srv>>

(* xQueueSend blocks while ReplyQLen messages wait.                          *)
HndlrPost ==
    /\ hpc = "post"
    /\ Len(hndlr_to_srv) < ReplyQLen
    /\ hndlr_to_srv' = Append(hndlr_to_srv, hreq)
    /\ hpc' = "idle"
    /\ UNCHANGED <<net, srv, hlen, hreq, xbh_cmd, reply_buf, srv_to_hndlr>>

----------------------------------------------------------------------------
Init ==
    /\ peer = [c \in Conns |-> "none"]
    /\ backlog = <<>>
    /\ sent = [c \in Conns |-> <<>>]
    /\ out = [c \in Conns |-> <<>>]
    /\ pc = "probe"
    /\ state = "ACCEPT"
    /\ clnt_sock = NoConn
    /\ opened = {}
    /\ rcvd = [c \in Conns |-> 0]
    /\ rx_msg = Torn
    /\ silence = 0
    /\ xbh_cmd = Torn
    /\ reply_buf = Torn
    /\ srv_to_hndlr = <<>>
    /\ hndlr_to_srv = <<>>
    /\ hpc = "idle"
    /\ hlen = Torn
    /\ hreq = Torn

Network == \E c \in Conns :
    \/ Connect(c)
    \/ \E kind \in Kinds : SendCommand(c, kind)
    \/ ClosePeer(c)
    \/ LosePeer(c)

SrvStep ==
    \/ SrvProbe \/ SrvAccept \/ SrvAcceptFails
    \/ SrvRecvLen \/ SrvRecvBody \/ SrvCmdErr \/ SrvEnqueue
    \/ SrvWaitDone \/ SrvReply \/ SrvWaitAgain \/ SrvKeepalive \/ SrvReset

HndlrStep == HndlrReceive \/ HndlrDispatch \/ HndlrFinish \/ HndlrHang \/ HndlrPost

Next == Network \/ Tick \/ SrvStep \/ HndlrStep

(* Both tasks run at priority 1 under the preemptive, time sliced scheduler  *)
(* and the tick interrupt is never stopped: each one that can always step    *)
(* does.  Nothing is assumed of the PCs.                                     *)
Fairness == WF_vars(SrvStep) /\ WF_vars(HndlrStep) /\ WF_vars(Tick)

Spec == Init /\ [][Next]_vars
FairSpec == Spec /\ Fairness
----------------------------------------------------------------------------
(* Properties.  Those marked [*] depend on ProbeSeesPeer = FALSE: while a    *)
(* command is in progress the server then stays in XBHSRV_WAIT whatever the  *)
(* PC does.                                                                  *)

(* Type invariant: descriptors, queues and both tasks' states stay in range. *)
TypeOK ==
    /\ peer \in [Conns -> PeerStates]
    /\ backlog \in Seq(Conns)
    /\ sent \in [Conns -> Seq(Kinds)]
    /\ out \in [Conns -> Seq(Contents \X Contents)]
    /\ pc \in SrvPcs
    /\ state \in SrvStates
    /\ clnt_sock \in Conns \cup {NoConn}
    /\ opened \subseteq Conns
    /\ rcvd \in [Conns -> 0..MaxReq]
    /\ rx_msg \in Contents
    /\ silence \in 0..(KeepAlive + 1)
    /\ xbh_cmd \in Contents
    /\ reply_buf \in Contents
    /\ srv_to_hndlr \in Seq(Contents) /\ Len(srv_to_hndlr) <= 1
    /\ hndlr_to_srv \in Seq(Contents) /\ Len(hndlr_to_srv) <= ReplyQLen
    /\ hpc \in HndlrPcs
    /\ hlen \in Contents
    /\ hreq \in Contents

(* [*] The i-th reply a PC receives is the reply to the i-th command of its  *)
(* own connection, with that reply's length (srv_task's reply in WAIT): no   *)
(* reply of an earlier connection, none skipped, none cut.                   *)
RepliesMatch ==
    \A c \in Conns : \A i \in 1..Len(out[c]) : out[c][i] = <<<<c, i>>, <<c, i>>>>

(* [*] xbh_cmd holds the command being handled for as long as XBH_handle     *)
(* reads it, and reply_buf the announced reply for as long as sendall reads  *)
(* it, though neither buffer has a lock: the queues alone hand them over.    *)
BuffersStable ==
    /\ hpc \in {"dispatch", "run"} => xbh_cmd = hlen
    /\ pc = "reply" => reply_buf = rx_msg

(* [*] The server holds at most one descriptor, the one in clnt_sock: none   *)
(* is forgotten when it goes back to accept().                               *)
OneDescriptor ==
    /\ opened \subseteq {clnt_sock}
    /\ pc \in {"accept", "halt"} => opened = {}

(* [*] When the server takes up a connection nothing of an earlier one is    *)
(* left in the queues or in the handler.                                     *)
CleanHandover ==
    pc \in {"accept", "recvlen"} => srv_to_hndlr = <<>> /\ hndlr_to_srv = <<>> /\ hpc = "idle"

(* A command taken from a PC that stays is answered, unless XBH_handle never *)
(* returns.                                                                  *)
CommandAnswered ==
    \A c \in Conns : \A n \in 1..MaxReq :
        (rcvd[c] = n /\ peer[c] = "up") ~> (Len(out[c]) >= n \/ peer[c] # "up" \/ hpc = "hung")

(* A connection that is over is closed and its descriptor released, even     *)
(* while the handler hangs: the failing keepalive resets the board.          *)
DescriptorReleased ==
    \A c \in Conns : (c \in opened /\ peer[c] # "up") ~> (c \notin opened)

(* What XbhService promises, with the work in progress read off the server.  *)
Service == INSTANCE XbhService WITH
    None <- Torn,
    asked <- [c \in Conns |-> Len(sent[c])],
    taken <- rcvd,
    answered <- out,
    gone <- {c \in Conns : peer[c] \notin {"none", "up"}},
    busy <- IF pc = "enqueue" \/ state = "WAIT"
            THEN <<clnt_sock, rcvd[clnt_sock]>> ELSE Torn

(* [*] The two tasks together implement XbhService.                          *)
ServiceRefined == Service!Spec
=============================================================================
