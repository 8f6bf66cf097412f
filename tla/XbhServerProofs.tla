--------------------------- MODULE XbhServerProofs ---------------------------
(* Proofs about XbhServer for every number of connections, commands, queue   *)
(* lengths and keepalive intervals.                                          *)
EXTENDS XbhServer, SequenceTheorems, TLAPS

USE DEF PeerStates, SrvStates, SrvPcs, HndlrPcs, Kinds, net, srv, hndlr, vars

----------------------------------------------------------------------------
(* Type correctness needs to know that the server reads only what was sent   *)
(* and that it holds a connection wherever it uses one.                      *)

StateOfPc ==
    /\ pc \in {"accept", "halt"} => state = "ACCEPT"
    /\ pc \in {"recvlen", "recvbody", "enqueue"} => state = "CMD"
    /\ pc \in {"wait", "reply"} => state = "WAIT"
    /\ state \in {"CMD", "WAIT"} => clnt_sock \in Conns

ReadsSent ==
    /\ \A c \in Conns : rcvd[c] <= Len(sent[c]) /\ Len(sent[c]) <= MaxReq
    /\ pc = "recvbody" => rcvd[clnt_sock] < Len(sent[clnt_sock])

TypeInv == TypeOK /\ StateOfPc /\ ReadsSent

(* The facts about the constant sets that type correctness uses.             *)
LEMMA SetFacts ==
    /\ NoConn \notin Conns
    /\ Torn \in Contents
    /\ \A c \in Conns : \A n \in 1..MaxReq : <<c, n>> \in Contents
    /\ 0 \in 0..MaxReq
    /\ 0 \in 0..(KeepAlive + 1)
    /\ \A n \in 0..(KeepAlive + 1) : n <= KeepAlive => n + 1 \in 0..(KeepAlive + 1)
  BY MaxConnAssumption, MaxReqAssumption, KeepAliveAssumption
  DEF Conns, NoConn, Torn, Contents, Commands

(* Both queues are empty and the server waits for a connection at the start. *)
LEMMA TypeInit == Init => TypeInv
  BY SetFacts, MaxReqAssumption, KeepAliveAssumption, ReplyQLenAssumption
  DEF Init, TypeInv, TypeOK, StateOfPc, ReadsSent

(* Every step of the tasks and of the network keeps the types.               *)
LEMMA TypeOKStep == TypeInv /\ [Next]_vars => TypeOK'
  <1> SUFFICES ASSUME TypeInv, [Next]_vars PROVE TypeOK'
    OBVIOUS
  <1> USE SetFacts, MaxReqAssumption, ReplyQLenAssumption DEF TypeInv, TypeOK, StateOfPc, ReadsSent
  <1>1. ASSUME NEW c \in Conns, Connect(c) PROVE TypeOK'
    <2>1. backlog' \in Seq(Conns)
      BY <1>1, AppendProperties DEF Connect
    <2> QED
      BY <1>1, <2>1 DEF Connect
  <1>2. ASSUME NEW c \in Conns, NEW kind \in Kinds, SendCommand(c, kind) PROVE TypeOK'
    BY <1>2 DEF SendCommand
  <1>3. ASSUME NEW c \in Conns, ClosePeer(c) PROVE TypeOK'
    BY <1>3 DEF ClosePeer
  <1>4. ASSUME NEW c \in Conns, LosePeer(c) PROVE TypeOK'
    BY <1>4 DEF LosePeer
  <1>5. CASE Tick
    BY <1>5 DEF Tick
  <1>6. CASE SrvProbe
    BY <1>6 DEF SrvProbe, Entry
  <1>7. CASE SrvAccept
    <2>1. Head(backlog) \in Conns /\ backlog' \in Seq(Conns)
      BY <1>7, HeadTailProperties DEF SrvAccept
    <2> QED
      BY <1>7, <2>1 DEF SrvAccept
  <1>8. CASE SrvAcceptFails
    <2>1. Head(backlog) \in Conns /\ backlog' \in Seq(Conns)
      BY <1>8, HeadTailProperties DEF SrvAcceptFails
    <2> QED
      BY <1>8, <2>1 DEF SrvAcceptFails
  <1>9. CASE SrvRecvLen
    BY <1>9 DEF SrvRecvLen
  <1>10. CASE SrvRecvBody
    BY <1>10 DEF SrvRecvBody, NextKind
  <1>11. CASE SrvCmdErr
    BY <1>11 DEF SrvCmdErr
  <1>12. CASE SrvEnqueue
    BY <1>12 DEF SrvEnqueue
  <1>13. CASE SrvWaitDone
    BY <1>13 DEF SrvWaitDone
  <1>14. CASE SrvReply
    <2>1. clnt_sock \in Conns
      BY <1>14 DEF SrvReply
    <2>2. peer' \in [Conns -> PeerStates]
      BY <1>14, <2>1 DEF SrvReply, AfterSend
    <2>3. Append(out[clnt_sock], <<rx_msg, reply_buf>>) \in Seq(Contents \X Contents)
      BY <2>1, AppendProperties
    <2>4. out' \in [Conns -> Seq(Contents \X Contents)]
      BY <1>14, <2>1, <2>3 DEF SrvReply
    <2> QED
      BY <1>14, <2>2, <2>4 DEF SrvReply
  <1>15. CASE SrvWaitAgain
    BY <1>15 DEF SrvWaitAgain
  <1>16. CASE SrvKeepalive
    BY <1>16 DEF SrvKeepalive, AfterSend
  <1>17. CASE SrvReset
    BY <1>17 DEF SrvReset
  <1>18. CASE HndlrReceive
    BY <1>18 DEF HndlrReceive
  <1>19. CASE HndlrDispatch
    BY <1>19 DEF HndlrDispatch
  <1>20. CASE HndlrFinish
    BY <1>20 DEF HndlrFinish
  <1>21. CASE HndlrHang
    BY <1>21 DEF HndlrHang
  <1>22. CASE HndlrPost
    BY <1>22 DEF HndlrPost
  <1>23. CASE UNCHANGED vars
    BY <1>23
  <1>24. QED
    BY <1>1, <1>2, <1>3, <1>4, <1>5, <1>6, <1>7, <1>8, <1>9, <1>10, <1>11, <1>12, <1>13, <1>14, <1>15, <1>16, <1>17, <1>18, <1>19, <1>20, <1>21, <1>22, <1>23 DEF Next, Network, SrvStep, HndlrStep

(* Every step keeps xbhsrv_state in agreement with the line the task is at.  *)
LEMMA StateOfPcStep == TypeInv /\ [Next]_vars => StateOfPc'
  <1> SUFFICES ASSUME TypeInv, [Next]_vars PROVE StateOfPc'
    OBVIOUS
  <1> USE SetFacts DEF TypeInv, TypeOK, StateOfPc, ReadsSent
  <1>1. ASSUME NEW c \in Conns, Connect(c) PROVE StateOfPc'
    BY <1>1 DEF Connect
  <1>2. ASSUME NEW c \in Conns, NEW kind \in Kinds, SendCommand(c, kind) PROVE StateOfPc'
    BY <1>2 DEF SendCommand
  <1>3. ASSUME NEW c \in Conns, ClosePeer(c) PROVE StateOfPc'
    BY <1>3 DEF ClosePeer
  <1>4. ASSUME NEW c \in Conns, LosePeer(c) PROVE StateOfPc'
    BY <1>4 DEF LosePeer
  <1>5. CASE Tick
    BY <1>5 DEF Tick
  <1>6. CASE SrvProbe
    BY <1>6 DEF SrvProbe, Entry
  <1>7. CASE SrvAccept
    BY <1>7 DEF SrvAccept
  <1>8. CASE SrvAcceptFails
    BY <1>8 DEF SrvAcceptFails
  <1>9. CASE SrvRecvLen
    BY <1>9 DEF SrvRecvLen
  <1>10. CASE SrvRecvBody
    BY <1>10 DEF SrvRecvBody, NextKind
  <1>11. CASE SrvCmdErr
    BY <1>11 DEF SrvCmdErr
  <1>12. CASE SrvEnqueue
    BY <1>12 DEF SrvEnqueue
  <1>13. CASE SrvWaitDone
    BY <1>13 DEF SrvWaitDone
  <1>14. CASE SrvReply
    BY <1>14 DEF SrvReply, AfterSend
  <1>15. CASE SrvWaitAgain
    BY <1>15 DEF SrvWaitAgain
  <1>16. CASE SrvKeepalive
    BY <1>16 DEF SrvKeepalive, AfterSend
  <1>17. CASE SrvReset
    BY <1>17 DEF SrvReset
  <1>18. CASE HndlrReceive
    BY <1>18 DEF HndlrReceive
  <1>19. CASE HndlrDispatch
    BY <1>19 DEF HndlrDispatch
  <1>20. CASE HndlrFinish
    BY <1>20 DEF HndlrFinish
  <1>21. CASE HndlrHang
    BY <1>21 DEF HndlrHang
  <1>22. CASE HndlrPost
    BY <1>22 DEF HndlrPost
  <1>23. CASE UNCHANGED vars
    BY <1>23
  <1>24. QED
    BY <1>1, <1>2, <1>3, <1>4, <1>5, <1>6, <1>7, <1>8, <1>9, <1>10, <1>11, <1>12, <1>13, <1>14, <1>15, <1>16, <1>17, <1>18, <1>19, <1>20, <1>21, <1>22, <1>23 DEF Next, Network, SrvStep, HndlrStep

(* Every step keeps what has been read within what was sent.                 *)
LEMMA ReadsSentStep == TypeInv /\ [Next]_vars => ReadsSent'
  <1> SUFFICES ASSUME TypeInv, [Next]_vars PROVE ReadsSent'
    OBVIOUS
  <1> USE MaxReqAssumption DEF TypeInv, TypeOK, StateOfPc, ReadsSent, Unread
  <1>1. ASSUME NEW c \in Conns, Connect(c) PROVE ReadsSent'
    BY <1>1 DEF Connect
  <1>2. ASSUME NEW c \in Conns, NEW kind \in Kinds, SendCommand(c, kind) PROVE ReadsSent'
    BY <1>2 DEF SendCommand
  <1>3. ASSUME NEW c \in Conns, ClosePeer(c) PROVE ReadsSent'
    BY <1>3 DEF ClosePeer
  <1>4. ASSUME NEW c \in Conns, LosePeer(c) PROVE ReadsSent'
    BY <1>4 DEF LosePeer
  <1>5. CASE Tick
    BY <1>5 DEF Tick
  <1>6. CASE SrvProbe
    BY <1>6 DEF SrvProbe, Entry
  <1>7. CASE SrvAccept
    BY <1>7 DEF SrvAccept
  <1>8. CASE SrvAcceptFails
    BY <1>8 DEF SrvAcceptFails
  <1>9. CASE SrvRecvLen
    BY <1>9 DEF SrvRecvLen
  <1>10. CASE SrvRecvBody
    BY <1>10 DEF SrvRecvBody, NextKind
  <1>11. CASE SrvCmdErr
    BY <1>11 DEF SrvCmdErr
  <1>12. CASE SrvEnqueue
    BY <1>12 DEF SrvEnqueue
  <1>13. CASE SrvWaitDone
    BY <1>13 DEF SrvWaitDone
  <1>14. CASE SrvReply
    BY <1>14 DEF SrvReply, AfterSend
  <1>15. CASE SrvWaitAgain
    BY <1>15 DEF SrvWaitAgain
  <1>16. CASE SrvKeepalive
    BY <1>16 DEF SrvKeepalive, AfterSend
  <1>17. CASE SrvReset
    BY <1>17 DEF SrvReset
  <1>18. CASE HndlrReceive
    BY <1>18 DEF HndlrReceive
  <1>19. CASE HndlrDispatch
    BY <1>19 DEF HndlrDispatch
  <1>20. CASE HndlrFinish
    BY <1>20 DEF HndlrFinish
  <1>21. CASE HndlrHang
    BY <1>21 DEF HndlrHang
  <1>22. CASE HndlrPost
    BY <1>22 DEF HndlrPost
  <1>23. CASE UNCHANGED vars
    BY <1>23
  <1>24. QED
    BY <1>1, <1>2, <1>3, <1>4, <1>5, <1>6, <1>7, <1>8, <1>9, <1>10, <1>11, <1>12, <1>13, <1>14, <1>15, <1>16, <1>17, <1>18, <1>19, <1>20, <1>21, <1>22, <1>23 DEF Next, Network, SrvStep, HndlrStep

(* Every variable keeps its type, with or without a probe that sees peers.   *)
THEOREM TypeCorrect == Spec => []TypeOK
  <1>1. TypeInv /\ [Next]_vars => TypeInv'
    BY TypeOKStep, StateOfPcStep, ReadsSentStep DEF TypeInv
  <1>2. TypeInv => TypeOK
    BY DEF TypeInv
  <1>3. QED
    BY <1>1, <1>2, TypeInit, PTL DEF Spec

----------------------------------------------------------------------------
(* With a probe that only sees unused descriptors, a command in progress has *)
(* exactly one holder: the queue to the handler, the handler, the queue back *)
(* or the server that replies.  This is what makes the buffers safe without  *)
(* a lock and keeps every reply on its own connection.                       *)

Current == <<clnt_sock, rcvd[clnt_sock]>>

Quiet == srv_to_hndlr = <<>> /\ hndlr_to_srv = <<>> /\ hpc = "idle"

Queued == srv_to_hndlr = <<Current>> /\ hndlr_to_srv = <<>> /\ hpc = "idle"

Handled ==
    /\ srv_to_hndlr = <<>> /\ hndlr_to_srv = <<>> /\ hpc # "idle"
    /\ hlen = Current
    /\ hpc # "dispatch" => hreq = Current
    /\ hpc = "post" => reply_buf = Current

Ready ==
    /\ srv_to_hndlr = <<>> /\ hndlr_to_srv = <<Current>> /\ hpc = "idle"
    /\ reply_buf = Current

Working == pc = "enqueue" \/ state = "WAIT"

PhaseInv ==
    /\ state = "ACCEPT" => opened = {}
    /\ state # "ACCEPT" => opened = {clnt_sock} /\ peer[clnt_sock] # "none"
    /\ Working => xbh_cmd = Current /\ rcvd[clnt_sock] # 0
    /\ state # "WAIT" => Quiet
    /\ pc = "reply" => Quiet /\ rx_msg = Current /\ reply_buf = Current
    /\ state = "WAIT" /\ pc # "reply" => Queued \/ Handled \/ Ready

BacklogInv == \A i \in 1..Len(backlog) : peer[backlog[i]] # "none"

(* A PC that is still there has the replies to all its commands but the one  *)
(* being worked on.                                                          *)
ReplyInv ==
    \A c \in Conns : peer[c] \in {"none", "up"} =>
        Len(out[c]) = IF Working /\ c = clnt_sock THEN rcvd[c] - 1 ELSE rcvd[c]

IInv == TypeInv /\ PhaseInv /\ BacklogInv /\ ReplyInv /\ RepliesMatch

(* The inductive invariant holds when the tasks start.                       *)
LEMMA IInvInit == Init => IInv
  <1> SUFFICES ASSUME Init PROVE IInv
    OBVIOUS
  <1>1. TypeInv
    BY TypeInit
  <1>2. PhaseInv /\ BacklogInv /\ ReplyInv /\ RepliesMatch
    BY DEF Init, PhaseInv, BacklogInv, ReplyInv, RepliesMatch, Quiet, Working
  <1> QED
    BY <1>1, <1>2 DEF IInv

(* Every step keeps the relation between the two tasks' phases.              *)
LEMMA PhaseStep == ~ProbeSeesPeer /\ TypeInv /\ PhaseInv /\ BacklogInv /\ [Next]_vars => PhaseInv'
  <1> SUFFICES ASSUME ~ProbeSeesPeer, TypeInv, PhaseInv, BacklogInv, [Next]_vars PROVE PhaseInv'
    OBVIOUS
  <1> USE SetFacts DEF TypeInv, TypeOK, StateOfPc, PhaseInv, BacklogInv, Working, Current, Quiet, Queued, Handled, Ready
  <1>1. ASSUME NEW c \in Conns, Connect(c) PROVE PhaseInv'
    BY <1>1 DEF Connect
  <1>2. ASSUME NEW c \in Conns, NEW kind \in Kinds, SendCommand(c, kind) PROVE PhaseInv'
    BY <1>2 DEF SendCommand
  <1>3. ASSUME NEW c \in Conns, ClosePeer(c) PROVE PhaseInv'
    BY <1>3 DEF ClosePeer
  <1>4. ASSUME NEW c \in Conns, LosePeer(c) PROVE PhaseInv'
    BY <1>4 DEF LosePeer
  <1>5. CASE Tick
    BY <1>5 DEF Tick
  <1>6. CASE SrvProbe
    BY <1>6 DEF SrvProbe, Entry, ProbeFails
  <1>7. CASE SrvAccept
    BY <1>7 DEF SrvAccept
  <1>8. CASE SrvAcceptFails
    BY <1>8 DEF SrvAcceptFails
  <1>9. CASE SrvRecvLen
    BY <1>9 DEF SrvRecvLen
  <1>10. CASE SrvRecvBody
    BY <1>10 DEF SrvRecvBody
  <1>11. CASE SrvCmdErr
    BY <1>11 DEF SrvCmdErr
  <1>12. CASE SrvEnqueue
    BY <1>12 DEF SrvEnqueue
  <1>13. CASE SrvWaitDone
    <2>1. Ready
      BY <1>13 DEF SrvWaitDone
    <2>2. rx_msg' = Current /\ hndlr_to_srv' = <<>>
      BY <1>13, <2>1 DEF SrvWaitDone
    <2> QED
      BY <1>13, <2>1, <2>2 DEF SrvWaitDone
  <1>14. CASE SrvReply
    BY <1>14 DEF SrvReply, AfterSend
  <1>15. CASE SrvWaitAgain
    BY <1>15 DEF SrvWaitAgain
  <1>16. CASE SrvKeepalive
    BY <1>16 DEF SrvKeepalive, AfterSend
  <1>17. CASE SrvReset
    BY <1>17 DEF SrvReset
  <1>18. CASE HndlrReceive
    BY <1>18 DEF HndlrReceive
  <1>19. CASE HndlrDispatch
    BY <1>19 DEF HndlrDispatch
  <1>20. CASE HndlrFinish
    BY <1>20 DEF HndlrFinish
  <1>21. CASE HndlrHang
    BY <1>21 DEF HndlrHang
  <1>22. CASE HndlrPost
    <2>1. Handled /\ state = "WAIT" /\ pc # "reply"
      BY <1>22 DEF HndlrPost
    <2>2. hndlr_to_srv' = <<Current>>
      BY <1>22, <2>1 DEF HndlrPost
    <2> QED
      BY <1>22, <2>1, <2>2 DEF HndlrPost
  <1>23. CASE UNCHANGED vars
    BY <1>23
  <1>24. QED
    BY <1>1, <1>2, <1>3, <1>4, <1>5, <1>6, <1>7, <1>8, <1>9, <1>10, <1>11, <1>12, <1>13, <1>14, <1>15, <1>16, <1>17, <1>18, <1>19, <1>20, <1>21, <1>22, <1>23 DEF Next, Network, SrvStep, HndlrStep

(* Every step keeps the listening queue apart from the connection served.    *)
LEMMA BacklogStep == ~ProbeSeesPeer /\ TypeInv /\ BacklogInv /\ [Next]_vars => BacklogInv'
  <1> SUFFICES ASSUME ~ProbeSeesPeer, TypeInv, BacklogInv, [Next]_vars PROVE BacklogInv'
    OBVIOUS
  <1> USE SetFacts DEF TypeInv, TypeOK, StateOfPc, BacklogInv
  <1>1. ASSUME NEW c \in Conns, Connect(c) PROVE BacklogInv'
    <2>1. backlog' = Append(backlog, c) /\ peer' = [peer EXCEPT ![c] = "up"]
      BY <1>1 DEF Connect
    <2>2. Len(backlog') = Len(backlog) + 1 /\ backlog'[Len(backlog) + 1] = c
          /\ \A i \in 1..Len(backlog) : backlog'[i] = backlog[i] /\ backlog[i] \in Conns
      BY <2>1, AppendProperties, ElementOfSeq
    <2>3. ASSUME NEW i \in 1..Len(backlog') PROVE peer'[backlog'[i]] # "none"
      BY <2>1, <2>2, LenProperties
    <2> QED
      BY <2>3
  <1>2. ASSUME NEW c \in Conns, NEW kind \in Kinds, SendCommand(c, kind) PROVE BacklogInv'
    BY <1>2 DEF SendCommand
  <1>3. ASSUME NEW c \in Conns, ClosePeer(c) PROVE BacklogInv'
    <2>1. \A i \in 1..Len(backlog) : backlog[i] \in Conns
      BY ElementOfSeq
    <2> QED
      BY <1>3, <2>1 DEF ClosePeer
  <1>4. ASSUME NEW c \in Conns, LosePeer(c) PROVE BacklogInv'
    <2>1. \A i \in 1..Len(backlog) : backlog[i] \in Conns
      BY ElementOfSeq
    <2> QED
      BY <1>4, <2>1 DEF LosePeer
  <1>5. CASE Tick
    BY <1>5 DEF Tick
  <1>6. CASE SrvProbe
    BY <1>6 DEF SrvProbe, Entry, ProbeFails
  <1>7. CASE SrvAccept
    BY <1>7 DEF SrvAccept
  <1>8. CASE SrvAcceptFails
    BY <1>8 DEF SrvAcceptFails
  <1>9. CASE SrvRecvLen
    BY <1>9 DEF SrvRecvLen
  <1>10. CASE SrvRecvBody
    BY <1>10 DEF SrvRecvBody
  <1>11. CASE SrvCmdErr
    BY <1>11 DEF SrvCmdErr
  <1>12. CASE SrvEnqueue
    BY <1>12 DEF SrvEnqueue
  <1>13. CASE SrvWaitDone
    BY <1>13 DEF SrvWaitDone
  <1>14. CASE SrvReply
    BY <1>14 DEF SrvReply, AfterSend
  <1>15. CASE SrvWaitAgain
    BY <1>15 DEF SrvWaitAgain
  <1>16. CASE SrvKeepalive
    BY <1>16 DEF SrvKeepalive, AfterSend
  <1>17. CASE SrvReset
    BY <1>17 DEF SrvReset
  <1>18. CASE HndlrReceive
    BY <1>18 DEF HndlrReceive
  <1>19. CASE HndlrDispatch
    BY <1>19 DEF HndlrDispatch
  <1>20. CASE HndlrFinish
    BY <1>20 DEF HndlrFinish
  <1>21. CASE HndlrHang
    BY <1>21 DEF HndlrHang
  <1>22. CASE HndlrPost
    BY <1>22 DEF HndlrPost
  <1>23. CASE UNCHANGED vars
    BY <1>23
  <1>24. QED
    BY <1>1, <1>2, <1>3, <1>4, <1>5, <1>6, <1>7, <1>8, <1>9, <1>10, <1>11, <1>12, <1>13, <1>14, <1>15, <1>16, <1>17, <1>18, <1>19, <1>20, <1>21, <1>22, <1>23 DEF Next, Network, SrvStep, HndlrStep

(* Every step keeps a reply under way tied to the command it answers.        *)
LEMMA ReplyStep == ~ProbeSeesPeer /\ TypeInv /\ PhaseInv /\ ReplyInv /\ [Next]_vars => ReplyInv'
  <1> SUFFICES ASSUME ~ProbeSeesPeer, TypeInv, PhaseInv, ReplyInv, [Next]_vars PROVE ReplyInv'
    OBVIOUS
  <1> USE SetFacts DEF TypeInv, TypeOK, StateOfPc, PhaseInv, Working, ReplyInv
  <1>1. ASSUME NEW c \in Conns, Connect(c) PROVE ReplyInv'
    BY <1>1 DEF Connect
  <1>2. ASSUME NEW c \in Conns, NEW kind \in Kinds, SendCommand(c, kind) PROVE ReplyInv'
    BY <1>2 DEF SendCommand
  <1>3. ASSUME NEW c \in Conns, ClosePeer(c) PROVE ReplyInv'
    BY <1>3 DEF ClosePeer
  <1>4. ASSUME NEW c \in Conns, LosePeer(c) PROVE ReplyInv'
    BY <1>4 DEF LosePeer
  <1>5. CASE Tick
    BY <1>5 DEF Tick
  <1>6. CASE SrvProbe
    BY <1>6 DEF SrvProbe, Entry, ProbeFails
  <1>7. CASE SrvAccept
    BY <1>7 DEF SrvAccept
  <1>8. CASE SrvAcceptFails
    BY <1>8 DEF SrvAcceptFails
  <1>9. CASE SrvRecvLen
    BY <1>9 DEF SrvRecvLen
  <1>10. CASE SrvRecvBody
    BY <1>10 DEF SrvRecvBody
  <1>11. CASE SrvCmdErr
    BY <1>11 DEF SrvCmdErr
  <1>12. CASE SrvEnqueue
    BY <1>12 DEF SrvEnqueue
  <1>13. CASE SrvWaitDone
    BY <1>13 DEF SrvWaitDone
  <1>14. CASE SrvReply
    BY <1>14 DEF SrvReply, AfterSend
  <1>15. CASE SrvWaitAgain
    BY <1>15 DEF SrvWaitAgain
  <1>16. CASE SrvKeepalive
    BY <1>16 DEF SrvKeepalive, AfterSend
  <1>17. CASE SrvReset
    BY <1>17 DEF SrvReset
  <1>18. CASE HndlrReceive
    BY <1>18 DEF HndlrReceive
  <1>19. CASE HndlrDispatch
    BY <1>19 DEF HndlrDispatch
  <1>20. CASE HndlrFinish
    BY <1>20 DEF HndlrFinish
  <1>21. CASE HndlrHang
    BY <1>21 DEF HndlrHang
  <1>22. CASE HndlrPost
    BY <1>22 DEF HndlrPost
  <1>23. CASE UNCHANGED vars
    BY <1>23
  <1>24. QED
    BY <1>1, <1>2, <1>3, <1>4, <1>5, <1>6, <1>7, <1>8, <1>9, <1>10, <1>11, <1>12, <1>13, <1>14, <1>15, <1>16, <1>17, <1>18, <1>19, <1>20, <1>21, <1>22, <1>23 DEF Next, Network, SrvStep, HndlrStep

(* Every step keeps the replies a PC holds those of its own commands.        *)
LEMMA MatchStep == ~ProbeSeesPeer /\ TypeInv /\ PhaseInv /\ ReplyInv /\ RepliesMatch /\ [Next]_vars => RepliesMatch'
  <1> SUFFICES ASSUME ~ProbeSeesPeer, TypeInv, PhaseInv, ReplyInv, RepliesMatch, [Next]_vars PROVE RepliesMatch'
    OBVIOUS
  <1> USE SetFacts DEF TypeInv, TypeOK, StateOfPc, RepliesMatch
  <1>1. ASSUME NEW c \in Conns, Connect(c) PROVE RepliesMatch'
    BY <1>1 DEF Connect
  <1>2. ASSUME NEW c \in Conns, NEW kind \in Kinds, SendCommand(c, kind) PROVE RepliesMatch'
    BY <1>2 DEF SendCommand
  <1>3. ASSUME NEW c \in Conns, ClosePeer(c) PROVE RepliesMatch'
    BY <1>3 DEF ClosePeer
  <1>4. ASSUME NEW c \in Conns, LosePeer(c) PROVE RepliesMatch'
    BY <1>4 DEF LosePeer
  <1>5. CASE Tick
    BY <1>5 DEF Tick
  <1>6. CASE SrvProbe
    BY <1>6 DEF SrvProbe, Entry, ProbeFails
  <1>7. CASE SrvAccept
    BY <1>7 DEF SrvAccept
  <1>8. CASE SrvAcceptFails
    BY <1>8 DEF SrvAcceptFails
  <1>9. CASE SrvRecvLen
    BY <1>9 DEF SrvRecvLen
  <1>10. CASE SrvRecvBody
    BY <1>10 DEF SrvRecvBody
  <1>11. CASE SrvCmdErr
    BY <1>11 DEF SrvCmdErr
  <1>12. CASE SrvEnqueue
    BY <1>12 DEF SrvEnqueue
  <1>13. CASE SrvWaitDone
    BY <1>13 DEF SrvWaitDone
  <1>14. CASE SrvReply
    <2> DEFINE c0 == clnt_sock
    <2>1. c0 \in Conns /\ state = "WAIT" /\ pc = "reply"
      BY <1>14 DEF SrvReply
    <2>2. CASE peer[c0] # "up"
      BY <1>14, <2>2 DEF SrvReply
    <2>3. CASE peer[c0] = "up"
      <3>1. rx_msg = <<c0, rcvd[c0]>> /\ reply_buf = <<c0, rcvd[c0]>>
        BY <2>1 DEF PhaseInv, Current
      <3>2. Len(out[c0]) = rcvd[c0] - 1
        BY <2>1, <2>3 DEF ReplyInv, Working
      <3>3. out' = [out EXCEPT ![c0] = Append(@, <<rx_msg, reply_buf>>)]
        BY <1>14, <2>3 DEF SrvReply
      <3>4. /\ Len(out'[c0]) = rcvd[c0]
            /\ out'[c0][rcvd[c0]] = <<<<c0, rcvd[c0]>>, <<c0, rcvd[c0]>>>>
            /\ \A i \in 1..Len(out[c0]) : out'[c0][i] = out[c0][i]
        BY <2>1, <3>1, <3>2, <3>3, AppendProperties
      <3>5. ASSUME NEW c \in Conns, NEW i \in 1..Len(out'[c])
            PROVE  out'[c][i] = <<<<c, i>>, <<c, i>>>>
        <4>1. CASE c # c0
          BY <3>3, <4>1, <2>1
        <4>2. CASE c = c0
          <5>1. rcvd[c0] \in Nat /\ i \in 1..rcvd[c0]
            BY <3>4, <4>2, <2>1, MaxReqAssumption
          <5>2. i = rcvd[c0] \/ i \in 1..Len(out[c0])
            BY <3>2, <5>1
          <5>3. \A j \in 1..Len(out[c0]) : out[c0][j] = <<<<c0, j>>, <<c0, j>>>>
            BY <2>1
          <5> QED
            BY <3>4, <4>2, <5>2, <5>3
        <4> QED
          BY <4>1, <4>2
      <3> QED
        BY <3>5
    <2> QED
      BY <2>2, <2>3
  <1>15. CASE SrvWaitAgain
    BY <1>15 DEF SrvWaitAgain
  <1>16. CASE SrvKeepalive
    BY <1>16 DEF SrvKeepalive, AfterSend
  <1>17. CASE SrvReset
    BY <1>17 DEF SrvReset
  <1>18. CASE HndlrReceive
    BY <1>18 DEF HndlrReceive
  <1>19. CASE HndlrDispatch
    BY <1>19 DEF HndlrDispatch
  <1>20. CASE HndlrFinish
    BY <1>20 DEF HndlrFinish
  <1>21. CASE HndlrHang
    BY <1>21 DEF HndlrHang
  <1>22. CASE HndlrPost
    BY <1>22 DEF HndlrPost
  <1>23. CASE UNCHANGED vars
    BY <1>23
  <1>24. QED
    BY <1>1, <1>2, <1>3, <1>4, <1>5, <1>6, <1>7, <1>8, <1>9, <1>10, <1>11, <1>12, <1>13, <1>14, <1>15, <1>16, <1>17, <1>18, <1>19, <1>20, <1>21, <1>22, <1>23 DEF Next, Network, SrvStep, HndlrStep

(* Where the probe sees only unused descriptors, IInv is preserved by every   *)
(* step, and so the properties it implies hold in every reachable state.     *)
LEMMA IInvStep == ~ProbeSeesPeer /\ IInv /\ [Next]_vars => IInv'
  BY TypeOKStep, StateOfPcStep, ReadsSentStep, PhaseStep, BacklogStep, ReplyStep, MatchStep
  DEF IInv, TypeInv

(* The inductive invariant holds in every reachable state.                   *)
LEMMA Invariance == ~ProbeSeesPeer => (Spec => []IInv)
  <1> SUFFICES ASSUME ~ProbeSeesPeer PROVE Spec => []IInv
    OBVIOUS
  <1>1. IInv /\ [Next]_vars => IInv'
    BY IInvStep
  <1> QED
    BY <1>1, IInvInit, PTL DEF Spec

(* Every reply a PC receives is the one to its own next command.             *)
THEOREM RepliesAlwaysMatch == ~ProbeSeesPeer => (Spec => []RepliesMatch)
  <1>1. IInv => RepliesMatch
    BY DEF IInv
  <1> QED
    BY <1>1, Invariance, PTL

(* xbh_cmd and reply_buf never change under the task that is reading them.   *)
THEOREM BuffersAlwaysStable == ~ProbeSeesPeer => (Spec => []BuffersStable)
  <1>1. IInv => BuffersStable
    BY DEF IInv, PhaseInv, BuffersStable, Queued, Handled, Ready, Working, Quiet
  <1> QED
    BY <1>1, Invariance, PTL

(* No descriptor is ever forgotten.                                          *)
THEOREM OneDescriptorAlways == ~ProbeSeesPeer => (Spec => []OneDescriptor)
  <1>1. IInv => OneDescriptor
    BY DEF IInv, PhaseInv, OneDescriptor, TypeInv, StateOfPc
  <1> QED
    BY <1>1, Invariance, PTL

(* A connection is taken up with empty queues and an idle handler.           *)
THEOREM HandoverAlwaysClean == ~ProbeSeesPeer => (Spec => []CleanHandover)
  <1>1. IInv => CleanHandover
    BY DEF IInv, PhaseInv, CleanHandover, TypeInv, StateOfPc, Quiet
  <1> QED
    BY <1>1, Invariance, PTL

----------------------------------------------------------------------------
(* The refinement of XbhService.  Asked, Gone and Busy name what the INSTANCE *)
(* in XbhServer substitutes for its variables.                               *)

Asked == [c \in Conns |-> Len(sent[c])]
Gone == {c \in Conns : peer[c] \notin {"none", "up"}}
Busy == IF Working THEN Current ELSE Torn

(* A command is never the empty pair that stands for "none".                 *)
LEMMA BusyIsNotNone == TypeInv /\ Working => Current # Torn /\ clnt_sock \in Conns
  BY SetFacts DEF TypeInv, StateOfPc, Working, Current, Torn, Conns

(* The initial states map to initial states of the service.                  *)
LEMMA ServiceInit == Init => Service!Init
  BY DEF Init, Service!Init

(* Every step of the tasks and of the network is a step of the service or    *)
(* changes nothing it shows.                                                 *)
LEMMA ServiceStep ==
    ~ProbeSeesPeer /\ IInv /\ [Next]_vars => [Service!Next]_(Service!vars)
  <1> SUFFICES ASSUME ~ProbeSeesPeer, IInv, [Next]_vars
               PROVE  [Service!Next]_(Service!vars)
    OBVIOUS
  <1> USE DEF IInv, TypeInv, TypeOK, StateOfPc
  <1>a. ASSUME Asked' = Asked, rcvd' = rcvd, out' = out, Gone' = Gone, Busy' = Busy
        PROVE  UNCHANGED Service!vars
    BY <1>a DEF Service!vars, Asked, Gone, Busy, Working, Current
  <1>b. ASSUME UNCHANGED <<sent, rcvd, out, peer, pc, state, clnt_sock>>
        PROVE  UNCHANGED Service!vars
    BY <1>a, <1>b DEF Asked, Gone, Busy, Working, Current
  <1>1. ASSUME NEW c \in Conns, Connect(c) PROVE UNCHANGED Service!vars
    <2>1. Gone' = Gone
      BY <1>1 DEF Connect, Gone
    <2> QED
      BY <1>1, <2>1, <1>a DEF Connect, Asked, Busy, Working, Current
  <1>2. ASSUME NEW c \in Conns, NEW kind \in Kinds, SendCommand(c, kind) PROVE Service!Ask(c)
    <2>1. Asked' = [Asked EXCEPT ![c] = @ + 1]
      <3>1. sent' = [sent EXCEPT ![c] = Append(@, kind)]
        BY <1>2 DEF SendCommand
      <3>2. Len(Append(sent[c], kind)) = Len(sent[c]) + 1
        BY AppendProperties
      <3> QED
        BY <3>1, <3>2 DEF Asked
    <2>2. Gone' = Gone /\ Busy' = Busy /\ c \notin Gone
      BY <1>2 DEF SendCommand, Gone, Busy, Working, Current
    <2> QED
      BY <1>2, <2>1, <2>2 DEF SendCommand, Service!Ask, Asked, Gone, Busy, Working, Current
  <1>3. ASSUME NEW c \in Conns, ClosePeer(c) \/ LosePeer(c) PROVE Service!Leave(c)
    <2>1. Gone' = Gone \cup {c}
      BY <1>3 DEF ClosePeer, LosePeer, Gone
    <2>2. Asked' = Asked /\ Busy' = Busy
      BY <1>3 DEF ClosePeer, LosePeer, Asked, Busy, Working, Current
    <2> QED
      BY <1>3, <2>1, <2>2
      DEF ClosePeer, LosePeer, Service!Leave, Asked, Gone, Busy, Working, Current
  <1>4. CASE Tick
    BY <1>4, <1>b DEF Tick
  <1>5. CASE SrvProbe
    <2>1. Busy' = Busy
      BY <1>5 DEF SrvProbe, Entry, ProbeFails, PhaseInv, Busy, Working, Current
    <2> QED
      BY <1>5, <2>1, <1>a DEF SrvProbe, Asked, Gone
  <1>6. CASE SrvAccept
    BY <1>6, <1>a DEF SrvAccept, Asked, Gone, Busy, Working, Current
  <1>7. CASE SrvAcceptFails
    BY <1>7, <1>a DEF SrvAcceptFails, Asked, Gone, Busy, Working, Current
  <1>8. CASE SrvRecvLen
    BY <1>8, <1>a DEF SrvRecvLen, Asked, Gone, Busy, Working, Current
  <1>9. CASE SrvRecvBody
    <2>1. clnt_sock \in Conns /\ rcvd[clnt_sock] < Asked[clnt_sock]
      BY <1>9 DEF SrvRecvBody, ReadsSent, Asked
    <2>2. Busy = Torn /\ Busy' = <<clnt_sock, rcvd[clnt_sock] + 1>>
      BY <1>9, <2>1 DEF SrvRecvBody, Busy, Working, Current
    <2>3. Asked' = Asked /\ Gone' = Gone /\ out' = out
          /\ rcvd' = [rcvd EXCEPT ![clnt_sock] = @ + 1]
      BY <1>9 DEF SrvRecvBody, Asked, Gone
    <2>4. Service!Take(clnt_sock)
      BY <2>1, <2>2, <2>3 DEF Service!Take, Asked, Gone, Busy, Working, Current
    <2> QED
      BY <2>1, <2>4 DEF Service!Next
  <1>10. CASE SrvCmdErr
    BY <1>10, <1>a DEF SrvCmdErr, Asked, Gone, Busy, Working, Current
  <1>11. CASE SrvEnqueue
    BY <1>11, <1>a DEF SrvEnqueue, Asked, Gone, Busy, Working, Current
  <1>12. CASE SrvWaitDone
    BY <1>12, <1>a DEF SrvWaitDone, Asked, Gone, Busy, Working, Current
  <1>13. CASE SrvReply
    <2>1. /\ clnt_sock \in Conns /\ Working /\ ~Working'
          /\ Asked' = Asked /\ rcvd' = rcvd
      BY <1>13 DEF SrvReply, Asked, Working
    <2>2. Busy = Current /\ Busy' = Torn /\ Busy # Torn
      BY <2>1, BusyIsNotNone DEF Busy
    <2>3. Gone' = Gone
      BY <1>13, <2>1 DEF SrvReply, AfterSend, Gone
    <2>4. CASE peer[clnt_sock] = "up"
      <3>1. clnt_sock \notin Gone
        BY <2>4 DEF Gone
      <3>2. Len(out[clnt_sock]) = rcvd[clnt_sock] - 1
        BY <2>1, <2>4 DEF ReplyInv
      <3>3. out' = [out EXCEPT ![clnt_sock] = Append(@, <<Current, Current>>)]
        BY <1>13, <2>4 DEF SrvReply, PhaseInv
      <3>4. Service!Answer
        BY <2>1, <2>2, <2>3, <3>1, <3>2, <3>3
        DEF Service!Answer, Asked, Gone, Busy, Working, Current
      <3> QED
        BY <3>4 DEF Service!Next
    <2>5. CASE peer[clnt_sock] # "up"
      <3>1. clnt_sock \in Gone
        BY <2>1, <2>5 DEF Gone, PhaseInv, Working
      <3>2. out' = out
        BY <1>13, <2>5 DEF SrvReply
      <3>3. Service!GiveUp
        BY <2>1, <2>2, <2>3, <3>1, <3>2
        DEF Service!GiveUp, Asked, Gone, Busy, Working, Current
      <3> QED
        BY <3>3 DEF Service!Next
    <2> QED
      BY <2>4, <2>5
  <1>14. CASE SrvWaitAgain
    BY <1>14, <1>a DEF SrvWaitAgain, Asked, Gone, Busy, Working, Current
  <1>15. CASE SrvKeepalive
    <2>1. Gone' = Gone
      BY <1>15 DEF SrvKeepalive, AfterSend, Gone
    <2> QED
      BY <1>15, <2>1, <1>a DEF SrvKeepalive, Asked, Busy, Working, Current
  <1>16. CASE SrvReset
    <2>1. /\ clnt_sock \in Conns /\ Working /\ ~Working'
          /\ Asked' = Asked /\ rcvd' = rcvd /\ out' = out
      BY <1>16 DEF SrvReset, Asked, Working
    <2>2. Busy = Current /\ Busy' = Torn /\ Busy # Torn
      BY <2>1, BusyIsNotNone DEF Busy
    <2>3. clnt_sock \in Gone /\ Gone \subseteq Gone' /\ Gone' \in SUBSET Conns
      BY <1>16, <2>1 DEF SrvReset, SendFails, Gone
    <2>4. Service!GiveUp
      BY <2>1, <2>2, <2>3 DEF Service!GiveUp, Asked, Gone, Busy, Working, Current
    <2> QED
      BY <2>4 DEF Service!Next
  <1>17. CASE HndlrStep
    BY <1>17, <1>b DEF HndlrStep, HndlrReceive, HndlrDispatch, HndlrFinish, HndlrHang, HndlrPost
  <1>18. CASE UNCHANGED vars
    BY <1>18, <1>b
  <1> QED
    BY <1>1, <1>2, <1>3, <1>4, <1>5, <1>6, <1>7, <1>8, <1>9, <1>10, <1>11, <1>12, <1>13,
       <1>14, <1>15, <1>16, <1>17, <1>18
    DEF Next, Network, SrvStep, Service!Next

(* The server, its handler and their queues implement XbhService.            *)
THEOREM Refinement == ~ProbeSeesPeer => (Spec => ServiceRefined)
  <1> SUFFICES ASSUME ~ProbeSeesPeer PROVE Spec => Service!Spec
    BY DEF ServiceRefined
  <1>1. IInv /\ [Next]_vars => [Service!Next]_(Service!vars)
    BY ServiceStep
  <1> QED
    BY <1>1, ServiceInit, Invariance, PTL DEF Spec, Service!Spec

=============================================================================
