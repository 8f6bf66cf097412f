----------------------------- MODULE MultiPacket -----------------------------
(* Transfers of more than one packet (xbd_multipacket.c): the sender cuts    *)
(* its data into numbered packets after an initial packet that announces the *)
(* length, the receiver puts them together again.  The board is the sender   *)
(* of downloads and the receiver of uploads, the XBD the opposite.           *)
(*                                                                           *)
(* A packet is [cmd, num, data]: its command code, the announced length of   *)
(* an initial packet or the sequence number of another, and its data.  The   *)
(* type and address fields are left out.  struct xbd_multipkt_state is       *)
(* [seqn, datanext, dataleft].                                               *)
EXTENDS Integers, Sequences

Packet(cmd, num, data) == [cmd |-> cmd, num |-> num, data |-> data]

MpState(seqn, datanext, dataleft) ==
    [seqn |-> seqn, datanext |-> datanext, dataleft |-> dataleft]

Lesser(a, b) == IF a < b THEN a ELSE b

(* A packet shorter than the bytes read from it is followed by junk.         *)
Junk == "junk"
Padded(data, n) == [i \in 1..n |-> IF i <= Len(data) THEN data[i] ELSE Junk]

(* The sender.  dstlenmax is what a packet has room for after its header.    *)
GenInitial(srclen, cmd) ==
    [mp |-> MpState(0, 0, srclen), pkt |-> Packet(cmd, srclen, <<>>)]

(* Mutation: the sequence number and the data run apart.                     *)
GenSuccessiveSame(mp, src, dstlenmax, cmd) ==
    LET cpylen == Lesser(dstlenmax, mp.dataleft)
    IN  [mp |-> MpState(mp.seqn + 1, mp.datanext, mp.dataleft - cpylen),
         pkt |-> Packet(cmd, mp.seqn, SubSeq(src, mp.datanext + 1, mp.datanext + cpylen))]

GenSuccessive(mp, src, dstlenmax, cmd) ==
    LET cpylen == Lesser(dstlenmax, mp.dataleft)
    IN  [mp |-> MpState(mp.seqn + 1, mp.datanext + cpylen, mp.dataleft - cpylen),
         pkt |-> Packet(cmd, mp.seqn, SubSeq(src, mp.datanext + 1, mp.datanext + cpylen))]

(* The receiver.  reclen is what a packet holds after its header; `data` is  *)
(* what it has put together.                                                 *)
RecInitial(mp, pkt, cmd) ==
    IF pkt.cmd # cmd THEN [ret |-> 1, mp |-> MpState(0, 0, mp.dataleft)]
    ELSE [ret |-> 0, mp |-> MpState(0, 0, pkt.num)]

(* What is wrong with a packet, in the order of the checks.                  *)
(* Mutations: any sequence number will do; the destination has no end.       *)
RecErrorUnordered(mp, pkt, cpylen, dstlenmax, cmd) ==
    CASE pkt.cmd # cmd -> 1
      [] pkt.cmd = cmd /\ mp.datanext + cpylen > dstlenmax -> 4
      [] OTHER -> 0

RecErrorUnbounded(mp, pkt, cpylen, dstlenmax, cmd) ==
    CASE pkt.cmd # cmd -> 1
      [] pkt.cmd = cmd /\ pkt.num # mp.seqn -> 3
      [] OTHER -> 0

RecError(mp, pkt, cpylen, dstlenmax, cmd) ==
    CASE pkt.cmd # cmd -> 1
      [] pkt.cmd = cmd /\ pkt.num # mp.seqn -> 3
      [] pkt.cmd = cmd /\ pkt.num = mp.seqn /\ mp.datanext + cpylen > dstlenmax -> 4
      [] OTHER -> 0

RecSuccessive(mp, pkt, reclen, data, dstlenmax, cmd) ==
    LET cpylen == Lesser(reclen, mp.dataleft)
        ret == RecError(mp, pkt, cpylen, dstlenmax, cmd)
    IN  CASE mp.dataleft = 0 \/ ret \in {1, 3} ->
                [ret |-> IF mp.dataleft = 0 THEN 0 ELSE ret, mp |-> mp, data |-> data]
          [] mp.dataleft # 0 /\ ret = 4 ->
                [ret |-> 4, mp |-> [mp EXCEPT !.seqn = @ + 1], data |-> data]
          [] mp.dataleft # 0 /\ ret = 0 ->
                [ret |-> 0, data |-> data \o Padded(pkt.data, cpylen),
                 mp |-> MpState(mp.seqn + 1, mp.datanext + cpylen, mp.dataleft - cpylen)]
=============================================================================
