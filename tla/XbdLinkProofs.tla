---------------------------- MODULE XbdLinkProofs ----------------------------
(* What a good answer to the PC says of the XBD, proved for every set of     *)
(* requests and results, every size of packets and answers, and any number   *)
(* of commands, faults, watchdog interrupts and resets.                      *)
EXTENDS XbdLink, SequenceTheorems, TLAPS

----------------------------------------------------------------------------
(* The inductive invariant: first, types, those of the XBD included.         *)

MpStates == [seqn : Nat, datanext : Nat, dataleft : Nat]
Packets == [cmd : Codes, num : Nat, data : Seq(Bytes)]
XbdStates == [up : {"run", "held", "hung"}, mode : {"BL", "AF"}, rx : MpStates, tx : MpStates,
              code : Seq(Bytes), params : Seq(Bytes), result : Seq(Bytes), runs : Nat, ans : Packets]

BoardTypes ==
    /\ op \in Requests \cup {NoRequest}
    /\ step \in {"idle", "start", "send", "recv", "stuck", "print", "reset", "setup"}
    /\ cmdbuf \in Packets /\ buf \in Buffers /\ pbuf \in Buffers
    /\ mp \in MpStates /\ answer \in Seq(Bytes) /\ Len(answer) <= ReplyMax
    /\ trys \in 0..3 /\ xbd_comm \in {"I2C", "none"}
    /\ reply.req \in Requests \cup {NoRequest} /\ reply.ok \in BOOLEAN

Types ==
    /\ BoardTypes
    /\ xbd \in XbdStates
    /\ wd_count \in 0..2 /\ g_inI2C \in BOOLEAN
    /\ cmds \in 0..MaxCmds /\ faults \in 0..MaxFaults /\ before \in Nat
    /\ lost \in BOOLEAN /\ cut \in BOOLEAN

(* Where the handler is, and what it sends there.                            *)
Modes == {"sar", "sbr"}
Active == step \in {"send", "recv"}

Places ==
    /\ op = NoRequest <=> step \in {"idle", "reset", "setup"}
    /\ step # "idle" => reply = NoReply
    /\ step = "start" => op.cmd \in Modes /\ cmdbuf.cmd = op.cmd
    /\ Active =>
        \/ op.cmd \in Single /\ cmdbuf.cmd = op.cmd
        \/ op.cmd \in Downloads /\ cmdbuf.cmd \in {First(op.cmd), Following(op.cmd)}
        \/ op.cmd = "urr" /\ cmdbuf.cmd \in {"urr", "rdr"}
        \/ op.cmd \in Modes \cup {"str"} /\ cmdbuf.cmd = "vir"
    /\ op.cmd \in Modes => trys <= 2

(* The watchdog counts exactly the interrupts it found in transfers since    *)
(* the board started.                                                        *)
Counted == step # "reset" => ~g_inI2C /\ wd_count = hits /\ wd_count <= 1

(* A download: what the XBD has put together is what was sent before the     *)
(* packet in hand.                                                           *)
Store == IF op.cmd = "cdr" THEN xbd.code ELSE xbd.params

Loading ==
    Active /\ op.cmd \in Downloads =>
        /\ mp.datanext + mp.dataleft = Len(op.arg)
        /\ Connected /\ step = "send" =>
            \/ cmdbuf = Packet(First(op.cmd), Len(op.arg), <<>>) /\ mp = MpState(0, 0, Len(op.arg))
            \/ /\ cmdbuf = Packet(Following(op.cmd), xbd.rx.seqn, SubSeq(op.arg, xbd.rx.datanext + 1, mp.datanext))
               /\ xbd.rx.datanext + xbd.rx.dataleft = Len(op.arg)
               /\ mp.seqn = xbd.rx.seqn + 1 /\ xbd.rx.datanext < mp.datanext
               /\ Store = SubSeq(op.arg, 1, xbd.rx.datanext)
        /\ Connected /\ step = "recv" /\ xbd.ans.cmd = OkCode[cmdbuf.cmd] =>
            xbd.rx = mp /\ Store = SubSeq(op.arg, 1, mp.datanext)

(* An upload: the board has put together what the XBD sent before the packet *)
(* asked for, which is the one it offers, or it offers an earlier one.       *)
Offers(x) ==
    x.ans.cmd = "uro" => x.tx = MpState(0, 0, Len(x.result)) /\ x.ans.num = Len(x.result)

Announced == Offers(xbd)

Uploading == Active /\ op.cmd = "urr" /\ cmdbuf.cmd = "rdr"

PartSize == Lesser(AnswerMax, mp.dataleft)
Part == Packet("rdo", mp.seqn, SubSeq(xbd.result, mp.datanext + 1, mp.datanext + PartSize))

Behind == xbd.tx = mp /\ (xbd.ans.cmd = "rdo" => xbd.ans.num # mp.seqn /\ mp.dataleft # 0)
Ahead ==
    /\ mp.dataleft # 0 /\ xbd.ans = Part
    /\ xbd.tx = MpState(mp.seqn + 1, mp.datanext + PartSize, mp.dataleft - PartSize)

Collected ==
    Uploading =>
        /\ Len(answer) = mp.datanext
        /\ xbd_comm # "I2C" => buf.cmd = "uro"
        /\ xbd_comm = "I2C" => xbd.tx.datanext + xbd.tx.dataleft = Len(xbd.result)
        /\ xbd_comm = "I2C" /\ ~cut =>
            /\ mp.datanext + mp.dataleft = Len(xbd.result)
            /\ answer = SubSeq(xbd.result, 1, mp.datanext)
            /\ Behind \/ (step = "recv" /\ Ahead)

(* The other commands: what the XBD's answer says while it is awaited.       *)
Awaited ==
    /\ op.cmd = "exr" /\ Connected =>
        /\ step = "send" => xbd.runs = before
        /\ step = "recv" /\ xbd.ans.cmd = "exo" => xbd.runs = before + 1
    /\ op.cmd \in Modes /\ Connected /\ step = "recv" =>
        /\ xbd.ans.cmd = "AFo" => xbd.mode = "AF"
        /\ xbd.ans.cmd = "BLo" => xbd.mode = "BL"
    /\ op.cmd \in Queries =>
        /\ buf = Blank
        /\ Connected /\ step = "recv" /\ xbd.ans.cmd = OkCode[op.cmd] => xbd.ans.num = xbd.runs

(* What was answered.                                                        *)
Truthful == DownloadArrived /\ UploadExact /\ ExecutedOnce /\ ModeReached /\ AnswerFresh

IInv == Types /\ Places /\ Counted /\ Loading /\ Announced /\ Collected /\ Awaited /\ Truthful
----------------------------------------------------------------------------
(* The operators of MultiPacket.                                             *)

LEMMA LesserFacts ==
    ASSUME NEW a \in Nat, NEW b \in Nat
    PROVE  /\ Lesser(a, b) \in Nat /\ Lesser(a, b) <= a /\ Lesser(a, b) <= b
           /\ a # 0 /\ b # 0 => Lesser(a, b) # 0
           /\ a <= b => Lesser(a, b) = a
BY DEF Lesser

(* The sender's state and packet, and what the next packet carries.          *)
LEMMA GenInitialFacts ==
    ASSUME NEW n \in Nat, NEW cmd \in Codes
    PROVE  /\ GenInitial(n, cmd).mp = MpState(0, 0, n) /\ GenInitial(n, cmd).mp \in MpStates
           /\ GenInitial(n, cmd).pkt = Packet(cmd, n, <<>>) /\ GenInitial(n, cmd).pkt \in Packets
BY DEF GenInitial, MpState, MpStates, Packet, Packets

LEMMA GenSuccessiveFacts ==
    ASSUME NEW s \in MpStates, NEW src \in Seq(Bytes), s.datanext + s.dataleft = Len(src),
           NEW max \in Nat \ {0}, NEW cmd \in Codes
    PROVE  LET gen == GenSuccessive(s, src, max, cmd)
               n == Lesser(max, s.dataleft)
           IN  /\ gen.mp = MpState(s.seqn + 1, s.datanext + n, s.dataleft - n)
               /\ gen.mp \in MpStates /\ gen.mp.datanext + gen.mp.dataleft = Len(src)
               /\ gen.pkt = Packet(cmd, s.seqn, SubSeq(src, s.datanext + 1, s.datanext + n))
               /\ gen.pkt \in Packets /\ Len(gen.pkt.data) = n
               /\ gen.mp.datanext = s.datanext + n
<1> DEFINE n == Lesser(max, s.dataleft)
<1>1. n \in Nat /\ n <= s.dataleft /\ s.seqn \in Nat /\ s.datanext \in Nat /\ s.dataleft \in Nat
  BY LesserFacts DEF MpStates
<1>2. /\ SubSeq(src, s.datanext + 1, s.datanext + n) \in Seq(Bytes)
      /\ Len(SubSeq(src, s.datanext + 1, s.datanext + n)) = n
  <2>1. \A i \in (s.datanext + 1)..(s.datanext + n) : src[i] \in Bytes
    BY <1>1
  <2>2. s.datanext + 1 \in Int /\ s.datanext + n \in Int
    BY <1>1
  <2>3. /\ SubSeq(src, s.datanext + 1, s.datanext + n) \in Seq(Bytes)
        /\ Len(SubSeq(src, s.datanext + 1, s.datanext + n)) =
             IF s.datanext + 1 <= s.datanext + n THEN (s.datanext + n) - (s.datanext + 1) + 1 ELSE 0
    BY <2>1, <2>2, SubSeqProperties
  <2>. QED
    BY <1>1, <2>3
<1>3. /\ GenSuccessive(s, src, max, cmd).mp = MpState(s.seqn + 1, s.datanext + n, s.dataleft - n)
      /\ GenSuccessive(s, src, max, cmd).pkt = Packet(cmd, s.seqn, SubSeq(src, s.datanext + 1, s.datanext + n))
  BY DEF GenSuccessive
<1> HIDE DEF n
<1>4. /\ MpState(s.seqn + 1, s.datanext + n, s.dataleft - n) \in MpStates
      /\ MpState(s.seqn + 1, s.datanext + n, s.dataleft - n).datanext = s.datanext + n
      /\ MpState(s.seqn + 1, s.datanext + n, s.dataleft - n).dataleft = s.dataleft - n
  BY <1>1 DEF MpState, MpStates
<1>5. /\ Packet(cmd, s.seqn, SubSeq(src, s.datanext + 1, s.datanext + n)) \in Packets
      /\ Packet(cmd, s.seqn, SubSeq(src, s.datanext + 1, s.datanext + n)).data = SubSeq(src, s.datanext + 1, s.datanext + n)
  BY <1>1, <1>2 DEF Packet, Packets
<1>6. (s.datanext + n) + (s.dataleft - n) = Len(src)
  BY <1>1
<1>. QED
  BY <1>2, <1>3, <1>4, <1>5, <1>6 DEF n

(* The receiver's state, whatever comes.                                     *)
LEMMA RecInitialFacts ==
    ASSUME NEW s \in MpStates, NEW pkt \in Packets, NEW cmd
    PROVE  /\ RecInitial(s, pkt, cmd).mp \in MpStates
           /\ RecInitial(s, pkt, cmd).ret = 0 <=> pkt.cmd = cmd
           /\ pkt.cmd = cmd => RecInitial(s, pkt, cmd).mp = MpState(0, 0, pkt.num)
BY DEF RecInitial, MpState, MpStates, Packets

LEMMA PaddedFacts ==
    ASSUME NEW data \in Seq(Bytes), NEW n \in Nat
    PROVE  /\ Padded(data, n) \in Seq(Bytes) /\ Len(Padded(data, n)) = n
           /\ Len(data) = n => Padded(data, n) = data
<1>1. ASSUME NEW i \in 1..n PROVE (IF i <= Len(data) THEN data[i] ELSE Junk) \in Bytes
  <2>1. Junk \in Bytes
    BY DEF Bytes
  <2>2. CASE i <= Len(data)
    BY <2>2
  <2>3. CASE ~(i <= Len(data))
    BY <2>1, <2>3
  <2>. QED
    BY <2>2, <2>3
<1>2. Padded(data, n) \in Seq(Bytes) /\ Len(Padded(data, n)) = n
  BY <1>1 DEF Padded
<1>3. ASSUME Len(data) = n PROVE Padded(data, n) = data
  <2>1. \A i \in 1..n : Padded(data, n)[i] = data[i]
    BY <1>3 DEF Padded
  <2>. QED
    BY <1>2, <1>3, <2>1, SeqEqual
<1>. QED
  BY <1>2, <1>3

(* The receiver's state, its data and what it accepts: the packet it expects, *)
(* of which it appends n bytes.                                              *)
Appended(rec, s, pkt, n, data, cmd) ==
    /\ pkt.cmd = cmd /\ pkt.num = s.seqn
    /\ rec.mp = MpState(s.seqn + 1, s.datanext + n, s.dataleft - n)
    /\ rec.data = data \o Padded(pkt.data, n)

Outcome(rec, s, pkt, n, data, max, cmd) ==
    /\ rec.mp \in MpStates /\ rec.data \in Seq(Bytes)
    /\ rec.mp.datanext + rec.mp.dataleft = s.datanext + s.dataleft
    /\ Len(data) = s.datanext /\ Len(data) <= max =>
         Len(rec.data) = rec.mp.datanext /\ Len(rec.data) <= max
    /\ s.dataleft = 0 => rec.ret = 0 /\ rec.mp = s /\ rec.data = data
    /\ rec.ret = 0 /\ s.dataleft # 0 => Appended(rec, s, pkt, n, data, cmd)

LEMMA RecSuccessiveFacts ==
    ASSUME NEW s \in MpStates, NEW pkt \in Packets, NEW reclen \in Nat, NEW data \in Seq(Bytes),
           NEW max \in Nat, NEW cmd
    PROVE  Outcome(RecSuccessive(s, pkt, reclen, data, max, cmd), s, pkt, Lesser(reclen, s.dataleft), data, max, cmd)
<1> DEFINE rec == RecSuccessive(s, pkt, reclen, data, max, cmd)
           n == Lesser(reclen, s.dataleft)
           ret == RecError(s, pkt, n, max, cmd)
           Goal(m, d, e) ==
               /\ m \in MpStates /\ d \in Seq(Bytes) /\ m.datanext + m.dataleft = s.datanext + s.dataleft
               /\ Len(data) = s.datanext /\ Len(data) <= max => Len(d) = m.datanext /\ Len(d) <= max
               /\ s.dataleft = 0 => e = 0 /\ m = s /\ d = data
               /\ e = 0 /\ s.dataleft # 0 =>
                    /\ pkt.cmd = cmd /\ pkt.num = s.seqn
                    /\ m = MpState(s.seqn + 1, s.datanext + n, s.dataleft - n)
                    /\ d = data \o Padded(pkt.data, n)
<1> SUFFICES Goal(rec.mp, rec.data, rec.ret)
  BY DEF Appended, Outcome
<1>1. n \in Nat /\ n <= s.dataleft /\ s.seqn \in Nat /\ s.datanext \in Nat /\ s.dataleft \in Nat
  BY LesserFacts DEF MpStates
<1>2. /\ ret \in {0, 1, 3, 4}
      /\ ret = 0 => pkt.cmd = cmd /\ pkt.num = s.seqn /\ ~(s.datanext + n > max)
  BY DEF RecError
<1>3. /\ Padded(pkt.data, n) \in Seq(Bytes) /\ Len(Padded(pkt.data, n)) = n
      /\ data \o Padded(pkt.data, n) \in Seq(Bytes)
      /\ Len(data \o Padded(pkt.data, n)) = Len(data) + n
  <2>1. pkt.data \in Seq(Bytes)
    BY DEF Packets
  <2>. QED
    <3>1. Padded(pkt.data, n) \in Seq(Bytes) /\ Len(Padded(pkt.data, n)) = n
      BY <1>1, <2>1, PaddedFacts
    <3> HIDE DEF n
    <3>. QED
      BY <3>1, ConcatProperties
<1>4. CASE s.dataleft = 0 \/ ret \in {1, 3}
  <2>1. rec = [ret |-> IF s.dataleft = 0 THEN 0 ELSE ret, mp |-> s, data |-> data]
    BY <1>2, <1>4 DEF RecSuccessive
  <2>2. Goal(s, data, IF s.dataleft = 0 THEN 0 ELSE ret)
    BY <1>1, <1>4
  <2>. QED
    BY <2>1, <2>2
<1>5. CASE s.dataleft # 0 /\ ret = 4
  <2>1. rec = [ret |-> 4, mp |-> [s EXCEPT !.seqn = @ + 1], data |-> data]
    BY <1>5 DEF RecSuccessive
  <2>2. /\ [s EXCEPT !.seqn = @ + 1] \in MpStates
        /\ [s EXCEPT !.seqn = @ + 1].datanext = s.datanext /\ [s EXCEPT !.seqn = @ + 1].dataleft = s.dataleft
    BY <1>1 DEF MpStates
  <2>3. Goal([s EXCEPT !.seqn = @ + 1], data, 4)
    BY <1>1, <1>5, <2>2
  <2>4. rec.mp = [s EXCEPT !.seqn = @ + 1] /\ rec.data = data /\ rec.ret = 4
    BY <2>1
  <2>. QED
    BY <2>3, <2>4
<1>6. CASE s.dataleft # 0 /\ ret = 0
  <2>1. rec = [ret |-> 0, data |-> data \o Padded(pkt.data, n),
               mp |-> MpState(s.seqn + 1, s.datanext + n, s.dataleft - n)]
    BY <1>6 DEF RecSuccessive
  <2>2. /\ MpState(s.seqn + 1, s.datanext + n, s.dataleft - n) \in MpStates
        /\ MpState(s.seqn + 1, s.datanext + n, s.dataleft - n).datanext = s.datanext + n
        /\ MpState(s.seqn + 1, s.datanext + n, s.dataleft - n).dataleft = s.dataleft - n
    BY <1>1 DEF MpState, MpStates
  <2>3. (s.datanext + n) + (s.dataleft - n) = s.datanext + s.dataleft
    BY <1>1
  <2> DEFINE m == MpState(s.seqn + 1, s.datanext + n, s.dataleft - n)
             d == data \o Padded(pkt.data, n)
  <2>4. Goal(m, d, 0)
    <3>1. pkt.cmd = cmd /\ pkt.num = s.seqn /\ ~(s.datanext + n > max)
      BY <1>2, <1>6
    <3>2. /\ m \in MpStates /\ m.datanext = s.datanext + n /\ m.dataleft = s.dataleft - n
          /\ d \in Seq(Bytes) /\ Len(d) = Len(data) + n
      BY <1>3, <2>2
    <3>3. m = MpState(s.seqn + 1, s.datanext + n, s.dataleft - n) /\ d = data \o Padded(pkt.data, n)
      OBVIOUS
    <3> HIDE DEF m, d, n
    <3>. QED
      BY <1>1, <1>6, <2>3, <3>1, <3>2, <3>3
  <2>. QED
    BY <2>1, <2>4
<1>. QED
  BY <1>2, <1>4, <1>5, <1>6

----------------------------------------------------------------------------
(* The XBD.                                                                  *)

Answering(x, code, n) == [x EXCEPT !.ans = Packet(code, n, <<>>)]

(* An answer without data, other than the announcement of a result.          *)
LEMMA CodeFacts ==
    ASSUME NEW x \in XbdStates, NEW code \in Codes, NEW n \in Nat, code # "uro"
    PROVE  LET y == Answering(x, code, n)
           IN  /\ y \in XbdStates /\ Offers(y) /\ y.ans.cmd = code /\ y.ans.num = n
               /\ y.up = x.up /\ y.mode = x.mode /\ y.rx = x.rx /\ y.tx = x.tx /\ y.code = x.code
               /\ y.params = x.params /\ y.result = x.result /\ y.runs = x.runs
<1> DEFINE y == Answering(x, code, n)
<1>1. Packet(code, n, <<>>) \in Packets /\ Packet(code, n, <<>>).cmd = code /\ Packet(code, n, <<>>).num = n
  <2>1. <<>> \in Seq(Bytes)
    OBVIOUS
  <2>. QED
    BY <2>1 DEF Packet, Packets
<1>2. /\ y \in XbdStates /\ y.ans = Packet(code, n, <<>>)
      /\ y.up = x.up /\ y.mode = x.mode /\ y.rx = x.rx /\ y.tx = x.tx /\ y.code = x.code
      /\ y.params = x.params /\ y.result = x.result /\ y.runs = x.runs
  BY <1>1 DEF XbdStates, Answering
<1>3. y.ans.cmd = code /\ y.ans.num = n
  BY <1>1, <1>2
<1>4. Offers(y)
  BY <1>3 DEF Offers
<1>. QED
  BY <1>2, <1>3, <1>4

LEMMA CodesFacts ==
    /\ {"pfo", "fdo", "ppo", "pdo", "exo", "uro", "rdo", "cco", "tco", "suo", "tro", "ccf", "BLo", "AFo", "bad", "none",
        "pfr", "exr", "fdr", "sar", "sbr", "vir", "ppr", "pdr", "urr", "rdr", "ccr", "tcr", "sur", "trr"} \subseteq Codes
    /\ OkCode["pfr"] = "pfo" /\ OkCode["fdr"] = "pfo" /\ OkCode["ppr"] = "ppo" /\ OkCode["pdr"] = "pdo"
    /\ OkCode["exr"] = "exo" /\ OkCode["ccr"] = "cco" /\ OkCode["urr"] = "uro" /\ OkCode["rdr"] = "rdo"
    /\ OkCode["tcr"] = "tco" /\ OkCode["sur"] = "suo" /\ OkCode["trr"] = "tro"
BY DEF Codes, XBD_CMD, OkCode

(* The first packet of a download.                                           *)
LEMMA TakesFirstFacts ==
    ASSUME NEW x \in XbdStates, Offers(x), NEW pkt \in Packets, pkt.cmd \in {"pfr", "ppr"}, NEW y, Takes(x, pkt, y)
    PROVE  /\ y \in XbdStates /\ Offers(y)
           /\ y.rx = MpState(0, 0, pkt.num) /\ y.ans.cmd = OkCode[pkt.cmd]
           /\ IF pkt.cmd = "pfr" THEN y.code = <<>> ELSE y.params = <<>>
<1>1. y = TakesFirst(x, pkt, IF pkt.cmd = "pfr" THEN "code" ELSE "params")
  BY DEF Takes, Queries
<1>2. RecInitial(x.rx, pkt, pkt.cmd).mp = MpState(0, 0, pkt.num) /\ MpState(0, 0, pkt.num) \in MpStates
  BY RecInitialFacts DEF XbdStates
<1>3. OkCode[pkt.cmd] \in Codes /\ OkCode[pkt.cmd] # "uro"
  BY CodesFacts
<1>4. /\ Packet(OkCode[pkt.cmd], 0, <<>>) \in Packets
      /\ Packet(OkCode[pkt.cmd], 0, <<>>).cmd = OkCode[pkt.cmd]
  BY <1>3 DEF Packet, Packets
<1>5. CASE pkt.cmd = "pfr"
  <2>1. y = [x EXCEPT !.code = <<>>, !.rx = MpState(0, 0, pkt.num), !.ans = Packet(OkCode[pkt.cmd], 0, <<>>)]
    BY <1>1, <1>2, <1>5 DEF TakesFirst
  <2>2. <<>> \in Seq(Bytes)
    OBVIOUS
  <2>3. /\ y \in XbdStates /\ y.code = <<>> /\ y.rx = MpState(0, 0, pkt.num)
        /\ y.ans = Packet(OkCode[pkt.cmd], 0, <<>>)
    BY <1>2, <1>4, <2>1, <2>2 DEF XbdStates
  <2>. QED
    BY <1>3, <1>4, <1>5, <2>3 DEF Offers
<1>6. CASE pkt.cmd = "ppr"
  <2>1. y = [x EXCEPT !.params = <<>>, !.rx = MpState(0, 0, pkt.num), !.ans = Packet(OkCode[pkt.cmd], 0, <<>>)]
    BY <1>1, <1>2, <1>6 DEF TakesFirst
  <2>2. <<>> \in Seq(Bytes)
    OBVIOUS
  <2>3. /\ y \in XbdStates /\ y.params = <<>> /\ y.rx = MpState(0, 0, pkt.num)
        /\ y.ans = Packet(OkCode[pkt.cmd], 0, <<>>)
    BY <1>2, <1>4, <2>1, <2>2 DEF XbdStates
  <2>. QED
    BY <1>3, <1>4, <1>6, <2>3 DEF Offers
<1>. QED
  BY <1>5, <1>6

(* Another packet of it: good if it is the next one and has a place.         *)
Got(x, pkt, held) == RecSuccessive(x.rx, pkt, Len(pkt.data), held, 1000, pkt.cmd)
GotCode(x, pkt, held) == IF Got(x, pkt, held).ret = 0 THEN OkCode[pkt.cmd] ELSE "bad"

LEMMA GotFacts ==
    ASSUME NEW x \in XbdStates, NEW pkt \in Packets, pkt.cmd \in {"fdr", "pdr"}, NEW held \in Seq(Bytes)
    PROVE  LET size == Lesser(Len(pkt.data), x.rx.dataleft)
               got == Got(x, pkt, held)
               ans == Packet(GotCode(x, pkt, held), 0, <<>>)
           IN  /\ got.mp \in MpStates /\ got.data \in Seq(Bytes)
               /\ ans \in Packets /\ ans.cmd # "uro"
               /\ ans.cmd = OkCode[pkt.cmd] /\ x.rx.dataleft # 0 =>
                    /\ got.mp = MpState(x.rx.seqn + 1, x.rx.datanext + size, x.rx.dataleft - size)
                    /\ got.data = held \o Padded(pkt.data, size)
<1> DEFINE size == Lesser(Len(pkt.data), x.rx.dataleft)
           got == Got(x, pkt, held)
           code == GotCode(x, pkt, held)
<1>1. x.rx \in MpStates /\ Len(pkt.data) \in Nat /\ 1000 \in Nat
  BY DEF XbdStates, Packets
<1>2. /\ got.mp \in MpStates /\ got.data \in Seq(Bytes)
      /\ got.ret = 0 /\ x.rx.dataleft # 0 =>
            /\ got.mp = MpState(x.rx.seqn + 1, x.rx.datanext + size, x.rx.dataleft - size)
            /\ got.data = held \o Padded(pkt.data, size)
  <2>1. /\ got.mp \in MpStates /\ got.data \in Seq(Bytes)
        /\ got.ret = 0 /\ x.rx.dataleft # 0 => Appended(got, x.rx, pkt, size, held, pkt.cmd)
    <3>1. Outcome(got, x.rx, pkt, size, held, 1000, pkt.cmd)
      BY <1>1, RecSuccessiveFacts DEF Got
    <3>. QED
      BY <3>1 DEF Outcome
  <2>. QED
    BY <2>1 DEF Appended
<1>3. code \in Codes /\ code # "uro" /\ (code = OkCode[pkt.cmd] => got.ret = 0)
  BY CodesFacts DEF GotCode
<1>4. Packet(code, 0, <<>>) \in Packets /\ Packet(code, 0, <<>>).cmd = code
  <2>1. <<>> \in Seq(Bytes)
    OBVIOUS
  <2>. QED
    BY <1>3, <2>1 DEF Packet, Packets
<1>. QED
  BY <1>2, <1>3, <1>4

LEMMA TakesNextFacts ==
    ASSUME NEW x \in XbdStates, NEW pkt \in Packets, pkt.cmd \in {"fdr", "pdr"}, NEW y, Takes(x, pkt, y)
    PROVE  LET size == Lesser(Len(pkt.data), x.rx.dataleft)
           IN  /\ y \in XbdStates /\ Offers(y)
               /\ y.ans.cmd = OkCode[pkt.cmd] /\ x.rx.dataleft # 0 =>
                    /\ y.rx = MpState(x.rx.seqn + 1, x.rx.datanext + size, x.rx.dataleft - size)
                    /\ pkt.cmd = "fdr" => y.code = x.code \o Padded(pkt.data, size)
                    /\ pkt.cmd = "pdr" => y.params = x.params \o Padded(pkt.data, size)
<1>1. x.code \in Seq(Bytes) /\ x.params \in Seq(Bytes)
  BY DEF XbdStates
<1>2. CASE pkt.cmd = "fdr"
  <2> DEFINE got == Got(x, pkt, x.code)
             ans == Packet(GotCode(x, pkt, x.code), 0, <<>>)
             size == Lesser(Len(pkt.data), x.rx.dataleft)
  <2>1. y = TakesNext(x, pkt, "code")
    BY <1>2 DEF Takes, Queries
  <2>2. y = [x EXCEPT !.code = got.data, !.rx = got.mp, !.ans = ans]
    BY <2>1 DEF TakesNext, Got, GotCode
  <2>3. /\ got.mp \in MpStates /\ got.data \in Seq(Bytes)
        /\ ans \in Packets /\ ans.cmd # "uro"
        /\ ans.cmd = OkCode[pkt.cmd] /\ x.rx.dataleft # 0 =>
             /\ got.mp = MpState(x.rx.seqn + 1, x.rx.datanext + size, x.rx.dataleft - size)
             /\ got.data = x.code \o Padded(pkt.data, size)
    BY <1>1, GotFacts
  <2> HIDE DEF got, ans, size
  <2>4. y \in XbdStates /\ y.code = got.data /\ y.rx = got.mp /\ y.ans = ans
    BY <2>2, <2>3 DEF XbdStates
  <2>. QED
    BY <1>2, <2>3, <2>4 DEF Offers, size
<1>3. CASE pkt.cmd = "pdr"
  <2> DEFINE got == Got(x, pkt, x.params)
             ans == Packet(GotCode(x, pkt, x.params), 0, <<>>)
             size == Lesser(Len(pkt.data), x.rx.dataleft)
  <2>1. y = TakesNext(x, pkt, "params")
    BY <1>3 DEF Takes, Queries
  <2>2. y = [x EXCEPT !.params = got.data, !.rx = got.mp, !.ans = ans]
    BY <2>1 DEF TakesNext, Got, GotCode
  <2>3. /\ got.mp \in MpStates /\ got.data \in Seq(Bytes)
        /\ ans \in Packets /\ ans.cmd # "uro"
        /\ ans.cmd = OkCode[pkt.cmd] /\ x.rx.dataleft # 0 =>
             /\ got.mp = MpState(x.rx.seqn + 1, x.rx.datanext + size, x.rx.dataleft - size)
             /\ got.data = x.params \o Padded(pkt.data, size)
    BY <1>1, GotFacts
  <2> HIDE DEF got, ans, size
  <2>4. y \in XbdStates /\ y.params = got.data /\ y.rx = got.mp /\ y.ans = ans
    BY <2>2, <2>3 DEF XbdStates
  <2>. QED
    BY <1>3, <2>3, <2>4 DEF Offers, size
<1>. QED
  BY <1>2, <1>3

(* The announcement of a result, and its parts.                              *)
LEMMA OffersResultFacts ==
    ASSUME NEW x \in XbdStates, NEW pkt \in Packets, pkt.cmd = "urr", NEW y, Takes(x, pkt, y)
    PROVE  y \in XbdStates /\ Offers(y)
<1> DEFINE gen == GenInitial(Len(x.result), "uro")
<1>1. y = [x EXCEPT !.tx = gen.mp, !.ans = gen.pkt]
  BY DEF Takes, Queries, OffersResult
<1>2. Len(x.result) \in Nat /\ "uro" \in Codes
  BY CodesFacts DEF XbdStates
<1>3. /\ gen.mp = MpState(0, 0, Len(x.result)) /\ gen.mp \in MpStates
      /\ gen.pkt = Packet("uro", Len(x.result), <<>>) /\ gen.pkt \in Packets
  BY <1>2, GenInitialFacts
<1>4. gen.pkt.num = Len(x.result)
  BY <1>3 DEF Packet
<1> HIDE DEF gen
<1>. QED
  BY <1>1, <1>3, <1>4 DEF XbdStates, Offers

LEMMA OffersNextFacts ==
    ASSUME NEW x \in XbdStates, Offers(x), x.tx.datanext + x.tx.dataleft = Len(x.result),
           NEW pkt \in Packets, pkt.cmd = "rdr", NEW y, Takes(x, pkt, y)
    PROVE  LET size == Lesser(AnswerMax, x.tx.dataleft)
           IN  /\ y \in XbdStates /\ Offers(y) /\ y.result = x.result
               /\ y.tx.datanext + y.tx.dataleft = Len(x.result)
               /\ x.tx.dataleft = 0 => y = x
               /\ x.tx.dataleft # 0 =>
                    /\ y.tx = MpState(x.tx.seqn + 1, x.tx.datanext + size, x.tx.dataleft - size)
                    /\ y.ans = Packet("rdo", x.tx.seqn, SubSeq(x.result, x.tx.datanext + 1, x.tx.datanext + size))
<1> DEFINE gen == GenSuccessive(x.tx, x.result, AnswerMax, "rdo")
           size == Lesser(AnswerMax, x.tx.dataleft)
<1>1. y = IF x.tx.dataleft = 0 THEN x ELSE [x EXCEPT !.tx = gen.mp, !.ans = gen.pkt]
  BY DEF Takes, Queries, OffersNext
<1>2. x.tx \in MpStates /\ x.result \in Seq(Bytes) /\ AnswerMax \in Nat \ {0} /\ "rdo" \in Codes
  BY CodesFacts, SizesAssumption DEF XbdStates
<1>3. /\ gen.mp = MpState(x.tx.seqn + 1, x.tx.datanext + size, x.tx.dataleft - size)
      /\ gen.mp \in MpStates /\ gen.mp.datanext + gen.mp.dataleft = Len(x.result)
      /\ gen.pkt = Packet("rdo", x.tx.seqn, SubSeq(x.result, x.tx.datanext + 1, x.tx.datanext + size))
      /\ gen.pkt \in Packets
  BY <1>2, GenSuccessiveFacts
<1>4. gen.pkt.cmd = "rdo"
  BY <1>3 DEF Packet
<1> HIDE DEF gen, size
<1>5. CASE x.tx.dataleft = 0
  BY <1>1, <1>5 DEF size
<1>6. CASE x.tx.dataleft # 0
  <2>1. y = [x EXCEPT !.tx = gen.mp, !.ans = gen.pkt]
    BY <1>1, <1>6
  <2>2. y \in XbdStates /\ y.tx = gen.mp /\ y.ans = gen.pkt /\ y.result = x.result
    BY <1>3, <2>1 DEF XbdStates
  <2>. QED
    BY <1>3, <1>4, <1>6, <2>2 DEF Offers, size
<1>. QED
  BY <1>5, <1>6

(* The other commands.                                                       *)
LEMMA TakesExecution ==
    ASSUME NEW x \in XbdStates, Offers(x), NEW pkt \in Packets, pkt.cmd = "exr", NEW y, Takes(x, pkt, y)
    PROVE  y \in XbdStates /\ Offers(y) /\ y.runs = x.runs + 1
<1>1. \/ \E r \in Results : y = [Says(x, "exo") EXCEPT !.runs = @ + 1, !.result = r]
      \/ y = [x EXCEPT !.up = "hung", !.runs = @ + 1]
  BY DEF Takes, Queries
<1>2. /\ Says(x, "exo") \in XbdStates /\ Says(x, "exo").ans.cmd = "exo" /\ Says(x, "exo").runs = x.runs
  <2>1. Says(x, "exo") = Answering(x, "exo", 0) /\ "exo" \in Codes /\ "exo" # "uro" /\ 0 \in Nat
    BY CodesFacts DEF Says, Answering
  <2>. QED
    BY <2>1, CodeFacts
<1>3. x.runs + 1 \in Nat
  BY DEF XbdStates
<1>4. CASE \E r \in Results : y = [Says(x, "exo") EXCEPT !.runs = @ + 1, !.result = r]
  <2>1. PICK r \in Results : y = [Says(x, "exo") EXCEPT !.runs = @ + 1, !.result = r]
    BY <1>4
  <2>2. r \in Seq(Bytes)
    BY ResultsAssumption
  <2>. QED
    BY <1>2, <1>3, <2>1, <2>2 DEF XbdStates, Offers
<1>5. CASE y = [x EXCEPT !.up = "hung", !.runs = @ + 1]
  BY <1>3, <1>5 DEF XbdStates, Offers
<1>. QED
  BY <1>1, <1>4, <1>5

LEMMA TakesQuestion ==
    ASSUME NEW x \in XbdStates, NEW pkt \in Packets, pkt.cmd \in Queries \cup {"ccr"}, NEW y, Takes(x, pkt, y)
    PROVE  /\ y \in XbdStates /\ Offers(y) /\ y.runs = x.runs
           /\ pkt.cmd \in Queries => y.ans.num = x.runs
<1>1. x.runs \in Nat
  BY DEF XbdStates
<1>2. CASE pkt.cmd = "ccr"
  <2>1. y = Says(x, "cco")
    BY <1>2 DEF Takes, Queries
  <2>2. y = Answering(x, "cco", 0) /\ "cco" \in Codes /\ "cco" # "uro" /\ 0 \in Nat
    BY <2>1, CodesFacts DEF Says, Answering
  <2>3. y \in XbdStates /\ Offers(y) /\ y.runs = x.runs
    BY <2>2, CodeFacts
  <2>. QED
    BY <1>2, <2>3 DEF Queries
<1>3. CASE pkt.cmd \in Queries
  <2>1. y = Answering(x, OkCode[pkt.cmd], x.runs)
    BY <1>3 DEF Takes, Queries, Answering
  <2>2. OkCode[pkt.cmd] \in Codes /\ OkCode[pkt.cmd] # "uro"
    BY <1>3, CodesFacts DEF Queries
  <2>. QED
    BY <1>1, <2>1, <2>2, CodeFacts
<1>. QED
  BY <1>2, <1>3

LEMMA TakesMode ==
    ASSUME NEW x \in XbdStates, Offers(x), NEW pkt \in Packets, pkt.cmd \in Modes \cup {"vir"}, NEW y, Takes(x, pkt, y)
    PROVE  /\ y \in XbdStates /\ Offers(y)
           /\ pkt.cmd = "vir" => /\ y.ans.cmd = "AFo" => y.mode = "AF"
                                 /\ y.ans.cmd = "BLo" => y.mode = "BL"
<1>1. CASE pkt.cmd \in Modes
  <2>1. y = [x EXCEPT !.mode = IF pkt.cmd = "sar" THEN "AF" ELSE "BL"]
    BY <1>1 DEF Takes, Modes, Queries
  <2>2. (IF pkt.cmd = "sar" THEN "AF" ELSE "BL") \in {"BL", "AF"}
    OBVIOUS
  <2>. QED
    BY <1>1, <2>1, <2>2 DEF XbdStates, Offers, Modes
<1>2. CASE pkt.cmd = "vir"
  <2>1. y = Says(x, IF x.mode = "AF" THEN "AFo" ELSE "BLo") /\ x.mode \in {"BL", "AF"}
    BY <1>2 DEF Takes, Queries, XbdStates
  <2>2. CASE x.mode = "AF"
    <3>1. y = Answering(x, "AFo", 0) /\ "AFo" \in Codes /\ "AFo" # "uro" /\ 0 \in Nat
      BY <2>1, <2>2, CodesFacts DEF Says, Answering
    <3>2. y \in XbdStates /\ Offers(y) /\ y.mode = x.mode /\ y.ans.cmd = "AFo"
      BY <3>1, CodeFacts
    <3>. QED
      BY <2>2, <1>2, <3>2
  <2>3. CASE x.mode = "BL"
    <3>1. y = Answering(x, "BLo", 0) /\ "BLo" \in Codes /\ "BLo" # "uro" /\ 0 \in Nat
      BY <2>1, <2>3, CodesFacts DEF Says, Answering
    <3>2. y \in XbdStates /\ Offers(y) /\ y.mode = x.mode /\ y.ans.cmd = "BLo"
      BY <3>1, CodeFacts
    <3>. QED
      BY <2>3, <1>2, <3>2
  <2>. QED
    BY <2>1, <2>2, <2>3
<1>. QED
  BY <1>1, <1>2

(* Resetting it.                                                             *)
LEMMA ResetFacts ==
    ASSUME NEW x \in XbdStates, Offers(x), NEW value \in BOOLEAN
    PROVE  Reset(x, value) \in XbdStates /\ Offers(Reset(x, value))
<1>1. MpState(0, 0, 0) \in MpStates /\ NoPacket \in Packets /\ NoPacket.cmd = "none"
  BY CodesFacts DEF MpState, MpStates, NoPacket, Packet, Packets
<1>2. Booted(x) \in XbdStates /\ Booted(x).ans = NoPacket
  <2>1. <<>> \in Seq(Bytes)
    OBVIOUS
  <2> HIDE DEF NoPacket
  <2>. QED
    BY <1>1, <2>1 DEF Booted, XbdStates
<1>3. [x EXCEPT !.up = "held"] \in XbdStates /\ Offers([x EXCEPT !.up = "held"])
  BY DEF XbdStates, Offers
<1>. QED
  BY <1>1, <1>2, <1>3 DEF Reset, Offers


----------------------------------------------------------------------------
(* What holds whatever the board does.                                       *)

Told == {"cdr", "dpr", "urr", "exr", "sar", "sbr"} \cup Queries

LEMMA Untold ==
    ASSUME ~reply'.ok \/ reply'.req.cmd \notin Told
    PROVE  Truthful'
BY DEF Told, Truthful, DownloadArrived, UploadExact, ExecutedOnce, ModeReached, AnswerFresh, Answered

LEMMA RequestFacts ==
    ASSUME NEW r \in Requests
    PROVE  r.cmd \in XBH_CMD /\ r.cmd # "none" /\ r # NoRequest
           /\ (r.cmd \in Downloads => r.arg \in Seq(Bytes) /\ Len(r.arg) \in Nat)
<1>1. r.cmd \in XBH_CMD /\ (r.cmd \in {"cdr", "dpr"} => r.arg \in Seq(Bytes))
  BY RequestsAssumption
<1>2. NoRequest.cmd = "none" /\ "none" \notin XBH_CMD
  BY DEF NoRequest, XBH_CMD
<1>. QED
  BY <1>1, <1>2 DEF Downloads

LEMMA InitialFacts ==
    /\ MpState(0, 0, 0) \in MpStates /\ NoPacket \in Packets /\ Blank \in Buffers /\ Blank.size = "torn"
    /\ NoRequest.cmd = "none" /\ NoReply.req = NoRequest /\ NoReply.ok = FALSE /\ <<>> \in Seq(Bytes)
    /\ Len(<<>>) = 0
<1>1. <<>> \in Seq(Bytes) /\ "none" \in Codes
  BY CodesFacts
<1>2. MpState(0, 0, 0) \in MpStates
  BY DEF MpState, MpStates
<1>3. NoPacket = [cmd |-> "none", num |-> 0, data |-> <<>>]
  BY DEF NoPacket, Packet
<1>4. NoPacket \in Packets
  BY <1>1, <1>3 DEF Packets
<1>5. Blank = [cmd |-> "none", num |-> 0, data |-> <<>>, size |-> "torn", crc |-> NoPacket]
  BY <1>3 DEF Blank, Image
<1>6. Blank \in Buffers
  <2> HIDE DEF NoPacket
  <2>. QED
    BY <1>1, <1>4, <1>5 DEF Buffers, Sizes, Packets
<1>. QED
  BY <1>1, <1>2, <1>4, <1>5, <1>6 DEF NoRequest, NoReply

(* Without a command in hand there is nothing to keep.                       *)
LEMMA RestFacts ==
    ASSUME op' = NoRequest, step' \in {"idle", "reset", "setup"}, step' # "idle" => reply' = NoReply
    PROVE  Places' /\ Loading' /\ Collected' /\ Awaited'
<1>1. op'.cmd = "none"
  BY InitialFacts
<1>2. /\ op'.cmd \notin Modes \cup Downloads \cup Queries /\ op'.cmd # "urr" /\ op'.cmd # "exr"
      /\ ~Active' /\ step' # "start"
  BY <1>1 DEF Modes, Downloads, Queries, Active
<1>3. Places'
  BY <1>2 DEF Places
<1>4. Loading' /\ Collected'
  BY <1>2 DEF Loading, Collected, Uploading
<1>5. Awaited'
  BY <1>2 DEF Awaited
<1>. QED
  BY <1>3, <1>4, <1>5

(* Between commands.                                                         *)
LEMMA IdleFacts ==
    ASSUME IInv, step = "idle"
    PROVE  op = NoRequest /\ ~g_inI2C /\ wd_count = hits /\ wd_count <= 1 /\ xbd.runs \in Nat
BY DEF IInv, Types, XbdStates, Places, Counted

----------------------------------------------------------------------------
(* The beginning of a command.                                               *)

LEMMA BegunTypes ==
    ASSUME IInv, Called, NEW r \in Requests, NEW pkt \in Packets, NEW at \in {"send", "start", "print"},
           Begins(r, pkt, at), buf' \in Buffers, mp' \in MpStates, trys' \in 0..3, UNCHANGED <<pbuf, answer, xbd_comm, xbd>>
    PROVE  Types' /\ Counted' /\ Announced' /\ Truthful'
<1>1. BoardTypes'
  BY InitialFacts DEF IInv, Types, BoardTypes, Begins
<1>2. Types'
  <2>1. cmds' \in 0..MaxCmds
    BY LinkBoundsAssumption DEF IInv, Types, Called
  <2>2. before' \in Nat /\ xbd' \in XbdStates
    BY DEF IInv, Types, XbdStates, Called
  <2>3. wd_count' \in 0..2 /\ g_inI2C' \in BOOLEAN /\ faults' \in 0..MaxFaults /\ lost' \in BOOLEAN /\ cut' \in BOOLEAN
    BY DEF IInv, Types, Called, statics
  <2>. QED
    BY <1>1, <2>1, <2>2, <2>3 DEF Types
<1>3. Counted'
  BY IdleFacts DEF Called, statics, Counted
<1>4. Announced'
  BY DEF IInv, Announced
<1>5. Truthful'
  BY Untold, InitialFacts DEF Begins
<1>. QED
  BY <1>2, <1>3, <1>4, <1>5

LEMMA BeginSingleKeeps ==
    ASSUME IInv, NEW r \in Requests, BeginSingle(r)
    PROVE  IInv'
<1> DEFINE pkt == Packet(r.cmd, 0, <<>>)
<1>1. /\ Called /\ Begins(r, pkt, "send") /\ r.cmd \in Single
      /\ buf' = (IF r.cmd \in Queries THEN Blank ELSE buf) /\ UNCHANGED <<pbuf, mp, answer, trys, xbd_comm, xbd>>
  BY DEF BeginSingle
<1>2. r.cmd \in Codes /\ pkt \in Packets /\ pkt.cmd = r.cmd
  <2>1. r.cmd \in Codes
    BY <1>1, CodesFacts DEF Single, Queries
  <2>. QED
    BY <2>1, InitialFacts DEF Packet, Packets
<1>3. buf' \in Buffers /\ mp' \in MpStates /\ trys' \in 0..3
  BY <1>1, InitialFacts DEF IInv, Types, BoardTypes
<1>4. op' = r /\ step' = "send" /\ reply' = NoReply /\ cmdbuf' = pkt
  BY <1>1 DEF Begins
<1> HIDE DEF pkt
<1>5. Types' /\ Counted' /\ Announced' /\ Truthful'
  BY <1>1, <1>2, <1>3, BegunTypes
<1>6. Places'
  BY <1>1, <1>2, <1>4, RequestFacts DEF Places, Active, Modes, Single, Queries
<1>7. Loading' /\ Collected'
  BY <1>1, <1>4 DEF Loading, Collected, Uploading, Single, Queries, Downloads
<1>8. Awaited'
  BY <1>1, <1>4 DEF Awaited, Called, Modes, Single, Queries
<1>. QED
  BY <1>5, <1>6, <1>7, <1>8 DEF IInv

LEMMA BeginDownloadKeeps ==
    ASSUME IInv, NEW r \in Requests, BeginDownload(r)
    PROVE  IInv'
<1> DEFINE gen == GenInitial(Len(r.arg), First(r.cmd))
<1>1. /\ Called /\ Begins(r, gen.pkt, "send") /\ mp' = gen.mp /\ r.cmd \in Downloads
      /\ UNCHANGED <<buf, pbuf, answer, trys, xbd_comm, xbd>>
  BY DEF BeginDownload
<1>2. Len(r.arg) \in Nat /\ First(r.cmd) \in Codes
  BY <1>1, RequestFacts, CodesFacts DEF First
<1>3. /\ gen.mp = MpState(0, 0, Len(r.arg)) /\ gen.mp \in MpStates
      /\ gen.pkt = Packet(First(r.cmd), Len(r.arg), <<>>) /\ gen.pkt \in Packets
  BY <1>2, GenInitialFacts
<1> HIDE DEF gen
<1>4. op' = r /\ step' = "send" /\ reply' = NoReply /\ cmdbuf' = gen.pkt
  BY <1>1 DEF Begins
<1>5. Types' /\ Counted' /\ Announced' /\ Truthful'
  <2>1. buf' \in Buffers /\ mp' \in MpStates /\ trys' \in 0..3
    BY <1>1, <1>3 DEF IInv, Types, BoardTypes
  <2>. QED
    BY <1>1, <1>3, <2>1, BegunTypes
<1>6. cmdbuf'.cmd = First(op'.cmd)
  BY <1>3, <1>4 DEF Packet
<1>7. Places'
  BY <1>1, <1>4, <1>6, RequestFacts DEF Places, Active, Modes, Downloads
<1>8. Loading'
  <2>1. mp'.datanext + mp'.dataleft = Len(op'.arg)
    BY <1>1, <1>2, <1>3, <1>4 DEF MpState
  <2>2. cmdbuf' = Packet(First(op'.cmd), Len(op'.arg), <<>>) /\ mp' = MpState(0, 0, Len(op'.arg))
    BY <1>1, <1>3, <1>4
  <2>. QED
    BY <1>4, <2>1, <2>2 DEF Loading
<1>9. Collected' /\ Awaited'
  BY <1>1, <1>4 DEF Collected, Uploading, Awaited, Downloads, Modes, Queries
<1>. QED
  BY <1>5, <1>7, <1>8, <1>9 DEF IInv

(* The other commands that need the XBD, and the one whose printing does not *)
(* end.                                                                      *)
LEMMA BeginOtherKeeps ==
    ASSUME IInv, NEW r \in Requests, Called, NEW pkt \in Packets, NEW at, Begins(r, pkt, at),
           \/ r.cmd = "urr" /\ pkt.cmd = "urr" /\ at = "send" /\ trys' = trys
           \/ r.cmd = "str" /\ pkt.cmd = "vir" /\ at = "send" /\ trys' = trys
           \/ r.cmd \in Modes /\ pkt.cmd = r.cmd /\ at = "start" /\ trys' = 0
           \/ r.cmd \notin Told /\ at = "print" /\ trys' = trys,
           UNCHANGED <<buf, pbuf, mp, answer, xbd_comm, xbd>>
    PROVE  IInv'
<1>1. op' = r /\ step' = at /\ reply' = NoReply /\ cmdbuf' = pkt
  BY DEF Begins
<1>2. Types' /\ Counted' /\ Announced' /\ Truthful'
  <2>1. buf' \in Buffers /\ mp' \in MpStates /\ trys' \in 0..3 /\ at \in {"send", "start", "print"}
    BY DEF IInv, Types, BoardTypes
  <2>. QED
    BY <2>1, BegunTypes
<1>3. Places'
  BY <1>1, RequestFacts DEF Places, Active, Modes, Told
<1>4. Loading' /\ Collected' /\ Awaited'
  BY <1>1 DEF Loading, Collected, Uploading, Active, Awaited, Downloads, Modes, Queries, Told
<1>. QED
  BY <1>2, <1>3, <1>4 DEF IInv

(* A command answered at once.                                               *)
LEMMA AtOnceKeeps ==
    ASSUME IInv, NEW r \in Requests, r.cmd \notin Told, Called, NEW ok \in BOOLEAN, AnsweredAtOnce(r, ok),
           pbuf' \in Buffers, xbd_comm' \in {"I2C", "none"}, xbd' \in XbdStates, Offers(xbd')
    PROVE  IInv'
<1>1. op = NoRequest /\ step = "idle"
  BY IdleFacts DEF Called
<1>2. UNCHANGED <<op, step, cmdbuf, buf, mp, answer, trys>> /\ reply' = [req |-> r, ok |-> ok, data |-> <<>>]
  BY DEF AnsweredAtOnce
<1>3. Types'
  <2>1. BoardTypes'
    BY <1>2 DEF IInv, Types, BoardTypes
  <2>2. cmds' \in 0..MaxCmds
    BY LinkBoundsAssumption DEF IInv, Types, Called
  <2>3. before' \in Nat
    BY DEF IInv, Types, XbdStates, Called
  <2>4. wd_count' \in 0..2 /\ g_inI2C' \in BOOLEAN /\ faults' \in 0..MaxFaults /\ lost' \in BOOLEAN /\ cut' \in BOOLEAN
    BY DEF IInv, Types, Called, statics
  <2>. QED
    BY <2>1, <2>2, <2>3, <2>4 DEF Types
<1>4. Counted'
  BY IdleFacts DEF Called, statics, Counted
<1>5. Places' /\ Loading' /\ Collected' /\ Awaited'
  BY <1>1, <1>2, RestFacts
<1>6. Truthful'
  BY <1>2, Untold
<1>. QED
  BY <1>3, <1>4, <1>5, <1>6 DEF IInv, Announced

LEMMA BeginKeeps ==
    ASSUME IInv, Begin
    PROVE  IInv'
<1>1. PICK r \in Requests :
        \/ BeginSingle(r) \/ BeginDownload(r) \/ BeginUpload(r) \/ BeginMode(r)
        \/ BeginStatus(r) \/ ResetControl(r) \/ SetCommunication(r) \/ AnswerLocal(r)
        \/ AnswerUnknown(r)
  BY DEF Begin
<1>2. /\ pbuf \in Buffers /\ xbd_comm \in {"I2C", "none"} /\ xbd \in XbdStates /\ Offers(xbd) /\ cmdbuf \in Packets
      /\ \A c \in Codes : Packet(c, 0, <<>>) \in Packets /\ Packet(c, 0, <<>>).cmd = c
  BY InitialFacts DEF IInv, Types, BoardTypes, Announced, Packet, Packets
<1>3. CASE BeginSingle(r)
  BY <1>3, BeginSingleKeeps
<1>4. CASE BeginDownload(r)
  BY <1>4, BeginDownloadKeeps
<1>5. CASE BeginUpload(r)
  <2>1. Packet("urr", 0, <<>>) \in Packets /\ Packet("urr", 0, <<>>).cmd = "urr"
    BY <1>2, CodesFacts
  <2>. QED
    BY <1>5, <2>1, BeginOtherKeeps DEF BeginUpload
<1>6. CASE BeginMode(r)
  <2>1. r.cmd \in Modes /\ Packet(r.cmd, 0, <<>>) \in Packets /\ Packet(r.cmd, 0, <<>>).cmd = r.cmd
    BY <1>2, <1>6, CodesFacts DEF BeginMode, Modes
  <2>. QED
    BY <1>6, <2>1, BeginOtherKeeps DEF BeginMode
<1>7. CASE BeginStatus(r)
  <2>1. Packet("vir", 0, <<>>) \in Packets /\ Packet("vir", 0, <<>>).cmd = "vir"
    BY <1>2, CodesFacts
  <2>. QED
    BY <1>7, <2>1, BeginOtherKeeps DEF BeginStatus
<1>8. CASE ResetControl(r)
  <2>1. r.cmd \notin Told /\ Called /\ AnsweredAtOnce(r, r.arg \in {"y", "n"}) /\ UNCHANGED <<pbuf, xbd_comm>>
    BY <1>8 DEF ResetControl, Told, Queries
  <2>2. xbd' \in XbdStates /\ Offers(xbd')
    <3>1. Reset(xbd, r.arg = "y") \in XbdStates /\ Offers(Reset(xbd, r.arg = "y"))
      BY <1>2, ResetFacts
    <3>. QED
      BY <1>2, <1>8, <3>1 DEF ResetControl
  <2>3. (r.arg \in {"y", "n"}) \in BOOLEAN
    OBVIOUS
  <2>. QED
    BY <1>2, <2>1, <2>2, <2>3, AtOnceKeeps
<1>9. CASE SetCommunication(r)
  <2>1. r.cmd \notin Told /\ Called /\ AnsweredAtOnce(r, r.arg \in {"I", "U", "O", "E"}) /\ UNCHANGED <<pbuf, xbd>>
    BY <1>9 DEF SetCommunication, Told, Queries
  <2>2. xbd_comm' \in {"I2C", "none"}
    BY <1>2, <1>9 DEF SetCommunication
  <2>3. (r.arg \in {"I", "U", "O", "E"}) \in BOOLEAN
    OBVIOUS
  <2>. QED
    BY <1>2, <2>1, <2>2, <2>3, AtOnceKeeps
<1>10. CASE AnswerLocal(r)
  <2>1. r.cmd \notin Told /\ Called /\ AnsweredAtOnce(r, TRUE) /\ UNCHANGED <<xbd_comm, xbd>>
    BY <1>10 DEF AnswerLocal, Local, Told, Queries
  <2>2. pbuf' \in Buffers
    BY <1>2, <1>10, InitialFacts DEF AnswerLocal
  <2>. QED
    BY <1>2, <2>1, <2>2, AtOnceKeeps
<1>11. CASE AnswerUnknown(r)
  <2>1. r.cmd \notin Told /\ Called /\ UNCHANGED <<pbuf, xbd_comm, xbd>>
    BY <1>11 DEF AnswerUnknown, Told, Queries, Single, Downloads
  <2>2. CASE PrintEnds(r.arg)
    <3>1. AnsweredAtOnce(r, FALSE)
      BY <1>11, <2>2 DEF AnswerUnknown
    <3>. QED
      BY <1>2, <2>1, <3>1, AtOnceKeeps
  <2>3. CASE ~PrintEnds(r.arg)
    <3>1. Begins(r, cmdbuf, "print") /\ UNCHANGED <<buf, mp, answer, trys>>
      BY <1>11, <2>3 DEF AnswerUnknown
    <3>. QED
      BY <1>2, <2>1, <3>1, BeginOtherKeeps
  <2>. QED
    BY <2>2, <2>3
<1>. QED
  BY <1>1, <1>3, <1>4, <1>5, <1>6, <1>7, <1>8, <1>9, <1>10, <1>11

----------------------------------------------------------------------------
(* A packet is sent.                                                         *)

LEMMA SendCases ==
    ASSUME xbdSend
    PROVE  /\ \/ xbd_comm = "I2C" /\ Takes(xbd, cmdbuf, xbd') /\ lost' = lost
              \/ xbd_comm # "I2C" /\ xbd' = xbd /\ lost' = lost
              \/ xbd_comm = "I2C" /\ xbd' = xbd /\ lost' = TRUE
              \/ xbd_comm = "I2C" /\ xbd' = Answering(xbd, "ccf", 0) /\ lost' = lost
           /\ faults' = faults \/ (faults < MaxFaults /\ faults' = faults + 1)
BY DEF xbdSend, Delivered, NoTransport, Refused, Lost, Garbled, Says, Answering

(* With no packet lost, it arrived, or came garbled.                         *)
LEMMA SendConnected ==
    ASSUME xbdSend, xbd_comm' = xbd_comm, Connected'
    PROVE  Connected /\ (Takes(xbd, cmdbuf, xbd') \/ xbd' = Answering(xbd, "ccf", 0))
<1>1. ~lost' /\ xbd_comm = "I2C"
  BY DEF Connected
<1>2. lost' # TRUE
  BY <1>1
<1>3. ASSUME lost' = lost PROVE ~lost
  BY <1>1, <1>3, Zenon
<1>. QED
  BY <1>1, <1>2, <1>3, SendCases DEF Connected

LEMMA GarbledFacts ==
    ASSUME IInv
    PROVE  LET y == Answering(xbd, "ccf", 0)
           IN  /\ y \in XbdStates /\ Offers(y) /\ y.ans.cmd = "ccf" /\ y.tx = xbd.tx
               /\ y.result = xbd.result /\ y.runs = xbd.runs /\ y.mode = xbd.mode
<1>1. xbd \in XbdStates /\ "ccf" \in Codes /\ "ccf" # "uro" /\ 0 \in Nat
  BY CodesFacts DEF IInv, Types
<1>. QED
  BY <1>1, CodeFacts

LEMMA TakesTypes ==
    ASSUME IInv, step \in {"start", "send"}, xbd_comm = "I2C", Takes(xbd, cmdbuf, xbd')
    PROVE  xbd' \in XbdStates /\ Offers(xbd')
<1>1. xbd \in XbdStates /\ Offers(xbd) /\ cmdbuf \in Packets
  BY DEF IInv, Types, BoardTypes, Announced
<1>2. \/ cmdbuf.cmd \in {"pfr", "ppr"} \/ cmdbuf.cmd \in {"fdr", "pdr"} \/ cmdbuf.cmd = "urr" \/ cmdbuf.cmd = "exr"
      \/ cmdbuf.cmd \in Queries \cup {"ccr"} \/ cmdbuf.cmd \in Modes \cup {"vir"}
      \/ cmdbuf.cmd = "rdr" /\ xbd.tx.datanext + xbd.tx.dataleft = Len(xbd.result)
  <2>1. CASE step = "start"
    BY <2>1 DEF IInv, Places
  <2>2. CASE step = "send"
    <3>1. \/ op.cmd \in Single /\ cmdbuf.cmd = op.cmd
          \/ op.cmd \in Downloads /\ cmdbuf.cmd \in {First(op.cmd), Following(op.cmd)}
          \/ op.cmd = "urr" /\ cmdbuf.cmd \in {"urr", "rdr"}
          \/ op.cmd \in Modes \cup {"str"} /\ cmdbuf.cmd = "vir"
      BY <2>2 DEF IInv, Places, Active
    <3>2. op.cmd = "urr" /\ cmdbuf.cmd = "rdr" => xbd.tx.datanext + xbd.tx.dataleft = Len(xbd.result)
      BY <2>2 DEF IInv, Collected, Uploading, Active
    <3>. QED
      BY <3>1, <3>2 DEF Single, Downloads, First, Following
  <2>. QED
    BY <2>1, <2>2
<1>3. CASE cmdbuf.cmd \in {"pfr", "ppr"}
  BY <1>1, <1>3, TakesFirstFacts
<1>4. CASE cmdbuf.cmd \in {"fdr", "pdr"}
  BY <1>1, <1>4, TakesNextFacts
<1>5. CASE cmdbuf.cmd = "urr"
  BY <1>1, <1>5, OffersResultFacts
<1>6. CASE cmdbuf.cmd = "exr"
  BY <1>1, <1>6, TakesExecution
<1>7. CASE cmdbuf.cmd \in Queries \cup {"ccr"}
  BY <1>1, <1>7, TakesQuestion
<1>8. CASE cmdbuf.cmd \in Modes \cup {"vir"}
  BY <1>1, <1>8, TakesMode
<1>9. CASE cmdbuf.cmd = "rdr" /\ xbd.tx.datanext + xbd.tx.dataleft = Len(xbd.result)
  BY <1>1, <1>9, OffersNextFacts
<1>. QED
  BY <1>2, <1>3, <1>4, <1>5, <1>6, <1>7, <1>8, <1>9

LEMMA SendTypes ==
    ASSUME IInv, step \in {"start", "send"}, xbdSend, step' \in {"send", "recv"}, cmdbuf' \in Packets,
           UNCHANGED <<op, buf, pbuf, mp, answer, trys, xbd_comm, reply, statics, cmds, hits, cut, before>>
    PROVE  Types' /\ Announced' /\ Counted' /\ Truthful'
<1>1. xbd' \in XbdStates /\ Offers(xbd') /\ lost' \in BOOLEAN
  <2>1. xbd \in XbdStates /\ Offers(xbd) /\ lost \in BOOLEAN
    BY DEF IInv, Types, Announced
  <2>. QED
    BY <2>1, SendCases, GarbledFacts, TakesTypes
<1>2. faults' \in 0..MaxFaults
  BY SendCases, LinkBoundsAssumption DEF IInv, Types
<1>3. BoardTypes'
  BY DEF IInv, Types, BoardTypes
<1>4. Types'
  BY <1>1, <1>2, <1>3 DEF IInv, Types, statics
<1>5. Counted'
  BY DEF IInv, Counted, statics
<1>6. Truthful'
  <2>1. reply' = NoReply
    BY DEF IInv, Places
  <2>. QED
    BY <2>1, InitialFacts, Untold
<1>. QED
  BY <1>1, <1>4, <1>5, <1>6 DEF Announced

LEMMA SendStartKeeps ==
    ASSUME IInv, SendStart
    PROVE  IInv'
<1>1. /\ step = "start" /\ xbdSend /\ step' = "send" /\ cmdbuf' = Packet("vir", 0, <<>>)
      /\ UNCHANGED <<op, buf, pbuf, mp, answer, trys, xbd_comm, reply, statics, cmds, hits, cut, before>>
  BY DEF SendStart
<1>2. Packet("vir", 0, <<>>) \in Packets /\ Packet("vir", 0, <<>>).cmd = "vir"
  BY CodesFacts, InitialFacts DEF Packet, Packets
<1>3. op.cmd \in Modes
  BY <1>1 DEF IInv, Places
<1>4. Types' /\ Announced' /\ Counted' /\ Truthful'
  BY <1>1, <1>2, SendTypes
<1>5. Places'
  BY <1>1, <1>2, <1>3 DEF IInv, Places, Active
<1>6. Loading' /\ Collected' /\ Awaited'
  BY <1>1, <1>3 DEF Loading, Collected, Uploading, Awaited, Downloads, Modes, Queries
<1>. QED
  BY <1>4, <1>5, <1>6 DEF IInv

(* A packet of a download.                                                   *)
LEMMA SendLoading ==
    ASSUME IInv, Send
    PROVE  Loading'
<1>1. /\ step = "send" /\ xbdSend /\ step' = "recv"
      /\ UNCHANGED <<op, cmdbuf, mp, xbd_comm>>
  BY DEF Send
<1>2. SUFFICES ASSUME op.cmd \in Downloads PROVE Loading'
  BY <1>1 DEF Loading
<1>3. mp'.datanext + mp'.dataleft = Len(op'.arg)
  BY <1>1, <1>2 DEF IInv, Loading, Active
<1>4. SUFFICES ASSUME Connected', xbd'.ans.cmd = OkCode[cmdbuf.cmd]
              PROVE  xbd'.rx = mp /\ Store' = SubSeq(op.arg, 1, mp.datanext)
  BY <1>1, <1>3 DEF Loading
<1>5. cmdbuf.cmd \in {First(op.cmd), Following(op.cmd)} /\ cmdbuf.cmd \in {"pfr", "ppr", "fdr", "pdr"}
  BY <1>1, <1>2 DEF IInv, Places, Active, Downloads, Single, Modes, Queries, First, Following
<1>6. Takes(xbd, cmdbuf, xbd') /\ Connected
  <2>1. xbd'.ans.cmd # "ccf"
    BY <1>4, <1>5, CodesFacts
  <2>. QED
    BY <1>1, <1>4, <2>1, SendConnected, GarbledFacts
<1>7. /\ xbd \in XbdStates /\ Offers(xbd) /\ cmdbuf \in Packets /\ mp \in MpStates
      /\ op.arg \in Seq(Bytes) /\ Len(op.arg) \in Nat
  <2>1. op \in Requests
    BY <1>1 DEF IInv, Types, BoardTypes, Places
  <2>. QED
    BY <1>2, <2>1, RequestFacts DEF IInv, Types, BoardTypes, Announced
<1>8. CASE cmdbuf = Packet(First(op.cmd), Len(op.arg), <<>>) /\ mp = MpState(0, 0, Len(op.arg))
  <2>1. cmdbuf.cmd = First(op.cmd) /\ cmdbuf.cmd \in {"pfr", "ppr"} /\ cmdbuf.num = Len(op.arg)
    BY <1>2, <1>8 DEF Packet, First, Downloads
  <2>2. /\ xbd'.rx = MpState(0, 0, Len(op.arg))
        /\ IF cmdbuf.cmd = "pfr" THEN xbd'.code = <<>> ELSE xbd'.params = <<>>
    BY <1>6, <1>7, <2>1, TakesFirstFacts
  <2>3. Store' = <<>>
    BY <1>1, <1>2, <2>1, <2>2 DEF Store, First, Downloads
  <2>4. SubSeq(op.arg, 1, mp.datanext) = <<>>
    BY <1>7, <1>8, SubSeqEmpty DEF MpState
  <2>. QED
    BY <1>8, <2>2, <2>3, <2>4
<1>9. CASE /\ cmdbuf = Packet(Following(op.cmd), xbd.rx.seqn, SubSeq(op.arg, xbd.rx.datanext + 1, mp.datanext))
           /\ xbd.rx.datanext + xbd.rx.dataleft = Len(op.arg)
           /\ mp.seqn = xbd.rx.seqn + 1 /\ xbd.rx.datanext < mp.datanext
           /\ Store = SubSeq(op.arg, 1, xbd.rx.datanext)
  <2> DEFINE m == xbd.rx.datanext
             data == SubSeq(op.arg, m + 1, mp.datanext)
             size == Lesser(Len(data), xbd.rx.dataleft)
  <2>1. cmdbuf.cmd = Following(op.cmd) /\ cmdbuf.cmd \in {"fdr", "pdr"} /\ cmdbuf.data = data
    BY <1>2, <1>9 DEF Packet, Following, Downloads
  <2>2. /\ m \in Nat /\ xbd.rx.dataleft \in Nat /\ mp.datanext \in Nat /\ mp.dataleft \in Nat
        /\ xbd.rx.seqn \in Nat /\ mp.seqn \in Nat
    BY <1>7 DEF XbdStates, MpStates
  <2>3. mp.datanext + mp.dataleft = Len(op.arg) /\ m + xbd.rx.dataleft = Len(op.arg) /\ m < mp.datanext
    BY <1>1, <1>3, <1>9
  <2>4. data \in Seq(Bytes) /\ Len(data) = mp.datanext - m
    <3>1. \A i \in (m + 1)..mp.datanext : op.arg[i] \in Bytes
      BY <1>7, <2>2, <2>3
    <3>2. m + 1 \in Int /\ mp.datanext \in Int
      BY <2>2
    <3>3. /\ data \in Seq(Bytes)
          /\ Len(data) = IF m + 1 <= mp.datanext THEN mp.datanext - (m + 1) + 1 ELSE 0
      BY <3>1, <3>2, SubSeqProperties
    <3>. QED
      BY <2>2, <2>3, <3>3
  <2> HIDE DEF data
  <2>5. size = mp.datanext - m /\ xbd.rx.dataleft # 0
    BY <2>2, <2>3, <2>4 DEF Lesser
  <2>6. /\ xbd'.rx = MpState(xbd.rx.seqn + 1, m + size, xbd.rx.dataleft - size)
        /\ cmdbuf.cmd = "fdr" => xbd'.code = xbd.code \o Padded(data, size)
        /\ cmdbuf.cmd = "pdr" => xbd'.params = xbd.params \o Padded(data, size)
    BY <1>4, <1>6, <1>7, <2>1, <2>5, TakesNextFacts
  <2>7. Store' = Store \o Padded(data, size)
    BY <1>1, <1>2, <2>1, <2>6 DEF Store, Following, Downloads
  <2>8. Padded(data, size) = data
    BY <2>4, <2>5, <2>2, <2>3, PaddedFacts
  <2>9. SubSeq(op.arg, 1, m) \o data = SubSeq(op.arg, 1, mp.datanext)
    <3>1. 1 \in 1..(Len(op.arg) + 1) /\ m \in (1 - 1)..Len(op.arg) /\ mp.datanext \in m..Len(op.arg)
      BY <1>7, <2>2, <2>3
    <3>. QED
      BY <1>7, <3>1, ConcatAdjacentSubSeq DEF data
  <2>10. mp = MpState(mp.seqn, mp.datanext, mp.dataleft)
    BY <1>7 DEF MpStates, MpState
  <2>11. mp.seqn = xbd.rx.seqn + 1 /\ mp.datanext = m + size /\ mp.dataleft = xbd.rx.dataleft - size
    <3>1. mp.seqn = xbd.rx.seqn + 1
      BY <1>9
    <3> HIDE DEF size
    <3>2. mp.datanext = m + size
      BY <2>2, <2>5
    <3>3. mp.dataleft = xbd.rx.dataleft - size
      <4> DEFINE left == xbd.rx.dataleft
                 len == Len(op.arg)
      <4>1. len \in Nat /\ left \in Nat
        BY <1>7, <2>2
      <4>2. mp.datanext + mp.dataleft = len /\ m + left = len
        BY <2>3
      <4> HIDE DEF left, m, len
      <4>. QED
        BY <2>2, <2>5, <4>1, <4>2 DEF left, m
    <3>. QED
      BY <3>1, <3>2, <3>3
  <2>. QED
    BY <1>9, <2>6, <2>7, <2>8, <2>9, <2>10, <2>11
<1>. QED
  BY <1>1, <1>2, <1>6, <1>8, <1>9 DEF IInv, Loading, Active

(* A request for a part of an upload.                                        *)
LEMMA SendCollected ==
    ASSUME IInv, Send
    PROVE  Collected'
<1>1. /\ step = "send" /\ xbdSend /\ step' = "recv"
      /\ UNCHANGED <<op, cmdbuf, buf, mp, answer, xbd_comm, cut>>
  BY DEF Send
<1>2. SUFFICES ASSUME Uploading PROVE Collected'
  BY <1>1 DEF Collected, Uploading, Active
<1>3. /\ Len(answer) = mp.datanext
      /\ xbd_comm # "I2C" => buf.cmd = "uro"
      /\ xbd_comm = "I2C" => xbd.tx.datanext + xbd.tx.dataleft = Len(xbd.result)
      /\ xbd_comm = "I2C" /\ ~cut =>
            /\ mp.datanext + mp.dataleft = Len(xbd.result)
            /\ answer = SubSeq(xbd.result, 1, mp.datanext)
            /\ Behind
  BY <1>1, <1>2 DEF IInv, Collected
<1>4. xbd \in XbdStates /\ Offers(xbd) /\ cmdbuf \in Packets /\ cmdbuf.cmd = "rdr" /\ mp \in MpStates
  BY <1>2 DEF IInv, Types, BoardTypes, Announced, Uploading
<1>5. SUFFICES ASSUME xbd_comm = "I2C"
               PROVE  /\ xbd'.tx.datanext + xbd'.tx.dataleft = Len(xbd'.result) /\ xbd'.result = xbd.result
                      /\ ~cut => Behind' \/ Ahead'
  BY <1>1, <1>3 DEF Collected
<1>6. CASE Takes(xbd, cmdbuf, xbd')
  <2> DEFINE size == Lesser(AnswerMax, xbd.tx.dataleft)
  <2>1. /\ xbd'.result = xbd.result /\ xbd'.tx.datanext + xbd'.tx.dataleft = Len(xbd.result)
        /\ xbd.tx.dataleft = 0 => xbd' = xbd
        /\ xbd.tx.dataleft # 0 =>
             /\ xbd'.tx = MpState(xbd.tx.seqn + 1, xbd.tx.datanext + size, xbd.tx.dataleft - size)
             /\ xbd'.ans = Packet("rdo", xbd.tx.seqn, SubSeq(xbd.result, xbd.tx.datanext + 1, xbd.tx.datanext + size))
    BY <1>3, <1>4, <1>5, <1>6, OffersNextFacts
  <2>2. ASSUME ~cut PROVE Behind' \/ Ahead'
    <3>1. Behind
      BY <1>3, <1>5, <2>2
    <3>2. CASE xbd.tx.dataleft = 0
      BY <1>1, <2>1, <3>1, <3>2 DEF Behind
    <3>3. CASE xbd.tx.dataleft # 0
      BY <1>1, <2>1, <3>1, <3>3 DEF Behind, Ahead, Part, PartSize
    <3>. QED
      BY <3>2, <3>3
  <2>. QED
    BY <2>1, <2>2
<1>7. CASE xbd' = xbd
  BY <1>1, <1>3, <1>5, <1>7 DEF Behind
<1>8. CASE xbd' = Answering(xbd, "ccf", 0)
  <2>1. xbd'.ans.cmd = "ccf" /\ xbd'.tx = xbd.tx /\ xbd'.result = xbd.result
    BY <1>8, GarbledFacts
  <2>. QED
    BY <1>1, <1>3, <1>5, <2>1 DEF Behind
<1>. QED
  BY <1>1, <1>5, <1>6, <1>7, <1>8, SendCases

(* Any other command.                                                        *)
LEMMA SendAwaited ==
    ASSUME IInv, Send
    PROVE  Awaited'
<1>1. /\ step = "send" /\ xbdSend /\ step' = "recv"
      /\ UNCHANGED <<op, cmdbuf, buf, xbd_comm, before>>
  BY DEF Send
<1>2. xbd \in XbdStates /\ Offers(xbd) /\ cmdbuf \in Packets
  BY DEF IInv, Types, BoardTypes, Announced
<1>3. ASSUME Connected'
      PROVE  Connected /\ (Takes(xbd, cmdbuf, xbd') \/ xbd'.ans.cmd = "ccf")
  BY <1>1, <1>3, SendConnected, GarbledFacts
<1>4. ASSUME op.cmd = "exr", Connected', xbd'.ans.cmd = "exo"
      PROVE  xbd'.runs = before + 1
  <2>1. cmdbuf.cmd = "exr"
    BY <1>1, <1>4 DEF IInv, Places, Active, Single, Queries, Downloads, Modes
  <2>2. xbd.runs = before
    BY <1>1, <1>3, <1>4 DEF IInv, Awaited
  <2>. QED
    BY <1>2, <1>3, <1>4, <2>1, <2>2, TakesExecution
<1>5. ASSUME op.cmd \in Modes, Connected'
      PROVE  /\ xbd'.ans.cmd = "AFo" => xbd'.mode = "AF"
             /\ xbd'.ans.cmd = "BLo" => xbd'.mode = "BL"
  <2>1. cmdbuf.cmd = "vir"
    BY <1>1, <1>5 DEF IInv, Places, Active, Single, Queries, Downloads, Modes
  <2>. QED
    BY <1>2, <1>3, <1>5, <2>1, TakesMode
<1>6. ASSUME op.cmd \in Queries
      PROVE  /\ buf' = Blank
             /\ Connected' /\ xbd'.ans.cmd = OkCode[op.cmd] => xbd'.ans.num = xbd'.runs
  <2>1. cmdbuf.cmd \in Queries
    BY <1>1, <1>6 DEF IInv, Places, Active, Single, Queries, Downloads, Modes
  <2>2. buf' = Blank
    BY <1>1, <1>6 DEF IInv, Awaited
  <2>3. OkCode[op.cmd] # "ccf"
    BY <1>6, CodesFacts DEF Queries
  <2>. QED
    BY <1>2, <1>3, <2>1, <2>2, <2>3, TakesQuestion
<1>. QED
  BY <1>1, <1>4, <1>5, <1>6 DEF Awaited

LEMMA SendKeeps ==
    ASSUME IInv, Send
    PROVE  IInv'
<1>1. /\ step = "send" /\ xbdSend /\ step' = "recv"
      /\ UNCHANGED <<op, cmdbuf, buf, pbuf, mp, answer, trys, xbd_comm, reply, statics, cmds, hits, cut, before>>
  BY DEF Send
<1>2. Types' /\ Announced' /\ Counted' /\ Truthful'
  <2>1. cmdbuf' \in Packets
    BY <1>1 DEF IInv, Types, BoardTypes
  <2>. QED
    BY <1>1, <2>1, SendTypes
<1>3. Places'
  BY <1>1 DEF IInv, Places, Active
<1>. QED
  BY <1>2, <1>3, SendLoading, SendCollected, SendAwaited DEF IInv

----------------------------------------------------------------------------
(* An answer is read.                                                        *)

LEMMA SizeFacts ==
    ASSUME NEW code
    PROVE  SizeOf(code) \in Sizes \ {"torn"} /\ Asked(code) \in Sizes \ {"torn"}
BY DEF SizeOf, Asked, Sizes

LEMMA ImageFacts ==
    ASSUME NEW pkt \in Packets
    PROVE  /\ Image(pkt) \in Buffers /\ Image(pkt).cmd = pkt.cmd /\ Contents(Image(pkt)) = pkt
           /\ LET torn == [Image(pkt) EXCEPT !.size = "torn"]
              IN  torn \in Buffers /\ torn.size = "torn"
<1>1. SizeOf(pkt.cmd) \in Sizes /\ "torn" \in Sizes
  BY SizeFacts DEF Sizes
<1>. QED
  BY <1>1 DEF Image, Buffers, Packets, Contents, Packet

(* The checksum decides.                                                     *)
LEMMA CheckFacts ==
    ASSUME NEW c \in Buffers, NEW size
    PROVE  LET out == CheckCrc(c, size)
           IN  /\ out.b \in Buffers /\ out.ret \in {0, -1}
               /\ out.ret = 0 => out.b = c /\ c.size = size
               /\ out.ret # 0 => out.b.cmd = "ccf"
<1>1. "ccf" \in Codes
  BY CodesFacts
<1>2. [c EXCEPT !.cmd = "ccf"] \in Buffers /\ [c EXCEPT !.cmd = "ccf"].cmd = "ccf"
  BY <1>1 DEF Buffers
<1>. QED
  BY <1>2 DEF CheckCrc, CrcRight

(* A good answer begins as the XBD's does, and is all of it unless it was    *)
(* read in part; over a blank buffer, no such answer is good.                *)
LEMMA ReadFacts ==
    ASSUME xbd \in XbdStates, NEW b \in Buffers, NEW size \in Sizes \ {"torn"}, NEW r \in Received(b, size)
    PROVE  /\ r.got.b \in Buffers /\ r.got.ret \in {0, -1} /\ r.cost \in Nat /\ r.cut \in BOOLEAN
           /\ r.got.ret # 0 => r.got.b.cmd = "ccf"
           /\ xbd_comm = "I2C" /\ r.got.ret = 0 =>
                /\ r.got.b.cmd = xbd.ans.cmd
                /\ r.cut = FALSE \/ b = Blank => Contents(r.got.b) = xbd.ans
           /\ xbd_comm # "I2C" => r.got.b.cmd \in {b.cmd, "ccf"}
<1>1. PICK left \in LeftBy(b, size) : r = [got |-> CheckCrc(left.b, size), cost |-> left.cost, cut |-> left.cut]
  BY DEF Received
<1>2. xbd.ans \in Packets /\ xbd.ans.cmd \in Codes /\ xbd.ans.num \in Nat
  BY DEF XbdStates, Packets
<1>3. CASE xbd_comm # "I2C"
  <2>1. left = [b |-> b, cost |-> 0, cut |-> FALSE]
    BY <1>3 DEF LeftBy
  <2>. QED
    BY <1>1, <1>3, <2>1, CheckFacts
<1>4. CASE xbd_comm = "I2C" /\ left = [b |-> Clean(b, size), cost |-> 0, cut |-> FALSE]
  <2> DEFINE c == Clean(b, size)
  <2>1. c \in Buffers /\ (c.size # "torn" => c.cmd = xbd.ans.cmd /\ Contents(c) = xbd.ans)
    BY <1>2, ImageFacts DEF Clean
  <2> HIDE DEF c
  <2>2. r.got = CheckCrc(c, size) /\ r.cost = 0 /\ r.cut = FALSE
    BY <1>1, <1>4 DEF c
  <2>3. /\ r.got.b \in Buffers /\ r.got.ret \in {0, -1}
        /\ r.got.ret = 0 => r.got.b = c /\ c.size = size
        /\ r.got.ret # 0 => r.got.b.cmd = "ccf"
    BY <2>1, <2>2, CheckFacts
  <2>4. r.cost \in Nat /\ r.cut \in BOOLEAN
    <3>1. r.cost \in Nat
      BY <2>2
    <3>2. r.cut \in BOOLEAN
      BY <2>2, Zenon
    <3>. QED
      BY <3>1, <3>2, Zenon
  <2>5. ASSUME r.got.ret = 0
        PROVE  r.got.b.cmd = xbd.ans.cmd /\ (r.cut = FALSE \/ b = Blank => Contents(r.got.b) = xbd.ans)
    BY <2>1, <2>3, <2>5
  <2>. QED
    BY <1>4, <2>3, <2>4, <2>5, Zenon
<1>5. CASE xbd_comm = "I2C" /\ left = [b |-> Blank, cost |-> 1, cut |-> FALSE]
  <2>1. r.got = CheckCrc(Blank, size) /\ r.cost = 1 /\ r.cut = FALSE
    BY <1>1, <1>5
  <2>2. /\ r.got.b \in Buffers /\ r.got.ret \in {0, -1}
        /\ r.got.ret = 0 => Blank.size = size
        /\ r.got.ret # 0 => r.got.b.cmd = "ccf"
    BY <2>1, CheckFacts, InitialFacts
  <2>3. r.cost \in Nat /\ r.cut \in BOOLEAN
    <3>1. r.cost \in Nat
      BY <2>1
    <3>2. r.cut \in BOOLEAN
      BY <2>1, Zenon
    <3>. QED
      BY <3>1, <3>2, Zenon
  <2>4. ASSUME r.got.ret = 0
        PROVE  r.got.b.cmd = xbd.ans.cmd /\ (r.cut = FALSE \/ b = Blank => Contents(r.got.b) = xbd.ans)
    BY <2>2, <2>4, InitialFacts
  <2>. QED
    BY <1>5, <2>2, <2>3, <2>4, Zenon
<1>6. CASE xbd_comm = "I2C" /\ \E c \in Cut(b, size) : left = [b |-> c, cost |-> 1, cut |-> TRUE]
  <2>1. PICK c \in Cut(b, size) : left = [b |-> c, cost |-> 1, cut |-> TRUE]
    BY <1>6
  <2>2. c \in Buffers /\ c.cmd = xbd.ans.cmd /\ c.size = b.size
    <3>1. CASE c = [b EXCEPT !.cmd = xbd.ans.cmd]
      BY <1>2, <3>1 DEF Buffers
    <3>2. CASE c = [b EXCEPT !.cmd = xbd.ans.cmd, !.num = xbd.ans.num]
      BY <1>2, <3>2 DEF Buffers
    <3>. QED
      BY <3>1, <3>2 DEF Cut
  <2>3. r.got = CheckCrc(c, size) /\ r.cost = 1 /\ r.cut = TRUE
    BY <1>1, <2>1
  <2>4. /\ r.got.b \in Buffers /\ r.got.ret \in {0, -1}
        /\ r.got.ret = 0 => r.got.b = c /\ c.size = size
        /\ r.got.ret # 0 => r.got.b.cmd = "ccf"
    BY <2>2, <2>3, CheckFacts
  <2>5. b = Blank => r.got.ret # 0
    BY <2>2, <2>4, InitialFacts
  <2>6. r.cut # FALSE
    BY <2>3
  <2>7. r.cost \in Nat /\ r.cut \in BOOLEAN
    <3>1. r.cost \in Nat
      BY <2>3
    <3>2. r.cut \in BOOLEAN
      BY <2>3, Zenon
    <3>. QED
      BY <3>1, <3>2, Zenon
  <2>8. ASSUME r.got.ret = 0
        PROVE  r.got.b.cmd = xbd.ans.cmd /\ (r.cut = FALSE \/ b = Blank => Contents(r.got.b) = xbd.ans)
    BY <2>2, <2>4, <2>5, <2>6, <2>8
  <2>. QED
    BY <1>6, <2>4, <2>7, <2>8, Zenon
<1>7. xbd_comm # "I2C" \/ left = [b |-> Clean(b, size), cost |-> 0, cut |-> FALSE]
      \/ left = [b |-> Blank, cost |-> 1, cut |-> FALSE]
      \/ \E c \in Cut(b, size) : left = [b |-> c, cost |-> 1, cut |-> TRUE]
  BY DEF LeftBy
<1>. QED
  BY <1>3, <1>4, <1>5, <1>6, <1>7

(* What a call of xbdReceive does, whatever follows.                         *)
Reads(r, b, size) ==
    /\ step = "recv"
    /\ r \in Received(b, size)
    /\ faults + r.cost <= MaxFaults
    /\ faults' = faults + r.cost
    /\ cut' = (cut \/ r.cut)
    /\ UNCHANGED <<xbd_comm, statics, cmds, hits, lost, before>>

LEMMA ReadTypes ==
    ASSUME IInv, NEW b \in Buffers, NEW size \in Sizes \ {"torn"}, NEW r, Reads(r, b, size)
    PROVE  /\ r.got.b \in Buffers /\ r.got.ret \in {0, -1}
           /\ r.got.ret # 0 => r.got.b.cmd = "ccf"
           /\ xbd_comm = "I2C" /\ r.got.ret = 0 =>
                /\ r.got.b.cmd = xbd.ans.cmd
                /\ cut' = FALSE \/ b = Blank => Contents(r.got.b) = xbd.ans
           /\ xbd_comm # "I2C" => r.got.b.cmd \in {b.cmd, "ccf"}
           /\ BoardTypes' /\ xbd' \in XbdStates => Types' /\ Counted'
           /\ cut \in BOOLEAN /\ cut' \in BOOLEAN /\ (cut' = FALSE => cut = FALSE)
<1>1. xbd \in XbdStates /\ r \in Received(b, size)
  BY DEF IInv, Types, Reads
<1>2. /\ r.got.b \in Buffers /\ r.got.ret \in {0, -1} /\ r.cost \in Nat /\ r.cut \in BOOLEAN
      /\ r.got.ret # 0 => r.got.b.cmd = "ccf"
      /\ xbd_comm = "I2C" /\ r.got.ret = 0 =>
           /\ r.got.b.cmd = xbd.ans.cmd
           /\ r.cut = FALSE \/ b = Blank => Contents(r.got.b) = xbd.ans
      /\ xbd_comm # "I2C" => r.got.b.cmd \in {b.cmd, "ccf"}
  BY <1>1, ReadFacts
<1>3. cut \in BOOLEAN /\ cut' \in BOOLEAN /\ (cut' = FALSE => cut = FALSE /\ r.cut = FALSE)
  BY <1>2 DEF IInv, Types, Reads
<1>4. ASSUME BoardTypes', xbd' \in XbdStates PROVE Types' /\ Counted'
  <2>1. faults' \in 0..MaxFaults
    BY <1>2, LinkBoundsAssumption DEF IInv, Types, Reads
  <2>2. Types'
    BY <1>3, <1>4, <2>1 DEF IInv, Types, Reads, statics
  <2>3. Counted'
    BY DEF IInv, Counted, Reads, statics
  <2>. QED
    BY <2>2, <2>3
<1>. QED
  BY <1>2, <1>3, <1>4

(* The handler, for its part, ends or goes on.                               *)
LEMMA FinishFacts ==
    ASSUME IInv, NEW ok \in BOOLEAN, NEW data, Finish(ok, data)
    PROVE  /\ op' = NoRequest /\ step' = "idle" /\ reply' = [req |-> op, ok |-> ok, data |-> data]
           /\ reply'.req \in Requests \cup {NoRequest} /\ reply'.ok \in BOOLEAN
           /\ Places' /\ Loading' /\ Collected' /\ Awaited'
<1>1. op' = NoRequest /\ step' = "idle" /\ reply' = [req |-> op, ok |-> ok, data |-> data]
  BY DEF Finish
<1>. QED
  BY <1>1, RestFacts DEF IInv, Types, BoardTypes

----------------------------------------------------------------------------
(* The answers of the handlers.                                              *)

LEMMA ReceiveSingleKeeps ==
    ASSUME IInv, ReceiveSingle
    PROVE  IInv'
<1> DEFINE size == Asked(op.cmd)
<1>1. PICK r \in Received(buf, size) : Reads(r, buf, size) /\ SingleAnswered(r.got)
  BY DEF ReceiveSingle, xbdReceive, Reads
<1>2. op.cmd \in Single /\ step = "recv" /\ (xbd_comm = "I2C" => xbd.up = "run")
  BY DEF ReceiveSingle, xbdReceive
<1>3. buf \in Buffers /\ size \in Sizes \ {"torn"} /\ xbd \in XbdStates
  BY SizeFacts DEF IInv, Types, BoardTypes
<1> DEFINE out == r.got
           ok == Succeeded(out, OkCode[op.cmd])
           data == IF ok /\ op.cmd \in Queries THEN <<out.b.num>> ELSE <<>>
<1>4. /\ out.b \in Buffers /\ out.ret \in {0, -1}
      /\ xbd_comm = "I2C" /\ out.ret = 0 =>
           /\ out.b.cmd = xbd.ans.cmd
           /\ cut' = FALSE \/ buf = Blank => Contents(out.b) = xbd.ans
      /\ BoardTypes' /\ xbd' \in XbdStates => Types' /\ Counted'
  BY <1>1, <1>3, ReadTypes
<1>5. /\ buf' = out.b /\ Finish(ok, data)
      /\ pbuf' = (IF ok /\ op.cmd \in Queries THEN Blank ELSE pbuf)
      /\ UNCHANGED <<cmdbuf, mp, answer, trys, xbd>>
  BY <1>1 DEF SingleAnswered
<1>6. ok \in BOOLEAN
  BY DEF Succeeded
<1>7. /\ op' = NoRequest /\ step' = "idle" /\ reply' = [req |-> op, ok |-> ok, data |-> data]
      /\ reply'.req \in Requests \cup {NoRequest} /\ reply'.ok \in BOOLEAN
      /\ Places' /\ Loading' /\ Collected' /\ Awaited'
  BY <1>5, <1>6, FinishFacts
<1>8. BoardTypes'
  <2>1. pbuf' \in Buffers
    BY <1>5, InitialFacts DEF IInv, Types, BoardTypes
  <2>. QED
    BY <1>1, <1>4, <1>5, <1>7, <2>1, InitialFacts DEF IInv, Types, BoardTypes, Reads
<1>9. Types' /\ Counted' /\ Announced'
  BY <1>3, <1>4, <1>5, <1>8 DEF IInv, Announced
<1>10. reply'.req.cmd = op.cmd /\ (reply'.ok => ok) /\ reply'.data = data
  BY <1>7
<1>11. Connected' => Connected
  BY <1>1 DEF Reads, Connected
<1>12. ExecutedOnce'
  <2> SUFFICES ASSUME Connected', Answered("exr")' PROVE xbd'.runs = before' + 1
    BY DEF ExecutedOnce
  <2>1. op.cmd = "exr" /\ out.ret = 0 /\ out.b.cmd = "exo" /\ xbd_comm = "I2C"
    BY <1>1, <1>10, <1>11, CodesFacts DEF Answered, Succeeded, Connected
  <2>2. xbd.ans.cmd = "exo"
    BY <1>4, <2>1
  <2>3. xbd.runs = before + 1
    BY <1>2, <1>11, <2>1, <2>2 DEF IInv, Awaited
  <2>. QED
    BY <1>1, <1>5, <2>3 DEF Reads
<1>13. AnswerFresh'
  <2> SUFFICES ASSUME NEW q \in Queries, Connected', Answered(q)' PROVE reply'.data = <<xbd'.runs>>
    BY DEF AnswerFresh
  <2>1. op.cmd \in Queries /\ ok /\ out.ret = 0 /\ out.b.cmd = OkCode[op.cmd] /\ xbd_comm = "I2C"
    BY <1>1, <1>10, <1>11 DEF Answered, Succeeded, Connected
  <2>2. buf = Blank
    BY <2>1 DEF IInv, Awaited
  <2>3. xbd.ans.cmd = OkCode[op.cmd] /\ Contents(out.b) = xbd.ans
    BY <1>4, <2>1, <2>2
  <2>4. xbd.ans.num = xbd.runs
    BY <1>2, <1>11, <2>1, <2>3 DEF IInv, Awaited
  <2>5. out.b.num = xbd.runs
    BY <2>3, <2>4 DEF Contents, Packet
  <2>. QED
    BY <1>5, <1>10, <2>1, <2>5
<1>14. DownloadArrived' /\ UploadExact' /\ ModeReached'
  BY <1>2, <1>10 DEF DownloadArrived, UploadExact, ModeReached, Answered, Single, Queries
<1>. QED
  BY <1>7, <1>9, <1>12, <1>13, <1>14 DEF IInv, Truthful

LEMMA ReceiveDownloadKeeps ==
    ASSUME IInv, ReceiveDownload
    PROVE  IInv'
<1>1. PICK r \in Received(buf, "code") : Reads(r, buf, "code") /\ DownloadAnswered(r.got)
  BY DEF ReceiveDownload, xbdReceive, Reads
<1>2. op.cmd \in Downloads /\ step = "recv"
  BY DEF ReceiveDownload, xbdReceive
<1>3. /\ buf \in Buffers /\ "code" \in Sizes \ {"torn"} /\ xbd \in XbdStates /\ cmdbuf \in Packets
      /\ mp \in MpStates /\ op \in Requests /\ op.arg \in Seq(Bytes) /\ Len(op.arg) \in Nat
  <2>1. op \in Requests
    BY <1>2 DEF IInv, Types, BoardTypes, Places
  <2>. QED
    BY <1>2, <2>1, RequestFacts DEF IInv, Types, BoardTypes, Sizes
<1> DEFINE out == r.got
           ok == Succeeded(out, OkCode[cmdbuf.cmd])
           gen == GenSuccessive(mp, op.arg, SendMax, Following(op.cmd))
<1>4. /\ out.b \in Buffers /\ out.ret \in {0, -1}
      /\ xbd_comm = "I2C" /\ out.ret = 0 => out.b.cmd = xbd.ans.cmd
      /\ BoardTypes' /\ xbd' \in XbdStates => Types' /\ Counted'
  BY <1>1, <1>3, ReadTypes
<1>5. buf' = out.b /\ UNCHANGED <<pbuf, answer, trys, xbd, xbd_comm, lost, before>>
  BY <1>1 DEF DownloadAnswered, Reads
<1>6. /\ mp.datanext + mp.dataleft = Len(op.arg)
      /\ ok /\ Connected => xbd.rx = mp /\ Store = SubSeq(op.arg, 1, mp.datanext)
  <2>1. ok /\ Connected => xbd.ans.cmd = OkCode[cmdbuf.cmd]
    BY <1>4 DEF Succeeded, Connected
  <2>. QED
    BY <1>2, <2>1 DEF IInv, Loading, Active
<1>7. mp.datanext \in Nat /\ mp.dataleft \in Nat /\ mp.seqn \in Nat
  BY <1>3 DEF MpStates
<1>8. Announced'
  BY <1>5 DEF IInv, Announced
<1>9. CASE ~ok
  <2>1. Finish(FALSE, <<>>) /\ UNCHANGED <<cmdbuf, mp>>
    BY <1>1, <1>9 DEF DownloadAnswered
  <2>2. /\ op' = NoRequest /\ step' = "idle" /\ reply' = [req |-> op, ok |-> FALSE, data |-> <<>>]
        /\ reply'.req \in Requests \cup {NoRequest} /\ reply'.ok \in BOOLEAN
        /\ Places' /\ Loading' /\ Collected' /\ Awaited'
    BY <2>1, FinishFacts
  <2>3. BoardTypes'
    BY <1>4, <1>5, <2>1, <2>2, InitialFacts DEF IInv, Types, BoardTypes
  <2>4. Truthful'
    BY <2>2, Untold
  <2>. QED
    BY <1>3, <1>4, <1>5, <1>8, <2>2, <2>3, <2>4 DEF IInv
<1>10. CASE ok /\ mp.dataleft = 0
  <2>1. Finish(TRUE, <<>>) /\ UNCHANGED <<cmdbuf, mp>>
    BY <1>1, <1>10 DEF DownloadAnswered
  <2>2. /\ op' = NoRequest /\ step' = "idle" /\ reply' = [req |-> op, ok |-> TRUE, data |-> <<>>]
        /\ reply'.req \in Requests \cup {NoRequest} /\ reply'.ok \in BOOLEAN
        /\ Places' /\ Loading' /\ Collected' /\ Awaited'
    BY <2>1, FinishFacts
  <2>3. BoardTypes'
    BY <1>4, <1>5, <2>1, <2>2, InitialFacts DEF IInv, Types, BoardTypes
  <2>4. reply'.req = op /\ reply'.req.cmd \in Downloads
    BY <1>2, <2>2
  <2>5. DownloadArrived'
    <3>1. ASSUME Connected' PROVE Store = op.arg
      <4>1. Connected
        BY <1>5, <3>1 DEF Connected
      <4>2. mp.datanext = Len(op.arg)
        BY <1>6, <1>7, <1>10
      <4>. QED
        BY <1>3, <1>6, <1>10, <4>1, <4>2, SubSeqFull
    <3>. QED
      BY <1>2, <1>5, <2>4, <3>1 DEF DownloadArrived, Answered, Store, Downloads
  <2>6. UploadExact' /\ ExecutedOnce' /\ ModeReached' /\ AnswerFresh'
    BY <2>4 DEF UploadExact, ExecutedOnce, ModeReached, AnswerFresh, Answered, Downloads, Queries
  <2>. QED
    BY <1>3, <1>4, <1>5, <1>8, <2>2, <2>3, <2>5, <2>6 DEF IInv, Truthful
<1>11. CASE ok /\ mp.dataleft # 0
  <2> DEFINE n == Lesser(SendMax, mp.dataleft)
             data == SubSeq(op.arg, mp.datanext + 1, mp.datanext + n)
  <2>1. SendNext(gen.pkt) /\ mp' = gen.mp
    BY <1>1, <1>11 DEF DownloadAnswered
  <2>2. Following(op.cmd) \in Codes /\ SendMax \in Nat \ {0}
    BY <1>2, CodesFacts, SizesAssumption DEF Following
  <2>3. /\ gen.mp = MpState(mp.seqn + 1, mp.datanext + n, mp.dataleft - n)
        /\ gen.mp \in MpStates /\ gen.mp.datanext + gen.mp.dataleft = Len(op.arg)
        /\ gen.pkt = Packet(Following(op.cmd), mp.seqn, data)
        /\ gen.pkt \in Packets /\ gen.mp.datanext = mp.datanext + n
    BY <1>3, <1>6, <2>2, GenSuccessiveFacts
  <2>4. n \in Nat /\ n # 0
    BY <1>7, <1>11, <2>2, LesserFacts
  <2> HIDE DEF gen, n
  <2>5. cmdbuf' = gen.pkt /\ step' = "send" /\ op' = op /\ reply' = reply
    BY <2>1 DEF SendNext
  <2>6. BoardTypes'
    BY <1>4, <1>5, <2>1, <2>3, <2>5 DEF IInv, Types, BoardTypes
  <2>7. gen.pkt.cmd = Following(op.cmd) /\ gen.mp.seqn = mp.seqn + 1
    BY <2>3 DEF Packet, MpState
  <2>8. Places'
    BY <1>2, <1>5, <2>5, <2>7 DEF IInv, Places, Active
  <2>9. Loading'
    <3>1. mp'.datanext + mp'.dataleft = Len(op'.arg)
      BY <2>1, <2>3, <2>5
    <3>2. ASSUME Connected'
          PROVE  /\ cmdbuf' = Packet(Following(op'.cmd), xbd'.rx.seqn, SubSeq(op'.arg, xbd'.rx.datanext + 1, mp'.datanext))
                 /\ xbd'.rx.datanext + xbd'.rx.dataleft = Len(op'.arg)
                 /\ mp'.seqn = xbd'.rx.seqn + 1 /\ xbd'.rx.datanext < mp'.datanext
                 /\ Store' = SubSeq(op'.arg, 1, xbd'.rx.datanext)
      <4>1. xbd'.rx = mp /\ Store = SubSeq(op.arg, 1, mp.datanext)
        BY <1>5, <1>6, <1>11, <3>2 DEF Connected
      <4>2. Store' = Store
        BY <1>5, <2>5 DEF Store
      <4>3. mp'.datanext = mp.datanext + n /\ mp.datanext < mp.datanext + n
        BY <1>7, <2>1, <2>3, <2>4
      <4>. QED
        BY <1>6, <2>1, <2>3, <2>5, <2>7, <4>1, <4>2, <4>3
    <3>. QED
      BY <2>5, <3>1, <3>2 DEF Loading
  <2>10. Collected' /\ Awaited'
    BY <1>2, <2>5 DEF Collected, Uploading, Awaited, Downloads, Modes, Queries
  <2>11. Truthful'
    <3>1. reply' = NoReply
      BY <1>2, <2>5 DEF IInv, Places
    <3>. QED
      BY <3>1, InitialFacts, Untold
  <2>. QED
    BY <1>3, <1>4, <1>5, <1>8, <2>6, <2>8, <2>9, <2>10, <2>11 DEF IInv
<1>. QED
  BY <1>9, <1>10, <1>11

(* The announcement of an upload.                                            *)
LEMMA ReceiveAnnouncementKeeps ==
    ASSUME IInv, ReceiveAnnouncement
    PROVE  IInv'
<1>1. PICK r \in Received(buf, "long") : Reads(r, buf, "long") /\ UploadAnnounced(r.got)
  BY DEF ReceiveAnnouncement, xbdReceive, Reads
<1>2. op.cmd = "urr" /\ step = "recv"
  BY DEF ReceiveAnnouncement, xbdReceive
<1>3. buf \in Buffers /\ "long" \in Sizes \ {"torn"} /\ xbd \in XbdStates /\ mp \in MpStates
  BY DEF IInv, Types, BoardTypes, Sizes
<1> DEFINE out == r.got
           init == RecInitial(mp, Contents(out.b), "uro")
           ok == out.ret = 0 /\ init.ret = 0
<1>4. /\ out.b \in Buffers /\ out.ret \in {0, -1}
      /\ xbd_comm = "I2C" /\ out.ret = 0 =>
           /\ out.b.cmd = xbd.ans.cmd
           /\ cut' = FALSE \/ buf = Blank => Contents(out.b) = xbd.ans
      /\ BoardTypes' /\ xbd' \in XbdStates => Types' /\ Counted'
      /\ cut' \in BOOLEAN
  BY <1>1, <1>3, ReadTypes
<1>5. /\ buf' = out.b /\ mp' = init.mp /\ answer' = <<>>
      /\ UNCHANGED <<pbuf, trys, xbd, xbd_comm>>
      /\ IF ok THEN SendNext(Packet("rdr", 0, <<>>)) ELSE Finish(FALSE, <<>>) /\ UNCHANGED cmdbuf
  BY <1>1 DEF UploadAnnounced, Reads
<1>6. Contents(out.b) \in Packets /\ Contents(out.b).cmd = out.b.cmd /\ Contents(out.b).num = out.b.num
      /\ out.b.num \in Nat
  BY <1>4 DEF Buffers, Contents, Packet, Packets
<1>7. /\ init.mp \in MpStates
      /\ init.ret = 0 => out.b.cmd = "uro" /\ init.mp = MpState(0, 0, out.b.num)
  BY <1>3, <1>6, RecInitialFacts
<1> HIDE DEF init
<1>8. Announced'
  BY <1>5 DEF IInv, Announced
<1>9. ReplyMax \in Nat /\ Len(answer') = 0 /\ answer' \in Seq(Bytes)
  BY <1>5, SizesAssumption, InitialFacts
<1>10. CASE ~ok
  <2>1. Finish(FALSE, <<>>) /\ UNCHANGED cmdbuf
    BY <1>5, <1>10
  <2>2. /\ op' = NoRequest /\ step' = "idle" /\ reply' = [req |-> op, ok |-> FALSE, data |-> <<>>]
        /\ reply'.req \in Requests \cup {NoRequest} /\ reply'.ok \in BOOLEAN
        /\ Places' /\ Loading' /\ Collected' /\ Awaited'
    BY <2>1, FinishFacts
  <2>3. BoardTypes'
    BY <1>4, <1>5, <1>7, <1>9, <2>1, <2>2 DEF IInv, Types, BoardTypes
  <2>4. Truthful'
    BY <2>2, Untold
  <2>. QED
    BY <1>3, <1>4, <1>5, <1>8, <2>2, <2>3, <2>4 DEF IInv
<1>11. CASE ok
  <2>1. cmdbuf' = Packet("rdr", 0, <<>>) /\ step' = "send" /\ op' = op /\ reply' = reply
    BY <1>5, <1>11 DEF SendNext
  <2>2. cmdbuf' \in Packets /\ cmdbuf'.cmd = "rdr"
    BY <2>1, CodesFacts, InitialFacts DEF Packet, Packets
  <2>3. BoardTypes'
    BY <1>4, <1>5, <1>7, <1>9, <2>1, <2>2 DEF IInv, Types, BoardTypes
  <2>4. Places'
    BY <1>2, <1>5, <2>1, <2>2 DEF IInv, Places, Active
  <2>5. Loading' /\ Awaited'
    BY <1>2, <2>1 DEF Loading, Awaited, Downloads, Modes, Queries
  <2>6. reply' = NoReply
    BY <1>2, <2>1 DEF IInv, Places
  <2>7. Truthful'
    BY <2>6, InitialFacts, Untold
  <2>8. out.b.cmd = "uro" /\ mp' = MpState(0, 0, out.b.num) /\ mp'.datanext = 0 /\ mp'.dataleft = out.b.num
    BY <1>5, <1>7, <1>11 DEF MpState
  <2>9. ASSUME xbd_comm = "I2C"
        PROVE  /\ xbd.ans.cmd = "uro" /\ xbd.tx = MpState(0, 0, Len(xbd.result))
               /\ xbd.ans.num = Len(xbd.result) /\ Len(xbd.result) \in Nat
               /\ xbd.tx.datanext + xbd.tx.dataleft = Len(xbd.result)
    <3>1. xbd.ans.cmd = "uro" /\ Len(xbd.result) \in Nat
      BY <1>3, <1>4, <1>11, <2>8, <2>9 DEF XbdStates
    <3>2. xbd.tx = MpState(0, 0, Len(xbd.result)) /\ xbd.ans.num = Len(xbd.result)
      BY <3>1 DEF IInv, Announced, Offers
    <3>3. xbd.tx.datanext + xbd.tx.dataleft = Len(xbd.result)
      BY <3>1, <3>2 DEF MpState
    <3>. QED
      BY <3>1, <3>2, <3>3
  <2>10. ASSUME xbd_comm = "I2C", cut' = FALSE
         PROVE  /\ mp' = xbd.tx /\ mp'.datanext + mp'.dataleft = Len(xbd.result)
                /\ answer' = SubSeq(xbd.result, 1, mp'.datanext)
    <3>1. Contents(out.b) = xbd.ans
      BY <1>4, <1>11, <2>10
    <3>2. mp' = xbd.tx
      BY <1>6, <2>8, <2>9, <2>10, <3>1
    <3>3. SubSeq(xbd.result, 1, 0) = <<>>
      BY SubSeqEmpty
    <3>. QED
      BY <1>5, <2>8, <2>9, <2>10, <3>2, <3>3
  <2>11. Collected'
    <3>1. Len(answer') = mp'.datanext /\ buf'.cmd = "uro"
      BY <1>5, <1>9, <2>8
    <3>2. ASSUME xbd_comm' = "I2C", ~cut'
          PROVE  /\ mp'.datanext + mp'.dataleft = Len(xbd'.result)
                 /\ answer' = SubSeq(xbd'.result, 1, mp'.datanext) /\ Behind'
      <4>1. cut' = FALSE
        BY <1>4, <3>2
      <4>2. mp' = xbd.tx /\ mp'.datanext + mp'.dataleft = Len(xbd.result)
            /\ answer' = SubSeq(xbd.result, 1, mp'.datanext) /\ xbd.ans.cmd # "rdo"
        BY <1>5, <2>9, <2>10, <3>2, <4>1
      <4>. QED
        BY <1>5, <4>2 DEF Behind
    <3>. QED
      BY <1>5, <2>9, <3>1, <3>2 DEF Collected
  <2>. QED
    BY <1>3, <1>4, <1>5, <1>8, <2>3, <2>4, <2>5, <2>7, <2>11 DEF IInv
<1>. QED
  BY <1>10, <1>11

(* A good part of it is the next one.                                        *)
LEMMA PartFacts ==
    ASSUME IInv, Uploading, step = "recv", xbd_comm = "I2C", cut = FALSE,
           xbd.ans.cmd = "rdo", xbd.ans.num = mp.seqn \/ mp.dataleft = 0,
           NEW n, n = Lesser(AnswerMax, mp.dataleft)
    PROVE  /\ mp.dataleft # 0 /\ xbd.ans.num = mp.seqn
           /\ xbd.tx = MpState(mp.seqn + 1, mp.datanext + n, mp.dataleft - n)
           /\ answer \o Padded(xbd.ans.data, n) = SubSeq(xbd.result, 1, mp.datanext + n)
           /\ mp.datanext + n + (mp.dataleft - n) = Len(xbd.result)
<1>1. /\ mp.datanext + mp.dataleft = Len(xbd.result)
      /\ answer = SubSeq(xbd.result, 1, mp.datanext)
      /\ Behind \/ Ahead
  <2>1. ~cut
    OBVIOUS
  <2>. QED
    BY <2>1 DEF IInv, Collected
<1>2. Ahead
  BY <1>1 DEF Behind, Ahead
<1>3. /\ mp.datanext \in Nat /\ mp.dataleft \in Nat /\ mp.seqn \in Nat /\ AnswerMax \in Nat
      /\ xbd.result \in Seq(Bytes) /\ Len(xbd.result) \in Nat
  BY SizesAssumption DEF IInv, Types, BoardTypes, MpStates, XbdStates
<1>4. n \in Nat /\ n <= mp.dataleft
  BY <1>3, LesserFacts
<1> DEFINE part == SubSeq(xbd.result, mp.datanext + 1, mp.datanext + n)
<1>5. /\ mp.dataleft # 0 /\ xbd.ans = Packet("rdo", mp.seqn, part)
      /\ xbd.tx = MpState(mp.seqn + 1, mp.datanext + n, mp.dataleft - n)
  BY <1>2 DEF Ahead, Part, PartSize
<1>6. part \in Seq(Bytes) /\ Len(part) = n
  <2>1. \A i \in (mp.datanext + 1)..(mp.datanext + n) : xbd.result[i] \in Bytes
    BY <1>1, <1>3, <1>4
  <2>2. mp.datanext + 1 \in Int /\ mp.datanext + n \in Int
    BY <1>3, <1>4
  <2>3. /\ part \in Seq(Bytes)
        /\ Len(part) = IF mp.datanext + 1 <= mp.datanext + n THEN (mp.datanext + n) - (mp.datanext + 1) + 1 ELSE 0
    BY <2>1, <2>2, SubSeqProperties
  <2>. QED
    BY <1>3, <1>4, <2>3
<1>7. Padded(part, n) = part
  <2> HIDE DEF part
  <2>. QED
    BY <1>4, <1>6, PaddedFacts
<1>8. SubSeq(xbd.result, 1, mp.datanext) \o part = SubSeq(xbd.result, 1, mp.datanext + n)
  <2>1. /\ 1 \in 1..(Len(xbd.result) + 1) /\ mp.datanext \in (1 - 1)..Len(xbd.result)
        /\ mp.datanext + n \in mp.datanext..Len(xbd.result)
    BY <1>1, <1>3, <1>4
  <2>. QED
    BY <1>3, <2>1, ConcatAdjacentSubSeq
<1>9. xbd.ans.data = part /\ xbd.ans.num = mp.seqn
  <2> HIDE DEF part
  <2>. QED
    BY <1>5 DEF Packet
<1>10. mp.datanext + n + (mp.dataleft - n) = Len(xbd.result)
  BY <1>1, <1>3, <1>4
<1> HIDE DEF part
<1>. QED
  BY <1>1, <1>5, <1>7, <1>8, <1>9, <1>10 DEF part

LEMMA ReceiveResultKeeps ==
    ASSUME IInv, ReceiveResult
    PROVE  IInv'
<1>1. PICK r \in Received(buf, "long") : Reads(r, buf, "long") /\ UploadAnswered(r.got)
  BY DEF ReceiveResult, xbdReceive, Reads
<1>2. op.cmd = "urr" /\ cmdbuf.cmd = "rdr" /\ step = "recv" /\ Uploading
  BY DEF ReceiveResult, xbdReceive, Uploading, Active
<1>3. /\ buf \in Buffers /\ "long" \in Sizes \ {"torn"} /\ xbd \in XbdStates /\ mp \in MpStates
      /\ answer \in Seq(Bytes) /\ Len(answer) <= ReplyMax /\ AnswerMax \in Nat /\ ReplyMax \in Nat
  BY SizesAssumption DEF IInv, Types, BoardTypes, Sizes
<1> DEFINE out == r.got
           rec == RecSuccessive(mp, Contents(out.b), AnswerMax, answer, ReplyMax, "rdo")
           n == Lesser(AnswerMax, mp.dataleft)
           good == out.ret = 0 /\ rec.ret = 0
           ok == good /\ out.b.cmd = "rdo" /\ rec.mp.datanext > 0
           data == IF ok THEN SubSeq(rec.data, 1, rec.mp.datanext) ELSE <<>>
<1>4. /\ out.b \in Buffers /\ out.ret \in {0, -1}
      /\ xbd_comm = "I2C" /\ out.ret = 0 =>
           /\ out.b.cmd = xbd.ans.cmd
           /\ cut' = FALSE \/ buf = Blank => Contents(out.b) = xbd.ans
      /\ xbd_comm # "I2C" => out.b.cmd \in {buf.cmd, "ccf"}
      /\ BoardTypes' /\ xbd' \in XbdStates => Types' /\ Counted'
      /\ cut' \in BOOLEAN /\ (cut' = FALSE => cut = FALSE)
  BY <1>1, <1>3, ReadTypes
<1>5. /\ buf' = out.b /\ mp' = rec.mp /\ answer' = rec.data /\ pbuf' \in {pbuf, Blank}
      /\ UNCHANGED <<trys, xbd, xbd_comm>>
      /\ IF good /\ rec.mp.dataleft # 0 THEN SendNext(cmdbuf)
         ELSE Finish(ok, data) /\ UNCHANGED cmdbuf
  BY <1>1 DEF UploadAnswered, Reads
<1>6. Contents(out.b) \in Packets /\ Contents(out.b).cmd = out.b.cmd
  BY <1>4 DEF Buffers, Contents, Packet, Packets
<1>7. Len(answer) = mp.datanext /\ (xbd_comm # "I2C" => buf.cmd = "uro")
      /\ (xbd_comm = "I2C" => xbd.tx.datanext + xbd.tx.dataleft = Len(xbd.result))
  BY <1>2 DEF IInv, Collected
<1>8. /\ rec.mp \in MpStates /\ rec.data \in Seq(Bytes)
      /\ Len(rec.data) = rec.mp.datanext /\ Len(rec.data) <= ReplyMax
      /\ mp.dataleft = 0 => rec.ret = 0 /\ rec.mp = mp /\ rec.data = answer
      /\ rec.ret = 0 /\ mp.dataleft # 0 => Appended(rec, mp, Contents(out.b), n, answer, "rdo")
  <2>1. Outcome(rec, mp, Contents(out.b), n, answer, ReplyMax, "rdo")
    BY <1>3, <1>6, RecSuccessiveFacts
  <2> HIDE DEF rec, n
  <2>. QED
    BY <1>3, <1>7, <2>1 DEF Outcome
<1> HIDE DEF rec, n
<1>9. Announced'
  BY <1>5 DEF IInv, Announced
(* Of a good part, when no answer was read in part.                          *)
<1>10. ASSUME good, out.b.cmd = "rdo"
       PROVE  /\ xbd_comm = "I2C"
              /\ cut' = FALSE => /\ mp.dataleft # 0 /\ rec.mp = xbd.tx /\ xbd.ans.num # rec.mp.seqn
                                 /\ rec.data = SubSeq(xbd.result, 1, rec.mp.datanext)
                                 /\ rec.mp.datanext + rec.mp.dataleft = Len(xbd.result)
  <2>1. xbd_comm = "I2C"
    BY <1>4, <1>7, <1>10
  <2>2. SUFFICES ASSUME cut' = FALSE
                 PROVE  /\ mp.dataleft # 0 /\ rec.mp = xbd.tx /\ xbd.ans.num # rec.mp.seqn
                        /\ rec.data = SubSeq(xbd.result, 1, rec.mp.datanext)
                        /\ rec.mp.datanext + rec.mp.dataleft = Len(xbd.result)
    BY <2>1
  <2>3. cut = FALSE /\ Contents(out.b) = xbd.ans /\ xbd.ans.cmd = "rdo"
    BY <1>4, <1>10, <2>1, <2>2
  <2>4. mp.dataleft = 0 \/ xbd.ans.num = mp.seqn
    BY <1>8, <1>10, <2>3 DEF Appended
  <2>5. /\ mp.dataleft # 0 /\ xbd.ans.num = mp.seqn
        /\ xbd.tx = MpState(mp.seqn + 1, mp.datanext + n, mp.dataleft - n)
        /\ answer \o Padded(xbd.ans.data, n) = SubSeq(xbd.result, 1, mp.datanext + n)
        /\ mp.datanext + n + (mp.dataleft - n) = Len(xbd.result)
    BY <1>2, <2>1, <2>3, <2>4, PartFacts DEF n
  <2>6. /\ rec.mp = MpState(mp.seqn + 1, mp.datanext + n, mp.dataleft - n)
        /\ rec.data = answer \o Padded(xbd.ans.data, n)
    BY <1>8, <1>10, <2>3, <2>5 DEF Appended
  <2>7. rec.mp.seqn = mp.seqn + 1 /\ rec.mp.datanext = mp.datanext + n /\ rec.mp.dataleft = mp.dataleft - n
    BY <2>6 DEF MpState
  <2>8. mp.seqn # mp.seqn + 1
    BY <1>3 DEF MpStates
  <2>. QED
    BY <2>5, <2>6, <2>7, <2>8
<1>11. CASE good /\ rec.mp.dataleft # 0
  <2>1. cmdbuf' = cmdbuf /\ step' = "send" /\ op' = op /\ reply' = reply
    BY <1>5, <1>11 DEF SendNext
  <2>2. BoardTypes'
    BY <1>4, <1>5, <1>8, <2>1, InitialFacts DEF IInv, Types, BoardTypes
  <2>3. Places'
    BY <1>2, <1>5, <2>1 DEF IInv, Places, Active
  <2>4. Loading' /\ Awaited'
    BY <1>2, <2>1 DEF Loading, Awaited, Downloads, Modes, Queries
  <2>5. reply' = NoReply
    BY <1>2, <2>1 DEF IInv, Places
  <2>6. Truthful'
    BY <2>5, InitialFacts, Untold
  <2>7. out.b.cmd = "rdo"
    BY <1>6, <1>8, <1>11 DEF Appended
  <2>8. Collected'
    <3>1. Len(answer') = mp'.datanext /\ xbd_comm' = "I2C"
          /\ xbd'.tx.datanext + xbd'.tx.dataleft = Len(xbd'.result)
      BY <1>5, <1>7, <1>8, <1>10, <1>11, <2>7
    <3>2. ASSUME ~cut'
          PROVE  /\ mp'.datanext + mp'.dataleft = Len(xbd'.result)
                 /\ answer' = SubSeq(xbd'.result, 1, mp'.datanext) /\ Behind'
      <4>1. cut' = FALSE
        BY <1>4, <3>2
      <4>2. /\ rec.mp = xbd.tx /\ xbd.ans.num # rec.mp.seqn
            /\ rec.data = SubSeq(xbd.result, 1, rec.mp.datanext)
            /\ rec.mp.datanext + rec.mp.dataleft = Len(xbd.result)
        BY <1>10, <1>11, <2>7, <4>1
      <4>. QED
        BY <1>5, <1>11, <4>2 DEF Behind
    <3>. QED
      BY <3>1, <3>2 DEF Collected
  <2>. QED
    BY <1>3, <1>4, <1>5, <1>9, <2>2, <2>3, <2>4, <2>6, <2>8 DEF IInv
<1>12. CASE ~(good /\ rec.mp.dataleft # 0)
  <2>1. Finish(ok, data) /\ UNCHANGED cmdbuf
    BY <1>5, <1>12
  <2>2. ok \in BOOLEAN
    OBVIOUS
  <2>3. /\ op' = NoRequest /\ step' = "idle" /\ reply' = [req |-> op, ok |-> ok, data |-> data]
        /\ reply'.req \in Requests \cup {NoRequest} /\ reply'.ok \in BOOLEAN
        /\ Places' /\ Loading' /\ Collected' /\ Awaited'
    BY <2>1, <2>2, FinishFacts
  <2>4. BoardTypes'
    BY <1>4, <1>5, <1>8, <2>1, <2>3, InitialFacts DEF IInv, Types, BoardTypes
  <2>5. reply'.req.cmd = "urr" /\ (reply'.ok => ok) /\ reply'.data = data
    BY <1>2, <2>3
  <2>6. UploadExact'
    <3> SUFFICES ASSUME Answered("urr")', ~cut' PROVE reply'.data = xbd'.result
      BY DEF UploadExact
    <3>1. ok /\ cut' = FALSE
      BY <1>4, <2>5 DEF Answered
    <3>2. /\ rec.data = SubSeq(xbd.result, 1, rec.mp.datanext)
          /\ rec.mp.datanext + rec.mp.dataleft = Len(xbd.result)
      BY <1>10, <3>1
    <3>3. rec.mp.dataleft = 0 /\ rec.mp.datanext \in Nat /\ xbd.result \in Seq(Bytes) /\ Len(xbd.result) \in Nat
      BY <1>3, <1>8, <1>12, <3>1 DEF MpStates, XbdStates
    <3>4. rec.mp.datanext = Len(xbd.result)
      BY <3>2, <3>3
    <3>5. rec.data = xbd.result
      BY <3>2, <3>3, <3>4, SubSeqFull
    <3>6. data = SubSeq(xbd.result, 1, Len(xbd.result))
      BY <3>1, <3>4, <3>5
    <3>. QED
      BY <1>5, <2>5, <3>3, <3>6, SubSeqFull
  <2>7. DownloadArrived' /\ ExecutedOnce' /\ ModeReached' /\ AnswerFresh'
    BY <2>5 DEF DownloadArrived, ExecutedOnce, ModeReached, AnswerFresh, Answered, Queries
  <2>. QED
    BY <1>3, <1>4, <1>5, <1>9, <2>3, <2>4, <2>6, <2>7 DEF IInv, Truthful
<1>. QED
  BY <1>11, <1>12

LEMMA ReceiveModeKeeps ==
    ASSUME IInv, ReceiveMode
    PROVE  IInv'
<1>1. PICK r \in Received(buf, "code") : Reads(r, buf, "code") /\ ModeAnswered(r.got)
  BY DEF ReceiveMode, xbdReceive, Reads
<1>2. op.cmd \in Modes /\ step = "recv"
  BY DEF ReceiveMode, xbdReceive, Modes
<1>3. buf \in Buffers /\ "code" \in Sizes \ {"torn"} /\ xbd \in XbdStates /\ Offers(xbd) /\ op \in Requests
  BY <1>2 DEF IInv, Types, BoardTypes, Places, Announced, Sizes
<1> DEFINE out == r.got
           ok == Succeeded(out, IF op.cmd = "sar" THEN "AFo" ELSE "BLo")
<1>4. /\ out.b \in Buffers /\ out.ret \in {0, -1}
      /\ xbd_comm = "I2C" /\ out.ret = 0 => out.b.cmd = xbd.ans.cmd
      /\ BoardTypes' /\ xbd' \in XbdStates => Types' /\ Counted'
  BY <1>1, <1>3, ReadTypes
<1>5. buf' = out.b /\ UNCHANGED <<pbuf, mp, answer, xbd_comm, lost>>
  BY <1>1 DEF ModeAnswered, Reads
<1>6. CASE ok
  <2>1. Finish(TRUE, <<>>) /\ UNCHANGED <<cmdbuf, trys, xbd>>
    BY <1>1, <1>6 DEF ModeAnswered
  <2>2. /\ op' = NoRequest /\ step' = "idle" /\ reply' = [req |-> op, ok |-> TRUE, data |-> <<>>]
        /\ reply'.req \in Requests \cup {NoRequest} /\ reply'.ok \in BOOLEAN
        /\ Places' /\ Loading' /\ Collected' /\ Awaited'
    BY <2>1, FinishFacts
  <2>3. BoardTypes'
    BY <1>4, <1>5, <2>1, <2>2 DEF IInv, Types, BoardTypes
  <2>4. reply'.req.cmd = op.cmd
    BY <2>2
  <2>5. ModeReached'
    <3> SUFFICES ASSUME Connected'
                 PROVE  xbd.mode = IF op.cmd = "sar" THEN "AF" ELSE "BL"
      BY <1>2, <2>1, <2>4 DEF ModeReached, Answered, Modes
    <3>1. Connected /\ xbd_comm = "I2C"
      BY <1>5 DEF Connected
    <3>2. xbd.ans.cmd = IF op.cmd = "sar" THEN "AFo" ELSE "BLo"
      BY <1>4, <1>6, <3>1 DEF Succeeded
    <3>. QED
      BY <1>2, <3>1, <3>2 DEF IInv, Awaited
  <2>6. DownloadArrived' /\ UploadExact' /\ ExecutedOnce' /\ AnswerFresh'
    BY <1>2, <2>4 DEF DownloadArrived, UploadExact, ExecutedOnce, AnswerFresh, Answered, Modes, Queries
  <2>. QED
    BY <1>3, <1>4, <2>1, <2>2, <2>3, <2>5, <2>6 DEF IInv, Truthful, Announced
<1>7. CASE ~ok
  <2>1. /\ trys' = trys + 1 /\ xbd' = Reset(Reset(xbd, TRUE), FALSE)
        /\ IF trys' < 3
           THEN cmdbuf' = Packet(op.cmd, 0, <<>>) /\ step' = "start" /\ UNCHANGED <<op, reply>>
           ELSE Finish(FALSE, <<>>) /\ UNCHANGED cmdbuf
    BY <1>1, <1>7 DEF ModeAnswered
  <2>2. xbd' \in XbdStates /\ Offers(xbd')
    <3>1. Reset(xbd, TRUE) \in XbdStates /\ Offers(Reset(xbd, TRUE))
      BY <1>3, ResetFacts
    <3>. QED
      BY <2>1, <3>1, ResetFacts
  <2>3. trys' \in 0..3 /\ (trys' < 3 => trys' <= 2)
    <3>1. trys \in 0..3 /\ trys <= 2
      BY <1>2 DEF IInv, Types, BoardTypes, Places
    <3>. QED
      BY <2>1, <3>1
  <2>4. CASE trys' < 3
    <3>1. cmdbuf' = Packet(op.cmd, 0, <<>>) /\ step' = "start" /\ op' = op /\ reply' = reply
      BY <2>1, <2>4
    <3>2. cmdbuf' \in Packets /\ cmdbuf'.cmd = op.cmd
      <4>1. op.cmd \in Codes
        BY <1>2, CodesFacts DEF Modes
      <4>. QED
        BY <3>1, <4>1, InitialFacts DEF Packet, Packets
    <3>3. BoardTypes'
      BY <1>4, <1>5, <2>3, <3>1, <3>2 DEF IInv, Types, BoardTypes
    <3>4. reply' = NoReply
      BY <1>2, <3>1 DEF IInv, Places
    <3>5. Places'
      BY <1>2, <2>3, <2>4, <3>1, <3>2, <3>4 DEF IInv, Places, Active
    <3>6. Loading' /\ Collected' /\ Awaited'
      BY <1>2, <3>1 DEF Loading, Collected, Uploading, Awaited, Active, Downloads, Modes, Queries
    <3>7. Truthful'
      BY <3>4, InitialFacts, Untold
    <3>. QED
      BY <1>4, <2>2, <3>3, <3>5, <3>6, <3>7 DEF IInv, Announced
  <2>5. CASE ~(trys' < 3)
    <3>1. Finish(FALSE, <<>>) /\ UNCHANGED cmdbuf
      BY <2>1, <2>5
    <3>2. /\ op' = NoRequest /\ step' = "idle" /\ reply' = [req |-> op, ok |-> FALSE, data |-> <<>>]
          /\ reply'.req \in Requests \cup {NoRequest} /\ reply'.ok \in BOOLEAN
          /\ Places' /\ Loading' /\ Collected' /\ Awaited'
      BY <3>1, FinishFacts
    <3>3. BoardTypes'
      BY <1>4, <1>5, <2>3, <3>1, <3>2 DEF IInv, Types, BoardTypes
    <3>4. Truthful'
      BY <3>2, Untold
    <3>. QED
      BY <1>4, <2>2, <3>2, <3>3, <3>4 DEF IInv, Announced
  <2>. QED
    BY <2>4, <2>5
<1>. QED
  BY <1>6, <1>7

LEMMA ReceiveStatusKeeps ==
    ASSUME IInv, ReceiveStatus
    PROVE  IInv'
<1>1. PICK r \in Received(pbuf, "code") : Reads(r, pbuf, "code") /\ StatusAnswered(r.got)
  BY DEF ReceiveStatus, xbdReceive, Reads
<1>2. op.cmd = "str" /\ pbuf \in Buffers /\ "code" \in Sizes \ {"torn"} /\ xbd \in XbdStates
  BY DEF ReceiveStatus, IInv, Types, BoardTypes, Sizes
<1>3. r.got.b \in Buffers /\ (BoardTypes' /\ xbd' \in XbdStates => Types' /\ Counted')
  BY <1>1, <1>2, ReadTypes
<1>4. pbuf' = r.got.b /\ Finish(TRUE, <<r.got.b.cmd>>) /\ UNCHANGED <<cmdbuf, buf, mp, answer, trys, xbd, xbd_comm>>
  BY <1>1 DEF StatusAnswered, Reads
<1>5. /\ op' = NoRequest /\ step' = "idle" /\ reply' = [req |-> op, ok |-> TRUE, data |-> <<r.got.b.cmd>>]
      /\ reply'.req \in Requests \cup {NoRequest} /\ reply'.ok \in BOOLEAN
      /\ Places' /\ Loading' /\ Collected' /\ Awaited'
  BY <1>4, FinishFacts
<1>6. BoardTypes'
  BY <1>3, <1>4, <1>5 DEF IInv, Types, BoardTypes
<1>7. Truthful'
  BY <1>2, <1>5, Untold DEF Told, Queries
<1>. QED
  BY <1>2, <1>3, <1>4, <1>5, <1>6, <1>7 DEF IInv, Announced

----------------------------------------------------------------------------
(* Resets.                                                                   *)

LEMMA ReadStallsKeeps ==
    ASSUME IInv, ReadStalls
    PROVE  IInv'
<1>1. /\ step = "recv" /\ step' = "stuck" /\ faults < MaxFaults /\ faults' = faults + 1
      /\ op' = op /\ cmdbuf' = cmdbuf /\ buf' = buf /\ pbuf' = pbuf /\ mp' = mp /\ answer' = answer
      /\ trys' = trys /\ xbd_comm' = xbd_comm /\ reply' = reply /\ wd_count' = wd_count /\ g_inI2C' = g_inI2C
      /\ xbd' = xbd /\ cmds' = cmds /\ hits' = hits /\ lost' = lost /\ cut' = cut /\ before' = before
  BY DEF ReadStalls, statics
<1>2. Types'
  <2>1. faults' \in 0..MaxFaults
    BY <1>1, LinkBoundsAssumption DEF IInv, Types
  <2>2. BoardTypes'
    BY <1>1 DEF IInv, Types, BoardTypes
  <2>. QED
    BY <1>1, <2>1, <2>2 DEF IInv, Types
<1>3. Places' /\ Announced' /\ Counted'
  BY <1>1 DEF IInv, Places, Announced, Active, Counted
<1>4. Loading' /\ Collected'
  BY <1>1 DEF Loading, Collected, Uploading, Active
<1>5. Awaited'
  BY <1>1 DEF IInv, Awaited, Connected
<1>6. Truthful'
  BY <1>1 DEF IInv, Truthful, DownloadArrived, UploadExact, ExecutedOnce, ModeReached, AnswerFresh, Answered, Connected
<1>. QED
  BY <1>1, <1>2, <1>3, <1>4, <1>5, <1>6 DEF IInv

LEMMA SysCtlResetKeeps ==
    ASSUME IInv, SysCtlReset, wd_count' \in 0..2, g_inI2C' \in BOOLEAN, faults' \in 0..MaxFaults
    PROVE  IInv'
<1>1. /\ op' = NoRequest /\ reply' = NoReply /\ step' = "reset"
      /\ UNCHANGED <<cmdbuf, buf, pbuf, mp, answer, trys, xbd_comm, xbd, cmds, lost, cut, before>>
  BY DEF SysCtlReset
<1>2. Types'
  <2>1. BoardTypes'
    BY <1>1, InitialFacts DEF IInv, Types, BoardTypes
  <2>. QED
    BY <1>1, <2>1 DEF IInv, Types
<1>3. Places' /\ Loading' /\ Collected' /\ Awaited'
  BY <1>1, RestFacts
<1>4. Truthful'
  BY <1>1, InitialFacts, Untold
<1>. QED
  BY <1>1, <1>2, <1>3, <1>4 DEF IInv, Counted, Announced

LEMMA InTransferFacts ==
    ASSUME NEW in \in InTransfer
    PROVE  in \in BOOLEAN
BY DEF InTransfer

LEMMA WatchdogKeeps ==
    ASSUME IInv, watchdog_isr
    PROVE  IInv' /\ (wd_count' = 2 => hits' = 2)
<1>1. step # "reset" /\ step # "setup"
  BY DEF watchdog_isr, Up
<1>2. g_inI2C = FALSE /\ wd_count = hits /\ wd_count <= 1 /\ wd_count \in 0..2
  BY <1>1 DEF IInv, Types, Counted
<1>3. PICK in \in InTransfer :
        /\ hits' = IF in THEN hits + 1 ELSE 0
        /\ wd_count' = wd_next(in \/ g_inI2C)
        /\ IF wd_count' < 2
           THEN UNCHANGED <<task, g_inI2C, xbd, cmds, faults, lost, cut, before>>
           ELSE SysCtlReset /\ g_inI2C' = (in \/ g_inI2C) /\ UNCHANGED faults
  BY DEF watchdog_isr
<1>4. wd_count' = hits' /\ wd_count' \in 0..2
  <2>1. CASE in = TRUE
    <3>1. wd_count' = wd_count + 1 /\ hits' = hits + 1
      BY <1>3, <2>1 DEF wd_next
    <3>. QED
      BY <1>2, <3>1
  <2>2. CASE in = FALSE
    <3>1. wd_count' = 0 /\ hits' = 0
      BY <1>2, <1>3, <2>2 DEF wd_next
    <3>. QED
      BY <3>1
  <2>. QED
    BY <2>1, <2>2, InTransferFacts
<1>5. CASE wd_count' < 2
  <2>1. UNCHANGED <<task, g_inI2C, xbd, cmds, faults, lost, cut, before>>
    BY <1>3, <1>5
  <2>2. /\ op' = op /\ step' = step /\ cmdbuf' = cmdbuf /\ buf' = buf /\ pbuf' = pbuf /\ mp' = mp /\ answer' = answer
        /\ trys' = trys /\ xbd_comm' = xbd_comm /\ reply' = reply /\ g_inI2C' = g_inI2C /\ xbd' = xbd
        /\ cmds' = cmds /\ faults' = faults /\ lost' = lost /\ cut' = cut /\ before' = before
    BY <2>1 DEF task
  <2>3. Types'
    BY <1>4, <2>2 DEF IInv, Types, BoardTypes
  <2>4. Counted'
    BY <1>1, <1>2, <1>4, <1>5, <2>2 DEF Counted
  <2>5. Places' /\ Announced'
    BY <2>2 DEF IInv, Places, Announced, Active
  <2>6. Loading'
    BY <2>2 DEF IInv, Loading, Active, Connected, Store
  <2>7. Collected'
    BY <2>2 DEF IInv, Collected, Uploading, Active, Behind, Ahead, Part, PartSize
  <2>8. Awaited'
    BY <2>2 DEF IInv, Awaited, Connected
  <2>9. Truthful'
    BY <2>2 DEF IInv, Truthful, DownloadArrived, UploadExact, ExecutedOnce, ModeReached, AnswerFresh, Answered, Connected
  <2>. QED
    BY <1>4, <2>3, <2>4, <2>5, <2>6, <2>7, <2>8, <2>9 DEF IInv
<1>6. CASE ~(wd_count' < 2)
  <2>1. SysCtlReset /\ g_inI2C' = (in \/ g_inI2C) /\ faults' = faults
    BY <1>3, <1>6
  <2>2. g_inI2C' \in BOOLEAN
    BY <2>1
  <2>3. faults' \in 0..MaxFaults
    BY <2>1 DEF IInv, Types
  <2>. QED
    BY <1>4, <2>1, <2>2, <2>3, SysCtlResetKeeps
<1>. QED
  BY <1>5, <1>6

LEMMA XbhResetKeeps ==
    ASSUME IInv, xbh_reset
    PROVE  IInv'
<1>1. SysCtlReset /\ g_inI2C' \in BOOLEAN /\ wd_count' = wd_count /\ faults < MaxFaults /\ faults' = faults + 1
  BY InTransferFacts DEF xbh_reset
<1>2. wd_count' \in 0..2 /\ faults' \in 0..MaxFaults
  BY <1>1, LinkBoundsAssumption DEF IInv, Types
<1>. QED
  BY <1>1, <1>2, SysCtlResetKeeps

LEMMA BootKeeps ==
    ASSUME IInv, Boot
    PROVE  IInv'
<1>1. CASE ResetISR
  <2>1. /\ step = "reset" /\ step' = "setup"
        /\ cmdbuf' = NoPacket /\ buf' = Blank /\ pbuf' = Blank
        /\ mp' = MpState(0, 0, 0) /\ answer' = <<>> /\ trys' = 0 /\ xbd_comm' = "I2C"
        /\ wd_count' = 0 /\ g_inI2C' = FALSE /\ hits' = 0
        /\ UNCHANGED <<op, reply, xbd, cmds, faults, lost, cut, before>>
    BY <1>1 DEF ResetISR
  <2>2. op = NoRequest /\ reply = NoReply
    BY <2>1 DEF IInv, Places
  <2>3. BoardTypes'
    BY <2>1, InitialFacts, SizesAssumption DEF IInv, Types, BoardTypes
  <2>4. Types'
    <3>1. g_inI2C' \in BOOLEAN
      BY <2>1, Zenon
    <3>2. wd_count' \in 0..2
      BY <2>1
    <3>. QED
      BY <2>1, <2>3, <3>1, <3>2 DEF IInv, Types
  <2>5. Places' /\ Loading' /\ Collected' /\ Awaited'
    BY <2>1, <2>2, RestFacts
  <2>6. Truthful'
    BY <2>1, <2>2, InitialFacts, Untold
  <2>7. Counted'
    BY <2>1 DEF Counted
  <2>. QED
    BY <2>1, <2>4, <2>5, <2>6, <2>7 DEF IInv, Announced
<1>2. CASE HAL_setup
  <2>1. /\ step = "setup" /\ step' = "idle" /\ xbd' = Reset(Reset(xbd, TRUE), FALSE)
        /\ UNCHANGED <<op, cmdbuf, buf, pbuf, mp, answer, trys, xbd_comm, reply, statics, history>>
    BY <1>2 DEF HAL_setup
  <2>2. op = NoRequest /\ reply = NoReply /\ xbd \in XbdStates /\ Offers(xbd)
    BY <2>1 DEF IInv, Types, Places, Announced
  <2>3. xbd' \in XbdStates /\ Offers(xbd')
    <3>1. Reset(xbd, TRUE) \in XbdStates /\ Offers(Reset(xbd, TRUE))
      BY <2>2, ResetFacts
    <3>. QED
      BY <2>1, <3>1, ResetFacts
  <2>4. Types'
    <3>1. BoardTypes'
      BY <2>1 DEF IInv, Types, BoardTypes
    <3>. QED
      BY <2>1, <2>3, <3>1 DEF IInv, Types, statics, history
  <2>5. Places' /\ Loading' /\ Collected' /\ Awaited'
    BY <2>1, <2>2, RestFacts
  <2>6. Truthful'
    BY <2>1, <2>2, InitialFacts, Untold
  <2>7. Counted'
    BY <2>1 DEF IInv, Counted, statics, history
  <2>. QED
    BY <2>3, <2>4, <2>5, <2>6, <2>7 DEF IInv, Announced
<1>. QED
  BY <1>1, <1>2 DEF Boot

LEMMA StutterKeeps ==
    ASSUME IInv, UNCHANGED vars
    PROVE  IInv'
<1>1. /\ op' = op /\ step' = step /\ cmdbuf' = cmdbuf /\ buf' = buf /\ pbuf' = pbuf /\ mp' = mp /\ answer' = answer
      /\ trys' = trys /\ xbd_comm' = xbd_comm /\ reply' = reply /\ wd_count' = wd_count /\ g_inI2C' = g_inI2C
      /\ xbd' = xbd /\ cmds' = cmds /\ faults' = faults /\ hits' = hits /\ lost' = lost /\ cut' = cut /\ before' = before
  BY DEF vars, task, statics, history
<1>2. Types' /\ Counted'
  BY <1>1 DEF IInv, Types, BoardTypes, Counted
<1>3. Places' /\ Announced'
  BY <1>1 DEF IInv, Places, Announced, Active
<1>4. Loading'
  BY <1>1 DEF IInv, Loading, Active, Connected, Store
<1>5. Collected'
  BY <1>1 DEF IInv, Collected, Uploading, Active, Behind, Ahead, Part, PartSize
<1>6. Awaited'
  BY <1>1 DEF IInv, Awaited, Connected
<1>7. Truthful'
  BY <1>1 DEF IInv, Truthful, DownloadArrived, UploadExact, ExecutedOnce, ModeReached, AnswerFresh, Answered, Connected
<1>. QED
  BY <1>2, <1>3, <1>4, <1>5, <1>6, <1>7 DEF IInv

----------------------------------------------------------------------------
LEMMA Initially ==
    ASSUME Init
    PROVE  IInv
<1>1. BoardTypes
  <2>1. reply.req \in Requests \cup {NoRequest} /\ op \in Requests \cup {NoRequest}
    BY InitialFacts DEF Init
  <2>2. reply.ok \in BOOLEAN
    <3>1. reply.ok = FALSE
      BY InitialFacts DEF Init
    <3>. QED
      BY <3>1, Zenon
  <2>3. Len(answer) <= ReplyMax /\ answer \in Seq(Bytes) /\ trys \in 0..3
    BY InitialFacts, SizesAssumption DEF Init
  <2>. QED
    BY <2>1, <2>2, <2>3, InitialFacts DEF Init, BoardTypes
<1>2. xbd \in XbdStates /\ xbd.ans = NoPacket /\ NoPacket.cmd = "none"
  <2>1. NoPacket \in Packets /\ NoPacket.cmd = "none" /\ <<>> \in Seq(Bytes) /\ MpState(0, 0, 0) \in MpStates
    BY InitialFacts DEF NoPacket, Packet
  <2> HIDE DEF NoPacket
  <2>. QED
    BY <2>1 DEF Init, XbdStates
<1>3. Types
  <2>1. g_inI2C \in BOOLEAN /\ lost \in BOOLEAN /\ cut \in BOOLEAN
    BY Zenon DEF Init
  <2>2. wd_count \in 0..2 /\ cmds \in 0..MaxCmds /\ faults \in 0..MaxFaults /\ before \in Nat
    BY LinkBoundsAssumption DEF Init
  <2>. QED
    BY <1>1, <1>2, <2>1, <2>2 DEF Types
<1>4. op.cmd = "none" /\ op = NoRequest /\ step = "idle" /\ reply = NoReply
  BY InitialFacts DEF Init
<1>5. Places /\ Loading /\ Collected /\ Awaited
  BY <1>4 DEF Places, Loading, Collected, Uploading, Awaited, Active, Modes, Downloads, Queries
<1>6. Counted /\ Announced
  BY <1>2 DEF Init, Counted, Announced, Offers
<1>7. Truthful
  BY <1>4, InitialFacts DEF Truthful, DownloadArrived, UploadExact, ExecutedOnce, ModeReached, AnswerFresh, Answered
<1>. QED
  BY <1>3, <1>5, <1>6, <1>7 DEF IInv

LEMMA Kept ==
    ASSUME IInv, [Next]_vars
    PROVE  IInv'
<1>1. \/ ReceiveSingle \/ ReceiveDownload \/ ReceiveAnnouncement \/ ReceiveResult \/ ReceiveMode \/ ReceiveStatus
      \/ Begin \/ Send \/ SendStart \/ ReadStalls \/ watchdog_isr \/ xbh_reset \/ Boot \/ UNCHANGED vars
  BY DEF Next, Receive
<1>. QED
  BY <1>1, BeginKeeps, SendKeeps, SendStartKeeps, ReceiveSingleKeeps, ReceiveDownloadKeeps, ReceiveAnnouncementKeeps,
     ReceiveResultKeeps, ReceiveModeKeeps, ReceiveStatusKeeps, ReadStallsKeeps, WatchdogKeeps, XbhResetKeeps, BootKeeps, StutterKeeps

(* What the answers rest on holds always.                                    *)
THEOREM Invariance == Spec => []IInv
BY Initially, Kept, PTL DEF Spec

(* The variables keep their types, and an upload never puts more into the    *)
(* reply (p_answer of XBH_HandleUploadResultsRequest) than it holds.         *)
THEOREM TypeCorrect == Spec => []TypeOK
<1>1. IInv => TypeOK
  <2> SUFFICES ASSUME IInv PROVE TypeOK
    OBVIOUS
  <2>1. mp \in States /\ cmdbuf.cmd \in Codes
    BY DEF IInv, Types, BoardTypes, MpStates, States, Packets
  <2>. QED
    BY <2>1 DEF IInv, Types, BoardTypes, Places, TypeOK
<1>. QED
  BY <1>1, Invariance, PTL

(* A download answered with cdo or dpo (XBH_HandleCodeDownloadRequest,       *)
(* XBH_HandleDownloadParametersRequest) is in the XBD as the PC sent it, if  *)
(* no packet of it was lost without trace.                                   *)
THEOREM DownloadsArrive == Spec => []DownloadArrived
<1>1. IInv => DownloadArrived
  BY DEF IInv, Truthful
<1>. QED
  BY <1>1, Invariance, PTL

(* An upload answered with uro (XBH_HandleUploadResultsRequest) is the XBD's *)
(* result, complete and in order, if no answer to it was read in part:       *)
(* whatever requests were lost, whatever came garbled, whatever earlier      *)
(* commands left in XBDResponseBuf and p_answer.                             *)
THEOREM UploadsExact == Spec => []UploadExact
<1>1. IInv => UploadExact
  BY DEF IInv, Truthful
<1>. QED
  BY <1>1, Invariance, PTL

(* An execution answered with exo (XBH_HandleEXecutionRequest) took place    *)
(* once, if its packet was not lost without trace.                           *)
THEOREM ExecutedExactlyOnce == Spec => []ExecutedOnce
<1>1. IInv => ExecutedOnce
  BY DEF IInv, Truthful
<1>. QED
  BY <1>1, Invariance, PTL

(* A mode change answered with sao or sbo                                    *)
(* (XBH_HandleStartApplicationRequest, XBH_HandleStartBootloaderRequest)     *)
(* took place, after however many tries and resets of the XBD, if no packet  *)
(* of it was lost without trace.                                             *)
THEOREM ModesReached == Spec => []ModeReached
<1>1. IInv => ModeReached
  BY DEF IInv, Truthful
<1>. QED
  BY <1>1, Invariance, PTL

(* A number the XBD is asked for (XBH_HandleTimingCalibrationRequest,        *)
(* XBH_HandleStackUsageRequest, XBH_HandleTargetRevisionRequest) reaches the *)
(* PC as it is, never as an earlier answer left it in XBDResponseBuf, if the *)
(* question was not lost without trace.                                      *)
THEOREM AnswersFresh == Spec => []AnswerFresh
<1>1. IInv => AnswerFresh
  BY DEF IInv, Truthful
<1>. QED
  BY <1>1, Invariance, PTL

(* watchdog_isr resets the board only after two interrupts in a row, both    *)
(* since the board last started, that came during transfers.                 *)
THEOREM ResetsEarned == Spec => ResetEarned
<1>1. ASSUME IInv, [Next]_vars PROVE [wd_count' = 2 => hits' = 2]_wd_count
  <2>1. CASE watchdog_isr
    BY <1>1, <2>1, WatchdogKeeps
  <2>2. CASE ResetISR
    BY <2>2 DEF ResetISR
  <2>3. CASE Begin
    <3>1. Called
      BY <2>3 DEF Begin, BeginSingle, BeginDownload, BeginUpload, BeginMode, BeginStatus, ResetControl,
                  SetCommunication, AnswerLocal, AnswerUnknown
    <3>. QED
      BY <3>1 DEF Called, statics
  <2>4. CASE Send \/ SendStart \/ ReadStalls \/ HAL_setup \/ xbh_reset
    BY <2>4 DEF Send, SendStart, ReadStalls, HAL_setup, xbh_reset, statics
  <2>5. CASE Receive
    BY <2>5 DEF Receive, ReceiveSingle, ReceiveDownload, ReceiveAnnouncement, ReceiveResult, ReceiveMode, ReceiveStatus,
                xbdReceive, statics
  <2>6. CASE UNCHANGED vars
    BY <2>6 DEF vars, statics
  <2>. QED
    BY <1>1, <2>1, <2>2, <2>3, <2>4, <2>5, <2>6 DEF Next, Boot
<1>. QED
  BY <1>1, Invariance, PTL DEF Spec, ResetEarned
=============================================================================
