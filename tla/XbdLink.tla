------------------------------- MODULE XbdLink -------------------------------
(* What the command handler does with the XBD (xbh.c): one command of the PC *)
(* at a time becomes packets to the XBD over I2C (xbh_xbdcomm.c, i2c_comm.c) *)
(* and answers read back.  Packets and answers can be lost or garbled, the   *)
(* XBD can stop, and the watchdog (watchdog.c) resets the board.             *)
(*                                                                           *)
(* The XBD is not part of the source.  It is modelled as the other end of    *)
(* the same protocol: it takes packets apart with xbd_multipacket.c, answers *)
(* with the codes the board looks for, and serves its last answer again when *)
(* it is read without having been given a new request.                       *)
EXTENDS MultiPacket, Board, FiniteSets

CONSTANTS
    Requests,       \* commands a PC may send: [cmd |-> code, arg |-> its argument]
    Results,        \* what a computation on the XBD may leave to be uploaded
    SendMax,        \* data in one packet to the XBD (138 bytes)
    AnswerMax,      \* data in one answer of the XBD (34 bytes)
    ReplyMax,       \* data in a reply to the PC (2992 bytes)
    Watchdog,       \* FALSE: built with DISABLE_WATCHDOG, as the Makefile does
    XbdMayHang,     \* a computation may crash the XBD
    MaxCmds,        \* bound: commands of the PC
    MaxFaults       \* bound: transfers that go wrong

ASSUME SizesAssumption == {SendMax, AnswerMax, ReplyMax} \subseteq Nat \ {0}
ASSUME SwitchesAssumption == {Watchdog, XbdMayHang} \subseteq BOOLEAN
ASSUME LinkBoundsAssumption == {MaxCmds, MaxFaults} \subseteq Nat

(* The requests a PC may make (xbh_prot.h).                                  *)
XBH_CMD == {"cdr", "exr", "ccr", "str", "rcr", "sar", "sbr", "dpr", "urr", "rpr", "pwr", "pgr",
            "scr", "sur", "tcr", "srr", "trr", "lor"}

(* Commands to the XBD, its answers, and what the board puts for an answer   *)
(* whose checksum is wrong.                                                  *)
XBD_CMD == {"pfr", "exr", "fdr", "sar", "sbr", "vir", "ppr", "pdr", "urr", "rdr", "ccr", "tcr", "sur", "trr"}
           \cup {"pfo", "fdo", "ppo", "pdo", "exo", "uro", "rdo", "cco", "tco", "suo", "tro"}
           \cup {"ccf", "BLo", "AFo"}

(* What a byte of a transfer may be.                                         *)
Bytes == STRING \cup {Junk}

ASSUME RequestsAssumption ==
    \A r \in Requests :
        /\ DOMAIN r = {"cmd", "arg"} /\ r.cmd \in XBH_CMD
        /\ r.cmd \in {"cdr", "dpr"} => r.arg \in Seq(Bytes)
ASSUME ResultsAssumption == Results \subseteq Seq(Bytes)

VARIABLES
    op,             \* the request XBH_handle works on, or NoRequest
    step,           \* where it is: "idle", "start", "send", "recv", "print", or
                    \* "stuck" in a read that gets no further byte; or, after a reset, how far the board is: "reset", "setup"
    cmdbuf,         \* XBDCommandBuf
    buf,            \* XBDResponseBuf
    pbuf,           \* p_answer, as far as a status answer lies in it
    mp,             \* struct xbd_multipkt_state of the transfer
    answer,         \* upload data put into p_answer
    trys,           \* tries of a mode change
    xbd_comm,       \* transport selected: "I2C", or one that is not implemented
    reply,          \* what the last command came to
    wd_count,       \* watchdog interrupts in a row that found g_inI2C set
    g_inI2C,        \* as the last transfer, or a reset during one, left it
    xbd,            \* the XBD
    cmds, faults,   \* counted against the bounds
    hits,           \* history: watchdog interrupts in a row, since the last
                    \* restart, that came during a transfer
    lost,           \* history: an I2C write of this command went unanswered
    cut,            \* history: an answer to this command was read in part
    before          \* history: computations of the XBD before this command

task == <<op, step, cmdbuf, buf, pbuf, mp, answer, trys, xbd_comm, reply>>
statics == <<wd_count, g_inI2C>>
history == <<cmds, faults, hits, lost, cut, before>>
vars == <<task, statics, xbd, history>>

NoRequest == [cmd |-> "none", arg |-> <<>>]
NoReply == [req |-> NoRequest, ok |-> FALSE, data |-> <<>>]

(* Commands to the XBD and the code of the answer that means success.  The   *)
(* board expects the same code for pfr and for fdr.                          *)
OkCode == [exr |-> "exo", ccr |-> "cco", tcr |-> "tco", sur |-> "suo", trr |-> "tro",
           pfr |-> "pfo", fdr |-> "pfo", ppr |-> "ppo", pdr |-> "pdo",
           urr |-> "uro", rdr |-> "rdo"]
Queries == {"tcr", "sur", "trr"}          \* answered with data of a fixed length
Single == {"exr", "ccr"} \cup Queries     \* one packet, one answer
Downloads == {"cdr", "dpr"}
First(cmd) == IF cmd = "cdr" THEN "pfr" ELSE "ppr"
Following(cmd) == IF cmd = "cdr" THEN "fdr" ELSE "pdr"

(* The length of an answer, and the length xbdReceive is asked for.          *)
SizeOf(code) == CASE code \in {"uro", "rdo"} -> "long"
                  [] code \in {"tco", "suo"} -> "number"
                  [] code = "tro" -> "revision"
                  [] OTHER -> "code"
Asked(cmd) == IF cmd \in DOMAIN OkCode THEN SizeOf(OkCode[cmd]) ELSE "code"

(* A receive buffer: the command code, which is the first burst of a read,   *)
(* what follows it, and the checksum after `size` bytes, named by the packet *)
(* it is the checksum of.                                                    *)
Image(pkt) == [cmd |-> pkt.cmd, num |-> pkt.num, data |-> pkt.data,
               size |-> SizeOf(pkt.cmd), crc |-> pkt]
NoPacket == Packet("none", 0, <<>>)
Blank == [Image(NoPacket) EXCEPT !.size = "torn"]
Contents(b) == Packet(b.cmd, b.num, b.data)
CrcRight(b, size) == b.size = size /\ b.crc = Contents(b)

----------------------------------------------------------------------------
(* The XBD.                                                                  *)

Booted(x) == [x EXCEPT !.up = "run", !.mode = "BL", !.rx = MpState(0, 0, 0), !.tx = MpState(0, 0, 0),
                       !.params = <<>>, !.result = <<>>, !.ans = NoPacket]

(* xbd_reset(value): the pin is low while value is true.                     *)
Reset(x, value) ==
    IF value THEN [x EXCEPT !.up = "held"]
    ELSE IF x.up = "held" THEN Booted(x) ELSE x

Says(x, code) == [x EXCEPT !.ans = Packet(code, 0, <<>>)]

(* It takes the first packet of a download, or one of the others.            *)
TakesFirst(x, pkt, store) ==
    [x EXCEPT ![store] = <<>>, !.rx = RecInitial(x.rx, pkt, pkt.cmd).mp,
              !.ans = Packet(OkCode[pkt.cmd], 0, <<>>)]

TakesNext(x, pkt, store) ==
    LET got == RecSuccessive(x.rx, pkt, Len(pkt.data), x[store], 1000, pkt.cmd)
    IN  [x EXCEPT ![store] = got.data, !.rx = got.mp,
                  !.ans = Packet(IF got.ret = 0 THEN OkCode[pkt.cmd] ELSE "bad", 0, <<>>)]

OffersResult(x) ==
    LET gen == GenInitial(Len(x.result), "uro")
    IN  [x EXCEPT !.tx = gen.mp, !.ans = gen.pkt]

OffersNext(x) ==
    LET gen == GenSuccessive(x.tx, x.result, AnswerMax, "rdo")
    IN  IF x.tx.dataleft = 0 THEN x ELSE [x EXCEPT !.tx = gen.mp, !.ans = gen.pkt]

(* What a packet that reaches it makes of x.                                 *)
Takes(x, pkt, y) ==
    \/ pkt.cmd \in {"pfr", "ppr"} /\ y = TakesFirst(x, pkt, IF pkt.cmd = "pfr" THEN "code" ELSE "params")
    \/ pkt.cmd \in {"fdr", "pdr"} /\ y = TakesNext(x, pkt, IF pkt.cmd = "fdr" THEN "code" ELSE "params")
    \/ pkt.cmd = "urr" /\ y = OffersResult(x)
    \/ pkt.cmd = "rdr" /\ y = OffersNext(x)
    \/ pkt.cmd = "exr" /\ \E r \in Results : y = [Says(x, "exo") EXCEPT !.runs = @ + 1, !.result = r]
    \/ pkt.cmd = "exr" /\ XbdMayHang /\ y = [x EXCEPT !.up = "hung", !.runs = @ + 1]
    \/ pkt.cmd = "ccr" /\ y = Says(x, "cco")
    \/ pkt.cmd \in Queries /\ y = [x EXCEPT !.ans = Packet(OkCode[pkt.cmd], x.runs, <<>>)]
    \/ pkt.cmd = "sar" /\ y = [x EXCEPT !.mode = "AF"]
    \/ pkt.cmd = "sbr" /\ y = [x EXCEPT !.mode = "BL"]
    \/ pkt.cmd = "vir" /\ y = Says(x, IF x.mode = "AF" THEN "AFo" ELSE "BLo")

----------------------------------------------------------------------------
Init ==
    /\ op = NoRequest /\ step = "idle" /\ reply = NoReply
    /\ cmdbuf = NoPacket /\ buf = Blank /\ pbuf = Blank
    /\ mp = MpState(0, 0, 0) /\ answer = <<>> /\ trys = 0
    /\ xbd_comm = "I2C" /\ wd_count = 0 /\ g_inI2C = FALSE
    /\ xbd = [up |-> "run", mode |-> "BL", rx |-> MpState(0, 0, 0), tx |-> MpState(0, 0, 0),
              code |-> <<>>, params |-> <<>>, result |-> <<>>, runs |-> 0, ans |-> NoPacket]
    /\ cmds = 0 /\ faults = 0 /\ hits = 0 /\ lost = FALSE /\ cut = FALSE /\ before = 0

(* XBH_handle is called with a command: commands that need the XBD prepare   *)
(* their first packet, the others are answered at once.                      *)
Called ==
    /\ step = "idle"
    /\ cmds < MaxCmds
    /\ cmds' = cmds + 1
    /\ lost' = FALSE /\ cut' = FALSE
    /\ before' = xbd.runs
    /\ UNCHANGED <<faults, hits, statics>>

Begins(r, pkt, at) ==
    /\ op' = r /\ reply' = NoReply
    /\ cmdbuf' = pkt /\ step' = at

AnsweredAtOnce(r, ok) ==
    /\ reply' = [req |-> r, ok |-> ok, data |-> <<>>]
    /\ UNCHANGED <<op, step, cmdbuf, buf, mp, answer, trys>>

BeginSingle(r) ==
    /\ r.cmd \in Single
    /\ Called
    /\ Begins(r, Packet(r.cmd, 0, <<>>), "send")
    /\ buf' = IF r.cmd \in Queries THEN Blank ELSE buf
    /\ UNCHANGED <<pbuf, mp, answer, trys, xbd_comm, xbd>>

BeginDownload(r) ==
    /\ r.cmd \in Downloads
    /\ Called
    /\ LET gen == GenInitial(Len(r.arg), First(r.cmd))
       IN  Begins(r, gen.pkt, "send") /\ mp' = gen.mp
    /\ UNCHANGED <<buf, pbuf, answer, trys, xbd_comm, xbd>>

BeginUpload(r) ==
    /\ r.cmd = "urr"
    /\ Called
    /\ Begins(r, Packet("urr", 0, <<>>), "send")
    /\ UNCHANGED <<buf, pbuf, mp, answer, trys, xbd_comm, xbd>>

BeginMode(r) ==
    /\ r.cmd \in {"sar", "sbr"}
    /\ Called
    /\ Begins(r, Packet(r.cmd, 0, <<>>), "start")
    /\ trys' = 0
    /\ UNCHANGED <<buf, pbuf, mp, answer, xbd_comm, xbd>>

BeginStatus(r) ==
    /\ r.cmd = "str"
    /\ Called
    /\ Begins(r, Packet("vir", 0, <<>>), "send")
    /\ UNCHANGED <<buf, pbuf, mp, answer, trys, xbd_comm, xbd>>

(* Reset control: 'y' holds the XBD in reset, 'n' lets it go.                *)
ResetControl(r) ==
    /\ r.cmd = "rcr"
    /\ Called
    /\ xbd' = IF r.arg \in {"y", "n"} THEN Reset(xbd, r.arg = "y") ELSE xbd
    /\ AnsweredAtOnce(r, r.arg \in {"y", "n"})
    /\ UNCHANGED <<pbuf, xbd_comm>>

(* Only I2C is implemented, but every transport can be selected.             *)
SetCommunication(r) ==
    /\ r.cmd = "scr"
    /\ Called
    /\ xbd_comm' = CASE r.arg = "I" -> "I2C" [] r.arg \in {"U", "O", "E"} -> "none" [] OTHER -> xbd_comm
    /\ AnsweredAtOnce(r, r.arg \in {"I", "U", "O", "E"})
    /\ UNCHANGED <<pbuf, xbd>>

(* Revision, timestamps and power are the board's own; they are written to   *)
(* p_answer.  The gain is set, with nothing to write.                        *)
Local == {"srr", "rpr", "pwr", "pgr"}

AnswerLocal(r) ==
    /\ r.cmd \in Local
    /\ Called
    /\ pbuf' = IF r.cmd = "pgr" THEN pbuf ELSE Blank
    /\ AnsweredAtOnce(r, TRUE)
    /\ UNCHANGED <<xbd_comm, xbd>>

(* Any other command, of length arg, is answered as unknown once its bytes   *)
(* have been printed; the counter of that loop has eight bits.               *)
PrintEnds(input_len) == input_len < 2^8

AnswerUnknown(r) ==
    /\ r.cmd \notin Single \cup Downloads \cup Local \cup {"urr", "sar", "sbr", "str", "rcr", "scr"}
    /\ Called
    /\ IF PrintEnds(r.arg)
       THEN AnsweredAtOnce(r, FALSE)
       ELSE Begins(r, cmdbuf, "print") /\ UNCHANGED <<buf, mp, answer, trys>>
    /\ UNCHANGED <<pbuf, xbd_comm, xbd>>

Begin ==
    \E r \in Requests :
        \/ BeginSingle(r) \/ BeginDownload(r) \/ BeginUpload(r) \/ BeginMode(r)
        \/ BeginStatus(r) \/ ResetControl(r) \/ SetCommunication(r) \/ AnswerLocal(r)
        \/ AnswerUnknown(r)

----------------------------------------------------------------------------
(* xbdSend.  The result of the I2C write is not looked at: a packet may be   *)
(* lost, and then nothing has changed, or garbled, and then the XBD answers  *)
(* that its checksum is wrong.  A transport other than I2C sends nothing.    *)

Delivered == xbd_comm = "I2C" /\ xbd.up = "run" /\ Takes(xbd, cmdbuf, xbd') /\ UNCHANGED <<lost, faults>>
NoTransport == xbd_comm # "I2C" /\ UNCHANGED <<xbd, lost, faults>>
Refused == xbd_comm = "I2C" /\ xbd.up # "run" /\ lost' = TRUE /\ UNCHANGED <<xbd, faults>>
Lost ==
    /\ xbd_comm = "I2C" /\ xbd.up = "run"
    /\ faults < MaxFaults /\ faults' = faults + 1
    /\ lost' = TRUE
    /\ UNCHANGED xbd
Garbled ==
    /\ xbd_comm = "I2C" /\ xbd.up = "run"
    /\ faults < MaxFaults /\ faults' = faults + 1
    /\ xbd' = Says(xbd, "ccf")
    /\ UNCHANGED lost

xbdSend == Delivered \/ NoTransport \/ Refused \/ Lost \/ Garbled

Send ==
    /\ step = "send"
    /\ xbdSend
    /\ step' = "recv"
    /\ UNCHANGED <<op, cmdbuf, buf, pbuf, mp, answer, trys, xbd_comm, reply, statics, cmds, hits, cut, before>>

(* A mode change is not answered; half a second later the XBD is asked which *)
(* mode it is in.                                                            *)
SendStart ==
    /\ step = "start"
    /\ xbdSend
    /\ step' = "send"
    /\ cmdbuf' = Packet("vir", 0, <<>>)
    /\ UNCHANGED <<op, buf, pbuf, mp, answer, trys, xbd_comm, reply, statics, cmds, hits, cut, before>>

----------------------------------------------------------------------------
(* xbdReceive into buffer b.  What i2c_read leaves in it: the answer; after  *)
(* an error part of it, in bursts from the front, and what was there; or     *)
(* bytes garbled on the way.  Its result is only logged; the checksum        *)
(* decides.  A transport other than I2C reads nothing.                       *)

Clean(b, size) == IF SizeOf(xbd.ans.cmd) = size THEN Image(xbd.ans)
                  ELSE [Image(xbd.ans) EXCEPT !.size = "torn"]
Cut(b, size) == {[b EXCEPT !.cmd = xbd.ans.cmd]}
                \cup (IF size = "long" THEN {[b EXCEPT !.cmd = xbd.ans.cmd, !.num = xbd.ans.num]} ELSE {})

LeftBy(b, size) ==
    IF xbd_comm # "I2C" THEN {[b |-> b, cost |-> 0, cut |-> FALSE]}
    ELSE {[b |-> Clean(b, size), cost |-> 0, cut |-> FALSE], [b |-> Blank, cost |-> 1, cut |-> FALSE]}
         \cup {[b |-> c, cost |-> 1, cut |-> TRUE] : c \in Cut(b, size)}

(* Mutation: what was read is taken for what was sent.                       *)
CheckCrcNot(b, size) == [b |-> b, ret |-> 0]

CheckCrc(b, size) ==
    IF CrcRight(b, size) THEN [b |-> b, ret |-> 0] ELSE [b |-> [b EXCEPT !.cmd = "ccf"], ret |-> -1]

Received(b, size) ==
    {[got |-> CheckCrc(left.b, size), cost |-> left.cost, cut |-> left.cut] : left \in LeftBy(b, size)}

(* One call: the buffer and the result it returns.  With an XBD that does    *)
(* not answer, i2c_read waits for a byte for ever.                           *)
xbdReceive(b, size, Then(_)) ==
    /\ step = "recv"
    /\ xbd_comm = "I2C" => xbd.up = "run"
    /\ \E r \in Received(b, size) :
        /\ faults + r.cost <= MaxFaults
        /\ faults' = faults + r.cost
        /\ cut' = (cut \/ r.cut)
        /\ Then(r.got)
    /\ UNCHANGED <<xbd_comm, statics, cmds, hits, lost, before>>

(* Mutation: any answer without an error is the right one.                   *)
SucceededAny(out, code) == out.ret = 0

Succeeded(out, code) == out.b.cmd = code /\ out.ret = 0

Finish(ok, data) ==
    /\ op' = NoRequest
    /\ step' = "idle"
    /\ reply' = [req |-> op, ok |-> ok, data |-> data]

SendNext(pkt) ==
    /\ cmdbuf' = pkt
    /\ step' = "send"
    /\ UNCHANGED <<op, reply>>

(* XBH_HandleEXecutionRequest, ChecksumCalc, TimingCalibration, StackUsage   *)
(* and TargetRevision.                                                       *)
SingleAnswered(out) ==
    LET ok == Succeeded(out, OkCode[op.cmd])
        copied == ok /\ op.cmd \in Queries
    IN  /\ buf' = out.b
        /\ Finish(ok, IF copied THEN <<out.b.num>> ELSE <<>>)
        /\ pbuf' = IF copied THEN Blank ELSE pbuf
        /\ UNCHANGED <<cmdbuf, mp, answer, trys, xbd>>

ReceiveSingle == op.cmd \in Single /\ xbdReceive(buf, Asked(op.cmd), SingleAnswered)

(* XBH_HandleCodeDownloadRequest and XBH_HandleDownloadParametersRequest.    *)
DownloadAnswered(out) ==
    LET ok == Succeeded(out, OkCode[cmdbuf.cmd])
        gen == GenSuccessive(mp, op.arg, SendMax, Following(op.cmd))
    IN  /\ buf' = out.b
        /\ \/ ~ok /\ Finish(FALSE, <<>>) /\ UNCHANGED <<cmdbuf, mp>>
           \/ ok /\ mp.dataleft = 0 /\ Finish(TRUE, <<>>) /\ UNCHANGED <<cmdbuf, mp>>
           \/ ok /\ mp.dataleft # 0 /\ SendNext(gen.pkt) /\ mp' = gen.mp
        /\ UNCHANGED <<pbuf, answer, trys, xbd>>

ReceiveDownload == op.cmd \in Downloads /\ xbdReceive(buf, "code", DownloadAnswered)

(* XBH_HandleUploadResultsRequest: the initial packet, then the others.  The *)
(* upload is good when a positive length comes out.                          *)
UploadAnnounced(out) ==
    LET init == RecInitial(mp, Contents(out.b), "uro")
        ok == out.ret = 0 /\ init.ret = 0
    IN  /\ buf' = out.b
        /\ mp' = init.mp
        /\ answer' = <<>>
        /\ IF ok THEN SendNext(Packet("rdr", 0, <<>>)) ELSE Finish(FALSE, <<>>) /\ UNCHANGED cmdbuf
        /\ UNCHANGED <<pbuf, trys, xbd>>

UploadAnswered(out) ==
    LET rec == RecSuccessive(mp, Contents(out.b), AnswerMax, answer, ReplyMax, "rdo")
        good == out.ret = 0 /\ rec.ret = 0
        ok == good /\ out.b.cmd = "rdo" /\ rec.mp.datanext > 0
    IN  /\ buf' = out.b
        /\ mp' = rec.mp
        /\ answer' = rec.data
        /\ pbuf' = IF rec.data = answer THEN pbuf ELSE Blank
        /\ IF good /\ rec.mp.dataleft # 0 THEN SendNext(cmdbuf)
           ELSE Finish(ok, IF ok THEN SubSeq(rec.data, 1, rec.mp.datanext) ELSE <<>>) /\ UNCHANGED cmdbuf
        /\ UNCHANGED <<trys, xbd>>

ReceiveAnnouncement == op.cmd = "urr" /\ cmdbuf.cmd = "urr" /\ xbdReceive(buf, "long", UploadAnnounced)
ReceiveResult == op.cmd = "urr" /\ cmdbuf.cmd = "rdr" /\ xbdReceive(buf, "long", UploadAnswered)

(* XBH_HandleStartApplicationRequest and XBH_HandleStartBootloaderRequest:   *)
(* three tries, with a reset of the XBD after each one that failed.          *)
ModeAnswered(out) ==
    LET ok == Succeeded(out, IF op.cmd = "sar" THEN "AFo" ELSE "BLo")
    IN  /\ buf' = out.b
        /\ \/ ok /\ Finish(TRUE, <<>>) /\ UNCHANGED <<cmdbuf, trys, xbd>>
           \/ /\ ~ok
              /\ trys' = trys + 1
              /\ xbd' = Reset(Reset(xbd, TRUE), FALSE)
              /\ IF trys' < 3
                 THEN cmdbuf' = Packet(op.cmd, 0, <<>>) /\ step' = "start" /\ UNCHANGED <<op, reply>>
                 ELSE Finish(FALSE, <<>>) /\ UNCHANGED cmdbuf
        /\ UNCHANGED <<pbuf, mp, answer>>

ReceiveMode == op.cmd \in {"sar", "sbr"} /\ xbdReceive(buf, "code", ModeAnswered)

(* XBH_HandleSTatusRequest: the answer is read into the reply and not looked *)
(* at.                                                                       *)
StatusAnswered(out) ==
    /\ pbuf' = out.b
    /\ Finish(TRUE, <<out.b.cmd>>)
    /\ UNCHANGED <<cmdbuf, buf, mp, answer, trys, xbd>>

ReceiveStatus == op.cmd = "str" /\ xbdReceive(pbuf, "code", StatusAnswered)

Receive == ReceiveSingle \/ ReceiveDownload \/ ReceiveAnnouncement \/ ReceiveResult
           \/ ReceiveMode \/ ReceiveStatus

(* i2c_read looks for an error only when it has all bytes of a burst: when   *)
(* the XBD runs but does not acknowledge its address, it waits for them for  *)
(* ever.                                                                     *)
ReadStalls ==
    /\ step = "recv" /\ xbd_comm = "I2C" /\ xbd.up = "run"
    /\ faults < MaxFaults /\ faults' = faults + 1
    /\ step' = "stuck"
    /\ UNCHANGED <<op, cmdbuf, buf, pbuf, mp, answer, trys, xbd_comm, reply, statics, xbd,
                   cmds, hits, lost, cut, before>>

----------------------------------------------------------------------------
(* Resets.  SysCtlReset ends all tasks and stops the peripherals, but memory *)
(* stays as it is, until ResetISR sets the variables to their initial values *)
(* and HAL_setup resets the XBD and enables the watchdog again.              *)

SysCtlReset ==
    /\ op' = NoRequest /\ reply' = NoReply
    /\ step' = "reset"
    /\ UNCHANGED <<cmdbuf, buf, pbuf, mp, answer, trys, xbd_comm, xbd, cmds, lost, cut, before>>

(* Mutation: variables without an initial value are not set to zero.         *)
ResetISRNoBss ==
    /\ step = "reset" /\ step' = "setup"
    /\ xbd_comm' = "I2C"
    /\ hits' = 0
    /\ UNCHANGED <<cmdbuf, buf, pbuf, mp, answer, trys, statics, op, reply, xbd, cmds, faults, lost, cut, before>>

ResetISR ==
    /\ step = "reset" /\ step' = "setup"
    /\ cmdbuf' = NoPacket /\ buf' = Blank /\ pbuf' = Blank
    /\ mp' = MpState(0, 0, 0) /\ answer' = <<>> /\ trys' = 0
    /\ xbd_comm' = "I2C"
    /\ wd_count' = 0 /\ g_inI2C' = FALSE
    /\ hits' = 0
    /\ UNCHANGED <<op, reply, xbd, cmds, faults, lost, cut, before>>

HAL_setup ==
    /\ step = "setup" /\ step' = "idle"
    /\ xbd' = Reset(Reset(xbd, TRUE), FALSE)
    /\ UNCHANGED <<op, cmdbuf, buf, pbuf, mp, answer, trys, xbd_comm, reply, statics, history>>

Boot == ResetISR \/ HAL_setup

(* watchdog_isr.  g_inI2C is set inside i2c_write and i2c_read only; a       *)
(* handler that waits for a byte that does not come is inside one.           *)

Up == step \notin {"reset", "setup"}
Stuck == step = "stuck" \/ (step = "recv" /\ xbd_comm = "I2C" /\ xbd.up # "run")

(* Mutation: a transfer does not say that it is one.                         *)
InTransferUnsaid == {FALSE}

InTransfer == {in \in BOOLEAN : /\ Stuck => in
                                /\ in => step \notin {"idle", "print"} /\ xbd_comm = "I2C"}

wd_next(in) == IF in THEN wd_count + 1 ELSE 0

watchdog_isr ==
    /\ Watchdog /\ Up /\ Serves("watchdog_isr", INT_WATCHDOG)
    /\ \E in \in InTransfer :
        LET inI2C == in \/ g_inI2C
        IN  /\ hits' = IF in THEN hits + 1 ELSE 0
            /\ wd_count' = wd_next(inI2C)
            /\ IF wd_count' < 2
               THEN UNCHANGED <<task, g_inI2C, xbd, cmds, faults, lost, cut, before>>
               ELSE SysCtlReset /\ g_inI2C' = inI2C /\ UNCHANGED faults

(* The server task finds the PC gone while a command is worked on, and       *)
(* resets the board.                                                         *)
xbh_reset ==
    /\ op # NoRequest
    /\ faults < MaxFaults /\ faults' = faults + 1
    /\ g_inI2C' \in InTransfer
    /\ SysCtlReset
    /\ UNCHANGED <<wd_count, hits>>

----------------------------------------------------------------------------
Next == Begin \/ Send \/ SendStart \/ Receive \/ ReadStalls \/ watchdog_isr \/ xbh_reset \/ Boot

Spec == Init /\ [][Next]_vars

(* The handler runs whenever it can, a restart goes on, and the watchdog     *)
(* timer does not stop.                                                      *)
FairSpec == Spec /\ WF_vars(Send \/ SendStart \/ Receive) /\ WF_vars(watchdog_isr) /\ WF_vars(Boot)

----------------------------------------------------------------------------
States == {MpState(0, 0, 0)} \cup [seqn : Nat, datanext : Nat, dataleft : Nat]
Codes == XBD_CMD \cup {"none", "bad"}
Sizes == {"code", "number", "revision", "long", "torn"}
Buffers == [cmd : Codes, num : Nat, data : Seq(Bytes), size : Sizes,
            crc : [cmd : Codes, num : Nat, data : Seq(Bytes)]]

(* Type invariant.  It includes that an upload never puts more into the      *)
(* reply than the reply buffer holds.                                        *)
TypeOK ==
    /\ op \in Requests \cup {NoRequest} /\ (op = NoRequest <=> step \in {"idle", "reset", "setup"})
    /\ step \in {"idle", "start", "send", "recv", "stuck", "print", "reset", "setup"}
    /\ cmdbuf.cmd \in Codes /\ buf \in Buffers /\ pbuf \in Buffers
    /\ mp \in States
    /\ Len(answer) <= ReplyMax
    /\ trys \in 0..3 /\ wd_count \in 0..2 /\ g_inI2C \in BOOLEAN
    /\ xbd_comm \in {"I2C", "none"}
    /\ reply.req \in Requests \cup {NoRequest} /\ reply.ok \in BOOLEAN
    /\ cmds \in 0..MaxCmds /\ faults \in 0..MaxFaults

Answered(cmd) == reply.req.cmd = cmd /\ reply.ok
Connected == xbd_comm = "I2C" /\ ~lost

(* A download reported as good (cdo, dpo) has arrived: the XBD holds exactly *)
(* what the PC sent, whatever was garbled, cut short or sent before, as long *)
(* as no packet of it was lost without trace.                                *)
DownloadArrived ==
    Connected => /\ Answered("cdr") => xbd.code = reply.req.arg
                 /\ Answered("dpr") => xbd.params = reply.req.arg

(* An upload reported as good (uro) is the XBD's result, complete and in     *)
(* order, even when requests for parts of it were lost and whatever is left  *)
(* in the buffers, unless one of its answers was read in part.               *)
UploadExact == Answered("urr") /\ ~cut => reply.data = xbd.result

(* An execution reported as good (exo) took place, once.                     *)
ExecutedOnce == Connected /\ Answered("exr") => xbd.runs = before + 1

(* A mode change reported as good (sao, sbo) took place, also when it took   *)
(* several tries.                                                            *)
ModeReached ==
    Connected => /\ Answered("sar") => xbd.mode = "AF"
                 /\ Answered("sbr") => xbd.mode = "BL"

(* What the XBD says of itself reaches the PC as it is now, never as an      *)
(* earlier answer left it in a buffer.                                       *)
AnswerFresh == \A q \in Queries : Connected /\ Answered(q) => reply.data = <<xbd.runs>>

(* The handler always comes back for the next command: an XBD that does not  *)
(* answer does not hold it for ever.                                         *)
AlwaysReady == []<>(step = "idle")

(* The watchdog resets the board only when two of its interrupts in a row,   *)
(* both since the board last started, came during transfers: a transfer that *)
(* a reset cut short does not count against the board that starts afresh.    *)
ResetEarned == [][wd_count' = 2 => hits' = 2]_wd_count

(* XBH_handle's "@return Length of reply containing return data": as long as *)
(* the XBD answers, each command, known or not, is answered.                 *)
HandleReturns == op # NoRequest ~> op = NoRequest

(* xbdReceive's "@return -1 if fail, 0 if success", as a PC sees it: an      *)
(* upload reported as good is complete, whatever reads failed.               *)
UploadComplete == Answered("urr") => reply.data = xbd.result
=============================================================================
