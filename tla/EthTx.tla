-------------------------------- MODULE EthTx --------------------------------
(* Sending Ethernet frames: the transmit descriptor ring shared by lwIP's    *)
(* thread (tivaif_transmit), the MAC's DMA engine and the Ethernet task      *)
(* (tivaif_process_transmit), which looks at it when the Ethernet interrupt  *)
(* of EthInt tells it to.                                                    *)
(*                                                                           *)
(* A frame is a chain of pbufs, one descriptor each.  Frames are numbered as *)
(* lwIP offers them and segments as they enter the ring.                     *)
EXTENDS EthInt

CONSTANTS
    NumDescs,       \* NUM_TX_DESCRIPTORS (8)
    MaxChain,       \* bound: pbufs in a frame
    MaxFrames,      \* bound: frames offered
    EthPrio,        \* ETH_PRIO of task_prio.h (2)
    LwipPrio        \* LWIP_PRIO of task_prio.h (1)

ASSUME NumDescsAssumption == NumDescs \in Nat \ {0}
ASSUME TxBoundsAssumption == MaxChain \in Nat \ {0} /\ MaxFrames \in Nat
ASSUME PrioAssumption == EthPrio \in Nat /\ LwipPrio \in Nat

VARIABLES
    ring,           \* g_pTxDescriptors: OWN, pBuf, its low bit, LAST_SEG, segment
    Read, Write,    \* ui32Read and ui32Write
    hw,             \* the descriptor the DMA engine is at
    offered,        \* frames lwIP has offered
    held,           \* frame -> references the driver holds on it
    dropped,        \* history: frames refused because no copy could be made
    filling,        \* the frame tivaif_transmit is writing to the ring
    queued, gone,   \* segments handed to the DMA engine, and sent
    task,           \* where eth_int_task is
    walked          \* tivaif_process_transmit's ui32NumDescs

ringVars == <<ring, Read, Write, hw, queued, gone>>
frameVars == <<offered, held, dropped, filling>>
vars == <<ringVars, frameVars, isrVars, task, walked>>

Descs == 0..(NumDescs - 1)
Frames == 1..MaxFrames
NoFrame == 0
Empty == [own |-> FALSE, frame |-> NoFrame, tag |-> FALSE, last |-> FALSE, num |-> 0]
NotFilling == [frame |-> NoFrame, left |-> 0]

After(d) == IF d + 1 = NumDescs THEN 0 ELSE d + 1

Init ==
    /\ ring = [d \in Descs |-> Empty]
    /\ Read = 0 /\ Write = 0 /\ hw = 0 /\ queued = 0 /\ gone = 0
    /\ offered = 0 /\ held = [f \in Frames |-> 0] /\ dropped = {} /\ filling = NotFilling
    /\ IntInit(TRUE)
    /\ task = "wait" /\ walked = 0

----------------------------------------------------------------------------
(* Who runs.  tivaif_transmit fills the ring in a critical section, which    *)
(* masks the interrupt; an interrupt goes before every task; and the task    *)
(* that waits for nothing goes before one of lower priority.  eth_int_task   *)
(* may have to wait in tcpip_callback, when it tells lwIP of the link.       *)

TasksRun == NoInterrupt /\ filling = NotFilling

(* Mutation: both have the same priority and are time sliced.                *)
LwipRunsEqual == TasksRun

TaskWaits == task \in {"post", "postOnly"} \/ (task = "wait" /\ eth_int_q = <<>>)

LwipRuns == TasksRun /\ (EthPrio > LwipPrio => TaskWaits)

----------------------------------------------------------------------------
(* tivaif_transmit.  A reference is taken first.  A frame that lies outside  *)
(* the memory the DMA engine reads is replaced by a copy; when there is no   *)
(* buffer for one, the frame is refused and the reference is kept.           *)

FreeDescs == IF Read > Write THEN Read - Write ELSE NumDescs - Write + Read

Accepts(n) == ring[Write].frame = NoFrame /\ FreeDescs >= n

Offer ==
    /\ LwipRuns
    /\ offered < MaxFrames
    /\ offered' = offered + 1

CopyFails ==
    /\ Offer
    /\ held' = [held EXCEPT ![offered'] = 1]
    /\ dropped' = dropped \cup {offered'}
    /\ UNCHANGED <<ringVars, filling, isrVars, task, walked>>

Refuse ==
    /\ Offer
    /\ \E n \in 1..MaxChain : ~Accepts(n)
    /\ UNCHANGED <<ringVars, held, dropped, filling, isrVars, task, walked>>

Accept ==
    /\ Offer
    /\ \E n \in 1..MaxChain :
        /\ Accepts(n)
        /\ filling' = [frame |-> offered', left |-> n]
    /\ held' = [held EXCEPT ![offered'] = 1]
    /\ UNCHANGED <<ringVars, dropped, isrVars, task, walked>>

(* One descriptor is written and handed to the DMA engine, which may start   *)
(* before the next one is.                                                   *)
(* Mutation: every descriptor of the chain is tagged with the pbuf itself.   *)
SegmentUntagged ==
    [own |-> TRUE, frame |-> filling.frame, tag |-> FALSE, last |-> filling.left = 1, num |-> queued + 1]

Segment ==
    [own |-> TRUE, frame |-> filling.frame, tag |-> filling.left > 1, last |-> filling.left = 1, num |-> queued + 1]

Fill ==
    /\ filling # NotFilling
    /\ ring' = [ring EXCEPT ![Write] = Segment]
    /\ Write' = After(Write)
    /\ queued' = queued + 1
    /\ filling' = IF filling.left = 1 THEN NotFilling ELSE [filling EXCEPT !.left = @ - 1]
    /\ UNCHANGED <<Read, hw, gone, offered, held, dropped, isrVars, task, walked>>

----------------------------------------------------------------------------
(* The MAC.  It sends a descriptor it owns and goes on to the next; after    *)
(* the last one of a frame it raises the transmit interrupt.  Frames that    *)
(* come in and the PHY raise the others.                                     *)

DmaSend ==
    /\ ring[hw].own
    /\ ring' = [ring EXCEPT ![hw].own = FALSE]
    /\ hw' = After(hw)
    /\ gone' = ring[hw].num
    /\ IF ring[hw].last THEN Raise("tx") ELSE UNCHANGED <<raised, pending>>
    /\ UNCHANGED <<Read, Write, queued, frameVars, enabled, isr, status, eth_int_q, task, walked>>

OtherEvent ==
    /\ \E event \in {"rx", "phy"} : event \notin raised /\ Raise(event)
    /\ UNCHANGED <<ringVars, frameVars, enabled, isr, status, eth_int_q, task, walked>>

----------------------------------------------------------------------------
(* lwIP_eth_isr.  Its first step waits for the end of a critical section.    *)

IsrStatus == filling = NotFilling /\ ReadStatus /\ UNCHANGED <<ringVars, frameVars, task, walked>>
IsrClear == ClearStatus({}) /\ UNCHANGED <<ringVars, frameVars, task, walked>>
IsrQueue == QueueStatus /\ UNCHANGED <<ringVars, frameVars, task, walked>>

----------------------------------------------------------------------------
(* eth_int_task and tivaif_process_transmit.  The PHY comes first: the call  *)
(* of tcpip_callback returns when lwIP's mailbox has room.                   *)

TaskReceive ==
    /\ TasksRun
    /\ task = "wait" /\ TakeStatus
    /\ LET events == Head(eth_int_q)
       IN  task' = CASE {"phy", "tx"} \subseteq events -> "post"
                     [] "phy" \in events /\ "tx" \notin events -> "postOnly"
                     [] "tx" \in events /\ "phy" \notin events -> "walk"
                     [] OTHER -> "enable"
    /\ walked' = 0
    /\ UNCHANGED <<ringVars, frameVars>>

TaskPosted ==
    /\ TasksRun
    /\ task \in {"post", "postOnly"}
    /\ task' = IF task = "post" THEN "walk" ELSE "enable"
    /\ UNCHANGED <<ringVars, frameVars, isrVars, walked>>

(* Mutation: the walk does not stop at a descriptor the hardware owns.       *)
WalkOverOwned == walked < NumDescs /\ ring[Read].frame # NoFrame

WalkOn == walked < NumDescs /\ ~ring[Read].own /\ ring[Read].frame # NoFrame

(* The buffer attached to a descriptor is freed, then detached, then the     *)
(* read index moves.                                                         *)
TaskFree ==
    /\ TasksRun
    /\ task = "walk" /\ WalkOn
    /\ held' = IF ring[Read].tag THEN held ELSE [held EXCEPT ![ring[Read].frame] = @ - 1]
    /\ ring' = [ring EXCEPT ![Read].frame = NoFrame]
    /\ task' = "advance"
    /\ UNCHANGED <<Read, Write, hw, queued, gone, offered, dropped, filling, isrVars, walked>>

TaskAdvance ==
    /\ TasksRun
    /\ task = "advance"
    /\ Read' = After(Read)
    /\ walked' = walked + 1
    /\ task' = "walk"
    /\ UNCHANGED <<ring, Write, hw, queued, gone, frameVars, isrVars>>

TaskStop ==
    /\ TasksRun
    /\ task = "walk" /\ ~WalkOn
    /\ task' = "enable"
    /\ UNCHANGED <<ringVars, frameVars, isrVars, walked>>

TaskEnable ==
    /\ TasksRun
    /\ task = "enable"
    /\ task' = "wait"
    /\ EnableInterrupts
    /\ UNCHANGED <<ringVars, frameVars, walked>>

----------------------------------------------------------------------------
Lwip == CopyFails \/ Refuse \/ Accept
Isr == IsrStatus \/ IsrClear \/ IsrQueue
Task == TaskReceive \/ TaskPosted \/ TaskFree \/ TaskAdvance \/ TaskStop \/ TaskEnable

Next == Lwip \/ Fill \/ DmaSend \/ OtherEvent \/ Isr \/ Task

Spec == Init /\ [][Next]_vars

(* The processor and the DMA engine do not stop; nothing obliges lwIP to     *)
(* send or the network to deliver.                                           *)
FairSpec == Spec /\ WF_vars(Fill) /\ WF_vars(DmaSend) /\ WF_vars(Isr) /\ WF_vars(Task)

----------------------------------------------------------------------------
(* Type invariant.  The driver never gives back a reference it has not got.  *)
TypeOK ==
    /\ ring \in [Descs -> [own : BOOLEAN, frame : 0..MaxFrames, tag : BOOLEAN, last : BOOLEAN,
                           num : 0..(MaxFrames * MaxChain)]]
    /\ {Read, Write, hw} \subseteq Descs
    /\ offered \in 0..MaxFrames /\ held \in [Frames -> 0..1] /\ dropped \subseteq Frames
    /\ filling \in [frame : 0..MaxFrames, left : 0..MaxChain]
    /\ gone <= queued
    /\ IntTypeOK
    /\ task \in {"wait", "post", "postOnly", "walk", "advance", "enable"} /\ walked \in 0..NumDescs

(* The DMA engine finds the segments of all accepted frames, each once and   *)
(* in the order in which lwIP handed them over: no descriptor is written     *)
(* again before it was sent.                                                 *)
SegmentsInOrder == gone < queued => ring[hw].own /\ ring[hw].num = gone + 1

(* The memory of a frame the DMA engine may still read is not given back.    *)
HeldWhileSent ==
    \A d \in Descs : ring[d].own => ring[d].frame # NoFrame /\ held[ring[d].frame] = 1

(* The driver holds a reference for a frame that is in the ring or on its    *)
(* way into it, and for no other; frames it could not copy excepted.         *)
HeldOnlyInRing ==
    \A f \in Frames : held[f] > 0 =>
        f \in dropped \/ f = filling.frame \/ \E d \in Descs : ring[d].frame = f

(* Every frame that was accepted is sent, and its memory given back, though  *)
(* interrupts are disabled, masked and merged meanwhile and no frame need    *)
(* follow it.                                                                *)
FramesReleased == \A f \in Frames : (held[f] > 0 /\ f \notin dropped) ~> held[f] = 0
=============================================================================
