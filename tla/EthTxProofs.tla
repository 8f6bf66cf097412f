----------------------------- MODULE EthTxProofs -----------------------------
(* No interrupt status is lost between lwIP_eth_isr and eth_int_task, and    *)
(* the transmit ring keeps the order of the frames and their memory, for     *)
(* every size of the ring and every number and length of frames.  The ring   *)
(* needs the task to have a higher priority than lwIP's thread.              *)
EXTENDS EthTx, TLAPS

(* While a status is queued the interrupts are disabled; while the routine   *)
(* handles one that is not empty they are still enabled; and while the task  *)
(* works on one, they are disabled and the routine can not run.              *)
QueuedDisabled == eth_int_q # <<>> => ~enabled
HandledEnabled == isr # "off" /\ status # {} => enabled
WorkAlone == task # "wait" => ~enabled /\ ~pending /\ isr = "off" /\ eth_int_q = <<>>

IInv == QueuedDisabled /\ HandledEnabled /\ WorkAlone

(* What a step that is none of the routine's, and enables nothing, needs to  *)
(* leave alone.                                                              *)
LEMMA KeepsIInv ==
    ASSUME IInv,
           UNCHANGED <<enabled, isr, status, eth_int_q>>,
           task' # "wait" => task # "wait" /\ pending' = pending
    PROVE  IInv'
BY DEF IInv, QueuedDisabled, HandledEnabled, WorkAlone

(* The invariant holds at the start and is kept by every step.               *)
THEOREM Invariance == Spec => []IInv
<1>1. Init => IInv
  BY DEF Init, IntInit, IInv, QueuedDisabled, HandledEnabled, WorkAlone
<1>2. IInv /\ [Next]_vars => IInv'
  <2> SUFFICES ASSUME IInv, [Next]_vars PROVE IInv'
    OBVIOUS
  <2>1. CASE Lwip \/ Fill
    BY <2>1, KeepsIInv DEF Lwip, CopyFails, Refuse, Accept, Offer, Fill, isrVars
  <2>2. CASE DmaSend
    <3>1. UNCHANGED <<enabled, isr, status, eth_int_q, task>>
      BY <2>2 DEF DmaSend
    <3>2. task # "wait" => ~pending'
      BY <2>2, Zenon DEF DmaSend, Raise, IInv, WorkAlone
    <3>. QED
      BY <3>1, <3>2 DEF IInv, QueuedDisabled, HandledEnabled, WorkAlone
  <2>3. CASE OtherEvent
    BY <2>3 DEF OtherEvent, Raise, IInv, QueuedDisabled, HandledEnabled, WorkAlone
  <2>4. CASE IsrStatus
    BY <2>4 DEF IsrStatus, ReadStatus, IInv, QueuedDisabled, HandledEnabled, WorkAlone
  <2>5. CASE IsrClear
    BY <2>5 DEF IsrClear, ClearStatus, IInv, QueuedDisabled, HandledEnabled, WorkAlone
  <2>6. CASE IsrQueue
    BY <2>6 DEF IsrQueue, QueueStatus, IInv, QueuedDisabled, HandledEnabled, WorkAlone
  <2>7. CASE TaskReceive
    BY <2>7 DEF TaskReceive, TakeStatus, TasksRun, NoInterrupt,
                IInv, QueuedDisabled, HandledEnabled, WorkAlone
  <2>8. CASE TaskPosted \/ TaskFree \/ TaskAdvance \/ TaskStop
    BY <2>8, KeepsIInv DEF TaskPosted, TaskFree, TaskAdvance, TaskStop, isrVars
  <2>9. CASE TaskEnable
    <3>1. isr = "off" /\ eth_int_q = <<>>
      BY <2>9 DEF TaskEnable, IInv, WorkAlone
    <3>2. UNCHANGED <<isr, status, eth_int_q>> /\ task' = "wait"
      BY <2>9 DEF TaskEnable, EnableInterrupts
    <3>. QED
      BY <3>1, <3>2 DEF IInv, QueuedDisabled, HandledEnabled, WorkAlone
  <2>10. CASE UNCHANGED vars
    BY <2>10, KeepsIInv DEF vars, isrVars
  <2>. QED
    BY <2>1, <2>2, <2>3, <2>4, <2>5, <2>6, <2>7, <2>8, <2>9, <2>10 DEF Next, Isr, Task
<1>. QED
  BY <1>1, <1>2, PTL DEF Spec

(* What the routine has read and the queue has no room for is empty: no      *)
(* event of the MAC is forgotten, however the routine, the task, the MAC and *)
(* lwIP's thread interleave.                                                 *)
THEOREM StatusKept == Spec => []NoStatusLost
<1>1. IInv => NoStatusLost
  BY DEF IInv, QueuedDisabled, HandledEnabled, NoStatusLost
<1>. QED
  BY <1>1, Invariance, PTL

----------------------------------------------------------------------------
(* The ring, seen from the read index on.                                    *)
At(r, i) == IF r + i < NumDescs THEN r + i ELSE r + i - NumDescs
Desc(i) == ring[At(Read, i)]
Waiting == queued - gone

(* First come `sent` descriptors to be freed, then those the DMA engine      *)
(* owns, then free ones enough for the rest of the frame being filled in.    *)
Laid(sent) ==
    /\ sent + Waiting + filling.left <= NumDescs
    /\ hw = At(Read, sent) /\ Write = At(Read, sent + Waiting)
    /\ task = "advance" => sent > 0
    /\ \A i \in Descs :
        /\ Desc(i).own <=> sent <= i /\ i < sent + Waiting
        /\ Desc(i).own => Desc(i).num = gone + 1 + i - sent
        /\ Desc(i).frame # NoFrame <=> i < sent + Waiting /\ ~(i = 0 /\ task = "advance")

(* The frames in the ring are referenced and in the order of their numbers;  *)
(* the untagged descriptor of a frame is its last.                           *)
Chained ==
    \A i \in Descs : Desc(i).frame # NoFrame =>
        /\ Desc(i).frame <= offered /\ held[Desc(i).frame] = 1
        /\ \A j \in Descs : i < j /\ Desc(j).frame # NoFrame =>
            IF Desc(i).tag THEN Desc(i).frame <= Desc(j).frame ELSE Desc(i).frame < Desc(j).frame
        /\ IF ~Desc(i).tag THEN Desc(i).frame # filling.frame
           ELSE IF i + 1 \in Descs /\ Desc(i + 1).frame # NoFrame THEN Desc(i + 1).frame = Desc(i).frame
           ELSE Desc(i).frame = filling.frame

Types ==
    /\ ring \in [Descs -> [own : BOOLEAN, frame : 0..MaxFrames, tag : BOOLEAN, last : BOOLEAN, num : Nat]]
    /\ \A d \in Descs : ring[d].num <= queued
    /\ Read \in Descs /\ Write \in Descs /\ hw \in Descs
    /\ queued \in Nat /\ gone \in Nat /\ gone <= queued
    /\ offered \in 0..MaxFrames /\ held \in [Frames -> 0..1] /\ dropped \subseteq Frames
    /\ filling \in [frame : 0..MaxFrames, left : 0..MaxChain]
    /\ queued + filling.left <= offered * MaxChain
    /\ IntTypeOK
    /\ task \in {"wait", "post", "postOnly", "walk", "advance", "enable"} /\ walked \in 0..NumDescs
    /\ task = "advance" => walked < NumDescs

(* A frame being filled in is the last one offered.                          *)
FillsLast ==
    filling # NotFilling => filling.frame = offered /\ filling.left > 0 /\ offered > 0 /\ held[offered] = 1

RingInv == Types /\ FillsLast /\ (\E sent \in 0..NumDescs : Laid(sent)) /\ Chained /\ HeldOnlyInRing

----------------------------------------------------------------------------
(* Counting descriptors from one of them on, around the end of the ring.     *)
LEMMA AtFacts ==
    ASSUME NEW r \in Descs
    PROVE  /\ \A i \in 0..NumDescs : At(r, i) \in Descs
           /\ \A i \in Descs : At(r, i) \in Descs
           /\ 0 \in Descs /\ At(r, 0) = r /\ At(r, NumDescs) = r
           /\ \A i \in Descs : After(At(r, i)) = At(r, i + 1) /\ At(After(r), i) = At(r, i + 1)
           /\ \A i, j \in Descs : At(r, i) = At(r, j) => i = j
           /\ \A d \in Descs : \E i \in Descs : d = At(r, i)
<1> USE NumDescsAssumption DEF Descs, At, After
<1>1. /\ \A i \in 0..NumDescs : At(r, i) \in Descs
      /\ \A i \in Descs : At(r, i) \in Descs
      /\ 0 \in Descs /\ At(r, 0) = r /\ At(r, NumDescs) = r
  OBVIOUS
<1>2. \A i \in Descs : After(At(r, i)) = At(r, i + 1) /\ At(After(r), i) = At(r, i + 1)
  OBVIOUS
<1>3. \A i, j \in Descs : At(r, i) = At(r, j) => i = j
  OBVIOUS
<1>4. ASSUME NEW d \in Descs PROVE \E i \in Descs : d = At(r, i)
  <2>1. CASE d >= r
    <3>1. d - r \in Descs /\ d = At(r, d - r)
      BY <2>1
    <3>. QED
      BY <3>1
  <2>2. CASE d < r
    <3>1. d - r + NumDescs \in Descs /\ d = At(r, d - r + NumDescs)
      BY <2>2
    <3>. QED
      BY <3>1
  <2>. QED
    BY <2>1, <2>2
<1>. QED
  BY <1>1, <1>2, <1>3, <1>4

(* Each descriptor is counted once.                                          *)
LEMMA AtOnly ==
    ASSUME NEW r \in Descs, NEW k \in Descs
    PROVE  \A i \in Descs : At(r, i) \in Descs /\ (At(r, i) = At(r, k) <=> i = k)
<1>1. \A i, j \in Descs : At(r, i) \in Descs /\ (At(r, i) = At(r, j) => i = j)
  BY AtFacts
<1>. QED
  BY <1>1

(* What changes neither the ring nor the frames.                             *)
LEMMA KeepsRing ==
    ASSUME RingInv, UNCHANGED <<ringVars, frameVars>>, IntTypeOK',
           task' \in {"wait", "post", "postOnly", "walk", "advance", "enable"}, walked' \in 0..NumDescs,
           task' = "advance" <=> task = "advance",
           task' = "advance" => walked' < NumDescs
    PROVE  RingInv'
<1> USE DEF RingInv, ringVars, frameVars
<1>1. Types'
  BY DEF Types
<1>2. FillsLast' /\ HeldOnlyInRing'
  BY DEF FillsLast, HeldOnlyInRing
<1>3. Chained'
  BY DEF Chained, Desc
<1>4. \E sent \in 0..NumDescs : Laid(sent)'
  BY DEF Laid, Desc, Waiting
<1>. QED
  BY <1>1, <1>2, <1>3, <1>4

(* The interrupt and its routine keep their types.                           *)
LEMMA RaiseTypes ==
    ASSUME IntTypeOK, NEW event \in Events, Raise(event), UNCHANGED <<enabled, isr, status, eth_int_q>>
    PROVE  IntTypeOK'
<1>1. pending' \in BOOLEAN
  BY DEF Raise
<1>. QED
  BY <1>1 DEF Raise, IntTypeOK

LEMMA IsrTypes ==
    ASSUME IntTypeOK,
           ReadStatus \/ ClearStatus({}) \/ QueueStatus \/ TakeStatus \/ EnableInterrupts
    PROVE  IntTypeOK'
<1>1. CASE ReadStatus
  BY <1>1 DEF ReadStatus, IntTypeOK
<1>2. CASE ClearStatus({})
  BY <1>2 DEF ClearStatus, Cleared, IntTypeOK
<1>3. CASE QueueStatus
  BY <1>3 DEF QueueStatus, IntTypeOK
<1>4. CASE TakeStatus
  BY <1>4 DEF TakeStatus, IntTypeOK
<1>5. CASE EnableInterrupts
  BY <1>5 DEF EnableInterrupts, IntTypeOK
<1>. QED
  BY <1>1, <1>2, <1>3, <1>4, <1>5

(* The ring is empty at the start.                                           *)
LEMMA InitRing == Init => RingInv
<1> SUFFICES ASSUME Init PROVE RingInv
  OBVIOUS
<1> USE NumDescsAssumption, TxBoundsAssumption DEF Init
<1>1. Types
  <2>1. ring \in [Descs -> [own : BOOLEAN, frame : 0..MaxFrames, tag : BOOLEAN, last : BOOLEAN, num : Nat]]
    BY DEF Empty, NoFrame
  <2>2. IntTypeOK
    BY DEF IntInit, IntTypeOK, Events
  <2>3. filling \in [frame : 0..MaxFrames, left : 0..MaxChain] /\ filling.left = 0
    BY DEF NotFilling, NoFrame
  <2>. QED
    BY <2>1, <2>2, <2>3 DEF Types, Descs, Empty
<1>2. FillsLast /\ HeldOnlyInRing
  BY DEF FillsLast, HeldOnlyInRing
<1>3. 0 \in Descs /\ \A i \in Descs : Desc(i) = Empty
  BY AtFacts DEF Desc, Descs
<1>4. Chained
  BY <1>3 DEF Chained, Empty
<1>5. Laid(0)
  <2>1. At(0, 0) = 0 /\ Waiting = 0 /\ filling.left = 0
    BY <1>3, AtFacts DEF Waiting, NotFilling
  <2>2. \A i \in Descs : i \in Nat /\ ~Desc(i).own /\ Desc(i).frame = NoFrame
    BY <1>3 DEF Empty, Descs
  <2>. QED
    BY <2>1, <2>2 DEF Laid
<1>. QED
  BY <1>1, <1>2, <1>4, <1>5 DEF RingInv

(* What the three ways to offer a frame have in common.                      *)
LEMMA Offering ==
    ASSUME RingInv, EthPrio > LwipPrio, Lwip
    PROVE  /\ offered' = offered + 1 /\ offered' \in Frames
           /\ filling = NotFilling /\ task # "advance"
           /\ UNCHANGED <<ringVars, isrVars, task, walked>>
           /\ held' \in [Frames -> 0..1] /\ \A f \in Frames : f # offered' => held'[f] = held[f]
           /\ dropped \subseteq dropped' /\ dropped' \subseteq Frames
           /\ \/ filling' = filling /\ (held' = held \/ offered' \in dropped')
              \/ /\ held'[offered'] = 1
                 /\ \E n \in 1..MaxChain : Accepts(n) /\ filling' = [frame |-> offered', left |-> n]
<1>1. offered' = offered + 1 /\ offered' \in Frames /\ filling = NotFilling /\ task # "advance"
  <2>1. Offer
    BY DEF Lwip, CopyFails, Refuse, Accept
  <2>2. offered \in 0..MaxFrames
    BY DEF RingInv, Types
  <2>. QED
    BY <2>1, <2>2, TxBoundsAssumption DEF Offer, LwipRuns, TaskWaits, TasksRun, Frames
<1>2. CASE CopyFails
  BY <1>1, <1>2 DEF CopyFails, RingInv, Types
<1>3. CASE Refuse
  BY <1>1, <1>3 DEF Refuse, RingInv, Types
<1>4. CASE Accept
  BY <1>1, <1>4 DEF Accept, RingInv, Types
<1>. QED
  BY <1>1, <1>2, <1>3, <1>4 DEF Lwip

(* What the driver finds free when no descriptor is being freed.             *)
LEMMA FreeFound ==
    ASSUME RingInv, task # "advance", NEW sent \in 0..NumDescs, Laid(sent), ring[Write].frame = NoFrame
    PROVE  FreeDescs = NumDescs - (sent + Waiting)
<1> USE NumDescsAssumption DEF RingInv
<1>1. Waiting \in Nat /\ sent + Waiting <= NumDescs /\ Write = At(Read, sent + Waiting)
  BY DEF Types, Waiting, Laid
<1>2. sent + Waiting # NumDescs
  <2>. SUFFICES ASSUME sent + Waiting = NumDescs PROVE FALSE
    OBVIOUS
  <2>. Read \in Descs
    BY DEF Types
  <2>1. 0 \in Descs /\ Desc(0) = ring[Read] /\ At(Read, NumDescs) = Read
    BY AtFacts DEF Desc
  <2>2. Desc(0).frame # NoFrame
    BY <2>1 DEF Laid
  <2>. QED
    BY <1>1, <2>1, <2>2
<1>. QED
  BY <1>1, <1>2 DEF FreeDescs, At, Types, Descs

(* A frame is offered while the task is not freeing, and the ring stays as   *)
(* it is.                                                                     *)
LEMMA OffersKeepRing == ASSUME RingInv, EthPrio > LwipPrio, Lwip PROVE RingInv'
<1> USE NumDescsAssumption, TxBoundsAssumption DEF RingInv
<1>1. /\ offered' = offered + 1 /\ offered' \in Frames /\ offered \in Nat
      /\ filling = NotFilling /\ filling.left = 0 /\ task # "advance"
      /\ UNCHANGED <<ring, Read, Write, hw, queued, gone, isrVars, task, walked>>
  BY Offering DEF NotFilling, ringVars, Types
<1>2. \/ filling' = filling /\ (held' = held \/ offered' \in dropped')
      \/ /\ held'[offered'] = 1
         /\ \E n \in 1..MaxChain : Accepts(n) /\ filling' = [frame |-> offered', left |-> n]
  BY Offering
<1>3. /\ held' \in [Frames -> 0..1] /\ \A f \in Frames : f # offered' => held'[f] = held[f]
      /\ dropped \subseteq dropped' /\ dropped' \subseteq Frames
  BY Offering
<1>4. filling' \in [frame : 0..MaxFrames, left : 0..MaxChain]
  BY <1>1, <1>2 DEF Types, Frames
<1>5. Types'
  <2>1. IntTypeOK'
    BY <1>1 DEF Types, isrVars, IntTypeOK
  <2>2. queued + filling'.left <= offered' * MaxChain
    <3>1. \A a, b \in Nat : (a + 1) * b = (a * b) + b /\ a * b \in Nat
      OBVIOUS
    <3>2. offered' * MaxChain = (offered * MaxChain) + MaxChain /\ offered * MaxChain \in Nat
      BY <1>1, <3>1
    <3>3. queued \in Nat /\ queued <= offered * MaxChain
      BY <1>1 DEF Types
    <3> DEFINE old == offered * MaxChain
               new == offered' * MaxChain
    <3> HIDE DEF old, new
    <3>4. new = old + MaxChain /\ old \in Nat /\ queued <= old
      BY <3>2, <3>3 DEF old, new
    <3>5. queued + filling'.left <= new
      BY <1>4, <3>3, <3>4
    <3>. QED
      BY <3>5 DEF new
  <2>. QED
    BY <1>1, <1>3, <1>4, <2>1, <2>2 DEF Types, Frames
<1>6. \A i \in Descs : Desc(i)' = Desc(i) /\ Desc(i).frame \in 0..MaxFrames
  <2>. Read \in Descs
    BY DEF Types
  <2>1. \A i \in Descs : At(Read, i) \in Descs
    BY AtFacts
  <2>. QED
    BY <1>1, <2>1 DEF Desc, Types
<1>7. FillsLast'
  BY <1>1, <1>2 DEF FillsLast
<1>8. Chained'
  <2>1. \A i \in Descs : Desc(i).frame # NoFrame =>
           Desc(i).frame \in Frames /\ Desc(i).frame < offered' /\ Desc(i).frame # filling.frame
    BY <1>1, <1>6 DEF Chained, Frames, NoFrame, NotFilling
  <2>2. filling'.frame = filling.frame \/ filling'.frame = offered'
    BY <1>2
  <2>. QED
    BY <1>1, <1>3, <1>6, <2>1, <2>2 DEF Chained
<1>9. PICK sent \in 0..NumDescs : Laid(sent)
  OBVIOUS
<1>10. Laid(sent)'
  <2>1. Waiting \in Nat /\ Waiting' = Waiting
    BY <1>1 DEF Types, Waiting
  <2>2. sent + Waiting + filling'.left <= NumDescs
    BY <1>1, <1>2, <1>9, <2>1, FreeFound DEF Laid, Accepts
  <2>. QED
    BY <1>1, <1>6, <1>9, <2>1, <2>2 DEF Laid
<1>11. HeldOnlyInRing'
  BY <1>1, <1>2, <1>3 DEF HeldOnlyInRing, NotFilling, NoFrame, Frames
<1>. QED
  BY <1>5, <1>7, <1>8, <1>9, <1>10, <1>11

(* A descriptor is written behind the others of the ring.                    *)
LEMMA FillKeepsRing == RingInv /\ Fill => RingInv'
<1> SUFFICES ASSUME RingInv, Fill PROVE RingInv'
  OBVIOUS
<1> USE NumDescsAssumption, TxBoundsAssumption DEF RingInv
<1>1. PICK sent \in 0..NumDescs : Laid(sent)
  OBVIOUS
<1>a. PICK used \in Int : used = sent + Waiting
  BY DEF Waiting, Types
<1>2. /\ Read \in Descs /\ Write \in Descs /\ queued \in Nat /\ gone \in Nat /\ gone <= queued
      /\ filling \in [frame : 0..MaxFrames, left : 0..MaxChain] /\ filling # NotFilling
      /\ filling.frame = offered /\ filling.left > 0 /\ offered \in Frames /\ held[offered] = 1
  BY DEF Types, FillsLast, Fill, Frames
<1>3. Waiting \in Nat /\ Waiting' = Waiting + 1 /\ used \in Descs /\ used + filling.left <= NumDescs
  BY <1>1, <1>a, <1>2 DEF Waiting, Fill, Laid, Descs
<1>4. Write = At(Read, used) /\ Write' = At(Read, used + 1)
  BY <1>1, <1>a, <1>2, <1>3, AtFacts DEF Laid, Fill
<1>5. /\ Segment \in [own : BOOLEAN, frame : 0..MaxFrames, tag : BOOLEAN, last : BOOLEAN, num : Nat]
      /\ Segment.own /\ Segment.frame = offered /\ (Segment.tag <=> filling.left > 1)
      /\ Segment.num = queued + 1
  <2>1. filling.frame \in 0..MaxFrames /\ queued + 1 \in Nat
    BY <1>2
  <2> DEFINE more == filling.left > 1
             final == filling.left = 1
  <2>2. more \in BOOLEAN /\ final \in BOOLEAN
    OBVIOUS
  <2> HIDE DEF more, final
  <2>3. Segment = [own |-> TRUE, frame |-> filling.frame, tag |-> more, last |-> final, num |-> queued + 1]
    BY DEF Segment, more, final
  <2>4. /\ Segment \in [own : BOOLEAN, frame : 0..MaxFrames, tag : BOOLEAN, last : BOOLEAN, num : Nat]
        /\ Segment.own /\ Segment.frame = filling.frame /\ Segment.tag = more /\ Segment.num = queued + 1
    BY <2>1, <2>2, <2>3
  <2>. QED
    BY <1>2, <2>4 DEF more
<1>6. /\ filling' \in [frame : 0..MaxFrames, left : 0..MaxChain]
      /\ filling'.left = filling.left - 1
      /\ filling'.frame = IF filling.left > 1 THEN offered ELSE NoFrame
      /\ filling' # NotFilling => filling'.left > 0 /\ filling.left > 1
  <2>1. CASE filling.left = 1
    BY <1>2, <2>1 DEF Fill, NotFilling, NoFrame
  <2>2. CASE filling.left # 1
    BY <1>2, <2>2 DEF Fill
  <2>. QED
    BY <2>1, <2>2
<1>7. ring' = [ring EXCEPT ![Write] = Segment] /\ queued' = queued + 1
      /\ UNCHANGED <<Read, hw, gone, offered, held, dropped, isrVars, task, walked>>
  BY DEF Fill
<1>8. \A i \in Descs : Desc(i)' = IF i = used THEN Segment ELSE Desc(i)
  <2>1. \A i \in Descs : At(Read, i) \in Descs /\ (At(Read, i) = Write <=> i = used)
    BY <1>2, <1>3, <1>4, AtOnly
  <2>. QED
    BY <1>7, <2>1 DEF Desc, Types
<1>9. Types'
  <2>1. IntTypeOK'
    BY <1>7 DEF Types, isrVars, IntTypeOK
  <2>2. ring' \in [Descs -> [own : BOOLEAN, frame : 0..MaxFrames, tag : BOOLEAN, last : BOOLEAN, num : Nat]]
    BY <1>5, <1>7 DEF Types
  <2>3. \A d \in Descs : ring'[d].num <= queued'
    BY <1>2, <1>5, <1>7 DEF Types
  <2>4. queued' + filling'.left = queued + filling.left
    BY <1>2, <1>6, <1>7
  <2>5. Write' \in Descs
    BY <1>2, <1>3, <1>4, AtFacts DEF Descs
  <2>. QED
    BY <1>2, <1>6, <1>7, <2>1, <2>2, <2>3, <2>4, <2>5 DEF Types
<1>10. FillsLast'
  BY <1>2, <1>6, <1>7 DEF FillsLast, Frames
<1>11. \A i \in Descs : Desc(i).frame # NoFrame => i < used
  BY <1>1, <1>a DEF Laid
<1>12. Chained'
  <2> SUFFICES ASSUME NEW i \in Descs, Desc(i)'.frame # NoFrame
      PROVE  /\ Desc(i)'.frame <= offered /\ held[Desc(i)'.frame] = 1
             /\ \A j \in Descs : i < j /\ Desc(j)'.frame # NoFrame =>
                 IF Desc(i)'.tag THEN Desc(i)'.frame <= Desc(j)'.frame ELSE Desc(i)'.frame < Desc(j)'.frame
             /\ IF ~Desc(i)'.tag THEN Desc(i)'.frame # filling'.frame
                ELSE IF i + 1 \in Descs /\ Desc(i + 1)'.frame # NoFrame THEN Desc(i + 1)'.frame = Desc(i)'.frame
                ELSE Desc(i)'.frame = filling'.frame
    BY <1>7 DEF Chained
  <2>1. CASE i = used
    <3>1. Desc(i)' = Segment
      BY <1>8, <2>1
    <3>2. \A j \in Descs : i < j => Desc(j)'.frame = NoFrame
      BY <1>3, <1>8, <1>11, <2>1 DEF Descs
    <3>. QED
      BY <1>2, <1>5, <1>6, <3>1, <3>2 DEF Frames, NoFrame, Descs
  <2>2. CASE i # used
    <3>1. Desc(i)' = Desc(i) /\ i < used /\ Desc(i).frame # NoFrame
      BY <1>8, <1>11, <2>2
    <3>2. /\ Desc(i).frame <= offered /\ held[Desc(i).frame] = 1
          /\ Desc(i).frame \in 0..MaxFrames /\ offered \in Nat
      BY <3>1, <1>2, AtFacts DEF Chained, Types, Desc
    <3>3. ~Desc(i).tag => Desc(i).frame < offered
      BY <1>2, <3>1, <3>2 DEF Chained
    <3>4. CASE i + 1 = used
      <4>1. Desc(i).tag => Desc(i).frame = offered
        BY <1>2, <1>3, <1>11, <3>1, <3>4 DEF Chained
      <4>2. Desc(used)'.frame = offered /\ used \in Descs
        <5>1. used \in Descs /\ Desc(used)' = Segment
          BY <1>3, <1>8
        <5>. QED
          BY <1>5, <5>1
      <4>3. \A j \in Descs : i < j /\ Desc(j)'.frame # NoFrame => j = used
        BY <1>3, <1>8, <1>11, <3>4 DEF Descs
      <4>4. \A j \in Descs : i < j /\ Desc(j)'.frame # NoFrame =>
                 IF Desc(i).tag THEN Desc(i).frame <= Desc(j)'.frame ELSE Desc(i).frame < Desc(j)'.frame
        BY <3>2, <3>3, <4>2, <4>3
      <4>5. i + 1 \in Descs /\ Desc(i + 1)'.frame = offered /\ offered # NoFrame
        BY <1>2, <3>4, <4>2 DEF Frames, NoFrame
      <4>6. ~Desc(i).tag => Desc(i).frame # filling'.frame
        BY <1>2, <1>6, <3>1, <3>2, <3>3
      <4>. QED
        BY <3>1, <3>2, <4>1, <4>4, <4>5, <4>6
    <3>5. CASE i + 1 # used
      <4>1. i + 1 \in Descs /\ i + 1 < used /\ Desc(i + 1)' = Desc(i + 1)
        BY <1>3, <1>8, <3>1, <3>5 DEF Descs
      <4>2. Desc(i).tag => Desc(i + 1).frame = Desc(i).frame
        <5>1. Desc(i + 1).frame # NoFrame
          BY <1>1, <1>a, <3>1, <4>1 DEF Laid, Descs
        <5>. QED
          BY <3>1, <4>1, <5>1 DEF Chained
      <4>3. \A j \in Descs : i < j /\ Desc(j).frame # NoFrame =>
                 IF Desc(i).tag THEN Desc(i).frame <= Desc(j).frame ELSE Desc(i).frame < Desc(j).frame
        BY <3>1 DEF Chained
      <4>4. \A j \in Descs : i < j /\ Desc(j)'.frame # NoFrame =>
                 IF Desc(i).tag THEN Desc(i).frame <= Desc(j)'.frame ELSE Desc(i).frame < Desc(j)'.frame
        BY <1>5, <1>8, <3>2, <3>3, <4>3
      <4>5. ~Desc(i).tag => Desc(i).frame # filling'.frame
        BY <1>2, <1>6, <3>1, <3>2, <3>3
      <4>. QED
        BY <3>1, <3>2, <4>1, <4>2, <4>4, <4>5
    <3>. QED
      BY <3>4, <3>5
  <2>. QED
    BY <2>1, <2>2
<1>13. Laid(sent)'
  <2>1. sent + Waiting' + filling'.left <= NumDescs
    BY <1>a, <1>3, <1>6, <1>2
  <2>2. \A i \in Descs : Desc(i)'.own <=> sent <= i /\ i < sent + Waiting'
    BY <1>1, <1>a, <1>3, <1>5, <1>8 DEF Laid, Descs
  <2>3. \A i \in Descs : Desc(i)'.own => Desc(i)'.num = gone + 1 + i - sent
    BY <1>1, <1>a, <1>2, <1>3, <1>5, <1>8 DEF Laid, Descs, Waiting
  <2>4. \A i \in Descs : Desc(i)'.frame # NoFrame <=> i < sent + Waiting' /\ ~(i = 0 /\ task = "advance")
    BY <1>1, <1>a, <1>2, <1>3, <1>5, <1>8 DEF Laid, Descs, NoFrame, Frames
  <2>. QED
    BY <1>1, <1>a, <1>3, <1>4, <1>7, <2>1, <2>2, <2>3, <2>4 DEF Laid
<1>14. HeldOnlyInRing'
  <2> SUFFICES ASSUME NEW f \in Frames, held[f] > 0, f \notin dropped
      PROVE  f = filling'.frame \/ \E d \in Descs : ring'[d].frame = f
    BY <1>7 DEF HeldOnlyInRing
  <2>1. CASE f = offered
    BY <1>2, <1>5, <1>7, <2>1 DEF Types
  <2>2. CASE f # offered
    <3>1. PICK d \in Descs : ring[d].frame = f
      BY <1>2, <2>2 DEF HeldOnlyInRing
    <3>2. d # Write
      <4>1. Desc(used).frame = NoFrame /\ Desc(used) = ring[Write]
        BY <1>3, <1>4, <1>11 DEF Desc, Descs
      <4>. QED
        BY <3>1, <4>1 DEF Frames, NoFrame
    <3>. QED
      BY <1>7, <3>1, <3>2 DEF Types
  <2>. QED
    BY <2>1, <2>2
<1>. QED
  BY <1>9, <1>10, <1>12, <1>13, <1>14

(* The DMA engine gives the first of its descriptors back.                   *)
LEMMA SendKeepsRing == RingInv /\ DmaSend => RingInv'
<1> SUFFICES ASSUME RingInv, DmaSend PROVE RingInv'
  OBVIOUS
<1> USE NumDescsAssumption DEF RingInv
<1>1. PICK sent \in 0..NumDescs : Laid(sent)
  OBVIOUS
<1>2. /\ Read \in Descs /\ hw \in Descs /\ queued \in Nat /\ gone \in Nat /\ gone <= queued
      /\ filling.left \in Nat
  BY DEF Types
<1>3. /\ ring' = [ring EXCEPT ![hw].own = FALSE] /\ hw' = After(hw) /\ gone' = ring[hw].num
      /\ UNCHANGED <<Read, Write, queued, offered, held, dropped, filling, task, walked>>
      /\ ring[hw].own
  BY DEF DmaSend, frameVars
<1>4. Waiting \in Nat /\ sent + Waiting + filling.left <= NumDescs /\ hw = At(Read, sent)
  BY <1>1, <1>2 DEF Waiting, Laid
<1>5. sent \in Descs /\ Desc(sent) = ring[hw] /\ Waiting > 0 /\ gone' = gone + 1 /\ gone < queued
  <2>1. PICK i \in Descs : hw = At(Read, i)
    BY <1>2, AtFacts
  <2>2. sent <= i /\ i < sent + Waiting
    BY <1>1, <1>3, <2>1 DEF Laid, Desc
  <2>3. sent \in Descs /\ Waiting > 0
    BY <1>4, <2>2 DEF Descs
  <2>4. Desc(sent) = ring[hw]
    BY <1>4 DEF Desc
  <2>5. gone' = gone + 1
    BY <1>1, <1>2, <1>3, <2>3, <2>4 DEF Laid, Descs
  <2>. QED
    BY <1>2, <2>3, <2>4, <2>5 DEF Waiting
<1>6. Waiting' = Waiting - 1
  BY <1>2, <1>3, <1>5 DEF Waiting
<1>7. \A i \in Descs : Desc(i)' = IF i = sent THEN [Desc(i) EXCEPT !.own = FALSE] ELSE Desc(i)
  <2>1. \A i \in Descs : At(Read, i) \in Descs /\ (At(Read, i) = hw <=> i = sent)
    BY <1>2, <1>4, <1>5, AtOnly
  <2>. QED
    BY <1>3, <2>1 DEF Desc, Types
<1>8. /\ \A i \in Descs : Desc(i)'.frame = Desc(i).frame /\ Desc(i)'.tag = Desc(i).tag /\ Desc(i)'.num = Desc(i).num
      /\ \A i \in Descs : Desc(i)'.own <=> Desc(i).own /\ i # sent
      /\ \A d \in Descs : ring'[d].frame = ring[d].frame /\ ring'[d].num = ring[d].num
  <2>1. \A d \in Descs : ring[d] \in [own : BOOLEAN, frame : 0..MaxFrames, tag : BOOLEAN, last : BOOLEAN, num : Nat]
    BY DEF Types
  <2>2. \A i \in Descs : At(Read, i) \in Descs
    BY <1>2, AtFacts
  <2>3. \A d \in Descs : ring'[d].frame = ring[d].frame /\ ring'[d].num = ring[d].num
    BY <1>3, <2>1 DEF Types
  <2>. QED
    BY <1>7, <2>1, <2>2, <2>3 DEF Desc
<1>9. Types'
  <2>1. IntTypeOK'
    <3>1. CASE ring[hw].last
      BY <3>1, RaiseTypes DEF DmaSend, Types, Events
    <3>2. CASE ~ring[hw].last
      BY <3>2 DEF DmaSend, Types, IntTypeOK
    <3>. QED
      BY <3>1, <3>2
  <2>2. ring' \in [Descs -> [own : BOOLEAN, frame : 0..MaxFrames, tag : BOOLEAN, last : BOOLEAN, num : Nat]]
    BY <1>3 DEF Types
  <2>3. hw' \in Descs
    BY <1>2, <1>3 DEF After, Descs
  <2>. QED
    BY <1>2, <1>3, <1>5, <1>8, <2>1, <2>2, <2>3 DEF Types
<1>10. FillsLast' /\ HeldOnlyInRing'
  BY <1>3, <1>8 DEF FillsLast, HeldOnlyInRing
<1>11. Chained'
  BY <1>3, <1>8 DEF Chained
<1>12. Laid(sent + 1)'
  <2>1. hw' = At(Read, sent + 1)
    BY <1>2, <1>3, <1>4, <1>5, AtFacts
  <2>2. \A i \in Descs : Desc(i)'.own <=> sent + 1 <= i /\ i < (sent + 1) + Waiting'
    BY <1>1, <1>4, <1>5, <1>6, <1>8 DEF Laid, Descs
  <2>3. \A i \in Descs : Desc(i)'.own => Desc(i)'.num = gone' + 1 + i - (sent + 1)
    BY <1>1, <1>2, <1>5, <1>8 DEF Laid, Descs
  <2>4. (sent + 1) + Waiting' = sent + Waiting
    BY <1>4, <1>6
  <2>. QED
    BY <1>1, <1>3, <1>4, <1>5, <1>8, <2>1, <2>2, <2>3, <2>4 DEF Laid
<1>. QED
  BY <1>5, <1>9, <1>10, <1>11, <1>12 DEF Descs

(* The first descriptor of the ring is sent and its buffer given back.       *)
LEMMA FreeKeepsRing == RingInv /\ TaskFree => RingInv'
<1> SUFFICES ASSUME RingInv, TaskFree PROVE RingInv'
  OBVIOUS
<1> USE NumDescsAssumption DEF RingInv
<1>1. PICK sent \in 0..NumDescs : Laid(sent)
  OBVIOUS
<1> DEFINE freed == Desc(0).frame
<1>2. /\ Read \in Descs /\ 0 \in Descs /\ Desc(0) = ring[Read] /\ filling = NotFilling
      /\ Waiting \in Nat /\ task = "walk" /\ task' = "advance"
      /\ ~Desc(0).own /\ freed # NoFrame /\ freed \in Frames
  <2>1. Read \in Descs
    BY DEF Types
  <2>2. 0 \in Descs /\ Desc(0) = ring[Read]
    BY <2>1, AtFacts DEF Desc
  <2>3. /\ filling = NotFilling /\ task = "walk" /\ task' = "advance"
        /\ ~ring[Read].own /\ ring[Read].frame # NoFrame
    BY DEF TaskFree, TasksRun, WalkOn
  <2>4. Waiting \in Nat
    BY DEF Types, Waiting
  <2>5. ring[Read].frame \in 0..MaxFrames
    BY <2>1 DEF Types
  <2>. QED
    BY <2>1, <2>2, <2>3, <2>4, <2>5 DEF Frames, NoFrame
<1>3. /\ ring' = [ring EXCEPT ![Read].frame = NoFrame]
      /\ held' = IF Desc(0).tag THEN held ELSE [held EXCEPT ![freed] = @ - 1]
      /\ UNCHANGED <<Read, Write, hw, queued, gone, offered, dropped, filling, isrVars, walked>>
  BY <1>2 DEF TaskFree
<1>4. sent > 0
  BY <1>1, <1>2 DEF Laid
<1>5. /\ \A i \in Descs : Desc(i)'.own = Desc(i).own /\ Desc(i)'.tag = Desc(i).tag /\ Desc(i)'.num = Desc(i).num
      /\ \A i \in Descs : Desc(i)'.frame = IF i = 0 THEN NoFrame ELSE Desc(i).frame
      /\ \A i \in Descs : Desc(i).frame \in 0..MaxFrames
      /\ \A d \in Descs : ring'[d].num = ring[d].num
  <2>1. \A d \in Descs : ring[d] \in [own : BOOLEAN, frame : 0..MaxFrames, tag : BOOLEAN, last : BOOLEAN, num : Nat]
    BY DEF Types
  <2>2. \A i \in Descs : At(Read, i) \in Descs /\ (At(Read, i) = Read <=> i = 0)
    <3>1. At(Read, 0) = Read
      BY <1>2, AtFacts
    <3>. QED
      BY <1>2, <3>1, AtOnly
  <2>3. \A d \in Descs : ring'[d] = IF d = Read THEN [ring[d] EXCEPT !.frame = NoFrame] ELSE ring[d]
    BY <1>3 DEF Types
  <2>. QED
    BY <1>3, <2>1, <2>2, <2>3 DEF Desc
<1>6. held[freed] = 1 /\ held' \in [Frames -> 0..1] /\ (~Desc(0).tag => held'[freed] = 0)
      /\ \A f \in Frames : f # freed \/ Desc(0).tag => held'[f] = held[f]
  <2>1. held[freed] = 1
    BY <1>2 DEF Chained
  <2>. QED
    BY <1>2, <1>3, <2>1 DEF Types
<1>7. Types'
  <2>1. IntTypeOK'
    BY <1>3 DEF Types, isrVars, IntTypeOK
  <2>2. ring' \in [Descs -> [own : BOOLEAN, frame : 0..MaxFrames, tag : BOOLEAN, last : BOOLEAN, num : Nat]]
    <3>1. NoFrame \in 0..MaxFrames
      BY TxBoundsAssumption DEF NoFrame
    <3>. QED
      BY <1>2, <1>3, <3>1 DEF Types
  <2>3. walked < NumDescs
    BY DEF TaskFree, WalkOn
  <2>. QED
    BY <1>2, <1>3, <1>5, <1>6, <2>1, <2>2, <2>3 DEF Types
<1>8. FillsLast'
  BY <1>2, <1>3 DEF FillsLast
<1>9. Chained'
  <2>1. \A i \in Descs : Desc(i)'.frame # NoFrame => i > 0 /\ Desc(i).frame # NoFrame
    BY <1>5 DEF Descs
  <2>2. \A i \in Descs : Desc(i)'.frame # NoFrame => held'[Desc(i).frame] = 1
    <3> SUFFICES ASSUME NEW i \in Descs, Desc(i)'.frame # NoFrame PROVE held'[Desc(i).frame] = 1
      OBVIOUS
    <3>1. i > 0 /\ Desc(i).frame \in Frames /\ held[Desc(i).frame] = 1
      BY <1>5, <2>1 DEF Chained, Frames, NoFrame
    <3>2. ~Desc(0).tag => freed < Desc(i).frame
      BY <1>2, <2>1, <3>1 DEF Chained
    <3>. QED
      BY <1>2, <1>6, <3>1, <3>2 DEF Frames
  <2>3. \A i \in Descs : i + 1 \in Descs => Desc(i + 1)'.frame = Desc(i + 1).frame
    BY <1>5 DEF Descs
  <2>. QED
    BY <1>3, <1>5, <2>1, <2>2, <2>3 DEF Chained
<1>10. Laid(sent)'
  BY <1>1, <1>2, <1>3, <1>4, <1>5 DEF Laid, Waiting, Descs
<1>11. HeldOnlyInRing'
  <2> SUFFICES ASSUME NEW f \in Frames, held'[f] > 0, f \notin dropped
      PROVE  \E d \in Descs : ring'[d].frame = f
    BY <1>3 DEF HeldOnlyInRing
  <2>1. CASE f = freed
    <3>1. Desc(0).tag
      BY <1>6, <2>1
    <3>2. 1 \in Descs /\ Desc(1).frame = freed
      BY <1>2, <3>1 DEF Chained, NotFilling
    <3>3. At(Read, 1) \in Descs /\ ring'[At(Read, 1)].frame = freed
      BY <1>2, <1>3, <1>5, <3>2, AtFacts DEF Desc
    <3>. QED
      BY <2>1, <3>3
  <2>2. CASE f # freed
    <3>1. PICK d \in Descs : ring[d].frame = f
      BY <1>2, <1>6, <2>2 DEF HeldOnlyInRing, NotFilling, Frames, NoFrame
    <3>. QED
      BY <1>2, <1>3, <2>2, <3>1 DEF Types
  <2>. QED
    BY <2>1, <2>2
<1>. QED
  BY <1>7, <1>8, <1>9, <1>10, <1>11

(* The read index moves on to the next descriptor.                           *)
LEMMA AdvanceKeepsRing == RingInv /\ TaskAdvance => RingInv'
<1> SUFFICES ASSUME RingInv, TaskAdvance PROVE RingInv'
  OBVIOUS
<1> USE NumDescsAssumption DEF RingInv
<1>1. PICK sent \in 0..NumDescs : Laid(sent)
  OBVIOUS
<1>2. /\ Read \in Descs /\ 0 \in Descs /\ Waiting \in Nat /\ task = "advance" /\ task' = "walk"
      /\ Read' = After(Read) /\ walked' = walked + 1 /\ filling = NotFilling
      /\ UNCHANGED <<ring, Write, hw, queued, gone, offered, held, dropped, filling, isrVars>>
  <2>1. Read \in Descs
    BY DEF Types
  <2>. QED
    BY <2>1, AtFacts DEF TaskAdvance, TasksRun, frameVars, Types, Waiting
<1>3. sent > 0 /\ sent - 1 \in Descs
  BY <1>1, <1>2 DEF Laid, Descs
<1>4. \A i \in Descs : Desc(i)' = IF i + 1 \in Descs THEN Desc(i + 1) ELSE Desc(0)
  <2>1. \A i \in Descs : At(After(Read), i) = At(Read, i + 1)
    BY <1>2, AtFacts
  <2>2. At(Read, 0) = Read /\ At(Read, NumDescs) = Read
    BY <1>2, AtFacts
  <2>3. \A i \in Descs : i + 1 \in Descs \/ i + 1 = NumDescs
    BY DEF Descs
  <2>. QED
    BY <1>2, <2>1, <2>2, <2>3 DEF Desc
<1>5. ~Desc(0).own /\ Desc(0).frame = NoFrame
  BY <1>1, <1>2, <1>3 DEF Laid
<1>6. Types'
  <2>1. IntTypeOK'
    BY <1>2 DEF Types, isrVars, IntTypeOK
  <2>2. Read' \in Descs
    BY <1>2 DEF After, Descs
  <2>3. walked' \in 0..NumDescs
    BY <1>2 DEF Types
  <2>. QED
    BY <1>2, <2>1, <2>2, <2>3 DEF Types
<1>7. FillsLast' /\ HeldOnlyInRing'
  BY <1>2 DEF FillsLast, HeldOnlyInRing
<1>8. Chained'
  <2>1. \A i \in Descs : Desc(i)'.frame # NoFrame => i + 1 \in Descs /\ Desc(i)' = Desc(i + 1)
    BY <1>4, <1>5
  <2>2. \A i \in Descs : i + 1 \in Descs => (Desc(i + 1)'.frame # NoFrame <=> i + 2 \in Descs /\ Desc(i + 2).frame # NoFrame)
    <3> SUFFICES ASSUME NEW i \in Descs, i + 1 \in Descs
        PROVE  Desc(i + 1)'.frame # NoFrame <=> i + 2 \in Descs /\ Desc(i + 2).frame # NoFrame
      OBVIOUS
    <3>1. (i + 1) + 1 = i + 2
      BY DEF Descs
    <3>. QED
      BY <1>4, <1>5, <3>1
  <2> SUFFICES ASSUME NEW i \in Descs, Desc(i)'.frame # NoFrame
      PROVE  /\ Desc(i)'.frame <= offered /\ held[Desc(i)'.frame] = 1
             /\ \A j \in Descs : i < j /\ Desc(j)'.frame # NoFrame =>
                 IF Desc(i)'.tag THEN Desc(i)'.frame <= Desc(j)'.frame ELSE Desc(i)'.frame < Desc(j)'.frame
             /\ IF ~Desc(i)'.tag THEN Desc(i)'.frame # filling.frame
                ELSE IF i + 1 \in Descs /\ Desc(i + 1)'.frame # NoFrame THEN Desc(i + 1)'.frame = Desc(i)'.frame
                ELSE Desc(i)'.frame = filling.frame
    BY <1>2 DEF Chained
  <2> DEFINE k == i + 1
  <2>3. k \in Descs /\ Desc(i)' = Desc(k) /\ Desc(k).frame # NoFrame
    BY <2>1
  <2>4. \A j \in Descs : i < j /\ Desc(j)'.frame # NoFrame =>
            IF Desc(k).tag THEN Desc(k).frame <= Desc(j)'.frame ELSE Desc(k).frame < Desc(j)'.frame
    <3> SUFFICES ASSUME NEW j \in Descs, i < j, Desc(j)'.frame # NoFrame
        PROVE  IF Desc(k).tag THEN Desc(k).frame <= Desc(j)'.frame ELSE Desc(k).frame < Desc(j)'.frame
      OBVIOUS
    <3>1. j + 1 \in Descs /\ Desc(j)' = Desc(j + 1) /\ k < j + 1
      BY <2>1 DEF Descs
    <3>. QED
      BY <2>3, <3>1 DEF Chained
  <2>5. Desc(k).tag =>
            IF k \in Descs /\ Desc(k)'.frame # NoFrame THEN Desc(k)'.frame = Desc(k).frame
            ELSE Desc(k).frame = filling.frame
    <3>1. k + 1 = i + 2
      BY DEF Descs
    <3>2. Desc(k)'.frame # NoFrame => Desc(k)' = Desc(k + 1)
      BY <2>1, <2>3
    <3>. QED
      BY <2>2, <2>3, <3>1, <3>2 DEF Chained
  <2>6. Desc(k).frame <= offered /\ held[Desc(k).frame] = 1 /\ (~Desc(k).tag => Desc(k).frame # filling.frame)
    BY <2>3 DEF Chained
  <2>. QED
    BY <2>3, <2>4, <2>5, <2>6
<1>9. Laid(sent - 1)'
  <2>1. hw' = At(Read', sent - 1)
    BY <1>1, <1>2, <1>3, AtFacts DEF Laid, Descs
  <2>2. Write' = At(Read', sent - 1 + Waiting)
    <3>1. sent - 1 + Waiting \in Descs /\ sent - 1 + Waiting + 1 = sent + Waiting
      BY <1>1, <1>2, <1>3 DEF NotFilling, Laid, Descs
    <3>. QED
      BY <1>1, <1>2, <3>1, AtFacts DEF Laid
  <2>3. Waiting' = Waiting /\ filling.left = 0
    BY <1>2 DEF Waiting, NotFilling
  <2>4. \A i \in Descs : Desc(i)'.own <=> sent - 1 <= i /\ i < sent - 1 + Waiting
    BY <1>1, <1>2, <1>4, <1>5, <2>3 DEF Laid, Descs
  <2>5. \A i \in Descs : Desc(i)'.own => Desc(i)'.num = gone + 1 + i - (sent - 1)
    <3>1. gone \in Nat
      BY DEF Types
    <3>. QED
      BY <1>1, <1>4, <1>5, <3>1 DEF Laid, Descs
  <2>6. \A i \in Descs : Desc(i)'.frame # NoFrame <=> i < sent - 1 + Waiting
    BY <1>1, <1>2, <1>4, <1>5, <2>3 DEF Laid, Descs
  <2>. QED
    BY <1>1, <1>2, <1>3, <2>1, <2>2, <2>3, <2>4, <2>5, <2>6 DEF Laid
<1>. QED
  BY <1>3, <1>6, <1>7, <1>8, <1>9 DEF Descs

(* Every step keeps the ring laid out so.                                    *)
LEMMA StepKeepsRing == ASSUME RingInv, EthPrio > LwipPrio, [Next]_vars PROVE RingInv'
<1> USE DEF RingInv
<1>1. CASE Lwip
  BY <1>1, OffersKeepRing
<1>2. CASE Fill
  BY <1>2, FillKeepsRing
<1>3. CASE DmaSend
  BY <1>3, SendKeepsRing
<1>4. CASE OtherEvent
  <2>1. IntTypeOK'
    BY <1>4, RaiseTypes DEF OtherEvent, Types, Events
  <2>. QED
    BY <1>4, <2>1, KeepsRing DEF OtherEvent, Types
<1>5. CASE Isr
  <2>1. IntTypeOK'
    BY <1>5, IsrTypes DEF Isr, IsrStatus, IsrClear, IsrQueue, Types
  <2>. QED
    BY <1>5, <2>1, KeepsRing DEF Isr, IsrStatus, IsrClear, IsrQueue, Types
<1>6. CASE TaskReceive
  <2>1. IntTypeOK'
    BY <1>6, IsrTypes DEF TaskReceive, Types
  <2>2. task' \in {"post", "postOnly", "walk", "enable"} /\ task = "wait" /\ walked' = 0
    BY <1>6 DEF TaskReceive
  <2>. QED
    BY <1>6, <2>1, <2>2, KeepsRing, NumDescsAssumption DEF TaskReceive, Types
<1>7. CASE TaskFree
  BY <1>7, FreeKeepsRing
<1>8. CASE TaskAdvance
  BY <1>8, AdvanceKeepsRing
<1>9. CASE TaskStop
  <2>1. IntTypeOK'
    BY <1>9 DEF TaskStop, Types, isrVars, IntTypeOK
  <2>. QED
    BY <1>9, <2>1, KeepsRing DEF TaskStop, Types
<1>10. CASE TaskEnable
  <2>1. IntTypeOK'
    BY <1>10, IsrTypes DEF TaskEnable, Types
  <2>. QED
    BY <1>10, <2>1, KeepsRing DEF TaskEnable, Types
<1>11. CASE UNCHANGED vars
  <2>1. IntTypeOK'
    BY <1>11 DEF vars, Types, isrVars, IntTypeOK
  <2>. QED
    BY <1>11, <2>1, KeepsRing DEF vars, Types
<1>12. CASE TaskPosted
  <2>1. IntTypeOK'
    BY <1>12 DEF TaskPosted, Types, isrVars, IntTypeOK
  <2>. QED
    BY <1>12, <2>1, KeepsRing DEF TaskPosted, Types
<1>. QED
  BY <1>1, <1>2, <1>3, <1>4, <1>5, <1>6, <1>7, <1>8, <1>9, <1>10, <1>11, <1>12 DEF Next, Task

(* The ring is laid out like this as long as the task that empties it goes   *)
(* before lwIP's thread, which fills it (ETH_PRIO and LWIP_PRIO of           *)
(* task_prio.h): between freeing a buffer and moving the read index on, the  *)
(* ring looks empty to tivaif_transmit when it is full.                      *)
THEOREM RingInvariance == ASSUME EthPrio > LwipPrio PROVE Spec => []RingInv
<1>1. RingInv /\ [Next]_vars => RingInv'
  BY StepKeepsRing
<1>. QED
  BY <1>1, InitRing, PTL DEF Spec

----------------------------------------------------------------------------
(* What follows for the ring.                                                *)

(* The driver's state keeps its types; in particular no frame is given back  *)
(* more often than it was taken.                                             *)
THEOREM TypeCorrect == ASSUME EthPrio > LwipPrio PROVE Spec => []TypeOK
<1>1. RingInv => TypeOK
  <2> SUFFICES ASSUME RingInv PROVE TypeOK
    OBVIOUS
  <2>1. \A a, b, c \in Nat : a <= b => a * c <= b * c
    OBVIOUS
  <2>2. queued <= MaxFrames * MaxChain
    <3> DEFINE some == offered * MaxChain
               all == MaxFrames * MaxChain
    <3>1. some \in Nat /\ all \in Nat /\ some <= all
      BY <2>1, TxBoundsAssumption DEF RingInv, Types
    <3>2. queued \in Nat /\ filling.left \in Nat /\ queued + filling.left <= some
      BY DEF RingInv, Types
    <3> HIDE DEF some, all
    <3>3. queued <= all
      BY <3>1, <3>2
    <3>. QED
      BY <3>3 DEF all
  <2>3. \A d \in Descs : ring[d].num \in 0..(MaxFrames * MaxChain)
    <3> DEFINE all == MaxFrames * MaxChain
    <3>1. all \in Nat
      BY TxBoundsAssumption
    <3> HIDE DEF all
    <3>2. \A d \in Descs : ring[d].num \in 0..all
      BY <2>2, <3>1 DEF RingInv, Types, all
    <3>. QED
      BY <3>2 DEF all
  <2>4. ring \in [Descs -> [own : BOOLEAN, frame : 0..MaxFrames, tag : BOOLEAN, last : BOOLEAN,
                            num : 0..(MaxFrames * MaxChain)]]
    <3> DEFINE nums == 0..(MaxFrames * MaxChain)
    <3> HIDE DEF nums
    <3>1. ring \in [Descs -> [own : BOOLEAN, frame : 0..MaxFrames, tag : BOOLEAN, last : BOOLEAN, num : nums]]
      BY <2>3 DEF RingInv, Types, nums
    <3>. QED
      BY <3>1 DEF nums
  <2>. QED
    BY <2>4 DEF RingInv, Types, TypeOK
<1>. QED
  BY <1>1, RingInvariance, PTL

(* What the DMA engine is at is the first segment that it was handed and has *)
(* not sent.                                                                 *)
THEOREM SegmentsStayInOrder == ASSUME EthPrio > LwipPrio PROVE Spec => []SegmentsInOrder
<1>1. RingInv => SegmentsInOrder
  <2> SUFFICES ASSUME RingInv, gone < queued PROVE ring[hw].own /\ ring[hw].num = gone + 1
    BY DEF SegmentsInOrder
  <2>1. PICK sent \in 0..NumDescs : Laid(sent)
    BY DEF RingInv
  <2>2. gone \in Nat /\ queued \in Nat /\ filling.left \in Nat
    BY DEF RingInv, Types
  <2>3. sent \in Descs /\ Waiting > 0
    BY <2>1, <2>2, NumDescsAssumption DEF Laid, Waiting, Descs
  <2>4. hw = At(Read, sent) /\ Desc(sent).own
    BY <2>1, <2>2, <2>3 DEF Laid, Descs, Waiting
  <2>5. Desc(sent).num = gone + 1
    BY <2>1, <2>2, <2>3, <2>4 DEF Laid, Descs
  <2>. QED
    BY <2>4, <2>5 DEF Desc
<1>. QED
  BY <1>1, RingInvariance, PTL

(* A frame with a descriptor the DMA engine owns is referenced.              *)
THEOREM FramesHeldWhileSent == ASSUME EthPrio > LwipPrio PROVE Spec => []HeldWhileSent
<1>1. RingInv => HeldWhileSent
  <2> SUFFICES ASSUME RingInv, NEW d \in Descs, ring[d].own
      PROVE  ring[d].frame # NoFrame /\ held[ring[d].frame] = 1
    BY DEF HeldWhileSent
  <2>1. PICK i \in Descs : d = At(Read, i)
    BY AtFacts DEF RingInv, Types
  <2>2. PICK sent \in 0..NumDescs : Laid(sent)
    BY DEF RingInv
  <2>3. Desc(i).frame # NoFrame
    BY <2>1, <2>2 DEF Laid, Desc, Descs
  <2>4. held[Desc(i).frame] = 1
    BY <2>3 DEF RingInv, Chained
  <2>. QED
    BY <2>1, <2>3, <2>4 DEF Desc
<1>. QED
  BY <1>1, RingInvariance, PTL

(* A frame is referenced only while it is in the ring, or could not be       *)
(* copied.                                                                   *)
THEOREM FramesHeldOnlyInRing == ASSUME EthPrio > LwipPrio PROVE Spec => []HeldOnlyInRing
<1>1. RingInv => HeldOnlyInRing
  BY DEF RingInv
<1>. QED
  BY <1>1, RingInvariance, PTL

=============================================================================
