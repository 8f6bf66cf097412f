---------------------------- MODULE EthLinkProofs ----------------------------
(* The start-up of the Ethernet interface, proved for every size of the      *)
(* mailbox and every number of changes, frames and calls: the variables keep *)
(* their types, and no interrupt is served before there is someone to serve  *)
(* it.                                                                       *)
EXTENDS EthLink, SequenceTheorems, TLAPS

----------------------------------------------------------------------------
(* The interrupt routine and the task are at work, or may come to be, only   *)
(* when the MAC's interrupts have been enabled, which is the fifth stage.    *)
AtWork == enabled \/ pending \/ isr # "off" \/ eth_int_q # <<>> \/ task \notin {"none", "wait"}
Started == stage \in Nat \ {0} /\ (AtWork => stage > 5)

(* Behind the fifth stage there are the queue, the task and the interface.   *)
LEMMA FiveStages ==
    ASSUME stage \in Nat, stage > 5
    PROVE  {"queue", "task", "netif"} \subseteq made
<1>1. Stages[1] = "queue" /\ Stages[2] = "task" /\ Stages[3] = "netif"
  BY DEF Stages
<1>2. {1, 2, 3} \subseteq 1..(stage - 1)
  OBVIOUS
<1>. QED
  BY <1>1, <1>2 DEF made

(* A step that neither enables nor starts anything.                          *)
LEMMA KeepsStarted ==
    ASSUME Started, stage' = stage, AtWork' => AtWork
    PROVE  Started'
BY DEF Started

(* An event of the MAC starts nothing unless interrupts are enabled.         *)
LEMMA RaiseKeeps ==
    ASSUME Started, NEW event, Raise(event) \/ UNCHANGED <<raised, pending>>,
           UNCHANGED <<enabled, isr, eth_int_q, task, stage>>
    PROVE  Started'
<1>1. pending' => pending \/ enabled
  BY DEF Raise
<1>. QED
  BY <1>1, KeepsStarted DEF AtWork

(* Of the stages only the fifth enables the interrupts, and none of them     *)
(* starts anything else.                                                     *)
LEMMA BootKeeps == ASSUME Started, Boot PROVE Started'
<1>1. CASE CreateQueue \/ AddNetif \/ EnableSources \/ SetUp
  <2>1. stage' = stage + 1 /\ UNCHANGED <<enabled, pending, isr, eth_int_q, task>>
    BY <1>1 DEF CreateQueue, AddNetif, EnableSources, SetUp, AtStage, isrVars, taskVars
  <2>. QED
    BY <2>1 DEF Started, AtWork
<1>2. CASE CreateTask
  <2>1. stage' = stage + 1 /\ UNCHANGED <<enabled, pending, isr, eth_int_q>> /\ task' = "wait"
    BY <1>2 DEF CreateTask, AtStage, isrVars
  <2>. QED
    BY <2>1 DEF Started, AtWork
<1>3. CASE EnableMac
  <2>1. stage' = stage + 1 /\ stage <= Len(Stages) /\ Stages[stage] = "ints"
    BY <1>3 DEF EnableMac, AtStage
  <2>2. stage \in 1..7
    BY <2>1 DEF Started, Stages
  <2>3. stage = 5
    BY <2>1, <2>2 DEF Stages
  <2>. QED
    BY <2>1, <2>3 DEF Started
<1>4. CASE Restart
  <2>1. stage' = stage + 1 /\ UNCHANGED <<enabled, isr, eth_int_q, task>>
    BY <1>4 DEF Restart, AtStage, taskVars
  <2>2. pending' => pending \/ enabled
    BY <1>4 DEF Restart, Signals, Raise
  <2>. QED
    BY <2>1, <2>2 DEF Started, AtWork
<1>. QED
  BY <1>1, <1>2, <1>3, <1>4 DEF Boot

(* Started is an invariant.                                                  *)
LEMMA StartedAlways == Spec => []Started
<1>1. Init => Started
  BY DEF Init, IntInit, Started, AtWork
<1>2. Started /\ [Next]_vars => Started'
  <2> SUFFICES ASSUME Started, [Next]_vars PROVE Started'
    OBVIOUS
  <2>1. CASE LinkLost \/ Negotiated \/ LinkFound
    <3>1. UNCHANGED <<enabled, isr, eth_int_q, stage, task>>
      BY <2>1 DEF LinkLost, Negotiated, LinkFound, PhyChange, taskVars
    <3>2. Raise("phy") \/ UNCHANGED <<raised, pending>>
      BY <2>1 DEF LinkLost, Negotiated, LinkFound, Signals
    <3>. QED
      BY <3>1, <3>2, RaiseKeeps
  <2>2. CASE FrameComesIn
    BY <2>2, RaiseKeeps DEF FrameComesIn, taskVars
  <2>3. CASE Boot
    BY <2>3, BootKeeps
  <2>4. CASE Isr
    BY <2>4 DEF Isr, IsrStatus, IsrClear, IsrQueue, IsrRest, taskVars,
                ReadStatus, ClearStatus, QueueStatus, Started, AtWork
  <2>5. CASE TaskReceive
    BY <2>5 DEF TaskReceive, EthStep, TakeStatus, Started, AtWork
  <2>6. CASE ReadPhy \/ TellLwip \/ SetMac \/ PassFrame
    <3>1. task \notin {"none", "wait"} /\ UNCHANGED <<stage, enabled, pending, isr, eth_int_q>>
      BY <2>6 DEF ReadPhy, TellLwip, SetMac, PassFrame, EthStep, isrVars
    <3>. QED
      BY <3>1, KeepsStarted DEF AtWork
  <2>7. CASE TaskEnable
    <3>1. task = "enable" /\ stage' = stage
      BY <2>7 DEF TaskEnable, EthStep
    <3>. QED
      BY <3>1, KeepsStarted DEF AtWork
  <2>8. CASE Fetch \/ SrvCall \/ SrvPost \/ SrvReturn
    <3>1. UNCHANGED <<isrVars, task, stage>>
      BY <2>8 DEF Fetch, SrvCall, SrvPost, SrvReturn, SrvStep, taskVars
    <3>. QED
      BY <3>1, KeepsStarted DEF AtWork, isrVars
  <2>9. CASE UNCHANGED vars
    BY <2>9, KeepsStarted DEF vars, isrVars, taskVars, AtWork
  <2>. QED
    BY <2>1, <2>2, <2>3, <2>4, <2>5, <2>6, <2>7, <2>8, <2>9 DEF Next, Environment, Task
<1>. QED
  BY <1>1, <1>2, PTL DEF Spec

(* An interrupt that comes while lwIP's thread is still in the start-up      *)
(* finds the queue and the task, and the task the interface.                 *)
THEOREM InterruptsReady == Spec => []IsrReady
<1>1. Started => IsrReady
  BY FiveStages DEF Started, AtWork, IsrReady
<1>. QED
  BY <1>1, StartedAlways, PTL
----------------------------------------------------------------------------
(* Types, one lemma for the variables of EthInt and one for the mailbox.     *)

(* What the interrupt routine and its task do keeps the types of EthInt.     *)
LEMMA StatusTypes ==
    ASSUME IntTypeOK, NEW events \in SUBSET Events,
           \/ \E event \in Events : Raise(event) /\ UNCHANGED <<enabled, isr, status, eth_int_q>>
           \/ ReadStatus \/ ClearStatus(events) \/ QueueStatus
           \/ TakeStatus \/ EnableInterrupts \/ UNCHANGED isrVars
    PROVE  IntTypeOK'
<1>1. CASE \E event \in Events : Raise(event) /\ UNCHANGED <<enabled, isr, status, eth_int_q>>
  BY <1>1 DEF Raise, IntTypeOK
<1>2. CASE ReadStatus
  BY <1>2 DEF ReadStatus, IntTypeOK
<1>3. CASE ClearStatus(events)
  BY <1>3 DEF ClearStatus, Cleared, IntTypeOK
<1>4. CASE QueueStatus
  BY <1>4 DEF QueueStatus, IntTypeOK
<1>5. CASE TakeStatus
  BY <1>5 DEF TakeStatus, IntTypeOK
<1>6. CASE EnableInterrupts
  BY <1>6 DEF EnableInterrupts, IntTypeOK
<1>7. CASE UNCHANGED isrVars
  BY <1>7 DEF isrVars, IntTypeOK
<1>. QED
  BY <1>1, <1>2, <1>3, <1>4, <1>5, <1>6, <1>7

(* The mailbox holds messages, and never more than it has room for.          *)
MboxOK == mbox \in Seq(Message) /\ Len(mbox) <= MboxSize

(* Both ways to post a message keep the mailbox in bounds.                   *)
LEMMA PostKeepsMbox ==
    ASSUME MboxOK, NEW msg \in Message, sys_mbox_post(msg) \/ sys_mbox_trypost(msg)
    PROVE  MboxOK'
<1>1. CASE mbox' = Append(mbox, msg) /\ Room
  <2>1. mbox' \in Seq(Message) /\ Len(mbox') = Len(mbox) + 1
    BY <1>1, AppendProperties DEF MboxOK
  <2>2. Len(mbox) \in Nat
    BY LenProperties DEF MboxOK
  <2>. QED
    BY <1>1, <2>1, <2>2, MboxAssumption DEF MboxOK, Room
<1>2. CASE mbox' = mbox
  BY <1>2 DEF MboxOK
<1>. QED
  BY <1>1, <1>2 DEF sys_mbox_post, sys_mbox_trypost

(* So does taking one out.                                                   *)
LEMMA FetchKeepsMbox ==
    ASSUME MboxOK, mbox # <<>>, mbox' = Tail(mbox)
    PROVE  Head(mbox) \in Message /\ MboxOK'
<1>1. Head(mbox) \in Message /\ Tail(mbox) \in Seq(Message) /\ Len(Tail(mbox)) = Len(mbox) - 1
  BY HeadTailProperties DEF MboxOK
<1>2. Len(mbox) \in Nat
  BY LenProperties DEF MboxOK
<1>. QED
  BY <1>1, <1>2, MboxAssumption DEF MboxOK

(* The rest of the types.                                                    *)
PhyOK ==
    /\ phy \in [link : BOOLEAN, done : BOOLEAN, rate : Rate] /\ (phy.link => phy.done)
    /\ misr \subseteq Changes /\ told \in BOOLEAN
TaskOK ==
    /\ mac \in Rate /\ failed \in BOOLEAN
    /\ task \in {"none", "wait", "phy", "sts", "tell", "mac", "rx", "enable"}
    /\ work \subseteq Events /\ ui16Val \subseteq Changes
    /\ ui16Status \in [link : BOOLEAN, rate : Rate]
CallsOK == netif_up \in BOOLEAN /\ srv \in {"idle", "post", "wait"} /\ sem \in 0..1

Types == IntTypeOK /\ PhyOK /\ stage \in 1..8 /\ TaskOK /\ MboxOK /\ CallsOK

(* What the PHY signals keeps the types.                                     *)
LEMMA SignalsTypes ==
    ASSUME Types, NEW events \in SUBSET Changes,
           Signals(events) \/ UNCHANGED <<misr, told, raised, pending>>,
           UNCHANGED <<enabled, isr, status, eth_int_q>>
    PROVE  IntTypeOK' /\ misr' \in SUBSET Changes /\ told' \in BOOLEAN
<1>1. IntTypeOK'
  <2>1. (\E event \in Events : Raise(event)) \/ UNCHANGED <<raised, pending>>
    BY DEF Signals, Events
  <2>. QED
    BY <2>1, StatusTypes DEF Types, isrVars
<1>. QED
  BY <1>1 DEF Signals, Types, PhyOK

(* A change of the PHY keeps the types.                                      *)
LEMMA PhyKeepsTypes ==
    ASSUME Types, LinkLost \/ Negotiated \/ LinkFound
    PROVE  Types'
<1>1. UNCHANGED <<enabled, isr, status, eth_int_q, stage, taskVars, lwipVars, srvVars>>
  BY DEF LinkLost, Negotiated, LinkFound, PhyChange
<1>2. PICK events \in SUBSET Changes : Signals(events)
  BY DEF LinkLost, Negotiated, LinkFound, Changes
<1>3. IntTypeOK' /\ misr' \in SUBSET Changes /\ told' \in BOOLEAN
  BY <1>1, <1>2, SignalsTypes
<1>4. phy' \in [link : BOOLEAN, done : BOOLEAN, rate : Rate] /\ (phy'.link => phy'.done)
  <2>. phy \in [link : BOOLEAN, done : BOOLEAN, rate : Rate] /\ (phy.link => phy.done)
    BY DEF Types, PhyOK
  <2>1. CASE LinkLost
    BY <2>1 DEF LinkLost
  <2>2. CASE Negotiated
    BY <2>2 DEF Negotiated
  <2>3. CASE LinkFound
    BY <2>3 DEF LinkFound
  <2>. QED
    BY <2>1, <2>2, <2>3
<1>. QED
  BY <1>1, <1>3, <1>4 DEF Types, PhyOK, TaskOK, MboxOK, CallsOK, taskVars, lwipVars, srvVars

(* So does a stage of the start-up.                                          *)
LEMMA BootKeepsTypes ==
    ASSUME Types, Boot
    PROVE  Types'
<1>1. stage' \in 1..8 /\ UNCHANGED <<srvVars, mbox, sem>>
  BY DEF Types, Boot, CreateQueue, CreateTask, AddNetif, EnableSources, EnableMac, Restart, SetUp,
                   AtStage, Stages
<1>2. netif_up' \in BOOLEAN
  BY DEF Types, Boot, CreateQueue, CreateTask, AddNetif, EnableSources, EnableMac, Restart, SetUp, CallsOK
<1>3. TaskOK'
  BY DEF Types, Boot, CreateQueue, CreateTask, AddNetif, EnableSources, EnableMac, Restart, SetUp,
                   taskVars, TaskOK
<1>4. IntTypeOK' /\ PhyOK'
  <2>. IntTypeOK /\ PhyOK
    BY DEF Types
  <2>1. CASE CreateQueue \/ CreateTask \/ AddNetif \/ SetUp
    BY <2>1, StatusTypes DEF CreateQueue, CreateTask, AddNetif, SetUp, PhyOK
  <2>2. CASE EnableSources
    BY <2>2, StatusTypes DEF EnableSources, PhyOK
  <2>3. CASE EnableMac
    BY <2>3 DEF EnableMac, PhyOK, IntTypeOK, Events
  <2>4. CASE Restart
    <3>1. phy' \in [link : BOOLEAN, done : BOOLEAN, rate : Rate] /\ (phy'.link => phy'.done)
      BY <2>4 DEF Restart, PhyOK
    <3>2. Signals({"link"}) \/ UNCHANGED <<misr, told, raised, pending>>
      BY <2>4 DEF Restart
    <3>3. {"link"} \in SUBSET Changes
      BY DEF Changes
    <3>4. UNCHANGED <<enabled, isr, status, eth_int_q>>
      BY <2>4 DEF Restart
    <3>. QED
      BY <3>1, <3>2, <3>3, <3>4, SignalsTypes DEF PhyOK
  <2>. QED
    BY <2>1, <2>2, <2>3, <2>4 DEF Boot
<1>. QED
  BY <1>1, <1>2, <1>3, <1>4 DEF Types, MboxOK, CallsOK, srvVars

(* So does a step of the Ethernet task.                                      *)
LEMMA TaskKeepsTypes ==
    ASSUME Types, Task
    PROVE  Types'
<1>. IntTypeOK /\ PhyOK /\ stage \in 1..8 /\ TaskOK /\ MboxOK /\ CallsOK
  BY DEF Types
<1>1. UNCHANGED <<phy, told, stage, netif_up, sem, srvVars>>
  BY DEF Task, TaskReceive, ReadPhy, TellLwip, SetMac, PassFrame, TaskEnable, EthStep
<1>2. IntTypeOK'
  BY StatusTypes DEF Task, TaskReceive, ReadPhy, TellLwip, SetMac, PassFrame, TaskEnable
<1>3. MboxOK'
  <2>1. CASE UNCHANGED mbox
    BY <2>1 DEF MboxOK
  <2>2. CASE TellLwip
    BY <2>2, PostKeepsMbox DEF TellLwip, Message, TaskOK, MboxOK
  <2>3. CASE PassFrame
    BY <2>3, PostKeepsMbox DEF PassFrame, Message
  <2>. QED
    BY <2>1, <2>2, <2>3 DEF Task, TaskReceive, ReadPhy, SetMac, TaskEnable
<1>4. misr' \in SUBSET Changes
  BY DEF Task, TaskReceive, ReadPhy, TellLwip, SetMac, PassFrame, TaskEnable, PhyOK
<1>5. TaskOK'
  <2>1. CASE TaskReceive
    BY <2>1 DEF TaskReceive, TakeStatus, TaskOK, IntTypeOK
  <2>2. CASE ReadPhy
    BY <2>2 DEF ReadPhy, TaskOK, PhyOK
  <2>3. CASE TellLwip
    BY <2>3 DEF TellLwip, TaskOK
  <2>4. CASE SetMac
    BY <2>4 DEF SetMac, AfterPhy, NoSts, NoRate, Rate, TaskOK
  <2>5. CASE PassFrame \/ TaskEnable
    BY <2>5 DEF PassFrame, TaskEnable, TaskOK
  <2>. QED
    BY <2>1, <2>2, <2>3, <2>4, <2>5 DEF Task
<1>. QED
  BY <1>1, <1>2, <1>3, <1>4, <1>5 DEF Types, PhyOK, CallsOK, srvVars

(* Every variable keeps its type, and the mailbox its size.                  *)
THEOREM TypeCorrect == Spec => []TypeOK
<1>1. Init => Types
  <2> SUFFICES ASSUME Init PROVE Types
    OBVIOUS
  <2>1. CallsOK /\ stage \in 1..8
    <3>1. netif_up = FALSE /\ srv = "idle" /\ sem = 0 /\ stage = 1
      BY DEF Init
    <3>2. srv \in {"idle", "post", "wait"} /\ sem \in 0..1 /\ stage \in 1..8
      BY <3>1
    <3>3. netif_up \in BOOLEAN
      BY <3>1, Zenon
    <3>. QED
      BY <3>2, <3>3 DEF CallsOK
  <2>2. IntTypeOK
    BY DEF Init, IntInit, IntTypeOK
  <2>3. PhyOK
    BY DEF Init, PhyOK, Changes
  <2>4. TaskOK
    BY DEF Init, TaskOK, Rate, NoRate, NoSts
  <2>5. MboxOK
    BY MboxAssumption, EmptySeq DEF Init, MboxOK
  <2>. QED
    BY <2>1, <2>2, <2>3, <2>4, <2>5 DEF Types
<1>2. Types /\ [Next]_vars => Types'
  <2> SUFFICES ASSUME Types, [Next]_vars PROVE Types'
    OBVIOUS
  <2>. IntTypeOK /\ PhyOK /\ stage \in 1..8 /\ TaskOK /\ MboxOK /\ CallsOK
    BY DEF Types
  <2>1. CASE LinkLost \/ Negotiated \/ LinkFound
    BY <2>1, PhyKeepsTypes
  <2>2. CASE FrameComesIn
    <3>1. IntTypeOK'
      BY <2>2, StatusTypes DEF FrameComesIn, Events
    <3>. QED
      BY <2>2, <3>1
         DEF Types, FrameComesIn, phyVars, taskVars, lwipVars, srvVars, PhyOK, TaskOK, MboxOK, CallsOK
  <2>3. CASE Boot
    BY <2>3, BootKeepsTypes
  <2>4. CASE Isr
    <3>1. IntTypeOK'
      BY <2>4, StatusTypes DEF Isr, IsrStatus, IsrClear, IsrQueue, Events
    <3>2. IsrRest
      BY <2>4 DEF Isr, IsrStatus, IsrClear, IsrQueue
    <3>. QED
      BY <3>1, <3>2
         DEF Types, IsrRest, phyVars, taskVars, lwipVars, srvVars, PhyOK, TaskOK, MboxOK, CallsOK
  <2>5. CASE Task
    BY <2>5, TaskKeepsTypes
  <2>6. CASE Fetch
    <3>1. Head(mbox) \in Message /\ MboxOK'
      BY <2>6, FetchKeepsMbox DEF Fetch
    <3>2. CallsOK'
      BY <2>6, <3>1 DEF Fetch, srvVars, CallsOK, Message
    <3>. QED
      BY <2>6, <3>1, <3>2, StatusTypes DEF Types, Fetch, phyVars, taskVars, PhyOK, TaskOK
  <2>7. CASE SrvCall \/ SrvPost \/ SrvReturn
    <3>1. UNCHANGED <<isrVars, phyVars, stage, taskVars, netif_up>>
      BY <2>7 DEF SrvCall, SrvPost, SrvReturn, SrvStep
    <3>2. MboxOK'
      BY <2>7, PostKeepsMbox DEF SrvCall, SrvPost, SrvReturn, Message, MboxOK
    <3>3. CallsOK'
      BY <2>7, <3>1 DEF SrvCall, SrvPost, SrvReturn, SrvStep, CallsOK
    <3>. QED
      BY <3>1, <3>2, <3>3, StatusTypes DEF Types, phyVars, taskVars, PhyOK, TaskOK
  <2>8. CASE UNCHANGED vars
    BY <2>8, StatusTypes
       DEF Types, vars, phyVars, taskVars, lwipVars, srvVars, PhyOK, TaskOK, MboxOK, CallsOK
  <2>. QED
    BY <2>1, <2>2, <2>3, <2>4, <2>5, <2>6, <2>7, <2>8 DEF Next, Environment
<1>3. Types => TypeOK
  <2>1. Len(Stages) + 1 = 8
    BY DEF Stages
  <2>. QED
    BY <2>1 DEF Types, TypeOK, PhyOK, TaskOK, MboxOK, CallsOK
<1>. QED
  BY <1>1, <1>2, <1>3, PTL DEF Spec
=============================================================================
