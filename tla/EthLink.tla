-------------------------------- MODULE EthLink --------------------------------
(* Bringing up the Ethernet interface and following its cable: the start-up  *)
(* of hal/lwip_eth.c on lwIP's thread, the PHY and its interrupt, the task   *)
(* that reads it and tells lwIP and the MAC, and lwIP's mailbox through      *)
(* which the Ethernet task and the server's socket calls reach that thread.  *)
(* The model begins when main() starts the scheduler: init_ethernet has set  *)
(* the MAC to 100 Mbit/s full duplex, and the mailbox and the tasks exist.   *)
EXTENDS EthInt

CONSTANTS
    MboxSize,       \* TCPIP_MBOX_SIZE (16)
    MaxChanges,     \* bound: changes of the PHY's state
    MaxFrames,      \* bound: frames received
    MaxCalls        \* bound: socket calls of the server task

ASSUME MboxAssumption == MboxSize \in Nat \ {0}
ASSUME LinkBoundsAssumption == {MaxChanges, MaxFrames, MaxCalls} \subseteq Nat

VARIABLES
    phy,            \* link is up; auto-negotiation is done, and its result
    misr,           \* the PHY's interrupt status, EPHY_MISR1
    stage,          \* how far lwIP's thread is in the start-up
    mac,            \* speed and duplex the MAC is configured for
    netif_up,       \* NETIF_FLAG_LINK_UP of lwip_netif
    task,           \* where eth_int_task is
    work,           \* the status it works on
    ui16Val,        \* EPHY_MISR1 as tivaif_process_phy_interrupt read it
    ui16Status,     \* EPHY_STS as it read it
    mbox,           \* lwIP's mailbox
    srv,            \* where the server task is in a socket call
    sem,            \* the semaphore it waits on
    changes, frames, calls,     \* counted against the bounds
    told,           \* history: the PHY signalled a change of the link
    failed          \* history: tcpip_callback found no memory

phyVars == <<phy, misr, changes, told>>
taskVars == <<mac, task, work, ui16Val, ui16Status, failed>>
lwipVars == <<netif_up, mbox, sem>>
srvVars == <<srv, calls>>
vars == <<isrVars, phyVars, stage, taskVars, lwipVars, srvVars, frames>>

Rate == [fast : BOOLEAN, full : BOOLEAN]
Changes == {"link", "speed", "duplex", "anc"}
Message == [type : {"link"}, up : BOOLEAN] \cup [type : {"frame", "call"}]
NoRate == [fast |-> FALSE, full |-> FALSE]
NoSts == [link |-> FALSE, rate |-> NoRate]

Init ==
    /\ IntInit(FALSE)
    /\ phy \in [link : BOOLEAN, done : {TRUE}, rate : Rate]
    /\ misr = {"link", "anc"}
    /\ stage = 1
    /\ mac = [fast |-> TRUE, full |-> TRUE] /\ netif_up = FALSE
    /\ task = "none" /\ work = {} /\ ui16Val = {} /\ ui16Status = NoSts
    /\ mbox = <<>> /\ srv = "idle" /\ sem = 0
    /\ changes = 0 /\ frames = 0 /\ calls = 0 /\ told = FALSE /\ failed = FALSE

----------------------------------------------------------------------------
(* The stages of the start-up, in order, and those behind us.                *)
(* Mutation: the interface is added before the queue and the task exist.     *)
StagesNetifFirst == <<"netif", "sources", "ints", "restart", "queue", "task", "up">>

Stages == <<"queue", "task", "netif", "sources", "ints", "restart", "up">>

made == {Stages[i] : i \in 1..(stage - 1)}
Running == stage > Len(Stages)

----------------------------------------------------------------------------
(* Mailboxes (sys_arch.c): a post waits for room, a trypost gives up.        *)

(* Mutation: the room is not looked at.                                      *)
RoomUnchecked == TRUE

Room == Len(mbox) < MboxSize

(* Mutation: a post that finds no room is lost.                              *)
sys_mbox_post_drop(msg) == mbox' = IF Room THEN Append(mbox, msg) ELSE mbox

sys_mbox_post(msg) == Room /\ mbox' = Append(mbox, msg)

sys_mbox_trypost(msg) == mbox' = IF Room THEN Append(mbox, msg) ELSE mbox

----------------------------------------------------------------------------
(* Who runs: interrupts, then the Ethernet task unless it waits, then lwIP's *)
(* thread and the server task, time sliced.                                  *)

Waits ==
    \/ task = "none"
    \/ task = "wait" /\ eth_int_q = <<>>
    \/ task = "tell" /\ ~Room

EthRuns == NoInterrupt /\ ~Waits
OthersRun == NoInterrupt /\ Waits

----------------------------------------------------------------------------
(* The PHY.  It keeps its interrupt line up until its status is read.        *)

Signals(events) ==
    /\ misr' = misr \cup events
    /\ IF "ints" \in made THEN Raise("phy") ELSE UNCHANGED <<raised, pending>>
    /\ told' = (told \/ ("ints" \in made /\ "link" \in events))

PhyChange ==
    /\ changes < MaxChanges
    /\ changes' = changes + 1
    /\ UNCHANGED <<enabled, isr, status, eth_int_q, stage, taskVars, lwipVars, srvVars, frames>>

LinkLost ==
    /\ phy.link
    /\ phy' = [phy EXCEPT !.link = FALSE, !.done = FALSE]
    /\ Signals({"link"})
    /\ PhyChange

Negotiated ==
    /\ ~phy.done
    /\ \E r \in Rate :
        /\ phy' = [phy EXCEPT !.done = TRUE, !.rate = r]
        /\ Signals({"anc"} \cup (IF r.fast # phy.rate.fast THEN {"speed"} ELSE {})
                           \cup (IF r.full # phy.rate.full THEN {"duplex"} ELSE {}))
    /\ PhyChange

LinkFound ==
    /\ phy.done /\ ~phy.link
    /\ phy' = [phy EXCEPT !.link = TRUE]
    /\ Signals({"link"})
    /\ PhyChange

FrameComesIn ==
    /\ "ints" \in made
    /\ frames < MaxFrames
    /\ frames' = frames + 1
    /\ Raise("rx")
    /\ UNCHANGED <<enabled, isr, status, eth_int_q, phyVars, stage, taskVars, lwipVars, srvVars>>

----------------------------------------------------------------------------
(* tcpip_init_cb, on lwIP's thread: it creates the queue and the task and    *)
(* adds the interface, which initialises the hardware (tivaif_hwinit).       *)

AtStage(s) ==
    /\ OthersRun
    /\ stage <= Len(Stages) /\ Stages[stage] = s
    /\ stage' = stage + 1
    /\ UNCHANGED <<changes, frames, srvVars, mbox, sem>>

CreateQueue ==
    /\ AtStage("queue")
    /\ UNCHANGED <<isrVars, phy, misr, told, taskVars, netif_up>>

(* The new task has the higher priority and runs until it waits.             *)
CreateTask ==
    /\ AtStage("task")
    /\ task' = "wait"
    /\ UNCHANGED <<isrVars, phy, misr, told, mac, work, ui16Val, ui16Status, failed, netif_up>>

(* tivaif_init: the interface's state and functions; the link is taken to be *)
(* up.                                                                       *)
AddNetif ==
    /\ AtStage("netif")
    /\ netif_up' = TRUE
    /\ UNCHANGED <<isrVars, phy, misr, told, taskVars>>

(* The PHY's sources are enabled and what it has signalled so far forgotten. *)
EnableSources ==
    /\ AtStage("sources")
    /\ misr' = {}
    /\ UNCHANGED <<isrVars, phy, told, taskVars, netif_up>>

(* Interrupts are cleared, then enabled.                                     *)
EnableMac ==
    /\ AtStage("ints")
    /\ raised' = IF misr = {} THEN {} ELSE {"phy"}
    /\ enabled' = TRUE
    /\ pending' = (raised' # {})
    /\ UNCHANGED <<isr, status, eth_int_q, phy, misr, told, taskVars, netif_up>>

(* Auto-negotiation begins anew; a link that was up is lost.                 *)
Restart ==
    /\ AtStage("restart")
    /\ phy' = [phy EXCEPT !.link = FALSE, !.done = FALSE]
    /\ IF phy.link THEN Signals({"link"}) ELSE UNCHANGED <<misr, told, raised, pending>>
    /\ UNCHANGED <<enabled, isr, status, eth_int_q, taskVars, netif_up>>

(* netif_set_up, and the rest of netif_add.                                  *)
SetUp ==
    /\ AtStage("up")
    /\ UNCHANGED <<isrVars, phy, misr, told, taskVars, netif_up>>

Boot == CreateQueue \/ CreateTask \/ AddNetif \/ EnableSources \/ EnableMac \/ Restart \/ SetUp

----------------------------------------------------------------------------
(* The interrupt routine.                                                    *)

IsrRest == UNCHANGED <<phyVars, stage, taskVars, lwipVars, srvVars, frames>>

IsrStatus == ReadStatus /\ IsrRest
IsrClear == ClearStatus(IF misr = {} THEN {} ELSE {"phy"}) /\ IsrRest
IsrQueue == QueueStatus /\ IsrRest

Isr == IsrStatus \/ IsrClear \/ IsrQueue

----------------------------------------------------------------------------
(* eth_int_task: tivaif_interrupt and tivaif_process_phy_interrupt.          *)

EthStep(from) ==
    /\ EthRuns
    /\ task = from
    /\ UNCHANGED <<phy, changes, told, stage, netif_up, sem, srvVars, frames>>

AfterPhy == IF "rx" \in work THEN "rx" ELSE "enable"

TaskReceive ==
    /\ EthStep("wait")
    /\ TakeStatus
    /\ work' = Head(eth_int_q)
    /\ task' = IF "phy" \in work' THEN "phy" ELSE IF "rx" \in work' THEN "rx" ELSE "enable"
    /\ UNCHANGED <<misr, mac, ui16Val, ui16Status, failed, mbox>>

(* The interrupt status, which reading clears, is read first, then the       *)
(* state.  Mutation: the other way round.                                    *)
ReadPhyStateFirst ==
    /\ \/ /\ EthStep("phy")
          /\ ui16Status' = [link |-> phy.link, rate |-> phy.rate]
          /\ task' = "sts"
          /\ UNCHANGED <<misr, ui16Val>>
       \/ /\ EthStep("sts")
          /\ ui16Val' = misr /\ misr' = {}
          /\ task' = IF "link" \in misr THEN "tell" ELSE "mac"
          /\ UNCHANGED ui16Status
    /\ UNCHANGED <<isrVars, mac, work, failed, mbox>>

ReadPhy ==
    /\ \/ /\ EthStep("phy")
          /\ ui16Val' = misr /\ misr' = {}
          /\ task' = "sts"
          /\ UNCHANGED ui16Status
       \/ /\ EthStep("sts")
          /\ ui16Status' = [link |-> phy.link, rate |-> phy.rate]
          /\ task' = IF "link" \in ui16Val THEN "tell" ELSE "mac"
          /\ UNCHANGED <<misr, ui16Val>>
    /\ UNCHANGED <<isrVars, mac, work, failed, mbox>>

(* tcpip_callback with netif_set_link_up or netif_set_link_down.  Its result *)
(* is not looked at.                                                         *)
TellLwip ==
    /\ EthStep("tell")
    /\ task' = "mac"
    /\ \/ sys_mbox_post([type |-> "link", up |-> ui16Status.link]) /\ UNCHANGED failed
       \/ failed' = TRUE /\ UNCHANGED mbox
    /\ UNCHANGED <<isrVars, misr, mac, work, ui16Val, ui16Status>>

(* SPEED is tested twice and DUPLEXM never; the end of a negotiation is.     *)
(* Mutation: it is not.                                                      *)
ReconfiguresOnSpeed == ui16Val \cap {"speed"} # {}

Reconfigures == ui16Val \cap {"speed", "anc"} # {}

SetMac ==
    /\ EthStep("mac")
    /\ mac' = IF Reconfigures THEN ui16Status.rate ELSE mac
    /\ ui16Val' = {} /\ ui16Status' = NoSts
    /\ task' = AfterPhy
    /\ UNCHANGED <<isrVars, misr, work, failed, mbox>>

(* tivaif_receive, one frame: tcpip_input.                                   *)
PassFrame ==
    /\ EthStep("rx")
    /\ sys_mbox_trypost([type |-> "frame"])
    /\ task' = "enable"
    /\ UNCHANGED <<isrVars, misr, mac, work, ui16Val, ui16Status, failed>>

TaskEnable ==
    /\ EthStep("enable")
    /\ EnableInterrupts
    /\ task' = "wait" /\ work' = {}
    /\ UNCHANGED <<misr, mac, ui16Val, ui16Status, failed, mbox>>

Task == TaskReceive \/ ReadPhy \/ TellLwip \/ SetMac \/ PassFrame \/ TaskEnable

----------------------------------------------------------------------------
(* lwIP's thread: one message at a time.                                     *)
Fetch ==
    /\ OthersRun /\ Running
    /\ mbox # <<>>
    /\ mbox' = Tail(mbox)
    /\ LET msg == Head(mbox)
       IN  /\ netif_up' = IF msg.type = "link" THEN msg.up ELSE netif_up
           /\ sem' = IF msg.type = "call" THEN 1 ELSE sem
    /\ UNCHANGED <<isrVars, phyVars, stage, taskVars, srvVars, frames>>

(* The server task: a socket call is posted to lwIP's thread and waited for. *)
SrvStep(from, to) ==
    /\ OthersRun
    /\ srv = from /\ srv' = to
    /\ UNCHANGED <<isrVars, phyVars, stage, taskVars, netif_up, frames>>

SrvCall ==
    /\ SrvStep("idle", "post")
    /\ calls < MaxCalls /\ calls' = calls + 1
    /\ UNCHANGED <<mbox, sem>>

SrvPost ==
    /\ SrvStep("post", "wait")
    /\ sys_mbox_post([type |-> "call"])
    /\ UNCHANGED <<sem, calls>>

SrvReturn ==
    /\ SrvStep("wait", "idle")
    /\ sem = 1 /\ sem' = 0
    /\ UNCHANGED <<mbox, calls>>

----------------------------------------------------------------------------
Environment == LinkLost \/ Negotiated \/ LinkFound \/ FrameComesIn

Next == Environment \/ Boot \/ Isr \/ Task \/ Fetch \/ SrvCall \/ SrvPost \/ SrvReturn

Spec == Init /\ [][Next]_vars

(* The processor does not stop, and the scheduler lets every task that can   *)
(* run, run; cable, network and server do what they like.                    *)
FairSpec ==
    Spec /\ WF_vars(Boot) /\ WF_vars(Isr) /\ WF_vars(Task) /\ WF_vars(Fetch)
         /\ WF_vars(SrvPost) /\ WF_vars(SrvReturn)

----------------------------------------------------------------------------
(* Type invariant: the mailbox never holds more than it has room for.        *)
TypeOK ==
    /\ IntTypeOK
    /\ phy \in [link : BOOLEAN, done : BOOLEAN, rate : Rate] /\ (phy.link => phy.done)
    /\ misr \subseteq Changes /\ ui16Val \subseteq Changes /\ work \subseteq Events
    /\ stage \in 1..(Len(Stages) + 1)
    /\ mac \in Rate /\ {netif_up, told, failed} \subseteq BOOLEAN
    /\ task \in {"none", "wait", "phy", "sts", "tell", "mac", "rx", "enable"}
    /\ ui16Status \in [link : BOOLEAN, rate : Rate]
    /\ mbox \in Seq(Message) /\ Len(mbox) <= MboxSize
    /\ srv \in {"idle", "post", "wait"} /\ sem \in 0..1

(* An interrupt that comes during the start-up finds the queue it writes to  *)
(* and the task it wakes, and the task finds the interface set up.           *)
IsrReady ==
    /\ isr # "off" => {"queue", "task"} \subseteq made
    /\ task \notin {"none", "wait"} => "netif" \in made

(* lwIP gets to know the state of the link, however the cable is pulled and  *)
(* plugged while interrupts are disabled and the mailbox is full, once the   *)
(* PHY has signalled a change; calls of tcpip_callback that find no memory   *)
(* excepted.                                                                 *)
Stale == told /\ ~failed /\ netif_up # phy.link
LinkKnown == Stale ~> ~Stale

(* The MAC gets to run at the speed and in the mode the PHY has negotiated.  *)
MacFollowsPhy ==
    (phy.done /\ "restart" \in made /\ mac # phy.rate) ~> (mac = phy.rate \/ ~phy.done)

(* The Ethernet task, lwIP's thread and the server never wait for each other *)
(* for ever: every socket call returns.                                      *)
CallsReturn == srv # "idle" ~> srv = "idle"
=============================================================================
