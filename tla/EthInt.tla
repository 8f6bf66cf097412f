-------------------------------- MODULE EthInt --------------------------------
(* The Ethernet interrupt: how lwIP_eth_isr hands what the MAC signals to    *)
(* eth_int_task (hal/lwip_eth.c).  The routine reads the status, clears it,  *)
(* disables the interrupts and queues the status; the task works on it and   *)
(* enables the interrupts again.  The MAC goes on between these steps.       *)
(*                                                                           *)
(* The operators change the variables of this module only; the modules that  *)
(* extend it say who runs and what happens beside.                           *)
EXTENDS Board, Sequences, FiniteSets

VARIABLES
    raised,         \* EMAC interrupt status
    enabled,        \* EMAC interrupts are enabled
    pending,        \* the interrupt is pending
    isr,            \* where lwIP_eth_isr is
    status,         \* its variable `status`
    eth_int_q       \* the queue of one status to the task

isrVars == <<raised, enabled, pending, isr, status, eth_int_q>>

Events == {"tx", "rx", "phy"}

IntInit(on) ==
    /\ raised = {} /\ enabled = on /\ pending = FALSE
    /\ isr = "off" /\ status = {} /\ eth_int_q = <<>>

(* An interrupt goes before every task.                                      *)
NoInterrupt == isr = "off" /\ ~pending

(* The MAC signals an event.                                                 *)
Raise(event) ==
    /\ raised' = raised \cup {event}
    /\ pending' = (pending \/ enabled)

----------------------------------------------------------------------------
(* lwIP_eth_isr.                                                             *)

ReadStatus ==
    /\ isr = "off" /\ pending /\ Serves("lwIP_eth_isr", INT_EMAC0)
    /\ isr' = "clear"
    /\ pending' = FALSE
    /\ status' = IF enabled THEN raised ELSE {}
    /\ UNCHANGED <<raised, enabled, eth_int_q>>

(* Mutation: everything is cleared, read or not.                             *)
ClearedAll == {}

Cleared == raised \ status

(* `again` are events whose source still signals them.                       *)
ClearStatus(again) ==
    /\ isr = "clear"
    /\ isr' = "queue"
    /\ raised' = Cleared \cup again
    /\ UNCHANGED <<enabled, pending, status, eth_int_q>>

(* Mutation: the interrupts stay enabled while the task works.               *)
QueueStatusEnabled ==
    /\ isr = "queue"
    /\ isr' = "off"
    /\ eth_int_q' = IF eth_int_q = <<>> THEN <<status>> ELSE eth_int_q
    /\ status' = {}
    /\ UNCHANGED <<raised, enabled, pending>>

QueueStatus ==
    /\ isr = "queue"
    /\ isr' = "off"
    /\ enabled' = FALSE
    /\ eth_int_q' = IF eth_int_q = <<>> THEN <<status>> ELSE eth_int_q
    /\ status' = {}
    /\ UNCHANGED <<raised, pending>>

----------------------------------------------------------------------------
(* eth_int_task: wait for a status; enable the interrupts when done with it. *)

TakeStatus ==
    /\ eth_int_q # <<>>
    /\ eth_int_q' = <<>>
    /\ UNCHANGED <<raised, enabled, pending, isr, status>>

EnableInterrupts ==
    /\ enabled' = TRUE
    /\ pending' = (raised # {})
    /\ UNCHANGED <<raised, isr, status, eth_int_q>>

----------------------------------------------------------------------------
IntTypeOK ==
    /\ raised \subseteq Events /\ {enabled, pending} \subseteq BOOLEAN
    /\ isr \in {"off", "clear", "queue"} /\ status \subseteq Events
    /\ eth_int_q \in {<<>>} \cup {<<s>> : s \in SUBSET Events}

(* The status queue never overflows with something in it: a status that does *)
(* not fit is empty.                                                         *)
NoStatusLost == isr = "queue" /\ eth_int_q # <<>> => status = {}
=============================================================================
