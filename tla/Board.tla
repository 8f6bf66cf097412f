-------------------------------- MODULE Board --------------------------------
(* What the interrupts of the board are served by (startup_gcc.c) and which  *)
(* goes before which (isr_prio.h).  The modules whose components have an     *)
(* interrupt routine extend this one: the routine runs because its slot of   *)
(* the vector table holds it, and with the priority that was set last.       *)
EXTENDS Integers

(* hw_ints.h: the interrupts that the firmware enables.                      *)
INT_ADC0SS3 == 33
INT_WATCHDOG == 34
INT_TIMER0A == 35
INT_TIMER0B == 36
INT_EMAC0 == 56

(* The vector table, from slot 1.  An interrupt nobody expects ends in an    *)
(* endless loop.                                                             *)
Unused == {7, 8, 9, 10, 13, 84, 90, 120, 122, 123, 124}

g_pfnVectors ==
    [[i \in 1..127 |-> IF i \in Unused THEN "none" ELSE "IntDefaultHandler"] EXCEPT
        ![1] = "ResetISR", ![2] = "NmiSR", ![3] = "FaultISR",
        ![11] = "vPortSVCHandler", ![14] = "xPortPendSVHandler", ![15] = "xPortSysTickHandler",
        ![INT_ADC0SS3] = "ADC0SS3_HANDLER", ![INT_WATCHDOG] = "watchdog_isr",
        ![INT_TIMER0A] = "exec_timer_cap_isr", ![INT_TIMER0B] = "exec_timer_wrap_isr",
        ![INT_EMAC0] = "lwIP_eth_isr"]

Serves(handler, int) == g_pfnVectors[int] = handler

(* Priorities, before the encoding that turns the numbers round: the higher  *)
(* goes first.  FreeRTOS' critical sections hold off those up to its own.    *)
ISR_MAX_PRIO_RAW == 7
FREERTOS_KERNEL_PRIO == 0
FREERTOS_SYSCALL_PRIO == ISR_MAX_PRIO_RAW - 3
ETH_ISR_PRIO == FREERTOS_KERNEL_PRIO
TIMER_WRAP_ISR_PRIO == ISR_MAX_PRIO_RAW - 1
TIMER_CAP_ISR_PRIO == ISR_MAX_PRIO_RAW - 2
PWR_SAMPLE_ISR_PRIO == FREERTOS_SYSCALL_PRIO
=============================================================================
