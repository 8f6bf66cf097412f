------------------------------- MODULE Measure -------------------------------
(* Timing and power measurement of the device under test (hal/measure.c):    *)
(* timer 0A captures the device's start and stop edges, timer 0B wraps with  *)
(* it and its interrupt counts the wraps, timer 1 paces the ADC.  The three  *)
(* interrupt service routines preempt the handler task, and each other by    *)
(* priority.  Time is counted in timer clocks since timer 0 was enabled.     *)
EXTENDS Board, Sequences

CONSTANTS
    Period,         \* clocks between wraps (2^16 in the code)
    MaxNow,         \* bound: clocks in one measurement
    MaxEdges,       \* bound: edges of the device in one measurement
    MaxRuns,        \* bound: measurements
    MaxSamples      \* bound: ADC conversions in one measurement

ASSUME PeriodAssumption == Period \in Nat \ {0}
ASSUME BoundAssumption == MaxNow \in Nat /\ MaxEdges \in Nat /\ MaxRuns \in Nat /\ MaxSamples \in Nat

VARIABLES
    (* hardware *)
    now,            \* true time
    timer0,         \* timer 0 (both halves) is enabled
    timer1,         \* timer 1 is enabled and triggers the ADC
    capReg,         \* timer 0A's value at the last edge
    capFlag,        \* CAPA_EVENT status
    wrapFlag,       \* TIMB_TIMEOUT status
    converting,     \* the ADC is at a conversion
    adcFlag,        \* one waits to be read
    (* the processor *)
    masked,         \* a task is in a FreeRTOS critical section
    isrs,           \* active timer ISRs, the innermost first
    cap_time,       \* local of exec_timer_cap_isr
    capPc,          \* where exec_timer_cap_isr is
    task,           \* where the handler is, in exec_timer_start or a report
    (* statics of measure.c *)
    wrap_cnt, wrap_cap_cnt, t_start, t_stop, cap_cnt, avgcnt,
    (* history, for the properties *)
    runs,           \* measurements started
    edges,          \* true times of this measurement's edges
    owed,           \* the wrap interrupt was pending or active at an edge
    aborted,        \* the measurement was started over an unfinished one
    strays,         \* samples counted that were not taken during the run
    report          \* the last report: its kind, the two values read for it,
                    \* and whether the timer was disabled when it began

hw == <<now, timer0, timer1, capReg, capFlag, wrapFlag, converting, adcFlag>>
cpu == <<masked, isrs, cap_time, capPc, task>>
statics == <<wrap_cnt, wrap_cap_cnt, t_start, t_stop, cap_cnt, avgcnt>>
history == <<runs, edges, owed, aborted, strays, report>>
vars == <<hw, cpu, statics, history>>

NoReport == [kind |-> "none", off |-> FALSE, first |-> 0, second |-> 0]

----------------------------------------------------------------------------
(* The nested vectored interrupt controller.  An ISR starts when its flag is *)
(* up and nothing of its priority or a higher one is active; it runs while   *)
(* nothing of a higher priority is ready.  A FreeRTOS critical section holds *)
(* off the priorities up to FREERTOS_SYSCALL_PRIO.  The task runs when no    *)
(* ISR does.                                                                 *)

(* measure_setup: the timers, then the power measurement, each of which sets *)
(* priorities.  The ADC's interrupt keeps that of a reset, the highest.      *)
AfterReset == [i \in {"cap", "wrap", "adc"} |-> ISR_MAX_PRIO_RAW]
exec_timer_setup(prio) == [prio EXCEPT !["cap"] = TIMER_CAP_ISR_PRIO, !["wrap"] = TIMER_WRAP_ISR_PRIO]
power_measure_setup(prio) == [prio EXCEPT !["wrap"] = PWR_SAMPLE_ISR_PRIO]
measure_setup == power_measure_setup(exec_timer_setup(AfterReset))

Prio(i) == measure_setup[i]
Flag(i) == IF i = "cap" THEN capFlag ELSE wrapFlag

Ready(i) ==
    /\ Flag(i)
    /\ \A k \in 1..Len(isrs) : Prio(i) > Prio(isrs[k])
    /\ ~(masked /\ Prio(i) <= FREERTOS_SYSCALL_PRIO)

CanEnter(i) ==
    /\ ~adcFlag
    /\ Ready(i)
    /\ \A j \in {"cap", "wrap"} : Ready(j) => Prio(i) >= Prio(j)

Running(i) ==
    /\ ~adcFlag
    /\ isrs # <<>> /\ Head(isrs) = i
    /\ \A j \in {"cap", "wrap"} : ~Ready(j)

TaskRuns == isrs = <<>> /\ ~adcFlag /\ ~Ready("cap") /\ ~Ready("wrap")

----------------------------------------------------------------------------
(* Hardware *)

(* Assumed: a wrap is counted before the next one, as interrupt latencies    *)
(* and critical sections are far shorter than 65536 clocks.                  *)
Clock ==
    /\ timer0
    /\ now < MaxNow
    /\ (now + 1) % Period = 0 => ~wrapFlag /\ \A k \in 1..Len(isrs) : isrs[k] # "wrap"
    /\ now' = now + 1
    /\ wrapFlag' = (wrapFlag \/ (now + 1) % Period = 0)
    /\ UNCHANGED <<timer0, timer1, capReg, capFlag, converting, adcFlag, cpu, statics, history>>

(* The device raises or lowers its trigger.  Assumed: edges are further      *)
(* apart than the capture ISR is long.                                       *)
Edge ==
    /\ timer0
    /\ ~capFlag
    /\ Len(edges) < MaxEdges
    /\ capReg' = now % Period
    /\ capFlag' = TRUE
    /\ edges' = Append(edges, now)
    /\ owed' = (owed \/ wrapFlag \/ \E k \in 1..Len(isrs) : isrs[k] = "wrap")
    /\ UNCHANGED <<now, timer0, timer1, wrapFlag, converting, adcFlag, cpu, statics,
                   runs, aborted, strays, report>>

(* Timer 1 expires and triggers a conversion, which completes even when the  *)
(* timer is stopped meanwhile.                                               *)
Trigger ==
    /\ timer1
    /\ ~converting /\ avgcnt < MaxSamples
    /\ converting' = TRUE
    /\ UNCHANGED <<now, timer0, timer1, capReg, capFlag, wrapFlag, adcFlag, cpu, statics, history>>

Convert ==
    /\ converting /\ ~adcFlag
    /\ converting' = FALSE
    /\ adcFlag' = TRUE
    /\ UNCHANGED <<now, timer0, timer1, capReg, capFlag, wrapFlag, cpu, statics, history>>

----------------------------------------------------------------------------
(* ADC0SS3_HANDLER; maximum and sum follow avgcnt and are left out.          *)
InRun == \/ cap_cnt = 0 /\ capPc = "count"      \* start stored
         \/ cap_cnt = 1 /\ capPc # "count"      \* stop not yet stored

ADC0SS3_HANDLER ==
    /\ adcFlag /\ Serves("ADC0SS3_HANDLER", INT_ADC0SS3)
    /\ adcFlag' = FALSE
    /\ avgcnt' = avgcnt + 1
    /\ strays' = IF InRun THEN strays ELSE strays + 1
    /\ UNCHANGED <<now, timer0, timer1, capReg, capFlag, wrapFlag, converting, cpu,
                   wrap_cnt, wrap_cap_cnt, t_start, t_stop, cap_cnt,
                   runs, edges, owed, aborted, report>>

(* The time of an edge: the wraps counted so far and the captured value.     *)
(* Mutations: the wraps are not shifted; the start is subtracted at once.    *)
StampUnshifted == wrap_cnt + cap_time
StampDifference == wrap_cnt * Period + cap_time - t_start

Stamp == wrap_cnt * Period + cap_time

(* The stop edge ends counting and sampling.  Mutation: sampling goes on.    *)
StopTimer0 == timer0' = FALSE /\ UNCHANGED timer1

StopTimers == timer0' = FALSE /\ timer1' = FALSE

(* The wraps counted, with the one that came during a capture.               *)
(* Mutation: it is taken over whether it is ahead or not.                    *)
CaughtUpAlways == wrap_cap_cnt

CaughtUp == IF wrap_cap_cnt > wrap_cnt THEN wrap_cap_cnt ELSE wrap_cnt

(* exec_timer_cap_isr, in the steps another ISR can come between.            *)
CapEnter ==
    /\ CanEnter("cap") /\ Serves("exec_timer_cap_isr", INT_TIMER0A)
    /\ isrs' = <<"cap">> \o isrs
    /\ cap_time' = capReg
    /\ capPc' = "store"
    /\ UNCHANGED <<hw, masked, task, statics, history>>

CapStore ==
    /\ Running("cap") /\ capPc = "store"
    /\ IF cap_cnt = 0
       THEN t_start' = Stamp /\ timer1' = TRUE /\ UNCHANGED <<t_stop, timer0>>
       ELSE IF cap_cnt = 1
       THEN t_stop' = Stamp /\ StopTimers /\ UNCHANGED t_start
       ELSE UNCHANGED <<t_start, t_stop, timer0, timer1>>
    /\ capPc' = "count"
    /\ UNCHANGED <<now, capReg, capFlag, wrapFlag, converting, adcFlag, masked, isrs, cap_time, task,
                   wrap_cnt, wrap_cap_cnt, cap_cnt, avgcnt, history>>

CapCount ==
    /\ Running("cap") /\ capPc = "count"
    /\ cap_cnt' = cap_cnt + 1
    /\ wrap_cnt' = CaughtUp
    /\ capPc' = "clear"
    /\ UNCHANGED <<hw, masked, isrs, cap_time, task,
                   wrap_cap_cnt, t_start, t_stop, avgcnt, history>>

CapClear ==
    /\ Running("cap") /\ capPc = "clear"
    /\ capFlag' = FALSE
    /\ isrs' = Tail(isrs)
    /\ capPc' = "off"
    /\ UNCHANGED <<now, timer0, timer1, capReg, wrapFlag, converting, adcFlag, masked, cap_time, task,
                   statics, history>>

(* exec_timer_wrap_isr: clears its flag, then counts the wrap or, finding a  *)
(* capture pending, leaves the count to it in wrap_cap_cnt.                  *)
WrapEnter ==
    /\ CanEnter("wrap") /\ Serves("exec_timer_wrap_isr", INT_TIMER0B)
    /\ isrs' = <<"wrap">> \o isrs
    /\ wrapFlag' = FALSE
    /\ UNCHANGED <<now, timer0, timer1, capReg, capFlag, converting, adcFlag, masked, cap_time, capPc, task,
                   statics, history>>

WrapCount ==
    /\ Running("wrap")
    /\ IF capFlag
       THEN wrap_cap_cnt' = wrap_cnt + 1 /\ UNCHANGED wrap_cnt
       ELSE /\ wrap_cnt' = CaughtUp + 1
            /\ UNCHANGED wrap_cap_cnt
    /\ isrs' = Tail(isrs)
    /\ UNCHANGED <<hw, masked, cap_time, capPc, task,
                   t_start, t_stop, cap_cnt, avgcnt, history>>

----------------------------------------------------------------------------
(* Tasks *)

(* Assumed: a conversion, which takes a microsecond, is over before the next *)
(* command of the PC comes in.                                               *)
Command == TaskRuns /\ task = "idle" /\ (timer1 \/ ~converting)

(* exec_timer_start, first the counters that the ISRs may be using ...       *)
StartReset ==
    /\ Command
    /\ runs < MaxRuns
    /\ wrap_cnt' = 0
    /\ t_start' = 0
    /\ t_stop' = 0
    /\ cap_cnt' = 0
    /\ avgcnt' = 0
    /\ task' = "enable"
    /\ runs' = runs + 1
    /\ aborted' = timer0
    /\ edges' = <<>> /\ owed' = FALSE /\ strays' = 0 /\ report' = NoReport
    /\ UNCHANGED <<hw, masked, isrs, cap_time, capPc, wrap_cap_cnt>>

(* ... then timer 0; enabling a timer that is stopped restarts its count.    *)
StartEnable ==
    /\ TaskRuns
    /\ task = "enable"
    /\ now' = IF timer0 THEN now ELSE 0
    /\ timer0' = TRUE
    /\ task' = "idle"
    /\ UNCHANGED <<timer1, capReg, capFlag, wrapFlag, converting, adcFlag, masked, isrs, cap_time, capPc,
                   statics, history>>

(* The handler, which also starts measurements, reports on the last one: the *)
(* times of start and stop, or the sum of the samples (1 each) and their     *)
(* number.  Nothing is locked, the compiler may read sum and number in       *)
(* either order, and nobody asks measure_isrunning.                          *)
Getters(kind) ==
    IF kind = "time" THEN <<t_start, t_stop>> ELSE <<avgcnt, avgcnt>>

ReportFirst ==
    /\ Command
    /\ runs > 0 /\ report = NoReport
    /\ \E kind \in {"time", "power"} :
        report' = [kind |-> kind, off |-> ~timer0, first |-> Getters(kind)[1], second |-> 0]
    /\ task' = "report"
    /\ UNCHANGED <<hw, masked, isrs, cap_time, capPc, statics, runs, edges, owed, aborted, strays>>

ReportSecond ==
    /\ TaskRuns
    /\ task = "report"
    /\ report' = [report EXCEPT !.second = Getters(report.kind)[2]]
    /\ task' = "idle"
    /\ UNCHANGED <<hw, masked, isrs, cap_time, capPc, statics, runs, edges, owed, aborted, strays>>

(* Any task may enter and leave a critical section (sys_arch_protect, the    *)
(* kernel itself).                                                           *)
Critical ==
    /\ TaskRuns
    /\ masked' = ~masked
    /\ UNCHANGED <<hw, isrs, cap_time, capPc, task, statics, history>>

----------------------------------------------------------------------------
Init ==
    /\ now = 0 /\ timer0 = FALSE /\ timer1 = FALSE
    /\ capReg = 0 /\ capFlag = FALSE /\ wrapFlag = FALSE
    /\ converting = FALSE /\ adcFlag = FALSE
    /\ masked = FALSE /\ isrs = <<>> /\ cap_time = 0 /\ capPc = "off" /\ task = "idle"
    /\ wrap_cnt = 0 /\ wrap_cap_cnt = 0 /\ t_start = 0 /\ t_stop = 0
    /\ cap_cnt = 0 /\ avgcnt = 0
    /\ runs = 0 /\ edges = <<>> /\ owed = FALSE
    /\ aborted = FALSE /\ strays = 0 /\ report = NoReport

Next ==
    \/ Clock \/ Edge \/ Trigger \/ Convert
    \/ ADC0SS3_HANDLER
    \/ CapEnter \/ CapStore \/ CapCount \/ CapClear
    \/ WrapEnter \/ WrapCount
    \/ StartReset \/ StartEnable \/ ReportFirst \/ ReportSecond \/ Critical

Spec == Init /\ [][Next]_vars

----------------------------------------------------------------------------
(* Properties *)

(* Type invariant: counters keep their width and stamps stay in range.       *)
TypeOK ==
    /\ now \in 0..MaxNow /\ capReg \in 0..(Period - 1)
    /\ timer0 \in BOOLEAN /\ timer1 \in BOOLEAN
    /\ capFlag \in BOOLEAN /\ wrapFlag \in BOOLEAN
    /\ converting \in BOOLEAN /\ adcFlag \in BOOLEAN
    /\ masked \in BOOLEAN
    /\ isrs \in Seq({"cap", "wrap"}) /\ Len(isrs) <= 2
    /\ capPc \in {"off", "store", "count", "clear"}
    /\ task \in {"idle", "enable", "report"}
    /\ report \in [kind : {"none", "time", "power"}, off : BOOLEAN, first : Nat, second : Nat]
    /\ wrap_cnt \in Nat /\ wrap_cap_cnt \in Nat /\ t_start \in Nat /\ t_stop \in Nat
    /\ cap_cnt \in Nat /\ avgcnt \in Nat

Finished == cap_cnt >= 2 /\ task = "idle"
Elapsed == t_stop - t_start                 \* as XBH_HandleRePorttimestampRequest reports it
TrueElapsed == edges[2] - edges[1]

(* A finished measurement is off by one wrap at most, and its time within    *)
(* the wrap is always exact.                                                 *)
WithinOneWrap == Finished => Elapsed - TrueElapsed \in {-Period, 0, Period}

(* A finished measurement is exact if no edge came while the interrupt of a  *)
(* wrap was pending or being served, whatever interrupts came between the    *)
(* edge and the end of its capture.                                          *)
ExactUnlessOwed == Finished /\ ~owed => Elapsed = TrueElapsed

(* Samples are counted only while the device runs, but for the one whose     *)
(* conversion the stop edge could not prevent; unless the measurement before *)
(* it was left unfinished and timer 1 still runs.                            *)
SamplesInRun == ~aborted => strays <= 1

(* "Locking not required since this should only be run after timer is        *)
(* disabled": a report begun with the timer disabled is one of the finished  *)
(* measurement, whatever interrupts come between its readings.  Its time is  *)
(* right but for a wrap, its sum and number of samples belong together.      *)
(* Bound: one report for each measurement.                                   *)
ReportExact ==
    report.off /\ task # "report" =>
        IF report.kind = "time"
        THEN report.second - report.first - TrueElapsed \in {-Period, 0, Period}
        ELSE report.second = report.first

(* What hal/isr_prio.h says of TIMER_WRAP_ISR_PRIO, "wrap must always happen *)
(* before capture when wrapping is valid", and measure.c of the wrap ISR,    *)
(* "should be of higher priority": no capture is taken up over a wrap that   *)
(* waits to be counted.                                                      *)
WrapBeforeCapture == [][capPc = "off" /\ capPc' # "off" => ~wrapFlag]_vars
=============================================================================
