---------------------------- MODULE MeasureProofs ----------------------------
(* How wrong a measured time can be, which samples count and what a report   *)
(* is of, proved for every period of the timer and any number of clocks,     *)
(* edges, measurements and samples.                                          *)
EXTENDS Measure, SequenceTheorems, TLAPS

----------------------------------------------------------------------------
(* The capture routine may interrupt the wrap routine, and nothing else may  *)
(* interrupt either but the ADC's.                                           *)
IsrShape ==
    \/ isrs \in {<<>>, <<"wrap">>} /\ capPc = "off"
    \/ isrs \in {<<"cap">>, <<"cap", "wrap">>} /\ capPc \in {"store", "count", "clear"} /\ capFlag

Wrapping == isrs \in {<<"wrap">>, <<"cap", "wrap">>}

Numbers ==
    /\ now \in Nat /\ now <= MaxNow /\ capReg \in 0..(Period - 1) /\ cap_time \in Nat
    /\ wrap_cnt \in Nat /\ t_start \in Nat /\ t_stop \in Nat /\ cap_cnt \in Nat
    /\ avgcnt \in Nat /\ runs \in Nat /\ strays \in Nat
    /\ edges \in Seq(Nat)

Flags ==
    /\ timer0 \in BOOLEAN /\ timer1 \in BOOLEAN /\ capFlag \in BOOLEAN /\ wrapFlag \in BOOLEAN
    /\ converting \in BOOLEAN /\ adcFlag \in BOOLEAN /\ masked \in BOOLEAN
    /\ owed \in BOOLEAN /\ aborted \in BOOLEAN
    /\ task \in {"idle", "enable", "report"}

Types ==
    /\ Numbers /\ Flags /\ IsrShape
    /\ report \in [kind : {"none", "time", "power"}, off : BOOLEAN, first : Nat, second : Nat]

(* The edges whose times are stored, and those that are counted or pending.  *)
Stamped == IF capPc = "count" THEN cap_cnt + 1 ELSE cap_cnt
EdgesCounted == Len(edges) = IF capFlag /\ capPc # "clear" THEN cap_cnt + 1 ELSE cap_cnt

(* With the priorities as they are set, the wrap routine never finds a       *)
(* capture pending, and leaves it nothing to catch up.                       *)
NothingLeft == wrap_cap_cnt = 0

(* A stopped timer counts no edges: there were none yet or two already.      *)
TimerStops ==
    /\ timer1 => timer0
    /\ ~timer0 => edges = <<>> \/ Stamped >= 2
    /\ task = "enable" => report = NoReport
    /\ runs > 0 /\ task # "enable" /\ ~timer0 => Stamped >= 2

(* Wraps still to be counted, and what the count is ahead of the clock.  It  *)
(* changes only when a measurement starts.                                   *)
Due == IF wrapFlag \/ Wrapping THEN 1 ELSE 0
Base == wrap_cnt + Due - now \div Period
OneDue == ~(wrapFlag /\ Wrapping)

(* What was captured of an edge that is not stored yet.                      *)
Missed(owing) == IF owing THEN {0, 1} ELSE {0}

EdgePending ==
    capFlag /\ capPc \in {"off", "store"} =>
        LET e == edges[Len(edges)]
        IN  /\ capReg = e % Period
            /\ capPc = "store" => cap_time = capReg
            /\ \E k \in Missed(owed) : wrap_cnt = e \div Period + Base - k

StartKnown ==
    Stamped = 1 => \E k \in Missed(owed) : t_start = edges[1] + (Base - k) * Period

Both ==
    Stamped >= 2 => \E j, k \in Missed(owed) : t_stop - t_start = TrueElapsed + (j - k) * Period

(* Samples of a measurement that was not started over another one.           *)
Sampling ==
    ~aborted =>
        /\ Stamped = 0 => ~timer1 /\ ~converting /\ ~adcFlag
        /\ Stamped <= 1 => strays = 0
        /\ Stamped >= 2 => /\ ~timer1
                           /\ ~(converting /\ adcFlag)
                           /\ strays <= IF converting \/ adcFlag THEN 0 ELSE 1

(* A report begun with the timer disabled is of what is kept until the next  *)
(* measurement.                                                              *)
Reporting ==
    report.off =>
        /\ ~timer0 /\ Stamped >= 2 /\ capPc = "off" /\ ~capFlag
        /\ report.kind = "time" =>
            report.first = t_start /\ (task # "report" => report.second = t_stop)
        /\ report.kind = "power" =>
            IF task = "report"
            THEN report.first = avgcnt /\ ~converting /\ ~adcFlag
            ELSE report.second = report.first
        /\ report.kind # "none"

Counted == Types /\ EdgesCounted /\ NothingLeft /\ TimerStops /\ OneDue /\ Sampling /\ Reporting
Timed == EdgePending /\ StartKnown /\ Both

IInv == Counted /\ Timed

----------------------------------------------------------------------------
(* Who may run, in terms of the routines that are active.                    *)

LEMMA Priorities == Prio("cap") = 5 /\ Prio("wrap") = 4 /\ FREERTOS_SYSCALL_PRIO = 4
BY DEF Prio, measure_setup, power_measure_setup, exec_timer_setup, AfterReset,
       TIMER_CAP_ISR_PRIO, TIMER_WRAP_ISR_PRIO, PWR_SAMPLE_ISR_PRIO,
       FREERTOS_SYSCALL_PRIO, ISR_MAX_PRIO_RAW

LEMMA Distinct ==
    <<>> \notin {<<"wrap">>, <<"cap", "wrap">>} /\ <<"cap">> \notin {<<"wrap">>, <<"cap", "wrap">>}
OBVIOUS

LEMMA Shapes ==
    /\ Len(<<>>) = 0 /\ Len(<<"wrap">>) = 1 /\ Len(<<"cap">>) = 1 /\ Len(<<"cap", "wrap">>) = 2
    /\ <<"cap">> \o <<>> = <<"cap">> /\ <<"wrap">> \o <<>> = <<"wrap">>
    /\ <<"cap">> \o <<"wrap">> = <<"cap", "wrap">>
    /\ Tail(<<"cap">>) = <<>> /\ Tail(<<"wrap">>) = <<>> /\ Tail(<<"cap", "wrap">>) = <<"wrap">>
    /\ Head(<<"cap">>) = "cap" /\ Head(<<"wrap">>) = "wrap" /\ Head(<<"cap", "wrap">>) = "cap"
<1>1. Len(<<>>) = 0 /\ Len(<<"wrap">>) = 1 /\ Len(<<"cap">>) = 1 /\ Len(<<"cap", "wrap">>) = 2
  OBVIOUS
<1>2. <<"cap">> \o <<>> = <<"cap">>
  OBVIOUS
<1>3. <<"wrap">> \o <<>> = <<"wrap">>
  OBVIOUS
<1>4. <<"cap">> \o <<"wrap">> = <<"cap", "wrap">>
  <2> DEFINE s == <<"cap">>
             t == <<"wrap">>
  <2>1. s \in Seq({"cap", "wrap"}) /\ Len(s) = 1 /\ s[1] = "cap"
    OBVIOUS
  <2>2. t \in Seq({"cap", "wrap"}) /\ Len(t) = 1 /\ t[1] = "wrap"
    OBVIOUS
  <2>3. <<"cap", "wrap">> \in Seq({"cap", "wrap"}) /\ Len(<<"cap", "wrap">>) = 2
    OBVIOUS
  <2> HIDE DEF s, t
  <2>4. s \o t \in Seq({"cap", "wrap"}) /\ Len(s \o t) = 2 /\ (s \o t)[1] = "cap" /\ (s \o t)[2] = "wrap"
    BY <2>1, <2>2, ConcatProperties
  <2>5. \A i \in 1..Len(s \o t) : (s \o t)[i] = <<"cap", "wrap">>[i]
    BY <2>4
  <2>6. s \o t = <<"cap", "wrap">>
    BY <2>3, <2>4, <2>5, SeqEqual
  <2>. QED
    BY <2>6 DEF s, t
<1>5. Tail(<<"cap">>) = <<>> 
  OBVIOUS
<1>6. Tail(<<"wrap">>) = <<>>
  OBVIOUS
<1>7. Tail(<<"cap", "wrap">>) = <<"wrap">>
  OBVIOUS
<1>8. Head(<<"cap">>) = "cap" /\ Head(<<"wrap">>) = "wrap" /\ Head(<<"cap", "wrap">>) = "cap"
  OBVIOUS
<1>. QED
  BY <1>1, <1>2, <1>3, <1>4, <1>5, <1>6, <1>7, <1>8, Zenon

(* A pending capture is served unless it is being served.                    *)
LEMMA ReadyCap ==
    ASSUME IsrShape
    PROVE  Ready("cap") <=> capFlag /\ capPc = "off"
BY Priorities, Shapes DEF IsrShape, Ready, Flag

LEMMA ReadyWrap ==
    ASSUME IsrShape
    PROVE  Ready("wrap") <=> wrapFlag /\ isrs = <<>> /\ ~masked
BY Priorities, Shapes DEF IsrShape, Ready, Flag

(* What each of the routines, and the task, may rely on when it runs.        *)
LEMMA CapMayEnter ==
    ASSUME IsrShape, CanEnter("cap")
    PROVE  capFlag /\ capPc = "off" /\ ~adcFlag /\ isrs \in {<<>>, <<"wrap">>}
BY ReadyCap DEF CanEnter, IsrShape

LEMMA WrapMayEnter ==
    ASSUME IsrShape, CanEnter("wrap")
    PROVE  ~capFlag /\ wrapFlag /\ ~adcFlag /\ isrs = <<>> /\ capPc = "off"
BY ReadyCap, ReadyWrap, Priorities, Shapes DEF CanEnter, IsrShape

LEMMA CapRuns ==
    ASSUME IsrShape, Running("cap")
    PROVE  capFlag /\ ~adcFlag /\ isrs \in {<<"cap">>, <<"cap", "wrap">>}
BY Shapes DEF Running, IsrShape

LEMMA WrapRuns ==
    ASSUME IsrShape, Running("wrap")
    PROVE  ~capFlag /\ ~adcFlag /\ isrs = <<"wrap">> /\ capPc = "off"
BY ReadyCap, Shapes DEF Running, IsrShape

LEMMA TaskMayRun ==
    ASSUME IsrShape, TaskRuns
    PROVE  ~capFlag /\ ~adcFlag /\ isrs = <<>> /\ capPc = "off"
BY ReadyCap, Shapes DEF TaskRuns, IsrShape

(* In which of the shapes the wrap routine is active.                        *)
LEMMA WrapActive ==
    ASSUME IsrShape
    PROVE  (\E k \in 1..Len(isrs) : isrs[k] = "wrap") <=> Wrapping
BY Shapes DEF IsrShape, Wrapping

----------------------------------------------------------------------------
(* Clocks, wraps and stamps.                                                 *)

LEMMA Division ==
    ASSUME NEW n \in Nat
    PROVE  /\ n \div Period \in Nat /\ n % Period \in 0..(Period - 1)
           /\ n = ((n \div Period) * Period) + (n % Period)
BY PeriodAssumption

(* A clock later there is one wrap more if, and only if, the timer wraps.    *)
LEMMA NextClock ==
    ASSUME NEW n \in Nat
    PROVE  (n + 1) \div Period =
             IF (n + 1) % Period = 0 THEN n \div Period + 1 ELSE n \div Period
<1> DEFINE q == n \div Period
           r == n % Period
           q1 == (n + 1) \div Period
           r1 == (n + 1) % Period
<1>1. /\ q \in Nat /\ r \in 0..(Period - 1) /\ n = q * Period + r
      /\ q1 \in Nat /\ r1 \in 0..(Period - 1) /\ n + 1 = q1 * Period + r1
  BY Division
<1> HIDE DEF q, r, q1, r1
<1>2. Period \in Nat /\ Period > 0
  BY PeriodAssumption
<1>3. (q1 - q) * Period = 1 + r - r1
  BY <1>1, <1>2
<1>4. q1 - q >= 0
  BY <1>1, <1>2, <1>3
<1>5. q1 - q <= 1
  BY <1>1, <1>2, <1>3
<1>6. CASE q1 = q
  BY <1>1, <1>2, <1>3, <1>6
<1>7. CASE q1 = q + 1
  BY <1>1, <1>2, <1>3, <1>7
<1>. QED
  BY <1>1, <1>4, <1>5, <1>6, <1>7 DEF q, q1, r1

(* A stamp is the time of its edge, but for the wraps missed or not its own. *)
LEMMA StampOf ==
    ASSUME NEW e \in Nat, NEW b \in Int, NEW k \in Int, NEW w \in Nat, w = e \div Period + b - k
    PROVE  (w * Period) + (e % Period) = e + (b - k) * Period
<1> DEFINE q == e \div Period
           r == e % Period
           c == b - k
<1>1. q \in Nat /\ r \in Nat /\ e = (q * Period) + r
  BY Division, PeriodAssumption
<1>2. c \in Int /\ w = q + c
  OBVIOUS
<1> HIDE DEF q, r, c
<1>3. w * Period = (q * Period) + (c * Period)
  BY <1>1, <1>2, PeriodAssumption
<1>4. (w * Period) + r = e + (c * Period)
  BY <1>1, <1>2, <1>3, PeriodAssumption
<1>. QED
  BY <1>4 DEF r, c

----------------------------------------------------------------------------
(* Counters, flags and samples, action by action.                            *)

LEMMA ClockCounted == Counted /\ Clock => Counted'
<1> SUFFICES ASSUME Counted, Clock PROVE Counted'
  OBVIOUS
<1> USE DEF Counted, Clock, hw, cpu, statics, history
<1>1. IsrShape
  BY DEF Types
<1>2. IsrShape'
  BY <1>1, Shapes DEF IsrShape
<1>3. Numbers'
  BY <1>1, BoundAssumption DEF Types, Numbers
<1>4. Flags'
  BY <1>1 DEF Types, Flags
<1>5. Types'
  BY <1>1, <1>2, <1>3, <1>4 DEF Types, Numbers, NoReport
<1>6. (EdgesCounted /\ NothingLeft /\ TimerStops)'
  BY <1>1 DEF Types, Numbers, IsrShape, EdgesCounted, NothingLeft, TimerStops, Stamped, NoReport
<1>7. OneDue'
  BY <1>1, WrapActive, Shapes DEF IsrShape, OneDue, Wrapping
<1>8. (Sampling /\ Reporting)'
  BY <1>1 DEF Types, Numbers, Flags, IsrShape, EdgesCounted, TimerStops, Sampling, Reporting, Stamped, NoReport
<1>. QED
  BY <1>5, <1>6, <1>7, <1>8

LEMMA EdgeCounted == Counted /\ Edge => Counted'
<1> SUFFICES ASSUME Counted, Edge PROVE Counted'
  OBVIOUS
<1> USE DEF Counted, Edge, hw, cpu, statics, history
<1>1. IsrShape
  BY DEF Types
<1>2. IsrShape'
  BY <1>1, Shapes DEF IsrShape
<1>3. Numbers'
  BY <1>1, Division, PeriodAssumption DEF Types, Numbers
<1>4. Flags'
  BY <1>1 DEF Types, Flags
<1>5. Types'
  BY <1>1, <1>2, <1>3, <1>4 DEF Types, Numbers, NoReport
<1>6. (EdgesCounted /\ NothingLeft /\ TimerStops)'
  BY <1>1 DEF Types, Numbers, IsrShape, EdgesCounted, NothingLeft, TimerStops, Stamped, NoReport
<1>7. OneDue'
  BY <1>1, Shapes DEF IsrShape, OneDue, Wrapping
<1>8. (Sampling /\ Reporting)'
  BY <1>1 DEF Types, Numbers, Flags, IsrShape, EdgesCounted, TimerStops, Sampling, Reporting, Stamped, NoReport
<1>. QED
  BY <1>5, <1>6, <1>7, <1>8

LEMMA TriggerCounted == Counted /\ Trigger => Counted'
<1> SUFFICES ASSUME Counted, Trigger PROVE Counted'
  OBVIOUS
<1> USE DEF Counted, Trigger, hw, cpu, statics, history
<1>1. IsrShape
  BY DEF Types
<1>2. IsrShape'
  BY <1>1, Shapes DEF IsrShape
<1>3. Numbers'
  BY <1>1 DEF Types, Numbers
<1>4. Flags'
  BY <1>1 DEF Types, Flags
<1>5. Types'
  BY <1>1, <1>2, <1>3, <1>4 DEF Types, Numbers, NoReport
<1>6. (EdgesCounted /\ NothingLeft /\ TimerStops)'
  BY <1>1 DEF Types, Numbers, IsrShape, EdgesCounted, NothingLeft, TimerStops, Stamped, NoReport
<1>7. OneDue'
  BY <1>1, Shapes DEF IsrShape, OneDue, Wrapping
<1>8. (Sampling /\ Reporting)'
  BY <1>1 DEF Types, Numbers, Flags, IsrShape, EdgesCounted, TimerStops, Sampling, Reporting, Stamped, NoReport
<1>. QED
  BY <1>5, <1>6, <1>7, <1>8

LEMMA ConvertCounted == Counted /\ Convert => Counted'
<1> SUFFICES ASSUME Counted, Convert PROVE Counted'
  OBVIOUS
<1> USE DEF Counted, Convert, hw, cpu, statics, history
<1>1. IsrShape
  BY DEF Types
<1>2. IsrShape'
  BY <1>1, Shapes DEF IsrShape
<1>3. Numbers'
  BY <1>1 DEF Types, Numbers
<1>4. Flags'
  BY <1>1 DEF Types, Flags
<1>5. Types'
  BY <1>1, <1>2, <1>3, <1>4 DEF Types, Numbers, NoReport
<1>6. (EdgesCounted /\ NothingLeft /\ TimerStops)'
  BY <1>1 DEF Types, Numbers, IsrShape, EdgesCounted, NothingLeft, TimerStops, Stamped, NoReport
<1>7. OneDue'
  BY <1>1, Shapes DEF IsrShape, OneDue, Wrapping
<1>8. (Sampling /\ Reporting)'
  BY <1>1 DEF Types, Numbers, Flags, IsrShape, EdgesCounted, TimerStops, Sampling, Reporting, Stamped, NoReport
<1>. QED
  BY <1>5, <1>6, <1>7, <1>8

LEMMA ADC0SS3_HANDLERCounted == Counted /\ ADC0SS3_HANDLER => Counted'
<1> SUFFICES ASSUME Counted, ADC0SS3_HANDLER PROVE Counted'
  OBVIOUS
<1> USE DEF Counted, ADC0SS3_HANDLER, InRun, hw, cpu, statics, history
<1>1. IsrShape
  BY DEF Types
<1>2. IsrShape'
  BY <1>1, Shapes DEF IsrShape
<1>3. Numbers'
  BY <1>1 DEF Types, Numbers
<1>4. Flags'
  BY <1>1 DEF Types, Flags
<1>5. Types'
  BY <1>1, <1>2, <1>3, <1>4 DEF Types, Numbers, NoReport
<1>6. (EdgesCounted /\ NothingLeft /\ TimerStops)'
  BY <1>1 DEF Types, Numbers, IsrShape, EdgesCounted, NothingLeft, TimerStops, Stamped, NoReport
<1>7. OneDue'
  BY <1>1, Shapes DEF IsrShape, OneDue, Wrapping
<1>8. (Sampling /\ Reporting)'
  BY <1>1 DEF Types, Numbers, Flags, IsrShape, EdgesCounted, TimerStops, Sampling, Reporting, Stamped, NoReport
<1>. QED
  BY <1>5, <1>6, <1>7, <1>8

LEMMA CapEnterCounted == Counted /\ CapEnter => Counted'
<1> SUFFICES ASSUME Counted, CapEnter PROVE Counted'
  OBVIOUS
<1> USE DEF Counted, CapEnter, hw, cpu, statics, history
<1>1. IsrShape
  BY DEF Types
<1>2. IsrShape'
  BY <1>1, CapMayEnter, Shapes DEF IsrShape
<1>3. Numbers'
  BY <1>1 DEF Types, Numbers
<1>4. Flags'
  BY <1>1 DEF Types, Flags
<1>5. Types'
  BY <1>1, <1>2, <1>3, <1>4, CapMayEnter DEF Types, Numbers, NoReport
<1>6. (EdgesCounted /\ NothingLeft /\ TimerStops)'
  BY <1>1, CapMayEnter DEF Types, Numbers, IsrShape, EdgesCounted, NothingLeft, TimerStops, Stamped, NoReport
<1>7. OneDue'
  BY <1>1, CapMayEnter, Shapes DEF IsrShape, OneDue, Wrapping
<1>8. (Sampling /\ Reporting)'
  BY <1>1, CapMayEnter DEF Types, Numbers, Flags, IsrShape, EdgesCounted, TimerStops, Sampling, Reporting, Stamped, NoReport
<1>. QED
  BY <1>5, <1>6, <1>7, <1>8

LEMMA CapStoreCounted == Counted /\ CapStore => Counted'
<1> SUFFICES ASSUME Counted, CapStore PROVE Counted'
  OBVIOUS
<1> USE DEF Counted, CapStore, StopTimers, Stamp, hw, cpu, statics, history
<1>1. IsrShape
  BY DEF Types
<1>2. IsrShape'
  BY <1>1, CapRuns, Shapes DEF IsrShape
<1>3. Numbers'
  BY <1>1, PeriodAssumption DEF Types, Numbers
<1>4. Flags'
  BY <1>1 DEF Types, Flags
<1>5. Types'
  BY <1>1, <1>2, <1>3, <1>4, CapRuns DEF Types, Numbers, NoReport
<1>6. (EdgesCounted /\ NothingLeft /\ TimerStops)'
  BY <1>1, CapRuns DEF Types, Numbers, IsrShape, EdgesCounted, NothingLeft, TimerStops, Stamped, NoReport
<1>7. OneDue'
  BY <1>1, CapRuns, Shapes DEF IsrShape, OneDue, Wrapping
<1>8. (Sampling /\ Reporting)'
  BY <1>1, CapRuns DEF Types, Numbers, Flags, IsrShape, EdgesCounted, TimerStops, Sampling, Reporting, Stamped, NoReport
<1>. QED
  BY <1>5, <1>6, <1>7, <1>8

LEMMA CapCountCounted == Counted /\ CapCount => Counted'
<1> SUFFICES ASSUME Counted, CapCount PROVE Counted'
  OBVIOUS
<1> USE DEF Counted, CapCount, CaughtUp, hw, cpu, statics, history
<1>1. IsrShape
  BY DEF Types
<1>2. IsrShape'
  BY <1>1, CapRuns, Shapes DEF IsrShape
<1>3. Numbers'
  BY <1>1 DEF Types, Numbers, NothingLeft
<1>4. Flags'
  BY <1>1 DEF Types, Flags
<1>5. Types'
  BY <1>1, <1>2, <1>3, <1>4, CapRuns DEF Types, Numbers, NoReport
<1>6. (EdgesCounted /\ NothingLeft /\ TimerStops)'
  BY <1>1, CapRuns DEF Types, Numbers, IsrShape, EdgesCounted, NothingLeft, TimerStops, Stamped, NoReport
<1>7. OneDue'
  BY <1>1, CapRuns, Shapes DEF IsrShape, OneDue, Wrapping
<1>8. (Sampling /\ Reporting)'
  BY <1>1, CapRuns DEF Types, Numbers, Flags, IsrShape, EdgesCounted, TimerStops, Sampling, Reporting, Stamped, NoReport
<1>. QED
  BY <1>5, <1>6, <1>7, <1>8

LEMMA CapClearCounted == Counted /\ CapClear => Counted'
<1> SUFFICES ASSUME Counted, CapClear PROVE Counted'
  OBVIOUS
<1> USE DEF Counted, CapClear, hw, cpu, statics, history
<1>1. IsrShape
  BY DEF Types
<1>2. IsrShape'
  BY <1>1, CapRuns, Shapes DEF IsrShape
<1>3. Numbers'
  BY <1>1 DEF Types, Numbers
<1>4. Flags'
  BY <1>1 DEF Types, Flags
<1>5. Types'
  BY <1>1, <1>2, <1>3, <1>4, CapRuns DEF Types, Numbers, NoReport
<1>6. (EdgesCounted /\ NothingLeft /\ TimerStops)'
  BY <1>1, CapRuns DEF Types, Numbers, IsrShape, EdgesCounted, NothingLeft, TimerStops, Stamped, NoReport
<1>7. OneDue'
  BY <1>1, CapRuns, Shapes DEF IsrShape, OneDue, Wrapping
<1>8. (Sampling /\ Reporting)'
  BY <1>1, CapRuns DEF Types, Numbers, Flags, IsrShape, EdgesCounted, TimerStops, Sampling, Reporting, Stamped, NoReport
<1>. QED
  BY <1>5, <1>6, <1>7, <1>8

LEMMA WrapEnterCounted == Counted /\ WrapEnter => Counted'
<1> SUFFICES ASSUME Counted, WrapEnter PROVE Counted'
  OBVIOUS
<1> USE DEF Counted, WrapEnter, hw, cpu, statics, history
<1>1. IsrShape
  BY DEF Types
<1>2. IsrShape'
  BY <1>1, WrapMayEnter, Shapes DEF IsrShape
<1>3. Numbers'
  BY <1>1 DEF Types, Numbers
<1>4. Flags'
  BY <1>1 DEF Types, Flags
<1>5. Types'
  BY <1>1, <1>2, <1>3, <1>4, WrapMayEnter DEF Types, Numbers, NoReport
<1>6. (EdgesCounted /\ NothingLeft /\ TimerStops)'
  BY <1>1, WrapMayEnter DEF Types, Numbers, IsrShape, EdgesCounted, NothingLeft, TimerStops, Stamped, NoReport
<1>7. OneDue'
  BY <1>1, WrapMayEnter, Shapes DEF IsrShape, OneDue, Wrapping
<1>8. (Sampling /\ Reporting)'
  BY <1>1, WrapMayEnter DEF Types, Numbers, Flags, IsrShape, EdgesCounted, TimerStops, Sampling, Reporting, Stamped, NoReport
<1>. QED
  BY <1>5, <1>6, <1>7, <1>8

LEMMA WrapCountCounted == Counted /\ WrapCount => Counted'
<1> SUFFICES ASSUME Counted, WrapCount PROVE Counted'
  OBVIOUS
<1> USE DEF Counted, WrapCount, CaughtUp, hw, cpu, statics, history
<1>1. IsrShape
  BY DEF Types
<1>2. IsrShape'
  BY <1>1, WrapRuns, Shapes DEF IsrShape
<1>3. Numbers'
  BY <1>1 DEF Types, Numbers, NothingLeft
<1>4. Flags'
  BY <1>1 DEF Types, Flags
<1>5. Types'
  BY <1>1, <1>2, <1>3, <1>4, WrapRuns DEF Types, Numbers, NoReport
<1>6. (EdgesCounted /\ NothingLeft /\ TimerStops)'
  BY <1>1, WrapRuns DEF Types, Numbers, IsrShape, EdgesCounted, NothingLeft, TimerStops, Stamped, NoReport
<1>7. OneDue'
  BY <1>1, WrapRuns, Shapes DEF IsrShape, OneDue, Wrapping
<1>8. (Sampling /\ Reporting)'
  BY <1>1, WrapRuns DEF Types, Numbers, Flags, IsrShape, EdgesCounted, TimerStops, Sampling, Reporting, Stamped, NoReport
<1>. QED
  BY <1>5, <1>6, <1>7, <1>8

LEMMA StartResetCounted == Counted /\ StartReset => Counted'
<1> SUFFICES ASSUME Counted, StartReset PROVE Counted'
  OBVIOUS
<1> USE DEF Counted, StartReset, Command, hw, cpu, statics, history
<1>1. IsrShape
  BY DEF Types
<1>2. IsrShape'
  BY <1>1, TaskMayRun, Shapes DEF IsrShape
<1>3. Numbers'
  BY <1>1 DEF Types, Numbers
<1>4. Flags'
  BY <1>1 DEF Types, Flags
<1>5. Types'
  BY <1>1, <1>2, <1>3, <1>4, TaskMayRun DEF Types, Numbers, NoReport
<1>6. (EdgesCounted /\ NothingLeft /\ TimerStops)'
  BY <1>1, TaskMayRun DEF Types, Numbers, IsrShape, EdgesCounted, NothingLeft, TimerStops, Stamped, NoReport
<1>7. OneDue'
  BY <1>1, TaskMayRun, Shapes DEF IsrShape, OneDue, Wrapping
<1>8. (Sampling /\ Reporting)'
  BY <1>1, TaskMayRun DEF Types, Numbers, Flags, IsrShape, EdgesCounted, TimerStops, Sampling, Reporting, Stamped, NoReport
<1>. QED
  BY <1>5, <1>6, <1>7, <1>8

LEMMA StartEnableCounted == Counted /\ StartEnable => Counted'
<1> SUFFICES ASSUME Counted, StartEnable PROVE Counted'
  OBVIOUS
<1> USE DEF Counted, StartEnable, hw, cpu, statics, history
<1>1. IsrShape
  BY DEF Types
<1>2. IsrShape'
  BY <1>1, TaskMayRun, Shapes DEF IsrShape
<1>3. Numbers'
  BY <1>1, BoundAssumption DEF Types, Numbers
<1>4. Flags'
  BY <1>1 DEF Types, Flags
<1>5. Types'
  BY <1>1, <1>2, <1>3, <1>4, TaskMayRun DEF Types, Numbers, NoReport
<1>6. (EdgesCounted /\ NothingLeft /\ TimerStops)'
  BY <1>1, TaskMayRun DEF Types, Numbers, IsrShape, EdgesCounted, NothingLeft, TimerStops, Stamped, NoReport
<1>7. OneDue'
  BY <1>1, TaskMayRun, Shapes DEF IsrShape, OneDue, Wrapping
<1>8. (Sampling /\ Reporting)'
  BY <1>1, TaskMayRun DEF Types, Numbers, Flags, IsrShape, EdgesCounted, TimerStops, Sampling, Reporting, Stamped, NoReport
<1>. QED
  BY <1>5, <1>6, <1>7, <1>8

LEMMA ReportFirstCounted == Counted /\ ReportFirst => Counted'
<1> SUFFICES ASSUME Counted, ReportFirst PROVE Counted'
  OBVIOUS
<1> USE DEF Counted, ReportFirst, Command, Getters, hw, cpu, statics, history
<1>1. IsrShape
  BY DEF Types
<1>2. IsrShape'
  BY <1>1, TaskMayRun, Shapes DEF IsrShape
<1>3. Numbers'
  BY <1>1 DEF Types, Numbers
<1>4. Flags'
  BY <1>1 DEF Types, Flags
<1>5. Types'
  BY <1>1, <1>2, <1>3, <1>4, TaskMayRun DEF Types, Numbers, NoReport
<1>6. (EdgesCounted /\ NothingLeft /\ TimerStops)'
  BY <1>1, TaskMayRun DEF Types, Numbers, IsrShape, EdgesCounted, NothingLeft, TimerStops, Stamped, NoReport
<1>7. OneDue'
  BY <1>1, TaskMayRun, Shapes DEF IsrShape, OneDue, Wrapping
<1>8. (Sampling /\ Reporting)'
  BY <1>1, TaskMayRun DEF Types, Numbers, Flags, IsrShape, EdgesCounted, TimerStops, Sampling, Reporting, Stamped, NoReport
<1>. QED
  BY <1>5, <1>6, <1>7, <1>8

LEMMA ReportSecondCounted == Counted /\ ReportSecond => Counted'
<1> SUFFICES ASSUME Counted, ReportSecond PROVE Counted'
  OBVIOUS
<1> USE DEF Counted, ReportSecond, Getters, hw, cpu, statics, history
<1>1. IsrShape
  BY DEF Types
<1>2. IsrShape'
  BY <1>1, TaskMayRun, Shapes DEF IsrShape
<1>3. Numbers'
  BY <1>1 DEF Types, Numbers
<1>4. Flags'
  BY <1>1 DEF Types, Flags
<1>5. Types'
  BY <1>1, <1>2, <1>3, <1>4, TaskMayRun DEF Types, Numbers, NoReport
<1>6. (EdgesCounted /\ NothingLeft /\ TimerStops)'
  BY <1>1, TaskMayRun DEF Types, Numbers, IsrShape, EdgesCounted, NothingLeft, TimerStops, Stamped, NoReport
<1>7. OneDue'
  BY <1>1, TaskMayRun, Shapes DEF IsrShape, OneDue, Wrapping
<1>8. (Sampling /\ Reporting)'
  BY <1>1, TaskMayRun DEF Types, Numbers, Flags, IsrShape, EdgesCounted, TimerStops, Sampling, Reporting, Stamped, NoReport
<1>. QED
  BY <1>5, <1>6, <1>7, <1>8

LEMMA CriticalCounted == Counted /\ Critical => Counted'
<1> SUFFICES ASSUME Counted, Critical PROVE Counted'
  OBVIOUS
<1> USE DEF Counted, Critical, hw, cpu, statics, history
<1>1. IsrShape
  BY DEF Types
<1>2. IsrShape'
  BY <1>1, TaskMayRun, Shapes DEF IsrShape
<1>3. Numbers'
  BY <1>1 DEF Types, Numbers
<1>4. Flags'
  BY <1>1 DEF Types, Flags
<1>5. Types'
  BY <1>1, <1>2, <1>3, <1>4, TaskMayRun DEF Types, Numbers, NoReport
<1>6. (EdgesCounted /\ NothingLeft /\ TimerStops)'
  BY <1>1, TaskMayRun DEF Types, Numbers, IsrShape, EdgesCounted, NothingLeft, TimerStops, Stamped, NoReport
<1>7. OneDue'
  BY <1>1, TaskMayRun, Shapes DEF IsrShape, OneDue, Wrapping
<1>8. (Sampling /\ Reporting)'
  BY <1>1, TaskMayRun DEF Types, Numbers, Flags, IsrShape, EdgesCounted, TimerStops, Sampling, Reporting, Stamped, NoReport
<1>. QED
  BY <1>5, <1>6, <1>7, <1>8

----------------------------------------------------------------------------
(* Times.                                                                    *)

LEMMA BaseInt ==
    ASSUME Types
    PROVE  /\ Base \in Int /\ Due \in {0, 1} /\ now \div Period \in Nat
           /\ wrap_cnt = (now \div Period) + Base - Due
<1> DEFINE q == now \div Period
<1>1. Due \in {0, 1}
  BY DEF Due
<1>2. q \in Nat /\ wrap_cnt \in Nat
  BY Division DEF Types, Numbers
<1>3. Base = wrap_cnt + Due - q
  BY DEF Base
<1> HIDE DEF q
<1>4. Base \in Int /\ wrap_cnt = q + Base - Due
  BY <1>1, <1>2, <1>3
<1>. QED
  BY <1>1, <1>2, <1>4 DEF q

(* What is known of the times stays known while the count keeps its distance *)
(* from the clock and neither edges nor stamps are added.                    *)
LEMMA TimedKept ==
    ASSUME Timed, Base' = Base, Stamped' = Stamped,
           UNCHANGED <<edges, t_start, t_stop, owed>>,
           capFlag' /\ capPc' \in {"off", "store"} =>
               /\ capFlag /\ capPc \in {"off", "store"}
               /\ UNCHANGED <<wrap_cnt, capReg>>
               /\ capPc' = "store" => cap_time' = capReg'
    PROVE  Timed'
<1>1. EdgePending'
  BY DEF Timed, EdgePending
<1>2. StartKnown'
  BY DEF Timed, StartKnown
<1>3. Both'
  BY DEF Timed, Both, TrueElapsed
<1>. QED
  BY <1>1, <1>2, <1>3 DEF Timed

LEMMA QuietTimed ==
    ASSUME Timed, UNCHANGED <<now, capReg, capFlag, wrapFlag, isrs, cap_time, capPc,
                              wrap_cnt, t_start, t_stop, cap_cnt, edges, owed>>
    PROVE  Timed'
<1>1. Base' = Base /\ Stamped' = Stamped
  BY DEF Base, Due, Wrapping, Stamped
<1>. QED
  BY <1>1, TimedKept DEF Timed, EdgePending

LEMMA ClockTimed == IInv /\ Clock => Timed'
<1> SUFFICES ASSUME IInv, Clock PROVE Timed'
  OBVIOUS
<1> USE DEF IInv, Counted, Clock, cpu, statics, history
<1>1. now' = now + 1 /\ now \in Nat /\ wrap_cnt \in Nat
  BY DEF Types, Numbers
<1>2. now' \div Period = IF now' % Period = 0 THEN now \div Period + 1 ELSE now \div Period
  BY <1>1, NextClock
<1>3. Due' = IF now' % Period = 0 THEN 1 ELSE Due
  BY WrapActive DEF Types, Due, Wrapping
<1>4. now' % Period = 0 => Due = 0
  BY WrapActive DEF Types, Due, Wrapping
<1>5. Base' = Base
  <2> DEFINE q == now \div Period
  <2>1. q \in Nat /\ Due \in {0, 1} /\ Base = wrap_cnt + Due - q
    BY BaseInt DEF Base
  <2>2. Base' = wrap_cnt + Due' - (now' \div Period)
    BY DEF Base
  <2> HIDE DEF q
  <2>3. now' \div Period = IF now' % Period = 0 THEN q + 1 ELSE q
    BY <1>2 DEF q
  <2>. QED
    BY <1>1, <1>3, <1>4, <2>1, <2>2, <2>3
<1>. QED
  BY <1>5, TimedKept DEF Timed, EdgePending, Stamped

(* A new edge owes the wrap that is still to be counted.                     *)
LEMMA EdgeTimed == IInv /\ Edge => Timed'
<1> SUFFICES ASSUME IInv, Edge PROVE Timed'
  OBVIOUS
<1> USE DEF IInv, Counted, Edge, cpu, statics
<1>1. /\ now \in Nat /\ wrap_cnt \in Nat /\ edges \in Seq(Nat) /\ cap_cnt \in Nat
      /\ owed \in BOOLEAN /\ IsrShape
  BY DEF Types, Numbers, Flags
<1>2. capPc = "off" /\ Len(edges) = cap_cnt /\ Stamped = cap_cnt /\ Stamped' = Stamped
  BY <1>1 DEF IsrShape, EdgesCounted, Stamped
<1>3. Base' = Base /\ owed' = (owed \/ Due = 1)
  BY <1>1, WrapActive DEF Base, Due, Wrapping
<1>4. /\ edges'[Len(edges')] = now
      /\ Stamped >= 1 => edges'[1] = edges[1]
      /\ Stamped >= 2 => edges'[2] = edges[2]
  BY <1>1, <1>2
<1>5. Missed(owed) \subseteq Missed(owed')
  BY <1>1, <1>3 DEF Missed
<1>6. EdgePending'
  <2>1. wrap_cnt' = now \div Period + Base' - Due
    BY <1>3, BaseInt
  <2>2. Due \in Missed(owed')
    BY <1>1, <1>3, BaseInt DEF Missed
  <2>. QED
    BY <1>2, <1>4, <2>1, <2>2 DEF EdgePending
<1>7. StartKnown'
  BY <1>2, <1>3, <1>4, <1>5 DEF Timed, StartKnown
<1>8. Both'
  BY <1>2, <1>4, <1>5 DEF Timed, Both, TrueElapsed
<1>. QED
  BY <1>6, <1>7, <1>8 DEF Timed

LEMMA CapEnterTimed == IInv /\ CapEnter => Timed'
<1> SUFFICES ASSUME IInv, CapEnter PROVE Timed'
  OBVIOUS
<1> USE DEF IInv, Counted, CapEnter, hw, statics, history
<1>1. capFlag /\ capPc = "off" /\ isrs \in {<<>>, <<"wrap">>}
  BY CapMayEnter DEF Types
<1>2. Wrapping' <=> Wrapping
  <2>1. CASE isrs = <<>>
    BY <2>1, Shapes, Distinct DEF Wrapping
  <2>2. CASE isrs = <<"wrap">>
    BY <2>2, Shapes, Distinct DEF Wrapping
  <2>. QED
    BY <1>1, <2>1, <2>2
<1>3. Base' = Base
  BY <1>2 DEF Base, Due
<1>. QED
  BY <1>1, <1>3, TimedKept DEF Timed, EdgePending, Stamped

(* The first two edges are stamped; what a stamp misses is what the edge     *)
(* owed.                                                                     *)
LEMMA CapStoreTimed == IInv /\ CapStore => Timed'
<1> SUFFICES ASSUME IInv, CapStore PROVE Timed'
  OBVIOUS
<1> USE DEF IInv, Counted, CapStore, history
<1>1. /\ capFlag /\ capPc = "store" /\ IsrShape
      /\ edges \in Seq(Nat) /\ cap_cnt \in Nat /\ wrap_cnt \in Nat
  BY CapRuns DEF Types, Numbers
<1>2. /\ Stamped = cap_cnt /\ Stamped' = cap_cnt + 1 /\ Len(edges) = cap_cnt + 1
      /\ Base' = Base /\ Base \in Int
  BY <1>1, BaseInt DEF EdgesCounted, Stamped, Base, Due, Wrapping
<1> DEFINE e == edges[Len(edges)]
<1>3. e \in Nat /\ cap_time = e % Period
  BY <1>1, <1>2 DEF Timed, EdgePending
<1>4. PICK k \in Missed(owed) : wrap_cnt = e \div Period + Base - k
  BY <1>1 DEF Timed, EdgePending
<1>5. k \in Int
  BY DEF Missed
<1>6. Stamp = e + (Base - k) * Period
  BY <1>1, <1>2, <1>3, <1>4, <1>5, StampOf DEF Stamp
<1>7. EdgePending'
  BY DEF EdgePending
<1>8. CASE cap_cnt = 0
  <2>1. StartKnown'
    BY <1>2, <1>6, <1>8 DEF StartKnown
  <2>2. Both'
    BY <1>2, <1>8 DEF Both
  <2>. QED
    BY <1>7, <2>1, <2>2 DEF Timed
<1>9. CASE cap_cnt = 1
  <2>1. PICK j \in Missed(owed) : t_start = edges[1] + (Base - j) * Period
    BY <1>2, <1>9 DEF Timed, StartKnown
  <2>2. edges[1] \in Nat /\ e = edges[2] /\ j \in Int
    <3>1. Len(edges) = 2
      BY <1>2, <1>9
    <3>2. edges[1] \in Nat
      BY <1>1, <3>1
    <3>3. j \in Int
      BY DEF Missed
    <3>. QED
      BY <3>1, <3>2, <3>3
  <2>3. t_stop' = e + (Base - k) * Period /\ t_start' = t_start /\ edges' = edges
    BY <1>6, <1>9
  <2>4. (Base - k) * Period - (Base - j) * Period = (j - k) * Period
    BY <1>2, <1>5, <2>2, PeriodAssumption
  <2>5. t_stop' - t_start' = TrueElapsed' + (j - k) * Period
    <3> DEFINE a == (Base - k) * Period
               b == (Base - j) * Period
               c == (j - k) * Period
    <3>1. a \in Int /\ b \in Int /\ c \in Int
      BY <1>2, <1>5, <2>2, PeriodAssumption
    <3>2. t_stop' = e + a /\ t_start' = edges[1] + b /\ a - b = c /\ TrueElapsed' = e - edges[1]
      BY <2>1, <2>2, <2>3, <2>4 DEF TrueElapsed
    <3> HIDE DEF a, b, c, e
    <3>. QED
      BY <1>3, <2>2, <3>1, <3>2 DEF c
  <2>6. Both'
    BY <2>5 DEF Both, Missed
  <2>7. StartKnown'
    BY <1>2, <1>9 DEF StartKnown
  <2>. QED
    BY <1>7, <2>6, <2>7 DEF Timed
<1>10. CASE cap_cnt > 1
  <2>1. UNCHANGED <<t_start, t_stop, edges, owed>> /\ Stamped >= 2
    <3>1. cap_cnt # 0 /\ cap_cnt # 1 /\ Stamped >= 2
      BY <1>1, <1>2, <1>10
    <3>. QED
      BY <3>1
  <2>2. StartKnown'
    BY <1>1, <1>2, <1>10 DEF StartKnown
  <2>3. Both'
    BY <2>1 DEF Timed, Both, TrueElapsed
  <2>. QED
    BY <1>7, <2>2, <2>3 DEF Timed
<1>. QED
  BY <1>1, <1>8, <1>9, <1>10

LEMMA CapCountTimed == IInv /\ CapCount => Timed'
<1> SUFFICES ASSUME IInv, CapCount PROVE Timed'
  OBVIOUS
<1> USE DEF IInv, Counted, CapCount, hw, history
<1>1. wrap_cnt' = wrap_cnt /\ cap_cnt \in Nat
  BY DEF Types, Numbers, NothingLeft, CaughtUp
<1>2. Base' = Base /\ Stamped' = Stamped
  BY <1>1 DEF Base, Due, Wrapping, Stamped
<1>. QED
  BY <1>2, TimedKept

LEMMA CapClearTimed == IInv /\ CapClear => Timed'
<1> SUFFICES ASSUME IInv, CapClear PROVE Timed'
  OBVIOUS
<1> USE DEF IInv, Counted, CapClear, statics, history
<1>1. isrs \in {<<"cap">>, <<"cap", "wrap">>}
  BY CapRuns DEF Types
<1>2. Wrapping' <=> Wrapping
  <2>1. CASE isrs = <<"cap">>
    BY <2>1, Shapes, Distinct DEF Wrapping
  <2>2. CASE isrs = <<"cap", "wrap">>
    BY <2>2, Shapes, Distinct DEF Wrapping
  <2>. QED
    BY <1>1, <2>1, <2>2
<1>3. Base' = Base /\ Stamped' = Stamped
  BY <1>2 DEF Base, Due, Stamped
<1>. QED
  BY <1>3, TimedKept

(* A wrap is counted in two steps, pending and active in turn.               *)
LEMMA WrapEnterTimed == IInv /\ WrapEnter => Timed'
<1> SUFFICES ASSUME IInv, WrapEnter PROVE Timed'
  OBVIOUS
<1> USE DEF IInv, Counted, WrapEnter, statics, history
<1>1. ~capFlag /\ wrapFlag /\ isrs = <<>>
  BY WrapMayEnter DEF Types
<1>2. Wrapping'
  BY <1>1, Shapes DEF Wrapping
<1>3. Base' = Base /\ Stamped' = Stamped
  BY <1>1, <1>2 DEF Base, Due, Stamped
<1>. QED
  BY <1>1, <1>3, TimedKept

LEMMA WrapCountTimed == IInv /\ WrapCount => Timed'
<1> SUFFICES ASSUME IInv, WrapCount PROVE Timed'
  OBVIOUS
<1> USE DEF IInv, Counted, WrapCount, hw, history
<1>1. ~capFlag /\ isrs = <<"wrap">> /\ wrap_cnt \in Nat
  BY WrapRuns DEF Types, Numbers
<1>2. wrap_cnt' = wrap_cnt + 1
  BY <1>1 DEF NothingLeft, CaughtUp
<1>3. Due = 1 /\ Due' = 0
  BY <1>1, Shapes DEF Due, Wrapping, OneDue
<1>4. Base' = Base
  <2> DEFINE q == now \div Period
  <2>1. q \in Nat /\ Base = wrap_cnt + 1 - q /\ Base' = wrap_cnt + 1 + 0 - q
    BY <1>2, <1>3, BaseInt DEF Base
  <2> HIDE DEF q
  <2>. QED
    BY <1>1, <2>1
<1>. QED
  BY <1>1, <1>4, TimedKept DEF Stamped

(* A measurement starts without an edge, and so with nothing known.          *)
LEMMA StartResetTimed == IInv /\ StartReset => Timed'
<1> SUFFICES ASSUME IInv, StartReset PROVE Timed'
  OBVIOUS
<1>1. ~capFlag' /\ Stamped' = 0
  BY TaskMayRun DEF IInv, Counted, Types, StartReset, Command, hw, Stamped
<1>. QED
  BY <1>1 DEF Timed, EdgePending, StartKnown, Both

LEMMA StartEnableTimed == IInv /\ StartEnable => Timed'
<1> SUFFICES ASSUME IInv, StartEnable PROVE Timed'
  OBVIOUS
<1> USE DEF IInv, Counted, StartEnable, statics, history
<1>1. ~capFlag /\ capPc = "off"
  BY TaskMayRun DEF Types
<1>2. CASE timer0
  BY <1>2, QuietTimed
<1>3. CASE ~timer0
  <2>1. Stamped' = Stamped /\ Stamped # 1
    BY <1>1, <1>3 DEF TimerStops, EdgesCounted, Stamped, Types, Numbers
  <2>2. EdgePending' /\ StartKnown'
    BY <1>1, <2>1 DEF EdgePending, StartKnown
  <2>3. Both'
    BY <2>1 DEF Timed, Both, TrueElapsed
  <2>. QED
    BY <2>2, <2>3 DEF Timed
<1>. QED
  BY <1>2, <1>3

----------------------------------------------------------------------------
(* The invariant holds at the start and is kept by every step.               *)
LEMMA InitInvariant == Init => IInv
<1> SUFFICES ASSUME Init PROVE IInv
  OBVIOUS
<1> USE DEF Init
<1>1. Types
  <2>1. Numbers
    BY PeriodAssumption, BoundAssumption DEF Numbers
  <2>2. Flags /\ IsrShape
    BY DEF Flags, IsrShape
  <2>3. report \in [kind : {"none", "time", "power"}, off : BOOLEAN, first : Nat, second : Nat]
    BY DEF NoReport
  <2>. QED
    BY <2>1, <2>2, <2>3 DEF Types
<1>2. EdgesCounted /\ NothingLeft /\ TimerStops /\ OneDue /\ Sampling /\ Reporting
  BY DEF EdgesCounted, NothingLeft, TimerStops, OneDue, Sampling, Reporting, Stamped, NoReport
<1>3. Timed
  BY DEF Timed, EdgePending, StartKnown, Both, Stamped
<1>. QED
  BY <1>1, <1>2, <1>3 DEF IInv, Counted

LEMMA StepInvariant == IInv /\ [Next]_vars => IInv'
<1> SUFFICES ASSUME IInv, [Next]_vars PROVE IInv'
  OBVIOUS
<1> USE DEF IInv
<1>1. CASE Clock
  BY <1>1, ClockCounted, ClockTimed
<1>2. CASE Edge
  BY <1>2, EdgeCounted, EdgeTimed
<1>3. CASE Trigger
  BY <1>3, TriggerCounted, QuietTimed DEF Trigger, cpu, statics, history
<1>4. CASE Convert
  BY <1>4, ConvertCounted, QuietTimed DEF Convert, cpu, statics, history
<1>5. CASE ADC0SS3_HANDLER
  BY <1>5, ADC0SS3_HANDLERCounted, QuietTimed DEF ADC0SS3_HANDLER, cpu
<1>6. CASE CapEnter
  BY <1>6, CapEnterCounted, CapEnterTimed
<1>7. CASE CapStore
  BY <1>7, CapStoreCounted, CapStoreTimed
<1>8. CASE CapCount
  BY <1>8, CapCountCounted, CapCountTimed
<1>9. CASE CapClear
  BY <1>9, CapClearCounted, CapClearTimed
<1>10. CASE WrapEnter
  BY <1>10, WrapEnterCounted, WrapEnterTimed
<1>11. CASE WrapCount
  BY <1>11, WrapCountCounted, WrapCountTimed
<1>12. CASE StartReset
  BY <1>12, StartResetCounted, StartResetTimed
<1>13. CASE StartEnable
  BY <1>13, StartEnableCounted, StartEnableTimed
<1>14. CASE ReportFirst
  BY <1>14, ReportFirstCounted, QuietTimed DEF ReportFirst, hw, statics
<1>15. CASE ReportSecond
  BY <1>15, ReportSecondCounted, QuietTimed DEF ReportSecond, hw, statics
<1>16. CASE Critical
  BY <1>16, CriticalCounted, QuietTimed DEF Critical, hw, statics, history
<1>17. CASE UNCHANGED vars
  <2>1. Counted'
    BY <1>17 DEF vars, hw, cpu, statics, history, Counted, Types, Numbers, Flags, IsrShape,
                 EdgesCounted, NothingLeft, TimerStops, OneDue, Sampling, Reporting,
                 Stamped, Wrapping
  <2>. QED
    BY <1>17, <2>1, QuietTimed DEF vars, hw, cpu, statics, history
<1>. QED
  BY <1>1, <1>2, <1>3, <1>4, <1>5, <1>6, <1>7, <1>8, <1>9, <1>10, <1>11, <1>12, <1>13, <1>14,
     <1>15, <1>16, <1>17 DEF Next

THEOREM Invariance == Spec => []IInv
BY InitInvariant, StepInvariant, PTL DEF Spec

----------------------------------------------------------------------------
(* What follows from it.                                                     *)

(* The counters and stamps keep their types, and the two routines are active *)
(* once each at most.                                                        *)
THEOREM TypeCorrect == Spec => []TypeOK
<1>1. IInv => TypeOK
  <2> SUFFICES ASSUME IInv PROVE TypeOK
    OBVIOUS
  <2>1. capPc \in {"off", "store", "count", "clear"}
    BY DEF IInv, Counted, Types, IsrShape
  <2>2. isrs \in {<<>>, <<"wrap">>, <<"cap">>, <<"cap", "wrap">>}
    BY DEF IInv, Counted, Types, IsrShape
  <2>3. isrs \in Seq({"cap", "wrap"}) /\ Len(isrs) <= 2
    <3>1. CASE isrs = <<>>
      BY <3>1
    <3>2. CASE isrs = <<"wrap">>
      BY <3>2
    <3>3. CASE isrs = <<"cap">>
      BY <3>3
    <3>4. CASE isrs = <<"cap", "wrap">>
      BY <3>4
    <3>. QED
      BY <2>2, <3>1, <3>2, <3>3, <3>4
  <2>. QED
    BY <2>1, <2>3 DEF IInv, Counted, Types, Numbers, Flags, NothingLeft, TypeOK
<1>. QED
  BY <1>1, Invariance, PTL

(* By how many wraps two stamps may be apart from their edges.               *)
LEMMA WrapsOff ==
    ASSUME IInv, Stamped >= 2
    PROVE  /\ t_stop - t_start - TrueElapsed \in {-Period, 0, Period}
           /\ ~owed => t_stop - t_start = TrueElapsed
<1>1. PICK j \in Missed(owed), k \in Missed(owed) : t_stop - t_start = TrueElapsed + (j - k) * Period
  BY DEF IInv, Timed, Both
<1>2. Len(edges) >= 2 /\ edges \in Seq(Nat)
  BY DEF IInv, Counted, Types, Numbers, IsrShape, EdgesCounted, Stamped
<1>3. TrueElapsed \in Int
  BY <1>2 DEF TrueElapsed
<1>4. j - k \in {-1, 0, 1} /\ (~owed => j - k = 0)
  BY DEF Missed
<1> DEFINE d == j - k
<1>5. d * Period \in {-Period, 0, Period} /\ (~owed => d * Period = 0)
  BY <1>4, PeriodAssumption
<1>6. t_stop - t_start = TrueElapsed + d * Period
  BY <1>1
<1> HIDE DEF d
<1>. QED
  BY <1>3, <1>5, <1>6, PeriodAssumption

(* A finished measurement is off by one wrap at most.                        *)
THEOREM TimeWithinOneWrap == Spec => []WithinOneWrap
<1>1. IInv => WithinOneWrap
  BY WrapsOff DEF WithinOneWrap, Finished, Elapsed, Stamped, IInv, Counted, Types, Numbers
<1>. QED
  BY <1>1, Invariance, PTL

(* A finished measurement is exact unless an edge came over a wrap that was  *)
(* not counted yet.                                                          *)
THEOREM TimeExactUnlessOwed == Spec => []ExactUnlessOwed
<1>1. IInv => ExactUnlessOwed
  BY WrapsOff DEF ExactUnlessOwed, Finished, Elapsed, Stamped, IInv, Counted, Types, Numbers
<1>. QED
  BY <1>1, Invariance, PTL

(* At most one sample is counted outside the run of the device.              *)
THEOREM SamplesAlwaysInRun == Spec => []SamplesInRun
<1>1. IInv => SamplesInRun
  BY DEF SamplesInRun, IInv, Counted, Sampling, Stamped, Types, Numbers
<1>. QED
  BY <1>1, Invariance, PTL

(* A report begun with the timer disabled is of the finished measurement.    *)
THEOREM ReportsAlwaysExact == Spec => []ReportExact
<1>1. IInv => ReportExact
  <2> SUFFICES ASSUME IInv, report.off, task # "report" PROVE ReportExact
    BY DEF ReportExact
  <2>1. CASE report.kind = "time"
    BY <2>1, WrapsOff DEF ReportExact, IInv, Counted, Reporting
  <2>2. CASE report.kind = "power"
    BY <2>2 DEF ReportExact, IInv, Counted, Reporting
  <2>. QED
    BY <2>1, <2>2 DEF IInv, Counted, Reporting, Types
<1>. QED
  BY <1>1, Invariance, PTL
=============================================================================
