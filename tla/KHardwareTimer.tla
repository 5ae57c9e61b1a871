--------------------------- MODULE KHardwareTimer ---------------------------
(***************************************************************************)
(* KHardwareTimer (k_hardware_timer.cpp, k_hardware_timer_base.h) on top   *)
(* of CoreTiming: the tree of sleeping threads, the wakeup time that was   *)
(* programmed, and the interrupt task that a CoreTiming callback runs.     *)
(*                                                                         *)
(* Its callers (KScopedSchedulerLockAndSleep, KThreadQueue) and DoTask     *)
(* hold the scheduler lock; what EnableInterrupt calls takes basic_lock    *)
(* for itself, so the timer thread runs between those calls.               *)
(*                                                                         *)
(* A second event type stands for the services' looping events, whose      *)
(* owner schedules and unschedules it from a thread of its own.            *)
(***************************************************************************)
EXTENDS CoreTiming, FiniteSets

CONSTANTS
    Task,       \* the KTimerTasks, one per thread
    Callback,   \* m_event_type, of KHardwareTimer
    Looping,    \* the event type of a service
    Period,     \* its reschedule_time
    MaxSleeps   \* bound: how many sleeps are started

ASSUME TypesAssumption == Callback \in EventType /\ Looping \in EventType /\ Callback # Looping

ASSUME PeriodAssumption == Period \in Nat \ {0}

ASSUME SleepsAssumption == MaxSleeps \in Nat

VARIABLES
    time,           \* KTimerTask::m_time; 0 when not in the tree
    m_next_task,    \* the time of the task it points to; 0 for none
    m_wakeup_time,  \* Never stands for the largest s64
    lock,           \* scheduler lock: "free", or "caller" or "timer" in EnableInterrupt
    programming,    \* EnableInterrupt's wakeup_time and its next step
    service,        \* the owner of the looping event
    sleeps          \* sleeps started so far

timerVars == <<time, m_next_task, m_wakeup_time, lock, programming>>

allTimerVars == <<timingVars, timerVars, service, sleeps>>

Idle == [step |-> "none", wakeup |-> 0]

TimerInit ==
    /\ TimingInit
    /\ time = [t \in Task |-> 0]
    /\ m_next_task = 0
    /\ m_wakeup_time = Never
    /\ lock = "free"
    /\ programming = Idle
    /\ service = "unscheduled"
    /\ sleeps = 0

-----------------------------------------------------------------------------
\* m_task_tree, and the time of its first element (0 when it is empty).
Tree(times) == {t \in Task : times[t] > 0}

FirstTime(times) ==
    IF Tree(times) = {} THEN 0
    ELSE CHOOSE s \in {times[t] : t \in Tree(times)} : \A t \in Tree(times) : s <= times[t]

\* The guest runs until shutdown begins.
GuestRuns == control \notin {"cleared", "reset_pause_event", "reset_event", "reset_stop",
                             "reset_join", "down"}

\* RegisterAbsoluteTask: EnableInterrupt when the new task comes first and
\* nothing as early is programmed.
MustProgramNewest(task_time) ==
    /\ m_next_task = 0
    /\ task_time <= m_wakeup_time
MustProgram(task_time) ==
    /\ m_next_task = 0 \/ task_time < m_next_task
    /\ task_time <= m_wakeup_time

RegisterAbsoluteTask(t, task_time) ==
    /\ GuestRuns
    /\ lock = "free"
    /\ time[t] = 0
    /\ sleeps < MaxSleeps
    /\ sleeps' = sleeps + 1
    /\ time' = [time EXCEPT ![t] = task_time]
    /\ m_next_task' = IF m_next_task # 0 /\ m_next_task <= task_time THEN m_next_task ELSE task_time
    /\ IF MustProgram(task_time)
       THEN lock' = "caller" /\ programming' = [step |-> "disable", wakeup |-> task_time]
       ELSE UNCHANGED <<lock, programming>>
    /\ UNCHANGED <<timingVars, m_wakeup_time, service>>

\* RemoveTaskFromTree: the task's successor is next when the task was.
NextTaskAfter(t) == IF m_next_task = time[t] THEN FirstTime([time EXCEPT ![t] = 0]) ELSE m_next_task

\* CancelTask: the interrupt stays programmed.
CancelTask(t) ==
    /\ GuestRuns
    /\ lock = "free"
    /\ time[t] > 0
    /\ time' = [time EXCEPT ![t] = 0]
    /\ m_next_task' = NextTaskAfter(t)
    /\ UNCHANGED <<timingVars, m_wakeup_time, lock, programming, service, sleeps>>

-----------------------------------------------------------------------------
(* EnableInterrupt, called by RegisterAbsoluteTask or by DoTask *)

\* DisableInterrupt.
EnableDisable ==
    /\ programming.step = "disable"
    /\ Unschedule(Callback)
    /\ m_wakeup_time' = Never
    /\ programming' = [programming EXCEPT !.step = "schedule"]
    /\ UNCHANGED <<time, m_next_task, lock, service, sleeps>>

EnableSchedule ==
    /\ programming.step = "schedule"
    /\ Schedule(Callback, programming.wakeup, 0)
    /\ m_wakeup_time' = programming.wakeup
    /\ programming' = [programming EXCEPT !.step = "set"]
    /\ UNCHANGED <<time, m_next_task, lock, service, sleeps>>

\* ScheduleEvent's event.Set(), and back to the caller: the scheduler lock is
\* released, and DoTask's callback is over.
EnableSet ==
    /\ programming.step = "set"
    /\ EventSet
    /\ programming' = Idle
    /\ lock' = "free"
    /\ UNCHANGED <<time, m_next_task, m_wakeup_time, service, sleeps>>

EnableInterrupt == EnableDisable \/ EnableSchedule \/ EnableSet

-----------------------------------------------------------------------------
(* The callbacks *)

\* DoTask when the interrupt is not enabled.
DoTaskIgnored ==
    /\ timer_thread = "callback" /\ running.type = Callback
    /\ lock = "free"
    /\ m_wakeup_time = Never
    /\ CallbackReturn
    /\ UNCHANGED <<timerVars, service, sleeps>>

\* The tasks DoInterruptTaskImpl leaves.
TasksLeft(cur_time) == [t \in Task |-> IF time[t] > cur_time THEN time[t] ELSE 0]

\* DoTask sets the timer again: 0 < next_time && next_time <= m_wakeup_time,
\* which is the largest s64 at that point.
HasNextTime(next_time) == 0 < next_time

\* DoTask: OnTimer for every task that is due, and the timer set for the next.
DoTask ==
    /\ timer_thread = "callback" /\ running.type = Callback
    /\ lock = "free"
    /\ m_wakeup_time # Never
    /\ time' = TasksLeft(now)
    /\ m_next_task' = FirstTime(time')
    /\ m_wakeup_time' = Never
    /\ IF HasNextTime(m_next_task')
       THEN lock' = "timer" /\ programming' = [step |-> "disable", wakeup |-> m_next_task']
       ELSE UNCHANGED <<lock, programming>>
    /\ timer_thread' = "callback_rest"
    /\ UNCHANGED <<now, queueVars, signalVars, pauseVars, wait_until, controlVars>>
    /\ UNCHANGED <<service, sleeps>>

\* The callback returns, after EnableInterrupt if that was called.
DoTaskReturn ==
    /\ timer_thread = "callback_rest"
    /\ lock # "timer"
    /\ CallbackReturn
    /\ UNCHANGED <<timerVars, service, sleeps>>

\* The service's callback, which signals an event of the service.
LoopingCallback ==
    /\ running.type = Looping
    /\ CallbackReturn
    /\ UNCHANGED <<timerVars, service, sleeps>>

-----------------------------------------------------------------------------
(* The owner of the looping event (DeviceSession::Start and Stop) *)

\* Start: ScheduleLoopingEvent with a start_time of zero, event.Set() included.
ServiceSchedule ==
    /\ GuestRuns
    /\ service = "unscheduled"
    /\ event_queue' = event_queue \cup {Entry(Looping, now, Period)}
    /\ event' = TRUE
    /\ service' = "scheduled"
    /\ UNCHANGED <<now, running, pause_event, pauseVars, threadVars, controlVars>>
    /\ UNCHANGED <<timerVars, sleeps>>

\* Stop: UnscheduleEvent with Wait.
ServiceUnschedule ==
    /\ service = "scheduled"
    /\ Unschedule(Looping)
    /\ service' = "waiting"
    /\ UNCHANGED <<timerVars, sleeps>>

ServiceUnscheduled ==
    /\ service = "waiting"
    /\ InProgressFinished
    /\ service' = "unscheduled"
    /\ UNCHANGED <<timingVars, timerVars, sleeps>>

\* ~DeviceSession, after its Stop: thread_event goes with it.
ServiceDestroy ==
    /\ service = "unscheduled"
    /\ service' = "destroyed"
    /\ UNCHANGED <<timingVars, timerVars, sleeps>>

\* The event types that exist.
Owned == IF service = "destroyed" THEN EventType \ {Looping} ELSE EventType

-----------------------------------------------------------------------------
\* Steps of CoreTiming alone.
Timing(step) == step /\ UNCHANGED <<timerVars, service, sleeps>>

TimerStep ==
    \/ Timing(TimerThread(Owned))
    \/ DoTaskIgnored
    \/ DoTask
    \/ DoTaskReturn
    \/ LoopingCallback

\* ShutdownMainProcess has unpaused, and services and guest are gone, when
\* ClearPendingEvents is called.
Shutdown == ClearPendingEvents /\ ~paused /\ lock = "free" /\ service \in {"unscheduled", "destroyed"}

TimerNext ==
    \/ Timing(Tick)
    \/ TimerStep
    \/ EnableInterrupt
    \/ \E t \in Task, s \in 1 .. MaxTime : RegisterAbsoluteTask(t, s)
    \/ \E t \in Task : CancelTask(t)
    \/ ServiceSchedule
    \/ ServiceUnschedule
    \/ ServiceUnscheduled
    \/ ServiceDestroy
    \/ \E p \in BOOLEAN : Timing(SyncPauseBegin(p))
    \/ Timing(SyncPause)
    \/ Timing(Shutdown)
    \/ Timing(TimingReset)

TimerSpec == TimerInit /\ [][TimerNext]_allTimerVars

\* The clock goes on, and every host thread goes on with what it does.
FairTimerSpec ==
    /\ TimerSpec
    /\ WF_allTimerVars(Timing(Tick))
    /\ WF_allTimerVars(TimerStep)
    /\ WF_allTimerVars(EnableInterrupt)
    /\ WF_allTimerVars(Timing(SyncPause))

-----------------------------------------------------------------------------
\* Every variable has its type.
TimerTypeOK ==
    /\ now \in 0 .. MaxTime
    /\ event_queue \subseteq
        [type : EventType, time : 0 .. Never, period : {0, Period}, active : BOOLEAN]
    /\ event \in BOOLEAN /\ pause_event \in BOOLEAN
    /\ paused \in BOOLEAN /\ paused_set \in BOOLEAN
    /\ pause_end_time \in 0 .. MaxTime
    /\ timer_thread \in {"outer", "inner", "unpausing", "advance", "callback", "callback_rest", "wait",
                  "pausing", "pause_wait", "ended"}
    /\ wait_until \in 0 .. Never
    /\ running \in [type : EventType \cup {NoType}, looping : BOOLEAN, changed : BOOLEAN]
    /\ stop \in BOOLEAN
    /\ control \in {"idle", "pause_event", "unpause_event", "unpause_end_time", "pause_kick",
                    "unpause_kick", "pause_spin", "unpause_spin", "cleared",
                    "reset_pause_event", "reset_event", "reset_stop", "reset_join", "down"}
    /\ time \in [Task -> 0 .. MaxTime]
    /\ m_next_task \in 0 .. MaxTime
    /\ m_wakeup_time \in 1 .. Never
    /\ lock \in {"free", "caller", "timer"}
    /\ programming \in [step : {"none", "disable", "schedule", "set"}, wakeup : 0 .. MaxTime]
    /\ service \in {"unscheduled", "scheduled", "waiting", "destroyed"}
    /\ sleeps \in 0 .. MaxSleeps

\* DoTask is about to be run by the timer thread.
InterruptPending == timer_thread = "callback" /\ running.type = Callback

\* Whenever the scheduler lock is free, the earliest task is looked after: the
\* interrupt is enabled for a time no later than the task's, and either a
\* CoreTiming event that early is queued or its callback is about to run
\* DoTask, so no sleep is overslept.  The guest is gone after shutdown.
EarliestProgrammed ==
    /\ TimerTypeOK
    /\ GuestRuns /\ lock = "free" /\ Tree(time) # {} =>
        /\ m_next_task = FirstTime(time)
        /\ m_wakeup_time <= FirstTime(time)
        /\ \/ InterruptPending
           \/ \E e \in event_queue : e.type = Callback /\ e.time <= FirstTime(time)

\* Once UnscheduleEvent with Wait has returned, the event is neither queued
\* nor being run, whatever its callback was doing when the call was made: the
\* owner may be destroyed, and leaves no expired event that Advance would stop
\* at.
UnscheduledStaysQuiet ==
    service \in {"unscheduled", "destroyed"} =>
        /\ \A e \in event_queue : e.type # Looping
        /\ running.type # Looping

\* Advance goes on with a looping event after its callback only while the
\* event it holds a reference to is still in the heap: one that another
\* thread unscheduled meanwhile is told by its sequence_number.
RescheduledEventIsQueued ==
    running.looping /\ ~running.changed =>
        \E e \in event_queue : e.active /\ e.type = running.type

\* Shutting down, or paused.
Halted == paused \/ ~GuestRuns

\* A sleep ends, by timeout or otherwise, if emulation is not paused for good.
SleepEnds == \A t \in Task : []<>(time[t] = 0 \/ Halted)

\* SyncPause returns: the timer thread, wherever it is, notices.
SyncPauseReturns == []<>(control \notin {"pause_spin", "unpause_spin"})
=============================================================================
