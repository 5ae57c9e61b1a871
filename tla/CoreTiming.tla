----------------------------- MODULE CoreTiming -----------------------------
(***************************************************************************)
(* CoreTiming (core_timing.cpp) in multicore mode: the queue of timed      *)
(* events, the HostTiming thread that runs their callbacks, and the calls  *)
(* that schedule and unschedule events, pause the thread and shut it down. *)
(*                                                                         *)
(* basic_lock is held for one action at a time; advance_lock is held by    *)
(* the timer thread from AdvanceBegin to AdvanceEnd, over the callbacks,   *)
(* which run with basic_lock released.  What a callback does is left to    *)
(* the module that extends this one, which is also where each action's     *)
(* callers are.  Events of the same time are taken in any order here, the  *)
(* code's fifo_order being one of them.                                    *)
(***************************************************************************)
EXTENDS Naturals

CONSTANTS
    EventType,  \* the event types created with CreateEvent
    NoType,     \* no event type
    MaxTime     \* bound: the clock stops here

ASSUME MaxTimeAssumption == MaxTime \in Nat \ {0}

ASSUME NoTypeAssumption == NoType \notin EventType

VARIABLES
    now,          \* GetGlobalTimeNs()
    event_queue,  \* the heap: a set of Entry records
    event,        \* event.is_set
    pause_event,  \* pause_event.is_set
    paused,
    paused_set,
    pause_end_time,
    timer_thread, \* where the timer thread is
    wait_until,   \* the next_time it sleeps to; Never after std::nullopt
    running,      \* the event whose callback runs, its type NoType if none
    stop,         \* timer_thread's stop token
    control       \* the thread that pauses and resets: what it is doing

queueVars == <<event_queue, running>>

signalVars == <<event, pause_event>>

pauseVars == <<paused, paused_set, pause_end_time>>

threadVars == <<timer_thread, wait_until>>

controlVars == <<stop, control>>

timingVars == <<now, queueVars, signalVars, pauseVars, threadVars, controlVars>>

\* Later than every time that is reached.
Never == MaxTime + 1

\* changed: sequence_number is no longer the one read before the callback.
NotRunning == [type |-> NoType, looping |-> FALSE, changed |-> FALSE]

\* After Initialize: Reset() has paused the thread, which is about to enter its loop.
TimingInit ==
    /\ now = 0
    /\ event_queue = {}
    /\ event = TRUE
    /\ pause_event = TRUE
    /\ paused = TRUE
    /\ paused_set = FALSE
    /\ pause_end_time = 0
    /\ timer_thread = "outer"
    /\ wait_until = Never
    /\ running = NotRunning
    /\ stop = FALSE
    /\ control = "idle"

\* The clock.
Tick ==
    /\ now < MaxTime
    /\ now' = now + 1
    /\ UNCHANGED <<queueVars, signalVars, pauseVars, threadVars, controlVars>>

-----------------------------------------------------------------------------
(* The queue, under basic_lock *)

\* Event: time, type, reschedule_time; active marks the one a looping
\* callback is run for, which stays in the heap meanwhile.
Entry(type, time, period) == [type |-> type, time |-> time, period |-> period, active |-> FALSE]

\* event_queue.top(): an event no other one is earlier than.
IsTop(e) == e \in event_queue /\ \A f \in event_queue : e.time <= f.time

\* The queue without the events of a type: what UnscheduleEvent leaves.
Unscheduled(type) == {e \in event_queue : e.type # type}

\* sequence_number++
SequenceNumberKept(type) == running
SequenceNumberBumped(type) ==
    IF running.type = type THEN [running EXCEPT !.changed = TRUE] ELSE running

-----------------------------------------------------------------------------
(* The timer thread *)

\* while (!stop_token.stop_requested())
OuterTest ==
    /\ timer_thread = "outer"
    /\ timer_thread' = IF stop THEN "ended" ELSE "inner"
    /\ UNCHANGED <<now, queueVars, signalVars, pauseVars, controlVars, wait_until>>

\* while (!paused && !stop_token.stop_requested())
InnerTest ==
    /\ timer_thread = "inner"
    /\ timer_thread' = IF paused \/ stop THEN "pausing" ELSE "unpausing"
    /\ UNCHANGED <<now, queueVars, signalVars, pauseVars, controlVars, wait_until>>

\* paused_set = false, and the locks of Advance().
AdvanceBegin ==
    /\ timer_thread = "unpausing"
    /\ paused_set' = FALSE
    /\ timer_thread' = "advance"
    /\ UNCHANGED <<now, queueVars, signalVars, controlVars, paused, pause_end_time, wait_until>>

\* A due event: a one-shot is popped before its callback runs, a looping one
\* is not.  owned are the types whose owner still exists: with an event of
\* another type on top the weak_ptr has expired, the event is neither popped nor
\* run, and Advance() looks at it again, with its locks held, for good.
AdvanceCallback(owned) ==
    /\ timer_thread = "advance"
    /\ \E e \in event_queue :
        /\ IsTop(e)
        /\ e.time <= now
        /\ e.type \in owned
        /\ event_queue' = (event_queue \ {e}) \cup
                          (IF e.period = 0 THEN {} ELSE {[e EXCEPT !.active = TRUE]})
        /\ running' = [type |-> e.type, looping |-> e.period # 0, changed |-> FALSE]
    /\ timer_thread' = "callback"
    /\ UNCHANGED <<now, signalVars, pauseVars, controlVars, wait_until>>

\* next_time of a looping event, moved past a pause it was scheduled into.
NextScheduleTime(e) ==
    LET next == (IF e.time < pause_end_time THEN pause_end_time ELSE e.time) + e.period
    IN  IF next > Never THEN Never ELSE next

\* event_queue.update of the event the callback was run for.
Rescheduled ==
    {IF e.active THEN [e EXCEPT !.time = NextScheduleTime(e), !.active = FALSE] ELSE e :
        e \in event_queue}

\* The callback has returned and basic_lock is taken again: a looping event
\* goes on unless it was unscheduled meanwhile.
QueueAfterCallback ==
    IF running.looping /\ ~running.changed THEN Rescheduled ELSE event_queue

CallbackReturn ==
    /\ timer_thread \in {"callback", "callback_rest"}
    /\ event_queue' = QueueAfterCallback
    /\ running' = NotRunning
    /\ timer_thread' = "advance"
    /\ UNCHANGED <<now, signalVars, pauseVars, controlVars, wait_until>>

\* Nothing is due: Advance() returns the time of the top, or nothing.
AdvanceEnd ==
    /\ timer_thread = "advance"
    /\ \A e \in event_queue : e.time > now
    /\ \/ event_queue = {} /\ wait_until' = Never
       \/ \E e \in event_queue : IsTop(e) /\ wait_until' = e.time
    /\ timer_thread' = "wait"
    /\ UNCHANGED <<now, queueVars, signalVars, pauseVars, controlVars>>

\* event.Wait, or event.WaitFor(wait_time) when there is time to wait.
WaitEnds ==
    /\ timer_thread = "wait"
    /\ \/ event /\ event' = FALSE
       \/ wait_until <= now /\ UNCHANGED event
    /\ wait_until' = Never
    /\ timer_thread' = "inner"
    /\ UNCHANGED <<now, queueVars, pauseVars, controlVars, pause_event>>

\* paused_set = true, after the inner loop.
PausedSet ==
    /\ timer_thread = "pausing"
    /\ paused_set' = TRUE
    /\ timer_thread' = "pause_wait"
    /\ UNCHANGED <<now, queueVars, signalVars, controlVars, paused, pause_end_time, wait_until>>

\* pause_event.Wait()
PauseWaitEnds ==
    /\ timer_thread = "pause_wait"
    /\ pause_event
    /\ pause_event' = FALSE
    /\ timer_thread' = "outer"
    /\ UNCHANGED <<now, queueVars, pauseVars, controlVars, event, wait_until>>

\* The steps of the timer thread outside the callbacks.
TimerThread(owned) ==
    \/ OuterTest
    \/ InnerTest
    \/ AdvanceBegin
    \/ AdvanceCallback(owned)
    \/ AdvanceEnd
    \/ WaitEnds
    \/ PausedSet
    \/ PauseWaitEnds

-----------------------------------------------------------------------------
(* The calls *)

\* ScheduleEvent and ScheduleLoopingEvent, up to event.Set().
Schedule(type, time, period) ==
    /\ event_queue' = event_queue \cup {Entry(type, time, period)}
    /\ UNCHANGED <<now, signalVars, pauseVars, threadVars, controlVars, running>>

\* event.Set(), with which both of them end.
EventSetDropped == UNCHANGED timingVars
EventSet ==
    /\ event' = TRUE
    /\ UNCHANGED <<now, queueVars, pauseVars, threadVars, controlVars, pause_event>>

\* UnscheduleEvent under basic_lock.
Unschedule(type) ==
    /\ event_queue' = Unscheduled(type)
    /\ running' = SequenceNumberBumped(type)
    /\ UNCHANGED <<now, signalVars, pauseVars, threadVars, controlVars>>

\* UnscheduleEvent with Wait gets advance_lock: Advance() is not running.
InProgressFinishedDropped == TRUE
InProgressFinished == timer_thread \notin {"advance", "callback", "callback_rest"}

-----------------------------------------------------------------------------
(* SyncPause(is_paused), called with suspend_guard held: by one thread at a *)
(* time.  control is "idle" or the next thing that thread does.             *)

\* The early return is the case that leaves everything as it is.
SyncPauseBegin(is_paused) ==
    /\ control = "idle"
    /\ ~(is_paused = paused /\ paused_set = paused)
    /\ paused' = is_paused
    /\ control' = IF is_paused THEN "pause_event" ELSE "unpause_event"
    /\ UNCHANGED <<now, queueVars, signalVars, threadVars, paused_set, pause_end_time, stop>>

\* pause_event.Set() of Pause.
SyncPauseEvent ==
    /\ control \in {"pause_event", "unpause_event"}
    /\ pause_event' = TRUE
    /\ control' = IF control = "pause_event" THEN "pause_kick" ELSE "unpause_end_time"
    /\ UNCHANGED <<now, queueVars, pauseVars, threadVars, event, stop>>

\* Pause, when unpausing, ends with the time; SyncPause sets pause_event again.
SyncPauseEndTime ==
    /\ control = "unpause_end_time"
    /\ pause_end_time' = now
    /\ pause_event' = TRUE
    /\ control' = "unpause_kick"
    /\ UNCHANGED <<now, queueVars, threadVars, event, paused, paused_set, stop>>

\* event.Set() gets the timer thread out of its sleep.
KickEventDropped == UNCHANGED event
KickEvent == event' = TRUE
SyncPauseKick ==
    /\ control \in {"pause_kick", "unpause_kick"}
    /\ KickEvent
    /\ control' = IF control = "pause_kick" THEN "pause_spin" ELSE "unpause_spin"
    /\ UNCHANGED <<now, queueVars, pauseVars, threadVars, pause_event, stop>>

\* while (paused_set != is_paused), and pause_end_time once more.
SyncPauseReturn ==
    /\ \/ control = "pause_spin" /\ paused_set /\ UNCHANGED pause_end_time
       \/ control = "unpause_spin" /\ ~paused_set /\ pause_end_time' = now
    /\ control' = "idle"
    /\ UNCHANGED <<now, queueVars, signalVars, threadVars, paused, paused_set, stop>>

SyncPause ==
    \/ SyncPauseEvent
    \/ SyncPauseEndTime
    \/ SyncPauseKick
    \/ SyncPauseReturn

-----------------------------------------------------------------------------
(* Shutdown: ClearPendingEvents, then Reset of the destructor *)

ClearPendingEvents ==
    /\ control = "idle"
    /\ InProgressFinished
    /\ event_queue' = {}
    /\ event' = TRUE
    /\ control' = "cleared"
    /\ UNCHANGED <<now, pauseVars, threadVars, pause_event, running, stop>>

ResetPause ==
    /\ control = "cleared"
    /\ paused' = TRUE
    /\ control' = "reset_pause_event"
    /\ UNCHANGED <<now, queueVars, signalVars, threadVars, paused_set, pause_end_time, stop>>

ResetPauseEvent ==
    /\ control = "reset_pause_event"
    /\ pause_event' = TRUE
    /\ control' = "reset_event"
    /\ UNCHANGED <<now, queueVars, pauseVars, threadVars, event, stop>>

ResetEvent ==
    /\ control = "reset_event"
    /\ event' = TRUE
    /\ control' = "reset_stop"
    /\ UNCHANGED <<now, queueVars, pauseVars, threadVars, pause_event, stop>>

ResetRequestStop ==
    /\ control = "reset_stop"
    /\ stop' = TRUE
    /\ control' = "reset_join"
    /\ UNCHANGED <<now, queueVars, signalVars, pauseVars, threadVars>>

ResetJoin ==
    /\ control = "reset_join"
    /\ timer_thread = "ended"
    /\ control' = "down"
    /\ UNCHANGED <<now, queueVars, signalVars, pauseVars, threadVars, stop>>

TimingReset ==
    \/ ResetPause
    \/ ResetPauseEvent
    \/ ResetEvent
    \/ ResetRequestStop
    \/ ResetJoin
=============================================================================
