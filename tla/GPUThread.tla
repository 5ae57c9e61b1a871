----------------------------- MODULE GPUThread -----------------------------
(***************************************************************************)
(* The GPU thread and the threads that give it work: ThreadManager         *)
(* (video_core/gpu_thread.{h,cpp}) and the sync requests of GPU::Impl      *)
(* (video_core/gpu.cpp).                                                   *)
(*                                                                         *)
(* A command goes through a bounded queue with a fence; in synchronous     *)
(* mode the caller waits until the GPU thread has signaled that fence.  A  *)
(* sync operation (OnCPURead, WaitForIdle, GetAppletCaptureBuffer, the     *)
(* asynchronous FlushAndInvalidateRegion) is a request on a list of its    *)
(* own, a tick command that makes the GPU thread look at the list, and a   *)
(* wait for the request's fence.  RequestComposite leaves out the wait,    *)
(* WaitForComposite does it later.                                         *)
(*                                                                         *)
(* The queue is the BoundedFifo that BoundedQueue implements.  What the    *)
(* commands and requests do to the renderer is left out.                   *)
(***************************************************************************)
EXTENDS Naturals, Sequences, SequencesExt, FiniteSets

CONSTANTS
    Thread,       \* the threads that give the GPU thread work
    Compositor,   \* the one that composites frames
    Capacity,     \* the size of the command queue
    Modes,        \* use_asynchronous_gpu_emulation: the values of is_async
    MaxCommands,  \* bound: the commands pushed in a behaviour
    Nil           \* no thread, no command

\* The queue takes 4096 commands.  In synchronous mode every thread has at most
\* one of its own in it, so a thread that pushes finds room.  With more threads
\* than room it could wait for room with write_lock held, while the GPU thread
\* waits for write_lock to notify.
ASSUME GPUAssumption ==
    /\ Compositor \in Thread /\ Nil \notin Thread
    /\ Capacity \in Nat \ {0}
    /\ Modes \subseteq BOOLEAN
    /\ FALSE \in Modes => Cardinality(Thread) <= Capacity

VARIABLES
    isAsync,       \* GPU::Impl::is_async, constant
    queue,         \* SynchState::queue
    writeLock,     \* SynchState::write_lock
    lastFence,     \* SynchState::last_fence
    signaledFence, \* SynchState::signaled_fence
    syncMutex,     \* sync_request_mutex
    syncRequests,  \* sync_requests, the requests with their owners
    lastSync,      \* last_sync_fence
    currentSync,   \* current_sync_fence
    pending,       \* pending_composite_fence
    gpu,           \* where the GPU thread is
    current,       \* its command
    running,       \* the request it runs
    shuttingDown,  \* shutting_down
    stop,          \* the stop request of the GPU thread
    pc,            \* where the other threads are
    call           \* their operation, the fences of its command and its request

queueVars == <<queue, lastFence, signaledFence>>
syncVars == <<syncRequests, lastSync, currentSync, pending>>
gpuVars == <<gpu, current, running>>
stopVars == <<shuttingDown, stop>>
vars == <<isAsync, queueVars, writeLock, syncMutex, syncVars, gpuVars, stopVars, pc, call>>

\* The entry points: PushGPUEntries and the synchronous flushes; OnCPURead,
\* WaitForIdle, GetAppletCaptureBuffer and the asynchronous
\* FlushAndInvalidateRegion; RequestComposite; WaitForComposite.
Operations == {"submit", "sync", "composite", "wait_composite", "none"}

NoCall == [op |-> "none", fence |-> 0, sync |-> 0]

Init ==
    /\ isAsync \in Modes
    /\ queue = <<>> /\ lastFence = 0 /\ signaledFence = 0
    /\ writeLock = Nil /\ syncMutex = Nil
    /\ syncRequests = <<>> /\ lastSync = 0 /\ currentSync = 0 /\ pending = 0
    /\ gpu = "loop" /\ current = Nil /\ running = Nil
    /\ shuttingDown = FALSE /\ stop = FALSE
    /\ pc = [t \in Thread |-> "idle"]
    /\ call = [t \in Thread |-> NoCall]

Goto(t, label) == pc' = [pc EXCEPT ![t] = label]

\* A step of an operation, which may be the last one.
Continue(t, label) ==
    /\ Goto(t, label)
    /\ call' = IF label = "idle" THEN [call EXCEPT ![t] = NoCall] ELSE call

\* Threads that sleep on a condition variable go for its mutex again.
Wake(label, next) == [t \in Thread |-> IF pc[t] = label THEN next ELSE pc[t]]

-----------------------------------------------------------------------------
(* The operations *)

MayPush == lastFence + Cardinality({t \in Thread : pc[t] = "push"}) < MaxCommands

\* PushGPUEntries, and the synchronous FlushRegion.
SubmitList(t) ==
    /\ pc[t] = "idle"
    /\ MayPush
    /\ call' = [call EXCEPT ![t].op = "submit"]
    /\ Goto(t, "push")
    /\ UNCHANGED <<isAsync, queueVars, writeLock, syncMutex, syncVars, gpuVars, stopVars>>

\* RequestSyncOperation, the first step of a sync operation and of
\* RequestComposite, which stores the fence.
RequestSyncOperation(t, o) ==
    /\ pc[t] = "idle"
    /\ MayPush
    /\ syncMutex = Nil
    /\ lastSync' = lastSync + 1
    /\ syncRequests' = Append(syncRequests, [owner |-> t, fence |-> lastSync', op |-> o])
    /\ pending' = IF o = "composite" THEN lastSync' ELSE pending
    /\ call' = [call EXCEPT ![t].op = o, ![t].sync = lastSync']
    /\ Goto(t, "push")
    /\ UNCHANGED <<isAsync, queueVars, writeLock, syncMutex, currentSync, gpuVars, stopVars>>

\* WaitForComposite up to the wait.
WaitForComposite(t) ==
    /\ pc[t] = "idle"
    /\ pending # 0
    /\ pending' = 0
    /\ \/ /\ shuttingDown
          /\ UNCHANGED <<pc, call>>
       \/ /\ ~ shuttingDown
          /\ call' = [call EXCEPT ![t].op = "wait_composite", ![t].sync = pending]
          /\ Goto(t, "sync_lock")
    /\ UNCHANGED <<isAsync, queueVars, writeLock, syncMutex, syncRequests, lastSync, currentSync,
                   gpuVars, stopVars>>

-----------------------------------------------------------------------------
(* PushCommand *)

\* What follows the push of a command: the wait of a sync operation.
AfterPush(t) == IF call[t].op = "sync" THEN "sync_lock" ELSE "idle"

\* The caller of a command waits for it in synchronous mode.
BlocksOnLists(t) == ~ isAsync \/ call[t].op = "submit"
Blocks(t) == ~ isAsync

\* write_lock is taken, the fence drawn, and the lock kept for the push.
PushLock(t) ==
    /\ pc[t] = "push"
    /\ writeLock = Nil
    /\ writeLock' = t
    /\ lastFence' = lastFence + 1
    /\ call' = [call EXCEPT ![t].fence = lastFence']
    /\ Goto(t, "emplace")
    /\ UNCHANGED <<isAsync, queue, signaledFence, syncMutex, syncVars, gpuVars, stopVars>>

Pushed(command) == Append(queue, command)

HasRoom == Len(queue) < Capacity

\* TickGPU follows every request.
Ticks(t) == call[t].op # "submit"

\* EmplaceWait; without a wait the lock is released and the push is over.
PushEmplace(t) ==
    /\ pc[t] = "emplace"
    /\ HasRoom
    /\ queue' = Pushed([owner |-> t, fence |-> call[t].fence, block |-> Blocks(t),
                        tick |-> Ticks(t)])
    /\ Continue(t, IF Blocks(t) THEN "test" ELSE AfterPush(t))
    /\ writeLock' = IF Blocks(t) THEN t ELSE Nil
    /\ UNCHANGED <<isAsync, lastFence, signaledFence, syncMutex, syncVars, gpuVars, stopVars>>

\* cv.wait: the stop token and the predicate, then on or, with write_lock still
\* held, towards sleep.
FenceReachedEarly(t) == call[t].fence <= signaledFence + 1
FenceReached(t) == call[t].fence <= signaledFence

PushTest(t) ==
    /\ pc[t] = "test"
    /\ \/ /\ stop \/ FenceReached(t)
          /\ Continue(t, AfterPush(t))
          /\ writeLock' = Nil
       \/ /\ ~ (stop \/ FenceReached(t))
          /\ Continue(t, "block")
          /\ writeLock' = writeLock
    /\ UNCHANGED <<isAsync, queueVars, syncMutex, syncVars, gpuVars, stopVars>>

\* To sleep, which releases write_lock.  A stop request since the test is not
\* slept through: the wait is over.
PushSleep(t) ==
    /\ pc[t] = "block"
    /\ Continue(t, IF stop THEN AfterPush(t) ELSE "sleep")
    /\ writeLock' = Nil
    /\ UNCHANGED <<isAsync, queueVars, syncMutex, syncVars, gpuVars, stopVars>>

PushRelock(t) ==
    /\ pc[t] = "relock"
    /\ writeLock = Nil
    /\ writeLock' = t
    /\ Goto(t, "test")
    /\ UNCHANGED <<isAsync, queueVars, syncMutex, syncVars, gpuVars, stopVars, call>>

-----------------------------------------------------------------------------
(* WaitForSyncOperation: no stop token here *)

SyncLock(t) ==
    /\ pc[t] = "sync_lock"
    /\ syncMutex = Nil
    /\ syncMutex' = t
    /\ Goto(t, "sync_test")
    /\ UNCHANGED <<isAsync, queueVars, writeLock, syncVars, gpuVars, stopVars, call>>

SyncReachedEarly(t) == currentSync + 1 >= call[t].sync
SyncReached(t) == currentSync >= call[t].sync

SyncTest(t) ==
    /\ pc[t] = "sync_test"
    /\ Continue(t, IF SyncReached(t) THEN "idle" ELSE "sync_block")
    /\ syncMutex' = IF SyncReached(t) THEN Nil ELSE syncMutex
    /\ UNCHANGED <<isAsync, queueVars, writeLock, syncVars, gpuVars, stopVars>>

SyncSleep(t) ==
    /\ pc[t] = "sync_block"
    /\ Goto(t, "sync_sleep")
    /\ syncMutex' = Nil
    /\ UNCHANGED <<isAsync, queueVars, writeLock, syncVars, gpuVars, stopVars, call>>

-----------------------------------------------------------------------------
(* The GPU thread *)

\* The loop ends on a stop request; otherwise PopWait.
GpuPop ==
    /\ gpu = "loop"
    /\ ~ stop
    /\ queue # <<>>
    /\ current' = Head(queue)
    /\ queue' = Tail(queue)
    /\ gpu' = "popped"
    /\ UNCHANGED <<isAsync, lastFence, signaledFence, writeLock, syncMutex, syncVars, running, stopVars,
                   pc, call>>

\* A stop request ends the loop, with whatever is in the queue or was just
\* taken from it.
GpuExit ==
    /\ gpu \in {"loop", "popped"}
    /\ stop
    /\ gpu' = "exited"
    /\ current' = Nil
    /\ UNCHANGED <<isAsync, queueVars, writeLock, syncMutex, syncVars, running, stopVars, pc, call>>

\* A command other than a tick is executed.
GpuExecute ==
    /\ gpu = "popped"
    /\ ~ stop
    /\ gpu' = IF current.tick THEN "tick" ELSE "signal"
    /\ UNCHANGED <<isAsync, queueVars, writeLock, syncMutex, syncVars, current, running, stopVars, pc,
                   call>>

\* TickWork with sync_request_mutex: after a request everybody who waits is
\* notified; the next request is taken, or the tick is over.
NotifyAll == Wake("sync_sleep", "sync_lock")

GpuTick ==
    /\ gpu \in {"tick", "tick_again"}
    /\ syncMutex = Nil
    /\ pc' = IF gpu = "tick_again" THEN NotifyAll ELSE pc
    /\ \/ /\ syncRequests = <<>>
          /\ gpu' = "signal"
          /\ UNCHANGED <<running, syncRequests>>
       \/ /\ syncRequests # <<>>
          /\ running' = Head(syncRequests)
          /\ syncRequests' = Tail(syncRequests)
          /\ gpu' = "request"
    /\ UNCHANGED <<isAsync, queueVars, writeLock, syncMutex, lastSync, currentSync, pending,
                   current, stopVars, call>>

\* The request has run: current_sync_fence counts it, without the mutex.
GpuRequestDone ==
    /\ gpu = "request"
    /\ currentSync' = currentSync + 1
    /\ running' = Nil
    /\ gpu' = "tick_again"
    /\ UNCHANGED <<isAsync, queueVars, writeLock, syncMutex, syncRequests, lastSync, pending,
                   current, stopVars, pc, call>>

GpuSignal ==
    /\ gpu = "signal"
    /\ signaledFence' = current.fence
    /\ gpu' = IF current.block THEN "notify" ELSE "loop"
    /\ current' = Nil
    /\ UNCHANGED <<isAsync, queue, lastFence, writeLock, syncMutex, syncVars, running, stopVars, pc,
                   call>>

\* notify_all under write_lock.
GpuNotify ==
    /\ gpu = "notify"
    /\ writeLock = Nil
    /\ pc' = Wake("sleep", "relock")
    /\ gpu' = "loop"
    /\ UNCHANGED <<isAsync, queueVars, writeLock, syncMutex, syncVars, current, running, stopVars,
                   call>>

-----------------------------------------------------------------------------
(* The rest *)

\* NotifyShutdown: shutting_down is set ...
NotifyShutdown ==
    /\ ~ shuttingDown
    /\ shuttingDown' = TRUE
    /\ UNCHANGED <<isAsync, queueVars, writeLock, syncMutex, syncVars, gpuVars, stop, pc, call>>

\* ... and the GPU thread asked to stop, which also wakes those who wait with
\* its token.
StopThread ==
    /\ shuttingDown /\ ~ stop
    /\ stop' = TRUE
    /\ pc' = Wake("sleep", "relock")
    /\ UNCHANGED <<isAsync, queueVars, writeLock, syncMutex, syncVars, gpuVars, shuttingDown, call>>

\* Condition variables may wake a thread for no reason.
SpuriousWakeup(t) ==
    /\ \/ pc[t] = "sleep" /\ Goto(t, "relock")
       \/ pc[t] = "sync_sleep" /\ Goto(t, "sync_lock")
    /\ UNCHANGED <<isAsync, queueVars, writeLock, syncMutex, syncVars, gpuVars, stopVars, call>>

CallStep(t) ==
    \/ PushLock(t)
    \/ PushEmplace(t)
    \/ PushTest(t)
    \/ PushSleep(t)
    \/ PushRelock(t)
    \/ SyncLock(t)
    \/ SyncTest(t)
    \/ SyncSleep(t)

GpuStep == GpuPop \/ GpuExit \/ GpuExecute \/ GpuTick \/ GpuRequestDone \/ GpuSignal \/ GpuNotify

Next ==
    \/ \E t \in Thread : SubmitList(t) \/ RequestSyncOperation(t, "sync") \/ CallStep(t)
    \/ RequestSyncOperation(Compositor, "composite")
    \/ WaitForComposite(Compositor)
    \/ GpuStep
    \/ NotifyShutdown
    \/ StopThread
    \/ \E t \in Thread : SpuriousWakeup(t)

Spec == Init /\ [][Next]_vars

\* Threads inside an operation go on, and the GPU thread loops; both may have to
\* wait for a mutex that others take and release again and again, hence strong
\* fairness.  Nobody has to start an operation or to shut down.
Fairness ==
    /\ \A t \in Thread : SF_vars(CallStep(t))
    /\ SF_vars(GpuStep)

FairSpec == Spec /\ Fairness

-----------------------------------------------------------------------------
(* Properties *)

Command == [owner : Thread, fence : Nat, block : BOOLEAN, tick : BOOLEAN]
Request == [owner : Thread, fence : Nat, op : {"sync", "composite"}]

\* Every variable has its type.
TypeOK ==
    /\ {isAsync, shuttingDown, stop} \subseteq BOOLEAN
    /\ queue \in Seq(Command) /\ Len(queue) <= Capacity
    /\ writeLock \in Thread \cup {Nil} /\ syncMutex \in Thread \cup {Nil}
    /\ {lastFence, signaledFence, lastSync, currentSync, pending} \subseteq Nat
    /\ syncRequests \in Seq(Request)
    /\ gpu \in {"loop", "popped", "tick", "tick_again", "request", "signal", "notify", "exited"}
    /\ current \in Command \cup {Nil} /\ running \in Request \cup {Nil}
    /\ pc \in [Thread -> {"idle", "push", "emplace", "test", "block", "sleep", "relock",
                          "sync_lock", "sync_test", "sync_block", "sync_sleep"}]
    /\ call \in [Thread -> [op : Operations, fence : Nat, sync : Nat]]

\* The request of OnCPURead and GetAppletCaptureBuffer refers to variables on the
\* caller's stack: as long as it is on the list or runs, its caller is in the
\* call, whatever other requests were counted by current_sync_fence before.
RequestHasCaller ==
    \A r \in Range(syncRequests) \cup ({running} \ {Nil}) :
        r.op = "sync" => call[r.owner].op = "sync" /\ call[r.owner].sync = r.fence

\* Commands are executed in the order of their fences, so that signaled_fence
\* stands for all commands before it, and in synchronous mode a caller does not
\* get ahead of its command: until it has been executed, or the emulation is
\* shut down, the caller waits in PushCommand.
CallerWaitsForCommand ==
    /\ TypeOK
    /\ \A c \in Range(queue) \cup ({current} \ {Nil}) :
        c.block /\ ~ stop => /\ pc[c.owner] \in {"test", "block", "sleep", "relock"}
                              /\ call[c.owner].fence = c.fence
    /\ \A i, j \in DOMAIN queue : i < j => queue[i].fence < queue[j].fence
    /\ \A c \in Range(queue) \cup ({current} \ {Nil}) : signaledFence < c.fence /\ c.fence <= lastFence
    /\ current # Nil => \A c \in Range(queue) : current.fence < c.fence

\* A request that nobody looks at has a tick command on the way: its caller is
\* still going to push one, one is in the queue, or the GPU thread is at it.
RequestHasTick ==
    syncRequests # <<>> /\ ~ stop =>
        \/ \E t \in Thread : pc[t] \in {"push", "emplace"} /\ call[t].op # "submit"
        \/ \E c \in Range(queue) : c.tick
        \/ gpu \in {"tick", "tick_again", "request"}
        \/ gpu = "popped" /\ current.tick

\* A sync request is looked after from both ends: its caller stays for it and
\* the GPU thread is going to come across it.
RequestsLookedAfter == RequestHasCaller /\ RequestHasTick

\* Every operation ends, unless the emulation is shut down: a thread that holds
\* write_lock while it waits for room in the queue does not keep the GPU thread
\* from making room.
OperationsReturn == \A t \in Thread : []<>(pc[t] = "idle" \/ stop)
=============================================================================
