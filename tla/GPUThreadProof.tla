--------------------------- MODULE GPUThreadProof ---------------------------
(***************************************************************************)
(* Proofs about GPUThread, for any number of threads, any capacity of the  *)
(* command queue and any number of commands, in both modes: no caller gets *)
(* ahead of its command or of its request, and no request is forgotten.    *)
(***************************************************************************)
EXTENDS GPUThread, TLAPS

(* The inductive invariant, part by part *)

\* The GPU thread has a command.
Busy == gpu \in {"popped", "tick", "tick_again", "request", "signal"}

Unsignaled == Range(queue) \cup (IF Busy THEN {current} ELSE {})

\* A thread outside a call has none on record; write_lock is held from the
\* draw of the fence to the push, and for the test of the predicate.
CallOK ==
    /\ \A t \in Thread : pc[t] = "idle" => call[t].op = "none"
    /\ \A t \in Thread : writeLock = t <=> pc[t] \in {"emplace", "test", "block"}

\* The GPU thread's command, and the fences of the commands in their order; a
\* fence that has been drawn and not pushed is the last one.
FencesOK ==
    /\ IF Busy THEN current \in Command ELSE current = Nil
    /\ signaledFence <= lastFence
    /\ \A c \in Unsignaled : signaledFence < c.fence /\ c.fence <= lastFence
    /\ Busy => \A c \in Range(queue) : current.fence < c.fence
    /\ \A i, j \in DOMAIN queue : i < j => queue[i].fence < queue[j].fence

DrawnOK ==
    \A t \in Thread : pc[t] = "emplace" =>
        /\ call[t].fence = lastFence
        /\ signaledFence < lastFence
        /\ \A c \in Unsignaled : c.fence < lastFence

\* The caller of a command that blocks is in PushCommand.
BlockedOK ==
    \A c \in Unsignaled : c.block /\ ~ stop =>
        pc[c.owner] \in {"test", "block", "sleep", "relock"} /\ call[c.owner].fence = c.fence

\* The requests are numbered without a gap from the one that runs, or the
\* next one: counting is as good as storing the fence of a finished request.
RequestsOK ==
    /\ IF gpu = "request" THEN running \in Request /\ running.fence = currentSync + 1
                          ELSE running = Nil
    /\ lastSync = currentSync + Len(syncRequests) + (IF gpu = "request" THEN 1 ELSE 0)
    /\ \A i \in DOMAIN syncRequests :
        syncRequests[i].fence = currentSync + i + (IF gpu = "request" THEN 1 ELSE 0)

\* RequestHasCaller, with the request that runs told by gpu.
Unfinished == Range(syncRequests) \cup (IF gpu = "request" THEN {running} ELSE {})

CallersOK ==
    \A r \in Unfinished :
        r.op = "sync" => call[r.owner].op = "sync" /\ call[r.owner].sync = r.fence

IInv ==
    /\ TypeOK
    /\ CallOK
    /\ FencesOK
    /\ DrawnOK
    /\ BlockedOK
    /\ RequestsOK
    /\ CallersOK
    /\ RequestHasTick

-----------------------------------------------------------------------------
USE GPUAssumption

\* What the list operations do to the elements.
LEMMA RangeAppend ==
    ASSUME NEW S, NEW s \in Seq(S), NEW x \in S
    PROVE  Range(Append(s, x)) = Range(s) \cup {x}
BY DEF Range

\* TryPop takes the first command off.
LEMMA RangeTail ==
    ASSUME NEW S, NEW s \in Seq(S), s # <<>>
    PROVE  /\ Head(s) = s[1] /\ 1 \in DOMAIN s
           /\ Range(s) = {Head(s)} \cup Range(Tail(s))
           /\ Len(Tail(s)) = Len(s) - 1
           /\ \A i \in DOMAIN Tail(s) : i + 1 \in DOMAIN s /\ Tail(s)[i] = s[i + 1]
<1>1. /\ Head(s) = s[1] /\ 1 \in DOMAIN s
      /\ Len(Tail(s)) = Len(s) - 1
      /\ \A i \in DOMAIN Tail(s) : i + 1 \in DOMAIN s /\ Tail(s)[i] = s[i + 1]
  OBVIOUS
<1>2. \A i \in DOMAIN s : i = 1 \/ (i - 1 \in DOMAIN Tail(s) /\ s[i] = Tail(s)[i - 1])
  OBVIOUS
<1> QED BY <1>1, <1>2 DEF Range

\* The record of a call keeps its type.
LEMMA CallTyped ==
    ASSUME TypeOK, NEW t \in Thread, NEW o \in Operations, NEW n \in Nat
    PROVE  {[call EXCEPT ![t].op = o, ![t].sync = n], [call EXCEPT ![t].fence = n]}
                \subseteq [Thread -> [op : Operations, fence : Nat, sync : Nat]]
<1>1. [call EXCEPT ![t].op = o, ![t].sync = n] \in [Thread -> [op : Operations, fence : Nat, sync : Nat]]
  BY DEF TypeOK
<1>2. [call EXCEPT ![t].fence = n] \in [Thread -> [op : Operations, fence : Nat, sync : Nat]]
  BY DEF TypeOK
<1> QED BY <1>1, <1>2

\* The fields of the commands and the requests that are on their way.
LEMMA Elements ==
    ASSUME IInv
    PROVE  /\ \A c \in Unsignaled : c.owner \in Thread /\ c.fence \in Nat
           /\ Range(queue) \subseteq Unsignaled
           /\ \A r \in Unfinished : r.owner \in Thread /\ r.fence \in Nat /\ currentSync < r.fence
<1>1. \A c \in Unsignaled : c \in Command
  BY DEF IInv, TypeOK, FencesOK, Unsignaled, Range
<1>2. \A r \in Unfinished : r \in Request
  BY DEF IInv, TypeOK, RequestsOK, Unfinished, Range
<1>3. \A r \in Unfinished : currentSync < r.fence
  BY DEF IInv, TypeOK, RequestsOK, Unfinished, Range
<1>4. Range(queue) \subseteq Unsignaled
  BY DEF Unsignaled
<1> QED BY <1>1, <1>2, <1>3, <1>4 DEF Command, Request

\* PushGPUEntries starts.
LEMMA StartStep ==
    ASSUME IInv, NEW t \in Thread, SubmitList(t)
    PROVE  IInv'
<1> USE DEF SubmitList, Goto, queueVars, syncVars, gpuVars, stopVars
<1>1. Unsignaled' = Unsignaled
  BY DEF Unsignaled, Busy
<1>2. Unfinished' = Unfinished
  BY DEF Unfinished
<1>3. TypeOK'
  BY DEF IInv, TypeOK, Operations, NoCall
<1>4. CallOK'
  BY DEF IInv, TypeOK, CallOK, NoCall
<1>5. FencesOK'
  BY <1>1, Elements DEF IInv, TypeOK, FencesOK, Busy
<1>6. DrawnOK'
  BY <1>1, Elements DEF IInv, TypeOK, CallOK, DrawnOK
<1>7. BlockedOK'
  BY <1>1, Elements DEF IInv, TypeOK, CallOK, BlockedOK
<1>8. RequestsOK'
  BY <1>2 DEF IInv, TypeOK, RequestsOK
<1>9. CallersOK'
  BY <1>2, Elements DEF IInv, TypeOK, CallOK, CallersOK, NoCall
<1>10. RequestHasTick'
  BY DEF IInv, TypeOK, RequestHasTick
<1> QED BY <1>3, <1>4, <1>5, <1>6, <1>7, <1>8, <1>9, <1>10 DEF IInv

\* RequestSyncOperation numbers and lists the request.
LEMMA RequestStep ==
    ASSUME IInv, NEW t \in Thread, NEW o \in {"sync", "composite"}, RequestSyncOperation(t, o)
    PROVE  IInv'
<1> USE DEF RequestSyncOperation, Goto, queueVars, syncVars, gpuVars, stopVars
<1>1. Unsignaled' = Unsignaled
  BY DEF Unsignaled, Busy
<1>2. [owner |-> t, fence |-> lastSync + 1, op |-> o] \in Request
  BY DEF IInv, TypeOK, Request
<1>3. Unfinished' = Unfinished \cup {[owner |-> t, fence |-> lastSync + 1, op |-> o]}
  BY <1>2, RangeAppend DEF IInv, TypeOK, Unfinished
<1>4. TypeOK'
  <2>1. lastSync' \in Nat /\ pending' \in Nat
    BY DEF IInv, TypeOK
  <2>4. o \in Operations
    BY DEF Operations
  <2>2. call' \in [Thread -> [op : Operations, fence : Nat, sync : Nat]]
    BY <2>1, <2>4, CallTyped DEF IInv
  <2>3. syncRequests' \in Seq(Request)
    BY <1>2 DEF IInv, TypeOK
  <2> QED BY <2>1, <2>2, <2>3 DEF IInv, TypeOK
<1>5. CallOK'
  BY DEF IInv, TypeOK, CallOK, NoCall
<1>6. FencesOK'
  BY <1>1, Elements DEF IInv, TypeOK, FencesOK, Busy
<1>7. DrawnOK'
  BY <1>1, Elements DEF IInv, TypeOK, CallOK, DrawnOK
<1>8. BlockedOK'
  BY <1>1, Elements DEF IInv, TypeOK, CallOK, BlockedOK
<1>9. RequestsOK'
  <2> DEFINE k == IF gpu = "request" THEN 1 ELSE 0
             n == Len(syncRequests)
             request == [owner |-> t, fence |-> lastSync + 1, op |-> o]
  <2>1. /\ syncRequests \in Seq(Request) /\ currentSync \in Nat /\ lastSync \in Nat
        /\ lastSync' = lastSync + 1 /\ syncRequests' = Append(syncRequests, request)
        /\ gpu' = gpu /\ currentSync' = currentSync /\ running' = running
    BY DEF IInv, TypeOK
  <2> HIDE DEF RequestSyncOperation
  <2>2. n \in Nat /\ DOMAIN syncRequests = 1 .. n /\ k \in Nat
    BY <2>1
  <2>3. /\ DOMAIN syncRequests' = 1 .. n + 1 /\ Len(syncRequests') = n + 1
        /\ request.fence = lastSync + 1
    BY <1>2, <2>1
  <2>4. \A i \in 1 .. n + 1 : syncRequests'[i] = IF i = n + 1 THEN request ELSE syncRequests[i]
    BY <1>2, <2>1
  <2>5. /\ lastSync = currentSync + n + k
        /\ \A i \in 1 .. n : syncRequests[i].fence = currentSync + i + k
    BY <2>2 DEF IInv, RequestsOK
  <2>6. k' = k
    BY <2>1
  <2> HIDE DEF k, n, request
  <2>7. lastSync' = currentSync' + Len(syncRequests') + k'
    BY <2>1, <2>2, <2>3, <2>5, <2>6
  <2>8. \A i \in 1 .. n + 1 : i \in 1 .. n \/ i = n + 1
    BY <2>2
  <2>9. \A i \in 1 .. n + 1 : syncRequests'[i].fence = currentSync + i + k
    <3>1. \A i \in 1 .. n : syncRequests'[i] = syncRequests[i]
      BY <2>2, <2>4
    <3>2. syncRequests'[n + 1].fence = currentSync + (n + 1) + k
      BY <2>1, <2>2, <2>3, <2>4, <2>5
    <3> QED BY <2>5, <2>8, <3>1, <3>2
  <2> QED BY <2>1, <2>3, <2>6, <2>7, <2>9 DEF IInv, RequestsOK, k
<1>10. CallersOK'
  <2>1. call'[t].op = o /\ call'[t].sync = lastSync + 1
    BY DEF IInv, TypeOK
  <2>2. \A u \in Thread : u # t => call'[u] = call[u]
    BY DEF IInv, TypeOK
  <2>3. call[t].op = "none"
    BY DEF IInv, CallOK
  <2> HIDE DEF RequestSyncOperation
  <2>4. ASSUME NEW r \in Unfinished, r.op = "sync"
        PROVE  call'[r.owner].op = "sync" /\ call'[r.owner].sync = r.fence
    BY <2>2, <2>3, <2>4, Elements DEF IInv, CallersOK
  <2> QED BY <1>3, <2>1, <2>4 DEF CallersOK
<1>11. RequestHasTick'
  BY DEF IInv, TypeOK, RequestHasTick
<1> QED BY <1>4, <1>5, <1>6, <1>7, <1>8, <1>9, <1>10, <1>11 DEF IInv

\* WaitForComposite starts to wait.
LEMMA WaitForCompositeStep ==
    ASSUME IInv, NEW t \in Thread, WaitForComposite(t)
    PROVE  IInv'
<1> USE DEF WaitForComposite, Goto, queueVars, syncVars, gpuVars, stopVars
<1>1. Unsignaled' = Unsignaled
  BY DEF Unsignaled, Busy
<1>2. Unfinished' = Unfinished
  BY DEF Unfinished
<1>3. TypeOK'
  <2>1. pending \in Nat /\ "wait_composite" \in Operations
    BY DEF IInv, TypeOK, Operations
  <2>2. call' \in [Thread -> [op : Operations, fence : Nat, sync : Nat]]
    <3>1. CASE shuttingDown
      BY <3>1 DEF IInv, TypeOK
    <3>2. CASE ~ shuttingDown
      <4>1. call' = [call EXCEPT ![t].op = "wait_composite", ![t].sync = pending]
        BY <3>2
      <4> HIDE DEF WaitForComposite
      <4> QED BY <2>1, <4>1, CallTyped DEF IInv
    <3> QED BY <3>1, <3>2
  <2>3. pc' \in [Thread -> {"idle", "push", "emplace", "test", "block", "sleep", "relock",
                            "sync_lock", "sync_test", "sync_block", "sync_sleep"}]
    BY DEF IInv, TypeOK
  <2> QED BY <2>2, <2>3 DEF IInv, TypeOK
<1>4. CallOK'
  BY DEF IInv, TypeOK, CallOK, NoCall
<1>5. FencesOK'
  BY <1>1, Elements DEF IInv, TypeOK, FencesOK, Busy
<1>6. DrawnOK'
  BY <1>1, Elements DEF IInv, TypeOK, CallOK, DrawnOK
<1>7. BlockedOK'
  BY <1>1, Elements DEF IInv, TypeOK, CallOK, BlockedOK
<1>8. RequestsOK'
  BY <1>2 DEF IInv, TypeOK, RequestsOK
<1>9. CallersOK'
  BY <1>2, Elements DEF IInv, TypeOK, CallOK, CallersOK, NoCall
<1>10. RequestHasTick'
  BY DEF IInv, TypeOK, RequestHasTick
<1> QED BY <1>3, <1>4, <1>5, <1>6, <1>7, <1>8, <1>9, <1>10 DEF IInv

\* PushCommand draws a fence.
LEMMA PushLockStep ==
    ASSUME IInv, NEW t \in Thread, PushLock(t)
    PROVE  IInv'
<1> USE DEF PushLock, Goto, queueVars, syncVars, gpuVars, stopVars
<1>1. Unsignaled' = Unsignaled
  BY DEF Unsignaled, Busy
<1>2. Unfinished' = Unfinished
  BY DEF Unfinished
<1>3. TypeOK'
  <2>1. "none" \in Operations /\ lastFence' \in Nat
    BY DEF IInv, TypeOK, Operations
  <2>2. call' \in [Thread -> [op : Operations, fence : Nat, sync : Nat]]
    BY <2>1, CallTyped DEF IInv
  <2> QED BY <2>1, <2>2 DEF IInv, TypeOK
<1>4. CallOK'
  BY DEF IInv, TypeOK, CallOK, NoCall
<1>5. FencesOK'
  BY <1>1, Elements DEF IInv, TypeOK, FencesOK, Busy
<1>6. DrawnOK'
  <2>1. call'[t].fence = lastFence + 1
    BY DEF IInv, TypeOK
  <2>2. \A u \in Thread : pc'[u] = "emplace" => u = t
    BY DEF IInv, TypeOK, CallOK
  <2>3. signaledFence < lastFence + 1 /\ \A c \in Unsignaled : c.fence < lastFence + 1
    BY Elements DEF IInv, TypeOK, FencesOK
  <2> QED BY <1>1, <2>1, <2>2, <2>3 DEF DrawnOK
<1>7. BlockedOK'
  BY <1>1, Elements DEF IInv, TypeOK, CallOK, BlockedOK
<1>8. RequestsOK'
  BY <1>2 DEF IInv, TypeOK, RequestsOK
<1>9. CallersOK'
  <2>1. \A u \in Thread : call'[u].op = call[u].op /\ call'[u].sync = call[u].sync
    BY DEF IInv, TypeOK
  <2> QED BY <1>2, <2>1, Elements DEF IInv, CallersOK
<1>10. RequestHasTick'
  BY DEF IInv, TypeOK, RequestHasTick
<1> QED BY <1>3, <1>4, <1>5, <1>6, <1>7, <1>8, <1>9, <1>10 DEF IInv

\* The command that PushCommand makes.
NewCommand(t) ==
    [owner |-> t, fence |-> call[t].fence, block |-> Blocks(t), tick |-> Ticks(t)]

\* PushCommand pushes the command.
LEMMA PushEmplaceStep ==
    ASSUME IInv, NEW t \in Thread, PushEmplace(t)
    PROVE  IInv'
<1> USE DEF PushEmplace, NewCommand, Goto, Continue, AfterPush, queueVars, syncVars, gpuVars, stopVars
<1>1. NewCommand(t) \in Command
  BY DEF IInv, TypeOK, Command, Blocks, Ticks
<1>2. queue' \in Seq(Command)
  BY <1>1 DEF IInv, TypeOK, Pushed
<1>3. Unsignaled' = Unsignaled \cup {NewCommand(t)}
  BY <1>1, RangeAppend DEF IInv, TypeOK, Unsignaled, Busy, Pushed
<1>4. Unfinished' = Unfinished
  BY DEF Unfinished
<1>5. TypeOK'
  <2>1. call' \in [Thread -> [op : Operations, fence : Nat, sync : Nat]]
    BY DEF IInv, TypeOK, Operations, NoCall
  <2>2. Len(queue') <= Capacity
    BY <1>1 DEF IInv, TypeOK, Pushed, HasRoom
  <2>3. pc' \in [Thread -> {"idle", "push", "emplace", "test", "block", "sleep", "relock",
                            "sync_lock", "sync_test", "sync_block", "sync_sleep"}]
    BY DEF IInv, TypeOK
  <2> QED BY <1>2, <2>1, <2>2, <2>3 DEF IInv, TypeOK
<1>6. CallOK'
  BY DEF IInv, TypeOK, CallOK, NoCall
<1>7. FencesOK'
  <2>1. DOMAIN queue' = 1 .. Len(queue) + 1 /\ DOMAIN queue = 1 .. Len(queue) /\ Len(queue) \in Nat
    BY <1>1 DEF IInv, TypeOK, Pushed
  <2>2. \A i \in 1 .. Len(queue) : queue'[i] = queue[i] /\ queue[i] \in Range(queue)
    <3>1. queue \in Seq(Command) /\ queue' = Append(queue, NewCommand(t))
      BY DEF IInv, TypeOK, Pushed
    <3> HIDE DEF PushEmplace, NewCommand
    <3> QED BY <1>1, <2>1, <3>1 DEF Range
  <2>3. queue'[Len(queue) + 1].fence = lastFence
    BY <1>1 DEF IInv, TypeOK, Pushed, DrawnOK
  <2>4. \A i, j \in DOMAIN queue' : i < j => queue'[i].fence < queue'[j].fence
    <3>1. \A i \in 1 .. Len(queue) : queue'[i].fence < lastFence
      BY <2>2, Elements DEF IInv, DrawnOK
    <3>2. \A i, j \in 1 .. Len(queue) : i < j => queue'[i].fence < queue'[j].fence
      BY <2>1, <2>2 DEF IInv, FencesOK
    <3> HIDE DEF PushEmplace
    <3> QED BY <2>1, <2>3, <3>1, <3>2
  <2>5. Range(queue') = Range(queue) \cup {NewCommand(t)}
    BY <1>1, RangeAppend DEF IInv, TypeOK, Pushed
  <2>6. /\ call[t].fence = lastFence /\ signaledFence < lastFence
        /\ \A c \in Unsignaled : c.fence < lastFence
    BY DEF IInv, DrawnOK
  <2>7. Busy' => \A c \in Range(queue)' : current'.fence < c.fence
    BY <2>5, <2>6 DEF IInv, FencesOK, Unsignaled, Busy
  <2>8. \A c \in Unsignaled' : signaledFence' < c.fence /\ c.fence <= lastFence'
    BY <1>3, <2>6 DEF IInv, TypeOK, FencesOK
  <2> QED BY <2>4, <2>7, <2>8 DEF IInv, FencesOK, Busy
<1>8. DrawnOK'
  BY <1>3, Elements DEF IInv, TypeOK, CallOK, DrawnOK
<1>9. BlockedOK'
  <2>1. pc[t] = "emplace" /\ \A c \in Unsignaled : c.block /\ ~ stop => c.owner # t
    BY Elements DEF IInv, BlockedOK
  <2>2. \A u \in Thread : u # t => pc'[u] = pc[u] /\ call'[u] = call[u]
    BY DEF IInv, TypeOK
  <2>3. Blocks(t) => pc'[t] = "test" /\ call'[t] = call[t]
    BY DEF IInv, TypeOK
  <2> QED BY <1>3, <2>1, <2>2, <2>3, Elements DEF IInv, BlockedOK
<1>10. RequestsOK'
  BY <1>4 DEF IInv, TypeOK, RequestsOK
<1>11. CallersOK'
  BY <1>4, Elements DEF IInv, TypeOK, CallOK, CallersOK, NoCall
<1>12. RequestHasTick'
  <2>1. Range(queue') = Range(queue) \cup {NewCommand(t)}
    BY <1>1, RangeAppend DEF IInv, TypeOK, Pushed
  <2>2. \A u \in Thread : u # t => pc'[u] = pc[u] /\ call'[u] = call[u]
    BY DEF IInv, TypeOK
  <2>3. CASE Ticks(t)
    <3>1. NewCommand(t) \in Range(queue') /\ NewCommand(t).tick = Ticks(t)
      BY <2>1
    <3>2. \E d \in Range(queue') : d.tick
      BY <2>3, <3>1, Zenon
    <3> QED BY <3>2 DEF RequestHasTick
  <2>4. CASE ~ Ticks(t)
    BY <2>1, <2>2, <2>4 DEF IInv, RequestHasTick, Ticks
  <2> QED BY <2>3, <2>4
<1> QED BY <1>5, <1>6, <1>7, <1>8, <1>9, <1>10, <1>11, <1>12 DEF IInv

\* PushCommand tests whether the fence is signaled.
LEMMA PushTestStep ==
    ASSUME IInv, NEW t \in Thread, PushTest(t)
    PROVE  IInv'
<1> USE DEF PushTest, Goto, Continue, AfterPush, FenceReached, queueVars, syncVars, gpuVars, stopVars
<1>1. Unsignaled' = Unsignaled
  BY DEF Unsignaled, Busy
<1>2. Unfinished' = Unfinished
  BY DEF Unfinished
<1>3. TypeOK'
  <2>1. call' \in [Thread -> [op : Operations, fence : Nat, sync : Nat]]
    <3>1. NoCall \in [op : Operations, fence : Nat, sync : Nat]
      BY DEF Operations, NoCall
    <3>2. call' = call \/ call' = [call EXCEPT ![t] = NoCall]
      OBVIOUS
    <3> HIDE DEF PushTest
    <3> QED BY <3>1, <3>2 DEF IInv, TypeOK
  <2>2. pc' \in [Thread -> {"idle", "push", "emplace", "test", "block", "sleep", "relock",
                            "sync_lock", "sync_test", "sync_block", "sync_sleep"}]
    BY DEF IInv, TypeOK
  <2>3. writeLock' \in Thread \cup {Nil}
    BY DEF IInv, TypeOK
  <2> QED BY <2>1, <2>2, <2>3 DEF IInv, TypeOK
<1>4. CallOK'
  <2>1. \A u \in Thread : u # t => pc'[u] = pc[u] /\ call'[u] = call[u]
    BY DEF IInv, TypeOK
  <2>2. pc'[t] = "idle" => call'[t].op = "none"
    BY DEF IInv, TypeOK, NoCall
  <2>3. writeLock = t /\ \A u \in Thread : pc[u] \in {"emplace", "test", "block"} => u = t
    BY DEF IInv, CallOK
  <2>4. writeLock' = t <=> pc'[t] \in {"emplace", "test", "block"}
    <3>1. CASE stop \/ FenceReached(t)
      BY <3>1 DEF IInv, TypeOK
    <3>2. CASE ~ (stop \/ FenceReached(t))
      BY <2>3, <3>2 DEF IInv, TypeOK
    <3> QED BY <3>1, <3>2
  <2>5. writeLock' \in {t, Nil}
    BY <2>3
  <2> HIDE DEF PushTest
  <2> QED BY <2>1, <2>2, <2>3, <2>4, <2>5 DEF IInv, CallOK
<1>5. FencesOK'
  BY <1>1, Elements DEF IInv, TypeOK, FencesOK, Busy
<1>6. DrawnOK'
  BY <1>1, Elements DEF IInv, TypeOK, CallOK, DrawnOK
<1>7. BlockedOK'
  <2>1. \A u \in Thread : u # t => pc'[u] = pc[u] /\ call'[u] = call[u]
    BY DEF IInv, TypeOK
  <2>2. ASSUME NEW c \in Unsignaled, c.block, ~ stop, c.owner = t
        PROVE  pc'[t] = "block" /\ call'[t] = call[t]
    <3>1. call[t].fence = c.fence /\ ~ (c.fence <= signaledFence)
      <4>1. call[t].fence = c.fence
        BY <2>2 DEF IInv, BlockedOK
      <4>2. signaledFence < c.fence /\ signaledFence \in Nat /\ c.fence \in Nat
        BY Elements DEF IInv, TypeOK, FencesOK
      <4> QED BY <4>1, <4>2
    <3> QED BY <2>2, <3>1 DEF IInv, TypeOK
  <2> QED BY <1>1, <2>1, <2>2, Elements DEF IInv, BlockedOK
<1>8. RequestsOK'
  BY <1>2 DEF IInv, TypeOK, RequestsOK
<1>9. CallersOK'
  BY <1>2, Elements DEF IInv, TypeOK, CallOK, CallersOK, NoCall
<1>10. RequestHasTick'
  BY DEF IInv, TypeOK, RequestHasTick
<1> QED BY <1>3, <1>4, <1>5, <1>6, <1>7, <1>8, <1>9, <1>10 DEF IInv

\* PushCommand goes to sleep.
LEMMA PushSleepStep ==
    ASSUME IInv, NEW t \in Thread, PushSleep(t)
    PROVE  IInv'
<1> USE DEF PushSleep, Goto, Continue, AfterPush, queueVars, syncVars, gpuVars, stopVars
<1>1. Unsignaled' = Unsignaled
  BY DEF Unsignaled, Busy
<1>2. Unfinished' = Unfinished
  BY DEF Unfinished
<1>3. TypeOK'
  BY DEF IInv, TypeOK, Operations, NoCall
<1>4. CallOK'
  BY DEF IInv, TypeOK, CallOK, NoCall
<1>5. FencesOK'
  BY <1>1, Elements DEF IInv, TypeOK, FencesOK, Busy
<1>6. DrawnOK'
  BY <1>1, Elements DEF IInv, TypeOK, CallOK, DrawnOK
<1>7. BlockedOK'
  <2>1. \A u \in Thread : u # t => pc'[u] = pc[u] /\ call'[u] = call[u]
    BY DEF IInv, TypeOK
  <2>2. ASSUME NEW c \in Unsignaled, c.block, ~ stop, c.owner = t
        PROVE  pc'[t] = "sleep" /\ call'[t] = call[t]
    BY <2>2 DEF IInv, TypeOK
  <2> QED BY <1>1, <2>1, <2>2, Elements DEF IInv, BlockedOK
<1>8. RequestsOK'
  BY <1>2 DEF IInv, TypeOK, RequestsOK
<1>9. CallersOK'
  BY <1>2, Elements DEF IInv, TypeOK, CallOK, CallersOK, NoCall
<1>10. RequestHasTick'
  BY DEF IInv, TypeOK, RequestHasTick
<1> QED BY <1>3, <1>4, <1>5, <1>6, <1>7, <1>8, <1>9, <1>10 DEF IInv

\* PushCommand takes write_lock again.
LEMMA PushRelockStep ==
    ASSUME IInv, NEW t \in Thread, PushRelock(t)
    PROVE  IInv'
<1> USE DEF PushRelock, Goto, queueVars, syncVars, gpuVars, stopVars
<1>1. Unsignaled' = Unsignaled
  BY DEF Unsignaled, Busy
<1>2. Unfinished' = Unfinished
  BY DEF Unfinished
<1>3. TypeOK'
  BY DEF IInv, TypeOK, Operations, NoCall
<1>4. CallOK'
  BY DEF IInv, TypeOK, CallOK, NoCall
<1>5. FencesOK'
  BY <1>1, Elements DEF IInv, TypeOK, FencesOK, Busy
<1>6. DrawnOK'
  BY <1>1, Elements DEF IInv, TypeOK, CallOK, DrawnOK
<1>7. BlockedOK'
  BY <1>1, Elements DEF IInv, TypeOK, CallOK, BlockedOK
<1>8. RequestsOK'
  BY <1>2 DEF IInv, TypeOK, RequestsOK
<1>9. CallersOK'
  BY <1>2, Elements DEF IInv, TypeOK, CallOK, CallersOK, NoCall
<1>10. RequestHasTick'
  BY DEF IInv, TypeOK, RequestHasTick
<1> QED BY <1>3, <1>4, <1>5, <1>6, <1>7, <1>8, <1>9, <1>10 DEF IInv

\* WaitForSyncOperation takes the mutex.
LEMMA SyncLockStep ==
    ASSUME IInv, NEW t \in Thread, SyncLock(t)
    PROVE  IInv'
<1> USE DEF SyncLock, Goto, queueVars, syncVars, gpuVars, stopVars
<1>1. Unsignaled' = Unsignaled
  BY DEF Unsignaled, Busy
<1>2. Unfinished' = Unfinished
  BY DEF Unfinished
<1>3. TypeOK'
  BY DEF IInv, TypeOK, Operations, NoCall
<1>4. CallOK'
  BY DEF IInv, TypeOK, CallOK, NoCall
<1>5. FencesOK'
  BY <1>1, Elements DEF IInv, TypeOK, FencesOK, Busy
<1>6. DrawnOK'
  BY <1>1, Elements DEF IInv, TypeOK, CallOK, DrawnOK
<1>7. BlockedOK'
  BY <1>1, Elements DEF IInv, TypeOK, CallOK, BlockedOK
<1>8. RequestsOK'
  BY <1>2 DEF IInv, TypeOK, RequestsOK
<1>9. CallersOK'
  BY <1>2, Elements DEF IInv, TypeOK, CallOK, CallersOK, NoCall
<1>10. RequestHasTick'
  BY DEF IInv, TypeOK, RequestHasTick
<1> QED BY <1>3, <1>4, <1>5, <1>6, <1>7, <1>8, <1>9, <1>10 DEF IInv

\* WaitForSyncOperation tests whether the request is done.
LEMMA SyncTestStep ==
    ASSUME IInv, NEW t \in Thread, SyncTest(t)
    PROVE  IInv'
<1> USE DEF SyncTest, Goto, Continue, SyncReached, queueVars, syncVars, gpuVars, stopVars
<1>1. Unsignaled' = Unsignaled
  BY DEF Unsignaled, Busy
<1>2. Unfinished' = Unfinished
  BY DEF Unfinished
<1>3. TypeOK'
  BY DEF IInv, TypeOK, Operations, NoCall
<1>4. CallOK'
  BY DEF IInv, TypeOK, CallOK, NoCall
<1>5. FencesOK'
  BY <1>1, Elements DEF IInv, TypeOK, FencesOK, Busy
<1>6. DrawnOK'
  BY <1>1, Elements DEF IInv, TypeOK, CallOK, DrawnOK
<1>7. BlockedOK'
  BY <1>1, Elements DEF IInv, TypeOK, CallOK, BlockedOK
<1>8. RequestsOK'
  BY <1>2 DEF IInv, TypeOK, RequestsOK
<1>9. CallersOK'
  <2>1. \A u \in Thread : u # t => call'[u] = call[u]
    BY DEF IInv, TypeOK
  <2>2. ASSUME NEW r \in Unfinished, r.op = "sync", r.owner = t
        PROVE  call'[t] = call[t]
    <3>1. call[t].sync = r.fence /\ currentSync < r.fence
      BY <2>2, Elements DEF IInv, CallersOK
    <3> QED BY <2>2, <3>1, Elements DEF IInv, TypeOK
  <2> QED BY <1>2, <2>1, <2>2, Elements DEF IInv, CallersOK
<1>10. RequestHasTick'
  BY DEF IInv, TypeOK, RequestHasTick
<1> QED BY <1>3, <1>4, <1>5, <1>6, <1>7, <1>8, <1>9, <1>10 DEF IInv

\* WaitForSyncOperation goes to sleep.
LEMMA SyncSleepStep ==
    ASSUME IInv, NEW t \in Thread, SyncSleep(t)
    PROVE  IInv'
<1> USE DEF SyncSleep, Goto, queueVars, syncVars, gpuVars, stopVars
<1>1. Unsignaled' = Unsignaled
  BY DEF Unsignaled, Busy
<1>2. Unfinished' = Unfinished
  BY DEF Unfinished
<1>3. TypeOK'
  BY DEF IInv, TypeOK, Operations, NoCall
<1>4. CallOK'
  BY DEF IInv, TypeOK, CallOK, NoCall
<1>5. FencesOK'
  BY <1>1, Elements DEF IInv, TypeOK, FencesOK, Busy
<1>6. DrawnOK'
  BY <1>1, Elements DEF IInv, TypeOK, CallOK, DrawnOK
<1>7. BlockedOK'
  BY <1>1, Elements DEF IInv, TypeOK, CallOK, BlockedOK
<1>8. RequestsOK'
  BY <1>2 DEF IInv, TypeOK, RequestsOK
<1>9. CallersOK'
  BY <1>2, Elements DEF IInv, TypeOK, CallOK, CallersOK, NoCall
<1>10. RequestHasTick'
  BY DEF IInv, TypeOK, RequestHasTick
<1> QED BY <1>3, <1>4, <1>5, <1>6, <1>7, <1>8, <1>9, <1>10 DEF IInv

\* The GPU thread takes a command.
LEMMA GpuPopStep ==
    ASSUME IInv, GpuPop
    PROVE  IInv'
<1> USE DEF GpuPop, queueVars, syncVars, gpuVars, stopVars
<1>1. Unsignaled' = Unsignaled
  BY RangeTail DEF IInv, TypeOK, FencesOK, Unsignaled, Busy
<1>2. Unfinished' = Unfinished
  BY DEF Unfinished
<1>3. TypeOK'
  BY DEF IInv, TypeOK, Operations, NoCall
<1>4. CallOK'
  BY DEF IInv, TypeOK, CallOK, NoCall
<1>5. FencesOK'
  <2>1. current' = queue[1] /\ Range(queue) = {current'} \cup Range(queue')
    BY RangeTail DEF IInv, TypeOK
  <2>2. \A i \in DOMAIN queue' :
            i \in Nat /\ i > 0 /\ i + 1 \in DOMAIN queue /\ queue'[i] = queue[i + 1]
    <3>1. queue \in Seq(Command) /\ queue # <<>> /\ queue' = Tail(queue)
      BY DEF IInv, TypeOK
    <3> HIDE DEF GpuPop
    <3>2. queue' \in Seq(Command)
      BY <3>1
    <3> QED BY <3>1, <3>2, RangeTail
  <2>3. current' \in Command /\ 1 \in DOMAIN queue
    BY RangeTail DEF IInv, TypeOK
  <2>4. \A i, j \in DOMAIN queue' : i < j => queue'[i].fence < queue'[j].fence
    BY <2>2 DEF IInv, FencesOK
  <2>5. \A i \in DOMAIN queue' : current'.fence < queue'[i].fence
    BY <2>1, <2>2, <2>3 DEF IInv, FencesOK
  <2>6. \A c \in Range(queue') : current'.fence < c.fence
    BY <2>5 DEF Range
  <2> QED BY <1>1, <2>3, <2>4, <2>6 DEF IInv, FencesOK, Busy
<1>6. DrawnOK'
  BY <1>1, Elements DEF IInv, TypeOK, CallOK, DrawnOK
<1>7. BlockedOK'
  BY <1>1, Elements DEF IInv, TypeOK, CallOK, BlockedOK
<1>8. RequestsOK'
  BY <1>2 DEF IInv, TypeOK, RequestsOK
<1>9. CallersOK'
  BY <1>2, Elements DEF IInv, TypeOK, CallOK, CallersOK, NoCall
<1>10. RequestHasTick'
  <2>1. Range(queue) = {current'} \cup Range(queue')
    BY RangeTail DEF IInv, TypeOK
  <2> QED BY <2>1 DEF IInv, RequestHasTick
<1> QED BY <1>3, <1>4, <1>5, <1>6, <1>7, <1>8, <1>9, <1>10 DEF IInv

\* The GPU thread stops.
LEMMA GpuExitStep ==
    ASSUME IInv, GpuExit
    PROVE  IInv'
<1> USE DEF GpuExit, queueVars, syncVars, gpuVars, stopVars
<1>1. Unsignaled' \subseteq Unsignaled
  BY DEF Unsignaled, Busy
<1>2. Unfinished' = Unfinished
  BY DEF Unfinished
<1>3. TypeOK'
  BY DEF IInv, TypeOK, Operations, NoCall
<1>4. CallOK'
  BY DEF IInv, TypeOK, CallOK, NoCall
<1>5. FencesOK'
  BY <1>1, Elements DEF IInv, TypeOK, FencesOK, Busy
<1>6. DrawnOK'
  BY <1>1, Elements DEF IInv, TypeOK, CallOK, DrawnOK
<1>7. BlockedOK'
  BY <1>1, Elements DEF IInv, TypeOK, CallOK, BlockedOK
<1>8. RequestsOK'
  BY <1>2 DEF IInv, TypeOK, RequestsOK
<1>9. CallersOK'
  BY <1>2, Elements DEF IInv, TypeOK, CallOK, CallersOK, NoCall
<1>10. RequestHasTick'
  BY DEF IInv, TypeOK, RequestHasTick
<1> QED BY <1>3, <1>4, <1>5, <1>6, <1>7, <1>8, <1>9, <1>10 DEF IInv

\* The GPU thread looks at its command.
LEMMA GpuExecuteStep ==
    ASSUME IInv, GpuExecute
    PROVE  IInv'
<1> USE DEF GpuExecute, queueVars, syncVars, gpuVars, stopVars
<1>1. Unsignaled' = Unsignaled
  BY DEF Unsignaled, Busy
<1>2. Unfinished' = Unfinished
  BY DEF Unfinished
<1>3. TypeOK'
  BY DEF IInv, TypeOK, Operations, NoCall
<1>4. CallOK'
  BY DEF IInv, TypeOK, CallOK, NoCall
<1>5. FencesOK'
  BY <1>1, Elements DEF IInv, TypeOK, FencesOK, Busy
<1>6. DrawnOK'
  BY <1>1, Elements DEF IInv, TypeOK, CallOK, DrawnOK
<1>7. BlockedOK'
  BY <1>1, Elements DEF IInv, TypeOK, CallOK, BlockedOK
<1>8. RequestsOK'
  BY <1>2 DEF IInv, TypeOK, RequestsOK
<1>9. CallersOK'
  BY <1>2, Elements DEF IInv, TypeOK, CallOK, CallersOK, NoCall
<1>10. RequestHasTick'
  BY DEF IInv, TypeOK, RequestHasTick
<1> QED BY <1>3, <1>4, <1>5, <1>6, <1>7, <1>8, <1>9, <1>10 DEF IInv

\* TickWork takes a request, or is done.
LEMMA GpuTickStep ==
    ASSUME IInv, GpuTick
    PROVE  IInv'
<1> USE DEF GpuTick, NotifyAll, Wake, queueVars, syncVars, gpuVars, stopVars
<1>1. Unsignaled' = Unsignaled
  BY DEF Unsignaled, Busy
<1>2. Unfinished' = Unfinished
  BY RangeTail DEF IInv, TypeOK, Unfinished
<1>3. TypeOK'
  <2>1. CASE syncRequests = <<>>
    BY <2>1 DEF IInv, TypeOK
  <2>2. CASE syncRequests # <<>>
    <3>1. /\ running' = Head(syncRequests) /\ syncRequests' = Tail(syncRequests)
          /\ syncRequests \in Seq(Request)
      BY <2>2 DEF IInv, TypeOK
    <3>2. Head(syncRequests) \in Request /\ Tail(syncRequests) \in Seq(Request)
      BY <2>2 DEF IInv, TypeOK
    <3> QED BY <2>2, <3>1, <3>2 DEF IInv, TypeOK
  <2> QED BY <2>1, <2>2
<1>4. CallOK'
  BY DEF IInv, TypeOK, CallOK, NoCall
<1>5. FencesOK'
  BY <1>1, Elements DEF IInv, TypeOK, FencesOK, Busy
<1>6. DrawnOK'
  BY <1>1, Elements DEF IInv, TypeOK, CallOK, DrawnOK
<1>7. BlockedOK'
  BY <1>1, Elements DEF IInv, TypeOK, CallOK, BlockedOK
<1>8. RequestsOK'
  <2>1. CASE syncRequests = <<>>
    BY <2>1 DEF IInv, TypeOK, RequestsOK
  <2>2. CASE syncRequests # <<>>
    <3>1. /\ syncRequests \in Seq(Request) /\ currentSync \in Nat
          /\ running' = Head(syncRequests) /\ syncRequests' = Tail(syncRequests)
          /\ gpu # "request" /\ gpu' = "request"
          /\ currentSync' = currentSync /\ lastSync' = lastSync
      BY <2>2 DEF IInv, TypeOK
    <3>2. /\ lastSync = currentSync + Len(syncRequests)
          /\ \A i \in DOMAIN syncRequests : syncRequests[i].fence = currentSync + i
      BY <3>1 DEF IInv, RequestsOK
    <3> HIDE DEF GpuTick
    <3>3. running' = syncRequests[1] /\ 1 \in DOMAIN syncRequests /\ running' \in Request
      BY <2>2, <3>1
    <3>4. Len(syncRequests') = Len(syncRequests) - 1 /\ Len(syncRequests) \in Nat
      BY <2>2, <3>1
    <3>5. \A i \in DOMAIN syncRequests' : /\ i \in Nat /\ i + 1 \in DOMAIN syncRequests
                                          /\ syncRequests'[i] = syncRequests[i + 1]
      BY <2>2, <3>1
    <3> QED BY <3>1, <3>2, <3>3, <3>4, <3>5 DEF RequestsOK
  <2> QED BY <2>1, <2>2
<1>9. CallersOK'
  BY <1>2, Elements DEF IInv, TypeOK, CallOK, CallersOK, NoCall
<1>10. RequestHasTick'
  BY DEF IInv, TypeOK, RequestHasTick
<1> QED BY <1>3, <1>4, <1>5, <1>6, <1>7, <1>8, <1>9, <1>10 DEF IInv

\* A request has run.
LEMMA GpuRequestDoneStep ==
    ASSUME IInv, GpuRequestDone
    PROVE  IInv'
<1> USE DEF GpuRequestDone, queueVars, syncVars, gpuVars, stopVars
<1>1. Unsignaled' = Unsignaled
  BY DEF Unsignaled, Busy
<1>2. Unfinished' \subseteq Unfinished
  BY DEF Unfinished
<1>3. TypeOK'
  BY DEF IInv, TypeOK, Operations, NoCall
<1>4. CallOK'
  BY DEF IInv, TypeOK, CallOK, NoCall
<1>5. FencesOK'
  BY <1>1, Elements DEF IInv, TypeOK, FencesOK, Busy
<1>6. DrawnOK'
  BY <1>1, Elements DEF IInv, TypeOK, CallOK, DrawnOK
<1>7. BlockedOK'
  BY <1>1, Elements DEF IInv, TypeOK, CallOK, BlockedOK
<1>8. RequestsOK'
  <2>1. /\ Len(syncRequests) \in Nat /\ DOMAIN syncRequests = 1 .. Len(syncRequests)
        /\ currentSync \in Nat
    BY DEF IInv, TypeOK
  <2>2. lastSync = currentSync + 1 + Len(syncRequests)
    BY <2>1 DEF IInv, RequestsOK
  <2>3. \A i \in DOMAIN syncRequests : syncRequests[i].fence = currentSync + 1 + i
    BY <2>1 DEF IInv, RequestsOK
  <2> QED BY <2>1, <2>2, <2>3 DEF RequestsOK
<1>9. CallersOK'
  BY <1>2, Elements DEF IInv, TypeOK, CallOK, CallersOK, NoCall
<1>10. RequestHasTick'
  BY DEF IInv, TypeOK, RequestHasTick
<1> QED BY <1>3, <1>4, <1>5, <1>6, <1>7, <1>8, <1>9, <1>10 DEF IInv

\* A fence is signaled.
LEMMA GpuSignalStep ==
    ASSUME IInv, GpuSignal
    PROVE  IInv'
<1> USE DEF GpuSignal, queueVars, syncVars, gpuVars, stopVars
<1>1. Unsignaled' = Range(queue)
  BY DEF Unsignaled, Busy
<1>2. Unfinished' = Unfinished
  BY DEF Unfinished
<1>3. TypeOK'
  <2>1. signaledFence' \in Nat
    BY Elements DEF IInv, FencesOK, Busy, Unsignaled
  <2> QED BY <2>1 DEF IInv, TypeOK
<1>4. CallOK'
  BY DEF IInv, TypeOK, CallOK, NoCall
<1>5. FencesOK'
  <2>1. current \in Unsignaled /\ signaledFence' = current.fence
    BY DEF Unsignaled, Busy
  <2>2. signaledFence' <= lastFence
    BY <2>1 DEF IInv, FencesOK
  <2>3. \A c \in Range(queue) : signaledFence' < c.fence /\ c.fence <= lastFence
    BY <2>1, Elements DEF IInv, FencesOK, Busy
  <2> QED BY <1>1, <2>2, <2>3 DEF IInv, FencesOK, Busy
<1>6. DrawnOK'
  <2>1. current \in Unsignaled /\ signaledFence' = current.fence
    BY DEF Unsignaled, Busy
  <2> QED BY <1>1, <2>1, Elements DEF IInv, DrawnOK
<1>7. BlockedOK'
  BY <1>1, Elements DEF IInv, TypeOK, CallOK, BlockedOK
<1>8. RequestsOK'
  BY <1>2 DEF IInv, TypeOK, RequestsOK
<1>9. CallersOK'
  BY <1>2, Elements DEF IInv, TypeOK, CallOK, CallersOK, NoCall
<1>10. RequestHasTick'
  BY DEF IInv, TypeOK, RequestHasTick
<1> QED BY <1>3, <1>4, <1>5, <1>6, <1>7, <1>8, <1>9, <1>10 DEF IInv

\* The callers are notified.
LEMMA GpuNotifyStep ==
    ASSUME IInv, GpuNotify
    PROVE  IInv'
<1> USE DEF GpuNotify, Wake, queueVars, syncVars, gpuVars, stopVars
<1>1. Unsignaled' = Unsignaled
  BY DEF Unsignaled, Busy
<1>2. Unfinished' = Unfinished
  BY DEF Unfinished
<1>3. TypeOK'
  BY DEF IInv, TypeOK, Operations, NoCall
<1>4. CallOK'
  BY DEF IInv, TypeOK, CallOK, NoCall
<1>5. FencesOK'
  BY <1>1, Elements DEF IInv, TypeOK, FencesOK, Busy
<1>6. DrawnOK'
  BY <1>1, Elements DEF IInv, TypeOK, CallOK, DrawnOK
<1>7. BlockedOK'
  BY <1>1, Elements DEF IInv, TypeOK, CallOK, BlockedOK
<1>8. RequestsOK'
  BY <1>2 DEF IInv, TypeOK, RequestsOK
<1>9. CallersOK'
  BY <1>2, Elements DEF IInv, TypeOK, CallOK, CallersOK, NoCall
<1>10. RequestHasTick'
  BY DEF IInv, TypeOK, RequestHasTick
<1> QED BY <1>3, <1>4, <1>5, <1>6, <1>7, <1>8, <1>9, <1>10 DEF IInv

\* shutting_down is set.
LEMMA NotifyShutdownStep ==
    ASSUME IInv, NotifyShutdown
    PROVE  IInv'
<1> USE DEF NotifyShutdown, queueVars, syncVars, gpuVars, stopVars
<1>1. Unsignaled' = Unsignaled
  BY DEF Unsignaled, Busy
<1>2. Unfinished' = Unfinished
  BY DEF Unfinished
<1>3. TypeOK'
  BY DEF IInv, TypeOK, Operations, NoCall
<1>4. CallOK'
  BY DEF IInv, TypeOK, CallOK, NoCall
<1>5. FencesOK'
  BY <1>1, Elements DEF IInv, TypeOK, FencesOK, Busy
<1>6. DrawnOK'
  BY <1>1, Elements DEF IInv, TypeOK, CallOK, DrawnOK
<1>7. BlockedOK'
  BY <1>1, Elements DEF IInv, TypeOK, CallOK, BlockedOK
<1>8. RequestsOK'
  BY <1>2 DEF IInv, TypeOK, RequestsOK
<1>9. CallersOK'
  BY <1>2, Elements DEF IInv, TypeOK, CallOK, CallersOK, NoCall
<1>10. RequestHasTick'
  BY DEF IInv, TypeOK, RequestHasTick
<1> QED BY <1>3, <1>4, <1>5, <1>6, <1>7, <1>8, <1>9, <1>10 DEF IInv

\* The GPU thread is asked to stop.
LEMMA StopThreadStep ==
    ASSUME IInv, StopThread
    PROVE  IInv'
<1> USE DEF StopThread, Wake, queueVars, syncVars, gpuVars, stopVars
<1>1. Unsignaled' = Unsignaled
  BY DEF Unsignaled, Busy
<1>2. Unfinished' = Unfinished
  BY DEF Unfinished
<1>3. TypeOK'
  BY DEF IInv, TypeOK, Operations, NoCall
<1>4. CallOK'
  BY DEF IInv, TypeOK, CallOK, NoCall
<1>5. FencesOK'
  BY <1>1, Elements DEF IInv, TypeOK, FencesOK, Busy
<1>6. DrawnOK'
  BY <1>1, Elements DEF IInv, TypeOK, CallOK, DrawnOK
<1>7. BlockedOK'
  BY <1>1, Elements DEF IInv, TypeOK, CallOK, BlockedOK
<1>8. RequestsOK'
  BY <1>2 DEF IInv, TypeOK, RequestsOK
<1>9. CallersOK'
  BY <1>2, Elements DEF IInv, TypeOK, CallOK, CallersOK, NoCall
<1>10. RequestHasTick'
  BY DEF IInv, TypeOK, RequestHasTick
<1> QED BY <1>3, <1>4, <1>5, <1>6, <1>7, <1>8, <1>9, <1>10 DEF IInv

\* A wake-up without a reason.
LEMMA SpuriousWakeupStep ==
    ASSUME IInv, NEW t \in Thread, SpuriousWakeup(t)
    PROVE  IInv'
<1> USE DEF SpuriousWakeup, Goto, queueVars, syncVars, gpuVars, stopVars
<1>1. Unsignaled' = Unsignaled
  BY DEF Unsignaled, Busy
<1>2. Unfinished' = Unfinished
  BY DEF Unfinished
<1>3. TypeOK'
  BY DEF IInv, TypeOK, Operations, NoCall
<1>4. CallOK'
  BY DEF IInv, TypeOK, CallOK, NoCall
<1>5. FencesOK'
  BY <1>1, Elements DEF IInv, TypeOK, FencesOK, Busy
<1>6. DrawnOK'
  BY <1>1, Elements DEF IInv, TypeOK, CallOK, DrawnOK
<1>7. BlockedOK'
  BY <1>1, Elements DEF IInv, TypeOK, CallOK, BlockedOK
<1>8. RequestsOK'
  BY <1>2 DEF IInv, TypeOK, RequestsOK
<1>9. CallersOK'
  BY <1>2, Elements DEF IInv, TypeOK, CallOK, CallersOK, NoCall
<1>10. RequestHasTick'
  BY DEF IInv, TypeOK, RequestHasTick
<1> QED BY <1>3, <1>4, <1>5, <1>6, <1>7, <1>8, <1>9, <1>10 DEF IInv

-----------------------------------------------------------------------------
\* Nothing is pushed or requested at first.
LEMMA InitIInv == Init => IInv
<1> SUFFICES ASSUME Init PROVE IInv
  OBVIOUS
<1>1. queue = <<>> /\ syncRequests = <<>> /\ gpu = "loop" /\ current = Nil /\ running = Nil
  BY DEF Init
<1>2. Unsignaled = {} /\ Unfinished = {}
  BY <1>1 DEF Unsignaled, Unfinished, Busy, Range
<1>3. TypeOK
  <2>1. {isAsync, shuttingDown, stop} \subseteq BOOLEAN
    BY DEF Init
  <2>2. call \in [Thread -> [op : Operations, fence : Nat, sync : Nat]]
    BY DEF Init, NoCall, Operations
  <2>3. queue \in Seq(Command) /\ Len(queue) <= Capacity /\ syncRequests \in Seq(Request)
    BY <1>1
  <2> QED BY <1>1, <2>1, <2>2, <2>3 DEF Init, TypeOK
<1>4. CallOK
  BY DEF Init, CallOK, NoCall
<1>5. FencesOK /\ DrawnOK /\ BlockedOK
  BY <1>1, <1>2 DEF Init, FencesOK, DrawnOK, BlockedOK, Busy, Range
<1>6. RequestsOK /\ CallersOK /\ RequestHasTick
  BY <1>1, <1>2 DEF Init, RequestsOK, CallersOK, RequestHasTick
<1> QED BY <1>3, <1>4, <1>5, <1>6 DEF IInv

\* Every step keeps the invariant.
LEMMA NextIInv == ASSUME IInv, [Next]_vars PROVE IInv'
<1>1. ASSUME NEW t \in Thread, SubmitList(t) \/ RequestSyncOperation(t, "sync") PROVE IInv'
  BY <1>1, StartStep, RequestStep
<1>2. ASSUME NEW t \in Thread, CallStep(t) PROVE IInv'
  BY <1>2, PushLockStep, PushEmplaceStep, PushTestStep, PushSleepStep, PushRelockStep,
     SyncLockStep, SyncTestStep, SyncSleepStep DEF CallStep
<1>3. CASE RequestSyncOperation(Compositor, "composite") \/ WaitForComposite(Compositor)
  BY <1>3, RequestStep, WaitForCompositeStep
<1>4. CASE GpuStep
  BY <1>4, GpuPopStep, GpuExitStep, GpuExecuteStep, GpuTickStep, GpuRequestDoneStep, GpuSignalStep,
     GpuNotifyStep DEF GpuStep
<1>5. CASE NotifyShutdown \/ StopThread
  BY <1>5, NotifyShutdownStep, StopThreadStep
<1>6. ASSUME NEW t \in Thread, SpuriousWakeup(t) PROVE IInv'
  BY <1>6, SpuriousWakeupStep
<1>7. CASE UNCHANGED vars
  <2> USE <1>7 DEF vars, queueVars, syncVars, gpuVars, stopVars
  <2>1. TypeOK' /\ CallOK' /\ RequestsOK' /\ RequestHasTick'
    BY DEF IInv, TypeOK, CallOK, RequestsOK, RequestHasTick
  <2>2. Unsignaled' = Unsignaled /\ Unfinished' = Unfinished
    BY DEF Unsignaled, Unfinished, Busy
  <2>3. FencesOK' /\ DrawnOK' /\ BlockedOK' /\ CallersOK'
    BY <2>2 DEF IInv, FencesOK, DrawnOK, BlockedOK, CallersOK, Busy
  <2> QED BY <2>1, <2>3 DEF IInv
<1> QED BY <1>1, <1>2, <1>3, <1>4, <1>5, <1>6, <1>7 DEF Next

\* The invariant holds in every behaviour.
LEMMA Invariance == Spec => []IInv
<1>1. IInv /\ [Next]_vars => IInv'
  BY NextIInv
<1> QED BY <1>1, InitIInv, PTL DEF Spec

-----------------------------------------------------------------------------
\* ThreadManager::PushCommand: the fences are executed in order, and in
\* synchronous mode no caller returns before its command has been executed,
\* unless the emulation is shut down, whichever threads push at once and
\* however often their waits end for no reason.
THEOREM CallerWaitsForCommandHolds == Spec => []CallerWaitsForCommand
<1>1. IInv => CallerWaitsForCommand
  <2> SUFFICES ASSUME IInv PROVE CallerWaitsForCommand
    OBVIOUS
  <2>1. Range(queue) \cup ({current} \ {Nil}) \subseteq Unsignaled /\ (current # Nil => Busy)
    BY DEF IInv, FencesOK, Unsignaled
  <2> QED BY <2>1 DEF IInv, FencesOK, BlockedOK, CallerWaitsForCommand
<1> QED BY <1>1, Invariance, PTL

\* GPU::Impl::RequestSyncOperation and TickWork: the stack of a caller of a
\* sync operation is there as long as its request is on the list or runs, and
\* a listed request always has a tick command on the way.
THEOREM RequestsLookedAfterHolds == Spec => []RequestsLookedAfter
<1>1. IInv => RequestsLookedAfter
  <2> SUFFICES ASSUME IInv PROVE RequestsLookedAfter
    OBVIOUS
  <2>1. Range(syncRequests) \cup ({running} \ {Nil}) \subseteq Unfinished
    BY DEF IInv, RequestsOK, Unfinished
  <2> QED BY <2>1 DEF IInv, CallersOK, RequestHasCaller, RequestsLookedAfter
<1> QED BY <1>1, Invariance, PTL
=============================================================================
