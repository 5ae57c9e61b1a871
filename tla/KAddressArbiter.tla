-------------------------- MODULE KAddressArbiter --------------------------
(***************************************************************************)
(* The address arbiter, the kernel half of the guest's futexes             *)
(* (k_address_arbiter.{h,cpp}): a thread waits while a word of guest       *)
(* memory is less than, or equal to, a value; a signal changes the word    *)
(* and wakes waiters in priority order.                                    *)
(*                                                                         *)
(* The word is guest memory: the scheduler lock, which every operation of  *)
(* the arbiter holds, does not keep the guest from storing to it.  A wait  *)
(* is therefore two steps, the read of the word and the blocking, with the *)
(* lock held in between.  A signal reads and writes the word at one point  *)
(* (ExclusiveRead32 and ExclusiveWrite32, retried until they succeed), and *)
(* what follows touches no memory: it is one step.                         *)
(***************************************************************************)
EXTENDS Integers, FiniteSets, Sequences, SequencesExt

CONSTANTS
    Thread,            \* the threads of one process
    Address,           \* the words they arbitrate, numbers: the tree orders them
    Priority,          \* thread priorities, a smaller number is more urgent
    Half,              \* half as many as a word has values: 2^31 in the code
    Values,            \* the values guest code stores and passes to waits
    Counts,            \* the count arguments of the signals
    Guests,            \* the kinds of guest code, see Uses
    Nil                \* no thread, no address

ASSUME ArbiterAssumption ==
    /\ Address \subseteq Nat
    /\ Priority \subseteq Nat /\ Priority # {}
    /\ Half \in Nat \ {0}
    /\ Counts \subseteq Int
    /\ Guests \subseteq {"any", "futex"}
    /\ Values \subseteq -Half .. Half - 1
    /\ Nil \notin Thread \cup Address

VARIABLES
    memory,       \* the words
    schedLock,    \* the thread between the read of a wait and its blocking
    call,         \* the arguments of the thread's wait, until it ends
    tree,         \* m_tree, in its order
    key,          \* m_condvar_key of a thread in the tree (Nil: m_condvar_tree is null)
    priority,     \* KThread: m_priority
    state,        \* m_thread_state
    waitResult,   \* m_wait_result, until the call returns
    terminating,  \* m_termination_requested
    timer,        \* the thread has a task in the KHardwareTimer
    guest,        \* what the guest code is like, the same in all states
    owes          \* the word a futex guest stored to and has yet to signal

vars == <<memory, schedLock, call, tree, key, priority, state, waitResult, terminating,
          timer, guest, owes>>

\* The values of a word: two's complement.
Word == -Half .. Half - 1

Wrap(x) == ((x + Half) % (2 * Half)) - Half

ArbitrationType == {"WaitIfLessThan", "DecrementAndWaitIfLessThan", "WaitIfEqual"}

Timeouts == {"zero", "positive", "infinite"}

Call == [addr : Address, type : ArbitrationType, value : Values, timeout : Timeouts]

\* What a wait needs of its arguments after the read.
Wait == [addr : Address, value : Values, timeout : Timeouts]

Results == {"Success", "TimedOut", "TerminationRequested", "None"}

Init ==
    /\ memory = [a \in Address |-> 0]
    /\ schedLock = Nil
    /\ call = [t \in Thread |-> Nil]
    /\ tree = <<>>
    /\ key = [t \in Thread |-> Nil]
    /\ guest \in Guests
    /\ priority \in [Thread -> Priority]
    /\ state = [t \in Thread |-> "Runnable"]
    /\ waitResult = [t \in Thread |-> "None"]
    /\ terminating = [t \in Thread |-> FALSE]
    /\ timer = [t \in Thread |-> FALSE]
    /\ owes = [t \in Thread |-> Nil]

-----------------------------------------------------------------------------
(* The tree *)

\* ConditionVariableComparator: by key, then by priority.
Before(a, p, b, q) == a < b \/ (a = b /\ p < q)

\* insert puts a thread after those that compare equal to it.
Inserted(s, t, a, p) ==
    LET place == CHOOSE i \in 1 .. Len(s) + 1 :
                    /\ \A j \in 1 .. i - 1 : ~ Before(a, p, key[s[j]], priority[s[j]])
                    /\ i <= Len(s) => Before(a, p, key[s[i]], priority[s[i]])
    IN  InsertAt(s, place, t)

\* The members of a set of places that are ahead of one of them.
Ahead(places, i) == {j \in places : j < i}

\* erase leaves the others in their order.
Erased(s, threads) ==
    LET kept == {i \in DOMAIN s : s[i] \notin threads}
    IN  [n \in 1 .. Cardinality(kept) |->
            s[CHOOSE i \in kept : Cardinality(Ahead(kept, i)) = n - 1]]

\* The places from nfind_key({addr, -1}) on whose threads have this key.
WaitersOf(a) == {i \in DOMAIN tree : key[tree[i]] = a}

\* The loop of the signals: every waiter, or the first count of them.
Woken(a, count) ==
    LET reached == {i \in WaitersOf(a) :
                        count <= 0 \/ Cardinality(Ahead(WaitersOf(a), i)) < count}
    IN  {tree[i] : i \in reached}

-----------------------------------------------------------------------------
(* Waiting *)

SchedulerUnlockedAlways == TRUE
SchedulerUnlocked == schedLock = Nil

Running(t) == state[t] = "Runnable" /\ waitResult[t] = "None"

\* A futex guest goes on from a store to the signal before it does anything else.
Calls(t) == SchedulerUnlocked /\ Running(t) /\ owes[t] = Nil

ConditionHolds(c) ==
    IF c.type = "WaitIfEqual" THEN memory[c.addr] = c.value ELSE memory[c.addr] < c.value

\* Guest code that uses the words as futexes waits with WaitIfEqual and wakes
\* every waiter; other guest code uses all there is.
UsesWait(c) == guest = "futex" => c.type = "WaitIfEqual"
UsesSignal(count) == guest = "futex" => count <= 0

\* DecrementIfLessThan stores whatever the timeout is.
MemoryAfterRead(c) ==
    IF c.type = "DecrementAndWaitIfLessThan" /\ ConditionHolds(c)
    THEN [memory EXCEPT ![c.addr] = Wrap(memory[c.addr] - 1)]
    ELSE memory

\* WaitIfLessThan and WaitIfEqual up to the checks: they return an error, or
\* keep the lock and go on to block.
WaitRead(t, c) ==
    /\ Calls(t)
    /\ UsesWait(c)
    /\ IF terminating[t]
       THEN UNCHANGED <<memory, schedLock, call>>       \* ResultTerminationRequested
       ELSE /\ memory' = MemoryAfterRead(c)
            /\ IF ConditionHolds(c) /\ c.timeout # "zero"
               THEN /\ schedLock' = t
                    /\ call' = [call EXCEPT ![t] = [addr |-> c.addr, value |-> c.value,
                                                timeout |-> c.timeout]]
               ELSE UNCHANGED <<schedLock, call>>       \* ResultInvalidState, ResultTimedOut
    /\ UNCHANGED <<tree, key, priority, state, waitResult, terminating, timer, owes>>

\* The rest of the wait: SetAddressArbiter, insert, BeginWait, and, when the
\* lock is released, the timer.
WaitBlock(t) ==
    LET c == call[t] IN
    /\ schedLock = t
    /\ tree' = Inserted(tree, t, c.addr, priority[t])
    /\ key' = [key EXCEPT ![t] = c.addr]
    /\ state' = [state EXCEPT ![t] = "Waiting"]
    /\ timer' = [timer EXCEPT ![t] = c.timeout = "positive"]
    /\ schedLock' = Nil
    /\ UNCHANGED <<memory, call, priority, waitResult, terminating, owes>>

\* GetWaitResult, on the thread itself when it runs again.
Return(t) ==
    /\ state[t] = "Runnable"
    /\ waitResult[t] # "None"
    /\ waitResult' = [waitResult EXCEPT ![t] = "None"]
    /\ UNCHANGED <<memory, schedLock, call, tree, key, priority, state, terminating, timer, owes>>

-----------------------------------------------------------------------------
(* The ends of a wait *)

\* EndWait or CancelWait of the thread queue cancels the timer task.
TimersAfter(woken) == [t \in Thread |-> timer[t] /\ t \notin woken]

\* What EndWait or CancelWait, erase and ClearAddressArbiter do to threads.
Leave(woken, result) ==
    /\ tree' = Erased(tree, woken)
    /\ key' = [t \in Thread |-> IF t \in woken THEN Nil ELSE key[t]]
    /\ state' = [t \in Thread |-> IF t \in woken THEN "Runnable" ELSE state[t]]
    /\ waitResult' = [t \in Thread |-> IF t \in woken THEN result ELSE waitResult[t]]
    /\ timer' = TimersAfter(woken)
    /\ call' = [t \in Thread |-> IF t \in woken THEN Nil ELSE call[t]]

\* Any running thread signals; one that owes a signal, that word first.
MaySignal(t, a, count) ==
    SchedulerUnlocked /\ Running(t) /\ owes[t] \in {a, Nil} /\ UsesSignal(count)

\* A signal of every waiter is the one that a store owes.
Settled(t, count) == IF count <= 0 THEN [owes EXCEPT ![t] = Nil] ELSE owes

Signal(t, a, count) ==
    /\ MaySignal(t, a, count)
    /\ Leave(Woken(a, count), "Success")
    /\ owes' = Settled(t, count)
    /\ UNCHANGED <<memory, schedLock, priority, terminating>>

\* SignalAndIncrementIfEqual; ResultInvalidState when the word is different.
SignalAndIncrementIfEqual(t, a, value, count) ==
    /\ MaySignal(t, a, count)
    /\ memory[a] = value
    /\ memory' = [memory EXCEPT ![a] = Wrap(value + 1)]
    /\ Leave(Woken(a, count), "Success")
    /\ owes' = Settled(t, count)
    /\ UNCHANGED <<schedLock, priority, terminating>>

\* The new value: the loop counts the waiters behind the first one and stops
\* once it has seen more than count.
ModifiedValueCountingAll(a, value, count) ==
    LET waiters == Cardinality(WaitersOf(a)) IN
    CASE waiters = 0 -> Wrap(value + 1)
      [] waiters > 0 /\ count <= 0 -> Wrap(value - 2)
      [] waiters > 0 /\ count > 0 -> IF waiters < count THEN Wrap(value - 1) ELSE value
ModifiedValue(a, value, count) ==
    LET waiters == Cardinality(WaitersOf(a)) IN
    CASE waiters = 0 -> Wrap(value + 1)
      [] waiters > 0 /\ count <= 0 -> Wrap(value - 2)
      [] waiters > 0 /\ count > 0 -> IF waiters - 1 < count THEN Wrap(value - 1) ELSE value

\* SignalAndModifyByWaitingCountIfEqual
SignalAndModifyByWaitingCountIfEqual(t, a, value, count) ==
    /\ MaySignal(t, a, count)
    /\ memory[a] = value
    /\ memory' = [memory EXCEPT ![a] = ModifiedValue(a, value, count)]
    /\ Leave(Woken(a, count), "Success")
    /\ owes' = Settled(t, count)
    /\ UNCHANGED <<schedLock, priority, terminating>>

\* KThread::OnTimer: the task is gone from the timer's tree when it runs.
OnTimer(t) ==
    /\ SchedulerUnlocked
    /\ timer[t]
    /\ IF state[t] = "Waiting"
       THEN Leave({t}, "TimedOut")
       ELSE /\ timer' = [timer EXCEPT ![t] = FALSE]
            /\ UNCHANGED <<tree, key, state, waitResult, call>>
    /\ UNCHANGED <<memory, schedLock, priority, terminating, owes>>

\* KThread::RequestTerminate, the part that is about a wait.
RequestTerminate(t) ==
    /\ SchedulerUnlocked
    /\ ~ terminating[t]
    /\ terminating' = [terminating EXCEPT ![t] = TRUE]
    /\ IF state[t] = "Waiting"
       THEN Leave({t}, "TerminationRequested")
       ELSE UNCHANGED <<tree, key, state, waitResult, timer, call>>
    /\ UNCHANGED <<memory, schedLock, priority, owes>>

-----------------------------------------------------------------------------
(* The rest of the system *)

\* RestorePriority takes a thread of the tree out and inserts it again, after
\* its priority has changed.
TreeKept(t, p) == tree
TreeAfterPriority(t, p) ==
    IF key[t] = Nil THEN tree
    ELSE Inserted(Erased(tree, {t}), t, key[t], p)

SetPriority(t, p) ==
    /\ SchedulerUnlocked
    /\ p # priority[t]
    /\ priority' = [priority EXCEPT ![t] = p]
    /\ tree' = TreeAfterPriority(t, p)
    /\ UNCHANGED <<memory, schedLock, call, key, state, waitResult, terminating, timer, owes>>

\* A store by guest code, on any core and with no lock.  A futex guest owes the
\* waiters a signal for it; other guest code stores and signals as it likes.
GuestStore(t, a, value) ==
    /\ Running(t)
    /\ schedLock # t
    /\ owes[t] = Nil
    /\ memory' = [memory EXCEPT ![a] = value]
    /\ owes' = IF guest = "futex" THEN [owes EXCEPT ![t] = a] ELSE owes
    /\ UNCHANGED <<schedLock, call, tree, key, priority, state, waitResult, terminating, timer>>

Step ==
    \/ \E t \in Thread, c \in Call : WaitRead(t, c)
    \/ \E t \in Thread : \/ WaitBlock(t)
                         \/ Return(t)
                         \/ OnTimer(t)
                         \/ RequestTerminate(t)
    \/ \E t \in Thread, a \in Address, count \in Counts :
          \/ Signal(t, a, count)
          \/ \E value \in Word : \/ SignalAndIncrementIfEqual(t, a, value, count)
                                 \/ SignalAndModifyByWaitingCountIfEqual(t, a, value, count)
    \/ \E t \in Thread, p \in Priority : SetPriority(t, p)
    \/ \E t \in Thread, a \in Address, value \in Values : GuestStore(t, a, value)

Next == Step /\ UNCHANGED guest

Spec == Init /\ [][Next]_vars

-----------------------------------------------------------------------------
(* Properties *)

\* Every variable has its type.
TypeOK ==
    /\ memory \in [Address -> Word]
    /\ schedLock \in Thread \cup {Nil}
    /\ call \in [Thread -> Wait \cup {Nil}]
    /\ tree \in Seq(Thread)
    /\ key \in [Thread -> Address \cup {Nil}]
    /\ priority \in [Thread -> Priority]
    /\ state \in [Thread -> {"Runnable", "Waiting"}]
    /\ waitResult \in [Thread -> Results]
    /\ terminating \in [Thread -> BOOLEAN]
    /\ timer \in [Thread -> BOOLEAN]
    /\ guest \in Guests
    /\ owes \in [Thread -> Address \cup {Nil}]

\* m_tree holds exactly the threads that wait in the arbiter, each once, in the
\* order of its comparator: nfind_key and the loops behind it find every waiter
\* of a word, whatever priority changes came in between.  A thread outside of a
\* wait has no timer task either that could end a later wait
\* (k_thread_queue.cpp).
TreeMatchesWaiters ==
    /\ TypeOK
    /\ \A i, j \in DOMAIN tree : i < j => tree[i] # tree[j]
    /\ Range(tree) = {t \in Thread : state[t] = "Waiting"}
    /\ \A t \in Thread : key[t] # Nil <=> state[t] = "Waiting"
    /\ \A i, j \in DOMAIN tree :
          i < j => ~ Before(key[tree[j]], priority[tree[j]], key[tree[i]], priority[tree[i]])
    /\ \A t \in Thread : timer[t] => state[t] = "Waiting" /\ call[t].timeout = "positive"

\* The promise of a futex: a thread that sleeps although the word no longer has
\* the value it waits for is about to be woken, because whoever stored the new
\* value has its signal still ahead.
NoLostWakeup ==
    guest = "futex" => \A t \in Thread :
        state[t] = "Waiting" /\ memory[key[t]] # call[t].value =>
            \E u \in Thread : owes[u] = key[t]

\* A signal wakes the most urgent waiters of its word: whoever stays asleep is
\* no more urgent than one who was woken.
WakesMostUrgent ==
    [][\A u \in Thread : waitResult[u] = "None" /\ waitResult'[u] = "Success" =>
          \A w \in Thread : key[w] = key[u] /\ key'[w] = key[w] => priority[u] <= priority[w]]_vars

\* SignalAndModifyByWaitingCountIfEqual leaves in the word what is left to
\* wake: its value when somebody still waits, one less when the signal woke the
\* last waiter, one more when there was none.
WordTellsWaiters ==
    [][\A t \in Thread, a \in Address, value \in Word, count \in Counts :
          count > 0 /\ SignalAndModifyByWaitingCountIfEqual(t, a, value, count) =>
              LET before == {w \in Thread : key[w] = a}
                  after == {w \in Thread : key'[w] = a}
              IN  \/ memory'[a] = value /\ after # {}
                  \/ memory'[a] = Wrap(value - 1) /\ after = {} /\ before # {}
                  \/ memory'[a] = Wrap(value + 1) /\ before = {}]_vars

\* A signal does what its type promises: it wakes the most urgent waiters, and
\* the counting kind leaves in the word what is left to wake.
SignalsAsPromised == WakesMostUrgent /\ WordTellsWaiters
=============================================================================
