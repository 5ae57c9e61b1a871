-------------------------- MODULE NvHostCtrlProof --------------------------
(***************************************************************************)
(* Proofs about NvHostCtrl and the SyncpointManager it extends, for any    *)
(* number of GPU threads, callers, slots and values: no action that is due *)
(* is left behind, and no event waits for an action that is gone.          *)
(***************************************************************************)
EXTENDS NvHostCtrl, WellFoundedInduction, FiniteSetTheorems, SequenceTheorems, TLAPS

(* The inductive invariant, part by part *)

Action == [expected_value : Nat, slot : Slot]

Status == {"Available", "Waiting", "Cancelling", "Signalling", "Signalled", "Cancelled"}

\* Where an incrementer runs the first action of the list, and has been
\* through the exchange of its status.
Running == {"run", "run_signal", "run_store", "ran"}
Exchanged == {"run_signal", "run_store", "ran"}

\* Where a thread is about to store or run an action.
Storing == {"register", "register_guard", "run"}

TypeOK ==
    /\ syncpoint \in Nat
    /\ action_storage \in Seq(Action)
    /\ guard \in Thread \cup {None}
    /\ pc \in [Thread -> Running \cup
                {"idle", "increment_guard", "increment_loop", "event_wait", "event_check",
                 "event_store", "free", "create", "register",
                 "register_guard", "stored", "ran_now", "deregister", "clear", "wait", "wait_guard",
                 "cv_wait", "waited"}]
    /\ \A t \in Incrementer : pc[t] \in Running \cup {"idle", "increment_guard", "increment_loop"}
    /\ slot \in [Thread -> Slot \cup {None}]
    /\ value \in [Thread -> Nat]
    /\ status \in [Slot -> Status]
    /\ wait_handle \in [Slot -> Action \cup {None}]

\* A call that has passed the lock has it and knows its slot.
InCall(c) == pc[c] \notin {"idle", "event_wait"}

CallsOK == \A c \in Client : InCall(c) => events_mutex = c /\ slot[c] \in Slot

\* The increment holds guard while it runs the actions, so that the first
\* action stays the first until it is erased.
GuardOK ==
    \A t \in Incrementer :
        /\ pc[t] \in Running \cup {"increment_loop"} => guard = t
        /\ pc[t] \in Running => action_storage # << >> /\ slot[t] = action_storage[1].slot

\* The list is sorted: what is behind an action that is not due is not due.
Sorted ==
    \A i, j \in DOMAIN action_storage :
        i < j => action_storage[i].expected_value <= action_storage[j].expected_value

\* A handle is for its own slot, and the wait it is to cancel is over.
HandlesOK ==
    /\ \A s \in Slot : wait_handle[s] # None => wait_handle[s].slot = s
    /\ \A c \in Client : pc[c] = "deregister" => status[slot[c]] # "Waiting"

\* WaitingHasAction, where the first action does not count any more when its
\* exchange is over: it is erased next.
Ahead(i) == i = 1 => \A t \in Incrementer : pc[t] \notin Exchanged

HasAction(s) ==
    \/ \E i \in DOMAIN action_storage : action_storage[i].slot = s /\ Ahead(i)
    \/ \E t \in Thread : slot[t] = s /\ pc[t] \in Storing

ActionsOK == \A s \in Slot : status[s] = "Waiting" => HasAction(s)

IInv ==
    /\ TypeOK
    /\ CallsOK
    /\ GuardOK
    /\ Sorted
    /\ HandlesOK
    /\ ActionsOK
    /\ NothingOverdue

-----------------------------------------------------------------------------
(* What the operators of the model return *)

\* A set of natural numbers has a smallest one.
LEMMA NatMin ==
    ASSUME NEW S, S \subseteq Nat, S # {}
    PROVE  \E n \in S : \A m \in S : n <= m
<1>1. IsWellFoundedOn(OpToRel(<, Nat), Nat)
  BY NatLessThanWellFounded
<1>2. PICK n \in S : \A m \in S : ~ (<<m, n>> \in OpToRel(<, Nat))
  BY <1>1, WFMin
<1>3. \A m \in S : ~ (m < n)
  BY <1>2 DEF OpToRel
<1> QED BY <1>3

\* FindFreeNvEvent finds one of the slots.
LEMMA FindFreeType == FindFreeNvEvent \in Slot
<1>1. Cardinality(Slot) \in Nat
  BY SlotAssumption, FS_CardinalityType
<1>2. Slot \subseteq Nat /\ Slot # {}
  BY <1>1, SlotAssumption
<1>3. ASSUME NEW S, S \subseteq Slot, S # {} PROVE Smallest(S) \in Slot
  <2>1. \E n \in S : \A m \in S : n <= m
    BY <1>2, <1>3, NatMin
  <2> QED BY <1>3, <2>1 DEF Smallest
<1>4. ASSUME NEW S, S \subseteq Slot, S # {} PROVE Largest(S) \in Slot
  <2> DEFINE n == Cardinality(Slot) - 1
             Mirror == {n - s : s \in S}
  <2>1. n \in Int /\ \A s \in S : s \in 0 .. n
    BY <1>1, <1>4, SlotAssumption
  <2>2. Mirror \subseteq Nat /\ Mirror # {}
    BY <1>4, <2>1
  <2>3. PICK m \in Mirror : \A k \in Mirror : m <= k
    BY <2>2, NatMin
  <2>4. PICK s \in S : m = n - s
    BY <2>3
  <2>5. \A r \in S : m <= n - r
    BY <2>3
  <2> HIDE DEF n, Mirror
  <2>6. \A r \in S : s >= r
    BY <2>1, <2>4, <2>5
  <2> QED BY <1>4, <2>6 DEF Largest
<1>5. /\ Usable \subseteq Slot /\ {s \in Usable : assigned[s]} \subseteq Slot
      /\ {s \in Slot : ~registered[s]} \subseteq Slot
  BY DEF Usable
<1> HIDE DEF Usable
<1> QED BY <1>2, <1>3, <1>4, <1>5 DEF FindFreeNvEvent

\* Lists with one element more, and one element less.
Inserted(s, u, k, a) ==
    /\ Len(u) = Len(s) + 1
    /\ \A i \in 1 .. Len(u) : u[i] = IF i < k THEN s[i] ELSE IF i = k THEN a ELSE s[i - 1]

Removed(s, u, k) ==
    /\ Len(u) = Len(s) - 1
    /\ \A i \in 1 .. Len(u) : u[i] = IF i < k THEN s[i] ELSE s[i + 1]

\* InsertAt puts one element in.
LEMMA InsertAtFacts ==
    ASSUME NEW S, NEW s \in Seq(S), NEW a \in S, NEW k \in 1 .. Len(s) + 1
    PROVE  InsertAt(s, k, a) \in Seq(S) /\ Inserted(s, InsertAt(s, k, a), k, a)
<1> DEFINE A == SubSeq(s, 1, k - 1)
           B == A \o <<a>>
           C == SubSeq(s, k, Len(s))
<1>1. A \in Seq(S) /\ Len(A) = k - 1 /\ \A i \in 1 .. k - 1 : A[i] = s[i]
  OBVIOUS
<1>2. C \in Seq(S) /\ Len(C) = Len(s) + 1 - k /\ \A i \in 1 .. Len(s) + 1 - k : C[i] = s[i + k - 1]
  OBVIOUS
<1> HIDE DEF A, C
<1>3. B \in Seq(S) /\ Len(B) = k /\ B[k] = a /\ \A i \in 1 .. k - 1 : B[i] = s[i]
  BY <1>1
<1> HIDE DEF B
<1>4. B \o C \in Seq(S) /\ Len(B \o C) = Len(s) + 1
  <2>1. B \o C \in Seq(S) /\ Len(B \o C) = Len(B) + Len(C)
    BY <1>2, <1>3, ConcatProperties
  <2>2. Len(B) + Len(C) = Len(s) + 1
    BY <1>2, <1>3
  <2> QED BY <2>1, <2>2
<1>5. \A i \in 1 .. Len(s) + 1 : (B \o C)[i] = IF i <= k THEN B[i] ELSE C[i - k]
  BY <1>2, <1>3
<1>6. \A i \in k + 1 .. Len(s) + 1 : C[i - k] = s[i - 1]
  <2> SUFFICES ASSUME NEW i \in k + 1 .. Len(s) + 1 PROVE C[i - k] = s[i - 1]
    OBVIOUS
  <2>1. i - k \in 1 .. Len(s) + 1 - k /\ (i - k) + k - 1 = i - 1
    OBVIOUS
  <2> QED BY <1>2, <2>1
<1>7. Inserted(s, B \o C, k, a)
  BY <1>3, <1>4, <1>5, <1>6 DEF Inserted
<1>8. InsertAt(s, k, a) = B \o C
  BY DEF InsertAt, A, B, C
<1> QED BY <1>4, <1>7, <1>8

\* RemoveAt takes one element out.
LEMMA RemoveAtFacts ==
    ASSUME NEW S, NEW s \in Seq(S), NEW k \in 1 .. Len(s)
    PROVE  RemoveAt(s, k) \in Seq(S) /\ Removed(s, RemoveAt(s, k), k)
<1> DEFINE A == SubSeq(s, 1, k - 1)
           C == SubSeq(s, k + 1, Len(s))
<1>1. A \in Seq(S) /\ Len(A) = k - 1 /\ \A i \in 1 .. k - 1 : A[i] = s[i]
  OBVIOUS
<1>2. C \in Seq(S) /\ Len(C) = Len(s) - k /\ \A i \in 1 .. Len(s) - k : C[i] = s[i + k]
  OBVIOUS
<1> HIDE DEF A, C
<1>3. A \o C \in Seq(S) /\ Len(A \o C) = Len(s) - 1
  <2>1. A \o C \in Seq(S) /\ Len(A \o C) = Len(A) + Len(C)
    BY <1>1, <1>2, ConcatProperties
  <2>2. Len(A) + Len(C) = Len(s) - 1
    BY <1>1, <1>2
  <2> QED BY <2>1, <2>2
<1>4. \A i \in 1 .. Len(s) - 1 : (A \o C)[i] = IF i < k THEN A[i] ELSE C[i - (k - 1)]
  BY <1>1, <1>2
<1>5. \A i \in k .. Len(s) - 1 : C[i - (k - 1)] = s[i + 1]
  BY <1>2
<1>6. Removed(s, A \o C, k)
  BY <1>1, <1>3, <1>4, <1>5 DEF Removed
<1>7. RemoveAt(s, k) = A \o C
  BY DEF RemoveAt, A, C
<1> QED BY <1>3, <1>6, <1>7

\* RegisterAction finds the place that keeps the list sorted.
LEMMA EmplacedFacts ==
    ASSUME TypeOK, NEW a \in Action
    PROVE  /\ Emplaced(a) \in Seq(Action)
           /\ \E k \in 1 .. Len(action_storage) + 1 :
                /\ Inserted(action_storage, Emplaced(a), k, a)
                /\ \A j \in 1 .. k - 1 : action_storage[j].expected_value < a.expected_value
                /\ k <= Len(action_storage) => action_storage[k].expected_value >= a.expected_value
<1> DEFINE n == Len(action_storage)
           Fits(i) == i <= n => action_storage[i].expected_value >= a.expected_value
           Place(i) == /\ \A j \in 1 .. i - 1 : action_storage[j].expected_value < a.expected_value
                       /\ i <= n => action_storage[i].expected_value >= a.expected_value
           S == {i \in 1 .. n + 1 : Fits(i)}
<1>1. n \in Nat /\ \A i \in 1 .. n : action_storage[i].expected_value \in Nat
  <2>1. action_storage \in Seq(Action)
    BY DEF TypeOK
  <2>2. n \in Nat /\ \A i \in 1 .. n : action_storage[i] \in Action
    BY <2>1
  <2> QED BY <2>2 DEF Action
<1>2. n + 1 \in S /\ S \subseteq Nat
  BY <1>1
<1>3. PICK k \in S : \A m \in S : k <= m
  BY <1>2, NatMin
<1>4. \A j \in 1 .. k - 1 : action_storage[j].expected_value < a.expected_value
  <2> SUFFICES ASSUME NEW j \in 1 .. k - 1 PROVE action_storage[j].expected_value < a.expected_value
    OBVIOUS
  <2>1. j \in 1 .. n + 1 /\ j \notin S /\ j \in 1 .. n
    BY <1>1, <1>3
  <2>2. a.expected_value \in Nat
    BY DEF Action
  <2> QED BY <1>1, <2>1, <2>2
<1>5. Place(k) /\ k \in 1 .. n + 1
  BY <1>3, <1>4
<1>6. PICK p \in 1 .. n + 1 : p = (CHOOSE i \in 1 .. n + 1 : Place(i)) /\ Place(p)
  BY <1>5
<1>7. Emplaced(a) = InsertAt(action_storage, p, a)
  BY <1>6 DEF Emplaced
<1>8. /\ InsertAt(action_storage, p, a) \in Seq(Action)
      /\ Inserted(action_storage, InsertAt(action_storage, p, a), p, a)
  BY InsertAtFacts DEF TypeOK
<1> QED BY <1>6, <1>7, <1>8

\* DeregisterAction removes one action, the one of the handle, or nothing.
LEMMA DeregisteredFacts ==
    ASSUME TypeOK, NEW a
    PROVE  /\ Deregistered(a) \in Seq(Action)
           /\ \/ Deregistered(a) = action_storage
              \/ \E k \in 1 .. Len(action_storage) :
                    action_storage[k] = a /\ Removed(action_storage, Deregistered(a), k)
<1> DEFINE n == Len(action_storage)
           S == {i \in 1 .. n : action_storage[i] = a}
<1>1. action_storage \in Seq(Action) /\ n \in Nat
  BY DEF TypeOK
<1>2. CASE S = {}
  <2>1. Deregistered(a) = action_storage
    BY <1>2 DEF Deregistered, RemoveFirst
  <2> QED BY <1>1, <2>1
<1>3. CASE S # {}
  <2>1. PICK k \in S : k = Min(S)
    BY <1>1, <1>3, NatMin DEF Min
  <2>2. Deregistered(a) = RemoveAt(action_storage, k)
    BY <1>3, <2>1 DEF Deregistered, RemoveFirst, SelectInSeq
  <2> QED BY <1>1, <2>1, <2>2, RemoveAtFacts
<1> QED BY <1>2, <1>3

\* What every action of the list is.
LEMMA Elements ==
    ASSUME IInv, NEW i \in DOMAIN action_storage
    PROVE  /\ action_storage[i] \in Action
           /\ action_storage[i].expected_value \in Nat /\ action_storage[i].slot \in Slot
<1>1. action_storage[i] \in Action
  BY DEF IInv, TypeOK
<1> QED BY <1>1 DEF Action

\* A wait keeps its action in a step that changes neither the list nor the
\* threads that are about to store or run an action, and starts no wait.
WaitsKept ==
    /\ action_storage' = action_storage
    /\ \A s \in Slot : status'[s] = "Waiting" => status[s] = "Waiting"
    /\ \A t \in Incrementer : pc'[t] \in Exchanged => pc[t] \in Exchanged
    /\ \A t \in Thread : pc[t] \in Storing => pc'[t] \in Storing /\ slot'[t] = slot[t]

\* Then every waiting event keeps its action.
LEMMA WaitsKeptFacts == ASSUME IInv, WaitsKept PROVE ActionsOK'
BY DEF IInv, ActionsOK, HasAction, Ahead, WaitsKept

\* Nothing becomes overdue in a step that leaves the syncpoint, the incrementers
\* and what waits as they are, or adds what waits for a larger value.
DueKept ==
    /\ syncpoint' = syncpoint
    /\ \A i \in DOMAIN action_storage' :
            \/ ~ (action_storage'[i].expected_value <= syncpoint)
            \/ \E j \in DOMAIN action_storage : action_storage'[i] = action_storage[j]
    /\ \A t \in Incrementer : pc[t] # "idle" => pc'[t] # "idle" /\ value'[t] = value[t]
    /\ \A c \in Client : pc'[c] = "cv_wait" =>
            \/ ~ (value'[c] <= syncpoint)
            \/ pc[c] = "cv_wait" /\ value'[c] = value[c]

\* Then nothing is overdue.
LEMMA DueKeptFacts == ASSUME IInv, DueKept PROVE NothingOverdue'
<1> USE DEF DueKept
<1>1. ASSUME NEW i \in DOMAIN action_storage', action_storage'[i].expected_value <= syncpoint
      PROVE  \E t \in Incrementer : Incrementing(t, action_storage[i].expected_value)'
  <2>1. PICK j \in DOMAIN action_storage : action_storage'[i] = action_storage[j]
    BY <1>1
  <2>2. \E t \in Incrementer : Incrementing(t, action_storage[j].expected_value)
    BY <1>1, <2>1 DEF IInv, NothingOverdue
  <2>3. PICK t \in Incrementer : pc[t] # "idle" /\ value[t] >= action_storage[j].expected_value
    BY <2>2 DEF Incrementing
  <2> QED BY <2>1, <2>3 DEF Incrementing
<1>2. ASSUME NEW c \in Client, pc'[c] = "cv_wait", value'[c] <= syncpoint
      PROVE  \E t \in Incrementer : Incrementing(t, value[c])'
  <2>1. PICK t \in Incrementer : Incrementing(t, value[c])
    BY <1>2 DEF IInv, NothingOverdue
  <2> QED BY <1>2, <2>1 DEF Incrementing
<1> QED BY <1>1, <1>2 DEF NothingOverdue

-----------------------------------------------------------------------------
(* SyncpointManager *)

\* RegisterAction looks at the syncpoint before it locks.
LEMMA RegisterLoadStep ==
    ASSUME IInv, NEW c \in Client,
           RegisterLoad(c), UNCHANGED <<eventVars, events_mutex, counterVars>>
    PROVE  IInv'
<1> USE DEF RegisterLoad, Move, managerVars, eventVars, counterVars
<1>1. c \in Thread /\ c \notin Incrementer
  BY ThreadAssumption DEF Thread
<1>2. TypeOK'
  BY <1>1 DEF IInv, TypeOK, Running, Status
<1>3. CallsOK'
  BY <1>1, ThreadAssumption DEF IInv, TypeOK, CallsOK, InCall, Running, Thread
<1>4. GuardOK'
  BY <1>1, ThreadAssumption DEF IInv, TypeOK, GuardOK, Running, Thread
<1>5. Sorted'
  BY <1>1 DEF IInv, Sorted
<1>6. HandlesOK'
  BY <1>1, ThreadAssumption DEF IInv, TypeOK, CallsOK, InCall, HandlesOK, Thread
<1>7. ActionsOK'
  <2>1. WaitsKept
    BY <1>1 DEF IInv, TypeOK, WaitsKept, Exchanged, Storing, Thread
  <2> HIDE DEF RegisterLoad
  <2> QED BY <2>1, WaitsKeptFacts
<1>8. NothingOverdue'
  <2>1. DueKept
    BY <1>1 DEF IInv, TypeOK, DueKept, Thread
  <2> HIDE DEF RegisterLoad
  <2> QED BY <2>1, DueKeptFacts
<1> QED BY <1>2, <1>3, <1>4, <1>5, <1>6, <1>7, <1>8 DEF IInv

\* RegisterAction finds the value reached under the lock.
LEMMA RegisterRunStep ==
    ASSUME IInv, NEW c \in Client,
           RegisterRun(c), UNCHANGED <<eventVars, events_mutex, counterVars>>
    PROVE  IInv'
<1> USE DEF RegisterRun, Move, managerVars, eventVars, counterVars
<1>1. c \in Thread /\ c \notin Incrementer
  BY ThreadAssumption DEF Thread
<1>2. TypeOK'
  BY <1>1 DEF IInv, TypeOK, Running, Status
<1>3. CallsOK'
  BY <1>1, ThreadAssumption DEF IInv, TypeOK, CallsOK, InCall, Running, Thread
<1>4. GuardOK'
  BY <1>1, ThreadAssumption DEF IInv, TypeOK, GuardOK, Running, Thread
<1>5. Sorted'
  BY <1>1 DEF IInv, Sorted
<1>6. HandlesOK'
  BY <1>1, ThreadAssumption DEF IInv, TypeOK, CallsOK, InCall, HandlesOK, Thread
<1>7. ActionsOK'
  <2>1. WaitsKept
    BY <1>1 DEF IInv, TypeOK, WaitsKept, Exchanged, Storing, Thread
  <2> HIDE DEF RegisterRun
  <2> QED BY <2>1, WaitsKeptFacts
<1>8. NothingOverdue'
  <2>1. DueKept
    BY <1>1 DEF IInv, TypeOK, DueKept, Thread
  <2> HIDE DEF RegisterRun
  <2> QED BY <2>1, DueKeptFacts
<1> QED BY <1>2, <1>3, <1>4, <1>5, <1>6, <1>7, <1>8 DEF IInv

\* RegisterAction stores the action.
LEMMA RegisterStoreStep ==
    ASSUME IInv, NEW c \in Client,
           RegisterStore(c), UNCHANGED <<eventVars, events_mutex, counterVars>>
    PROVE  IInv'
<1> USE DEF RegisterStore, Move, managerVars, eventVars, counterVars
<1>1. c \in Thread /\ c \notin Incrementer
  BY ThreadAssumption DEF Thread
<1>2. \A u \in Incrementer : pc[u] \notin Running \cup {"increment_loop"}
  BY ThreadAssumption DEF IInv, GuardOK, Thread
<1>3. /\ ActionOf(c) \in Action /\ ActionOf(c).slot = slot[c]
      /\ ~ (ActionOf(c).expected_value <= syncpoint)

  <2>1. slot[c] \in Slot /\ value[c] \in Nat /\ syncpoint \in Nat
    BY <1>1 DEF IInv, TypeOK, CallsOK, InCall
  <2>2. ~ (value[c] <= syncpoint)
    BY <2>1 DEF ReachedUnderGuard
  <2> QED BY <2>1, <2>2 DEF ActionOf, Action
<1>4. action_storage' = Emplaced(ActionOf(c)) /\ action_storage' \in Seq(Action)
  BY <1>3, EmplacedFacts DEF IInv
<1>5. PICK k \in 1 .. Len(action_storage) + 1 :
        /\ Inserted(action_storage, action_storage', k, ActionOf(c))
        /\ \A j \in 1 .. k - 1 : action_storage[j].expected_value < ActionOf(c).expected_value
        /\ k <= Len(action_storage) => action_storage[k].expected_value >= ActionOf(c).expected_value
  BY <1>3, <1>4, EmplacedFacts DEF IInv
<1>6. /\ Len(action_storage) \in Nat
      /\ DOMAIN action_storage = 1 .. Len(action_storage)
      /\ DOMAIN action_storage' = 1 .. Len(action_storage) + 1
      /\ action_storage'[k] = ActionOf(c)
      /\ \A i \in 1 .. k - 1 : action_storage'[i] = action_storage[i]
      /\ \A i \in k .. Len(action_storage) : action_storage'[i + 1] = action_storage[i]
      /\ \A i \in k + 1 .. Len(action_storage) + 1 : action_storage'[i] = action_storage[i - 1]
  BY <1>4, <1>5 DEF IInv, TypeOK, Inserted
<1>7. TypeOK'
  BY <1>1, <1>4 DEF IInv, TypeOK, Running
<1>8. CallsOK'
  BY <1>1, ThreadAssumption DEF IInv, TypeOK, CallsOK, InCall, Running, Thread
<1>9. GuardOK'
  BY <1>2, <1>1 DEF IInv, TypeOK, GuardOK, Thread, Running
<1>10. Sorted'
  <2> HIDE DEF RegisterStore
  <2> DEFINE ev(i) == action_storage[i].expected_value
             n == Len(action_storage)
             v == ActionOf(c).expected_value
  <2>1. n \in Nat /\ v \in Nat /\ \A i \in 1 .. n : ev(i) \in Nat
    BY <1>3, <1>6, Elements DEF Action
  <2>2. \A i, j \in 1 .. n : i < j => ev(i) <= ev(j)
    BY <1>6 DEF IInv, Sorted
  <2>3. \A j \in 1 .. k - 1 : ev(j) < v
    BY <1>5
  <2>4. \A j \in k .. n : v <= ev(j)
    BY <1>5, <1>6, <2>1, <2>2
  <2>5. \A i \in 1 .. n + 1 : action_storage'[i].expected_value =
                                IF i < k THEN ev(i) ELSE IF i = k THEN v ELSE ev(i - 1)
    BY <1>6
  <2> HIDE DEF ev, n, v
  <2>6. k \in 1 .. n + 1 /\ DOMAIN action_storage' = 1 .. n + 1
    BY <1>6 DEF n
  <2> SUFFICES ASSUME NEW i \in 1 .. n + 1, NEW j \in 1 .. n + 1, i < j
               PROVE  action_storage'[i].expected_value <= action_storage'[j].expected_value
    BY <2>6 DEF Sorted
  <2>7. CASE j < k
    BY <2>1, <2>2, <2>5, <2>6, <2>7
  <2>8. CASE j = k
    BY <2>1, <2>3, <2>5, <2>6, <2>8
  <2>9. CASE j > k
    <3>1. j - 1 \in 1 .. n /\ j - 1 \in k .. n /\ action_storage'[j].expected_value = ev(j - 1)
      BY <2>1, <2>5, <2>6, <2>9
    <3>2. CASE i < k
      <4>1. i \in 1 .. k - 1 /\ i \in 1 .. n /\ action_storage'[i].expected_value = ev(i)
        BY <2>1, <2>5, <2>6, <3>2
      <4>2. ev(i) < v /\ v <= ev(j - 1) /\ ev(i) \in Nat /\ ev(j - 1) \in Nat
        BY <2>1, <2>3, <2>4, <3>1, <4>1
      <4> QED BY <2>1, <3>1, <4>1, <4>2
    <3>3. CASE i = k
      BY <2>4, <2>5, <3>1, <3>3
    <3>4. CASE i > k
      <4>1. i - 1 \in 1 .. n /\ i - 1 < j - 1 /\ action_storage'[i].expected_value = ev(i - 1)
        BY <2>1, <2>5, <2>6, <3>4
      <4> QED BY <2>2, <3>1, <4>1
    <3> QED BY <2>6, <3>2, <3>3, <3>4
  <2> QED BY <2>6, <2>7, <2>8, <2>9
<1>11. HandlesOK'
  BY <1>1, ThreadAssumption DEF IInv, TypeOK, CallsOK, InCall, HandlesOK, Thread
<1>12. ActionsOK'
  <2> SUFFICES ASSUME NEW s \in Slot, status'[s] = "Waiting"
               PROVE  HasAction(s)'
    BY DEF ActionsOK
  <2> USE DEF HasAction, Storing
  <2>1. \A i : Ahead(i)'
    BY <1>2, <1>1 DEF IInv, TypeOK, Ahead, Exchanged, Running, Thread
  <2>2. CASE \E i \in DOMAIN action_storage : action_storage[i].slot = s
    <3>1. PICK i \in DOMAIN action_storage : action_storage[i].slot = s
      BY <2>2
    <3>2. \E j \in DOMAIN action_storage' : action_storage'[j] = action_storage[i]
      <4>1. CASE i < k
        BY <4>1, <1>6
      <4>2. CASE ~ (i < k)
        <5>1. i \in k .. Len(action_storage) /\ i + 1 \in DOMAIN action_storage'
          BY <4>2, <1>6
        <5> QED BY <5>1, <1>6
      <4> QED BY <4>1, <4>2
    <3> QED BY <2>1, <3>1, <3>2
  <2>3. CASE slot[c] = s
    BY <2>1, <2>3, <1>3, <1>6
  <2>4. CASE \E u \in Thread \ {c} : slot[u] = s /\ pc[u] \in Storing
    BY <2>4, <1>1 DEF IInv, TypeOK
  <2> QED BY <2>2, <2>3, <2>4 DEF IInv, ActionsOK
<1>13. NothingOverdue'
  <2>1. \A i \in DOMAIN action_storage' :
            \/ ~ (action_storage'[i].expected_value <= syncpoint)
            \/ \E j \in DOMAIN action_storage : action_storage'[i] = action_storage[j]
    <3> SUFFICES ASSUME NEW i \in DOMAIN action_storage'
                 PROVE  \/ ~ (action_storage'[i].expected_value <= syncpoint)
                        \/ \E j \in DOMAIN action_storage : action_storage'[i] = action_storage[j]
      OBVIOUS
    <3>1. CASE i < k
      BY <3>1, <1>6
    <3>2. CASE i = k
      BY <3>2, <1>3, <1>6
    <3>3. CASE i > k
      <4>1. i - 1 \in DOMAIN action_storage /\ action_storage'[i] = action_storage[i - 1]
        BY <3>3, <1>6
      <4> QED BY <4>1
    <3> QED BY <3>1, <3>2, <3>3, <1>6
  <2>2. \A u \in Incrementer : pc[u] # "idle" => pc'[u] # "idle" /\ value'[u] = value[u]
    BY <1>1 DEF IInv, TypeOK, Thread
  <2>3. \A u \in Client : pc'[u] = "cv_wait" => pc[u] = "cv_wait" /\ value'[u] = value[u]
    BY <1>1 DEF IInv, TypeOK, Thread
  <2>4. syncpoint' = syncpoint
    OBVIOUS
  <2> HIDE DEF RegisterStore
  <2> QED BY <2>1, <2>2, <2>3, <2>4, DueKeptFacts DEF DueKept
<1> QED BY <1>7, <1>8, <1>9, <1>10, <1>11, <1>12, <1>13 DEF IInv

\* The action ran in RegisterAction.
LEMMA RegisterRanStep ==
    ASSUME IInv, NEW c \in Client,
           RegisterRan(c), UNCHANGED <<eventVars, events_mutex, counterVars>>
    PROVE  IInv'
<1> USE DEF RegisterRan, GuardAfterRun, Move, managerVars, eventVars, counterVars
<1>1. c \in Thread /\ c \notin Incrementer
  BY ThreadAssumption DEF Thread
<1>2. TypeOK'
  BY <1>1 DEF IInv, TypeOK, Running, Status
<1>3. CallsOK'
  BY <1>1, ThreadAssumption DEF IInv, TypeOK, CallsOK, InCall, Running, Thread
<1>4. GuardOK'
  BY <1>1, ThreadAssumption DEF IInv, TypeOK, GuardOK, Running, Thread
<1>5. Sorted'
  BY <1>1 DEF IInv, Sorted
<1>6. HandlesOK'
  BY <1>1, ThreadAssumption DEF IInv, TypeOK, CallsOK, InCall, HandlesOK, Thread
<1>7. ActionsOK'
  <2>1. WaitsKept
    BY <1>1 DEF IInv, TypeOK, WaitsKept, Exchanged, Storing, Thread
  <2> HIDE DEF RegisterRan, GuardAfterRun
  <2> QED BY <2>1, WaitsKeptFacts
<1>8. NothingOverdue'
  <2>1. DueKept
    BY <1>1 DEF IInv, TypeOK, DueKept, Thread
  <2> HIDE DEF RegisterRan, GuardAfterRun
  <2> QED BY <2>1, DueKeptFacts
<1> QED BY <1>2, <1>3, <1>4, <1>5, <1>6, <1>7, <1>8 DEF IInv

\* A wait looks at the syncpoint.
LEMMA WaitLoadStep ==
    ASSUME IInv, NEW c \in Client,
           WaitLoad(c), UNCHANGED <<eventVars, events_mutex, counterVars>>
    PROVE  IInv'
<1> USE DEF WaitLoad, Move, managerVars, eventVars, counterVars
<1>1. c \in Thread /\ c \notin Incrementer
  BY ThreadAssumption DEF Thread
<1>2. TypeOK'
  BY <1>1 DEF IInv, TypeOK, Running, Status
<1>3. CallsOK'
  BY <1>1, ThreadAssumption DEF IInv, TypeOK, CallsOK, InCall, Running, Thread
<1>4. GuardOK'
  BY <1>1, ThreadAssumption DEF IInv, TypeOK, GuardOK, Running, Thread
<1>5. Sorted'
  BY <1>1 DEF IInv, Sorted
<1>6. HandlesOK'
  BY <1>1, ThreadAssumption DEF IInv, TypeOK, CallsOK, InCall, HandlesOK, Thread
<1>7. ActionsOK'
  <2>1. WaitsKept
    BY <1>1 DEF IInv, TypeOK, WaitsKept, Exchanged, Storing, Thread
  <2> HIDE DEF WaitLoad
  <2> QED BY <2>1, WaitsKeptFacts
<1>8. NothingOverdue'
  <2>1. DueKept
    BY <1>1 DEF IInv, TypeOK, DueKept, Thread
  <2> HIDE DEF WaitLoad
  <2> QED BY <2>1, DueKeptFacts
<1> QED BY <1>2, <1>3, <1>4, <1>5, <1>6, <1>7, <1>8 DEF IInv

\* A wait looks at the syncpoint again and sleeps.
LEMMA WaitGuardStep ==
    ASSUME IInv, NEW c \in Client,
           WaitGuard(c), UNCHANGED <<eventVars, events_mutex, counterVars>>
    PROVE  IInv'
<1> USE DEF WaitGuard, Move, managerVars, eventVars, counterVars
<1>1. c \in Thread /\ c \notin Incrementer
  BY ThreadAssumption DEF Thread
<1>2. TypeOK'
  BY <1>1 DEF IInv, TypeOK, Running, Status
<1>3. CallsOK'
  BY <1>1, ThreadAssumption DEF IInv, TypeOK, CallsOK, InCall, Running, Thread
<1>4. GuardOK'
  BY <1>1, ThreadAssumption DEF IInv, TypeOK, GuardOK, Running, Thread
<1>5. Sorted'
  BY <1>1 DEF IInv, Sorted
<1>6. HandlesOK'
  BY <1>1, ThreadAssumption DEF IInv, TypeOK, CallsOK, InCall, HandlesOK, Thread
<1>7. ActionsOK'
  <2>1. WaitsKept
    BY <1>1 DEF IInv, TypeOK, WaitsKept, Exchanged, Storing, Thread
  <2> HIDE DEF WaitGuard
  <2> QED BY <2>1, WaitsKeptFacts
<1>8. NothingOverdue'
  <2>1. DueKept
    BY <1>1 DEF IInv, TypeOK, DueKept, Thread
  <2> HIDE DEF WaitGuard
  <2> QED BY <2>1, DueKeptFacts
<1> QED BY <1>2, <1>3, <1>4, <1>5, <1>6, <1>7, <1>8 DEF IInv

\* A wait wakes up without a reason.
LEMMA SpuriousWakeupStep ==
    ASSUME IInv, NEW c \in Client,
           SpuriousWakeup(c), UNCHANGED <<eventVars, events_mutex, counterVars>>
    PROVE  IInv'
<1> USE DEF SpuriousWakeup, Move, managerVars, eventVars, counterVars
<1>1. c \in Thread /\ c \notin Incrementer
  BY ThreadAssumption DEF Thread
<1>2. TypeOK'
  BY <1>1 DEF IInv, TypeOK, Running, Status
<1>3. CallsOK'
  BY <1>1, ThreadAssumption DEF IInv, TypeOK, CallsOK, InCall, Running, Thread
<1>4. GuardOK'
  BY <1>1, ThreadAssumption DEF IInv, TypeOK, GuardOK, Running, Thread
<1>5. Sorted'
  BY <1>1 DEF IInv, Sorted
<1>6. HandlesOK'
  BY <1>1, ThreadAssumption DEF IInv, TypeOK, CallsOK, InCall, HandlesOK, Thread
<1>7. ActionsOK'
  <2>1. WaitsKept
    BY <1>1 DEF IInv, TypeOK, WaitsKept, Exchanged, Storing, Thread
  <2> HIDE DEF SpuriousWakeup
  <2> QED BY <2>1, WaitsKeptFacts
<1>8. NothingOverdue'
  <2>1. DueKept
    BY <1>1 DEF IInv, TypeOK, DueKept, Thread
  <2> HIDE DEF SpuriousWakeup
  <2> QED BY <2>1, DueKeptFacts
<1> QED BY <1>2, <1>3, <1>4, <1>5, <1>6, <1>7, <1>8 DEF IInv

\* The syncpoint is incremented.
LEMMA FetchAddStep ==
    ASSUME IInv, NEW t \in Incrementer,
           IncrementFetchAdd(t), UNCHANGED <<eventVars, events_mutex, counterVars>>
    PROVE  IInv'
<1> USE DEF IncrementFetchAdd, Move, managerVars, eventVars, counterVars
<1>1. t \in Thread /\ t \notin Client
  BY ThreadAssumption DEF Thread
<1>2. TypeOK'
  BY <1>1 DEF IInv, TypeOK, Running, Status
<1>3. CallsOK'
  BY <1>1, ThreadAssumption DEF IInv, TypeOK, CallsOK, InCall, Running, Thread
<1>4. GuardOK'
  BY <1>1, ThreadAssumption DEF IInv, TypeOK, GuardOK, Running, Thread
<1>5. Sorted'
  BY <1>1 DEF IInv, Sorted
<1>6. HandlesOK'
  BY <1>1, ThreadAssumption DEF IInv, TypeOK, CallsOK, InCall, HandlesOK, Thread
<1>7. ActionsOK'
  <2>1. WaitsKept
    BY <1>1 DEF IInv, TypeOK, WaitsKept, Exchanged, Storing, Thread
  <2> HIDE DEF IncrementFetchAdd
  <2> QED BY <2>1, WaitsKeptFacts
<1>8. NothingOverdue'
  BY <1>1 DEF IInv, TypeOK, NothingOverdue, Incrementing
<1> QED BY <1>2, <1>3, <1>4, <1>5, <1>6, <1>7, <1>8 DEF IInv

\* Increment locks the list.
LEMMA IncrementGuardStep ==
    ASSUME IInv, NEW t \in Incrementer,
           IncrementGuard(t), UNCHANGED <<eventVars, events_mutex, counterVars>>
    PROVE  IInv'
<1> USE DEF IncrementGuard, Move, managerVars, eventVars, counterVars
<1>1. t \in Thread /\ t \notin Client
  BY ThreadAssumption DEF Thread
<1>2. TypeOK'
  BY <1>1 DEF IInv, TypeOK, Running, Status
<1>3. CallsOK'
  BY <1>1, ThreadAssumption DEF IInv, TypeOK, CallsOK, InCall, Running, Thread
<1>4. GuardOK'
  BY <1>1, ThreadAssumption DEF IInv, TypeOK, GuardOK, Running, Thread
<1>5. Sorted'
  BY <1>1 DEF IInv, Sorted
<1>6. HandlesOK'
  BY <1>1, ThreadAssumption DEF IInv, TypeOK, CallsOK, InCall, HandlesOK, Thread
<1>7. ActionsOK'
  <2>1. WaitsKept
    BY <1>1 DEF IInv, TypeOK, WaitsKept, Exchanged, Storing, Thread
  <2> HIDE DEF IncrementGuard
  <2> QED BY <2>1, WaitsKeptFacts
<1>8. NothingOverdue'
  <2>1. DueKept
    BY <1>1 DEF IInv, TypeOK, DueKept, Thread
  <2> HIDE DEF IncrementGuard
  <2> QED BY <2>1, DueKeptFacts
<1> QED BY <1>2, <1>3, <1>4, <1>5, <1>6, <1>7, <1>8 DEF IInv

\* Increment runs the first action.
LEMMA IncrementRunStep ==
    ASSUME IInv, NEW t \in Incrementer,
           IncrementRun(t), UNCHANGED <<eventVars, events_mutex, counterVars>>
    PROVE  IInv'
<1> USE DEF IncrementRun, FirstIsDue, Move, managerVars, eventVars, counterVars
<1>1. t \in Thread /\ t \notin Client
  BY ThreadAssumption DEF Thread
<1>2. /\ 1 \in DOMAIN action_storage /\ action_storage[1].slot \in Slot
      /\ Head(action_storage) = action_storage[1]
  BY Elements DEF IInv, TypeOK, GuardOK, Running
<1>3. TypeOK'
  BY <1>1, <1>2 DEF IInv, TypeOK, Running
<1>4. CallsOK'
  BY <1>1, ThreadAssumption DEF IInv, TypeOK, CallsOK, InCall, Running, Thread
<1>5. GuardOK'
  BY <1>1, <1>2, ThreadAssumption DEF IInv, TypeOK, GuardOK, Running, Thread
<1>6. Sorted'
  BY <1>1 DEF IInv, Sorted
<1>7. HandlesOK'
  BY <1>1, ThreadAssumption DEF IInv, TypeOK, CallsOK, InCall, HandlesOK, Thread
<1>8. ActionsOK'
  <2>1. WaitsKept
    BY <1>1 DEF IInv, TypeOK, WaitsKept, Exchanged, Storing, Thread
  <2> HIDE DEF IncrementRun, FirstIsDue
  <2> QED BY <2>1, WaitsKeptFacts
<1>9. NothingOverdue'
  <2>1. DueKept
    BY <1>1 DEF IInv, TypeOK, DueKept, Thread
  <2> HIDE DEF IncrementRun, FirstIsDue
  <2> QED BY <2>1, DueKeptFacts
<1> QED BY <1>3, <1>4, <1>5, <1>6, <1>7, <1>8, <1>9 DEF IInv

\* Increment erases the first action.
LEMMA IncrementEraseStep ==
    ASSUME IInv, NEW t \in Incrementer,
           IncrementErase(t), UNCHANGED <<eventVars, events_mutex, counterVars>>
    PROVE  IInv'
<1> USE DEF IncrementErase, Move, managerVars, eventVars, counterVars
<1>1. t \in Thread /\ t \notin Client
  BY ThreadAssumption DEF Thread
<1>2. action_storage \in Seq(Action) /\ action_storage # << >>
  BY <1>1 DEF IInv, TypeOK, GuardOK, Running
<1>3. /\ action_storage' \in Seq(Action)
      /\ \A i \in DOMAIN action_storage' :
            i + 1 \in DOMAIN action_storage /\ action_storage'[i] = action_storage[i + 1]
      /\ \A i \in DOMAIN action_storage : i # 1 =>
            i - 1 \in DOMAIN action_storage' /\ action_storage'[i - 1] = action_storage[i]
  BY <1>2
<1>4. \A u \in Incrementer : u # t => pc[u] \notin Running
  BY DEF IInv, GuardOK, Running
<1>5. TypeOK'
  <2>1. action_storage' \in Seq(Action)
    BY <1>3
  <2> QED BY <1>1, <2>1 DEF IInv, TypeOK, Running
<1>6. CallsOK'
  BY <1>1, ThreadAssumption DEF IInv, TypeOK, CallsOK, InCall, Running, Thread
<1>7. GuardOK'
  BY <1>1, <1>4 DEF IInv, TypeOK, GuardOK, Running, Thread
<1>8. Sorted'
  <2>1. \A i \in DOMAIN action_storage' : i \in Nat
    BY <1>3
  <2> HIDE DEF IncrementErase
  <2> SUFFICES ASSUME NEW i \in DOMAIN action_storage', NEW j \in DOMAIN action_storage', i < j
               PROVE  action_storage'[i].expected_value <= action_storage'[j].expected_value
    BY DEF Sorted
  <2>2. i + 1 \in DOMAIN action_storage /\ j + 1 \in DOMAIN action_storage /\ i + 1 < j + 1
    BY <1>3, <2>1
  <2> QED BY <1>3, <2>2 DEF IInv, Sorted
<1>9. HandlesOK'
  BY <1>1, ThreadAssumption DEF IInv, TypeOK, CallsOK, InCall, HandlesOK, Thread
<1>10. ActionsOK'
  <2> SUFFICES ASSUME NEW s \in Slot, status'[s] = "Waiting"
               PROVE  HasAction(s)'
    BY DEF ActionsOK
  <2> USE DEF HasAction, Storing
  <2>1. \A i : Ahead(i)'
    BY <1>1, <1>4 DEF IInv, TypeOK, Ahead, Exchanged, Running, Thread
  <2>2. CASE \E i \in DOMAIN action_storage : action_storage[i].slot = s /\ Ahead(i)
    <3>1. PICK i \in DOMAIN action_storage : action_storage[i].slot = s /\ i # 1
      BY <2>2 DEF Ahead, Exchanged
    <3> QED BY <2>1, <3>1, <1>3
  <2>3. CASE \E u \in Thread : slot[u] = s /\ pc[u] \in Storing
    BY <2>3, <1>1 DEF IInv, TypeOK
  <2> QED BY <2>2, <2>3 DEF IInv, ActionsOK
<1>11. NothingOverdue'
  <2>1. \A i \in DOMAIN action_storage' :
            \E j \in DOMAIN action_storage : action_storage'[i] = action_storage[j]
    BY <1>3
  <2>2. \A u \in Incrementer : pc[u] # "idle" => pc'[u] # "idle" /\ value'[u] = value[u]
    BY <1>1 DEF IInv, TypeOK, Thread
  <2>3. \A u \in Client : pc'[u] = "cv_wait" => pc[u] = "cv_wait" /\ value'[u] = value[u]
    BY <1>1 DEF IInv, TypeOK, Thread
  <2>4. syncpoint' = syncpoint
    OBVIOUS
  <2> HIDE DEF IncrementErase
  <2> QED BY <2>1, <2>2, <2>3, <2>4, DueKeptFacts DEF DueKept
<1> QED BY <1>5, <1>6, <1>7, <1>8, <1>9, <1>10, <1>11 DEF IInv

\* Increment is done with the list and notifies.
LEMMA IncrementEndStep ==
    ASSUME IInv, NEW t \in Incrementer,
           IncrementEnd(t), UNCHANGED <<eventVars, events_mutex, counterVars>>
    PROVE  IInv'
<1> USE DEF IncrementEnd, Move, managerVars, eventVars, counterVars
<1>1. t \in Thread /\ t \notin Client
  BY ThreadAssumption DEF Thread
<1>2. \A u \in Thread : pc'[u] = IF u = t THEN "idle"
                                  ELSE IF pc[u] = "cv_wait" THEN "wait_guard" ELSE pc[u]
  BY <1>1 DEF IInv, TypeOK, NotifyAll
<1>3. pc' = [u \in Thread |-> pc'[u]]
  BY DEF NotifyAll
<1>4. TypeOK'
  <2>1. \A u \in Thread : pc'[u] \in {pc[u], "idle", "wait_guard"}
    BY <1>2
  <2>2. \A u \in Incrementer : pc'[u] \in {pc[u], "idle"}
    BY <1>2 DEF IInv, TypeOK, Running, Thread
  <2> DEFINE Label == Running \cup
                {"idle", "increment_guard", "increment_loop", "event_wait", "event_check",
                 "event_store", "free", "create", "register",
                 "register_guard", "stored", "ran_now", "deregister", "clear", "wait", "wait_guard",
                 "cv_wait", "waited"}
  <2>3. \A u \in Thread : pc'[u] \in Label
    BY <2>1 DEF IInv, TypeOK
  <2>4. \A u \in Incrementer : pc'[u] \in Running \cup {"idle", "increment_guard", "increment_loop"}
    BY <2>2 DEF IInv, TypeOK
  <2> HIDE DEF Label
  <2>5. pc' \in [Thread -> Label]
    BY <1>3, <2>3
  <2>6. value' \in [Thread -> Nat]
    BY DEF IInv, TypeOK
  <2> QED BY <2>4, <2>5, <2>6 DEF IInv, TypeOK, Label
<1>5. CallsOK'
  BY <1>1, <1>2 DEF IInv, CallsOK, InCall, Thread
<1>6. GuardOK'
  BY <1>1, <1>2 DEF IInv, GuardOK, Running, Thread
<1>7. Sorted'
  BY <1>1 DEF IInv, Sorted
<1>8. HandlesOK'
  BY <1>1, <1>2 DEF IInv, HandlesOK, Thread
<1>9. ActionsOK'
  <2>1. /\ action_storage' = action_storage
        /\ \A u \in Slot : status'[u] = "Waiting" => status[u] = "Waiting"
    OBVIOUS
  <2>2. \A u \in Incrementer : pc'[u] \in Exchanged => pc[u] \in Exchanged
    BY <1>2 DEF Exchanged, Thread
  <2>3. \A u \in Thread : pc[u] \in Storing => pc'[u] \in Storing /\ slot'[u] = slot[u]
    BY <1>2 DEF Storing
  <2> HIDE DEF IncrementEnd
  <2> QED BY <2>1, <2>2, <2>3, WaitsKeptFacts DEF WaitsKept
<1>10. NothingOverdue'
  <2>1. ASSUME NEW i \in DOMAIN action_storage, action_storage[i].expected_value <= syncpoint
        PROVE  \E u \in Incrementer : Incrementing(u, action_storage[i].expected_value)'
    <3>1. PICK u \in Incrementer : Incrementing(u, action_storage[i].expected_value)
      BY <2>1 DEF IInv, NothingOverdue
    <3>2. u # t
      <4>1. /\ action_storage # << >> /\ 1 \in DOMAIN action_storage
            /\ Head(action_storage) = action_storage[1]
        BY DEF IInv, TypeOK
      <4>2. ~ (action_storage[1].expected_value <= value[t])
        BY <4>1 DEF FirstIsDue
      <4>3. action_storage[1].expected_value <= action_storage[i].expected_value
        BY <4>1, Elements DEF IInv, TypeOK, Sorted
      <4>4. ~ (action_storage[i].expected_value <= value[t])
        BY <1>1, <4>1, <4>2, <4>3, Elements DEF IInv, TypeOK
      <4> QED BY <1>1, <3>1, <4>4, Elements DEF IInv, TypeOK, Incrementing
    <3> QED BY <1>2, <3>1, <3>2 DEF IInv, TypeOK, Incrementing, Thread
  <2>2. \A u \in Client : pc'[u] # "cv_wait"
    BY <1>2 DEF Thread
  <2> QED BY <2>1, <2>2 DEF NothingOverdue
<1> QED BY <1>4, <1>5, <1>6, <1>7, <1>8, <1>9, <1>10 DEF IInv

-----------------------------------------------------------------------------
(* nvhost_ctrl *)

\* An action takes its event over.
LEMMA ActionExchangeStep ==
    ASSUME IInv, NEW t \in Thread,
           ActionExchange(t)
    PROVE  IInv'
<1> USE DEF ActionExchange, Move, managerVars, eventVars, counterVars
<1>1. TypeOK'
  <2>1. status' \in [Slot -> Status]
    BY DEF IInv, TypeOK, Status
  <2> QED BY <2>1 DEF IInv, TypeOK, Running
<1>2. CallsOK'
  BY ThreadAssumption DEF IInv, TypeOK, CallsOK, InCall, Running, Thread
<1>3. GuardOK'
  BY ThreadAssumption DEF IInv, TypeOK, GuardOK, Running, Thread
<1>4. Sorted'
  BY DEF IInv, Sorted
<1>5. HandlesOK'
  BY ThreadAssumption DEF IInv, TypeOK, CallsOK, InCall, HandlesOK, Thread
<1>6. ActionsOK'
  <2>1. slot[t] \in Slot /\ (t \in Incrementer => slot[t] = action_storage[1].slot)
    BY Elements, ThreadAssumption DEF IInv, TypeOK, CallsOK, InCall, GuardOK, Running, Thread
  <2>2. \A u \in Thread : u # t => pc'[u] = pc[u]
    BY DEF IInv, TypeOK
  <2> SUFFICES ASSUME NEW s \in Slot, status'[s] = "Waiting"
               PROVE  HasAction(s)'
    BY DEF ActionsOK
  <2> USE DEF HasAction, Storing
  <2>3. s # slot[t] /\ status[s] = "Waiting"
    BY <2>1 DEF IInv, TypeOK
  <2>4. CASE \E i \in DOMAIN action_storage : action_storage[i].slot = s /\ Ahead(i)
    <3>1. PICK i \in DOMAIN action_storage : action_storage[i].slot = s /\ Ahead(i)
      BY <2>4
    <3>2. Ahead(i)'
      BY <2>1, <2>2, <2>3, <3>1 DEF Ahead, Thread
    <3> QED BY <3>1, <3>2
  <2>5. CASE \E u \in Thread : slot[u] = s /\ pc[u] \in Storing
    BY <2>2, <2>3, <2>5
  <2> QED BY <2>3, <2>4, <2>5 DEF IInv, ActionsOK
<1>7. NothingOverdue'
  <2>1. DueKept
    BY DEF IInv, TypeOK, DueKept, Thread
  <2> HIDE DEF ActionExchange
  <2> QED BY <2>1, DueKeptFacts
<1> QED BY <1>1, <1>2, <1>3, <1>4, <1>5, <1>6, <1>7 DEF IInv

\* An action signals its event.
LEMMA ActionSignalStep ==
    ASSUME IInv, NEW t \in Thread,
           ActionSignal(t)
    PROVE  IInv'
<1> USE DEF ActionSignal, Move, managerVars, eventVars, counterVars
<1>1. TypeOK'
  BY DEF IInv, TypeOK, Running, Status
<1>2. CallsOK'
  BY ThreadAssumption DEF IInv, TypeOK, CallsOK, InCall, Running, Thread
<1>3. GuardOK'
  BY ThreadAssumption DEF IInv, TypeOK, GuardOK, Running, Thread
<1>4. Sorted'
  BY DEF IInv, Sorted
<1>5. HandlesOK'
  BY ThreadAssumption DEF IInv, TypeOK, CallsOK, InCall, HandlesOK, Thread
<1>6. ActionsOK'
  <2>1. WaitsKept
    BY DEF IInv, TypeOK, WaitsKept, Exchanged, Storing, Thread
  <2> HIDE DEF ActionSignal
  <2> QED BY <2>1, WaitsKeptFacts
<1>7. NothingOverdue'
  <2>1. DueKept
    BY DEF IInv, TypeOK, DueKept, Thread
  <2> HIDE DEF ActionSignal
  <2> QED BY <2>1, DueKeptFacts
<1> QED BY <1>1, <1>2, <1>3, <1>4, <1>5, <1>6, <1>7 DEF IInv

\* An action leaves its event signalled.
LEMMA ActionStoreStep ==
    ASSUME IInv, NEW t \in Thread,
           ActionStore(t)
    PROVE  IInv'
<1> USE DEF ActionStore, Move, managerVars, eventVars, counterVars
<1>1. TypeOK'
  <2>1. status' \in [Slot -> Status]
    BY DEF IInv, TypeOK, Status
  <2> QED BY <2>1 DEF IInv, TypeOK, Running
<1>2. CallsOK'
  BY ThreadAssumption DEF IInv, TypeOK, CallsOK, InCall, Running, Thread
<1>3. GuardOK'
  BY ThreadAssumption DEF IInv, TypeOK, GuardOK, Running, Thread
<1>4. Sorted'
  BY DEF IInv, Sorted
<1>5. HandlesOK'
  BY ThreadAssumption DEF IInv, TypeOK, CallsOK, InCall, HandlesOK, Thread
<1>6. ActionsOK'
  <2>1. WaitsKept
    BY DEF IInv, TypeOK, WaitsKept, Exchanged, Storing, Thread
  <2> HIDE DEF ActionStore
  <2> QED BY <2>1, WaitsKeptFacts
<1>7. NothingOverdue'
  <2>1. DueKept
    BY DEF IInv, TypeOK, DueKept, Thread
  <2> HIDE DEF ActionStore
  <2> QED BY <2>1, DueKeptFacts
<1> QED BY <1>1, <1>2, <1>3, <1>4, <1>5, <1>6, <1>7 DEF IInv

\* The guest submits work.
LEMMA SubmitStep ==
    ASSUME IInv,
           Submit
    PROVE  IInv'
<1> USE DEF Submit, Move, managerVars, eventVars, counterVars
<1>1. TypeOK'
  BY DEF IInv, TypeOK, Running, Status
<1>2. CallsOK'
  BY ThreadAssumption DEF IInv, TypeOK, CallsOK, InCall, Running, Thread
<1>3. GuardOK'
  BY ThreadAssumption DEF IInv, TypeOK, GuardOK, Running, Thread
<1>4. Sorted'
  BY DEF IInv, Sorted
<1>5. HandlesOK'
  BY ThreadAssumption DEF IInv, TypeOK, CallsOK, InCall, HandlesOK, Thread
<1>6. ActionsOK'
  <2>1. WaitsKept
    BY DEF IInv, TypeOK, WaitsKept, Exchanged, Storing, Thread
  <2> HIDE DEF Submit
  <2> QED BY <2>1, WaitsKeptFacts
<1>7. NothingOverdue'
  <2>1. DueKept
    BY DEF IInv, TypeOK, DueKept, Thread
  <2> HIDE DEF Submit
  <2> QED BY <2>1, DueKeptFacts
<1> QED BY <1>1, <1>2, <1>3, <1>4, <1>5, <1>6, <1>7 DEF IInv

\* A wait that is over before it begins.
LEMMA EventWaitSignalledStep ==
    ASSUME IInv, NEW c \in Client, NEW v \in Nat,
           EventWaitSignalled(c, v)
    PROVE  IInv'
<1> USE DEF EventWaitSignalled, Move, managerVars, eventVars, counterVars
<1>1. c \in Thread /\ c \notin Incrementer
  BY ThreadAssumption DEF Thread
<1>2. TypeOK'
  BY <1>1 DEF IInv, TypeOK, Running, Status
<1>3. CallsOK'
  BY <1>1, ThreadAssumption DEF IInv, TypeOK, CallsOK, InCall, Running, Thread
<1>4. GuardOK'
  BY <1>1, ThreadAssumption DEF IInv, TypeOK, GuardOK, Running, Thread
<1>5. Sorted'
  BY <1>1 DEF IInv, Sorted
<1>6. HandlesOK'
  BY <1>1, ThreadAssumption DEF IInv, TypeOK, CallsOK, InCall, HandlesOK, Thread
<1>7. ActionsOK'
  <2>1. WaitsKept
    BY <1>1 DEF IInv, TypeOK, WaitsKept, Exchanged, Storing, Thread
  <2> HIDE DEF EventWaitSignalled
  <2> QED BY <2>1, WaitsKeptFacts
<1>8. NothingOverdue'
  <2>1. DueKept
    BY <1>1 DEF IInv, TypeOK, DueKept, Thread
  <2> HIDE DEF EventWaitSignalled
  <2> QED BY <2>1, DueKeptFacts
<1> QED BY <1>2, <1>3, <1>4, <1>5, <1>6, <1>7, <1>8 DEF IInv

\* A wait begins.
LEMMA EventWaitStep ==
    ASSUME IInv, NEW c \in Client, NEW s \in Slot \cup {None}, NEW v \in Nat,
           EventWait(c, s, v)
    PROVE  IInv'
<1> USE DEF EventWait, Move, managerVars, eventVars, counterVars
<1>1. c \in Thread /\ c \notin Incrementer
  BY ThreadAssumption DEF Thread
<1>2. TypeOK'
  BY <1>1 DEF IInv, TypeOK, Running, Status
<1>3. CallsOK'
  BY <1>1, ThreadAssumption DEF IInv, TypeOK, CallsOK, InCall, Running, Thread
<1>4. GuardOK'
  BY <1>1, ThreadAssumption DEF IInv, TypeOK, GuardOK, Running, Thread
<1>5. Sorted'
  BY <1>1 DEF IInv, Sorted
<1>6. HandlesOK'
  BY <1>1, ThreadAssumption DEF IInv, TypeOK, CallsOK, InCall, HandlesOK, Thread
<1>7. ActionsOK'
  <2>1. WaitsKept
    BY <1>1 DEF IInv, TypeOK, WaitsKept, Exchanged, Storing, Thread
  <2> HIDE DEF EventWait
  <2> QED BY <2>1, WaitsKeptFacts
<1>8. NothingOverdue'
  <2>1. DueKept
    BY <1>1 DEF IInv, TypeOK, DueKept, Thread
  <2> HIDE DEF EventWait
  <2> QED BY <2>1, DueKeptFacts
<1> QED BY <1>2, <1>3, <1>4, <1>5, <1>6, <1>7, <1>8 DEF IInv

\* A wait finds its event.
LEMMA EventWaitLockStep ==
    ASSUME IInv, NEW c \in Client,
           EventWaitLock(c)
    PROVE  IInv'
<1> USE DEF EventWaitLock, Move, managerVars, eventVars, counterVars
<1>1. c \in Thread /\ c \notin Incrementer
  BY ThreadAssumption DEF Thread
<1>2. /\ slot' \in [Thread -> Slot \cup {None}] /\ slot'[c] \in Slot
      /\ \A u \in Thread : u # c => slot'[u] = slot[u]
  BY <1>1, FindFreeType DEF IInv, TypeOK
<1>3. \/ status' = status
      \/ \E s \in Slot : status' = [status EXCEPT ![s] = "Available"]
  BY FindFreeType DEF CreateNvEvent
<1>4. /\ status' \in [Slot -> Status]
      /\ \A u \in Slot : status'[u] \in {status[u], "Available"}
  BY <1>3 DEF IInv, TypeOK, Status
<1>5. wait_handle' = wait_handle
  OBVIOUS
<1>6. /\ pc[c] = "event_wait" /\ pc' = [pc EXCEPT ![c] = "event_check"]
      /\ events_mutex = None /\ events_mutex' = c
      /\ value' = value /\ UNCHANGED managerVars
  OBVIOUS
<1>7. TypeOK'
  <2> HIDE DEF EventWaitLock
  <2> QED BY <1>1, <1>2, <1>4, <1>5, <1>6 DEF IInv, TypeOK, Running
<1>8. CallsOK'
  <2> HIDE DEF EventWaitLock
  <2> QED BY <1>1, <1>2, <1>6, ThreadAssumption DEF IInv, TypeOK, CallsOK, InCall, Thread
<1>9. GuardOK'
  <2> HIDE DEF EventWaitLock
  <2> QED BY <1>1, <1>2, <1>6 DEF IInv, TypeOK, GuardOK, Running, Thread
<1>10. Sorted'
  BY <1>1 DEF IInv, Sorted
<1>11. HandlesOK'
  <2> HIDE DEF EventWaitLock
  <2> QED BY <1>1, <1>2, <1>4, <1>5, <1>6, ThreadAssumption
         DEF IInv, TypeOK, CallsOK, InCall, HandlesOK, Thread
<1>12. ActionsOK'
  <2> HIDE DEF EventWaitLock
  <2>1. /\ action_storage' = action_storage
        /\ \A u \in Slot : status'[u] = "Waiting" => status[u] = "Waiting"
    BY <1>4, <1>6
  <2>2. \A u \in Incrementer : pc'[u] \in Exchanged => pc[u] \in Exchanged
    BY <1>1, <1>6 DEF IInv, TypeOK, Exchanged, Thread
  <2>3. \A u \in Thread : pc[u] \in Storing => pc'[u] \in Storing /\ slot'[u] = slot[u]
    BY <1>1, <1>2, <1>6 DEF IInv, TypeOK, Storing
  <2> QED BY <2>1, <2>2, <2>3, WaitsKeptFacts DEF WaitsKept
<1>13. NothingOverdue'
  <2>1. DueKept
    BY <1>1 DEF IInv, TypeOK, DueKept, Thread
  <2> HIDE DEF EventWaitLock
  <2> QED BY <2>1, DueKeptFacts
<1> QED BY <1>7, <1>8, <1>9, <1>10, <1>11, <1>12, <1>13 DEF IInv

\* A wait returns without an event.
LEMMA EventWaitReturnStep ==
    ASSUME IInv, NEW c \in Client,
           EventWaitReturn(c)
    PROVE  IInv'
<1> USE DEF EventWaitReturn, Return, Move, managerVars, eventVars, counterVars
<1>1. c \in Thread /\ c \notin Incrementer
  BY ThreadAssumption DEF Thread
<1>2. TypeOK'
  BY <1>1 DEF IInv, TypeOK, Running, Status
<1>3. CallsOK'
  BY <1>1, ThreadAssumption DEF IInv, TypeOK, CallsOK, InCall, Running, Thread
<1>4. GuardOK'
  BY <1>1, ThreadAssumption DEF IInv, TypeOK, GuardOK, Running, Thread
<1>5. Sorted'
  BY <1>1 DEF IInv, Sorted
<1>6. HandlesOK'
  BY <1>1, ThreadAssumption DEF IInv, TypeOK, CallsOK, InCall, HandlesOK, Thread
<1>7. ActionsOK'
  <2>1. WaitsKept
    BY <1>1 DEF IInv, TypeOK, WaitsKept, Exchanged, Storing, Thread
  <2> HIDE DEF EventWaitReturn, Return
  <2> QED BY <2>1, WaitsKeptFacts
<1>8. NothingOverdue'
  <2>1. DueKept
    BY <1>1 DEF IInv, TypeOK, DueKept, Thread
  <2> HIDE DEF EventWaitReturn, Return
  <2> QED BY <2>1, DueKeptFacts
<1> QED BY <1>2, <1>3, <1>4, <1>5, <1>6, <1>7, <1>8 DEF IInv

\* A wait stalls the application.
LEMMA EventWaitStallStep ==
    ASSUME IInv, NEW c \in Client,
           EventWaitStall(c)
    PROVE  IInv'
<1> USE DEF EventWaitStall, Move, managerVars, eventVars, counterVars
<1>1. c \in Thread /\ c \notin Incrementer
  BY ThreadAssumption DEF Thread
<1>2. TypeOK'
  BY <1>1 DEF IInv, TypeOK, Running, Status
<1>3. CallsOK'
  BY <1>1, ThreadAssumption DEF IInv, TypeOK, CallsOK, InCall, Running, Thread
<1>4. GuardOK'
  BY <1>1, ThreadAssumption DEF IInv, TypeOK, GuardOK, Running, Thread
<1>5. Sorted'
  BY <1>1 DEF IInv, Sorted
<1>6. HandlesOK'
  BY <1>1, ThreadAssumption DEF IInv, TypeOK, CallsOK, InCall, HandlesOK, Thread
<1>7. ActionsOK'
  <2>1. WaitsKept
    BY <1>1 DEF IInv, TypeOK, WaitsKept, Exchanged, Storing, Thread
  <2> HIDE DEF EventWaitStall
  <2> QED BY <2>1, WaitsKeptFacts
<1>8. NothingOverdue'
  <2>1. DueKept
    BY <1>1 DEF IInv, TypeOK, DueKept, Thread
  <2> HIDE DEF EventWaitStall
  <2> QED BY <2>1, DueKeptFacts
<1> QED BY <1>2, <1>3, <1>4, <1>5, <1>6, <1>7, <1>8 DEF IInv

\* The stall is over.
LEMMA EventWaitStalledStep ==
    ASSUME IInv, NEW c \in Client,
           EventWaitStalled(c)
    PROVE  IInv'
<1> USE DEF EventWaitStalled, Return, Move, managerVars, eventVars, counterVars
<1>1. c \in Thread /\ c \notin Incrementer
  BY ThreadAssumption DEF Thread
<1>2. TypeOK'
  BY <1>1 DEF IInv, TypeOK, Running, Status
<1>3. CallsOK'
  BY <1>1, ThreadAssumption DEF IInv, TypeOK, CallsOK, InCall, Running, Thread
<1>4. GuardOK'
  BY <1>1, ThreadAssumption DEF IInv, TypeOK, GuardOK, Running, Thread
<1>5. Sorted'
  BY <1>1 DEF IInv, Sorted
<1>6. HandlesOK'
  BY <1>1, ThreadAssumption DEF IInv, TypeOK, CallsOK, InCall, HandlesOK, Thread
<1>7. ActionsOK'
  <2>1. WaitsKept
    BY <1>1 DEF IInv, TypeOK, WaitsKept, Exchanged, Storing, Thread
  <2> HIDE DEF EventWaitStalled, Return
  <2> QED BY <2>1, WaitsKeptFacts
<1>8. NothingOverdue'
  <2>1. DueKept
    BY <1>1 DEF IInv, TypeOK, DueKept, Thread
  <2> HIDE DEF EventWaitStalled, Return
  <2> QED BY <2>1, DueKeptFacts
<1> QED BY <1>2, <1>3, <1>4, <1>5, <1>6, <1>7, <1>8 DEF IInv

\* The event is free to be waited with.
LEMMA EventWaitCheckStep ==
    ASSUME IInv, NEW c \in Client,
           EventWaitCheck(c)
    PROVE  IInv'
<1> USE DEF EventWaitCheck, Move, managerVars, eventVars, counterVars
<1>1. c \in Thread /\ c \notin Incrementer
  BY ThreadAssumption DEF Thread
<1>2. TypeOK'
  BY <1>1 DEF IInv, TypeOK, Running, Status
<1>3. CallsOK'
  BY <1>1, ThreadAssumption DEF IInv, TypeOK, CallsOK, InCall, Running, Thread
<1>4. GuardOK'
  BY <1>1, ThreadAssumption DEF IInv, TypeOK, GuardOK, Running, Thread
<1>5. Sorted'
  BY <1>1 DEF IInv, Sorted
<1>6. HandlesOK'
  BY <1>1, ThreadAssumption DEF IInv, TypeOK, CallsOK, InCall, HandlesOK, Thread
<1>7. ActionsOK'
  <2>1. WaitsKept
    BY <1>1 DEF IInv, TypeOK, WaitsKept, Exchanged, Storing, Thread
  <2> HIDE DEF EventWaitCheck
  <2> QED BY <2>1, WaitsKeptFacts
<1>8. NothingOverdue'
  <2>1. DueKept
    BY <1>1 DEF IInv, TypeOK, DueKept, Thread
  <2> HIDE DEF EventWaitCheck
  <2> QED BY <2>1, DueKeptFacts
<1> QED BY <1>2, <1>3, <1>4, <1>5, <1>6, <1>7, <1>8 DEF IInv

\* The event waits, its action is registered next.
LEMMA EventWaitRegisterStep ==
    ASSUME IInv, NEW c \in Client,
           EventWaitRegister(c)
    PROVE  IInv'
<1> USE DEF EventWaitRegister, Move, managerVars, eventVars, counterVars
<1>1. c \in Thread /\ c \notin Incrementer
  BY ThreadAssumption DEF Thread
<1>2. /\ status' \in [Slot -> Status]
      /\ \A u \in Slot : u # slot[c] => status'[u] = status[u]
  BY DEF IInv, TypeOK, Status
<1>3. \A d \in Client : InCall(d) => d = c
  BY <1>1 DEF IInv, CallsOK, InCall
<1>4. TypeOK'
  BY <1>1, <1>2 DEF IInv, TypeOK, Running
<1>5. CallsOK'
  BY <1>1, ThreadAssumption DEF IInv, TypeOK, CallsOK, InCall, Running, Thread
<1>6. GuardOK'
  BY <1>1, ThreadAssumption DEF IInv, TypeOK, GuardOK, Running, Thread
<1>7. Sorted'
  BY <1>1 DEF IInv, Sorted
<1>8. HandlesOK'
  <2>1. \A d \in Client : pc'[d] # "deregister"
    BY <1>1, <1>3 DEF IInv, TypeOK, InCall, Thread
  <2> QED BY <2>1 DEF IInv, HandlesOK
<1>9. ActionsOK'
  <2> SUFFICES ASSUME NEW s \in Slot, status'[s] = "Waiting"
               PROVE  HasAction(s)'
    BY DEF ActionsOK
  <2> USE DEF HasAction, Storing
  <2>1. CASE s = slot[c]
    BY <2>1, <1>1 DEF IInv, TypeOK
  <2>2. CASE s # slot[c]
    <3>1. status[s] = "Waiting"
      BY <2>2, <1>2
    <3>2. \A u \in Thread : u # c => pc'[u] = pc[u] /\ slot'[u] = slot[u]
      BY <1>1 DEF IInv, TypeOK
    <3>3. \A i : Ahead(i) => Ahead(i)'
      BY <1>1, <3>2 DEF Ahead, Thread
    <3> QED BY <2>2, <3>1, <3>2, <3>3 DEF IInv, ActionsOK
  <2> QED BY <2>1, <2>2
<1>10. NothingOverdue'
  <2>1. DueKept
    BY <1>1 DEF IInv, TypeOK, DueKept, Thread
  <2> HIDE DEF EventWaitRegister
  <2> QED BY <2>1, DueKeptFacts
<1> QED BY <1>4, <1>5, <1>6, <1>7, <1>8, <1>9, <1>10 DEF IInv

\* The handle of the action is stored.
LEMMA EventWaitRegisteredStep ==
    ASSUME IInv, NEW c \in Client,
           EventWaitRegistered(c)
    PROVE  IInv'
<1> USE DEF EventWaitRegistered, Return, Move, managerVars, eventVars, counterVars
<1>1. c \in Thread /\ c \notin Incrementer
  BY ThreadAssumption DEF Thread
<1>2. ActionOf(c) \in Action /\ ActionOf(c).slot = slot[c] /\ slot[c] \in Slot

  <2>1. slot[c] \in Slot /\ value[c] \in Nat
    BY <1>1 DEF IInv, TypeOK, CallsOK, InCall
  <2> QED BY <2>1 DEF ActionOf, Action
<1>3. /\ wait_handle' \in [Slot -> Action \cup {None}]
      /\ wait_handle'[slot[c]] \in {ActionOf(c), None}
      /\ \A u \in Slot : u # slot[c] => wait_handle'[u] = wait_handle[u]
  BY <1>2 DEF IInv, TypeOK
<1>4. TypeOK'
  BY <1>1, <1>3 DEF IInv, TypeOK, Running
<1>5. CallsOK'
  BY <1>1, ThreadAssumption DEF IInv, TypeOK, CallsOK, InCall, Running, Thread
<1>6. GuardOK'
  BY <1>1, ThreadAssumption DEF IInv, TypeOK, GuardOK, Running, Thread
<1>7. Sorted'
  BY <1>1 DEF IInv, Sorted
<1>8. HandlesOK'
  <2>1. \A u \in Slot : wait_handle'[u] # None => wait_handle'[u].slot = u
    BY <1>2, <1>3 DEF IInv, HandlesOK
  <2>2. \A d \in Client : pc'[d] = "deregister" => pc[d] = "deregister" /\ slot'[d] = slot[d]
    BY <1>1 DEF IInv, TypeOK, Thread
  <2> QED BY <2>1, <2>2 DEF IInv, HandlesOK
<1>9. ActionsOK'
  <2>1. WaitsKept
    BY <1>1 DEF IInv, TypeOK, WaitsKept, Exchanged, Storing, Thread
  <2> HIDE DEF EventWaitRegistered, Return
  <2> QED BY <2>1, WaitsKeptFacts
<1>10. NothingOverdue'
  <2>1. DueKept
    BY <1>1 DEF IInv, TypeOK, DueKept, Thread
  <2> HIDE DEF EventWaitRegistered, Return
  <2> QED BY <2>1, DueKeptFacts
<1> QED BY <1>4, <1>5, <1>6, <1>7, <1>8, <1>9, <1>10 DEF IInv

\* A wait is to be cancelled.
LEMMA ClearBeginStep ==
    ASSUME IInv, NEW c \in Client, NEW s \in Slot,
           ClearBegin(c, s)
    PROVE  IInv'
<1> USE DEF ClearBegin, Move, managerVars, eventVars, counterVars
<1>1. c \in Thread /\ c \notin Incrementer
  BY ThreadAssumption DEF Thread
<1>2. TypeOK'
  BY <1>1 DEF IInv, TypeOK, Running, Status
<1>3. CallsOK'
  BY <1>1, ThreadAssumption DEF IInv, TypeOK, CallsOK, InCall, Running, Thread
<1>4. GuardOK'
  BY <1>1, ThreadAssumption DEF IInv, TypeOK, GuardOK, Running, Thread
<1>5. Sorted'
  BY <1>1 DEF IInv, Sorted
<1>6. HandlesOK'
  BY <1>1, ThreadAssumption DEF IInv, TypeOK, CallsOK, InCall, HandlesOK, Thread
<1>7. ActionsOK'
  <2>1. WaitsKept
    BY <1>1 DEF IInv, TypeOK, WaitsKept, Exchanged, Storing, Thread
  <2> HIDE DEF ClearBegin
  <2> QED BY <2>1, WaitsKeptFacts
<1>8. NothingOverdue'
  <2>1. DueKept
    BY <1>1 DEF IInv, TypeOK, DueKept, Thread
  <2> HIDE DEF ClearBegin
  <2> QED BY <2>1, DueKeptFacts
<1> QED BY <1>2, <1>3, <1>4, <1>5, <1>6, <1>7, <1>8 DEF IInv

\* The action of a cancelled wait is taken off the list.
LEMMA DeregisterActionStep ==
    ASSUME IInv, NEW c \in Client,
           DeregisterAction(c)
    PROVE  IInv'
<1> USE DEF DeregisterAction, Move, managerVars, eventVars, counterVars
<1>1. c \in Thread /\ c \notin Incrementer
  BY ThreadAssumption DEF Thread
<1>2. \A u \in Incrementer : pc[u] \notin Running \cup {"increment_loop"}
  BY ThreadAssumption DEF IInv, GuardOK, Thread
<1>3. /\ slot[c] \in Slot /\ status[slot[c]] # "Waiting"
      /\ wait_handle[slot[c]] # None => wait_handle[slot[c]].slot = slot[c]
  BY <1>1 DEF IInv, CallsOK, InCall, HandlesOK
<1>4. action_storage' = Deregistered(wait_handle[slot[c]]) /\ action_storage' \in Seq(Action)
  BY DeregisteredFacts DEF IInv
<1>5. \/ action_storage' = action_storage
      \/ \E k \in 1 .. Len(action_storage) :
            action_storage[k] = wait_handle[slot[c]] /\ Removed(action_storage, action_storage', k)
  BY <1>4, DeregisteredFacts DEF IInv
<1>6. /\ \A i \in DOMAIN action_storage' :
            \E j \in DOMAIN action_storage : action_storage'[i] = action_storage[j]
      /\ \A i \in DOMAIN action_storage : action_storage[i].slot # slot[c] =>
            \E j \in DOMAIN action_storage' : action_storage'[j] = action_storage[i]
      /\ Sorted' 

  <2>1. CASE action_storage' = action_storage
    BY <2>1 DEF IInv, Sorted
  <2>2. CASE action_storage' # action_storage
    <3> HIDE DEF DeregisterAction
    <3> DEFINE n == Len(action_storage)
    <3>1. PICK k \in 1 .. n : /\ action_storage[k] = wait_handle[slot[c]]
                              /\ Removed(action_storage, action_storage', k)
      BY <2>2, <1>5
    <3>2. action_storage[k].slot = slot[c]
      <4>1. action_storage[k] \in Action
        BY <3>1, Elements DEF IInv, TypeOK
      <4> QED BY <3>1, <4>1, <1>3, SlotAssumption DEF Action
    <3>3. n \in Nat /\ n >= 1 /\ DOMAIN action_storage = 1 .. n /\ DOMAIN action_storage' = 1 .. n - 1
      BY <3>1, <1>4 DEF IInv, TypeOK, Removed
    <3>4. \A i \in 1 .. n - 1 :
                action_storage'[i] = IF i < k THEN action_storage[i] ELSE action_storage[i + 1]
      BY <3>1, <3>3, <1>4 DEF Removed
    <3> HIDE DEF n
    <3>5. \A i \in DOMAIN action_storage' :
                \E j \in DOMAIN action_storage : action_storage'[i] = action_storage[j]
      BY <3>3, <3>4
    <3>6. ASSUME NEW i \in DOMAIN action_storage, action_storage[i].slot # slot[c]
          PROVE  \E j \in DOMAIN action_storage' : action_storage'[j] = action_storage[i]
      <4>1. CASE i < k
        BY <3>3, <3>4, <4>1
      <4>2. CASE i > k
        <5>1. i - 1 \in 1 .. n - 1 /\ ~ (i - 1 < k) /\ (i - 1) + 1 = i
          BY <3>3, <4>2
        <5> QED BY <3>3, <3>4, <5>1
      <4> QED BY <3>2, <3>3, <3>6, <4>1, <4>2
    <3>7. Sorted'
      <4> SUFFICES ASSUME NEW i \in 1 .. n - 1, NEW j \in 1 .. n - 1, i < j
                   PROVE  action_storage'[i].expected_value <= action_storage'[j].expected_value
        BY <3>3 DEF Sorted
      <4>1. PICK p \in {i, i + 1} : action_storage'[i] = action_storage[p] /\ (p = i + 1 => i >= k)
        BY <3>3, <3>4
      <4>2. PICK q \in {j, j + 1} : action_storage'[j] = action_storage[q] /\ (q = j => j < k)
        BY <3>3, <3>4
      <4>3. p \in DOMAIN action_storage /\ q \in DOMAIN action_storage /\ p < q
        BY <3>3, <4>1, <4>2
      <4> QED BY <4>1, <4>2, <4>3 DEF IInv, Sorted
    <3> QED BY <3>5, <3>6, <3>7
  <2> QED BY <2>1, <2>2
<1>7. TypeOK'
  <2>1. wait_handle' \in [Slot -> Action \cup {None}]
    BY DEF IInv, TypeOK
  <2> QED BY <1>1, <1>4, <2>1 DEF IInv, TypeOK, Running
<1>8. CallsOK'
  BY <1>1, ThreadAssumption DEF IInv, TypeOK, CallsOK, InCall, Running, Thread
<1>9. GuardOK'
  BY <1>2, <1>1 DEF IInv, TypeOK, GuardOK, Thread, Running
<1>10. Sorted'
  BY <1>6
<1>11. HandlesOK'
  BY <1>1, ThreadAssumption DEF IInv, TypeOK, CallsOK, InCall, HandlesOK, Thread
<1>12. ActionsOK'
  <2> SUFFICES ASSUME NEW s \in Slot, status'[s] = "Waiting"
               PROVE  HasAction(s)'
    BY DEF ActionsOK
  <2> USE DEF HasAction, Storing
  <2>1. s # slot[c] /\ status[s] = "Waiting"
    BY <1>3
  <2>2. \A i : Ahead(i)'
    BY <1>2, <1>1 DEF IInv, TypeOK, Ahead, Exchanged, Running, Thread
  <2>3. CASE \E i \in DOMAIN action_storage : action_storage[i].slot = s
    <3>1. PICK i \in DOMAIN action_storage : action_storage[i].slot = s
      BY <2>3
    <3>2. \E j \in DOMAIN action_storage' : action_storage'[j] = action_storage[i]
      BY <2>1, <3>1, <1>6
    <3> QED BY <2>2, <3>1, <3>2
  <2>4. CASE \E u \in Thread : slot[u] = s /\ pc[u] \in Storing
    BY <2>4, <1>1 DEF IInv, TypeOK
  <2> QED BY <2>1, <2>3, <2>4 DEF IInv, ActionsOK
<1>13. NothingOverdue'
  <2>1. \A u \in Incrementer : pc[u] # "idle" => pc'[u] # "idle" /\ value'[u] = value[u]
    BY <1>1 DEF IInv, TypeOK, Thread
  <2>2. \A u \in Client : pc'[u] = "cv_wait" => pc[u] = "cv_wait" /\ value'[u] = value[u]
    BY <1>1 DEF IInv, TypeOK, Thread
  <2>3. syncpoint' = syncpoint
    OBVIOUS
  <2> HIDE DEF DeregisterAction
  <2> QED BY <2>1, <2>2, <2>3, <1>6, DueKeptFacts DEF DueKept
<1> QED BY <1>7, <1>8, <1>9, <1>10, <1>11, <1>12, <1>13 DEF IInv

\* The wait is cancelled.
LEMMA ClearStoreStep ==
    ASSUME IInv, NEW c \in Client,
           ClearStore(c)
    PROVE  IInv'
<1> USE DEF ClearStore, Return, Move, managerVars, eventVars, counterVars
<1>1. c \in Thread /\ c \notin Incrementer
  BY ThreadAssumption DEF Thread
<1>2. TypeOK'
  <2>1. status' \in [Slot -> Status]
    BY DEF IInv, TypeOK, Status
  <2> QED BY <1>1, <2>1 DEF IInv, TypeOK, Running
<1>3. CallsOK'
  BY <1>1, ThreadAssumption DEF IInv, TypeOK, CallsOK, InCall, Running, Thread
<1>4. GuardOK'
  BY <1>1, ThreadAssumption DEF IInv, TypeOK, GuardOK, Running, Thread
<1>5. Sorted'
  BY <1>1 DEF IInv, Sorted
<1>6. HandlesOK'
  BY <1>1, ThreadAssumption DEF IInv, TypeOK, CallsOK, InCall, HandlesOK, Thread
<1>7. ActionsOK'
  <2>1. WaitsKept
    BY <1>1 DEF IInv, TypeOK, WaitsKept, Exchanged, Storing, Thread
  <2> HIDE DEF ClearStore, Return
  <2> QED BY <2>1, WaitsKeptFacts
<1>8. NothingOverdue'
  <2>1. DueKept
    BY <1>1 DEF IInv, TypeOK, DueKept, Thread
  <2> HIDE DEF ClearStore, Return
  <2> QED BY <2>1, DueKeptFacts
<1> QED BY <1>2, <1>3, <1>4, <1>5, <1>6, <1>7, <1>8 DEF IInv

\* An event is registered.
LEMMA EventRegisterStep ==
    ASSUME IInv, NEW c \in Client, NEW s \in Slot,
           EventRegister(c, s)
    PROVE  IInv'
<1> USE DEF EventRegister, CreateNvEvent, Move, managerVars, eventVars, counterVars
<1>1. c \in Thread /\ c \notin Incrementer
  BY ThreadAssumption DEF Thread
<1>2. TypeOK'
  BY <1>1 DEF IInv, TypeOK, Running, Status
<1>3. CallsOK'
  BY <1>1, ThreadAssumption DEF IInv, TypeOK, CallsOK, InCall, Running, Thread
<1>4. GuardOK'
  BY <1>1, ThreadAssumption DEF IInv, TypeOK, GuardOK, Running, Thread
<1>5. Sorted'
  BY <1>1 DEF IInv, Sorted
<1>6. HandlesOK'
  BY <1>1, ThreadAssumption DEF IInv, TypeOK, CallsOK, InCall, HandlesOK, Thread
<1>7. ActionsOK'
  <2>1. WaitsKept
    BY <1>1 DEF IInv, TypeOK, WaitsKept, Exchanged, Storing, Thread
  <2> HIDE DEF EventRegister, CreateNvEvent
  <2> QED BY <2>1, WaitsKeptFacts
<1>8. NothingOverdue'
  <2>1. DueKept
    BY <1>1 DEF IInv, TypeOK, DueKept, Thread
  <2> HIDE DEF EventRegister, CreateNvEvent
  <2> QED BY <2>1, DueKeptFacts
<1> QED BY <1>2, <1>3, <1>4, <1>5, <1>6, <1>7, <1>8 DEF IInv

\* A call finds an event it may free.
LEMMA FreeEventStep ==
    ASSUME IInv, NEW c \in Client, NEW s \in Slot, NEW next \in {"free", "create"},
           FreeEvent(c, s, next)
    PROVE  IInv'
<1> USE DEF FreeEvent, Move, managerVars, eventVars, counterVars
<1>1. c \in Thread /\ c \notin Incrementer
  BY ThreadAssumption DEF Thread
<1>2. TypeOK'
  BY <1>1 DEF IInv, TypeOK, Running, Status
<1>3. CallsOK'
  BY <1>1, ThreadAssumption DEF IInv, TypeOK, CallsOK, InCall, Running, Thread
<1>4. GuardOK'
  BY <1>1, ThreadAssumption DEF IInv, TypeOK, GuardOK, Running, Thread
<1>5. Sorted'
  BY <1>1 DEF IInv, Sorted
<1>6. HandlesOK'
  BY <1>1, ThreadAssumption DEF IInv, TypeOK, CallsOK, InCall, HandlesOK, Thread
<1>7. ActionsOK'
  <2>1. WaitsKept
    BY <1>1 DEF IInv, TypeOK, WaitsKept, Exchanged, Storing, Thread
  <2> HIDE DEF FreeEvent
  <2> QED BY <2>1, WaitsKeptFacts
<1>8. NothingOverdue'
  <2>1. DueKept
    BY <1>1 DEF IInv, TypeOK, DueKept, Thread
  <2> HIDE DEF FreeEvent
  <2> QED BY <2>1, DueKeptFacts
<1> QED BY <1>2, <1>3, <1>4, <1>5, <1>6, <1>7, <1>8 DEF IInv

\* The event is unregistered.
LEMMA EventUnregisterStep ==
    ASSUME IInv, NEW c \in Client,
           EventUnregister(c)
    PROVE  IInv'
<1> USE DEF EventUnregister, FreeNvEvent, Return, Move, managerVars, eventVars, counterVars
<1>1. c \in Thread /\ c \notin Incrementer
  BY ThreadAssumption DEF Thread
<1>2. TypeOK'
  <2>1. status' \in [Slot -> Status]
    BY DEF IInv, TypeOK, Status
  <2> QED BY <1>1, <2>1 DEF IInv, TypeOK, Running
<1>3. CallsOK'
  BY <1>1, ThreadAssumption DEF IInv, TypeOK, CallsOK, InCall, Running, Thread
<1>4. GuardOK'
  BY <1>1, ThreadAssumption DEF IInv, TypeOK, GuardOK, Running, Thread
<1>5. Sorted'
  BY <1>1 DEF IInv, Sorted
<1>6. HandlesOK'
  BY <1>1, ThreadAssumption DEF IInv, TypeOK, CallsOK, InCall, HandlesOK, Thread
<1>7. ActionsOK'
  <2>1. WaitsKept
    BY <1>1 DEF IInv, TypeOK, WaitsKept, Exchanged, Storing, Thread
  <2> HIDE DEF EventUnregister, FreeNvEvent, Return
  <2> QED BY <2>1, WaitsKeptFacts
<1>8. NothingOverdue'
  <2>1. DueKept
    BY <1>1 DEF IInv, TypeOK, DueKept, Thread
  <2> HIDE DEF EventUnregister, FreeNvEvent, Return
  <2> QED BY <2>1, DueKeptFacts
<1> QED BY <1>2, <1>3, <1>4, <1>5, <1>6, <1>7, <1>8 DEF IInv

\* The event is made anew.
LEMMA EventRegisterAgainStep ==
    ASSUME IInv, NEW c \in Client,
           EventRegisterAgain(c)
    PROVE  IInv'
<1> USE DEF EventRegisterAgain, CreateNvEvent, Return, Move, managerVars, eventVars, counterVars
<1>1. c \in Thread /\ c \notin Incrementer
  BY ThreadAssumption DEF Thread
<1>2. TypeOK'
  <2>1. status' \in [Slot -> Status]
    BY DEF IInv, TypeOK, Status
  <2> QED BY <1>1, <2>1 DEF IInv, TypeOK, Running
<1>3. CallsOK'
  BY <1>1, ThreadAssumption DEF IInv, TypeOK, CallsOK, InCall, Running, Thread
<1>4. GuardOK'
  BY <1>1, ThreadAssumption DEF IInv, TypeOK, GuardOK, Running, Thread
<1>5. Sorted'
  BY <1>1 DEF IInv, Sorted
<1>6. HandlesOK'
  BY <1>1, ThreadAssumption DEF IInv, TypeOK, CallsOK, InCall, HandlesOK, Thread
<1>7. ActionsOK'
  <2>1. WaitsKept
    BY <1>1 DEF IInv, TypeOK, WaitsKept, Exchanged, Storing, Thread
  <2> HIDE DEF EventRegisterAgain, CreateNvEvent, Return
  <2> QED BY <2>1, WaitsKeptFacts
<1>8. NothingOverdue'
  <2>1. DueKept
    BY <1>1 DEF IInv, TypeOK, DueKept, Thread
  <2> HIDE DEF EventRegisterAgain, CreateNvEvent, Return
  <2> QED BY <2>1, DueKeptFacts
<1> QED BY <1>2, <1>3, <1>4, <1>5, <1>6, <1>7, <1>8 DEF IInv

-----------------------------------------------------------------------------
\* Nobody waits at first.
LEMMA InitIInv == Init => IInv
<1> SUFFICES ASSUME Init PROVE IInv
  OBVIOUS
<1> USE DEF Init, ManagerInit
<1>1. TypeOK
  BY DEF TypeOK, Running, Status, Thread
<1>2. CallsOK
  BY DEF CallsOK, InCall, Thread
<1>3. GuardOK
  BY DEF GuardOK, Running, Thread
<1>4. Sorted /\ HandlesOK /\ ActionsOK /\ NothingOverdue
  BY DEF Sorted, HandlesOK, ActionsOK, NothingOverdue, Thread
<1> QED BY <1>1, <1>2, <1>3, <1>4 DEF IInv

\* Every step keeps the invariant.
LEMMA NextIInv == ASSUME IInv, [Next]_vars PROVE IInv'
<1>1. ASSUME NEW t \in Thread, ActionStep(t) PROVE IInv'
  BY <1>1, ActionExchangeStep, ActionSignalStep, ActionStoreStep DEF ActionStep
<1>2. ASSUME NEW t \in Incrementer, IncrementerStep(t) PROVE IInv'
  <2>1. CASE ActionStep(t)
    BY <1>1, <2>1 DEF Thread
  <2>2. CASE Increment(t)
    BY <2>2, FetchAddStep DEF Increment
  <2>3. CASE IncrementStep(t) /\ UNCHANGED <<eventVars, events_mutex, counterVars>>
    BY <2>3, IncrementGuardStep, IncrementRunStep, IncrementEraseStep, IncrementEndStep
       DEF IncrementStep
  <2> QED BY <1>2, <2>1, <2>2, <2>3 DEF IncrementerStep
<1>3. ASSUME NEW c \in Client, IoctlStep(c) PROVE IInv'
  <2>1. CASE ActionStep(c)
    BY <1>1, <2>1 DEF Thread
  <2>2. CASE ClientStep(c) /\ UNCHANGED <<eventVars, events_mutex, counterVars>>
    BY <2>2, RegisterLoadStep, RegisterRunStep, RegisterStoreStep, RegisterRanStep, WaitLoadStep,
       WaitGuardStep DEF ClientStep
  <2>3. CASE EventWaitReturn(c) \/ EventWaitStall(c) \/ EventWaitStalled(c) \/ EventWaitCheck(c)
    BY <2>3, EventWaitReturnStep, EventWaitStallStep, EventWaitStalledStep, EventWaitCheckStep
  <2>4. CASE EventWaitRegister(c) \/ EventWaitRegistered(c) \/ DeregisterAction(c) \/ ClearStore(c)
    BY <2>4, EventWaitRegisterStep, EventWaitRegisteredStep, DeregisterActionStep, ClearStoreStep
  <2>5. CASE EventUnregister(c) \/ EventRegisterAgain(c)
    BY <2>5, EventUnregisterStep, EventRegisterAgainStep
  <2> QED BY <1>3, <2>1, <2>2, <2>3, <2>4, <2>5 DEF IoctlStep
<1>4. ASSUME NEW c \in Client, Ioctl(c) PROVE IInv'
  <2>1. ASSUME NEW v \in 1 .. MaxValue,
               EventWaitSignalled(c, v) \/ \E s \in Slot \cup {None} : EventWait(c, s, v)
        PROVE  IInv'
    <3>1. v \in Nat
      BY ModulusAssumption
    <3> QED BY <2>1, <3>1, EventWaitSignalledStep, EventWaitStep
  <2>2. CASE EventWaitLock(c)
    BY <2>2, EventWaitLockStep
  <2>3. ASSUME NEW s \in Slot, ClearBegin(c, s) \/ EventRegister(c, s) PROVE IInv'
    BY <2>3, ClearBeginStep, EventRegisterStep
  <2>4. ASSUME NEW s \in Slot, NEW next \in {"free", "create"}, FreeEvent(c, s, next) PROVE IInv'
    BY <2>4, FreeEventStep
  <2>5. CASE SpuriousWakeup(c) /\ UNCHANGED <<eventVars, events_mutex, counterVars>>
    BY <2>5, SpuriousWakeupStep
  <2> QED BY <1>4, <2>1, <2>2, <2>3, <2>4, <2>5 DEF Ioctl
<1>5. CASE Submit
  BY <1>5, SubmitStep
<1>6. CASE UNCHANGED vars
  <2> USE <1>6 DEF vars, managerVars, eventVars, counterVars
  <2>1. TypeOK' /\ CallsOK' /\ GuardOK' /\ Sorted' /\ HandlesOK'
    BY DEF IInv, TypeOK, CallsOK, InCall, GuardOK, Sorted, HandlesOK
  <2>2. ActionsOK' /\ NothingOverdue'
    BY DEF IInv, ActionsOK, HasAction, Ahead, NothingOverdue, Incrementing
  <2> QED BY <2>1, <2>2 DEF IInv
<1> QED BY <1>2, <1>3, <1>4, <1>5, <1>6 DEF Next

\* The invariant holds in every behaviour.
LEMMA Invariance == Spec => []IInv
<1>1. IInv /\ [Next]_vars => IInv'
  BY NextIInv
<1> QED BY <1>1, InitIInv, PTL DEF Spec

-----------------------------------------------------------------------------
\* SyncpointManager::Increment leaves no action behind whose value is reached,
\* and no thread asleep in Wait: whichever increments and registrations
\* overlap, an incrementer that has not finished with the list is still to
\* come.
THEOREM NothingOverdueHolds == Spec => []NothingOverdue
<1>1. IInv => NothingOverdue
  BY DEF IInv
<1> QED BY <1>1, Invariance, PTL

\* An event of nvhost_ctrl that waits has its action: the cancellation of
\* another wait, an increment that erases what it has run, and a guest that
\* clears and waits again while the old action still runs take no other
\* event's action away.
THEOREM WaitingHasActionHolds == Spec => []WaitingHasAction
<1>1. IInv => WaitingHasAction
  BY DEF IInv, ActionsOK, HasAction, Storing, WaitingHasAction
<1> QED BY <1>1, Invariance, PTL

\* host_action_storage stays sorted by expected_value: Increment may stop at
\* the first action that is not due.
THEOREM SortedHolds == Spec => []Sorted
<1>1. IInv => Sorted
  BY DEF IInv
<1> QED BY <1>1, Invariance, PTL
=============================================================================
