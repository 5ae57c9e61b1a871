--------------------------- MODULE KSessionProof ---------------------------
(***************************************************************************)
(* Proofs about KSession, for any sets of clients, events and server       *)
(* threads: requests are counted and freed exactly when nobody uses them,  *)
(* whoever ends a client's wait ends the wait for the right request, and   *)
(* no server thread sleeps through a signal.  The last part proves that    *)
(* KLightLock, the lock the sessions serialise their requests with, is a   *)
(* mutex.                                                                  *)
(***************************************************************************)
EXTENDS KSession, KLightLock, FiniteSetTheorems, TLAPS

(* The inductive invariant, part by part *)

ClientPc == {"idle", "sending", "request_wait", "returning", "client_closing", "client_lock",
             "client_next", "client_current", "client_queued", "gone"}

ServerPc == {"idle", "again", "server_wait", "receive", "receive_pop", "receive_set",
             "receive_message", "receive_failed", "handling", "reply", "reply_take", "reply_send",
             "closed", "server_closing", "server_lock", "cleanup_next", "cleanup_reply", "gone"}

\* What a client and a server thread can be doing.
PcOK ==
    /\ pc \in [Client \cup Server -> ClientPc \cup ServerPc]
    /\ \A c \in Client : pc[c] \in ClientPc
    /\ \A s \in Server : pc[s] \in ServerPc

\* The thread is in a section that m_lock protects.
InLock(t) ==
    pc[t] \in {"client_next", "client_current", "client_queued", "receive_pop", "receive_set",
               "receive_message", "receive_failed", "reply_take", "reply_send", "cleanup_next",
               "cleanup_reply"}

\* m_lock is held by the one thread that is in such a section.
LockOK == \A t \in Client \cup Server : InLock(t) <=> m_lock = t

\* A thread has a request exactly while it works on one; a client sends its
\* own request or an asynchronous one, and waits only for its own; no two
\* clients work on the same.
JobOK ==
    /\ \A c \in Client : job[c] # None <=>
            pc[c] \in {"sending", "request_wait", "returning", "client_current", "client_queued"}
    /\ \A s \in Server : job[s] # None <=>
            pc[s] \in {"receive_set", "receive_message", "receive_failed", "reply_send", "cleanup_reply"}
    /\ \A c \in Client : pc[c] \in {"sending", "request_wait", "returning"} =>
            job[c] = c \/ job[c] \in Event
    /\ \A c \in Client : pc[c] = "request_wait" => job[c] = c
    /\ \A c, d \in Client : c # d /\ job[c] # None => job[c] # job[d]

ClientClosing(c) ==
    pc[c] \in {"client_closing", "client_lock", "client_next", "client_current", "client_queued"}

ServerClosing(s) == pc[s] \in {"server_closing", "server_lock", "cleanup_next", "cleanup_reply"}

\* Each end is closed by one thread, after all others of that end have left;
\* once the client has written m_atomic_state the session is closed.
CloseOK ==
    /\ \A c, d \in Client : ClientClosing(c) /\ c # d => pc[d] = "gone"
    /\ \A s, u \in Server : ServerClosing(s) /\ s # u => pc[u] = "gone"
    /\ \A c \in Client : ClientClosing(c) /\ pc[c] # "client_closing" => Closed

\* Nobody makes a request current while there is one; the one that is being
\* received is.
BusyOK ==
    /\ \A s \in Server : pc[s] = "receive_set" => m_current_request = None
    /\ \A s \in Server : pc[s] = "receive_message" => job[s] = m_current_request

\* The requests on a list; none is there twice.
Elements(q) == {q[i] : i \in DOMAIN q}

NoDuplicates(q) == \A i, j \in DOMAIN q : q[i] = q[j] => i = j

\* The session has the request in one place: the list, where it is once, the
\* current request, or a thread that has taken it from there.
PlaceOK ==
    /\ NoDuplicates(m_request_list)
    /\ m_current_request \notin Queued
    /\ \A s \in Server : job[s] \notin Queued
    /\ \A s \in Server : Answering(s) => job[s] # m_current_request
    /\ \A c \in Client : pc[c] = "client_queued" => job[c] \notin Queued /\ job[c] # m_current_request

\* The session's reference, the sender's, and the one of OnClientClosed.
Live(r) ==
    \/ r \in Queued
    \/ r = m_current_request
    \/ \E s \in Server : job[s] = r
    \/ \E c \in Client : job[c] = r /\ pc[c] = "client_queued"

Sent(r) == \E c \in Client : job[c] = r /\ pc[c] \in {"request_wait", "returning"}

Reopened(r) == \E c \in Client : job[c] = r /\ pc[c] = "client_current"

One(b) == IF b THEN 1 ELSE 0

CountOK ==
    /\ \A r \in Request : refs[r] = One(Sent(r)) + One(Reopened(r)) + One(Live(r))
    /\ \A c \in Client : pc[c] = "sending" => refs[job[c]] = 0

\* While the session has a client's own request the client waits for it, or
\* is terminating.
WaitOK ==
    /\ \A r \in Client : m_thread[r] \in {r, None}
    /\ \A r \in Client : Live(r) => pc[r] = "request_wait" \/ terminating[r]

IInv ==
    /\ TypeOK /\ PcOK /\ LockOK /\ JobOK /\ CloseOK
    /\ BusyOK /\ PlaceOK /\ CountOK /\ WaitOK /\ SignalNotMissed

-----------------------------------------------------------------------------
(* Facts about the operators *)

USE NoneAssumption, DisjointAssumption DEF Request

\* m_request_list.push_back of a request that is not on the list.
LEMMA AppendFacts ==
    ASSUME NEW S, NEW q \in Seq(S), NEW x \in S
    PROVE  /\ Append(q, x) \in Seq(S)
           /\ Elements(Append(q, x)) = Elements(q) \cup {x}
           /\ NoDuplicates(q) /\ x \notin Elements(q) => NoDuplicates(Append(q, x))
<1>1. /\ Append(q, x) \in Seq(S)
      /\ DOMAIN q = 1 .. Len(q) /\ Len(q) \in Nat
      /\ DOMAIN Append(q, x) = 1 .. Len(q) + 1
      /\ \A i \in DOMAIN q : Append(q, x)[i] = q[i]
      /\ Append(q, x)[Len(q) + 1] = x
  OBVIOUS
<1>2. DOMAIN Append(q, x) = DOMAIN q \cup {Len(q) + 1} /\ Len(q) + 1 \notin DOMAIN q
  OBVIOUS
<1>3. Elements(Append(q, x)) = Elements(q) \cup {x}
  BY <1>2 DEF Elements
<1>4. NoDuplicates(q) /\ x \notin Elements(q) => NoDuplicates(Append(q, x))
  BY DEF Elements, NoDuplicates
<1> QED BY <1>3, <1>4

\* m_request_list.pop_front.
LEMMA TailFacts ==
    ASSUME NEW S, NEW q \in Seq(S), q # << >>
    PROVE  /\ Head(q) \in S /\ Tail(q) \in Seq(S)
           /\ Head(q) \in Elements(q)
           /\ NoDuplicates(q) => /\ Elements(Tail(q)) = Elements(q) \ {Head(q)}
                                 /\ NoDuplicates(Tail(q))
<1>1. /\ DOMAIN q = 1 .. Len(q) /\ Len(q) \in Nat /\ Len(q) # 0
      /\ Head(q) = q[1] /\ Head(q) \in S
      /\ Tail(q) \in Seq(S) /\ DOMAIN Tail(q) = 1 .. Len(q) - 1
      /\ \A i \in 1 .. Len(q) - 1 : Tail(q)[i] = q[i + 1]
  OBVIOUS
<1>2. 1 \in DOMAIN q
  OBVIOUS
<1>3. \A i \in DOMAIN Tail(q) : i + 1 \in DOMAIN q /\ i + 1 # 1
  OBVIOUS
<1>4. \A i \in DOMAIN q : i = 1 \/ (i - 1 \in DOMAIN Tail(q) /\ Tail(q)[i - 1] = q[i])
  OBVIOUS
<1>5. ASSUME NoDuplicates(q) PROVE Elements(Tail(q)) = Elements(q) \ {Head(q)}
  <2>1. ASSUME NEW i \in DOMAIN Tail(q) PROVE Tail(q)[i] \in Elements(q) /\ Tail(q)[i] # Head(q)
    BY <1>5 DEF Elements, NoDuplicates
  <2>2. ASSUME NEW i \in DOMAIN q, q[i] # Head(q) PROVE q[i] \in Elements(Tail(q))
    BY <1>1, <1>4, <2>2 DEF Elements
  <2> QED BY <2>1, <2>2 DEF Elements
<1>6. ASSUME NoDuplicates(q) PROVE NoDuplicates(Tail(q))
  <2> SUFFICES ASSUME NEW i \in DOMAIN Tail(q), NEW j \in DOMAIN Tail(q), Tail(q)[i] = Tail(q)[j]
               PROVE  i = j
    BY DEF NoDuplicates
  <2>1. q[i + 1] = q[j + 1]
    OBVIOUS
  <2>2. i + 1 = j + 1
    BY <1>6 DEF NoDuplicates
  <2> QED BY <2>2
<1> QED BY <1>1, <1>2, <1>5, <1>6 DEF Elements

\* EndWait, called for the request a server thread answers, moves the client
\* that waits for it and nobody else.
LEMMA EndWaitStep ==
    ASSUME IInv, NEW s \in Server, Answering(s), NEW next \in ServerPc
    PROVE  /\ job[s] \in Request /\ Live(job[s])
           /\ \E W \in SUBSET Client :
                /\ W \subseteq {job[s]}
                /\ \A c \in W : pc[c] = "request_wait"
                /\ EndWait(job[s], Move(s, next)) =
                        [u \in Client \cup Server |->
                            IF u = s THEN next ELSE IF u \in W THEN "returning" ELSE pc[u]]
<1>1. job[s] \in Request
  BY DEF IInv, TypeOK, JobOK, Answering
<1>2. Live(job[s])
  BY DEF Live
<1>3. CASE job[s] \in Client /\ MayEndWait(job[s])
  <2>1. pc[job[s]] = "request_wait" /\ m_thread[job[s]] = job[s] /\ job[s] # s
    BY <1>2, <1>3 DEF IInv, WaitOK, MayEndWait
  <2>2. EndWait(job[s], Move(s, next)) =
            [u \in Client \cup Server |->
                IF u = s THEN next ELSE IF u \in {job[s]} THEN "returning" ELSE pc[u]]
    BY <1>3, <2>1 DEF IInv, EndWait, Move, PcOK
  <2> QED BY <1>1, <1>2, <1>3, <2>1, <2>2
<1>4. CASE ~(job[s] \in Client /\ MayEndWait(job[s]))
  <2>1. EndWait(job[s], Move(s, next)) =
            [u \in Client \cup Server |->
                IF u = s THEN next ELSE IF u \in {} THEN "returning" ELSE pc[u]]
    BY <1>4 DEF IInv, EndWait, Move, PcOK
  <2> QED BY <1>1, <1>2, <2>1
<1> QED BY <1>3, <1>4

-----------------------------------------------------------------------------
(* The steps *)

\* OnRequest refuses a request that was not queued: nothing refers to it.
LEMMA RefusedStep ==
    ASSUME IInv, NEW t \in Client, OnRequestRefused(t)
    PROVE  IInv'
<1> USE DEF OnRequestRefused, Move, listVars, requestVars, handleVars
<1>1. Queued \subseteq Request
  BY DEF IInv, TypeOK, Queued
<1>2. Queued' = Queued
  BY DEF Queued
<1>3. \A r \in Request : Live(r)' <=> Live(r)
  BY <1>2 DEF Live
<1>4. \A r \in Request : Sent(r)' <=> Sent(r)
  BY DEF Sent
<1>5. \A r \in Request : Reopened(r)' <=> Reopened(r)
  BY DEF Reopened
<1>6. \A r \in Request : refs'[r] = (One(Sent(r)) + One(Reopened(r)) + One(Live(r)))'
  BY <1>3, <1>4, <1>5 DEF IInv, CountOK, One
<1>7. \A c \in Client : pc'[c] = "sending" => refs'[job'[c]] = 0
  BY DEF IInv, CountOK, PcOK
<1>8. TypeOK'
  BY DEF IInv, TypeOK
<1>9. PcOK'
  BY DEF IInv, PcOK, ClientPc
<1>10. LockOK'
  BY DEF IInv, LockOK, InLock
<1>11. JobOK'
  BY DEF IInv, JobOK, TypeOK, PcOK
<1>12. CloseOK'
  BY DEF IInv, CloseOK, ClientClosing, ServerClosing
<1>13. BusyOK'
  BY DEF IInv, BusyOK
<1>14. PlaceOK'
  BY <1>2 DEF IInv, PlaceOK, Answering
<1>15. CountOK'
  BY <1>6, <1>7 DEF CountOK
<1>16. WaitOK'
  BY <1>2 DEF IInv, WaitOK, Live
<1>17. SignalNotMissed'
  BY DEF IInv, SignalNotMissed, IsSignaled, Closed, ClientIsClosing
<1> QED BY <1>8, <1>9, <1>10, <1>11, <1>12, <1>13, <1>14, <1>15, <1>16, <1>17 DEF IInv

\* OnRequest queues a request that nobody has, and tells the servers if it is
\* the first.
LEMMA OnRequestStep ==
    ASSUME IInv, NEW t \in Client, OnRequest(t)
    PROVE  IInv'
<1> USE DEF OnRequest, Move, NotifyAvailable, IsSignaled, listVars, requestVars, handleVars
<1>1. Queued \subseteq Request
  BY DEF IInv, TypeOK, Queued
<1>2. job[t] \in Request
  BY DEF IInv, JobOK
<1>3. ~Live(job[t]) /\ ~Sent(job[t]) /\ ~Reopened(job[t])
  BY <1>2 DEF IInv, CountOK, One
<1>4. /\ Queued' = Queued \cup {job[t]}
      /\ NoDuplicates(m_request_list') /\ m_request_list' \in Seq(Request)
  <2>1. job[t] \notin Queued
    BY <1>3 DEF Live
  <2>2. /\ m_request_list \in Seq(Request) /\ NoDuplicates(m_request_list)
        /\ Queued = Elements(m_request_list)
    BY DEF IInv, TypeOK, PlaceOK, Queued, Elements
  <2>3. /\ Append(m_request_list, job[t]) \in Seq(Request)
        /\ Elements(Append(m_request_list, job[t])) = Elements(m_request_list) \cup {job[t]}
        /\ NoDuplicates(Append(m_request_list, job[t]))
    BY <1>2, <2>1, <2>2, AppendFacts
  <2> QED BY <2>1, <2>2, <2>3 DEF Queued, Elements
<1>5. \A r \in Request : Live(r)' <=> Live(r) \/ r = job[t]
  BY <1>4 DEF Live
<1>6. \A r \in Request : Sent(r)' <=> Sent(r) \/ r = job[t]
  BY DEF IInv, Sent, PcOK
<1>7. \A r \in Request : Reopened(r)' <=> Reopened(r)
  BY DEF Reopened
<1>8. \A r \in Request : refs'[r] = (One(Sent(r)) + One(Reopened(r)) + One(Live(r)))'
  BY <1>5, <1>6, <1>7 DEF IInv, CountOK, One, TypeOK
<1>9. \A c \in Client : pc'[c] = "sending" => refs'[job'[c]] = 0
  BY DEF IInv, CountOK, JobOK, PcOK
<1>10. TypeOK'
  BY DEF IInv, TypeOK, JobOK
<1>11. PcOK'
  BY DEF IInv, PcOK, ClientPc, ServerPc
<1>12. LockOK'
  BY <1>4, <1>1, <1>2, <1>3 DEF IInv, LockOK, InLock, TypeOK, PcOK, ClientPc, ServerPc, Closed
<1>13. JobOK'
  BY DEF IInv, JobOK
<1>14. CloseOK'
  BY DEF IInv, CloseOK, ClientClosing, ServerClosing
<1>15. BusyOK'
  BY DEF IInv, BusyOK
<1>16. PlaceOK'
  BY <1>4, <1>3 DEF IInv, PlaceOK, Answering, Live
<1>17. CountOK'
  BY <1>8, <1>9 DEF CountOK
<1>18. WaitOK'
  BY <1>4 DEF IInv, WaitOK, Live, PcOK, JobOK
<1>19. SignalNotMissed'
  BY DEF IInv, SignalNotMissed, Closed, ClientIsClosing
<1> QED BY <1>10, <1>11, <1>12, <1>13, <1>14, <1>15, <1>16, <1>17, <1>18, <1>19 DEF IInv

\* The sender closes its reference, which nobody else may do.
LEMMA SendReturnStep ==
    ASSUME IInv, NEW t \in Client, SendReturn(t)
    PROVE  IInv'
<1> USE DEF SendReturn, Move, Close, listVars, requestVars, handleVars
<1>1. Queued \subseteq Request
  BY DEF IInv, TypeOK, Queued
<1>2. Queued' = Queued
  BY DEF Queued
<1>3. job[t] \in Request /\ Sent(job[t])
  BY DEF IInv, Sent, JobOK
<1>4. \A r \in Request : Live(r)' <=> Live(r)
  BY <1>2 DEF Live
<1>5. \A r \in Request : Sent(r)' <=> Sent(r) /\ r # job[t]
  BY DEF IInv, Sent, PcOK, JobOK
<1>6. \A r \in Request : Reopened(r)' <=> Reopened(r)
  BY DEF Reopened
<1>7. refs[job[t]] \in 1 .. 2
  <2>1. /\ refs[job[t]] =
                One(Sent(job[t])) + One(Reopened(job[t])) + One(Live(job[t]))
        /\ refs[job[t]] \in 0 .. 2
    BY <1>3 DEF IInv, TypeOK, CountOK
  <2> QED BY <1>3, <2>1 DEF One
<1>8. refs' \in [Request -> 0 .. 2]
  BY <1>3, <1>7 DEF IInv, TypeOK
<1>9. \A r \in Request : refs'[r] = (One(Sent(r)) + One(Reopened(r)) + One(Live(r)))'
  BY <1>3, <1>4, <1>5, <1>6 DEF IInv, CountOK, One, TypeOK
<1>10. \A c \in Client : pc'[c] = "sending" => refs'[job'[c]] = 0
  BY DEF IInv, CountOK, JobOK
<1>11. TypeOK'
  BY <1>8 DEF IInv, TypeOK
<1>12. PcOK'
  BY DEF IInv, PcOK, ClientPc
<1>13. LockOK'
  BY DEF IInv, LockOK, InLock
<1>14. JobOK'
  BY DEF IInv, JobOK, TypeOK, PcOK
<1>15. CloseOK'
  BY DEF IInv, CloseOK, ClientClosing, ServerClosing
<1>16. BusyOK'
  BY DEF IInv, BusyOK
<1>17. PlaceOK'
  BY <1>2 DEF IInv, PlaceOK, Answering
<1>18. CountOK'
  BY <1>9, <1>10 DEF CountOK
<1>19. WaitOK'
  BY <1>2 DEF IInv, WaitOK, Live
<1>20. SignalNotMissed'
  BY DEF IInv, SignalNotMissed, IsSignaled, Closed, ClientIsClosing
<1> QED BY <1>11, <1>12, <1>13, <1>14, <1>15, <1>16, <1>17, <1>18, <1>19, <1>20 DEF IInv

\* RequestTerminate ends a wait without an answer; closing the handle changes
\* nothing else.
LEMMA TerminateStep ==
    ASSUME IInv, NEW t \in Client, RequestTerminate(t) \/ CloseClientHandle(t)
    PROVE  IInv'
<1> USE DEF RequestTerminate, CloseClientHandle, Move, listVars, requestVars, handleVars
<1>1. Queued \subseteq Request
  BY DEF IInv, TypeOK, Queued
<1>2. Queued' = Queued
  BY DEF Queued
<1>3. \A r \in Request : Live(r)' <=> Live(r)
  BY <1>2 DEF IInv, Live, PcOK
<1>4. \A r \in Request : Sent(r)' <=> Sent(r)
  BY DEF IInv, Sent, PcOK
<1>5. \A r \in Request : Reopened(r)' <=> Reopened(r)
  BY DEF IInv, Reopened, PcOK
<1>6. \A r \in Request : refs'[r] = (One(Sent(r)) + One(Reopened(r)) + One(Live(r)))'
  BY <1>3, <1>4, <1>5 DEF IInv, CountOK, One
<1>7. \A c \in Client : pc'[c] = "sending" => refs'[job'[c]] = 0
  BY DEF IInv, CountOK, PcOK
<1>8. TypeOK'
  BY <1>2 DEF IInv, TypeOK, JobOK
<1>9. PcOK'
  BY DEF IInv, PcOK, ClientPc
<1>10. LockOK'
  BY DEF IInv, LockOK, InLock, PcOK
<1>11. JobOK'
  BY DEF IInv, JobOK, PcOK
<1>12. CloseOK'
  BY <1>1 DEF IInv, CloseOK, ClientClosing, ServerClosing, Closed, PcOK
<1>13. BusyOK'
  BY DEF IInv, BusyOK, PcOK
<1>14. PlaceOK'
  BY <1>2 DEF IInv, PlaceOK, Answering, PcOK
<1>15. CountOK'
  BY <1>6, <1>7 DEF CountOK
<1>16. WaitOK'
  BY <1>2 DEF IInv, WaitOK, Live, TypeOK, PcOK
<1>17. SignalNotMissed'
  BY DEF IInv, SignalNotMissed, IsSignaled, Closed, ClientIsClosing, PcOK
<1> QED BY <1>8, <1>9, <1>10, <1>11, <1>12, <1>13, <1>14, <1>15, <1>16, <1>17 DEF IInv

\* OnClientClosed begins: no client is in a call, the state is written, then
\* the lock is taken.
LEMMA ClientClosingStep ==
    ASSUME IInv, NEW t \in Client, ClientDestroyBegin(t) \/ ClientSetState(t) \/ ClientLock(t)
    PROVE  IInv'
<1> USE DEF ClientDestroyBegin, ClientSetState, ClientLock, Move, listVars, requestVars,
       handleVars
<1>1. Queued \subseteq Request
  BY DEF IInv, TypeOK, Queued
<1>2. Queued' = Queued
  BY DEF Queued
<1>3. \A r \in Request : Live(r)' <=> Live(r)
  BY <1>2 DEF IInv, Live, JobOK, CloseOK, ClientClosing
<1>4. \A r \in Request : Sent(r)' <=> Sent(r)
  BY DEF IInv, Sent, JobOK, CloseOK, ClientClosing
<1>5. \A r \in Request : Reopened(r)' <=> Reopened(r)
  BY DEF IInv, Reopened, JobOK, CloseOK, ClientClosing
<1>6. \A r \in Request : refs'[r] = (One(Sent(r)) + One(Reopened(r)) + One(Live(r)))'
  BY <1>3, <1>4, <1>5 DEF IInv, CountOK, One
<1>7. \A c \in Client : pc'[c] = "sending" => refs'[job'[c]] = 0
  BY DEF IInv, PcOK, CloseOK, ClientClosing
<1>8. TypeOK'
  BY DEF IInv, TypeOK
<1>9. PcOK'
  BY DEF IInv, PcOK, ClientPc
<1>10. LockOK'
  BY DEF IInv, LockOK, InLock, PcOK
<1>11. JobOK'
  BY DEF IInv, JobOK, PcOK
<1>12. CloseOK'
  BY DEF IInv, CloseOK, ClientClosing, ServerClosing, Closed, PcOK
<1>13. BusyOK'
  BY DEF IInv, BusyOK, PcOK
<1>14. PlaceOK'
  BY <1>2 DEF IInv, PlaceOK, Answering, PcOK
<1>15. CountOK'
  BY <1>6, <1>7 DEF CountOK
<1>16. WaitOK'
  BY <1>2 DEF IInv, WaitOK, Live, JobOK, CloseOK, ClientClosing
<1>17. SignalNotMissed'
  BY DEF IInv, SignalNotMissed, IsSignaled, Closed, ClientIsClosing, PcOK
<1> QED BY <1>8, <1>9, <1>10, <1>11, <1>12, <1>13, <1>14, <1>15, <1>16, <1>17 DEF IInv

\* OnClientClosed opens the current request, which has no sender any more.
LEMMA ClientNextCurrentStep ==
    ASSUME IInv, NEW t \in Client, ClientNextCurrent(t)
    PROVE  IInv'
<1> USE DEF ClientNextCurrent, Move, Open, listVars, requestVars, handleVars
<1>1. Queued \subseteq Request
  BY DEF IInv, TypeOK, Queued
<1>2. Queued' = Queued
  BY DEF Queued
<1>3. /\ m_current_request \in Request /\ Live(m_current_request)
      /\ ~Sent(m_current_request) /\ ~Reopened(m_current_request)
  BY DEF IInv, Live, Sent, Reopened, TypeOK, CloseOK, ClientClosing
<1>4. \A r \in Request : Live(r)' <=> Live(r)
  BY <1>2 DEF Live
<1>5. \A r \in Request : Sent(r)' <=> Sent(r)
  BY DEF Sent
<1>6. \A r \in Request : Reopened(r)' <=> Reopened(r) \/ r = m_current_request
  BY DEF IInv, Reopened, TypeOK, PcOK
<1>7. refs[m_current_request] \in 0 .. 1
  <2>1. /\ refs[m_current_request] =
                One(Sent(m_current_request)) + One(Reopened(m_current_request)) + One(Live(m_current_request))
        /\ refs[m_current_request] \in 0 .. 2
    BY <1>3 DEF IInv, TypeOK, CountOK
  <2> QED BY <1>3, <2>1 DEF One
<1>8. refs' \in [Request -> 0 .. 2]
  BY <1>7 DEF IInv, TypeOK
<1>9. \A r \in Request : refs'[r] = (One(Sent(r)) + One(Reopened(r)) + One(Live(r)))'
  BY <1>3, <1>4, <1>5, <1>6 DEF IInv, CountOK, One, TypeOK
<1>10. \A c \in Client : pc'[c] = "sending" => refs'[job'[c]] = 0
  BY DEF IInv, CloseOK, ClientClosing
<1>11. TypeOK'
  BY <1>8 DEF IInv, TypeOK
<1>12. PcOK'
  BY DEF IInv, PcOK, ClientPc
<1>13. LockOK'
  BY DEF IInv, LockOK, InLock
<1>14. JobOK'
  BY <1>1, <1>3 DEF IInv, JobOK, TypeOK, PcOK, CloseOK, ClientClosing
<1>15. CloseOK'
  BY DEF IInv, CloseOK, ClientClosing, ServerClosing, Closed
<1>16. BusyOK'
  BY DEF IInv, BusyOK
<1>17. PlaceOK'
  BY <1>2 DEF IInv, PlaceOK, JobOK, LockOK, InLock
<1>18. CountOK'
  BY <1>9, <1>10 DEF CountOK
<1>19. WaitOK'
  BY <1>2 DEF IInv, WaitOK, Live
<1>20. SignalNotMissed'
  BY DEF SignalNotMissed, ClientIsClosing
<1> QED BY <1>11, <1>12, <1>13, <1>14, <1>15, <1>16, <1>17, <1>18, <1>19, <1>20 DEF IInv

\* OnClientClosed closes the reference it has opened.
LEMMA ClientCurrentDoneStep ==
    ASSUME IInv, NEW t \in Client, ClientCurrentDone(t)
    PROVE  IInv'
<1> USE DEF ClientCurrentDone, Move, Close, listVars, requestVars, handleVars
<1>1. Queued \subseteq Request
  BY DEF IInv, TypeOK, Queued
<1>2. Queued' = Queued
  BY DEF Queued
<1>3. job[t] \in Request /\ Reopened(job[t])
  BY DEF IInv, Reopened, JobOK, TypeOK
<1>4. \A r \in Request : Live(r)' <=> Live(r)
  BY <1>2 DEF Live
<1>5. \A r \in Request : Sent(r)' <=> Sent(r)
  BY DEF Sent
<1>6. \A r \in Request : Reopened(r)' <=> Reopened(r) /\ r # job[t]
  BY DEF IInv, Reopened, PcOK, CloseOK, ClientClosing
<1>7. refs[job[t]] \in 1 .. 2
  <2>1. /\ refs[job[t]] =
                One(Sent(job[t])) + One(Reopened(job[t])) + One(Live(job[t]))
        /\ refs[job[t]] \in 0 .. 2
    BY <1>3 DEF IInv, TypeOK, CountOK
  <2> QED BY <1>3, <2>1 DEF One
<1>8. refs' \in [Request -> 0 .. 2]
  BY <1>3, <1>7 DEF IInv, TypeOK
<1>9. \A r \in Request : refs'[r] = (One(Sent(r)) + One(Reopened(r)) + One(Live(r)))'
  BY <1>3, <1>4, <1>5, <1>6 DEF IInv, CountOK, One, TypeOK
<1>10. \A c \in Client : pc'[c] = "sending" => refs'[job'[c]] = 0
  BY DEF IInv, CloseOK, ClientClosing
<1>11. TypeOK'
  BY <1>8 DEF IInv, TypeOK
<1>12. PcOK'
  BY DEF IInv, PcOK, ClientPc
<1>13. LockOK'
  BY DEF IInv, LockOK, InLock
<1>14. JobOK'
  BY DEF IInv, JobOK, TypeOK, PcOK
<1>15. CloseOK'
  BY DEF IInv, CloseOK, ClientClosing, ServerClosing, Closed
<1>16. BusyOK'
  BY DEF IInv, BusyOK
<1>17. PlaceOK'
  BY <1>2 DEF IInv, PlaceOK, Answering
<1>18. CountOK'
  BY <1>9, <1>10 DEF CountOK
<1>19. WaitOK'
  BY <1>2 DEF IInv, WaitOK, Live
<1>20. SignalNotMissed'
  BY DEF SignalNotMissed, ClientIsClosing
<1> QED BY <1>11, <1>12, <1>13, <1>14, <1>15, <1>16, <1>17, <1>18, <1>19, <1>20 DEF IInv

\* OnClientClosed takes a request from the list.
LEMMA ClientNextQueuedStep ==
    ASSUME IInv, NEW t \in Client, ClientNextQueued(t)
    PROVE  IInv'
<1> USE DEF ClientNextQueued, Move, listVars, requestVars, handleVars
<1>1. Queued \subseteq Request
  BY DEF IInv, TypeOK, Queued
<1>2. /\ Queued' = Queued \ {job'[t]} /\ job'[t] \in Queued
      /\ NoDuplicates(m_request_list') /\ m_request_list' \in Seq(Request)
  <2>1. /\ m_request_list \in Seq(Request) /\ NoDuplicates(m_request_list)
        /\ Queued = Elements(m_request_list)
    BY DEF IInv, TypeOK, PlaceOK, Queued, Elements
  <2>2. /\ Head(m_request_list) \in Elements(m_request_list) /\ Tail(m_request_list) \in Seq(Request)
        /\ Elements(Tail(m_request_list)) = Elements(m_request_list) \ {Head(m_request_list)}
        /\ NoDuplicates(Tail(m_request_list))
    BY <2>1, TailFacts
  <2>3. job'[t] = Head(m_request_list)
    BY DEF IInv, TypeOK
  <2> QED BY <2>1, <2>2, <2>3 DEF Queued, Elements
<1>3. job'[t] \in Request
  BY <1>1, <1>2
<1>4. \A d \in Client \ {t} : pc[d] = "gone" /\ job[d] = None
  BY DEF IInv, CloseOK, ClientClosing, JobOK
<1>5. \A r \in Request : Live(r)' <=> Live(r)
  BY <1>2 DEF IInv, Live, PcOK
<1>6. \A r \in Request : Sent(r)' <=> Sent(r)
  BY DEF Sent
<1>7. \A r \in Request : Reopened(r)' <=> Reopened(r)
  BY DEF Reopened
<1>8. \A r \in Request : refs'[r] = (One(Sent(r)) + One(Reopened(r)) + One(Live(r)))'
  BY <1>5, <1>6, <1>7 DEF IInv, CountOK, One
<1>9. \A c \in Client : pc'[c] = "sending" => refs'[job'[c]] = 0
  BY DEF IInv, CloseOK, ClientClosing
<1>10. TypeOK'
  BY DEF IInv, TypeOK
<1>11. PcOK'
  BY DEF IInv, PcOK, ClientPc
<1>12. LockOK'
  BY DEF IInv, LockOK, InLock
<1>13. JobOK'
  BY <1>4 DEF IInv, JobOK, TypeOK, PcOK
<1>14. CloseOK'
  BY DEF IInv, CloseOK, ClientClosing, ServerClosing, Closed
<1>15. BusyOK'
  BY DEF IInv, BusyOK
<1>16. PlaceOK'
  BY <1>2 DEF IInv, PlaceOK, Answering
<1>17. CountOK'
  BY <1>8, <1>9 DEF CountOK
<1>18. WaitOK'
  BY <1>2 DEF IInv, WaitOK, Live
<1>19. SignalNotMissed'
  BY DEF SignalNotMissed, ClientIsClosing
<1> QED BY <1>10, <1>11, <1>12, <1>13, <1>14, <1>15, <1>16, <1>17, <1>18, <1>19 DEF IInv

\* OnClientClosed gives up a request it has taken: its thread is terminating.
LEMMA ClientQueuedDoneStep ==
    ASSUME IInv, NEW t \in Client, ClientQueuedDone(t)
    PROVE  IInv'
<1> USE DEF ClientQueuedDone, Move, Close, Answer, MayEndWait, listVars, requestVars, handleVars
<1>1. Queued \subseteq Request
  BY DEF IInv, TypeOK, Queued
<1>2. Queued' = Queued
  BY DEF Queued
<1>3. job[t] \in Request /\ Live(job[t])
  BY DEF IInv, Live, JobOK, TypeOK
<1>4. answered' \in [Request -> BOOLEAN]
  BY <1>3 DEF IInv, TypeOK
<1>5. \A r \in Request : Live(r)' <=> Live(r) /\ r # job[t]
  BY <1>2 DEF IInv, Live, PcOK, JobOK, PlaceOK, LockOK, InLock
<1>6. \A r \in Request : Sent(r)' <=> Sent(r)
  BY DEF Sent
<1>7. \A r \in Request : Reopened(r)' <=> Reopened(r)
  BY DEF Reopened
<1>8. refs[job[t]] \in 1 .. 2
  <2>1. /\ refs[job[t]] =
                One(Sent(job[t])) + One(Reopened(job[t])) + One(Live(job[t]))
        /\ refs[job[t]] \in 0 .. 2
    BY <1>3 DEF IInv, TypeOK, CountOK
  <2> QED BY <1>3, <2>1 DEF One
<1>9. refs' \in [Request -> 0 .. 2]
  BY <1>3, <1>8 DEF IInv, TypeOK
<1>10. \A r \in Request : refs'[r] = (One(Sent(r)) + One(Reopened(r)) + One(Live(r)))'
  BY <1>3, <1>5, <1>6, <1>7 DEF IInv, CountOK, One, TypeOK
<1>11. \A c \in Client : pc'[c] = "sending" => refs'[job'[c]] = 0
  BY DEF IInv, CloseOK, ClientClosing
<1>12. TypeOK'
  BY <1>9, <1>4 DEF IInv, TypeOK
<1>13. PcOK'
  BY DEF IInv, PcOK, ClientPc
<1>14. LockOK'
  BY DEF IInv, LockOK, InLock
<1>15. JobOK'
  BY DEF IInv, JobOK, TypeOK, PcOK
<1>16. CloseOK'
  BY DEF IInv, CloseOK, ClientClosing, ServerClosing, Closed
<1>17. BusyOK'
  BY DEF IInv, BusyOK
<1>18. PlaceOK'
  BY <1>2 DEF IInv, PlaceOK, Answering, PcOK
<1>19. CountOK'
  BY <1>10, <1>11 DEF CountOK
<1>20. WaitOK'
  BY <1>2 DEF IInv, WaitOK, Live
<1>21. SignalNotMissed'
  BY DEF SignalNotMissed, ClientIsClosing
<1> QED BY <1>12, <1>13, <1>14, <1>15, <1>16, <1>17, <1>18, <1>19, <1>20, <1>21 DEF IInv

\* OnClientClosed tells the servers, releases the lock and is done.
LEMMA ClientCloseEndStep ==
    ASSUME IInv, NEW t \in Client, ClientCloseEnd(t)
    PROVE  IInv'
<1> USE DEF ClientCloseEnd, Move, NotifyAvailable, IsSignaled, listVars, requestVars, handleVars
<1>1. Queued \subseteq Request
  BY DEF Queued
<1>2. Queued' = Queued
  BY DEF Queued
<1>3. \A r \in Request : Live(r)' <=> Live(r)
  BY <1>2 DEF Live
<1>4. \A r \in Request : Sent(r)' <=> Sent(r)
  BY DEF Sent
<1>5. \A r \in Request : Reopened(r)' <=> Reopened(r)
  BY DEF Reopened
<1>6. \A r \in Request : refs'[r] = (One(Sent(r)) + One(Reopened(r)) + One(Live(r)))'
  BY <1>3, <1>4, <1>5 DEF IInv, CountOK, One
<1>7. \A c \in Client : pc'[c] = "sending" => refs'[job'[c]] = 0
  BY DEF IInv, CloseOK, ClientClosing
<1>8. TypeOK'
  BY DEF IInv, TypeOK
<1>9. PcOK'
  BY DEF IInv, PcOK, ClientPc, ServerPc
<1>10. LockOK'
  BY DEF IInv, LockOK, InLock, PcOK
<1>11. JobOK'
  BY DEF IInv, JobOK
<1>12. CloseOK'
  BY DEF IInv, CloseOK, ClientClosing, ServerClosing, PcOK
<1>13. BusyOK'
  BY DEF IInv, BusyOK
<1>14. PlaceOK'
  BY <1>2 DEF IInv, PlaceOK, Answering
<1>15. CountOK'
  BY <1>6, <1>7 DEF CountOK
<1>16. WaitOK'
  BY <1>2 DEF IInv, WaitOK, Live
<1>17. SignalNotMissed'
  BY DEF SignalNotMissed, Closed
<1> QED BY <1>8, <1>9, <1>10, <1>11, <1>12, <1>13, <1>14, <1>15, <1>16, <1>17 DEF IInv

\* A server thread waits, stops waiting, or has handled its request.
LEMMA ServerWaitStep ==
    ASSUME IInv, NEW t \in Server, ServerWait(t) \/ ServerWaitTimeout(t) \/ ServerReply(t)
                                \/ ReplyOutOfTurn(t) \/ CloseServerHandle(t)
    PROVE  IInv'
<1> USE DEF ServerWait, ServerWaitTimeout, ServerReply, ReplyOutOfTurn, CloseServerHandle, Move,
       IsSignaled, listVars, requestVars, handleVars
<1>1. Queued \subseteq Request
  BY DEF IInv, TypeOK, Queued
<1>2. Queued' = Queued
  BY DEF Queued
<1>3. \A r \in Request : Live(r)' <=> Live(r)
  BY <1>2 DEF IInv, Live, PcOK
<1>4. \A r \in Request : Sent(r)' <=> Sent(r)
  BY DEF IInv, Sent, PcOK
<1>5. \A r \in Request : Reopened(r)' <=> Reopened(r)
  BY DEF IInv, Reopened, PcOK
<1>6. \A r \in Request : refs'[r] = (One(Sent(r)) + One(Reopened(r)) + One(Live(r)))'
  BY <1>3, <1>4, <1>5 DEF IInv, CountOK, One
<1>7. \A c \in Client : pc'[c] = "sending" => refs'[job'[c]] = 0
  BY DEF IInv, CountOK, PcOK
<1>8. TypeOK'
  BY <1>2 DEF IInv, TypeOK, JobOK
<1>9. PcOK'
  BY DEF IInv, PcOK, ServerPc
<1>10. LockOK'
  BY DEF IInv, LockOK, InLock, PcOK
<1>11. JobOK'
  BY DEF IInv, JobOK, PcOK
<1>12. CloseOK'
  BY DEF IInv, CloseOK, ClientClosing, ServerClosing, Closed, PcOK
<1>13. BusyOK'
  BY <1>1 DEF IInv, BusyOK, PcOK
<1>14. PlaceOK'
  BY <1>2 DEF IInv, PlaceOK, Answering, PcOK
<1>15. CountOK'
  BY <1>6, <1>7 DEF CountOK
<1>16. WaitOK'
  BY <1>2 DEF IInv, WaitOK, Live, PcOK
<1>17. SignalNotMissed'
  BY DEF IInv, SignalNotMissed, Closed, ClientIsClosing, PcOK
<1> QED BY <1>8, <1>9, <1>10, <1>11, <1>12, <1>13, <1>14, <1>15, <1>16, <1>17 DEF IInv

\* A server thread takes the lock.
LEMMA ServerLockStep ==
    ASSUME IInv, NEW t \in Server, ServerLock(t) \/ CleanupLock(t)
    PROVE  IInv'
<1> USE DEF ServerLock, CleanupLock, Move, listVars, requestVars, handleVars
<1>1. Queued \subseteq Request
  BY DEF IInv, TypeOK, Queued
<1>2. Queued' = Queued
  BY DEF Queued
<1>3. \A r \in Request : Live(r)' <=> Live(r)
  BY <1>2 DEF IInv, Live, PcOK
<1>4. \A r \in Request : Sent(r)' <=> Sent(r)
  BY DEF IInv, Sent, PcOK
<1>5. \A r \in Request : Reopened(r)' <=> Reopened(r)
  BY DEF IInv, Reopened, PcOK
<1>6. \A r \in Request : refs'[r] = (One(Sent(r)) + One(Reopened(r)) + One(Live(r)))'
  BY <1>3, <1>4, <1>5 DEF IInv, CountOK, One
<1>7. \A c \in Client : pc'[c] = "sending" => refs'[job'[c]] = 0
  BY DEF IInv, CountOK, PcOK
<1>8. TypeOK'
  BY DEF IInv, TypeOK
<1>9. PcOK'
  BY DEF IInv, PcOK, ServerPc
<1>10. LockOK'
  BY DEF IInv, LockOK, InLock, PcOK
<1>11. JobOK'
  BY DEF IInv, JobOK, PcOK
<1>12. CloseOK'
  BY <1>2 DEF IInv, CloseOK, ClientClosing, ServerClosing, Closed, PcOK
<1>13. BusyOK'
  BY DEF IInv, BusyOK, PcOK
<1>14. PlaceOK'
  BY <1>2 DEF IInv, PlaceOK, Answering, PcOK
<1>15. CountOK'
  BY <1>6, <1>7 DEF CountOK
<1>16. WaitOK'
  BY <1>2 DEF IInv, WaitOK, Live, PcOK
<1>17. SignalNotMissed'
  BY DEF IInv, SignalNotMissed, IsSignaled, Closed, ClientIsClosing, PcOK
<1> QED BY <1>8, <1>9, <1>10, <1>11, <1>12, <1>13, <1>14, <1>15, <1>16, <1>17 DEF IInv

\* A server thread releases the lock with nothing done.
LEMMA ServerUnlockStep ==
    ASSUME IInv, NEW t \in Server, ReceiveNothing(t) \/ SendReplyNothing(t) \/ CleanupEnd(t)
    PROVE  IInv'
<1> USE DEF ReceiveNothing, SendReplyNothing, CleanupEnd, Move, NotServicing, listVars, requestVars,
       handleVars
<1>1. Queued \subseteq Request
  BY DEF IInv, TypeOK, Queued
<1>2. Queued' = Queued
  BY DEF Queued
<1>3. \A r \in Request : Live(r)' <=> Live(r)
  BY <1>2 DEF IInv, Live, PcOK
<1>4. \A r \in Request : Sent(r)' <=> Sent(r)
  BY DEF IInv, Sent, PcOK
<1>5. \A r \in Request : Reopened(r)' <=> Reopened(r)
  BY DEF IInv, Reopened, PcOK
<1>6. \A r \in Request : refs'[r] = (One(Sent(r)) + One(Reopened(r)) + One(Live(r)))'
  BY <1>3, <1>4, <1>5 DEF IInv, CountOK, One
<1>7. \A c \in Client : pc'[c] = "sending" => refs'[job'[c]] = 0
  BY DEF IInv, CountOK, PcOK
<1>8. TypeOK'
  BY DEF IInv, TypeOK
<1>9. PcOK'
  BY DEF IInv, PcOK, ServerPc
<1>10. LockOK'
  BY DEF IInv, LockOK, InLock, PcOK
<1>11. JobOK'
  BY DEF IInv, JobOK, PcOK
<1>12. CloseOK'
  BY DEF IInv, CloseOK, ClientClosing, ServerClosing, Closed, PcOK
<1>13. BusyOK'
  BY DEF IInv, BusyOK, PcOK
<1>14. PlaceOK'
  BY <1>2 DEF IInv, PlaceOK, Answering, PcOK
<1>15. CountOK'
  BY <1>6, <1>7 DEF CountOK
<1>16. WaitOK'
  BY <1>2 DEF IInv, WaitOK, Live, PcOK
<1>17. SignalNotMissed'
  BY DEF IInv, SignalNotMissed, IsSignaled, Closed, ClientIsClosing, PcOK
<1> QED BY <1>8, <1>9, <1>10, <1>11, <1>12, <1>13, <1>14, <1>15, <1>16, <1>17 DEF IInv

\* ReceiveRequest takes a request from the list; there is no current one.
LEMMA ReceivePopStep ==
    ASSUME IInv, NEW t \in Server, ReceivePop(t)
    PROVE  IInv'
<1> USE DEF ReceivePop, Move, NotServicing, listVars, requestVars, handleVars
<1>1. Queued \subseteq Request
  BY DEF IInv, TypeOK, Queued
<1>2. /\ Queued' = Queued \ {job'[t]} /\ job'[t] \in Queued
      /\ NoDuplicates(m_request_list') /\ m_request_list' \in Seq(Request)
  <2>1. /\ m_request_list \in Seq(Request) /\ NoDuplicates(m_request_list)
        /\ Queued = Elements(m_request_list)
    BY DEF IInv, TypeOK, PlaceOK, Queued, Elements
  <2>2. /\ Head(m_request_list) \in Elements(m_request_list) /\ Tail(m_request_list) \in Seq(Request)
        /\ Elements(Tail(m_request_list)) = Elements(m_request_list) \ {Head(m_request_list)}
        /\ NoDuplicates(Tail(m_request_list))
    BY <2>1, TailFacts
  <2>3. job'[t] = Head(m_request_list)
    BY DEF IInv, TypeOK
  <2> QED BY <2>1, <2>2, <2>3 DEF Queued, Elements
<1>3. job'[t] \in Request
  BY <1>1, <1>2
<1>4. \A r \in Request : Live(r)' <=> Live(r)
  BY <1>2 DEF IInv, Live, JobOK
<1>5. \A r \in Request : Sent(r)' <=> Sent(r)
  BY DEF Sent
<1>6. \A r \in Request : Reopened(r)' <=> Reopened(r)
  BY DEF Reopened
<1>7. \A r \in Request : refs'[r] = (One(Sent(r)) + One(Reopened(r)) + One(Live(r)))'
  BY <1>4, <1>5, <1>6 DEF IInv, CountOK, One
<1>8. \A c \in Client : pc'[c] = "sending" => refs'[job'[c]] = 0
  BY DEF IInv, CountOK
<1>9. TypeOK'
  BY DEF IInv, TypeOK
<1>10. PcOK'
  BY DEF IInv, PcOK, ServerPc
<1>11. LockOK'
  BY DEF IInv, LockOK, InLock
<1>12. JobOK'
  BY DEF IInv, JobOK, TypeOK, PcOK
<1>13. CloseOK'
  BY DEF IInv, CloseOK, ClientClosing, ServerClosing
<1>14. BusyOK'
  BY DEF IInv, BusyOK
<1>15. PlaceOK'
  BY <1>2 DEF IInv, PlaceOK, Answering
<1>16. CountOK'
  BY <1>7, <1>8 DEF CountOK
<1>17. WaitOK'
  BY <1>2 DEF IInv, WaitOK, Live
<1>18. SignalNotMissed'
  BY DEF IInv, SignalNotMissed, IsSignaled, ClientIsClosing
<1> QED BY <1>9, <1>10, <1>11, <1>12, <1>13, <1>14, <1>15, <1>16, <1>17, <1>18 DEF IInv

\* ReceiveRequest makes the request current, and lets go of the lock.
LEMMA ReceiveSetStep ==
    ASSUME IInv, NEW t \in Server, ReceiveSetCurrent(t) \/ ReceiveSucceeds(t)
    PROVE  IInv'
<1> USE DEF ReceiveSetCurrent, ReceiveSucceeds, Move, listVars, requestVars, handleVars
<1>1. Queued \subseteq Request
  BY DEF IInv, TypeOK, Queued
<1>2. Queued' = Queued
  BY DEF Queued
<1>3. \A r \in Request : Live(r)' <=> Live(r)
  BY <1>2 DEF IInv, Live, TypeOK, PcOK, BusyOK
<1>4. \A r \in Request : Sent(r)' <=> Sent(r)
  BY <1>2, <1>1 DEF IInv, Sent, TypeOK, PcOK, ClientPc, ServerPc, JobOK
<1>5. \A r \in Request : Reopened(r)' <=> Reopened(r)
  BY DEF IInv, Reopened, TypeOK, PcOK
<1>6. \A r \in Request : refs'[r] = (One(Sent(r)) + One(Reopened(r)) + One(Live(r)))'
  BY <1>3, <1>4, <1>5 DEF IInv, CountOK, One
<1>7. \A c \in Client : pc'[c] = "sending" => refs'[job'[c]] = 0
  BY DEF IInv, CountOK, TypeOK, PcOK
<1>8. TypeOK'
  BY DEF IInv, TypeOK, JobOK
<1>9. PcOK'
  BY DEF IInv, PcOK, ServerPc
<1>10. LockOK'
  BY DEF IInv, LockOK, InLock, PcOK
<1>11. JobOK'
  BY <1>2, <1>1 DEF IInv, JobOK, TypeOK, PcOK, ClientPc, ServerPc, CloseOK, ClientClosing,
     BusyOK, Closed
<1>12. CloseOK'
  BY DEF IInv, CloseOK, ClientClosing, ServerClosing, Closed, PcOK
<1>13. BusyOK'
  BY DEF IInv, BusyOK, PcOK, JobOK, LockOK, InLock
<1>14. PlaceOK'
  BY <1>2, <1>1 DEF IInv, PlaceOK, Answering, TypeOK, PcOK, LockOK, InLock
<1>15. CountOK'
  BY <1>6, <1>7 DEF CountOK
<1>16. WaitOK'
  BY <1>2 DEF IInv, WaitOK, Live, TypeOK, PcOK, PlaceOK
<1>17. SignalNotMissed'
  BY DEF IInv, SignalNotMissed, IsSignaled, Closed, ClientIsClosing, PcOK, JobOK
<1> QED BY <1>8, <1>9, <1>10, <1>11, <1>12, <1>13, <1>14, <1>15, <1>16, <1>17 DEF IInv

\* ReceiveRequest fails: the request is not current any more, the next one is
\* announced.
LEMMA ReceiveFailsStep ==
    ASSUME IInv, NEW t \in Server, ReceiveFails(t)
    PROVE  IInv'
<1> USE DEF ReceiveFails, Move, NotifyAvailable, IsSignaled, listVars, requestVars, handleVars
<1>1. Queued \subseteq Request
  BY DEF IInv, TypeOK, Queued
<1>2. Queued' = Queued
  BY DEF Queued
<1>3. \A r \in Request : Live(r)' <=> Live(r)
  BY <1>2 DEF IInv, Live, BusyOK
<1>4. \A r \in Request : Sent(r)' <=> Sent(r)
  BY DEF Sent
<1>5. \A r \in Request : Reopened(r)' <=> Reopened(r)
  BY DEF Reopened
<1>6. \A r \in Request : refs'[r] = (One(Sent(r)) + One(Reopened(r)) + One(Live(r)))'
  BY <1>3, <1>4, <1>5 DEF IInv, CountOK, One
<1>7. \A c \in Client : pc'[c] = "sending" => refs'[job'[c]] = 0
  BY DEF IInv, CountOK
<1>8. TypeOK'
  BY DEF IInv, TypeOK
<1>9. PcOK'
  BY DEF IInv, PcOK, ClientPc, ServerPc
<1>10. LockOK'
  BY DEF IInv, LockOK, InLock
<1>11. JobOK'
  BY DEF IInv, JobOK
<1>12. CloseOK'
  BY DEF IInv, CloseOK, ClientClosing, ServerClosing, Closed
<1>13. BusyOK'
  BY DEF IInv, BusyOK, PcOK, LockOK, InLock
<1>14. PlaceOK'
  BY <1>2, <1>1 DEF IInv, PlaceOK, Answering, LockOK, InLock, BusyOK, JobOK
<1>15. CountOK'
  BY <1>6, <1>7 DEF CountOK
<1>16. WaitOK'
  BY <1>2 DEF IInv, WaitOK, Live
<1>17. SignalNotMissed'
  BY DEF IInv, SignalNotMissed, Closed, ClientIsClosing
<1> QED BY <1>8, <1>9, <1>10, <1>11, <1>12, <1>13, <1>14, <1>15, <1>16, <1>17 DEF IInv

\* SendReply takes the current request and announces the next.
LEMMA SendReplyTakeStep ==
    ASSUME IInv, NEW t \in Server, SendReplyTake(t)
    PROVE  IInv'
<1> USE DEF SendReplyTake, Move, NotifyAvailable, IsSignaled, listVars, requestVars, handleVars
<1>1. Queued \subseteq Request
  BY DEF IInv, TypeOK, Queued
<1>2. Queued' = Queued
  BY DEF Queued
<1>3. \A r \in Request : Live(r)' <=> Live(r)
  BY <1>2 DEF IInv, Live, TypeOK, JobOK
<1>4. \A r \in Request : Sent(r)' <=> Sent(r)
  BY DEF Sent
<1>5. \A r \in Request : Reopened(r)' <=> Reopened(r)
  BY DEF Reopened
<1>6. \A r \in Request : refs'[r] = (One(Sent(r)) + One(Reopened(r)) + One(Live(r)))'
  BY <1>3, <1>4, <1>5 DEF IInv, CountOK, One
<1>7. \A c \in Client : pc'[c] = "sending" => refs'[job'[c]] = 0
  BY DEF IInv, CountOK
<1>8. TypeOK'
  BY DEF IInv, TypeOK
<1>9. PcOK'
  BY DEF IInv, PcOK, ClientPc, ServerPc
<1>10. LockOK'
  BY DEF IInv, LockOK, InLock
<1>11. JobOK'
  BY DEF IInv, JobOK, TypeOK, PcOK, BusyOK
<1>12. CloseOK'
  BY DEF IInv, CloseOK, ClientClosing, ServerClosing, Closed
<1>13. BusyOK'
  BY DEF IInv, BusyOK, LockOK, InLock, PcOK
<1>14. PlaceOK'
  BY <1>2 DEF IInv, PlaceOK, Answering, TypeOK, JobOK, BusyOK
<1>15. CountOK'
  BY <1>6, <1>7 DEF CountOK
<1>16. WaitOK'
  BY <1>2 DEF IInv, WaitOK, Live
<1>17. SignalNotMissed'
  BY DEF IInv, SignalNotMissed, Closed, ClientIsClosing
<1> QED BY <1>8, <1>9, <1>10, <1>11, <1>12, <1>13, <1>14, <1>15, <1>16, <1>17 DEF IInv

\* Whoever answers a request ends the wait for it and closes it.
LEMMA ReplyStep ==
    ASSUME IInv, NEW t \in Server, ReceiveFailedReply(t) \/ SendReply(t) \/ CleanupReply(t)
    PROVE  IInv'
<1> USE DEF ReceiveFailedReply, SendReply, CleanupReply, Answer, Close, listVars, requestVars,
       handleVars
<1>1. Queued \subseteq Request
  BY DEF IInv, TypeOK, Queued
<1>2. Queued' = Queued
  BY DEF Queued
<1>3. Answering(t)
  BY DEF Answering
<1>4. job[t] \in Request /\ Live(job[t])
  BY <1>3, EndWaitStep DEF ServerPc
<1>5. \E W \in SUBSET Client, next \in {"again", "idle", "cleanup_next"} :
        /\ W \subseteq {job[t]}
        /\ \A c \in W : pc[c] = "request_wait"
        /\ next = "cleanup_next" <=> pc[t] = "cleanup_reply"
        /\ pc' = [u \in Client \cup Server |->
                    IF u = t THEN next ELSE IF u \in W THEN "returning" ELSE pc[u]]
  <2>1. ASSUME NEW next \in ServerPc
        PROVE  \E W \in SUBSET Client :
                 /\ W \subseteq {job[t]}
                 /\ \A c \in W : pc[c] = "request_wait"
                 /\ EndWait(job[t], Move(t, next)) =
                        [u \in Client \cup Server |->
                            IF u = t THEN next ELSE IF u \in W THEN "returning" ELSE pc[u]]
    BY <1>3, EndWaitStep
  <2>2. "again" \in ServerPc /\ "idle" \in ServerPc /\ "cleanup_next" \in ServerPc
    BY DEF ServerPc
  <2>3. CASE ReceiveFailedReply(t)
    <3>1. PICK next \in {"again", "idle"} : pc' = EndWait(job[t], Move(t, next))
      BY <2>3
    <3>2. pc[t] # "cleanup_reply" /\ next # "cleanup_next" /\ next \in ServerPc
      BY <2>2, <2>3
    <3> HIDE DEF ReceiveFailedReply
    <3>3. PICK W \in SUBSET Client :
            /\ W \subseteq {job[t]}
            /\ \A c \in W : pc[c] = "request_wait"
            /\ EndWait(job[t], Move(t, next)) =
                   [u \in Client \cup Server |->
                       IF u = t THEN next ELSE IF u \in W THEN "returning" ELSE pc[u]]
      BY <2>1, <3>2
    <3> QED BY <3>1, <3>2, <3>3
  <2>4. CASE SendReply(t)
    <3>1. pc' = EndWait(job[t], Move(t, "idle")) /\ pc[t] # "cleanup_reply"
      BY <2>4
    <3> QED BY <2>1, <2>2, <3>1
  <2>5. CASE CleanupReply(t)
    <3>1. pc' = EndWait(job[t], Move(t, "cleanup_next")) /\ pc[t] = "cleanup_reply"
      BY <2>5
    <3> QED BY <2>1, <2>2, <3>1
  <2> QED BY <2>3, <2>4, <2>5
<1>6. PICK W \in SUBSET Client, next \in {"again", "idle", "cleanup_next"} :
        /\ W \subseteq {job[t]}
        /\ \A c \in W : pc[c] = "request_wait"
        /\ next = "cleanup_next" <=> pc[t] = "cleanup_reply"
        /\ pc' = [u \in Client \cup Server |->
                    IF u = t THEN next ELSE IF u \in W THEN "returning" ELSE pc[u]]
  BY <1>5
<1>7. /\ pc[t] \in {"receive_failed", "reply_send", "cleanup_reply"}
      /\ refs' = [refs EXCEPT ![job[t]] = @ - 1]
      /\ job' = [job EXCEPT ![t] = None]
      /\ m_lock' = IF pc[t] = "cleanup_reply" THEN m_lock ELSE None
      /\ UNCHANGED <<m_atomic_state, m_request_list, m_current_request, m_thread, prev_request,
                     terminating, clientHandle, serverHandle>>
  OBVIOUS
<1>8. answered' \in [Request -> BOOLEAN]
  BY <1>4 DEF IInv, TypeOK, MayEndWait
<1> HIDE DEF ReceiveFailedReply, SendReply, CleanupReply
<1>9. \A r \in Request : Live(r)' <=> Live(r) /\ r # job[t]
  BY <1>2, <1>6, <1>7 DEF IInv, Live, TypeOK, JobOK, PlaceOK, LockOK, InLock, Answering
<1>10. \A r \in Request : Sent(r)' <=> Sent(r)
  BY <1>6, <1>7 DEF Sent
<1>11. \A r \in Request : Reopened(r)' <=> Reopened(r)
  BY <1>6, <1>7 DEF Reopened
<1>12. refs[job[t]] \in 1 .. 2
  <2>1. /\ refs[job[t]] =
                One(Sent(job[t])) + One(Reopened(job[t])) + One(Live(job[t]))
        /\ refs[job[t]] \in 0 .. 2
    BY <1>4 DEF IInv, TypeOK, CountOK
  <2> QED BY <1>4, <2>1 DEF One
<1>13. refs' \in [Request -> 0 .. 2]
  BY <1>4, <1>12, <1>7 DEF IInv, TypeOK
<1>14. \A r \in Request : refs'[r] = (One(Sent(r)) + One(Reopened(r)) + One(Live(r)))'
  BY <1>4, <1>7, <1>9, <1>10, <1>11 DEF IInv, CountOK, One, TypeOK
<1>15. \A c \in Client : pc'[c] = "sending" => refs'[job'[c]] = 0
  BY <1>6, <1>7, <1>12 DEF IInv, CountOK
<1>16. TypeOK'
  BY <1>7, <1>13, <1>8 DEF IInv, TypeOK
<1>17. PcOK'
  BY <1>6 DEF IInv, PcOK, ClientPc, ServerPc
<1>18. LockOK'
  BY <1>6, <1>7 DEF IInv, LockOK, InLock
<1>19. JobOK'
  BY <1>6, <1>7 DEF IInv, JobOK, TypeOK
<1>20. CloseOK'
  BY <1>6, <1>7 DEF IInv, CloseOK, ClientClosing, ServerClosing, Closed
<1>21. BusyOK'
  BY <1>6, <1>7 DEF IInv, BusyOK
<1>22. PlaceOK'
  BY <1>2, <1>1, <1>6, <1>7 DEF IInv, PlaceOK, Answering
<1>23. CountOK'
  BY <1>14, <1>15 DEF CountOK
<1>24. WaitOK'
  BY <1>2, <1>6, <1>7 DEF IInv, WaitOK, Live, TypeOK, JobOK, PlaceOK, Answering, LockOK, InLock
<1>25. SignalNotMissed'
  BY <1>6, <1>7 DEF IInv, SignalNotMissed, IsSignaled, Closed, ClientIsClosing
<1> QED BY <1>16, <1>17, <1>18, <1>19, <1>20, <1>21, <1>22, <1>23, <1>24, <1>25 DEF IInv

\* OnServerClosed begins: no other server thread is in a call.
LEMMA ServerClosingStep ==
    ASSUME IInv, NEW t \in Server, ServerDestroyBegin(t) \/ ServerSetState(t)
    PROVE  IInv'
<1> USE DEF ServerDestroyBegin, ServerSetState, Move, listVars, requestVars, handleVars
<1>1. Queued \subseteq Request
  BY DEF IInv, TypeOK, Queued
<1>2. Queued' = Queued
  BY DEF Queued
<1>3. \A r \in Request : Live(r)' <=> Live(r)
  BY <1>2 DEF IInv, Live, PcOK
<1>4. \A r \in Request : Sent(r)' <=> Sent(r)
  BY DEF IInv, Sent, PcOK
<1>5. \A r \in Request : Reopened(r)' <=> Reopened(r)
  BY DEF IInv, Reopened, PcOK
<1>6. \A r \in Request : refs'[r] = (One(Sent(r)) + One(Reopened(r)) + One(Live(r)))'
  BY <1>3, <1>4, <1>5 DEF IInv, CountOK, One
<1>7. \A c \in Client : pc'[c] = "sending" => refs'[job'[c]] = 0
  BY DEF IInv, CountOK, PcOK
<1>8. TypeOK'
  BY DEF IInv, TypeOK
<1>9. PcOK'
  BY DEF IInv, PcOK, ServerPc
<1>10. LockOK'
  BY DEF IInv, LockOK, InLock, PcOK
<1>11. JobOK'
  BY <1>1 DEF IInv, JobOK, PcOK
<1>12. CloseOK'
  BY DEF IInv, CloseOK, ClientClosing, ServerClosing, Closed, PcOK
<1>13. BusyOK'
  BY DEF IInv, BusyOK, PcOK
<1>14. PlaceOK'
  BY <1>2 DEF IInv, PlaceOK, Answering, PcOK
<1>15. CountOK'
  BY <1>6, <1>7 DEF CountOK
<1>16. WaitOK'
  BY <1>2 DEF IInv, WaitOK, Live, PcOK
<1>17. SignalNotMissed'
  BY DEF IInv, SignalNotMissed, PcOK, CloseOK, ServerClosing
<1> QED BY <1>8, <1>9, <1>10, <1>11, <1>12, <1>13, <1>14, <1>15, <1>16, <1>17 DEF IInv

\* CleanupRequests takes the current request, then those on the list.
LEMMA CleanupNextStep ==
    ASSUME IInv, NEW t \in Server, CleanupNext(t)
    PROVE  IInv'
<1> USE DEF CleanupNext, Move, listVars, requestVars, handleVars
<1>1. Queued \subseteq Request
  BY DEF IInv, TypeOK, Queued
<1>2. /\ Queued' = Queued \ {job'[t]} /\ job'[t] \in Request
      /\ job'[t] \in Queued \/ job'[t] = m_current_request
      /\ NoDuplicates(m_request_list') /\ m_request_list' \in Seq(Request)
  <2>1. /\ m_request_list \in Seq(Request) /\ NoDuplicates(m_request_list)
        /\ Queued = Elements(m_request_list)
    BY DEF IInv, TypeOK, PlaceOK, Queued, Elements
  <2>2. CASE m_current_request # None
    BY <2>2 DEF IInv, TypeOK, PlaceOK, Queued
  <2>3. CASE m_current_request = None
    <3>1. job'[t] = Head(m_request_list) /\ m_request_list # << >> /\ m_request_list' = Tail(m_request_list)
      BY <2>3 DEF IInv, TypeOK
    <3>2. /\ Head(m_request_list) \in Elements(m_request_list) /\ Tail(m_request_list) \in Seq(Request)
          /\ Head(m_request_list) \in Request
          /\ Elements(Tail(m_request_list)) = Elements(m_request_list) \ {Head(m_request_list)}
          /\ NoDuplicates(Tail(m_request_list))
      BY <2>1, <3>1, TailFacts
    <3> QED BY <2>1, <3>1, <3>2 DEF Queued, Elements
  <2> QED BY <2>2, <2>3
<1>3. m_current_request' = None /\ (m_current_request = None \/ job'[t] = m_current_request)
  BY DEF IInv, TypeOK
<1>4. None \notin Queued' /\ job'[t] \notin Queued'
  BY <1>2, <1>1
<1>5. \A r \in Request : Live(r)' <=> Live(r)
  BY <1>2 DEF IInv, Live, TypeOK, PcOK, JobOK, LockOK
<1>6. \A r \in Request : Sent(r)' <=> Sent(r)
  BY <1>2, <1>1, <1>3, <1>4 DEF IInv, Sent, TypeOK, PcOK, ClientPc, ServerPc, JobOK
<1>7. \A r \in Request : Reopened(r)' <=> Reopened(r)
  BY DEF IInv, Reopened, TypeOK
<1>8. \A r \in Request : refs'[r] = (One(Sent(r)) + One(Reopened(r)) + One(Live(r)))'
  BY <1>5, <1>6, <1>7 DEF IInv, CountOK, One
<1>9. \A c \in Client : pc'[c] = "sending" => refs'[job'[c]] = 0
  BY DEF IInv, CountOK, TypeOK
<1>10. TypeOK'
  BY <1>3 DEF IInv, TypeOK, JobOK
<1>11. PcOK'
  BY DEF IInv, PcOK, ServerPc
<1>12. LockOK'
  BY DEF IInv, LockOK, InLock
<1>13. JobOK'
  BY DEF IInv, JobOK, TypeOK, PcOK
<1>14. CloseOK'
  BY DEF IInv, CloseOK, ClientClosing, ServerClosing, Closed
<1>15. BusyOK'
  BY DEF IInv, BusyOK, CloseOK, ServerClosing
<1>16. PlaceOK'
  BY <1>2, <1>4 DEF IInv, PlaceOK, Answering, TypeOK, LockOK, InLock
<1>17. CountOK'
  BY <1>8, <1>9 DEF CountOK
<1>18. WaitOK'
  BY <1>2 DEF IInv, WaitOK, Live, TypeOK
<1>19. SignalNotMissed'
  BY DEF IInv, SignalNotMissed, CloseOK, ServerClosing
<1> QED BY <1>10, <1>11, <1>12, <1>13, <1>14, <1>15, <1>16, <1>17, <1>18, <1>19 DEF IInv

\* A client looks the session up for a request that does not exist yet.
LEMMA SendRequestStep ==
    ASSUME IInv, NEW c \in Client, NEW q \in Request, SendRequest(c, q)
    PROVE  IInv'
<1> USE DEF SendRequest, Move, listVars, requestVars, handleVars
<1>1. Queued' = Queued
  BY DEF Queued
<1>2. \A r \in Request : Live(r)' <=> Live(r)
  BY <1>1 DEF Live
<1>3. \A r \in Request : Sent(r)' <=> Sent(r)
  BY DEF Sent
<1>4. \A r \in Request : Reopened(r)' <=> Reopened(r)
  BY DEF Reopened
<1>5. TypeOK'
  BY DEF IInv, TypeOK
<1>6. PcOK'
  BY DEF IInv, PcOK, ClientPc
<1>7. LockOK'
  BY DEF IInv, LockOK, InLock
<1>8. JobOK'
  BY DEF IInv, JobOK, TypeOK, PcOK
<1>9. CloseOK'
  BY DEF IInv, CloseOK, ClientClosing, ServerClosing
<1>10. BusyOK'
  BY DEF IInv, BusyOK
<1>11. PlaceOK'
  BY <1>1 DEF IInv, PlaceOK, Answering
<1>12. CountOK'
  <2>1. \A r \in Request : refs'[r] = (One(Sent(r)) + One(Reopened(r)) + One(Live(r)))'
    BY <1>2, <1>3, <1>4 DEF IInv, CountOK, One
  <2>2. \A d \in Client : pc'[d] = "sending" => refs'[job'[d]] = 0
    BY DEF IInv, CountOK, TypeOK
  <2> QED BY <2>1, <2>2 DEF CountOK
<1>13. WaitOK'
  BY <1>2 DEF IInv, WaitOK
<1>14. SignalNotMissed'
  BY DEF IInv, SignalNotMissed, IsSignaled, Closed, ClientIsClosing
<1> QED BY <1>5, <1>6, <1>7, <1>8, <1>9, <1>10, <1>11, <1>12, <1>13, <1>14 DEF IInv

-----------------------------------------------------------------------------
\* A session starts with nothing sent and nobody waiting.
LEMMA InitIInv == Init => IInv
<1> SUFFICES ASSUME Init PROVE IInv
  OBVIOUS
<1> USE DEF Init
<1>1. TypeOK /\ PcOK /\ LockOK /\ JobOK
  BY DEF TypeOK, PcOK, ClientPc, ServerPc, LockOK, InLock, JobOK
<1>2. CloseOK /\ BusyOK /\ SignalNotMissed
  BY DEF CloseOK, ClientClosing, ServerClosing, BusyOK, SignalNotMissed
<1>3. Queued = {}
  BY DEF Queued
<1>4. PlaceOK
  BY <1>3 DEF PlaceOK, NoDuplicates, Answering
<1>5. \A r \in Request : ~Live(r) /\ ~Sent(r) /\ ~Reopened(r)
  BY <1>3 DEF Live, Sent, Reopened
<1>6. CountOK
  BY <1>5 DEF CountOK, One
<1>7. WaitOK
  BY <1>5 DEF WaitOK
<1> QED BY <1>1, <1>2, <1>4, <1>6, <1>7 DEF IInv

\* Every step of clients and servers keeps the invariant.
LEMMA NextIInv == IInv /\ [Next]_vars => IInv'
<1> SUFFICES ASSUME IInv, [Next]_vars PROVE IInv'
  OBVIOUS
<1>1. ASSUME NEW c \in Client, NEW r \in Request, SendRequest(c, r) PROVE IInv'
  BY <1>1, SendRequestStep
<1>2. ASSUME NEW c \in Client,
             ClientStep(c) \/ RequestTerminate(c) \/ CloseClientHandle(c) \/ ClientDestroyBegin(c)
      PROVE  IInv'
  BY <1>2, RefusedStep, OnRequestStep, SendReturnStep, TerminateStep, ClientClosingStep,
     ClientNextCurrentStep, ClientCurrentDoneStep, ClientNextQueuedStep, ClientQueuedDoneStep,
     ClientCloseEndStep DEF ClientStep
<1>3. ASSUME NEW s \in Server, ServerStep(s) \/ ReplyOutOfTurn(s) \/ ServerWaitTimeout(s)
                            \/ CloseServerHandle(s)
      PROVE  IInv'
  BY <1>3, ServerWaitStep, ServerLockStep, ServerUnlockStep, ReceivePopStep, ReceiveSetStep,
     ReceiveFailsStep, SendReplyTakeStep, ReplyStep, ServerClosingStep, CleanupNextStep DEF
     ServerStep
<1>4. CASE UNCHANGED vars
  <2> USE <1>4 DEF vars
  <2>1. TypeOK' /\ PcOK' /\ LockOK' /\ JobOK'
    BY DEF IInv, TypeOK, PcOK, LockOK, InLock, JobOK
  <2>2. CloseOK' /\ BusyOK' /\ SignalNotMissed'
    BY DEF IInv, CloseOK, ClientClosing, ServerClosing, Closed, BusyOK, SignalNotMissed,
       IsSignaled, ClientIsClosing
  <2>3. Queued' = Queued
    BY DEF Queued
  <2>4. PlaceOK'
    BY <2>3 DEF IInv, PlaceOK, Answering
  <2>5. \A r \in Request : /\ Live(r)' <=> Live(r)
                           /\ Sent(r)' <=> Sent(r)
                           /\ Reopened(r)' <=> Reopened(r)
    BY <2>3 DEF Live, Sent, Reopened
  <2>6. CountOK'
    BY <2>5 DEF IInv, CountOK, One
  <2>7. WaitOK'
    BY <2>5 DEF IInv, WaitOK
  <2> QED BY <2>1, <2>2, <2>4, <2>6, <2>7 DEF IInv
<1> QED BY <1>1, <1>2, <1>3, <1>4 DEF Next

\* The invariant holds in every behaviour.
LEMMA Invariance == Spec => []IInv
BY InitIInv, NextIInv, PTL DEF Spec

-----------------------------------------------------------------------------
\* KServerSession ends the wait of a client for the very request it answers:
\* SendReply, CleanupRequests and the failing ReceiveRequest never call EndWait
\* for a client that has gone on to something else.
THEOREM AnswersWaiterHolds == Spec => []AnswersWaiter
<1>1. IInv => AnswersWaiter
  <2> SUFFICES ASSUME IInv, NEW t \in Server, Answering(t), job[t] \in Client, MayEndWait(job[t])
               PROVE  pc[m_thread[job[t]]] = "request_wait"
    BY DEF AnswersWaiter
  <2>1. Live(job[t])
    BY DEF Live
  <2> QED BY <2>1 DEF IInv, WaitOK, MayEndWait
<1> QED BY <1>1, Invariance, PTL

\* KServerSession signals itself whenever a request or the end of the session
\* is there for a waiting thread: OnRequest on the first request, SendReply and
\* a failing ReceiveRequest on the next one, OnClientClosed at its end.
THEOREM SignalNotMissedHolds == Spec => []SignalNotMissed
<1>1. IInv => SignalNotMissed
  BY DEF IInv
<1> QED BY <1>1, Invariance, PTL

\* A set with at most one element has the size One says.
LEMMA CardinalityOne ==
    ASSUME NEW S, \A x, y \in S : x = y
    PROVE  Cardinality(S) = One(S # {})
<1>1. CASE S = {}
  BY <1>1, FS_EmptySet DEF One
<1>2. CASE S # {}
  <2> PICK x \in S : TRUE
    BY <1>2
  <2>1. S = {x}
    OBVIOUS
  <2> QED BY <2>1, FS_Singleton DEF One
<1> QED BY <1>1, <1>2

\* A KSessionRequest is destroyed exactly when sender, session and
\* OnClientClosed are done with it, and every variable of the session keeps its
\* type: the reference count never exceeds two.
THEOREM RequestsAreCountedHolds == Spec => []RequestsAreCounted
<1>1. IInv => RequestsAreCounted
  <2> SUFFICES ASSUME IInv, NEW r \in Request PROVE refs[r] = References(r)
    BY DEF IInv, RequestsAreCounted
  <2> DEFINE senders == {c \in Client : job[c] = r /\ pc[c] \in {"request_wait", "returning"}}
             closers == {c \in Client : job[c] = r /\ pc[c] = "client_current"}
  <2>1. Cardinality(senders) = One(Sent(r))
    <3>1. \A x, y \in senders : x = y
      BY DEF IInv, JobOK
    <3>2. (senders # {}) <=> Sent(r)
      BY DEF Sent
    <3> QED BY <3>1, <3>2, CardinalityOne DEF One
  <2>2. Cardinality(closers) = One(Reopened(r))
    <3>1. \A x, y \in closers : x = y
      BY DEF IInv, JobOK
    <3>2. (closers # {}) <=> Reopened(r)
      BY DEF Reopened
    <3> QED BY <3>1, <3>2, CardinalityOne DEF One
  <2>3. References(r) = Cardinality(senders) + Cardinality(closers) + One(Live(r))
    BY DEF References, Live, One
  <2> QED BY <2>1, <2>2, <2>3 DEF IInv, CountOK
<1> QED BY <1>1, Invariance, PTL

-----------------------------------------------------------------------------
(***************************************************************************)
(* m_lock of KServerSession is a KLightLock, and KSession takes it for a   *)
(* mutex.  Here is what that rests on, for any number of threads and any   *)
(* set of suspend types: as long as no termination is requested the lock   *)
(* is a mutex; whatever is requested, its state is well typed.             *)
(***************************************************************************)

\* The owner named by the tag, and nobody else, is inside the lock or has been
\* woken to enter it; sleepers, and only they, are on a waiter list, the
\* owner's; what a thread brings to LockSlowPath is a tag of some owner with
\* the has-waiters bit, never its own.
LockOwns(t) == Inside(t) \/ (lockPc[t] = "wait" /\ state[t] = "Runnable")

LockInv ==
    /\ LockTypeOK
    /\ \A t \in Thread : LockOwns(t) <=> tag.owner = t
    /\ \A t \in Thread : state[t] = "Waiting" => lockPc[t] = "wait"
    /\ \A t \in Thread : state[t] = "Waiting" <=> lockOwner[t] # NoThread
    /\ SleepersRegistered
    /\ \A t \in Thread : lockPc[t] = "lock_slow" =>
            seen[t].waiters /\ seen[t].owner \in Thread \ {t}

\* An owner with either value of the has-waiters bit is a tag, and the owner of
\* a tag other than the free one is a thread (the encoding of m_tag).
LEMMA LockTagFacts ==
    /\ \A t \in Thread, b \in BOOLEAN : [owner |-> t, waiters |-> b] \in Tag
    /\ \A g \in Tag : g # Free => g.owner \in Thread /\ g.waiters \in BOOLEAN
    /\ \A g \in Tag : g.owner \in Thread \cup {NoThread}
    /\ \A g \in Tag : g.owner = NoThread <=> g = Free
<1>1. \A t \in Thread, b \in BOOLEAN : [owner |-> t, waiters |-> b] \in [owner : Thread, waiters : BOOLEAN]
  OBVIOUS
<1>2. \A g \in [owner : Thread, waiters : BOOLEAN] : g.owner \in Thread /\ g.waiters \in BOOLEAN
  OBVIOUS
<1>3. Free.owner = NoThread
  BY DEF Free
<1> QED BY <1>1, <1>2, <1>3, NoThreadAssumption DEF Tag

\* The state of the lock and of its threads keeps its type in every behaviour,
\* terminations included (KLightLock and KThread member types).
THEOREM LockTypeCorrect == LockSpec => []LockTypeOK
<1>1. LockInit => LockTypeOK
  BY DEF LockInit, LockTypeOK, Tag, Free
<1>2. LockTypeOK /\ [LockNext]_lockVars => LockTypeOK'
  <2> SUFFICES ASSUME LockTypeOK, [LockNext]_lockVars PROVE LockTypeOK'
    OBVIOUS
  <2>1. ASSUME NEW t \in Thread, LockCompareExchange(t) PROVE LockTypeOK'
    <3>1. tag' \in Tag
      <4>1. CASE tag = Free
        <5>1. tag' = [owner |-> t, waiters |-> FALSE]
          BY <2>1, <4>1 DEF LockCompareExchange
        <5> QED BY <5>1, LockTagFacts
      <4>2. CASE tag # Free
        <5>1. tag' = [owner |-> tag.owner, waiters |-> TRUE]
          BY <2>1, <4>2 DEF LockCompareExchange
        <5> QED BY <4>2, <5>1, LockTagFacts DEF LockTypeOK
      <4> QED BY <4>1, <4>2
    <3> QED BY <2>1, <3>1 DEF LockCompareExchange, LockTypeOK
  <2>2. ASSUME NEW t \in Thread, LockSlowPathRetry(t) PROVE LockTypeOK'
    BY <2>2 DEF LockSlowPathRetry, LockTypeOK, Tag
  <2>3. ASSUME NEW t \in Thread, LockSlowPathWait(t) PROVE LockTypeOK'
    <3>1. seen[t].owner \in Thread \cup {NoThread}
      BY DEF LockTypeOK, Tag, Free
    <3> QED BY <2>3, <3>1 DEF LockSlowPathWait, LockTypeOK, Tag
  <2>4. ASSUME NEW t \in Thread, LockReturn(t) PROVE LockTypeOK'
    BY <2>4 DEF LockReturn, LockTypeOK
  <2>5. ASSUME NEW t \in Thread, UnlockCompareExchange(t) PROVE LockTypeOK'
    BY <2>5 DEF UnlockCompareExchange, LockTypeOK, Tag
  <2>6. ASSUME NEW t \in Thread, NEW n, NEW R PROVE SuspendedAfterUnlock(t, n, R) \in [Thread -> SUBSET SuspendType]
    BY DEF SuspendedAfterUnlock, SuspendFlags, IsSuspended, LockTypeOK
  <2>7. ASSUME NEW t \in Thread, UnlockSlowPathFree(t) PROVE LockTypeOK'
    BY <2>6, <2>7 DEF UnlockSlowPathFree, LockTypeOK, Tag
  <2>8. ASSUME NEW t \in Thread, UnlockSlowPathPass(t) PROVE LockTypeOK'
    <3> PICK n \in KernelWaiters(t) :
          LET rest == KernelWaiters(t) \ {n} IN
            /\ lockOwner' = [w \in Thread |-> IF w = n THEN NoThread
                                              ELSE IF w \in rest THEN n
                                              ELSE lockOwner[w]]
            /\ state' = [state EXCEPT ![n] = "Runnable"]
            /\ suspended' = SuspendedAfterUnlock(t, n, rest)
            /\ tag' = NextTag(n, rest)
      BY <2>8 DEF UnlockSlowPathPass
    <3>1. n \in Thread
      BY DEF KernelWaiters
    <3>2. lockOwner' \in [Thread -> Thread \cup {NoThread}] /\ state' \in [Thread -> {"Runnable", "Waiting"}]
      BY <3>1 DEF LockTypeOK
    <3>3. tag' \in Tag
      BY <3>1 DEF NextTag, Tag
    <3> QED BY <2>6, <2>8, <3>2, <3>3 DEF UnlockSlowPathPass, LockTypeOK
  <2>9. ASSUME NEW t \in Thread, NEW y \in SuspendType, RequestSuspend(t, y) PROVE LockTypeOK'
    BY <2>9 DEF RequestSuspend, LockTypeOK
  <2>10. ASSUME NEW t \in Thread, NEW y \in SuspendType, Resume(t, y) PROVE LockTypeOK'
    BY <2>10 DEF Resume, LockTypeOK
  <2>11. ASSUME NEW t \in Terminable, RequestTermination(t) PROVE LockTypeOK'
    BY <2>11, TerminableAssumption DEF RequestTermination, LockTypeOK
  <2>12. CASE UNCHANGED lockVars
    BY <2>12 DEF lockVars, LockTypeOK
  <2> QED
    BY <2>1, <2>2, <2>3, <2>4, <2>5, <2>7, <2>8, <2>9, <2>10, <2>11, <2>12 DEF LockNext, Step
<1> QED BY <1>1, <1>2, PTL DEF LockSpec

-----------------------------------------------------------------------------
\* RequestTerminate leaves m_termination_requested set, and nothing resets it.
LEMMA TerminationIsSeen ==
    ASSUME LockTypeOK
    PROVE  /\ \A t \in Terminable : RequestTermination(t) => ~NoTermination'
           /\ [LockNext]_lockVars /\ NoTermination' => NoTermination
<1> USE TerminableAssumption DEF LockTypeOK, NoTermination
<1>1. \A t \in Terminable : RequestTermination(t) => ~NoTermination'
  BY DEF RequestTermination
<1>2. ASSUME NEW t \in Thread, Step(t) PROVE terminationRequested' = terminationRequested
  BY <1>2 DEF Step, LockCompareExchange, LockSlowPathRetry, LockSlowPathWait, LockReturn,
     UnlockCompareExchange, UnlockSlowPathFree, UnlockSlowPathPass
<1>3. ASSUME NEW t \in Thread, NEW y \in SuspendType, RequestSuspend(t, y) \/ Resume(t, y)
      PROVE  terminationRequested' = terminationRequested
  BY <1>3 DEF RequestSuspend, Resume
<1>4. UNCHANGED lockVars => terminationRequested' = terminationRequested
  BY DEF lockVars
<1> QED BY <1>1, <1>2, <1>3, <1>4 DEF LockNext

\* Every step of the lock's users keeps LockInv when no wait is cancelled: one
\* owner, registered sleepers, no stale owner on the slow path.
LEMMA LockInvStep == ASSUME LockInv, LockTypeOK', [LockNext]_lockVars, NoTermination' PROVE LockInv'
<1> USE NoThreadAssumption DEF LockOwns, Inside
<1>0. /\ LockTypeOK
      /\ tag.owner \in Thread \cup {NoThread}
      /\ tag.owner = NoThread <=> tag = Free
  BY LockTagFacts DEF LockInv, LockTypeOK
<1>1. ASSUME NEW t \in Thread, LockCompareExchange(t) PROVE LockInv'
  <2>1. CASE tag = Free
    <3>1. tag' = [owner |-> t, waiters |-> FALSE] /\ tag'.owner = t
      BY <1>1, <2>1 DEF LockCompareExchange
    <3>2. \A u \in Thread : state[u] = "Runnable"
      BY <2>1 DEF LockInv, SleepersRegistered, LockTypeOK, Free
    <3> QED BY <1>0, <1>1, <2>1, <3>1, <3>2 DEF LockCompareExchange, LockInv, SleepersRegistered, LockTypeOK, Free
  <2>2. CASE tag # Free
    <3>1. tag' = [owner |-> tag.owner, waiters |-> TRUE] /\ tag'.owner = tag.owner /\ tag'.waiters
      BY <1>1, <2>2 DEF LockCompareExchange
    <3>2. tag.owner \in Thread \ {t}
      BY <1>0, <1>1, <2>2 DEF LockCompareExchange, LockInv
    <3> QED BY <1>0, <1>1, <2>2, <3>1, <3>2 DEF LockCompareExchange, LockInv, SleepersRegistered, LockTypeOK
  <2> QED BY <2>1, <2>2
<1>2. ASSUME NEW t \in Thread, LockSlowPathRetry(t) PROVE LockInv'
  BY <1>0, <1>2 DEF LockSlowPathRetry, LockInv, SleepersRegistered, LockTypeOK
<1>3. ASSUME NEW t \in Thread, LockSlowPathWait(t) PROVE LockInv'
  <2>1. seen[t].owner = tag.owner /\ tag.waiters /\ tag.owner \in Thread \ {t}
    BY <1>3 DEF LockSlowPathWait, OwnerUnchanged, LockInv
  <2> QED BY <1>0, <1>3, <2>1 DEF LockSlowPathWait, LockInv, SleepersRegistered, LockTypeOK
<1>4. ASSUME NEW t \in Thread, LockReturn(t) PROVE LockInv'
  BY <1>0, <1>4 DEF LockReturn, LockInv, SleepersRegistered, LockTypeOK
<1>5. ASSUME NEW t \in Thread, UnlockCompareExchange(t) PROVE LockInv'
  <2>1. CASE tag = [owner |-> t, waiters |-> FALSE]
    <3>1. \A u \in Thread : state[u] # "Waiting"
      BY <2>1 DEF LockInv, SleepersRegistered
    <3>2. tag' = Free /\ tag'.owner = NoThread /\ tag.owner = t
      BY <1>5, <2>1 DEF UnlockCompareExchange, Free
    <3> QED BY <1>0, <1>5, <2>1, <3>1, <3>2 DEF UnlockCompareExchange, LockInv, SleepersRegistered, LockTypeOK
  <2>2. CASE tag # [owner |-> t, waiters |-> FALSE]
    BY <1>0, <1>5, <2>2 DEF UnlockCompareExchange, LockInv, SleepersRegistered, LockTypeOK
  <2> QED BY <2>1, <2>2
<1>6. ASSUME NEW t \in Thread, UnlockSlowPathFree(t) PROVE LockInv'
  <2>1. tag.owner = t
    BY <1>6 DEF UnlockSlowPathFree, LockInv
  <2>2. \A u \in Thread : state[u] # "Waiting"
    BY <1>6, <2>1 DEF UnlockSlowPathFree, KernelWaiters, LockInv, SleepersRegistered
  <2>3. tag' = Free /\ tag'.owner = NoThread
    BY <1>6 DEF UnlockSlowPathFree, Free
  <2> QED BY <1>0, <1>6, <2>1, <2>2, <2>3 DEF UnlockSlowPathFree, LockInv, SleepersRegistered, LockTypeOK
<1>7. ASSUME NEW t \in Thread, UnlockSlowPathPass(t) PROVE LockInv'
  <2> PICK n \in KernelWaiters(t) :
        LET rest == KernelWaiters(t) \ {n} IN
          /\ lockOwner' = [w \in Thread |-> IF w = n THEN NoThread
                                            ELSE IF w \in rest THEN n
                                            ELSE lockOwner[w]]
          /\ state' = [state EXCEPT ![n] = "Runnable"]
          /\ tag' = NextTag(n, rest)
    BY <1>7 DEF UnlockSlowPathPass
  <2> DEFINE rest == KernelWaiters(t) \ {n}
  <2>1. n \in Thread \ {t} /\ tag.owner = t
    BY <1>7 DEF UnlockSlowPathPass, KernelWaiters, LockInv
  <2>2. tag'.owner = n /\ tag'.waiters = (rest # {})
    BY DEF NextTag
  <2>3. KernelWaiters(t) = {u \in Thread : state[u] = "Waiting"}
    BY <2>1 DEF KernelWaiters, LockInv, SleepersRegistered
  <2>4. \A u \in Thread : state'[u] = "Waiting" <=> u \in rest
    BY <1>0, <2>1, <2>3 DEF LockTypeOK
  <2>5. \A u \in Thread : lockOwner'[u] = IF u \in rest THEN n ELSE NoThread
    BY <1>0, <2>1, <2>3 DEF LockInv, LockTypeOK
  <2>6. lockPc[n] = "wait" /\ state'[n] = "Runnable" /\ lockPc'[n] = "wait"
    BY <1>0, <1>7, <2>1, <2>3 DEF UnlockSlowPathPass, LockInv, LockTypeOK
  <2>7. \A u \in Thread : LockOwns(u)' <=> u = n
    BY <1>0, <1>7, <2>1, <2>3, <2>6 DEF UnlockSlowPathPass, LockInv, LockTypeOK
  <2>8. SleepersRegistered'
    BY <2>2, <2>4, <2>5 DEF SleepersRegistered
  <2>9. \A u \in Thread : state'[u] = "Waiting" => lockPc'[u] = "wait"
    BY <1>0, <1>7, <2>3, <2>4 DEF UnlockSlowPathPass, LockInv, LockTypeOK
  <2>10. \A u \in Thread : state'[u] = "Waiting" <=> lockOwner'[u] # NoThread
    BY <2>1, <2>4, <2>5
  <2>11. \A u \in Thread : lockPc'[u] = "lock_slow" => lockPc[u] = "lock_slow" /\ seen'[u] = seen[u]
    BY <1>0, <1>7 DEF UnlockSlowPathPass, LockTypeOK
  <2> QED BY <2>1, <2>2, <2>7, <2>8, <2>9, <2>10, <2>11 DEF LockInv
<1>8. ASSUME NEW t \in Thread, NEW y \in SuspendType, RequestSuspend(t, y) \/ Resume(t, y) PROVE LockInv'
  BY <1>8 DEF RequestSuspend, Resume, LockInv, SleepersRegistered
<1>9. CASE UNCHANGED lockVars
  BY <1>9 DEF lockVars, LockInv, SleepersRegistered
<1> QED
  BY <1>0, <1>1, <1>2, <1>3, <1>4, <1>5, <1>6, <1>7, <1>8, <1>9, TerminationIsSeen DEF LockNext, Step

\* Until a termination is requested LockInv holds.
LEMMA LockInvHolds == LockSpec => [](NoTermination => LockInv)
<1>1. LockInit => LockInv
  BY NoThreadAssumption DEF LockInit, LockInv, LockTypeOK, Tag, Free, LockOwns, Inside, SleepersRegistered
<1>2. LockTypeOK /\ LockTypeOK' /\ (NoTermination => LockInv) /\ [LockNext]_lockVars => (NoTermination => LockInv)'
  BY LockInvStep, TerminationIsSeen
<1> QED BY <1>1, <1>2, LockTypeCorrect, PTL DEF LockSpec

\* A thread Lock() returned to is the thread m_tag names, so two threads are
\* never inside together, however many threads compete and are suspended or
\* resumed meanwhile, until a thread is told to terminate.
THEOREM MutualExclusionHolds == LockSpec => []MutualExclusion
<1>1. (NoTermination => LockInv) => MutualExclusion
  BY DEF LockInv, MutualExclusion, LockOwns
<1> QED BY <1>1, LockInvHolds, PTL

\* A thread asleep on the lock is on the list of its present owner, whose
\* Unlock() must take the slow path: no wake-up is lost.
THEOREM NoForgottenWaiterHolds == LockSpec => []NoForgottenWaiter
<1>1. (NoTermination => LockInv) => NoForgottenWaiter
  BY DEF LockInv, NoForgottenWaiter
<1> QED BY <1>1, LockInvHolds, PTL

\* KLightLock implements the abstract mutex: every step on the tag and on the
\* waiter lists acquires, blocks, releases or passes on, or changes neither
\* the holder nor the set of blocked threads, until a termination is requested.
THEOREM RefinesMutex == LockSpec => ImplementsMutex
<1> DEFINE Blocked == {t \in Thread : state[t] = "Waiting"}
<1> USE NoThreadAssumption DEF LockOwns, Inside
<1>1. LockInit => AbstractMutex!Init
  BY DEF LockInit, AbstractMutex!Init, Free
<1>2. LockTypeOK /\ LockTypeOK' /\ (NoTermination => LockInv) /\ [LockNext]_lockVars
        => [NoTermination' => AbstractMutex!Next]_(AbstractMutex!vars)
  <2> SUFFICES ASSUME LockInv, LockTypeOK', [LockNext]_lockVars, NoTermination'
               PROVE  AbstractMutex!Next \/ (tag.owner' = tag.owner /\ Blocked' = Blocked)
    BY TerminationIsSeen DEF AbstractMutex!vars
  <2>0. LockTypeOK /\ (tag.owner = NoThread <=> tag = Free) /\ tag.owner \in Thread \cup {NoThread}
    BY LockTagFacts DEF LockInv, LockTypeOK
  <2>1. ASSUME NEW t \in Thread, LockCompareExchange(t)
        PROVE  AbstractMutex!Acquire(t) \/ (tag.owner' = tag.owner /\ Blocked' = Blocked)
    <3>1. Blocked' = Blocked /\ t \notin Blocked
      BY <2>1 DEF LockCompareExchange
    <3>2. tag = Free => tag.owner = NoThread /\ tag'.owner = t
      BY <2>1 DEF LockCompareExchange, Free
    <3>3. tag # Free => tag'.owner = tag.owner
      BY <2>1 DEF LockCompareExchange
    <3> QED BY <3>1, <3>2, <3>3 DEF AbstractMutex!Acquire
  <2>2. ASSUME NEW t \in Thread, LockSlowPathWait(t) PROVE AbstractMutex!Block(t)
    <3>1. tag.owner \in Thread \ {t} /\ tag' = tag
      BY <2>2 DEF LockSlowPathWait, OwnerUnchanged, LockInv
    <3>2. t \notin Blocked /\ Blocked' = Blocked \cup {t}
      BY <2>0, <2>2 DEF LockSlowPathWait, LockTypeOK
    <3> QED BY <3>1, <3>2 DEF AbstractMutex!Block
  <2>3. ASSUME NEW t \in Thread, UnlockCompareExchange(t)
        PROVE  AbstractMutex!Release(t) \/ (tag.owner' = tag.owner /\ Blocked' = Blocked)
    <3>1. CASE tag = [owner |-> t, waiters |-> FALSE]
      <4>1. tag.owner = t /\ tag'.owner = NoThread /\ Blocked = {} /\ Blocked' = {}
        BY <2>3, <3>1 DEF UnlockCompareExchange, Free, LockInv, SleepersRegistered
      <4> QED BY <4>1 DEF AbstractMutex!Release
    <3>2. CASE tag # [owner |-> t, waiters |-> FALSE]
      BY <2>3, <3>2 DEF UnlockCompareExchange
    <3> QED BY <3>1, <3>2
  <2>4. ASSUME NEW t \in Thread, UnlockSlowPathFree(t) PROVE AbstractMutex!Release(t)
    <3>1. tag.owner = t
      BY <2>4 DEF UnlockSlowPathFree, LockInv
    <3>2. Blocked = {} /\ Blocked' = {} /\ tag'.owner = NoThread
      BY <2>4, <3>1 DEF UnlockSlowPathFree, KernelWaiters, LockInv, SleepersRegistered, Free
    <3> QED BY <3>1, <3>2 DEF AbstractMutex!Release
  <2>5. ASSUME NEW t \in Thread, UnlockSlowPathPass(t) PROVE AbstractMutex!Release(t)
    <3> PICK n \in KernelWaiters(t) :
          /\ state' = [state EXCEPT ![n] = "Runnable"]
          /\ tag' = NextTag(n, KernelWaiters(t) \ {n})
      BY <2>5 DEF UnlockSlowPathPass
    <3>1. tag.owner = t /\ tag'.owner = n
      BY <2>5 DEF UnlockSlowPathPass, NextTag, LockInv
    <3>2. n \in Blocked /\ Blocked' = Blocked \ {n}
      BY <2>0 DEF KernelWaiters, LockInv, LockTypeOK
    <3> QED BY <3>1, <3>2 DEF AbstractMutex!Release
  <2>6. ASSUME NEW t \in Thread, LockSlowPathRetry(t) \/ LockReturn(t)
        PROVE  tag.owner' = tag.owner /\ Blocked' = Blocked
    BY <2>6 DEF LockSlowPathRetry, LockReturn
  <2>7. ASSUME NEW t \in Thread, NEW y \in SuspendType, RequestSuspend(t, y) \/ Resume(t, y)
        PROVE  tag.owner' = tag.owner /\ Blocked' = Blocked
    BY <2>7 DEF RequestSuspend, Resume
  <2>8. CASE UNCHANGED lockVars
    BY <2>8 DEF lockVars
  <2> QED
    BY <2>0, <2>1, <2>2, <2>3, <2>4, <2>5, <2>6, <2>7, <2>8, TerminationIsSeen DEF LockNext, Step, AbstractMutex!Next
<1> QED BY <1>1, <1>2, LockInvHolds, LockTypeCorrect, PTL DEF LockSpec, ImplementsMutex

-----------------------------------------------------------------------------
\* The suspend bits of a thread's state are among the suspensions in force, so
\* that whoever asks IsSuspended() does not miss them.
LockSuspendInv ==
    /\ LockTypeOK
    /\ \A t \in Thread : suspended[t] \subseteq SuspendFlags(t)

\* No step leaves a thread suspended that others wait for in the kernel, unless
\* it was so before or the step resumes one of its suspensions: TrySuspend and
\* ContinueIfHasKernelWaiters, terminations included, for any number of threads
\* and of suspend types.
THEOREM WaitersKeepOwnerRunningHolds == LockSpec => WaitersKeepOwnerRunning
<1> USE NoThreadAssumption DEF SuspendFlags, IsSuspended, KernelWaiters
<1>1. LockInit => LockSuspendInv
  BY DEF LockInit, LockSuspendInv, LockTypeOK, Tag, Free
<1> DEFINE Good == LockSuspendInv' /\ NoOwnerSuspended
<1>2. ASSUME LockSuspendInv, LockTypeOK', [LockNext]_lockVars PROVE Good
  <2> USE <1>2 DEF LockSuspendInv, LockTypeOK, SuspendedOwner, NoOwnerSuspended
  <2>1. ASSUME NEW t \in Thread,
               LockCompareExchange(t) \/ LockSlowPathRetry(t) \/ LockReturn(t) \/ UnlockCompareExchange(t)
        PROVE  Good
    BY <2>1 DEF LockCompareExchange, LockSlowPathRetry, LockReturn, UnlockCompareExchange
  <2>2. ASSUME NEW t \in Thread, LockSlowPathWait(t) PROVE Good
    BY <2>2 DEF LockSlowPathWait
  <2>3. ASSUME NEW t \in Thread, UnlockSlowPathFree(t) PROVE Good
    BY <2>3 DEF UnlockSlowPathFree, SuspendedAfterUnlock
  <2>4. ASSUME NEW t \in Thread, UnlockSlowPathPass(t) PROVE Good
    BY <2>4 DEF UnlockSlowPathPass, SuspendedAfterUnlock
  <2>5. ASSUME NEW t \in Thread, NEW y \in SuspendType, RequestSuspend(t, y) PROVE Good
    BY <2>5 DEF RequestSuspend
  <2>6. ASSUME NEW t \in Thread, NEW y \in SuspendType, Resume(t, y) PROVE Good
    <3>1. LockSuspendInv'
      BY <2>6 DEF Resume
    <3>2. \A u \in Thread \ {t} : SuspendedOwner(u)' => SuspendedOwner(u)
      BY <2>6 DEF Resume
    <3> QED BY <2>6, <3>1, <3>2
  <2>7. ASSUME NEW t \in Terminable, RequestTermination(t) PROVE Good
    BY <2>7, TerminableAssumption DEF RequestTermination
  <2>8. CASE UNCHANGED lockVars
    BY <2>8 DEF lockVars
  <2> HIDE DEF Good
  <2>9. ASSUME NEW t \in Thread, Step(t) PROVE Good
    BY <2>1, <2>2, <2>3, <2>4, <2>9, Zenon DEF Step
  <2>10. CASE LockNext
    BY <2>5, <2>6, <2>7, <2>9, <2>10, Zenon DEF LockNext
  <2> QED BY <1>2, <2>8, <2>10, Zenon
<1>3. LockSuspendInv /\ LockTypeOK' /\ [LockNext]_lockVars => LockSuspendInv'
  BY <1>2
<1>4. LockSuspendInv /\ LockTypeOK' /\ [LockNext]_lockVars => [NoOwnerSuspended]_lockVars
  BY <1>2
<1> QED BY <1>1, <1>3, <1>4, LockTypeCorrect, PTL DEF LockSpec, WaitersKeepOwnerRunning
=============================================================================
