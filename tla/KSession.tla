------------------------------ MODULE KSession ------------------------------
(***************************************************************************)
(* One KSession: KClientSession and the requests sent through it, and      *)
(* KServerSession, which receives and answers them (k_server_session.cpp,  *)
(* k_session.cpp, k_client_session.cpp, svc_ipc.cpp).  Clients send        *)
(* synchronous and asynchronous requests and may be terminated while they  *)
(* wait; server threads wait for the session, receive and reply; each side *)
(* may close its end at any time.                                          *)
(*                                                                         *)
(* A section under the scheduler lock is one action.  m_lock, a            *)
(* KLightLock, is held over several of them and is taken here for the      *)
(* mutual exclusion that KLightLock provides as long as no termination     *)
(* cancels a wait for it: RequestTerminate finds its thread running or     *)
(* waiting for a reply.  m_atomic_state is read and written outside both.  *)
(***************************************************************************)
EXTENDS Naturals, Sequences, FiniteSets

CONSTANTS
    Client,     \* client threads; a synchronous request is named by its thread
    Event,      \* asynchronous requests, named by their event
    Server,     \* server threads
    None        \* no request, no thread

ASSUME NoneAssumption == None \notin Client \cup Event \cup Server

ASSUME DisjointAssumption ==
    Client \cap Event = {} /\ Client \cap Server = {} /\ Event \cap Server = {}

Request == Client \cup Event

VARIABLES
    m_atomic_state,     \* KSession: "Normal", "ClientClosed" or "ServerClosed"
    m_request_list,
    m_current_request,
    m_lock,             \* the thread that holds it
    refs,               \* reference count of each request; 0 when it does not exist
    m_thread,           \* KSessionRequest::m_thread; None once cleared
    answered,           \* the request's event was signaled, its wait was ended
    pc,                 \* what each thread is doing
    job,                \* the request each thread works on
    prev_request,       \* OnClientClosed's
    terminating,        \* IsTerminationRequested of the clients
    clientHandle,       \* the client's handle is open
    serverHandle        \* the server's handle is open

vars == <<m_atomic_state, m_request_list, m_current_request, m_lock, refs, m_thread, answered,
          pc, job, prev_request, terminating, clientHandle, serverHandle>>

listVars == <<m_request_list, m_current_request>>

requestVars == <<refs, m_thread, answered>>

handleVars == <<terminating, clientHandle, serverHandle>>

Init ==
    /\ m_atomic_state = "Normal"
    /\ m_request_list = << >>
    /\ m_current_request = None
    /\ m_lock = None
    /\ refs = [r \in Request |-> 0]
    /\ m_thread = [r \in Request |-> None]
    /\ answered = [r \in Request |-> FALSE]
    /\ pc = [t \in Client \cup Server |-> "idle"]
    /\ job = [t \in Client \cup Server |-> None]
    /\ prev_request = None
    /\ terminating = [c \in Client |-> FALSE]
    /\ clientHandle = TRUE
    /\ serverHandle = TRUE

-----------------------------------------------------------------------------
\* IsClientClosed and IsServerClosed are the same test.
Closed == m_atomic_state # "Normal"

\* KServerSession::IsSignaled, for given contents.
IsSignaled(list, current) == Closed \/ (list # << >> /\ current = None)

\* NotifyAvailable: every thread that waits for the session is woken, to go
\* on with ReceiveRequest, or to return when the result is an error.
NotifyNobody(pcs, list, current, next) == pcs
NotifyAvailable(pcs, list, current, next) ==
    IF IsSignaled(list, current)
    THEN [t \in Client \cup Server |-> IF pcs[t] = "server_wait" THEN next ELSE pcs[t]]
    ELSE pcs

\* The program counters with one moved on.
Move(t, next) == [pc EXCEPT ![t] = next]

\* EndWait for the thread of a synchronous request, unless it is terminating;
\* Signal for the event of an asynchronous one.
MayEndWaitAny(r) == m_thread[r] # None
MayEndWait(r) == m_thread[r] # None /\ ~terminating[m_thread[r]]

EndWaitLost(r, pcs) == pcs
EndWait(r, pcs) ==
    IF r \in Client /\ MayEndWait(r) THEN [pcs EXCEPT ![m_thread[r]] = "returning"] ELSE pcs

Answer(r) ==
    answered' = [answered EXCEPT ![r] = @ \/ (IF r \in Client THEN MayEndWait(r)
                                              ELSE m_thread[r] # None)]

\* KSessionRequest::Open and Close.
Open(r) == [refs EXCEPT ![r] = @ + 1]

CloseNever(r) == refs
Close(r) == [refs EXCEPT ![r] = @ - 1]

-----------------------------------------------------------------------------
(* Clients *)

\* The system call has looked the session up and holds a reference to it.
SendRequest(c, r) ==
    /\ pc[c] = "idle" /\ ~terminating[c]
    /\ clientHandle
    /\ r = c \/ r \in Event
    /\ refs[r] = 0
    /\ \A d \in Client : job[d] # r
    /\ job' = [job EXCEPT ![c] = r]
    /\ pc' = Move(c, "sending")
    /\ UNCHANGED <<m_atomic_state, listVars, m_lock, requestVars, prev_request, handleVars>>

\* OnRequest refuses the request; Create and Close of it come to nothing.
OnRequestRefused(c) ==
    /\ pc[c] = "sending"
    /\ Closed \/ terminating[c]
    /\ pc' = Move(c, "idle")
    /\ job' = [job EXCEPT ![c] = None]
    /\ UNCHANGED <<m_atomic_state, listVars, m_lock, requestVars, prev_request, handleVars>>

\* OnRequest queues it.  The references are the sender's and the list's; the
\* sender of a synchronous request waits.
OnRequest(c) ==
    LET r == job[c]
        queued == Move(c, IF r \in Event THEN "returning" ELSE "request_wait")
    IN
    /\ pc[c] = "sending"
    /\ ~Closed
    /\ ~terminating[c]
    /\ refs' = [refs EXCEPT ![r] = 2]
    /\ m_thread' = [m_thread EXCEPT ![r] = c]
    /\ answered' = [answered EXCEPT ![r] = FALSE]
    /\ m_request_list' = Append(m_request_list, r)
    /\ pc' = IF m_request_list = << >>
             THEN NotifyAvailable(queued, m_request_list', m_current_request, "receive")
             ELSE queued
    /\ UNCHANGED <<m_atomic_state, m_current_request, m_lock, job, prev_request, handleVars>>

\* The wait is over, or there was none: the sender closes its reference.
SendReturn(c) ==
    /\ pc[c] = "returning"
    /\ refs' = Close(job[c])
    /\ job' = [job EXCEPT ![c] = None]
    /\ pc' = Move(c, "idle")
    /\ UNCHANGED <<m_atomic_state, listVars, m_lock, m_thread, answered, prev_request, handleVars>>

\* RequestTerminate: the wait for the reply, if any, is cancelled; a thread that
\* runs goes on to the end of its call.
RequestTerminate(c) ==
    /\ ~terminating[c]
    /\ pc[c] # "gone"
    /\ terminating' = [terminating EXCEPT ![c] = TRUE]
    /\ pc' = IF pc[c] = "request_wait" THEN Move(c, "returning") ELSE pc
    /\ UNCHANGED <<m_atomic_state, listVars, m_lock, requestVars, job, prev_request,
                   clientHandle, serverHandle>>

-----------------------------------------------------------------------------
(* The client's end is closed: KSession::OnClientClosed *)

CloseClientHandle(c) ==
    /\ pc[c] = "idle"
    /\ clientHandle
    /\ clientHandle' = FALSE
    /\ UNCHANGED <<m_atomic_state, listVars, m_lock, requestVars, pc, job, prev_request,
                   terminating, serverHandle>>

\* The last reference is gone when the handle is closed and no call is under
\* way; the state is read.
ClientDestroyBegin(c) ==
    /\ ~clientHandle
    /\ \A d \in Client : pc[d] = "idle"
    /\ pc' = [d \in Client \cup Server |->
                IF d = c /\ ~Closed THEN "client_closing"
                ELSE IF d \in Client THEN "gone" ELSE pc[d]]
    /\ UNCHANGED <<m_atomic_state, listVars, m_lock, requestVars, job, prev_request, handleVars>>

ClientSetState(c) ==
    /\ pc[c] = "client_closing"
    /\ m_atomic_state' = "ClientClosed"
    /\ pc' = Move(c, "client_lock")
    /\ UNCHANGED <<listVars, m_lock, requestVars, job, prev_request, handleVars>>

ClientLock(c) ==
    /\ pc[c] = "client_lock"
    /\ m_lock = None
    /\ m_lock' = c
    /\ pc' = Move(c, "client_next")
    /\ UNCHANGED <<m_atomic_state, listVars, requestVars, job, prev_request, handleVars>>

\* The current request, once: it stays current, but forgets a terminating
\* thread.
ClientNextCurrent(c) ==
    LET r == m_current_request IN
    /\ pc[c] = "client_next"
    /\ r # None /\ r # prev_request
    /\ refs' = Open(r)
    /\ m_thread' = [m_thread EXCEPT ![r] = IF terminating[@] THEN None ELSE @]
    /\ prev_request' = r
    /\ job' = [job EXCEPT ![c] = r]
    /\ pc' = Move(c, "client_current")
    /\ UNCHANGED <<m_atomic_state, listVars, m_lock, answered, handleVars>>

ClientCurrentDone(c) ==
    /\ pc[c] = "client_current"
    /\ refs' = Close(job[c])
    /\ job' = [job EXCEPT ![c] = None]
    /\ pc' = Move(c, "client_next")
    /\ UNCHANGED <<m_atomic_state, listVars, m_lock, m_thread, answered, prev_request, handleVars>>

ClientNextQueued(c) ==
    /\ pc[c] = "client_next"
    /\ m_current_request = None \/ m_current_request = prev_request
    /\ m_request_list # << >>
    /\ job' = [job EXCEPT ![c] = Head(m_request_list)]
    /\ m_request_list' = Tail(m_request_list)
    /\ pc' = Move(c, "client_queued")
    /\ UNCHANGED <<m_atomic_state, m_current_request, m_lock, requestVars, prev_request, handleVars>>

\* A queued request is answered if it has an event, and closed.
ClientQueuedDone(c) ==
    LET r == job[c] IN
    /\ pc[c] = "client_queued"
    /\ IF r \in Event THEN Answer(r) ELSE UNCHANGED answered
    /\ refs' = Close(r)
    /\ job' = [job EXCEPT ![c] = None]
    /\ pc' = Move(c, "client_next")
    /\ UNCHANGED <<m_atomic_state, listVars, m_lock, m_thread, prev_request, handleVars>>

\* NotifyAvailable(ResultSessionClosed), and the lock is released.
ClientCloseEnd(c) ==
    /\ pc[c] = "client_next"
    /\ m_current_request = None \/ m_current_request = prev_request
    /\ m_request_list = << >>
    /\ pc' = NotifyAvailable(Move(c, "gone"), m_request_list, m_current_request, "closed")
    /\ m_lock' = None
    /\ UNCHANGED <<m_atomic_state, listVars, requestVars, job, prev_request, handleVars>>

-----------------------------------------------------------------------------
(* Server threads: ReplyAndReceive *)

\* KSynchronizationObject::Wait; "again" is the continue of the loop.
ServerWait(s) ==
    /\ pc[s] = "again" \/ (pc[s] = "idle" /\ serverHandle)
    /\ pc' = Move(s, IF IsSignaled(m_request_list, m_current_request) THEN "receive" ELSE "server_wait")
    /\ UNCHANGED <<m_atomic_state, listVars, m_lock, requestVars, job, prev_request, handleVars>>

\* A service thread stops waiting, to look at other objects.
ServerWaitTimeout(s) ==
    /\ pc[s] = "server_wait"
    /\ pc' = Move(s, "idle")
    /\ UNCHANGED <<m_atomic_state, listVars, m_lock, requestVars, job, prev_request, handleVars>>

ServerLock(s) ==
    /\ m_lock = None
    /\ \/ pc[s] = "receive" /\ pc' = Move(s, "receive_pop")
       \/ pc[s] = "reply" /\ pc' = Move(s, "reply_take")
    /\ m_lock' = s
    /\ UNCHANGED <<m_atomic_state, listVars, requestVars, job, prev_request, handleVars>>

\* "Ensure we aren't already servicing a request."
NotServicing == m_current_request = None

\* ReceiveRequest finds the session closed, or nothing to receive.
ReceiveNothing(s) ==
    /\ pc[s] = "receive_pop"
    /\ \/ Closed /\ pc' = Move(s, "closed")
       \/ ~Closed /\ ~NotServicing /\ pc' = Move(s, "again")
       \/ ~Closed /\ NotServicing /\ m_request_list = << >> /\ pc' = Move(s, "again")
    /\ m_lock' = None
    /\ UNCHANGED <<m_atomic_state, listVars, requestVars, job, prev_request, handleVars>>

ReceivePop(s) ==
    /\ pc[s] = "receive_pop"
    /\ ~Closed
    /\ NotServicing
    /\ m_request_list # << >>
    /\ job' = [job EXCEPT ![s] = Head(m_request_list)]
    /\ m_request_list' = Tail(m_request_list)
    /\ pc' = Move(s, "receive_set")
    /\ UNCHANGED <<m_atomic_state, m_current_request, m_lock, requestVars, prev_request, handleVars>>

\* The scheduler lock is not held when the request becomes the current one.
ReceiveSetCurrent(s) ==
    /\ pc[s] = "receive_set"
    /\ m_current_request' = job[s]
    /\ pc' = Move(s, "receive_message")
    /\ UNCHANGED <<m_atomic_state, m_request_list, m_lock, requestVars, job, prev_request, handleVars>>

ReceiveSucceeds(s) ==
    /\ pc[s] = "receive_message"
    /\ job' = [job EXCEPT ![s] = None]
    /\ m_lock' = None
    /\ pc' = Move(s, "handling")
    /\ UNCHANGED <<m_atomic_state, listVars, requestVars, prev_request, handleVars>>

\* The message cannot be copied: the request is no longer current, the
\* session is signaled for the next one.
ReceiveFails(s) ==
    /\ pc[s] = "receive_message"
    /\ m_current_request' = None
    /\ pc' = LET failed == Move(s, "receive_failed")
             IN  IF m_request_list # << >>
                 THEN NotifyAvailable(failed, m_request_list, None, "receive") ELSE failed
    /\ UNCHANGED <<m_atomic_state, m_request_list, m_lock, requestVars, job, prev_request, handleVars>>

\* The error is returned to the client.  ReceiveRequest returns ResultNotFound,
\* or ResultReceiveListBroken, with which the system call returns.
ReceiveFailedReply(s) ==
    /\ pc[s] = "receive_failed"
    /\ Answer(job[s])
    /\ refs' = Close(job[s])
    /\ \E next \in {"again", "idle"} : pc' = EndWait(job[s], Move(s, next))
    /\ job' = [job EXCEPT ![s] = None]
    /\ m_lock' = None
    /\ UNCHANGED <<m_atomic_state, listVars, m_thread, prev_request, handleVars>>

\* The service has handled the request and calls SendReply, if its handle is
\* still open.
ServerReply(s) ==
    /\ pc[s] = "handling"
    /\ pc' = Move(s, IF serverHandle THEN "reply" ELSE "idle")
    /\ UNCHANGED <<m_atomic_state, listVars, m_lock, requestVars, job, prev_request, handleVars>>

\* ReplyAndReceive may name the session as reply_target without its caller
\* having received anything.
ReplyOutOfTurn(s) ==
    /\ pc[s] = "idle"
    /\ serverHandle
    /\ pc' = Move(s, "reply")
    /\ UNCHANGED <<m_atomic_state, listVars, m_lock, requestVars, job, prev_request, handleVars>>

\* SendReply finds no current request: ResultInvalidState.
SendReplyNothing(s) ==
    /\ pc[s] = "reply_take"
    /\ m_current_request = None
    /\ pc' = Move(s, "idle")
    /\ m_lock' = None
    /\ UNCHANGED <<m_atomic_state, listVars, requestVars, job, prev_request, handleVars>>

\* SendReply takes the current request and signals the session for the next.
SendReplyTake(s) ==
    /\ pc[s] = "reply_take"
    /\ m_current_request # None
    /\ job' = [job EXCEPT ![s] = m_current_request]
    /\ m_current_request' = None
    /\ pc' = LET taken == Move(s, "reply_send")
             IN  IF m_request_list # << >>
                 THEN NotifyAvailable(taken, m_request_list, None, "receive") ELSE taken
    /\ UNCHANGED <<m_atomic_state, m_request_list, m_lock, requestVars, prev_request, handleVars>>

\* The rest of SendReply, whether the session is closed by now or not.
SendReply(s) ==
    /\ pc[s] = "reply_send"
    /\ Answer(job[s])
    /\ refs' = Close(job[s])
    /\ pc' = EndWait(job[s], Move(s, "idle"))
    /\ job' = [job EXCEPT ![s] = None]
    /\ m_lock' = None
    /\ UNCHANGED <<m_atomic_state, listVars, m_thread, prev_request, handleVars>>

-----------------------------------------------------------------------------
(* The server's end is closed: KSession::OnServerClosed, CleanupRequests *)

\* A server thread closes the handle, of its own accord or because it was
\* told ResultSessionClosed.
CloseServerHandle(s) ==
    /\ pc[s] \in {"idle", "closed"}
    /\ serverHandle
    /\ serverHandle' = FALSE
    /\ UNCHANGED <<m_atomic_state, listVars, m_lock, requestVars, pc, job, prev_request,
                   terminating, clientHandle>>

ServerDestroyBegin(s) ==
    /\ ~serverHandle
    /\ pc[s] \in {"idle", "closed"}
    /\ \A u \in Server : pc[u] \in {"idle", "closed", "handling"}
    /\ pc' = [u \in Client \cup Server |->
                IF u = s THEN (IF Closed THEN "server_lock" ELSE "server_closing")
                ELSE IF u \in Server THEN "gone" ELSE pc[u]]
    /\ UNCHANGED <<m_atomic_state, listVars, m_lock, requestVars, job, prev_request, handleVars>>

ServerSetState(s) ==
    /\ pc[s] = "server_closing"
    /\ m_atomic_state' = "ServerClosed"
    /\ pc' = Move(s, "server_lock")
    /\ UNCHANGED <<listVars, m_lock, requestVars, job, prev_request, handleVars>>

CleanupLock(s) ==
    /\ pc[s] = "server_lock"
    /\ m_lock = None
    /\ m_lock' = s
    /\ pc' = Move(s, "cleanup_next")
    /\ UNCHANGED <<m_atomic_state, listVars, requestVars, job, prev_request, handleVars>>

CleanupNext(s) ==
    /\ pc[s] = "cleanup_next"
    /\ \/ /\ m_current_request # None
          /\ job' = [job EXCEPT ![s] = m_current_request]
          /\ m_current_request' = None
          /\ UNCHANGED m_request_list
       \/ /\ m_current_request = None
          /\ m_request_list # << >>
          /\ job' = [job EXCEPT ![s] = Head(m_request_list)]
          /\ m_request_list' = Tail(m_request_list)
          /\ UNCHANGED m_current_request
    /\ pc' = Move(s, "cleanup_reply")
    /\ UNCHANGED <<m_atomic_state, m_lock, requestVars, prev_request, handleVars>>

CleanupReply(s) ==
    /\ pc[s] = "cleanup_reply"
    /\ Answer(job[s])
    /\ refs' = Close(job[s])
    /\ pc' = EndWait(job[s], Move(s, "cleanup_next"))
    /\ job' = [job EXCEPT ![s] = None]
    /\ UNCHANGED <<m_atomic_state, listVars, m_lock, m_thread, prev_request, handleVars>>

CleanupEnd(s) ==
    /\ pc[s] = "cleanup_next"
    /\ m_current_request = None
    /\ m_request_list = << >>
    /\ m_lock' = None
    /\ pc' = Move(s, "gone")
    /\ UNCHANGED <<m_atomic_state, listVars, requestVars, job, prev_request, handleVars>>

-----------------------------------------------------------------------------
ClientStep(c) ==
    \/ OnRequestRefused(c)
    \/ OnRequest(c)
    \/ SendReturn(c)
    \/ ClientSetState(c)
    \/ ClientLock(c)
    \/ ClientNextCurrent(c)
    \/ ClientCurrentDone(c)
    \/ ClientNextQueued(c)
    \/ ClientQueuedDone(c)
    \/ ClientCloseEnd(c)

ServerStep(s) ==
    \/ ServerWait(s)
    \/ ServerLock(s)
    \/ ReceiveNothing(s)
    \/ ReceivePop(s)
    \/ ReceiveSetCurrent(s)
    \/ ReceiveSucceeds(s)
    \/ ReceiveFails(s)
    \/ ReceiveFailedReply(s)
    \/ ServerReply(s)
    \/ SendReplyNothing(s)
    \/ SendReplyTake(s)
    \/ SendReply(s)
    \/ ServerDestroyBegin(s)
    \/ ServerSetState(s)
    \/ CleanupLock(s)
    \/ CleanupNext(s)
    \/ CleanupReply(s)
    \/ CleanupEnd(s)

Next ==
    \/ \E c \in Client, r \in Request : SendRequest(c, r)
    \/ \E c \in Client :
        ClientStep(c) \/ RequestTerminate(c) \/ CloseClientHandle(c) \/ ClientDestroyBegin(c)
    \/ \E s \in Server :
        ServerStep(s) \/ ReplyOutOfTurn(s) \/ ServerWaitTimeout(s) \/ CloseServerHandle(s)

Spec == Init /\ [][Next]_vars

\* Threads go on with a call they are in, and service threads with their loop
\* of waiting, receiving and replying, to which they come back however often
\* they reply out of turn.  Nobody has to send or to close.
FairSpec ==
    /\ Spec
    /\ \A c \in Client : WF_vars(ClientStep(c))
    /\ \A s \in Server : WF_vars(ServerStep(s)) /\ SF_vars(ServerWait(s))

-----------------------------------------------------------------------------
\* Every variable has its type; at most two references to a request are open.
TypeOK ==
    /\ m_atomic_state \in {"Normal", "ClientClosed", "ServerClosed"}
    /\ m_request_list \in Seq(Request)
    /\ m_current_request \in Request \cup {None}
    /\ m_lock \in Client \cup Server \cup {None}
    /\ refs \in [Request -> 0 .. 2]
    /\ m_thread \in [Request -> Client \cup {None}]
    /\ answered \in [Request -> BOOLEAN]
    /\ job \in [Client \cup Server -> Request \cup {None}]
    /\ prev_request \in Request \cup {None}
    /\ terminating \in [Client -> BOOLEAN]
    /\ clientHandle \in BOOLEAN
    /\ serverHandle \in BOOLEAN

Queued == {m_request_list[i] : i \in DOMAIN m_request_list}

\* The thread is about to answer the request it works on.
Answering(t) == pc[t] \in {"receive_failed", "reply_send", "cleanup_reply"}

\* Whoever ends the wait of a client ends the wait for this very request:
\* the client was not terminated meanwhile, or is left alone, and nobody has
\* answered before.
AnswersWaiter ==
    \A t \in Server : Answering(t) /\ job[t] \in Client /\ MayEndWait(job[t]) =>
        pc[m_thread[job[t]]] = "request_wait"

\* The references a request has: its sender's, the session's, wherever the
\* request has got to, and the one OnClientClosed opens on the current one.
References(r) ==
    Cardinality({c \in Client : job[c] = r /\ pc[c] \in {"request_wait", "returning"}})
    + Cardinality({c \in Client : job[c] = r /\ pc[c] = "client_current"})
    + (IF \/ r \in Queued
          \/ r = m_current_request
          \/ \E s \in Server : job[s] = r
          \/ \E c \in Client : job[c] = r /\ pc[c] = "client_queued"
       THEN 1 ELSE 0)

\* A request is freed when the last of those who use it is done, not before
\* and not never.
RequestsAreCounted ==
    /\ TypeOK
    /\ \A r \in Request : refs[r] = References(r)

\* The client's end is being closed, the servers are not told yet.
ClientIsClosing ==
    \E c \in Client : pc[c] \in {"client_lock", "client_next", "client_current", "client_queued"}

\* No server thread sleeps on a session that has something for it: another
\* request after the current one is done, or the news of its end.
SignalNotMissed ==
    \A s \in Server : pc[s] = "server_wait" =>
        ~IsSignaled(m_request_list, m_current_request) \/ ClientIsClosing

\* The requests come to an end: the client's wait for a reply does, however
\* server and clients close, fail or are terminated, and the event of an
\* asynchronous request is signaled, unless OnClientClosed has made it forget
\* its terminated thread.
RequestsEnd ==
    /\ \A c \in Client : []<>(pc[c] # "request_wait")
    /\ \A e \in Event : (e \in Queued) ~> (answered[e] \/ m_thread[e] = None)
=============================================================================
