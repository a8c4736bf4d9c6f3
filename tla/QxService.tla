----------------------------- MODULE QxService -----------------------------
(***************************************************************************)
(* The application server of QxOrm's QxService module: QxThreadPool (a     *)
(* thread that starts the workers, runs the server's event loop and stops  *)
(* them), QxServer::incomingConnection (run by that event loop), the       *)
(* QxThread workers, and clients that run QxTransaction::executeClient.    *)
(*                                                                         *)
(* A section under QxThread::m_mutex is one step, and so are the sections  *)
(* under QxThreadPool::m_mutex but clearServices, which keeps the mutex    *)
(* while it waits for the workers: `mutex' is TRUE during that one.  A     *)
(* connection is named after its client, and its descriptor is not 0.      *)
(***************************************************************************)
EXTENDS Integers, Sequences, FiniteSets, SequencesExt

CONSTANTS
    Workers,        \* the QxThread objects, getThreadCount() of them
    Clients,        \* every client connects once
    MaxRetry,       \* getMaxWait() / 50
    None            \* no worker, descriptor 0

ASSUME QxAssumption ==
    /\ IsFiniteSet(Workers) /\ MaxRetry \in Nat /\ None \notin Workers \cup Clients

VARIABLES
    pool,           \* where the pool's thread is
    poolRunning,    \* QxThreadPool::m_bIsRunning
    mutex,          \* QxThreadPool::m_mutex kept by clearServices
    lstAvailable,   \* QxThreadPool::m_lstAvailable
    call,           \* of incomingConnection: descriptor, thread, retries
    quit,           \* quit() has been called
    pc,             \* where each worker is
    running,        \* QxThread::m_bIsRunning
    socket,         \* QxThread::m_iSocketDescriptor
    transaction,    \* QxThread::m_pTransaction is there
    client,         \* what became of each client's request
    backlog,        \* connections that the server has not been told of
    executed        \* how often a client's service method was run

poolVars == <<pool, poolRunning, mutex, lstAvailable, call, quit>>
workerVars == <<pc, running, socket, transaction>>
clientVars == <<client, backlog, executed>>
vars == <<poolVars, workerVars, clientVars>>

NoCall == [conn |-> None, thread |-> None, retry |-> 0]

Init ==
    /\ pool = "new"
    /\ poolRunning = FALSE
    /\ mutex = FALSE
    /\ lstAvailable = <<>>
    /\ call = NoCall
    /\ quit = FALSE
    /\ pc = [w \in Workers |-> "none"]
    /\ running = [w \in Workers |-> FALSE]
    /\ socket = [w \in Workers |-> None]
    /\ transaction = [w \in Workers |-> FALSE]
    /\ client = [c \in Clients |-> "new"]
    /\ backlog = {}
    /\ executed = [c \in Clients |-> 0]

isAvailable(w) == ~transaction[w] /\ socket[w] = None

-----------------------------------------------------------------------------
(* initServices: every worker is created, queued and started. *)
InitServices ==
    /\ pool = "new"
    /\ lstAvailable' = SetToSeq(Workers)
    /\ pc' = [w \in Workers |-> "start"]
    /\ pool' = "init"
    /\ UNCHANGED <<poolRunning, mutex, call, quit, running, socket, transaction, clientVars>>

(* runServer: listen may fail, which ends the server at once. *)
RunServer == \E listens \in BOOLEAN :
    /\ pool = "init"
    /\ poolRunning' = TRUE
    /\ pool' = IF listens THEN "exec" ELSE "leave"
    /\ UNCHANGED <<mutex, lstAvailable, call, quit, workerVars, clientVars>>

(* The destructor's quit(), from another thread (external: exec() returns  *)
(* once the handler in progress, if any, has returned).                    *)
Quit ==
    /\ ~quit
    /\ pool # "new"
    /\ quit' = TRUE
    /\ UNCHANGED <<pool, poolRunning, mutex, lstAvailable, call, workerVars, clientVars>>

ExecReturns ==
    /\ pool = "exec" /\ quit
    /\ pool' = "leave"
    /\ UNCHANGED <<poolRunning, mutex, lstAvailable, call, quit, workerVars, clientVars>>

(* The flag goes down; with the server gone, connections are refused. *)
StopServer ==
    /\ pool = "leave"
    /\ poolRunning' = FALSE
    /\ pool' = "clear"
    /\ backlog' = {}
    /\ UNCHANGED <<mutex, lstAvailable, call, quit, workerVars, client, executed>>

(* clearServices takes the mutex, stops every worker, waits for each, and  *)
(* deletes them.                                                           *)
ClearServices ==
    /\ pool = "clear"
    /\ mutex' = TRUE
    /\ pool' = "stop"
    /\ UNCHANGED <<poolRunning, lstAvailable, call, quit, workerVars, clientVars>>

Stop ==
    /\ pool = "stop"
    /\ running' = [w \in Workers |-> FALSE]
    /\ pool' = "wait"
    /\ UNCHANGED <<poolRunning, mutex, lstAvailable, call, quit, pc, socket, transaction, clientVars>>

Wait ==
    /\ pool = "wait"
    /\ \A w \in Workers : pc[w] = "ended"
    /\ lstAvailable' = <<>>
    /\ mutex' = FALSE
    /\ pool' = "done"
    /\ UNCHANGED <<poolRunning, call, quit, workerVars, clientVars>>

-----------------------------------------------------------------------------
(* QxServer::incomingConnection, called by the event loop. *)
IncomingConnection == \E c \in backlog :
    /\ pool = "exec"
    /\ backlog' = backlog \ {c}
    /\ call' = [NoCall EXCEPT !.conn = c]
    /\ pool' = "ask"
    /\ UNCHANGED <<poolRunning, mutex, lstAvailable, quit, workerVars, client, executed>>

(* QxThreadPool::getAvailable, again every 50 ms; after the last time the  *)
(* connection is given up, and nobody closes its descriptor.               *)
GetAvailable ==
    LET p == IF lstAvailable = <<>> THEN None ELSE Head(lstAvailable)
        free == IF p = None THEN FALSE ELSE isAvailable(p)
    IN  /\ pool = "ask"
        /\ lstAvailable' = IF p = None THEN <<>> ELSE Tail(lstAvailable)
        /\ \/ /\ free
              /\ call' = [call EXCEPT !.thread = p]
              /\ pool' = "execute"
           \/ /\ ~free
              /\ call.retry < MaxRetry
              /\ call' = [call EXCEPT !.retry = @ + 1]
              /\ UNCHANGED pool
           \/ /\ ~free
              /\ call.retry = MaxRetry
              /\ call' = NoCall
              /\ pool' = "exec"
        /\ UNCHANGED <<poolRunning, mutex, quit, workerVars, clientVars>>

(* QxThread::execute ignores a second descriptor. *)
Execute ==
    /\ pool = "execute"
    /\ socket' = [socket EXCEPT ![call.thread] = IF @ = None THEN call.conn ELSE @]
    /\ call' = NoCall
    /\ pool' = "exec"
    /\ UNCHANGED <<poolRunning, mutex, lstAvailable, quit, pc, running, transaction, clientVars>>

-----------------------------------------------------------------------------
(* QxThread::run *)
Goto(w, p) == pc' = [pc EXCEPT ![w] = p]

Start(w) ==
    /\ pc[w] = "start"
    /\ running' = [running EXCEPT ![w] = TRUE]
    /\ Goto(w, "loop")
    /\ UNCHANGED <<poolVars, socket, transaction, clientVars>>

Loop(w) ==
    /\ pc[w] = "loop"
    /\ Goto(w, IF running[w] THEN "idle" ELSE "ended")
    /\ UNCHANGED <<poolVars, running, socket, transaction, clientVars>>

(* It polls for a descriptor every 5 ms. *)
PollForWorkOnly(w) ==
    /\ pc[w] = "idle"
    /\ socket[w] # None
    /\ Goto(w, "read")
    /\ UNCHANGED <<poolVars, running, socket, transaction, clientVars>>

Poll(w) ==
    /\ pc[w] = "idle"
    /\ \/ socket[w] # None /\ Goto(w, "read")
       \/ socket[w] = None /\ ~running[w] /\ Goto(w, "ended")
    /\ UNCHANGED <<poolVars, running, socket, transaction, clientVars>>

(* doProcess.  The descriptor may be refused, the request may not come in  *)
(* time or not be readable; a stopped worker goes no further.              *)
BadSocket(w) ==
    /\ pc[w] = "read"
    /\ Goto(w, "close")
    /\ UNCHANGED <<poolVars, running, socket, transaction, clientVars>>

ReadSocket(w) == \E ok \in BOOLEAN :
    /\ pc[w] = "read"
    /\ transaction' = [transaction EXCEPT ![w] = ok]
    /\ Goto(w, IF ok /\ running[w] THEN "execute" ELSE "close")
    /\ UNCHANGED <<poolVars, running, socket, clientVars>>

(* executeServer; an exception becomes the message of the reply. *)
ExecuteServer(w) ==
    /\ pc[w] = "execute"
    /\ executed' = [executed EXCEPT ![socket[w]] = @ + 1]
    /\ Goto(w, IF running[w] THEN "write" ELSE "close")
    /\ UNCHANGED <<poolVars, running, socket, transaction, client, backlog>>

WriteSocket(w) == \E ok \in BOOLEAN :
    /\ pc[w] = "write"
    /\ client' = IF ok /\ client[socket[w]] = "waits"
                 THEN [client EXCEPT ![socket[w]] = "replied"] ELSE client
    /\ Goto(w, "close")
    /\ UNCHANGED <<poolVars, running, socket, transaction, backlog, executed>>

ClearDataLate(w) ==
    /\ pc[w] = "close"
    /\ Goto(w, "report")
    /\ UNCHANGED <<poolVars, running, socket, transaction, clientVars>>

ClearDataUnreported(w) ==
    /\ pc[w] = "close"
    /\ transaction' = [transaction EXCEPT ![w] = FALSE]
    /\ socket' = [socket EXCEPT ![w] = None]
    /\ Goto(w, "loop")
    /\ UNCHANGED <<poolVars, running, clientVars>>

(* disconnectFromHost, clearData *)
ClearData(w) ==
    /\ pc[w] = "close"
    /\ transaction' = [transaction EXCEPT ![w] = FALSE]
    /\ socket' = [socket EXCEPT ![w] = None]
    /\ Goto(w, "report")
    /\ UNCHANGED <<poolVars, running, clientVars>>

(* QxThreadPool::setAvailable tests the pool's flag, then locks. *)
SetAvailable(w) ==
    /\ pc[w] = "report"
    /\ Goto(w, IF poolRunning THEN "enqueue" ELSE "loop")
    /\ UNCHANGED <<poolVars, running, socket, transaction, clientVars>>

Enqueue(w) ==
    /\ pc[w] = "enqueue"
    /\ ~mutex
    /\ lstAvailable' = IF isAvailable(w) /\ w \notin ToSet(lstAvailable)
                       THEN Append(lstAvailable, w) ELSE lstAvailable
    /\ Goto(w, "loop")
    /\ UNCHANGED <<pool, poolRunning, mutex, call, quit, running, socket, transaction, clientVars>>

-----------------------------------------------------------------------------
(* executeClient: connects while the server listens, sends the request and *)
(* waits for the reply, but not longer than getMaxWait().                  *)
Connect(c) ==
    /\ client[c] = "new"
    /\ client' = [client EXCEPT ![c] = IF pool \in {"exec", "ask", "execute"} THEN "waits"
                                       ELSE "failed"]
    /\ backlog' = IF client'[c] = "waits" THEN backlog \cup {c} ELSE backlog
    /\ UNCHANGED <<poolVars, workerVars, executed>>

GiveUp(c) ==
    /\ client[c] = "waits"
    /\ client' = [client EXCEPT ![c] = "failed"]
    /\ UNCHANGED <<poolVars, workerVars, backlog, executed>>

-----------------------------------------------------------------------------
PoolStep ==
    \/ InitServices \/ RunServer \/ ExecReturns \/ StopServer \/ ClearServices \/ Stop \/ Wait
    \/ GetAvailable \/ Execute
WorkerStep(w) ==
    \/ Start(w) \/ Loop(w) \/ Poll(w) \/ BadSocket(w) \/ ReadSocket(w) \/ ExecuteServer(w)
    \/ WriteSocket(w) \/ ClearData(w) \/ SetAvailable(w) \/ Enqueue(w)
ClientStep(c) == Connect(c) \/ GiveUp(c)

Next ==
    \/ PoolStep \/ IncomingConnection \/ Quit
    \/ \E w \in Workers : WorkerStep(w)
    \/ \E c \in Clients : ClientStep(c)

(* The threads run: no call of a worker waits longer than getMaxWait() on  *)
(* its socket.  Nobody has to connect, to quit or to serve a backlog.      *)
Fairness == WF_vars(PoolStep) /\ \A w \in Workers : WF_vars(WorkerStep(w))

Spec == Init /\ [][Next]_vars /\ Fairness

-----------------------------------------------------------------------------
(* The types of the state. *)
TypeOK ==
    /\ pool \in {"new", "init", "exec", "ask", "execute", "leave", "clear", "stop", "wait", "done"}
    /\ lstAvailable \in Seq(Workers)
    /\ call \in [conn : Clients \cup {None}, thread : Workers \cup {None}, retry : 0..MaxRetry]
    /\ pc \in [Workers -> {"none", "start", "loop", "idle", "read", "execute", "write", "close",
                           "report", "enqueue", "ended"}]
    /\ socket \in [Workers -> Clients \cup {None}]
    /\ client \in [Clients -> {"new", "waits", "replied", "failed"}]
    /\ backlog \subseteq Clients
    /\ executed \in [Clients -> Nat]

(* No worker is lost and none is given away twice: a queued worker is free *)
(* and queued once, as the assertions of getAvailable and setAvailable     *)
(* say, and while the server runs any other one has a connection, is about *)
(* to get one or is on its way back to the queue.                          *)
NoWorkerLost ==
    /\ TypeOK
    /\ \A w \in ToSet(lstAvailable) : isAvailable(w) /\ pc[w] # "enqueue"
    /\ IsInjective(lstAvailable)
    /\ poolRunning => \A w \in Workers \ ToSet(lstAvailable) :
         socket[w] # None \/ call.thread = w \/ pc[w] \in {"report", "enqueue"}

(* A request is executed at most once, by one worker, and no client gets a *)
(* reply that was not: a connection is handed to one worker only, which    *)
(* forgets it before it takes another.                                     *)
ServedOnce ==
    /\ \A v, w \in Workers : v # w /\ socket[v] # None => socket[v] # socket[w]
    /\ \A w \in Workers : socket[w] # None => socket[w] # call.conn /\ socket[w] \notin backlog
    /\ \A c \in Clients : executed[c] <= 1 /\ (client[c] = "replied" => executed[c] = 1)

(* The two ways in which wait() in clearServices never returns: a worker   *)
(* that saw the pool running wants its mutex, which clearServices keeps; a *)
(* worker had not begun to run when stop() cleared the flag that run()     *)
(* then sets.                                                              *)
Jammed == pool = "wait" /\ \E w \in Workers :
    \/ pc[w] = "enqueue"
    \/ pc[w] = "idle" /\ running[w]

(* A server told to quit ends, with all its workers, unless one of these   *)
(* two races was lost: no work in progress, retry or missing descriptor    *)
(* keeps it.                                                               *)
ShutdownEnds == quit ~> (pool = "done" \/ Jammed)
=============================================================================
