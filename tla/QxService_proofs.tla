-------------------------- MODULE QxService_proofs --------------------------
(***************************************************************************)
(* Proofs about QxService, for any finite set of workers, any clients and  *)
(* any number of retries: the pool loses no worker and gives none away     *)
(* twice, and a request is executed at most once.                          *)
(***************************************************************************)
EXTENDS QxService, ListFacts

Queued == ToSet(lstAvailable)

(* What TypeOK leaves out: the flags.                                      *)
Flags ==
    /\ poolRunning \in BOOLEAN /\ mutex \in BOOLEAN
    /\ transaction \in [Workers -> BOOLEAN]
    /\ running \in [Workers -> BOOLEAN]

(* The pool's thread: incomingConnection works on a connection only while  *)
(* it runs, its worker is not in the queue, and the flag is up only while  *)
(* there is a server.                                                      *)
PoolInv ==
    /\ pool = "ask" => call.conn # None /\ call.thread = None
    /\ pool = "execute" => call.conn # None /\ call.thread # None
    /\ pool \notin {"ask", "execute"} => call.conn = None /\ call.thread = None
    /\ call.thread \notin Queued
    /\ poolRunning => pool \in {"exec", "ask", "execute", "leave"}
    /\ pool = "new" => \A w \in Workers : pc[w] = "none"
    /\ pool = "init" => Workers \subseteq Queued

(* A worker that waits in the queue, or is in incomingConnection's hands,  *)
(* is in the idle part of its loop; it keeps its descriptor from the first *)
(* read to clearData and its transaction within that.                      *)
WorkerInv ==
    /\ \A w \in Workers : w \in Queued \/ call.thread = w =>
         isAvailable(w) /\ pc[w] \in {"start", "loop", "idle", "ended"}
    /\ \A w \in Workers : pc[w] \in {"report", "enqueue", "none"} => isAvailable(w)
    /\ \A w \in Workers : pc[w] \in {"read", "execute", "write", "close"} => socket[w] # None
    /\ \A w \in Workers : transaction[w] => pc[w] \in {"execute", "write", "close"}

(* Where the connection of client c is, if anywhere.                       *)
InHand(c) ==
    c \in backlog \/ c = call.conn \/ \E w \in Workers : socket[w] = c

(* A connection is in one place, and until it has been executed there is   *)
(* a worker that has it and is not past executeServer, or none has yet.    *)
ConnInv ==
    /\ call.conn \notin backlog
    /\ \A c \in Clients : InHand(c) => client[c] # "new"
    /\ \A c \in Clients : client[c] = "new" \/ c \in backlog \/ c = call.conn
                          => executed[c] = 0
    /\ \A w \in Workers : socket[w] # None =>
         executed[socket[w]] = 0 \/ pc[w] \in {"write", "close"}
    /\ \A w \in Workers : pc[w] = "write" => executed[socket[w]] = 1

QxInv == Flags /\ NoWorkerLost /\ PoolInv /\ WorkerInv /\ ServedOnce /\ ConnInv

-----------------------------------------------------------------------------
(* The queue holds workers only.                                           *)
LEMMA QueuedWorkers == TypeOK => Queued \subseteq Workers
BY DEF TypeOK, Queued, ToSet

-----------------------------------------------------------------------------
(* initServices queues every worker once, and none of them has begun.      *)
LEMMA InitServicesInv ==
    ASSUME QxInv, InitServices
    PROVE  QxInv'
<1> USE QxAssumption DEF QxInv, InitServices, clientVars
<1>0. lstAvailable' \in Seq(Workers) /\ IsInjective(lstAvailable') /\ Queued' = Workers
  BY SetToSeqProperties DEF Queued
<1>1. TypeOK' /\ Flags'
  BY <1>0 DEF NoWorkerLost, TypeOK, Flags
<1>2. NoWorkerLost'
  BY <1>0, <1>1 DEF NoWorkerLost, TypeOK, Flags, PoolInv, WorkerInv, isAvailable, Queued
<1>3. PoolInv'
  BY <1>0 DEF NoWorkerLost, TypeOK, Flags, PoolInv, WorkerInv
<1>4. WorkerInv'
  BY <1>0 DEF NoWorkerLost, TypeOK, Flags, PoolInv, WorkerInv, isAvailable
<1>5. ServedOnce'
  BY DEF ServedOnce
<1>6. ConnInv'
  BY DEF NoWorkerLost, TypeOK, PoolInv, WorkerInv, ServedOnce, ConnInv, InHand
<1> QED
  BY <1>1, <1>2, <1>3, <1>4, <1>5, <1>6

(* The pool's flag goes up with every worker in the queue.                 *)
LEMMA RunServerInv ==
    ASSUME QxInv, RunServer
    PROVE  QxInv'
<1> USE QxAssumption DEF QxInv, RunServer, workerVars, clientVars, NoCall
<1>1. TypeOK' /\ Flags'
  BY DEF NoWorkerLost, TypeOK, Flags
<1>2. NoWorkerLost'
  BY <1>1 DEF NoWorkerLost, TypeOK, Flags, PoolInv, WorkerInv, isAvailable, Queued
<1>3. PoolInv'
  BY DEF NoWorkerLost, TypeOK, Flags, PoolInv, WorkerInv, isAvailable, Queued
<1>4. WorkerInv'
  BY DEF NoWorkerLost, TypeOK, Flags, PoolInv, WorkerInv, isAvailable, Queued
<1>5. ServedOnce'
  BY DEF NoWorkerLost, TypeOK, PoolInv, WorkerInv, ServedOnce, ConnInv, InHand
<1>6. ConnInv'
  BY DEF NoWorkerLost, TypeOK, PoolInv, WorkerInv, ServedOnce, ConnInv, InHand
<1> QED
  BY <1>1, <1>2, <1>3, <1>4, <1>5, <1>6

(* The destructor's quit() only leaves a mark for the event loop.          *)
LEMMA QuitInv ==
    ASSUME QxInv, Quit
    PROVE  QxInv'
<1> USE QxAssumption DEF QxInv, Quit, workerVars, clientVars, NoCall
<1>1. TypeOK' /\ Flags'
  BY DEF NoWorkerLost, TypeOK, Flags
<1>2. NoWorkerLost'
  BY <1>1 DEF NoWorkerLost, TypeOK, Flags, PoolInv, WorkerInv, isAvailable, Queued
<1>3. PoolInv'
  BY DEF NoWorkerLost, TypeOK, Flags, PoolInv, WorkerInv, isAvailable, Queued
<1>4. WorkerInv'
  BY DEF NoWorkerLost, TypeOK, Flags, PoolInv, WorkerInv, isAvailable, Queued
<1>5. ServedOnce'
  BY DEF NoWorkerLost, TypeOK, PoolInv, WorkerInv, ServedOnce, ConnInv, InHand
<1>6. ConnInv'
  BY DEF NoWorkerLost, TypeOK, PoolInv, WorkerInv, ServedOnce, ConnInv, InHand
<1> QED
  BY <1>1, <1>2, <1>3, <1>4, <1>5, <1>6

(* The event loop ends between two connections.                            *)
LEMMA ExecReturnsInv ==
    ASSUME QxInv, ExecReturns
    PROVE  QxInv'
<1> USE QxAssumption DEF QxInv, ExecReturns, workerVars, clientVars, NoCall
<1>1. TypeOK' /\ Flags'
  BY DEF NoWorkerLost, TypeOK, Flags
<1>2. NoWorkerLost'
  BY <1>1 DEF NoWorkerLost, TypeOK, Flags, PoolInv, WorkerInv, isAvailable, Queued
<1>3. PoolInv'
  BY DEF NoWorkerLost, TypeOK, Flags, PoolInv, WorkerInv, isAvailable, Queued
<1>4. WorkerInv'
  BY DEF NoWorkerLost, TypeOK, Flags, PoolInv, WorkerInv, isAvailable, Queued
<1>5. ServedOnce'
  BY DEF NoWorkerLost, TypeOK, PoolInv, WorkerInv, ServedOnce, ConnInv, InHand
<1>6. ConnInv'
  BY DEF NoWorkerLost, TypeOK, PoolInv, WorkerInv, ServedOnce, ConnInv, InHand
<1> QED
  BY <1>1, <1>2, <1>3, <1>4, <1>5, <1>6

(* Connections that nobody was told of are refused, and the flag goes      *)
(* down.                                                                   *)
LEMMA StopServerInv ==
    ASSUME QxInv, StopServer
    PROVE  QxInv'
<1> USE QxAssumption DEF QxInv, StopServer, workerVars, clientVars, NoCall
<1>1. TypeOK' /\ Flags'
  BY DEF NoWorkerLost, TypeOK, Flags
<1>2. NoWorkerLost'
  BY <1>1 DEF NoWorkerLost, TypeOK, Flags, PoolInv, WorkerInv, isAvailable, Queued
<1>3. PoolInv'
  BY DEF NoWorkerLost, TypeOK, Flags, PoolInv, WorkerInv, isAvailable, Queued
<1>4. WorkerInv'
  BY DEF NoWorkerLost, TypeOK, Flags, PoolInv, WorkerInv, isAvailable, Queued
<1>5. ServedOnce'
  BY DEF NoWorkerLost, TypeOK, PoolInv, WorkerInv, ServedOnce, ConnInv, InHand
<1>6. ConnInv'
  BY DEF NoWorkerLost, TypeOK, PoolInv, WorkerInv, ServedOnce, ConnInv, InHand
<1> QED
  BY <1>1, <1>2, <1>3, <1>4, <1>5, <1>6

(* clearServices takes the mutex when nothing is being handed out.         *)
LEMMA ClearServicesInv ==
    ASSUME QxInv, ClearServices
    PROVE  QxInv'
<1> USE QxAssumption DEF QxInv, ClearServices, workerVars, clientVars, NoCall
<1>1. TypeOK' /\ Flags'
  BY DEF NoWorkerLost, TypeOK, Flags
<1>2. NoWorkerLost'
  BY <1>1 DEF NoWorkerLost, TypeOK, Flags, PoolInv, WorkerInv, isAvailable, Queued
<1>3. PoolInv'
  BY DEF NoWorkerLost, TypeOK, Flags, PoolInv, WorkerInv, isAvailable, Queued
<1>4. WorkerInv'
  BY DEF NoWorkerLost, TypeOK, Flags, PoolInv, WorkerInv, isAvailable, Queued
<1>5. ServedOnce'
  BY DEF NoWorkerLost, TypeOK, PoolInv, WorkerInv, ServedOnce, ConnInv, InHand
<1>6. ConnInv'
  BY DEF NoWorkerLost, TypeOK, PoolInv, WorkerInv, ServedOnce, ConnInv, InHand
<1> QED
  BY <1>1, <1>2, <1>3, <1>4, <1>5, <1>6

(* Stopping the workers changes nobody's connection.                       *)
LEMMA StopInv ==
    ASSUME QxInv, Stop
    PROVE  QxInv'
<1> USE QxAssumption DEF QxInv, Stop, workerVars, clientVars, NoCall
<1>1. TypeOK' /\ Flags'
  BY DEF NoWorkerLost, TypeOK, Flags
<1>2. NoWorkerLost'
  BY <1>1 DEF NoWorkerLost, TypeOK, Flags, PoolInv, WorkerInv, isAvailable, Queued
<1>3. PoolInv'
  BY DEF NoWorkerLost, TypeOK, Flags, PoolInv, WorkerInv, isAvailable, Queued
<1>4. WorkerInv'
  BY DEF NoWorkerLost, TypeOK, Flags, PoolInv, WorkerInv, isAvailable, Queued
<1>5. ServedOnce'
  BY DEF NoWorkerLost, TypeOK, PoolInv, WorkerInv, ServedOnce, ConnInv, InHand
<1>6. ConnInv'
  BY DEF NoWorkerLost, TypeOK, PoolInv, WorkerInv, ServedOnce, ConnInv, InHand
<1> QED
  BY <1>1, <1>2, <1>3, <1>4, <1>5, <1>6

(* The queue is emptied once every worker has ended.                       *)
LEMMA WaitInv ==
    ASSUME QxInv, Wait
    PROVE  QxInv'
<1> USE QxAssumption DEF QxInv, Wait, workerVars, clientVars
<1>0. lstAvailable' = <<>> /\ Queued' = {} /\ lstAvailable' \in Seq(Workers)
  BY DEF Queued, ToSet
<1>1. TypeOK' /\ Flags'
  BY <1>0 DEF NoWorkerLost, TypeOK, Flags
<1>2. NoWorkerLost'
  BY <1>0, <1>1 DEF NoWorkerLost, TypeOK, Flags, PoolInv, WorkerInv, isAvailable, Queued, IsInjective
<1>3. PoolInv'
  BY <1>0 DEF NoWorkerLost, TypeOK, Flags, PoolInv, WorkerInv
<1>4. WorkerInv'
  BY <1>0 DEF NoWorkerLost, TypeOK, Flags, PoolInv, WorkerInv, isAvailable
<1>5. ServedOnce'
  BY DEF ServedOnce
<1>6. ConnInv'
  BY DEF NoWorkerLost, TypeOK, PoolInv, WorkerInv, ServedOnce, ConnInv, InHand
<1> QED
  BY <1>1, <1>2, <1>3, <1>4, <1>5, <1>6

(* A connection leaves the backlog for the pool's hands.                   *)
LEMMA IncomingConnectionInv ==
    ASSUME QxInv, IncomingConnection
    PROVE  QxInv'
<1> USE QxAssumption DEF QxInv, IncomingConnection, workerVars, clientVars, NoCall
<1>1. TypeOK' /\ Flags'
  BY DEF NoWorkerLost, TypeOK, Flags
<1>2. NoWorkerLost'
  BY <1>1 DEF NoWorkerLost, TypeOK, Flags, PoolInv, WorkerInv, isAvailable, Queued
<1>3. PoolInv'
  BY DEF NoWorkerLost, TypeOK, Flags, PoolInv, WorkerInv, isAvailable, Queued
<1>4. WorkerInv'
  BY DEF NoWorkerLost, TypeOK, Flags, PoolInv, WorkerInv, isAvailable, Queued
<1>5. ServedOnce'
  BY DEF NoWorkerLost, TypeOK, PoolInv, WorkerInv, ServedOnce, ConnInv, InHand
<1>6. ConnInv'
  BY DEF NoWorkerLost, TypeOK, PoolInv, WorkerInv, ServedOnce, ConnInv, InHand
<1> QED
  BY <1>1, <1>2, <1>3, <1>4, <1>5, <1>6

(* getAvailable takes a free worker off the queue, tries again or gives    *)
(* up; the first worker of the queue is always free, so that only an empty *)
(* queue makes it wait.                                                    *)
LEMMA GetAvailableInv ==
    ASSUME QxInv, GetAvailable
    PROVE  QxInv'
<1> USE QxAssumption DEF QxInv, NoCall, workerVars, clientVars
<1> DEFINE p == Head(lstAvailable)
<1>0. lstAvailable \in Seq(Workers) /\ IsInjective(lstAvailable) /\ Queued \subseteq Workers
  BY QueuedWorkers DEF NoWorkerLost, TypeOK
<1>a. CASE lstAvailable = <<>>
  <2>0. /\ pool = "ask" /\ lstAvailable' = <<>> /\ Queued' = {} /\ Queued = {}
        /\ \/ call.retry < MaxRetry /\ call' = [call EXCEPT !.retry = @ + 1] /\ pool' = pool
           \/ call' = NoCall /\ pool' = "exec"
        /\ UNCHANGED <<poolRunning, mutex, quit, workerVars, clientVars>>
    BY <1>a DEF GetAvailable, Queued, ToSet
  <2>1. TypeOK' /\ Flags'
    BY <2>0 DEF NoWorkerLost, TypeOK, Flags
  <2>2. NoWorkerLost'
    BY <2>0, <2>1, <1>a DEF NoWorkerLost, TypeOK, Flags, PoolInv, WorkerInv, isAvailable, Queued
  <2>3. PoolInv'
    BY <2>0 DEF NoWorkerLost, TypeOK, Flags, PoolInv, WorkerInv
  <2>4. WorkerInv'
    BY <2>0 DEF NoWorkerLost, TypeOK, Flags, PoolInv, WorkerInv, isAvailable
  <2>5. ServedOnce'
    BY <2>0 DEF NoWorkerLost, TypeOK, PoolInv, WorkerInv, ServedOnce, ConnInv, InHand
  <2>6. ConnInv'
    BY <2>0 DEF NoWorkerLost, TypeOK, PoolInv, WorkerInv, ServedOnce, ConnInv, InHand
  <2> QED
    BY <2>1, <2>2, <2>3, <2>4, <2>5, <2>6
<1>b. CASE lstAvailable # <<>>
  <2>1. /\ p \in Queued /\ Tail(lstAvailable) \in Seq(Workers) /\ IsInjective(Tail(lstAvailable))
        /\ ToSet(Tail(lstAvailable)) = Queued \ {p}
    BY <1>0, <1>b, PopProperties DEF Queued
  <2>2. isAvailable(p) /\ p \in Workers /\ p # None
    BY <2>1, <1>0 DEF WorkerInv
  <2>0. /\ pool = "ask" /\ lstAvailable' = Tail(lstAvailable) /\ Queued' = Queued \ {p}
        /\ call' = [call EXCEPT !.thread = p] /\ pool' = "execute"
        /\ UNCHANGED <<poolRunning, mutex, quit, workerVars, clientVars>>
    <3> HIDE DEF p
    <3> QED
      BY <2>1, <2>2, <1>b DEF GetAvailable, Queued, p
  <2> HIDE DEF p
  <2>3. TypeOK' /\ Flags'
    BY <2>0, <2>1, <2>2 DEF NoWorkerLost, TypeOK, Flags
  <2>4. NoWorkerLost'
    BY <2>0, <2>1, <2>2, <2>3 DEF NoWorkerLost, TypeOK, Flags, PoolInv, WorkerInv, isAvailable, Queued
  <2>5. PoolInv'
    BY <2>0, <2>2 DEF NoWorkerLost, TypeOK, Flags, PoolInv, WorkerInv
  <2>6. WorkerInv'
    BY <2>0, <2>1, <2>2 DEF NoWorkerLost, TypeOK, Flags, PoolInv, WorkerInv, isAvailable
  <2>7. ServedOnce'
    BY <2>0 DEF NoWorkerLost, TypeOK, PoolInv, WorkerInv, ServedOnce, ConnInv, InHand
  <2>8. ConnInv'
    BY <2>0 DEF NoWorkerLost, TypeOK, PoolInv, WorkerInv, ServedOnce, ConnInv, InHand
  <2> QED
    BY <2>3, <2>4, <2>5, <2>6, <2>7, <2>8
<1> QED
  BY <1>a, <1>b

(* QxThread::execute: the worker is still free when it gets the            *)
(* descriptor, since it left the queue and only the pool hands out work.   *)
LEMMA ExecuteInv ==
    ASSUME QxInv, Execute
    PROVE  QxInv'
<1> USE QxAssumption DEF QxInv, Execute, NoCall, clientVars
<1>0. call.thread \in Workers /\ call.conn \in Clients /\ socket[call.thread] = None
  BY DEF NoWorkerLost, TypeOK, PoolInv, WorkerInv, isAvailable
<1>1. TypeOK' /\ Flags'
  BY <1>0 DEF NoWorkerLost, TypeOK, Flags
<1>2. NoWorkerLost'
  BY <1>0, <1>1 DEF NoWorkerLost, TypeOK, Flags, PoolInv, WorkerInv, isAvailable, Queued
<1>3. PoolInv'
  <2>1. None \notin Queued
    BY QueuedWorkers DEF NoWorkerLost
  <2> QED
    BY <2>1 DEF NoWorkerLost, TypeOK, PoolInv, Queued
<1>4. WorkerInv'
  BY <1>0 DEF NoWorkerLost, TypeOK, Flags, PoolInv, WorkerInv, isAvailable, Queued
<1>5. ServedOnce'
  BY <1>0 DEF NoWorkerLost, TypeOK, PoolInv, WorkerInv, ServedOnce, ConnInv, InHand
<1>6. ConnInv'
  BY <1>0 DEF NoWorkerLost, TypeOK, PoolInv, WorkerInv, ServedOnce, ConnInv, InHand
<1> QED
  BY <1>1, <1>2, <1>3, <1>4, <1>5, <1>6

(* A worker begins; it has no connection yet unless one was handed to it.  *)
LEMMA StartInv ==
    ASSUME QxInv, NEW w \in Workers, Start(w)
    PROVE  QxInv'
<1> USE QxAssumption DEF QxInv, Start, Goto, poolVars, clientVars
<1>1. TypeOK' /\ Flags'
  BY DEF NoWorkerLost, TypeOK, Flags
<1>2. NoWorkerLost'
  BY <1>1 DEF NoWorkerLost, TypeOK, Flags, PoolInv, WorkerInv, isAvailable, Queued
<1>3. PoolInv'
  BY DEF NoWorkerLost, TypeOK, Flags, PoolInv, WorkerInv, isAvailable, Queued
<1>4. WorkerInv'
  BY DEF NoWorkerLost, TypeOK, Flags, PoolInv, WorkerInv, isAvailable, Queued
<1>5. ServedOnce'
  BY DEF NoWorkerLost, TypeOK, PoolInv, WorkerInv, ServedOnce, ConnInv, InHand
<1>6. ConnInv'
  BY DEF NoWorkerLost, TypeOK, PoolInv, WorkerInv, ServedOnce, ConnInv, InHand
<1> QED
  BY <1>1, <1>2, <1>3, <1>4, <1>5, <1>6

(* The worker's loop ends only without a connection in hand.               *)
LEMMA LoopInv ==
    ASSUME QxInv, NEW w \in Workers, Loop(w)
    PROVE  QxInv'
<1> USE QxAssumption DEF QxInv, Loop, Goto, poolVars, clientVars
<1>1. TypeOK' /\ Flags'
  BY DEF NoWorkerLost, TypeOK, Flags
<1>2. NoWorkerLost'
  BY <1>1 DEF NoWorkerLost, TypeOK, Flags, PoolInv, WorkerInv, isAvailable, Queued
<1>3. PoolInv'
  BY DEF NoWorkerLost, TypeOK, Flags, PoolInv, WorkerInv, isAvailable, Queued
<1>4. WorkerInv'
  BY DEF NoWorkerLost, TypeOK, Flags, PoolInv, WorkerInv, isAvailable, Queued
<1>5. ServedOnce'
  BY DEF NoWorkerLost, TypeOK, PoolInv, WorkerInv, ServedOnce, ConnInv, InHand
<1>6. ConnInv'
  BY DEF NoWorkerLost, TypeOK, PoolInv, WorkerInv, ServedOnce, ConnInv, InHand
<1> QED
  BY <1>1, <1>2, <1>3, <1>4, <1>5, <1>6

(* A worker ends without a descriptor or takes the one it has.             *)
LEMMA PollInv ==
    ASSUME QxInv, NEW w \in Workers, Poll(w)
    PROVE  QxInv'
<1> USE QxAssumption DEF QxInv, Goto, poolVars, clientVars
<1>0. /\ pc[w] = "idle"
      /\ \/ pc' = [pc EXCEPT ![w] = "read"] /\ socket[w] # None
         \/ pc' = [pc EXCEPT ![w] = "ended"]
      /\ UNCHANGED <<poolVars, running, socket, transaction, clientVars>>
  BY DEF Poll
<1>1. TypeOK' /\ Flags'
  BY <1>0 DEF NoWorkerLost, TypeOK, Flags
<1>a. /\ \A v \in Workers : v # w => pc'[v] = pc[v]
      /\ pc'[w] = "ended" \/ (pc'[w] = "read" /\ socket[w] # None)
  BY <1>0 DEF NoWorkerLost, TypeOK
<1>b. /\ lstAvailable' = lstAvailable /\ socket' = socket /\ transaction' = transaction
      /\ call' = call /\ pool' = pool /\ poolRunning' = poolRunning
  BY <1>0
<1>2. NoWorkerLost'
  BY <1>0, <1>1, <1>a, <1>b, QueuedWorkers DEF NoWorkerLost, WorkerInv, isAvailable, Queued
<1>3. PoolInv'
  BY <1>0 DEF NoWorkerLost, TypeOK, Flags, PoolInv, WorkerInv, isAvailable, Queued
<1>4. WorkerInv'
  BY <1>0, <1>a, <1>b DEF WorkerInv, isAvailable, Queued
<1>5. ServedOnce'
  BY <1>0 DEF NoWorkerLost, TypeOK, PoolInv, WorkerInv, ServedOnce, ConnInv, InHand
<1>6. ConnInv'
  BY <1>0 DEF NoWorkerLost, TypeOK, PoolInv, WorkerInv, ServedOnce, ConnInv, InHand
<1> QED
  BY <1>1, <1>2, <1>3, <1>4, <1>5, <1>6

(* A refused descriptor is closed without being executed.                  *)
LEMMA BadSocketInv ==
    ASSUME QxInv, NEW w \in Workers, BadSocket(w)
    PROVE  QxInv'
<1> USE QxAssumption DEF QxInv, BadSocket, Goto, poolVars, clientVars
<1>1. TypeOK' /\ Flags'
  BY DEF NoWorkerLost, TypeOK, Flags
<1>2. NoWorkerLost'
  BY <1>1 DEF NoWorkerLost, TypeOK, Flags, PoolInv, WorkerInv, isAvailable, Queued
<1>3. PoolInv'
  BY DEF NoWorkerLost, TypeOK, Flags, PoolInv, WorkerInv, isAvailable, Queued
<1>4. WorkerInv'
  BY DEF NoWorkerLost, TypeOK, Flags, PoolInv, WorkerInv, isAvailable, Queued
<1>5. ServedOnce'
  BY DEF NoWorkerLost, TypeOK, PoolInv, WorkerInv, ServedOnce, ConnInv, InHand
<1>6. ConnInv'
  BY DEF NoWorkerLost, TypeOK, PoolInv, WorkerInv, ServedOnce, ConnInv, InHand
<1> QED
  BY <1>1, <1>2, <1>3, <1>4, <1>5, <1>6

(* The request arrives or does not.                                        *)
LEMMA ReadSocketInv ==
    ASSUME QxInv, NEW w \in Workers, ReadSocket(w)
    PROVE  QxInv'
<1> USE QxAssumption DEF QxInv, ReadSocket, Goto, poolVars, clientVars
<1>1. TypeOK' /\ Flags'
  BY DEF NoWorkerLost, TypeOK, Flags
<1>2. NoWorkerLost'
  BY <1>1 DEF NoWorkerLost, TypeOK, Flags, PoolInv, WorkerInv, isAvailable, Queued
<1>3. PoolInv'
  BY DEF NoWorkerLost, TypeOK, Flags, PoolInv, WorkerInv, isAvailable, Queued
<1>4. WorkerInv'
  BY DEF NoWorkerLost, TypeOK, Flags, PoolInv, WorkerInv, isAvailable, Queued
<1>5. ServedOnce'
  BY DEF NoWorkerLost, TypeOK, PoolInv, WorkerInv, ServedOnce, ConnInv, InHand
<1>6. ConnInv'
  BY DEF NoWorkerLost, TypeOK, PoolInv, WorkerInv, ServedOnce, ConnInv, InHand
<1> QED
  BY <1>1, <1>2, <1>3, <1>4, <1>5, <1>6

(* The service method runs: the connection in hand was never run before.   *)
LEMMA ExecuteServerInv ==
    ASSUME QxInv, NEW w \in Workers, ExecuteServer(w)
    PROVE  QxInv'
<1> USE QxAssumption DEF QxInv, ExecuteServer, Goto, poolVars
<1>0. socket[w] \in Clients /\ executed[socket[w]] = 0
  BY DEF NoWorkerLost, TypeOK, WorkerInv, ConnInv
<1>1. TypeOK' /\ Flags'
  BY <1>0 DEF NoWorkerLost, TypeOK, Flags
<1>2. NoWorkerLost'
  BY <1>1 DEF NoWorkerLost, TypeOK, Flags, PoolInv, WorkerInv, isAvailable, Queued
<1>3. PoolInv'
  BY DEF NoWorkerLost, TypeOK, Flags, PoolInv, WorkerInv, isAvailable, Queued
<1>4. WorkerInv'
  BY DEF NoWorkerLost, TypeOK, Flags, PoolInv, WorkerInv, isAvailable, Queued
<1>5. ServedOnce'
  BY <1>0 DEF NoWorkerLost, TypeOK, ServedOnce
<1>6. ConnInv'
  BY <1>0 DEF NoWorkerLost, TypeOK, PoolInv, WorkerInv, ServedOnce, ConnInv, InHand
<1> QED
  BY <1>1, <1>2, <1>3, <1>4, <1>5, <1>6

(* The reply goes out for a request that has been executed.                *)
LEMMA WriteSocketInv ==
    ASSUME QxInv, NEW w \in Workers, WriteSocket(w)
    PROVE  QxInv'
<1> USE QxAssumption DEF QxInv, WriteSocket, Goto, poolVars, clientVars
<1>1. TypeOK' /\ Flags'
  BY DEF NoWorkerLost, TypeOK, Flags
<1>2. NoWorkerLost'
  BY <1>1 DEF NoWorkerLost, TypeOK, Flags, PoolInv, WorkerInv, isAvailable, Queued
<1>3. PoolInv'
  BY DEF NoWorkerLost, TypeOK, Flags, PoolInv, WorkerInv, isAvailable, Queued
<1>4. WorkerInv'
  BY DEF NoWorkerLost, TypeOK, Flags, PoolInv, WorkerInv, isAvailable, Queued
<1>5. ServedOnce'
  BY DEF NoWorkerLost, TypeOK, PoolInv, WorkerInv, ServedOnce, ConnInv, InHand
<1>6. ConnInv'
  BY DEF NoWorkerLost, TypeOK, PoolInv, WorkerInv, ServedOnce, ConnInv, InHand
<1> QED
  BY <1>1, <1>2, <1>3, <1>4, <1>5, <1>6

(* The worker forgets its connection and owes the pool a report.           *)
LEMMA ClearDataInv ==
    ASSUME QxInv, NEW w \in Workers, ClearData(w)
    PROVE  QxInv'
<1> USE QxAssumption DEF QxInv, ClearData, Goto, poolVars, clientVars
<1>1. TypeOK' /\ Flags'
  BY DEF NoWorkerLost, TypeOK, Flags
<1>2. NoWorkerLost'
  BY <1>1 DEF NoWorkerLost, TypeOK, Flags, PoolInv, WorkerInv, isAvailable, Queued
<1>3. PoolInv'
  BY DEF NoWorkerLost, TypeOK, Flags, PoolInv, WorkerInv, isAvailable, Queued
<1>4. WorkerInv'
  BY DEF NoWorkerLost, TypeOK, Flags, PoolInv, WorkerInv, isAvailable, Queued
<1>5. ServedOnce'
  BY DEF NoWorkerLost, TypeOK, PoolInv, WorkerInv, ServedOnce, ConnInv, InHand
<1>6. ConnInv'
  BY DEF NoWorkerLost, TypeOK, PoolInv, WorkerInv, ServedOnce, ConnInv, InHand
<1> QED
  BY <1>1, <1>2, <1>3, <1>4, <1>5, <1>6

(* A worker that finds the pool running goes on to queue itself.           *)
LEMMA SetAvailableInv ==
    ASSUME QxInv, NEW w \in Workers, SetAvailable(w)
    PROVE  QxInv'
<1> USE QxAssumption DEF QxInv, SetAvailable, Goto, poolVars, clientVars
<1>1. TypeOK' /\ Flags'
  BY DEF NoWorkerLost, TypeOK, Flags
<1>2. NoWorkerLost'
  BY <1>1 DEF NoWorkerLost, TypeOK, Flags, PoolInv, WorkerInv, isAvailable, Queued
<1>3. PoolInv'
  BY DEF NoWorkerLost, TypeOK, Flags, PoolInv, WorkerInv, isAvailable, Queued
<1>4. WorkerInv'
  BY DEF NoWorkerLost, TypeOK, Flags, PoolInv, WorkerInv, isAvailable, Queued
<1>5. ServedOnce'
  BY DEF NoWorkerLost, TypeOK, PoolInv, WorkerInv, ServedOnce, ConnInv, InHand
<1>6. ConnInv'
  BY DEF NoWorkerLost, TypeOK, PoolInv, WorkerInv, ServedOnce, ConnInv, InHand
<1> QED
  BY <1>1, <1>2, <1>3, <1>4, <1>5, <1>6

(* setAvailable, under the mutex: a worker that reports is not queued.     *)
LEMMA EnqueueInv ==
    ASSUME QxInv, NEW w \in Workers, Enqueue(w)
    PROVE  QxInv'
<1> USE QxAssumption DEF QxInv, Enqueue, Goto, clientVars
<1>1. w \notin Queued /\ isAvailable(w) /\ call.thread # w
  BY DEF WorkerInv
<1>2. /\ lstAvailable \in Seq(Workers) /\ IsInjective(lstAvailable)
  BY DEF NoWorkerLost, TypeOK
<1>0. /\ lstAvailable' = Append(lstAvailable, w) /\ Queued' = Queued \cup {w}
      /\ lstAvailable' \in Seq(Workers) /\ IsInjective(lstAvailable')
  BY <1>1, <1>2, PushProperties DEF Queued
<1>3. TypeOK' /\ Flags'
  BY <1>0 DEF NoWorkerLost, TypeOK, Flags
<1>4. NoWorkerLost'
  BY <1>0, <1>1, <1>3 DEF NoWorkerLost, TypeOK, Flags, PoolInv, WorkerInv, isAvailable, Queued
<1>5. PoolInv'
  BY <1>0, <1>1 DEF NoWorkerLost, TypeOK, Flags, PoolInv, WorkerInv
<1>6. WorkerInv'
  BY <1>0, <1>1 DEF NoWorkerLost, TypeOK, Flags, PoolInv, WorkerInv, isAvailable
<1>7. ServedOnce'
  BY DEF NoWorkerLost, TypeOK, PoolInv, WorkerInv, ServedOnce, ConnInv, InHand
<1>8. ConnInv'
  BY DEF NoWorkerLost, TypeOK, PoolInv, WorkerInv, ServedOnce, ConnInv, InHand
<1> QED
  BY <1>3, <1>4, <1>5, <1>6, <1>7, <1>8

(* A new client's connection is in nobody's hands.                         *)
LEMMA ConnectInv ==
    ASSUME QxInv, NEW c \in Clients, Connect(c)
    PROVE  QxInv'
<1> USE QxAssumption DEF QxInv, Connect, poolVars, workerVars
<1>1. TypeOK' /\ Flags'
  BY DEF NoWorkerLost, TypeOK, Flags
<1>2. NoWorkerLost'
  BY <1>1 DEF NoWorkerLost, TypeOK, Flags, PoolInv, WorkerInv, isAvailable, Queued
<1>3. PoolInv'
  BY DEF NoWorkerLost, TypeOK, Flags, PoolInv, WorkerInv, isAvailable, Queued
<1>4. WorkerInv'
  BY DEF NoWorkerLost, TypeOK, Flags, PoolInv, WorkerInv, isAvailable, Queued
<1>5. ServedOnce'
  BY DEF NoWorkerLost, TypeOK, PoolInv, WorkerInv, ServedOnce, ConnInv, InHand
<1>6. ConnInv'
  BY DEF NoWorkerLost, TypeOK, PoolInv, WorkerInv, ServedOnce, ConnInv, InHand
<1> QED
  BY <1>1, <1>2, <1>3, <1>4, <1>5, <1>6

(* A client that gives up leaves its connection where it is.               *)
LEMMA GiveUpInv ==
    ASSUME QxInv, NEW c \in Clients, GiveUp(c)
    PROVE  QxInv'
<1> USE QxAssumption DEF QxInv, GiveUp, poolVars, workerVars
<1>1. TypeOK' /\ Flags'
  BY DEF NoWorkerLost, TypeOK, Flags
<1>2. NoWorkerLost'
  BY <1>1 DEF NoWorkerLost, TypeOK, Flags, PoolInv, WorkerInv, isAvailable, Queued
<1>3. PoolInv'
  BY DEF NoWorkerLost, TypeOK, Flags, PoolInv, WorkerInv, isAvailable, Queued
<1>4. WorkerInv'
  BY DEF NoWorkerLost, TypeOK, Flags, PoolInv, WorkerInv, isAvailable, Queued
<1>5. ServedOnce'
  BY DEF NoWorkerLost, TypeOK, PoolInv, WorkerInv, ServedOnce, ConnInv, InHand
<1>6. ConnInv'
  BY DEF NoWorkerLost, TypeOK, PoolInv, WorkerInv, ServedOnce, ConnInv, InHand
<1> QED
  BY <1>1, <1>2, <1>3, <1>4, <1>5, <1>6

-----------------------------------------------------------------------------
(* Before initServices there is nothing to lose. *)
LEMMA InitQxInv == Init => QxInv
<1> SUFFICES ASSUME Init PROVE QxInv
  OBVIOUS
<1> USE QxAssumption DEF Init, NoCall
<1>0. lstAvailable \in Seq(Workers) /\ Queued = {} /\ IsInjective(lstAvailable)
  BY DEF Queued, ToSet, IsInjective
<1>1. TypeOK
  BY <1>0 DEF TypeOK
<1>2. NoWorkerLost
  BY <1>0, <1>1 DEF NoWorkerLost, Queued
<1>3. Flags /\ PoolInv
  BY <1>0 DEF Flags, PoolInv
<1>4. WorkerInv
  BY <1>0 DEF WorkerInv, isAvailable
<1>5. ServedOnce
  BY DEF ServedOnce
<1>6. ConnInv
  BY DEF ConnInv, InHand
<1> QED
  BY <1>2, <1>3, <1>4, <1>5, <1>6 DEF QxInv

(* Every step keeps the invariant. *)
LEMMA NextQxInv == QxInv /\ [Next]_vars => QxInv'
<1> SUFFICES ASSUME QxInv, [Next]_vars PROVE QxInv'
  OBVIOUS
<1>1. CASE PoolStep
  BY <1>1, InitServicesInv, RunServerInv, ExecReturnsInv, StopServerInv, ClearServicesInv,
     StopInv, WaitInv, GetAvailableInv, ExecuteInv DEF PoolStep
<1>2. CASE IncomingConnection
  BY <1>2, IncomingConnectionInv
<1>3. CASE Quit
  BY <1>3, QuitInv
<1>4. ASSUME NEW w \in Workers, WorkerStep(w) PROVE QxInv'
  BY <1>4, StartInv, LoopInv, PollInv, BadSocketInv, ReadSocketInv, ExecuteServerInv,
     WriteSocketInv, ClearDataInv, SetAvailableInv, EnqueueInv DEF WorkerStep
<1>5. ASSUME NEW c \in Clients, ClientStep(c) PROVE QxInv'
  BY <1>5, ConnectInv, GiveUpInv DEF ClientStep
<1>6. CASE UNCHANGED vars
  BY <1>6 DEF vars, poolVars, workerVars, clientVars, QxInv, NoWorkerLost, TypeOK, Flags, PoolInv,
              WorkerInv, ServedOnce, ConnInv, InHand, isAvailable, Queued
<1> QED
  BY <1>1, <1>2, <1>3, <1>4, <1>5, <1>6 DEF Next

(* The inductive invariant holds in every reachable state of the server,   *)
(* for any number of workers, clients and retries.                         *)
THEOREM QxInvariant == Spec => []QxInv
<1> QED
  BY InitQxInv, NextQxInv, PTL DEF Spec

(* getAvailable and setAvailable keep the workers: none is queued twice or *)
(* while it is busy, and none is forgotten while the server runs.          *)
THEOREM WorkersKept == Spec => []NoWorkerLost
<1>1. QxInv => NoWorkerLost
  BY DEF QxInv
<1> QED
  BY <1>1, QxInvariant, PTL

(* incomingConnection, execute and doProcess serve a request at most once, *)
(* and nobody is answered for a request that was not executed.             *)
THEOREM RequestsServedOnce == Spec => []ServedOnce
<1>1. QxInv => ServedOnce
  BY DEF QxInv
<1> QED
  BY <1>1, QxInvariant, PTL
=============================================================================
