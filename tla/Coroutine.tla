----------------------------- MODULE Coroutine -----------------------------
(***************************************************************************)
(* Stackful coroutines: coroutine/src/coroutine.cpp and coroutine.h.       *)
(*                                                                         *)
(* A coroutine runs on a stack of its own.  cont() switches from the       *)
(* current coroutine of the calling thread to another one and remembers    *)
(* where it came from in _caller; yield(), and the end of run(), switch    *)
(* back.  Each thread has a root coroutine for its original stack, created *)
(* the first time the thread constructs a coroutine or asks for the        *)
(* current one; the root of thread t is written t.                         *)
(*                                                                         *)
(* Calls on one coroutine from several threads are serialised by the       *)
(* callers (the class has no lock), so each call up to its stack switch is *)
(* one action.  The calls that the documentation calls invalid (cont() on  *)
(* a running or terminated coroutine, createStack() and setStack() after   *)
(* the start, yield() from a root) are not made.                           *)
(***************************************************************************)
EXTENDS Naturals, FiniteSets, Sequences, SequencesExt

CONSTANTS
    Threads,      \* threads, and their root coroutines
    Coros,        \* the coroutines a program may construct
    Null,         \* the null pointer
    RestartFrom   \* the statuses in which callers invoke restart()

ASSUME CoroAssumption ==
    /\ Threads # {}
    /\ Threads \cap Coros = {}
    /\ Null \notin Threads \cup Coros

All == Threads \cup Coros

Status == {"NotStarted", "Running", "Stopped", "Terminated"}

VARIABLES
    status,     \* _status, or "none" while the object does not exist
    caller,     \* _caller
    current,    \* *qt_currentCoroutine, Null while a thread has no local data
    stack,      \* the memory under the coroutine: malloc'ed, the user's, none
    sp,         \* what _stackPointer points at: where a switch would resume
    callee,     \* the coroutine the cont() frame at _stackPointer switched to
    proc        \* "up", or how the process died

vars == <<status, caller, current, stack, sp, callee, proc>>

Init ==
    /\ status = [c \in All |-> "none"]
    /\ caller = [c \in All |-> Null]
    /\ current = [t \in Threads |-> Null]
    /\ stack = [c \in All |-> "none"]
    /\ sp = [c \in All |-> "null"]
    /\ callee = [c \in All |-> Null]
    /\ proc = "up"

-----------------------------------------------------------------------------
(* Variant: the thread's local data is not set. *)
EnsureRootNotCurrent(t, st) ==
    /\ status' = IF current[t] = Null THEN [st EXCEPT ![t] = "Running"] ELSE st
    /\ UNCHANGED current

(* currentCoroutine(): the status function st and current after it, when   *)
(* thread t calls it.                                                      *)
EnsureRoot(t, st) ==
    /\ status' = IF current[t] = Null THEN [st EXCEPT ![t] = "Running"] ELSE st
    /\ current' = IF current[t] = Null THEN [current EXCEPT ![t] = t] ELSE current

CurrentCoroutine(t) ==
    /\ current[t] = Null
    /\ EnsureRoot(t, status)
    /\ UNCHANGED <<caller, stack, sp, callee, proc>>

(* The constructor. *)
Construct(t, c) ==
    /\ status[c] = "none"
    /\ EnsureRoot(t, [status EXCEPT ![c] = "NotStarted"])
    /\ caller' = [caller EXCEPT ![c] = Null]
    /\ stack' = [stack EXCEPT ![c] = "none"]
    /\ sp' = [sp EXCEPT ![c] = "null"]
    /\ UNCHANGED <<callee, proc>>

(* Variant: the destructor does not look at the status. *)
DeleteUnchecked(t, c) ==
    /\ current[t] # Null
    /\ status[c] \in Status
    /\ status' = [status EXCEPT ![c] = "none"]
    /\ stack' = [stack EXCEPT ![c] = "none"]
    /\ UNCHANGED <<caller, current, sp, callee, proc>>

(* The destructor.  qFatal() ends the process. *)
Delete(t, c) ==
    /\ current[t] # Null
    /\ status[c] \in Status
    /\ \/ /\ status[c] = "Running"
          /\ proc' = "qFatal"
          /\ UNCHANGED <<status, stack>>
       \/ /\ status[c] # "Running"
          /\ status' = [status EXCEPT ![c] = "none"]
          /\ stack' = [stack EXCEPT ![c] = "none"]
          /\ UNCHANGED proc
    /\ UNCHANGED <<caller, current, sp, callee>>

(* The end of a thread: QThreadStorage deletes the root coroutine. *)
ThreadExit(t) == current[t] = t /\ Delete(t, t)

(* createStack() and setStack(): c gets a fresh stack that starts in       *)
(* entryPoint().                                                           *)
GiveStack(c, kind) ==
    /\ status[c] = "NotStarted"
    /\ stack' = [stack EXCEPT ![c] = kind]
    /\ sp' = [sp EXCEPT ![c] = "entry"]
    /\ UNCHANGED <<status, caller, current, callee, proc>>

CreateStack(t, c) == current[t] # Null /\ GiveStack(c, "malloc")

SetStack(t, c) == current[t] # Null /\ GiveStack(c, "user")

(* Variant: the stack pointer survives. *)
RestartKeepPointer(t, c) ==
    /\ current[t] # Null
    /\ status[c] \in RestartFrom
    /\ stack' = [stack EXCEPT ![c] = "none"]
    /\ caller' = [caller EXCEPT ![c] = Null]
    /\ status' = [status EXCEPT ![c] = "NotStarted"]
    /\ UNCHANGED <<current, sp, callee, proc>>

(* restart(): frees a malloc'ed stack and forgets everything else; it does *)
(* not look at the status.                                                 *)
Restart(t, c) ==
    /\ current[t] # Null
    /\ status[c] \in RestartFrom
    /\ stack' = [stack EXCEPT ![c] = "none"]
    /\ sp' = [sp EXCEPT ![c] = "null"]
    /\ caller' = [caller EXCEPT ![c] = Null]
    /\ status' = [status EXCEPT ![c] = "NotStarted"]
    /\ UNCHANGED <<current, callee, proc>>

-----------------------------------------------------------------------------
(* cont() by the current coroutine of t.  A thread that has never touched  *)
(* the class has no local data and dies of the null pointer.               *)
ContNoContext(t, c) ==
    /\ status[c] \in {"NotStarted", "Stopped"}
    /\ current[t] = Null
    /\ proc' = "segv"
    /\ UNCHANGED <<status, caller, current, stack, sp, callee>>

(* Variant: the stack pointer of the caller is not saved in the switch. *)
ContNoSave(t, c) ==
    /\ status[c] \in {"NotStarted", "Stopped"}
    /\ current[t] # Null
    /\ stack' = IF sp[c] = "null" THEN [stack EXCEPT ![c] = "malloc"] ELSE stack
    /\ status' = [status EXCEPT ![c] = "Running"]
    /\ caller' = [caller EXCEPT ![c] = current[t]]
    /\ current' = [current EXCEPT ![t] = c]
    /\ UNCHANGED <<sp, callee, proc>>

(* Variant: the current coroutine is replaced before it is saved. *)
ContSwapped(t, c) ==
    /\ status[c] \in {"NotStarted", "Stopped"}
    /\ current[t] # Null
    /\ stack' = IF sp[c] = "null" THEN [stack EXCEPT ![c] = "malloc"] ELSE stack
    /\ status' = [status EXCEPT ![c] = "Running"]
    /\ caller' = [caller EXCEPT ![c] = c]
    /\ current' = [current EXCEPT ![t] = c]
    /\ sp' = [sp EXCEPT ![c] = "cont"]
    /\ callee' = [callee EXCEPT ![c] = c]
    /\ UNCHANGED proc

Cont(t, c) ==
    /\ status[c] \in {"NotStarted", "Stopped"}
    /\ current[t] # Null
    /\ stack' = IF sp[c] = "null" THEN [stack EXCEPT ![c] = "malloc"] ELSE stack
    /\ status' = [status EXCEPT ![c] = "Running"]
    /\ caller' = [caller EXCEPT ![c] = current[t]]
    /\ current' = [current EXCEPT ![t] = c]
    /\ sp' = [c2 \in All |-> IF c2 = current[t] THEN "cont"
                             ELSE IF c2 = c /\ sp[c] = "null" THEN "entry"
                             ELSE sp[c2]]
    /\ callee' = [callee EXCEPT ![current[t]] = c]
    /\ UNCHANGED proc

(* Variant: _caller is left behind. *)
YieldHelperKeepCaller(t, stopStatus) ==
    LET stopping   == current[t]
        continuing == caller[current[t]] IN
    /\ current[t] # Null
    /\ current[t] # t
    /\ status' = [status EXCEPT ![stopping] = stopStatus]
    /\ current' = [current EXCEPT ![t] = continuing]
    /\ sp' = [sp EXCEPT ![stopping] = "yield"]
    /\ callee' = [callee EXCEPT ![continuing] = Null]
    /\ proc' = IF sp[continuing] = "null" THEN "segv" ELSE proc
    /\ UNCHANGED <<stack, caller>>

(* yieldHelper(stopStatus) by the current coroutine of t; the switch to a  *)
(* coroutine without a saved stack pointer kills the process.              *)
YieldHelper(t, stopStatus) ==
    LET stopping   == current[t]
        continuing == caller[current[t]] IN
    /\ current[t] # Null
    /\ current[t] # t
    /\ status' = [status EXCEPT ![stopping] = stopStatus]
    /\ caller' = [caller EXCEPT ![stopping] = Null]
    /\ current' = [current EXCEPT ![t] = continuing]
    /\ sp' = [sp EXCEPT ![stopping] = "yield"]
    /\ callee' = [callee EXCEPT ![continuing] = Null]
    /\ proc' = IF sp[continuing] = "null" THEN "segv" ELSE proc
    /\ UNCHANGED stack

Yield(t) == YieldHelper(t, "Stopped")

(* run() returns into entryPoint(). *)
EntryPointEnds(t) == YieldHelper(t, "Terminated")

Step(t) ==
    \/ CurrentCoroutine(t) \/ Yield(t) \/ EntryPointEnds(t) \/ ThreadExit(t)
    \/ \E c \in Coros :
          \/ Construct(t, c) \/ Delete(t, c) \/ Restart(t, c)
          \/ CreateStack(t, c) \/ SetStack(t, c)
          \/ Cont(t, c) \/ ContNoContext(t, c)

Next == proc = "up" /\ \E t \in Threads : Step(t)

Spec == Init /\ [][Next]_vars

-----------------------------------------------------------------------------
(* Pointers point at coroutines; the root of a thread is Running from the  *)
(* moment currentCoroutine() sets the thread's local data (the             *)
(* documentation of currentCoroutine() says so of the initial coroutine).  *)
TypeOK ==
    /\ status \in [All -> Status \cup {"none"}]
    /\ caller \in [All -> All \cup {Null}]
    /\ current \in [Threads -> All \cup {Null}]
    /\ stack \in [All -> {"none", "malloc", "user"}]
    /\ sp \in [All -> {"null", "entry", "cont", "yield"}]
    /\ callee \in [All -> All \cup {Null}]
    /\ proc \in {"up", "qFatal", "segv"}
    /\ \A t \in Threads : status[t] = IF current[t] = Null THEN "none" ELSE "Running"

(* The assertions of the source hold whenever the documented precondition  *)
(* of the call does: Q_ASSERT(!_caller) in cont() (the coroutine has no    *)
(* caller while it is not running), Q_ASSERT_X(_status == Running) and     *)
(* Q_ASSERT(continuingCoroutine) in yieldHelper() (what is current runs,   *)
(* and only a root has nobody to yield to).                                *)
AssertionsHold ==
    /\ \A c \in All : caller[c] # Null <=> c \in Coros /\ status[c] = "Running"
    /\ \A t \in Threads : current[t] # Null => status[current[t]] = "Running"

(* Each running coroutine is current in some thread or suspended in a      *)
(* cont() of its own, and the latter has one callee and runs nowhere.      *)
OneCaller ==
    /\ \A c \in All : status[c] = "Running" =>
          \/ \E t \in Threads : current[t] = c
          \/ \E d \in All : caller[d] = c
    /\ \A d \in All : caller[d] # Null =>
          /\ status[caller[d]] = "Running"
          /\ \A t \in Threads : current[t] # caller[d]
          /\ \A e \in All : caller[e] = caller[d] => e = d

(* home gives a thread to every coroutine of the threads' chains. *)
SameHome(home) ==
    /\ \A t \in Threads : home[t] = t /\ (current[t] # Null => home[current[t]] = t)
    /\ \A d \in All : caller[d] # Null => home[caller[d]] = home[d]

OneHome == \E home \in [All -> Threads] : SameHome(home)

(* The running coroutines are exactly those some thread is executing or    *)
(* that are suspended inside a cont() of theirs, never both; a running     *)
(* coroutine belongs to one thread, whose chain ends in its own root.  So  *)
(* no two threads and no two callers share a stack.                        *)
ChainsDisjoint == OneCaller /\ OneHome

(* Every switch resumes where its target left off: a coroutine suspended   *)
(* in cont(d) has its stack pointer in that call, so d's yield returns to  *)
(* it; a stopped one resumes in its yield(), a new one enters entryPoint() *)
(* if it has a stack at all.                                               *)
ResumesRight ==
    /\ \A d \in All : caller[d] # Null =>
          sp[caller[d]] = "cont" /\ callee[caller[d]] = d
    /\ \A c \in Coros :
          /\ status[c] = "Stopped" => sp[c] = "yield"
          /\ status[c] = "NotStarted" => sp[c] \in {"null", "entry"}

(* Nothing that can still execute has lost its stack: neither restart()    *)
(* nor the destructor frees memory that a running, stopped or ready        *)
(* coroutine stands on.                                                    *)
StackLive == \A c \in Coros :
    status[c] \in {"Running", "Stopped"}
      \/ (status[c] = "NotStarted" /\ sp[c] # "null") => stack[c] # "none"

(* The inductive invariant. *)
CoroInv == TypeOK /\ AssertionsHold /\ ChainsDisjoint /\ ResumesRight /\ StackLive

(* The coroutines that thread t will return through, top first: its        *)
(* current one and then the _caller of each.                               *)
ChainOf(t) ==
    LET below == [c \in All \cup {Null} |-> IF c = Null THEN Null ELSE caller[c]]
        up[n \in 0 .. Cardinality(All)] == IF n = 0 THEN current[t] ELSE below[up[n - 1]]
        depth == Cardinality({n \in DOMAIN up : up[n] # Null})
    IN  [n \in 1 .. depth |-> up[n - 1]]

CS == INSTANCE ContStack WITH stk <- [t \in Threads |-> Reverse(ChainOf(t))]

(* cont() and yield() keep the _caller links a set of disjoint stacks with *)
(* the roots at the bottom, whatever coroutine continues whatever other on *)
(* whatever thread.                                                        *)
ImplementsStacks == CS!StackSpec

(* The root coroutine is deleted when its thread ends (the comment on      *)
(* qt_threadRootCoroutine), and that does not end the process.             *)
ThreadExitClean == proc # "qFatal" \/ \E c \in Coros : status[c] = "Running"
=============================================================================
