-------------------------- MODULE ThreadedCallback --------------------------
(***************************************************************************)
(* Calls of an ffi.Callback pointer from native threads: CallbackInfo::    *)
(* Invoke and WatcherCallback (src/src/callback_info.cc), with the         *)
(* ThreadedCallbackInvokation object they meet at                          *)
(* (src/src/threaded_callback_invokation.cc).                              *)
(*                                                                         *)
(* A native thread runs Invoke: it marks the event loop as in use, creates *)
(* an invocation whose mutex it holds, queues it, wakes the main thread up *)
(* and waits on the invocation's condition variable.  The main thread runs *)
(* WatcherCallback from its event loop: with the queue's mutex held it     *)
(* pops every invocation, calls the JavaScript function and signals.       *)
(*                                                                         *)
(* A thread has at most one invocation, so an invocation is named by its   *)
(* thread.  libuv (mutexes, condition variables, uv_async_send, uv_ref,    *)
(* uv_unref, the loop) is external and modelled as it is used here; its    *)
(* reference count is an unsigned integer that uv_ref and uv_unref read,   *)
(* change and write back without a lock.                                   *)
(***************************************************************************)
EXTENDS Integers, Sequences, FiniteSets

CONSTANTS Threads,          \* native threads
          Main,             \* the thread that runs JavaScript and the loop
          None,             \* nobody: a free mutex, no invocation at hand
          MaxNest,          \* bound: depth of direct callbacks on Main
          MaxQueue,         \* bound: a call starts with at most so many queued
          MaxOthers,        \* bound: other handles that keep the loop alive
          CountModulus,     \* the loop's count is unsigned: 2^32 in libuv
          SpuriousWakeups   \* cond_wait may return without a signal

ASSUME ThreadsAssumption == /\ Main \notin Threads
                            /\ None \notin Threads \cup {Main}

ASSUME BoundsAssumption == /\ MaxNest \in Nat
                           /\ MaxQueue \in Nat
                           /\ MaxOthers \in Nat
                           /\ CountModulus \in Nat
                           /\ MaxOthers + 1 < CountModulus
                           /\ SpuriousWakeups \in BOOLEAN

VARIABLES
  pc,             \* where each native thread is in Invoke
  main,           \* where the main thread is
  cur,            \* `inv` in WatcherCallback
  nested,         \* direct callbacks (DispatchToV8 from Invoke) on Main's stack
  queue,          \* g_queue
  queueMutex,     \* the holder of g_queue_mutex
  invMutex,       \* the holder of each invocation's m_mutex
  outcome,        \* what JavaScript did for each thread's invocation
  asyncPending,   \* g_async has been sent and not yet been handled
  refFlag,        \* UV_HANDLE_REF of g_async
  activeHandles,  \* the loop's count of referenced active handles
  reg,            \* the count as a thread (or Main) has read it
  others,         \* referenced active handles other than g_async
  unsignalled,    \* history: a wait has returned without a signal
  raced           \* history: two uses of g_async's reference have overlapped

threadVars == <<pc, invMutex, outcome>>
queueVars  == <<queue, queueMutex, asyncPending>>
loopVars   == <<refFlag, activeHandles, reg, others>>
mainVars   == <<main, cur, nested>>
historyVars == <<unsignalled, raced>>
vars == <<threadVars, queueVars, loopVars, mainVars, historyVars>>

-----------------------------------------------------------------------------
(* Program locations *)

(* The invocation object exists: from its constructor to `delete inv`. *)
Allocated == {"lockq", "push", "send", "wait", "waiting", "woken",
              "unref", "unrefset", "unrefsub", "delete"}

ThreadLocs == Allocated \cup {"c", "ref", "refset", "refadd", "new"}

(* WaitForExecution has returned. *)
Released == {"unref", "unrefset", "unrefsub", "delete"}

(* Between the uv_ref and the uv_unref of Invoke. *)
Holding == {"new", "lockq", "push", "send", "wait", "waiting", "woken", "unref"}

(* WatcherCallback has popped `inv` and is not done with it. *)
Serving == {"dispatch", "siglock", "signal", "sigunlock"}

(* The main thread holds g_queue_mutex. *)
InWatcher == Serving \cup {"drain"}

(* Between the first step of uv_ref and the last of uv_unref, and in the    *)
(* middle of one of them: the count is read and not yet written back.       *)
Referring == Holding \cup {"ref", "refset", "refadd", "unrefset", "unrefsub"}
Updating  == {"refadd", "unrefsub"}

Ended == {"exited", "dead"}

MainLocs == InWatcher \cup Ended \cup {"loop", "handle", "lockq"}

Goto(t, from, to) == /\ main \notin Ended
                     /\ pc[t] = from
                     /\ pc' = [pc EXCEPT ![t] = to]

MainGoto(from, to) == main = from /\ main' = to

Init == /\ pc = [t \in Threads |-> "c"]
        /\ main = "loop"
        /\ cur = None
        /\ nested = 0
        /\ queue = <<>>
        /\ queueMutex = None
        /\ invMutex = [t \in Threads |-> None]
        /\ outcome = [t \in Threads |-> "none"]
        /\ asyncPending = FALSE
        /\ refFlag = FALSE          \* Initialize: uv_async_init, then uv_unref
        /\ activeHandles = 0
        /\ reg = [p \in Threads \cup {Main} |-> 0]
        /\ others = 0
        /\ unsignalled = FALSE /\ raced = FALSE

-----------------------------------------------------------------------------
(* Invoke on a native thread *)

(* The closure is called: `uv_thread_equal` fails and the thread goes for   *)
(* uv_ref.  (Only stale invocations can make MaxQueue matter.)              *)
Enter(t) == /\ Len(queue) =< MaxQueue
            /\ Goto(t, "c", "ref")
            /\ raced' = (raced \/ \E u \in Threads : pc[u] \in Referring)
            /\ UNCHANGED <<invMutex, outcome, queueVars, loopVars, mainVars, unsignalled>>

(* uv_ref: nothing to do if the handle is referenced already ... *)
UvRefTestFault_NoRef(t) ==      \* faulty: Invoke does not hold the loop
  /\ Goto(t, "ref", "new")
  /\ UNCHANGED <<invMutex, outcome, queueVars, loopVars, mainVars, historyVars>>
UvRefTest(t) ==
  /\ Goto(t, "ref", IF refFlag THEN "new" ELSE "refset")
  /\ UNCHANGED <<invMutex, outcome, queueVars, loopVars, mainVars, historyVars>>

(* ... else set the flag, read the count ... *)
UvRefSet(t) ==
  /\ Goto(t, "refset", "refadd")
  /\ refFlag' = TRUE
  /\ reg' = [reg EXCEPT ![t] = activeHandles]
  /\ raced' = (raced \/ main = "handle")
  /\ UNCHANGED <<invMutex, outcome, queueVars, activeHandles, others, mainVars,
                 unsignalled>>

(* ... and write it back, one more. *)
UvRefAdd(t) ==
  /\ Goto(t, "refadd", "new")
  /\ activeHandles' = (reg[t] + 1) % CountModulus
  /\ reg' = [reg EXCEPT ![t] = 0]
  /\ UNCHANGED <<invMutex, outcome, queueVars, refFlag, others, mainVars, historyVars>>

(* new ThreadedCallbackInvokation: the constructor locks m_mutex, so that  *)
(* SignalDoneExecuting cannot run before the owner is in uv_cond_wait.     *)
NewInvokation(t) ==
  /\ Goto(t, "new", "lockq")
  /\ invMutex' = [invMutex EXCEPT ![t] = t]
  /\ UNCHANGED <<outcome, queueVars, loopVars, mainVars, historyVars>>

LockQueue(t) ==
  /\ queueMutex = None
  /\ Goto(t, "lockq", "push")
  /\ queueMutex' = t
  /\ UNCHANGED <<invMutex, outcome, queue, asyncPending, loopVars, mainVars, historyVars>>

(* g_queue.push(inv), and g_queue_mutex is given back. *)
PushQueueFault_Front(t) ==      \* faulty: the newest invocation comes first
  /\ Goto(t, "push", "send")
  /\ queue' = <<t>> \o queue
  /\ queueMutex' = None
  /\ UNCHANGED <<invMutex, outcome, asyncPending, loopVars, mainVars, historyVars>>
PushQueue(t) ==
  /\ Goto(t, "push", "send")
  /\ queue' = Append(queue, t)
  /\ queueMutex' = None
  /\ UNCHANGED <<invMutex, outcome, asyncPending, loopVars, mainVars, historyVars>>

(* uv_async_send: sends coalesce while one is pending. *)
AsyncSendFault_IfFirst(t) ==    \* faulty: wakes Main up for the first only
  /\ Goto(t, "send", "wait")
  /\ asyncPending' = (asyncPending \/ queue = <<t>>)
  /\ UNCHANGED <<invMutex, outcome, queue, queueMutex, loopVars, mainVars, historyVars>>
AsyncSend(t) ==
  /\ Goto(t, "send", "wait")
  /\ asyncPending' = TRUE
  /\ UNCHANGED <<invMutex, outcome, queue, queueMutex, loopVars, mainVars, historyVars>>

(* WaitForExecution: uv_cond_wait gives m_mutex up and sleeps. *)
WaitForExecution(t) ==
  /\ Goto(t, "wait", "waiting")
  /\ invMutex' = [invMutex EXCEPT ![t] = None]
  /\ UNCHANGED <<outcome, queueVars, loopVars, mainVars, historyVars>>

(* uv_cond_wait may return without a signal, and WaitForExecution has no    *)
(* predicate to test.                                                       *)
SpuriousWakeupFault_Timeout(t) ==   \* faulty: the wait has a timeout
  /\ Goto(t, "waiting", "woken")
  /\ UNCHANGED <<invMutex, outcome, queueVars, loopVars, mainVars, historyVars>>
SpuriousWakeup(t) ==
  /\ SpuriousWakeups
  /\ Goto(t, "waiting", "woken")
  /\ unsignalled' = TRUE
  /\ UNCHANGED <<invMutex, outcome, queueVars, loopVars, mainVars, raced>>

(* uv_cond_wait takes m_mutex again before it returns. *)
WaitReturns(t) ==
  /\ invMutex[t] = None
  /\ Goto(t, "woken", "unref")
  /\ invMutex' = [invMutex EXCEPT ![t] = t]
  /\ UNCHANGED <<outcome, queueVars, loopVars, mainVars, historyVars>>

(* uv_unref: the same three steps as uv_ref. *)
UvUnrefTestFault_Keep(t) ==     \* faulty: the loop stays referenced
  /\ Goto(t, "unref", "delete")
  /\ UNCHANGED <<invMutex, outcome, queueVars, loopVars, mainVars, historyVars>>
UvUnrefTest(t) ==
  /\ Goto(t, "unref", IF refFlag THEN "unrefset" ELSE "delete")
  /\ UNCHANGED <<invMutex, outcome, queueVars, loopVars, mainVars, historyVars>>

UvUnrefSet(t) ==
  /\ Goto(t, "unrefset", "unrefsub")
  /\ refFlag' = FALSE
  /\ reg' = [reg EXCEPT ![t] = activeHandles]
  /\ raced' = (raced \/ main = "handle")
  /\ UNCHANGED <<invMutex, outcome, queueVars, activeHandles, others, mainVars,
                 unsignalled>>

UvUnrefSub(t) ==
  /\ Goto(t, "unrefsub", "delete")
  /\ activeHandles' = (reg[t] - 1) % CountModulus
  /\ reg' = [reg EXCEPT ![t] = 0]
  /\ UNCHANGED <<invMutex, outcome, queueVars, refFlag, others, mainVars, historyVars>>

(* delete inv: the destructor unlocks m_mutex; Invoke returns to C. *)
DeleteInvokation(t) ==
  /\ Goto(t, "delete", "c")
  /\ invMutex' = [invMutex EXCEPT ![t] = None]
  /\ outcome' = [outcome EXCEPT ![t] = "none"]
  /\ UNCHANGED <<queueVars, loopVars, mainVars, historyVars>>

-----------------------------------------------------------------------------
(* WatcherCallback on the main thread *)

(* The loop handles g_async: pending is cleared, then the callback runs.    *)
Wakeup == /\ asyncPending /\ nested = 0
          /\ MainGoto("loop", "lockq")
          /\ asyncPending' = FALSE
          /\ UNCHANGED <<cur, nested, threadVars, queue, queueMutex, loopVars,
                         historyVars>>

WatcherLock == /\ queueMutex = None
               /\ MainGoto("lockq", "drain")
               /\ queueMutex' = Main
               /\ UNCHANGED <<cur, nested, threadVars, queue, asyncPending, loopVars,
                              historyVars>>

WatcherPopFault_FrontOnly ==    \* faulty: front() without pop()
  /\ queue # <<>>
  /\ MainGoto("drain", "dispatch")
  /\ cur' = Head(queue)
  /\ UNCHANGED <<nested, threadVars, queueVars, loopVars, historyVars>>
WatcherPop == /\ queue # <<>>
              /\ MainGoto("drain", "dispatch")
              /\ cur' = Head(queue)
              /\ queue' = Tail(queue)
              /\ UNCHANGED <<nested, threadVars, queueMutex, asyncPending, loopVars,
                             historyVars>>

(* DispatchToV8 returns: the JavaScript function wrote the return value, or *)
(* it threw and errorFunction has reported the error.                       *)
DispatchDone == /\ nested = 0
                /\ MainGoto("dispatch", "siglock")
                /\ \E o \in {"value", "error"} :
                     outcome' = [outcome EXCEPT ![cur] = o]
                /\ UNCHANGED <<cur, nested, pc, invMutex, queueVars, loopVars,
                               historyVars>>

(* errorFunction rethrows on the next tick, which runs before DispatchToV8  *)
(* is back; without an uncaughtException handler the process ends there.    *)
UncaughtError == /\ nested = 0
                 /\ MainGoto("dispatch", "dead")
                 /\ UNCHANGED <<cur, nested, threadVars, queueVars, loopVars,
                                historyVars>>

(* SignalDoneExecuting: lock, signal, unlock. *)
SignalLock == /\ MainGoto("siglock", "signal")
              /\ invMutex[cur] = None
              /\ invMutex' = [invMutex EXCEPT ![cur] = Main]
              /\ UNCHANGED <<cur, nested, pc, outcome, queueVars, loopVars, historyVars>>

(* A signal wakes the waiting thread up, and is lost if nobody waits. *)
SignalCondFault_Shared ==       \* faulty: one condition variable for all
  /\ MainGoto("signal", "sigunlock")
  /\ pc' = [t \in Threads |-> IF pc[t] = "waiting" THEN "woken" ELSE pc[t]]
  /\ UNCHANGED <<cur, nested, invMutex, outcome, queueVars, loopVars, historyVars>>
SignalCond ==
  /\ MainGoto("signal", "sigunlock")
  /\ pc' = IF pc[cur] = "waiting" THEN [pc EXCEPT ![cur] = "woken"] ELSE pc
  /\ UNCHANGED <<cur, nested, invMutex, outcome, queueVars, loopVars, historyVars>>

SignalUnlockFault_KeepCur ==    \* faulty: the popped invocation is kept
  /\ MainGoto("sigunlock", "drain")
  /\ invMutex' = [invMutex EXCEPT ![cur] = None]
  /\ UNCHANGED <<cur, nested, pc, outcome, queueVars, loopVars, historyVars>>
SignalUnlock == /\ MainGoto("sigunlock", "drain")
                /\ invMutex' = [invMutex EXCEPT ![cur] = None]
                /\ cur' = None
                /\ UNCHANGED <<nested, pc, outcome, queueVars, loopVars, historyVars>>

(* The queue is empty: WatcherCallback unlocks and returns to the loop. *)
WatcherUnlockFault_OneOnly ==   \* faulty: one invocation per wake-up
  /\ MainGoto("drain", "loop")
  /\ queueMutex' = None
  /\ UNCHANGED <<cur, nested, threadVars, queue, asyncPending, loopVars, historyVars>>
WatcherUnlock == /\ queue = <<>>
                 /\ MainGoto("drain", "loop")
                 /\ queueMutex' = None
                 /\ UNCHANGED <<cur, nested, threadVars, queue, asyncPending, loopVars,
                                historyVars>>

-----------------------------------------------------------------------------
(* The rest of the main thread *)

(* JavaScript on the main thread calls C code that calls the pointer back:  *)
(* Invoke finds itself on g_mainthread and dispatches directly, whether or  *)
(* not WatcherCallback is further up the stack.                             *)
InvokeOnMain == /\ main \in {"loop", "dispatch"}
                /\ nested < MaxNest
                /\ nested' = nested + 1
                /\ UNCHANGED <<main, cur, threadVars, queueVars, loopVars, historyVars>>

ReturnOnMain == /\ main \in {"loop", "dispatch"}
                /\ nested > 0
                /\ nested' = nested - 1
                /\ UNCHANGED <<main, cur, threadVars, queueVars, loopVars, historyVars>>

(* The program starts or stops a handle of its own: libuv reads the count   *)
(* on the main thread and writes it back.                                   *)
HandleLoad == /\ nested = 0
              /\ MainGoto("loop", "handle")
              /\ \E d \in {1, -1} :
                   /\ others + d \in 0..MaxOthers
                   /\ others' = others + d
                   /\ reg' = [reg EXCEPT ![Main] = (activeHandles + d) % CountModulus]
              /\ raced' = (raced \/ \E t \in Threads : pc[t] \in Updating)
              /\ UNCHANGED <<cur, nested, threadVars, queueVars, refFlag,
                             activeHandles, unsignalled>>

HandleStore == /\ MainGoto("handle", "loop")
               /\ activeHandles' = reg[Main]
               /\ reg' = [reg EXCEPT ![Main] = 0]
               /\ UNCHANGED <<cur, nested, threadVars, queueVars, refFlag, others,
                              historyVars>>

(* uv_run returns when the count is zero, and the process exits with every  *)
(* thread it has.                                                           *)
LoopExit == /\ activeHandles = 0 /\ nested = 0
            /\ MainGoto("loop", "exited")
            /\ UNCHANGED <<cur, nested, threadVars, queueVars, loopVars, historyVars>>

Over == main \in Ended /\ UNCHANGED vars

-----------------------------------------------------------------------------
InvokeStep(t) ==
  \/ UvRefTest(t) \/ UvRefSet(t) \/ UvRefAdd(t)
  \/ NewInvokation(t) \/ LockQueue(t) \/ PushQueue(t) \/ AsyncSend(t)
  \/ WaitForExecution(t) \/ WaitReturns(t)
  \/ UvUnrefTest(t) \/ UvUnrefSet(t) \/ UvUnrefSub(t) \/ DeleteInvokation(t)

WatcherStep == \/ WatcherLock \/ WatcherPop \/ DispatchDone \/ UncaughtError
               \/ SignalLock \/ SignalCond \/ SignalUnlock \/ WatcherUnlock

Next == \/ \E t \in Threads : Enter(t) \/ InvokeStep(t) \/ SpuriousWakeup(t)
        \/ Wakeup \/ WatcherStep
        \/ InvokeOnMain \/ ReturnOnMain \/ HandleLoad \/ HandleStore
        \/ LoopExit \/ Over

(* A thread that can run runs, and a mutex that is free again and again is  *)
(* granted; the loop polls again and again, and user callbacks return.      *)
Fairness == /\ \A t \in Threads : WF_vars(InvokeStep(t)) /\ SF_vars(LockQueue(t))
            /\ WF_vars(WatcherStep) /\ SF_vars(DispatchDone)
            /\ SF_vars(Wakeup)
            /\ WF_vars(ReturnOnMain) /\ WF_vars(HandleStore)

Spec == Init /\ [][Next]_vars

FairSpec == Spec /\ Fairness

-----------------------------------------------------------------------------
(* Safety *)

(* Every variable has its type; WatcherCallback's `inv` is set exactly     *)
(* while an invocation is being served, and only a step in the middle of   *)
(* an update holds a copy of the reference count.                          *)
TypeOK ==
  /\ pc \in [Threads -> ThreadLocs]
  /\ main \in MainLocs
  /\ cur \in Threads \cup {None}
  /\ main \in Serving => cur \in Threads
  /\ main \in {"loop", "lockq", "drain", "handle"} => cur = None
  /\ nested \in 0..MaxNest
  /\ queue \in Seq(Threads)
  /\ queueMutex \in Threads \cup {Main, None}
  /\ invMutex \in [Threads -> Threads \cup {Main, None}]
  /\ outcome \in [Threads -> {"none", "value", "error"}]
  /\ asyncPending \in BOOLEAN
  /\ refFlag \in BOOLEAN
  /\ activeHandles \in 0..CountModulus - 1
  /\ reg \in [Threads \cup {Main} -> 0..CountModulus - 1]
  /\ \A t \in Threads : reg[t] # 0 => pc[t] \in {"refadd", "unrefsub"}
  /\ others \in 0..MaxOthers
  /\ unsignalled \in BOOLEAN /\ raced \in BOOLEAN
  /\ unsignalled => SpuriousWakeups

Queued(t) == \E i \in 1..Len(queue) : queue[i] = t

(* uv_cond_wait may return without a signal, WaitForExecution has no        *)
(* predicate to find that out with, and the code below it then uses memory  *)
(* that is gone.  The next four hold for as long as that has not happened.  *)

(* The order ffi.h promises for ThreadedCallbackInvokation:                 *)
(* WaitForExecution only returns after the callback ran for this thread and *)
(* SignalDoneExecuting got its mutex, so the C caller never reads a result  *)
(* that is not there.                                                       *)
OrderOfExecution ==
  unsignalled \/ \A t \in Threads : pc[t] \in Released => outcome[t] # "none"

(* Neither the queue nor WatcherCallback holds an invocation that its owner *)
(* has deleted, although the owner deletes it without taking any lock the   *)
(* main thread holds.                                                       *)
NoUseAfterFree ==
  unsignalled \/ /\ \A t \in Threads : Queued(t) => pc[t] \in Allocated
                 /\ main \in Serving => pc[cur] \in Allocated

(* The signal is never lost: when SignalDoneExecuting signals, the owner is *)
(* inside uv_cond_wait (the purpose of the lock taken in the constructor).  *)
SignalFindsWaiter == unsignalled \/ (main = "signal" => pc[cur] = "waiting")

(* An invocation is executed once: nothing WatcherCallback dispatches has   *)
(* been executed, and nothing executed is still in the queue.               *)
ExactlyOnce ==
  unsignalled \/ /\ main = "dispatch" => outcome[cur] = "none"
                 /\ \A t \in Threads : Queued(t) => outcome[t] = "none"

(* g_queue (a std::queue without a lock of its own) is in the hands of one  *)
(* thread at a time, JavaScript running inside WatcherCallback included.    *)
QueueAccessExclusive ==
  /\ \A t \in Threads : pc[t] = "push" => queueMutex = t
  /\ main \in InWatcher => queueMutex = Main

(* No invocation is stranded: while the queue holds one, WatcherCallback is *)
(* about to look at it, or a wake-up is pending, or a thread that has       *)
(* queued one is about to send it (sends coalesce, so one wake-up has to    *)
(* do for many).                                                            *)
NoStranded ==
  queue # <<>> => \/ asyncPending
                  \/ main \in InWatcher \cup {"lockq"} \cup Ended
                  \/ \E t \in Threads : Queued(t) /\ pc[t] = "send"

(* The inductive invariant behind the properties above, in parts.           *)

Asleep == {"send", "wait", "waiting"}   \* pushed, and not signalled yet

(* Who is queued: each thread once, handed over and not executed. *)
QueueInv ==
  /\ \A i, j \in 1..Len(queue) : queue[i] = queue[j] => i = j
  /\ \A i \in 1..Len(queue) : /\ pc[queue[i]] \in Asleep
                              /\ outcome[queue[i]] = "none"
                              /\ queue[i] # cur

(* Whom WatcherCallback serves, step by step. *)
ServiceInv ==
  /\ main = "dispatch" => pc[cur] \in Asleep /\ outcome[cur] = "none"
  /\ main = "siglock" => pc[cur] \in Asleep /\ outcome[cur] # "none"
  /\ main = "signal" => /\ pc[cur] = "waiting" /\ outcome[cur] # "none"
                        /\ invMutex[cur] = Main
  /\ main = "sigunlock" => /\ pc[cur] = "woken" /\ outcome[cur] # "none"
                           /\ invMutex[cur] = Main

(* Only a served thread has an outcome, and no other gets past the wait. *)
OutcomeInv ==
  \A t \in Threads :
    /\ pc[t] \in Released \cup {"woken"} => outcome[t] # "none"
    /\ outcome[t] # "none" => \/ pc[t] \in Released \cup {"woken"}
                              \/ cur = t /\ main \in Serving \ {"dispatch"}

(* Who holds m_mutex: its owner except while it sleeps, or else Main. *)
InvMutexInv ==
  \A t \in Threads :
    /\ pc[t] \in {"lockq", "push", "send", "wait"} \cup Released => invMutex[t] = t
    /\ pc[t] \in {"waiting", "woken"} => invMutex[t] \in {None, Main}
    /\ invMutex[t] = Main => cur = t /\ main \in {"signal", "sigunlock"}

HandshakeInv == QueueInv /\ ServiceInv /\ OutcomeInv /\ InvMutexInv

RendezvousInv == /\ TypeOK /\ QueueAccessExclusive /\ NoStranded
                 /\ unsignalled \/ HandshakeInv

(* What makes the reference of g_async as good as a count.  Without a race  *)
(* one thread at a time refers to the loop; the flag and the count follow   *)
(* it, and a copy of the count is still right when it is written back.      *)
References == IF \E t \in Threads : pc[t] \in Holding \cup {"unrefset", "unrefsub"}
              THEN 1 ELSE 0

ReferenceInv ==
  /\ \A t, u \in Threads : pc[t] \in Referring /\ pc[u] \in Referring => t = u
  /\ refFlag <=> \E t \in Threads : pc[t] \in Holding \cup {"refadd", "unrefset"}
  /\ (IF main = "handle" THEN reg[Main] ELSE activeHandles) = others + References
  /\ \A t \in Threads : pc[t] \in Updating =>
       main # "handle" /\ reg[t] = activeHandles

LoopInv == TypeOK /\ (raced \/ ReferenceInv)

(* "hold the event loop open while this is executing": the loop does not    *)
(* end, and the process with it, while a thread is between uv_ref and       *)
(* uv_unref.                                                                *)
ExitsIdle == LoopExit => \A t \in Threads : pc[t] \notin Holding

NoExitWhileExecuting == [][ExitsIdle]_vars

(* What there is of it: only a race over the reference can make the loop    *)
(* end under a callback, that is a second thread in Invoke, or uv_ref or    *)
(* uv_unref while the main thread changes the count for another handle.     *)
HeldUnlessRaced == [][raced \/ ExitsIdle]_vars

(* "allow the event loop to exit while this is running": with every thread  *)
(* out of Invoke only the program's own handles keep the loop alive, unless *)
(* such a race has lost an update of the count.                             *)
LoopReleased ==
  \/ raced
  \/ (\A t \in Threads : pc[t] = "c") /\ main # "handle" => activeHandles = others

(* Liveness *)

(* Every native call of a callback comes back, unless the process ends.     *)
InvokeCompletes ==
  \A t \in Threads : pc[t] \in Allocated ~> (pc[t] = "c" \/ main \in Ended)

(* The rendezvous that ffi.Callback promises: an invocation is handed over  *)
(* by the push, executed by DispatchToV8 and over when Invoke returns.      *)
Pending == IF main \in {"dispatch", "dead"} THEN <<cur>> \o queue ELSE queue

Call == [t \in Threads |-> IF outcome[t] # "none" THEN "executed"
                           ELSE IF pc[t] \in Asleep THEN "requested"
                           ELSE "idle"]

Promise == INSTANCE CallbackRendezvous
             WITH call <- Call, order <- Pending, open <- main \notin Ended

ImplementsRendezvous == Promise!Spec

(* The safety part of the same: every step is one of the rendezvous or none. *)
StepsLikeRendezvous == Promise!Init /\ [][Promise!Next]_(Promise!vars)
=============================================================================
