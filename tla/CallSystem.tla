----------------------------- MODULE CallSystem -----------------------------
(***************************************************************************)
(* The call paths together: foreign calls on the main thread               *)
(* (ForeignCall), calls of callbacks from other threads                    *)
(* (CallbackRendezvous, which ThreadedCallback implements), the mutex that *)
(* WatcherCallback holds while it runs them (src/src/callback_info.cc),    *)
(* and C code on the main thread that waits for another thread.            *)
(*                                                                         *)
(* A thread runs a C function: one of libuv's pool for proxy.async, or one *)
(* that C code has started.  Callbacks it makes are run by the main thread *)
(* from the event loop, that is with nothing else on its stack; so a C     *)
(* function on the main thread that waits for such a thread blocks both.   *)
(***************************************************************************)
EXTENDS Naturals, Sequences, SequencesExt

CONSTANTS Threads,    \* native threads and threads of the pool
          None,       \* the main thread waits for nobody
          Callbacks,  \* as in ForeignCall
          MaxDepth    \* as in ForeignCall

ASSUME NoneAssumption == None \notin Threads

VARIABLES
  stack, scheduled, live,  \* as in ForeignCall
  call, order,             \* as in CallbackRendezvous
  thread,     \* what each thread does: "idle", "c", "enter" or "wait"
  args,       \* the callbacks that argsList of its asynchronous call keeps
  draining,   \* WatcherCallback runs and holds g_queue_mutex
  joining     \* the thread the innermost C function on Main waits for

syncVars   == <<stack, scheduled, live>>
calledVars == <<call, order>>
threadVars == <<thread, args>>
vars == <<syncVars, calledVars, threadVars, draining, joining>>

pinned == UNION {args[t] : t \in Threads}

Sync    == INSTANCE ForeignCall
Promise == INSTANCE CallbackRendezvous WITH open <- TRUE

Init == /\ stack = <<>> /\ scheduled = 0 /\ live = {}
        /\ Promise!Init
        /\ thread = [t \in Threads |-> "idle"]
        /\ args = [t \in Threads |-> {}]
        /\ draining = FALSE
        /\ joining = None

-----------------------------------------------------------------------------
(* The main thread *)

(* It runs JavaScript and C until C waits. *)
SyncStep == \/ Sync!FFICallThrows \/ Sync!FFICallReturns
            \/ Sync!Invoke \/ Sync!InvokeCollected
            \/ Sync!CallbackReturns \/ Sync!CallbackFails
            \/ Sync!CallbackThrowsUndefined \/ Sync!Surface
            \/ \E K \in SUBSET Callbacks : Sync!ProxyThrows(K) \/ Sync!Proxy(K)

MainRuns == /\ UNCHANGED <<calledVars, threadVars, draining, joining>>
            /\ joining = None
            /\ SyncStep

(* The loop runs a script, a timer, the completion of an asynchronous call. *)
RunTask == /\ UNCHANGED <<calledVars, threadVars, draining, joining>>
           /\ ~draining
           /\ Sync!RunTask

TaskEnds == /\ UNCHANGED <<calledVars, threadVars, draining, joining>>
            /\ ~draining
            /\ Sync!TaskEnds

(* WatcherCallback: the mutex is taken, ... *)
WatcherLock == /\ stack = <<>> /\ ~draining /\ order # <<>>
               /\ draining' = TRUE
               /\ UNCHANGED <<syncVars, calledVars, threadVars, joining>>

(* ... the oldest invocation is dispatched, ... *)
Dispatch == /\ UNCHANGED <<calledVars, threadVars, draining, joining>>
            /\ draining /\ order # <<>>
            /\ Sync!RunTask

(* ... an error goes to errorFunction, not to V8, the thread is signalled   *)
(* and the next one is looked for, ...                                      *)
DispatchEndsFault_Throws ==     \* faulty: DispatchToV8 is not told `dispatched`
  /\ draining
  /\ Sync!Running("js") /\ Len(stack) = 1
  /\ stack' = <<>> /\ scheduled' = 1
  /\ Promise!Execute
  /\ UNCHANGED <<live, threadVars, draining, joining>>
DispatchEndsFault_NoSignal ==   \* faulty: the thread is not signalled
  /\ UNCHANGED <<call, threadVars, draining, joining>>
  /\ draining
  /\ Sync!TaskEnds
  /\ order' = Tail(order)
DispatchEnds == /\ UNCHANGED <<threadVars, draining, joining>>
                /\ draining
                /\ Sync!TaskEnds
                /\ Promise!Execute

(* ... until the queue is empty. *)
WatcherUnlock == /\ stack = <<>> /\ draining /\ order = <<>>
                 /\ draining' = FALSE
                 /\ UNCHANGED <<syncVars, calledVars, threadVars, joining>>

(* The innermost C function waits for a thread: a join, a lock, an answer.  *)
Join(t) == /\ joining = None /\ Sync!Running("c")
           /\ thread[t] # "idle"
           /\ joining' = t
           /\ UNCHANGED <<syncVars, calledVars, threadVars, draining>>

JoinEnds == /\ joining # None
            /\ thread[joining] = "idle"
            /\ joining' = None
            /\ UNCHANGED <<syncVars, calledVars, threadVars, draining>>

-----------------------------------------------------------------------------
(* The other threads *)

Goto(t, from, to) == /\ thread[t] = from
                     /\ thread' = [thread EXCEPT ![t] = to]

(* proxy.async (K is what its arguments became), or C code starts a thread. *)
StartThread(t, K) == /\ joining = None /\ args[t] = {}
                     /\ Goto(t, "idle", "c")
                     /\ args' = [args EXCEPT ![t] = K]
                     /\ \/ Sync!MakeCallbacks(K)
                        \/ Sync!Running("c") /\ K = {} /\ UNCHANGED live
                     /\ UNCHANGED <<stack, scheduled, calledVars, draining, joining>>

(* The C function returns, ... *)
ThreadEnds(t) == /\ Goto(t, "c", "idle")
                 /\ UNCHANGED <<syncVars, calledVars, args, draining, joining>>

(* ... and the loop is done with the completion of the asynchronous call.   *)
Completed(t) == /\ stack = <<>> /\ ~draining
                /\ thread[t] = "idle" /\ args[t] # {}
                /\ args' = [args EXCEPT ![t] = {}]
                /\ UNCHANGED <<syncVars, calledVars, thread, draining, joining>>

(* C calls a callback: Invoke finds itself on another thread, ... *)
InvokeEnter(t) == /\ Goto(t, "c", "enter")
                  /\ UNCHANGED <<syncVars, calledVars, args, draining, joining>>

(* ... gets the mutex, queues the invocation and waits, ... *)
InvokeQueues(t) == /\ ~draining
                   /\ Goto(t, "enter", "wait")
                   /\ Promise!Request(t)
                   /\ UNCHANGED <<syncVars, args, draining, joining>>

(* ... and returns once it is executed. *)
InvokeReturnsFault_Timeout(t) ==   \* faulty: it gives up waiting
  /\ Goto(t, "wait", "c")
  /\ call' = [call EXCEPT ![t] = "idle"]
  /\ UNCHANGED <<syncVars, order, args, draining, joining>>
InvokeReturns(t) == /\ Goto(t, "wait", "c")
                    /\ Promise!Return(t)
                    /\ UNCHANGED <<syncVars, args, draining, joining>>

Collect(k) == /\ UNCHANGED <<calledVars, threadVars, draining, joining>>
              /\ Sync!Collect(k)

-----------------------------------------------------------------------------
ThreadStep(t) == InvokeEnter(t) \/ InvokeQueues(t) \/ InvokeReturns(t) \/ ThreadEnds(t)

Next == \/ MainRuns \/ RunTask \/ TaskEnds \/ JoinEnds
        \/ WatcherLock \/ Dispatch \/ DispatchEnds \/ WatcherUnlock
        \/ \E t \in Threads : \/ ThreadStep(t) \/ Join(t) \/ Completed(t)
                             \/ \E K \in SUBSET Callbacks : StartThread(t, K)
        \/ \E k \in Callbacks : Collect(k)

Spec == Init /\ [][Next]_vars

(* A frame that could return does not run or call others for ever. *)
Returns(depth) == /\ Len(stack) = depth
                  /\ MainRuns \/ TaskEnds \/ DispatchEnds
                  /\ Len(stack') < depth

(* The loop gets round to the watcher and a mutex to those who wait for it. *)
Fairness == /\ \A depth \in 1 .. MaxDepth : SF_vars(Returns(depth))
            /\ SF_vars(WatcherLock)
            /\ WF_vars(Dispatch) /\ WF_vars(WatcherUnlock) /\ WF_vars(JoinEnds)
            /\ \A t \in Threads : SF_vars(InvokeQueues(t)) /\ WF_vars(ThreadStep(t))

FairSpec == Spec /\ Fairness

-----------------------------------------------------------------------------
(* Every variable has its type.  A thread that waits has handed an          *)
(* invocation over; only C waits for a thread; what is dispatched while     *)
(* the mutex is held is the head of the queue.                              *)
TypeOK ==
  /\ Sync!TypeOK
  /\ order \in Seq(Threads)
  /\ call \in [Threads -> {"idle", "requested", "executed"}]
  /\ thread \in [Threads -> {"idle", "c", "enter", "wait"}]
  /\ args \in [Threads -> SUBSET Callbacks]
  /\ draining \in BOOLEAN
  /\ joining \in Threads \cup {None}
  /\ \A t \in Threads : thread[t] = "wait" <=> call[t] # "idle"
  /\ joining # None => Sync!Running("c")
  /\ draining /\ stack # <<>> => order # <<>>

(* The scheduled exception stays a matter of the main thread's own C        *)
(* functions, that of the one that owes it: a callback that fails for       *)
(* another thread schedules none.                                           *)
ExceptionInv == Sync!ExceptionInv

(* Whatever the threads do meanwhile, a foreign call does not return a      *)
(* value left unwritten by a callback whose error, or the one in its place, *)
(* JavaScript has still to be told.                                         *)
ErrorsSurface == Sync!ErrorsSurface

(* The callbacks made for a call's arguments, on the stack or on a thread,  *)
(* are not collected before it is over, whatever argsList and the           *)
(* completion closure leave to the collector.                               *)
ArgumentsAlive == Sync!ArgumentsAlive

(* The main thread waits for a thread that waits for the main thread.       *)
Circular == /\ joining # None
            /\ \/ call[joining] = "requested"
               \/ thread[joining] = "enter" /\ draining

(* There is no way out of that: no other step ends it. *)
StuckForGood == [][Circular => Circular']_vars

(* But for that, every thread that calls a callback gets its answer,        *)
(* however deep the main thread is in calls and callbacks, and whatever     *)
(* threads it waits for.                                                    *)
CallbacksAnswered == \A t \in Threads :
  thread[t] \in {"enter", "wait"} ~> (thread[t] = "c" \/ Circular)
=============================================================================
