-------------------------- MODULE CallSystemProofs --------------------------
(* CallSystem implements its two parts, so what is proved of ForeignCall    *)
(* holds in the whole; and its deadlock is the circular wait, for good.     *)
EXTENDS CallSystem, SequenceTheorems, TLAPS

SyncProofs == INSTANCE ForeignCallProofs

USE NoneAssumption DEF Goto, syncVars, calledVars, threadVars

-----------------------------------------------------------------------------
(* Types *)

(* TypeOK but for the variables of the main thread. *)
LocalTypes ==
  /\ order \in Seq(Threads)
  /\ call \in [Threads -> {"idle", "requested", "executed"}]
  /\ thread \in [Threads -> {"idle", "c", "enter", "wait"}]
  /\ args \in [Threads -> SUBSET Callbacks]
  /\ draining \in BOOLEAN
  /\ joining \in Threads \cup {None}
  /\ \A t \in Threads : thread[t] = "wait" <=> call[t] # "idle"
  /\ joining # None => Sync!Running("c")
  /\ draining /\ stack # <<>> => order # <<>>

(* The queue holds the invocations that are requested, each once. *)
OrderInv ==
  /\ \A i \in DOMAIN order : call[order[i]] = "requested"
  /\ \A i, j \in DOMAIN order : order[i] = order[j] => i = j

LEMMA SyncStepRuns == SyncStep => stack # <<>>
BY DEF SyncStep, Sync!FFICallThrows, Sync!FFICallReturns, Sync!Invoke,
       Sync!InvokeCollected, Sync!CallbackReturns, Sync!CallbackFails,
       Sync!CallbackThrowsUndefined, Sync!Surface, Sync!ProxyThrows, Sync!Proxy,
       Sync!MakeCallbacks, Sync!InCallback, Sync!Running

LEMMA OrderStep == LocalTypes /\ OrderInv /\ [Next]_vars => OrderInv'
<1> SUFFICES ASSUME LocalTypes, OrderInv, [Next]_vars PROVE OrderInv'
  OBVIOUS
<1>0. order \in Seq(Threads) /\ call \in [Threads -> {"idle", "requested", "executed"}]
  BY DEF LocalTypes
<1>a. \A i \in DOMAIN order : order[i] \in Threads BY <1>0, ElementOfSeq, LenProperties
<1>1. CASE DispatchEnds
  <2>1. /\ order # <<>> /\ order' = Tail(order)
        /\ call' = [call EXCEPT ![Head(order)] = "executed"]
    BY <1>1 DEF DispatchEnds, Promise!Execute
  <2>2. /\ order' \in Seq(Threads) /\ Len(order') = Len(order) - 1
        /\ \A i \in 1 .. Len(order') : order'[i] = order[i + 1]
    BY <1>0, <2>1, HeadTailProperties
  <2>3. /\ Len(order) \in Nat \ {0}
        /\ DOMAIN order = 1 .. Len(order) /\ DOMAIN order' = 1 .. Len(order')
    BY <1>0, <2>1, <2>2, EmptySeq, LenProperties
  <2>4. 1 \in DOMAIN order /\ Head(order) = order[1] BY <2>3
  <2>5. ASSUME NEW i \in DOMAIN order'
        PROVE  i + 1 \in DOMAIN order /\ order'[i] = order[i + 1] /\ i + 1 # 1
    BY <2>2, <2>3
  <2>6. \A i \in DOMAIN order' : call'[order'[i]] = "requested"
    BY <1>0, <1>a, <2>1, <2>4, <2>5 DEF OrderInv
  <2>7. \A i, j \in DOMAIN order' : order'[i] = order'[j] => i = j
    <3> SUFFICES ASSUME NEW i \in DOMAIN order', NEW j \in DOMAIN order',
                        order'[i] = order'[j]
                 PROVE  i = j
      OBVIOUS
    <3>1. i + 1 = j + 1 BY <2>5 DEF OrderInv
    <3> QED BY <2>3, <3>1
  <2> QED BY <2>6, <2>7 DEF OrderInv
<1>2. ASSUME NEW t \in Threads, InvokeQueues(t) PROVE OrderInv'
  <2>1. call[t] = "idle" /\ call' = [call EXCEPT ![t] = "requested"] /\ order' = Append(order, t)
    BY <1>2 DEF InvokeQueues, Promise!Request
  <2>2. /\ order' \in Seq(Threads) /\ Len(order') = Len(order) + 1
        /\ \A i \in 1 .. Len(order) : order'[i] = order[i]
        /\ order'[Len(order) + 1] = t
    BY <1>0, <2>1, AppendProperties
  <2>3. /\ Len(order) \in Nat
        /\ DOMAIN order = 1 .. Len(order) /\ DOMAIN order' = 1 .. Len(order')
    BY <1>0, <2>2, LenProperties
  <2>4. \A i \in DOMAIN order' : i \in DOMAIN order \/ i = Len(order) + 1 BY <2>2, <2>3
  <2>5. \A i \in DOMAIN order : order[i] # t BY <2>1 DEF OrderInv
  <2> QED BY <1>0, <1>a, <2>1, <2>2, <2>3, <2>4, <2>5 DEF OrderInv
<1>3. ASSUME NEW t \in Threads, InvokeReturns(t) PROVE OrderInv'
  <2>1. call[t] = "executed" /\ call' = [call EXCEPT ![t] = "idle"] /\ order' = order
    BY <1>3 DEF InvokeReturns, Promise!Return
  <2>2. \A i \in DOMAIN order : order[i] # t BY <2>1 DEF OrderInv
  <2> QED BY <1>0, <1>a, <2>1, <2>2 DEF OrderInv
<1>4. CASE UNCHANGED calledVars BY <1>4 DEF OrderInv
<1>5. CASE MainRuns \/ RunTask \/ TaskEnds \/ JoinEnds \/ WatcherLock \/ Dispatch
           \/ WatcherUnlock \/ UNCHANGED vars
  BY <1>4, <1>5 DEF MainRuns, RunTask, TaskEnds, JoinEnds, WatcherLock, Dispatch,
                    WatcherUnlock, vars
<1>6. ASSUME NEW t \in Threads,
             InvokeEnter(t) \/ ThreadEnds(t) \/ Join(t) \/ Completed(t)
      PROVE  OrderInv'
  BY <1>4, <1>6 DEF InvokeEnter, ThreadEnds, Join, Completed
<1>7. ASSUME NEW t \in Threads, NEW K \in SUBSET Callbacks, StartThread(t, K)
      PROVE OrderInv'
  BY <1>4, <1>7 DEF StartThread
<1>8. CASE \E k \in Callbacks : Collect(k) BY <1>4, <1>8 DEF Collect
<1> QED BY <1>1, <1>2, <1>3, <1>5, <1>6, <1>7, <1>8 DEF Next, ThreadStep

LEMMA LocalStep == LocalTypes /\ OrderInv /\ [Next]_vars => LocalTypes'
<1> SUFFICES ASSUME LocalTypes, OrderInv, [Next]_vars PROVE LocalTypes'
  OBVIOUS
<1> USE DEF LocalTypes
<1>1. CASE MainRuns BY <1>1, SyncStepRuns DEF MainRuns
<1>2. CASE RunTask \/ Dispatch
  BY <1>2 DEF RunTask, Dispatch, Sync!RunTask, Sync!Running
<1>3. CASE TaskEnds BY <1>3 DEF TaskEnds, Sync!TaskEnds, Sync!Running
<1>4. CASE DispatchEnds
  <2>1. /\ joining' = None /\ joining = None /\ stack' = <<>>
        /\ UNCHANGED <<thread, args, draining>>
        /\ order # <<>> /\ order' = Tail(order)
        /\ call' = [call EXCEPT ![Head(order)] = "executed"]
    BY <1>4 DEF DispatchEnds, Sync!TaskEnds, Sync!Running, Promise!Execute
  <2>2. Head(order) \in Threads /\ order' \in Seq(Threads) BY <2>1, HeadTailProperties
  <2>3. 1 \in DOMAIN order /\ Head(order) = order[1] BY <2>1, EmptySeq, LenProperties
  <2>4. call[Head(order)] # "idle" BY <2>3 DEF OrderInv
  <2> QED BY <2>1, <2>2, <2>4
<1>5. CASE WatcherLock \/ WatcherUnlock
  BY <1>5 DEF WatcherLock, WatcherUnlock, Sync!Running
<1>11. CASE UNCHANGED vars BY <1>11 DEF vars, Sync!Running
<1>6. CASE JoinEnds BY <1>6 DEF JoinEnds
<1>7. ASSUME NEW t \in Threads, ThreadStep(t) PROVE LocalTypes'
  <2>1. CASE InvokeQueues(t)
    BY <2>1 DEF InvokeQueues, Promise!Request, Sync!Running
  <2>2. CASE InvokeReturns(t)
    BY <2>2 DEF InvokeReturns, Promise!Return, Sync!Running
  <2>3. CASE InvokeEnter(t) \/ ThreadEnds(t)
    BY <2>3 DEF InvokeEnter, ThreadEnds, Sync!Running
  <2> QED BY <1>7, <2>1, <2>2, <2>3 DEF ThreadStep
<1>8. ASSUME NEW t \in Threads, Join(t) \/ Completed(t) PROVE LocalTypes'
  BY <1>8 DEF Join, Completed, Sync!Running
<1>9. ASSUME NEW t \in Threads, NEW K \in SUBSET Callbacks, StartThread(t, K)
      PROVE LocalTypes'
  BY <1>9 DEF StartThread, Sync!Running
<1>10. ASSUME NEW k \in Callbacks, Collect(k) PROVE LocalTypes'
  BY <1>10 DEF Collect, Sync!Collect, Sync!Running
<1> QED BY <1>1, <1>2, <1>3, <1>4, <1>5, <1>6, <1>7, <1>8, <1>9, <1>10, <1>11 DEF Next

-----------------------------------------------------------------------------
(* Implementation of the parts *)

(* No step of the whole is new to the main thread. *)
LEMMA SyncSim == LocalTypes /\ [Next]_vars => [Sync!Next]_(Sync!vars)
<1> SUFFICES ASSUME LocalTypes, [Next]_vars PROVE Sync!Next \/ UNCHANGED Sync!vars
  OBVIOUS
<1>1. CASE MainRuns
  <2>1. SyncStep BY <1>1 DEF MainRuns
  <2> QED BY <2>1 DEF SyncStep, Sync!Next
<1>2. CASE RunTask BY <1>2 DEF RunTask, Sync!Next
<1>3. CASE TaskEnds BY <1>3 DEF TaskEnds, Sync!Next
<1>4. CASE Dispatch BY <1>4 DEF Dispatch, Sync!Next
<1>5. CASE DispatchEnds BY <1>5 DEF DispatchEnds, Sync!Next
<1>6. CASE JoinEnds \/ WatcherLock \/ WatcherUnlock \/ UNCHANGED vars
  BY <1>6 DEF JoinEnds, WatcherLock, WatcherUnlock, vars, Sync!vars, pinned
<1>7. ASSUME NEW t \in Threads, ThreadStep(t) \/ Join(t)
      PROVE  UNCHANGED Sync!vars
  BY <1>7 DEF ThreadStep, Join, InvokeEnter, InvokeQueues, InvokeReturns, ThreadEnds,
              Sync!vars, pinned
<1>8. ASSUME NEW t \in Threads, Completed(t)
      PROVE  Sync!Next
  <2>1. pinned' \subseteq pinned BY <1>8 DEF Completed, pinned, LocalTypes
  <2> DEFINE K == pinned \ pinned'
  <2>2. Sync!AsyncEnds(K) BY <1>8, <2>1 DEF Completed, Sync!AsyncEnds
  <2>3. K \in SUBSET Callbacks BY DEF pinned, LocalTypes
  <2> QED BY <2>2, <2>3 DEF Sync!Next
<1>9. ASSUME NEW t \in Threads, NEW K \in SUBSET Callbacks, StartThread(t, K)
      PROVE  Sync!Next \/ UNCHANGED Sync!vars
  <2>1. pinned' = pinned \cup K BY <1>9 DEF StartThread, pinned, LocalTypes
  <2> QED BY <1>9, <2>1 DEF StartThread, Sync!Next, Sync!ProxyAsync, Sync!vars
<1>10. ASSUME NEW k \in Callbacks, Collect(k) PROVE Sync!Next
  BY <1>10 DEF Collect, Sync!Next
<1> QED BY <1>1, <1>2, <1>3, <1>4, <1>5, <1>6, <1>7, <1>8, <1>9, <1>10 DEF Next

LEMMA InitLocal == Init => LocalTypes /\ OrderInv
<1> SUFFICES ASSUME Init PROVE LocalTypes /\ OrderInv
  OBVIOUS
<1>1. <<>> \in Seq(Threads) /\ Len(<<>>) = 0 BY EmptySeq
<1>2. DOMAIN <<>> = 1 .. 0 BY <1>1, LenProperties
<1>3. OrderInv BY <1>2 DEF Init, Promise!Init, OrderInv
<1>4. call = [t \in Threads |-> "idle"] /\ order = <<>> BY DEF Init, Promise!Init
<1>5. LocalTypes BY <1>1, <1>4 DEF Init, LocalTypes
<1> QED BY <1>3, <1>5

LEMMA LocalInvariant == Spec => [](LocalTypes /\ OrderInv)
BY InitLocal, LocalStep, OrderStep, PTL DEF Spec

(* Foreign calls in the whole are the foreign calls of ForeignCall. *)
THEOREM ImplementsForeignCall == Spec => Sync!Spec
<1>1. Init => Sync!Init BY DEF Init, Sync!Init, pinned
<1> QED BY <1>1, LocalInvariant, SyncSim, PTL DEF Spec, Sync!Spec

LEMMA SameNext == [Sync!Next]_(Sync!vars) <=> [SyncProofs!Next]_(SyncProofs!vars)
BY DEF Sync!Next, SyncProofs!Next,
  Sync!RunTask, SyncProofs!RunTask, Sync!TaskEnds, SyncProofs!TaskEnds,
  Sync!MakeCallbacks, SyncProofs!MakeCallbacks, Sync!ProxyThrows,
  SyncProofs!ProxyThrows, Sync!Proxy, SyncProofs!Proxy, Sync!Tell, SyncProofs!Tell,
  Sync!Mark, SyncProofs!Mark, Sync!Schedule, SyncProofs!Schedule,
  Sync!FFICallThrows, SyncProofs!FFICallThrows, Sync!FFICallReturns,
  SyncProofs!FFICallReturns, Sync!Invoke, SyncProofs!Invoke, Sync!CallbackReturns,
  SyncProofs!CallbackReturns, Sync!Fails, SyncProofs!Fails, Sync!CallbackFails,
  SyncProofs!CallbackFails, Sync!CallbackThrowsUndefined,
  SyncProofs!CallbackThrowsUndefined, Sync!InvokeCollected,
  SyncProofs!InvokeCollected, Sync!Surface, SyncProofs!Surface, Sync!ProxyAsync,
  SyncProofs!ProxyAsync, Sync!AsyncEnds, SyncProofs!AsyncEnds, Sync!Reachable,
  SyncProofs!Reachable, Sync!Collect, SyncProofs!Collect, Sync!Running,
  SyncProofs!Running, Sync!InCallback, SyncProofs!InCallback, Sync!JsFrame,
  SyncProofs!JsFrame, Sync!CFrame, SyncProofs!CFrame, Sync!Last, SyncProofs!Last,
  Sync!Front, SyncProofs!Front, Sync!vars, SyncProofs!vars


LEMMA SyncProofsSpec == Spec => SyncProofs!Spec
<1>1. Sync!Init => SyncProofs!Init BY DEF Sync!Init, SyncProofs!Init
<1> QED BY <1>1, SameNext, ImplementsForeignCall, PTL DEF Sync!Spec, SyncProofs!Spec

(* Every variable has its type, and a thread waits only for an invocation   *)
(* it has handed over, the main thread's C only for another thread.         *)
THEOREM TypeCorrect == Spec => []TypeOK
<1>1. LocalTypes /\ SyncProofs!TypeOK => TypeOK
  BY DEF LocalTypes, TypeOK, SyncProofs!TypeOK, Sync!TypeOK, SyncProofs!Frame, Sync!Frame,
         SyncProofs!Results, Sync!Results
<1> QED BY <1>1, LocalInvariant, SyncProofsSpec, SyncProofs!TypeCorrect, PTL

(* No error of a callback for another thread is left to the main thread's   *)
(* own foreign calls, and theirs are not lost when threads call back.       *)
THEOREM ExceptionMatched == Spec => []ExceptionInv
<1>1. SyncProofs!ExceptionInv => ExceptionInv
  BY DEF ExceptionInv, SyncProofs!ExceptionInv, Sync!ExceptionInv
<1> QED BY <1>1, SyncProofsSpec, SyncProofs!ExceptionMatched, PTL

(* The callbacks of arguments live as long as any call, on the main thread  *)
(* or another, can still invoke them.                                       *)
THEOREM ArgumentsStayAlive == Spec => []ArgumentsAlive
<1>1. SyncProofs!ArgumentsAlive => ArgumentsAlive
  BY DEF ArgumentsAlive, SyncProofs!ArgumentsAlive, Sync!ArgumentsAlive
<1> QED BY <1>1, SyncProofsSpec, SyncProofs!ArgumentsStayAlive, PTL

(* With threads calling back, a foreign call still does not return a value  *)
(* left unwritten by a callback whose error, or the one in its place,       *)
(* JavaScript has not been told of.                                         *)
THEOREM ErrorsAreSurfaced == Spec => ErrorsSurface
<1>1. [SyncProofs!FFICallReturns =>
         SyncProofs!Last(stack).result \notin {"owed", "replaced"}]_(SyncProofs!vars)
      => [Sync!FFICallReturns =>
            Sync!Last(stack).result \notin {"owed", "replaced"}]_(Sync!vars)
  BY DEF SyncProofs!FFICallReturns, Sync!FFICallReturns, SyncProofs!Last, Sync!Last,
         SyncProofs!Running, Sync!Running, SyncProofs!Front, Sync!Front,
         SyncProofs!vars, Sync!vars
<1> QED BY <1>1, SyncProofsSpec, SyncProofs!ErrorsAreSurfaced, PTL
        DEF ErrorsSurface, Sync!ErrorsSurface, SyncProofs!ErrorsSurface

-----------------------------------------------------------------------------
(* Callbacks from other threads are those of CallbackRendezvous. *)

LEMMA PromiseSim == [Next]_vars => [Promise!Next]_(Promise!vars)
<1> SUFFICES ASSUME [Next]_vars PROVE Promise!Next \/ UNCHANGED calledVars
  BY DEF Promise!vars
<1>1. CASE DispatchEnds BY <1>1 DEF DispatchEnds, Promise!Next
<1>2. CASE MainRuns \/ RunTask \/ TaskEnds \/ JoinEnds \/ WatcherLock \/ Dispatch
           \/ WatcherUnlock \/ UNCHANGED vars
  BY <1>2 DEF MainRuns, RunTask, TaskEnds, JoinEnds, WatcherLock, Dispatch,
              WatcherUnlock, vars
<1>3. ASSUME NEW t \in Threads, ThreadStep(t) \/ Join(t) \/ Completed(t)
      PROVE  Promise!Next \/ UNCHANGED calledVars
  BY <1>3 DEF ThreadStep, InvokeQueues, InvokeReturns, InvokeEnter, ThreadEnds, Join,
              Completed, Promise!Next
<1>4. ASSUME NEW t \in Threads, NEW K \in SUBSET Callbacks, StartThread(t, K)
      PROVE  UNCHANGED calledVars
  BY <1>4 DEF StartThread
<1>5. CASE \E k \in Callbacks : Collect(k) BY <1>5 DEF Collect
<1> QED BY <1>1, <1>2, <1>3, <1>4, <1>5 DEF Next

(* Whatever the main thread does in between, invocations are executed in    *)
(* the order they were handed over, each before its thread goes on.         *)
THEOREM ImplementsRendezvous == Spec => Promise!Init /\ [][Promise!Next]_(Promise!vars)
<1>1. Init => Promise!Init BY DEF Init
<1> QED BY <1>1, PromiseSim, PTL DEF Spec

-----------------------------------------------------------------------------
(* The deadlock *)

LEMMA StuckStep == LocalTypes /\ Circular /\ [Next]_vars => Circular'
<1> SUFFICES ASSUME LocalTypes, Circular, [Next]_vars PROVE Circular'
  OBVIOUS
<1>0. /\ joining \in Threads /\ stack # <<>> /\ Sync!Last(stack).kind = "c"
      /\ thread[joining] \in {"enter", "wait"}
      /\ call \in [Threads -> {"idle", "requested", "executed"}]
      /\ thread \in [Threads -> {"idle", "c", "enter", "wait"}]
  BY DEF Circular, LocalTypes, Sync!Running
<1>1. CASE MainRuns \/ JoinEnds \/ (\E t \in Threads : Join(t))
  BY <1>0, <1>1 DEF MainRuns, JoinEnds, Join
<1>2. CASE RunTask \/ TaskEnds \/ WatcherLock \/ Dispatch \/ DispatchEnds \/ WatcherUnlock
           \/ (\E t \in Threads : Completed(t))
  BY <1>0, <1>2 DEF RunTask, TaskEnds, WatcherLock, Dispatch, DispatchEnds, WatcherUnlock,
     Completed, Sync!RunTask, Sync!TaskEnds, Sync!Running
<1>3. ASSUME NEW t \in Threads, ThreadStep(t)
      PROVE  Circular'
  <2>1. joining' = joining /\ draining' = draining
    BY <1>3 DEF ThreadStep, InvokeQueues, InvokeReturns, InvokeEnter, ThreadEnds
  <2>2. CASE t # joining
    BY <1>0, <1>3, <2>1, <2>2 DEF Circular, ThreadStep, InvokeQueues, InvokeReturns,
       InvokeEnter, ThreadEnds, Promise!Request, Promise!Return
  <2>3. CASE t = joining
    BY <1>0, <1>3, <2>1, <2>3 DEF Circular, ThreadStep, InvokeQueues, InvokeReturns,
       InvokeEnter, ThreadEnds, Promise!Request, Promise!Return
  <2> QED BY <2>2, <2>3
<1>4. CASE UNCHANGED <<joining, thread, call, draining>>
  BY <1>4 DEF Circular
<1>5. ASSUME NEW t \in Threads, NEW K \in SUBSET Callbacks, StartThread(t, K)
      PROVE  Circular'
  BY <1>0, <1>5 DEF StartThread
<1>6. CASE (\E k \in Callbacks : Collect(k)) \/ UNCHANGED vars
  BY <1>4, <1>6 DEF Collect, vars
<1> QED BY <1>1, <1>2, <1>3, <1>5, <1>6, NoneAssumption DEF Next

(* The main thread's C and a thread that wait for one another do so for     *)
(* ever: nothing in Invoke or WatcherCallback breaks the circle.            *)
THEOREM CircularIsForGood == Spec => StuckForGood
<1>1. LocalTypes /\ [Next]_vars => [Circular => Circular']_vars BY StuckStep
<1> QED BY <1>1, LocalInvariant, PTL DEF Spec, StuckForGood
=============================================================================
