----------------------- MODULE ThreadedCallbackProofs -----------------------
(* Proofs about ThreadedCallback, for every set of threads and every bound. *)
EXTENDS ThreadedCallback, SequenceTheorems, TLAPS

USE ThreadsAssumption, BoundsAssumption DEF Goto, MainGoto

LEMMA TypeInit == Init => TypeOK
<1> SUFFICES ASSUME Init PROVE TypeOK
  OBVIOUS
<1> USE DEF Init
<1>1. pc \in [Threads -> ThreadLocs] BY DEF ThreadLocs
<1>2. main \in MainLocs /\ main \notin Serving BY DEF MainLocs, Serving
<1>3. invMutex \in [Threads -> Threads \cup {Main, None}] OBVIOUS
<1>4. outcome \in [Threads -> {"none", "value", "error"}] OBVIOUS
<1>5. 0 \in 0..CountModulus - 1 OBVIOUS
<1>6. reg \in [Threads \cup {Main} -> 0..CountModulus - 1] BY <1>5
<1>7. asyncPending \in BOOLEAN /\ refFlag \in BOOLEAN OBVIOUS
<1>8. queue \in Seq(Threads) OBVIOUS
<1>9. \A t \in Threads : reg[t] = 0 OBVIOUS
<1>10. /\ cur = None /\ nested \in 0..MaxNest /\ queueMutex = None
       /\ activeHandles \in 0..CountModulus - 1 /\ others \in 0..MaxOthers
       /\ unsignalled = FALSE /\ raced = FALSE
  BY <1>5
<1> HIDE DEF Init
<1> QED BY <1>1, <1>2, <1>3, <1>4, <1>6, <1>7, <1>8, <1>9, <1>10 DEF TypeOK

LEMMA TypeStep == TypeOK /\ [Next]_vars => TypeOK'
<1> SUFFICES ASSUME TypeOK, [Next]_vars PROVE TypeOK'
  OBVIOUS
<1> USE DEF TypeOK,
        threadVars, queueVars, loopVars, mainVars, historyVars
<1>1. ASSUME NEW t \in Threads, Enter(t) PROVE TypeOK'
  BY <1>1 DEF Enter, ThreadLocs
<1>2. ASSUME NEW t \in Threads, InvokeStep(t) PROVE TypeOK'
  <2> USE DEF ThreadLocs, Allocated
  <2>1. CASE UvRefTest(t) BY <2>1 DEF UvRefTest
  <2>2. CASE UvRefSet(t) BY <2>2 DEF UvRefSet
  <2>3. CASE UvRefAdd(t) BY <2>3 DEF UvRefAdd
  <2>4. CASE NewInvokation(t) BY <2>4 DEF NewInvokation
  <2>5. CASE LockQueue(t) BY <2>5 DEF LockQueue
  <2>6. CASE PushQueue(t) BY <2>6 DEF PushQueue
  <2>7. CASE AsyncSend(t) BY <2>7 DEF AsyncSend
  <2>8. CASE WaitForExecution(t) BY <2>8 DEF WaitForExecution
  <2>9. CASE WaitReturns(t) BY <2>9 DEF WaitReturns
  <2>10. CASE UvUnrefTest(t) BY <2>10 DEF UvUnrefTest
  <2>11. CASE UvUnrefSet(t) BY <2>11 DEF UvUnrefSet
  <2>12. CASE UvUnrefSub(t) BY <2>12 DEF UvUnrefSub
  <2>13. CASE DeleteInvokation(t) BY <2>13 DEF DeleteInvokation
  <2> QED BY <1>2, <2>1, <2>2, <2>3, <2>4, <2>5, <2>6, <2>7, <2>8, <2>9,
             <2>10, <2>11, <2>12, <2>13 DEF InvokeStep
<1>3. ASSUME NEW t \in Threads, SpuriousWakeup(t) PROVE TypeOK'
  BY <1>3 DEF SpuriousWakeup, ThreadLocs, Allocated
<1>4. CASE Wakeup BY <1>4 DEF Wakeup, MainLocs, Serving
<1>5. CASE WatcherStep
  <2> USE DEF MainLocs, Serving, InWatcher, Ended
  <2>1. CASE WatcherLock BY <2>1 DEF WatcherLock
  <2>2. CASE WatcherPop BY <2>2 DEF WatcherPop
  <2>3. CASE DispatchDone BY <2>3 DEF DispatchDone
  <2>4. CASE UncaughtError BY <2>4 DEF UncaughtError
  <2>5. CASE SignalLock BY <2>5 DEF SignalLock
  <2>6. CASE SignalCond BY <2>6 DEF SignalCond, ThreadLocs, Allocated
  <2>7. CASE SignalUnlock BY <2>7 DEF SignalUnlock
  <2>8. CASE WatcherUnlock BY <2>8 DEF WatcherUnlock
  <2> QED BY <1>5, <2>1, <2>2, <2>3, <2>4, <2>5, <2>6, <2>7, <2>8 DEF WatcherStep
<1>6. CASE InvokeOnMain BY <1>6 DEF InvokeOnMain
<1>7. CASE ReturnOnMain BY <1>7 DEF ReturnOnMain
<1>8. CASE HandleLoad BY <1>8 DEF HandleLoad, MainLocs, Serving
<1>9. CASE HandleStore BY <1>9 DEF HandleStore, MainLocs, Serving
<1>10. CASE LoopExit BY <1>10 DEF LoopExit, MainLocs, Serving, Ended
<1>11. CASE UNCHANGED vars BY <1>11 DEF vars
<1> QED BY <1>1, <1>2, <1>3, <1>4, <1>5, <1>6, <1>7, <1>8, <1>9, <1>10, <1>11
        DEF Next, Over

(* Every reachable state is well typed, for any number of threads. *)
THEOREM TypeCorrect == Spec => []TypeOK
BY TypeInit, TypeStep, PTL DEF Spec

-----------------------------------------------------------------------------
(* The rendezvous: each part of HandshakeInv is preserved by every step but *)
(* a wake-up without a signal, which breaks OutcomeInv.  That the queue is  *)
(* only touched by one thread and strands nobody does not depend on it.     *)

LEMMA QueueStep ==
  ASSUME TypeOK, QueueAccessExclusive, HandshakeInv, [Next]_vars, ~unsignalled'
  PROVE  QueueInv'
<1> USE DEF HandshakeInv, TypeOK, QueueInv, ServiceInv, OutcomeInv, InvMutexInv,
            Asleep, Released, Serving,
        threadVars, queueVars, loopVars, mainVars, historyVars
<1>1. ASSUME NEW t \in Threads, Enter(t) PROVE QueueInv'
  BY <1>1 DEF Enter
<1>2. ASSUME NEW t \in Threads, InvokeStep(t) PROVE QueueInv'
  <2>1. CASE UvRefTest(t) BY <2>1 DEF UvRefTest
  <2>2. CASE UvRefSet(t) BY <2>2 DEF UvRefSet
  <2>3. CASE UvRefAdd(t) BY <2>3 DEF UvRefAdd
  <2>4. CASE NewInvokation(t) BY <2>4 DEF NewInvokation
  <2>5. CASE LockQueue(t) BY <2>5 DEF LockQueue
  <2>6. CASE PushQueue(t)
    <3>1. cur # t
      BY <2>6, ThreadsAssumption DEF PushQueue, QueueAccessExclusive, MainLocs, InWatcher, Ended
    <3>2. outcome[t] = "none" BY <2>6, <3>1 DEF PushQueue
    <3>3. queue' = Append(queue, t) /\ queue \in Seq(Threads) /\ Len(queue) \in Nat
      BY <2>6 DEF PushQueue
    <3>4. Len(queue') = Len(queue) + 1 /\ queue'[Len(queue) + 1] = t
      BY <3>3
    <3>5. \A i \in 1..Len(queue) : queue'[i] = queue[i]
      BY <3>3
    <3>6. \A i \in 1..Len(queue) : queue[i] # t
      BY <2>6 DEF PushQueue
    <3>7. pc' = [pc EXCEPT ![t] = "send"] /\ outcome' = outcome /\ cur' = cur
      BY <2>6 DEF PushQueue
    <3>8. ASSUME NEW i \in 1..Len(queue'), NEW j \in 1..Len(queue'),
                 queue'[i] = queue'[j]
          PROVE  i = j
      <4>1. i \in 1..Len(queue) \/ i = Len(queue) + 1 BY <3>3, <3>4
      <4>2. j \in 1..Len(queue) \/ j = Len(queue) + 1 BY <3>3, <3>4
      <4>3. CASE i \in 1..Len(queue) /\ j \in 1..Len(queue)
        <5>1. queue'[i] = queue[i] /\ queue'[j] = queue[j] BY <3>5, <4>3
        <5>2. queue[i] = queue[j] BY <3>8, <5>1
        <5> QED BY <4>3, <5>2
      <4>4. CASE i = Len(queue) + 1 /\ j \in 1..Len(queue)
        BY <3>4, <3>5, <3>6, <3>8, <4>4
      <4>5. CASE j = Len(queue) + 1 /\ i \in 1..Len(queue)
        BY <3>4, <3>5, <3>6, <3>8, <4>5
      <4> QED BY <4>1, <4>2, <4>3, <4>4, <4>5
    <3>9. ASSUME NEW i \in 1..Len(queue')
          PROVE  /\ pc'[queue'[i]] \in Asleep
                 /\ outcome'[queue'[i]] = "none"
                 /\ queue'[i] # cur'
      <4>1. CASE i = Len(queue) + 1 BY <3>1, <3>2, <3>4, <3>7, <4>1
      <4>2. CASE i \in 1..Len(queue)
        <5>1. queue[i] \in Threads BY <3>3, <4>2
        <5> QED BY <3>5, <3>6, <3>7, <4>2, <5>1
      <4> QED BY <3>3, <3>4, <4>1, <4>2
    <3> QED BY <3>8, <3>9
  <2>7. CASE AsyncSend(t) BY <2>7 DEF AsyncSend
  <2>8. CASE WaitForExecution(t) BY <2>8 DEF WaitForExecution
  <2>9. CASE WaitReturns(t) BY <2>9 DEF WaitReturns
  <2>10. CASE UvUnrefTest(t) BY <2>10 DEF UvUnrefTest
  <2>11. CASE UvUnrefSet(t) BY <2>11 DEF UvUnrefSet
  <2>12. CASE UvUnrefSub(t) BY <2>12 DEF UvUnrefSub
  <2>13. CASE DeleteInvokation(t) BY <2>13 DEF DeleteInvokation
  <2> QED BY <1>2, <2>1, <2>2, <2>3, <2>4, <2>5, <2>6, <2>7, <2>8, <2>9, <2>10, <2>11, <2>12, <2>13
          DEF InvokeStep
<1>3. CASE WatcherStep
  <2>1. CASE WatcherLock BY <2>1 DEF WatcherLock
  <2>2. CASE WatcherPop BY <2>2 DEF WatcherPop
  <2>3. CASE DispatchDone BY <2>3 DEF DispatchDone
  <2>4. CASE UncaughtError BY <2>4 DEF UncaughtError
  <2>5. CASE SignalLock BY <2>5 DEF SignalLock
  <2>6. CASE SignalCond BY <2>6 DEF SignalCond
  <2>7. CASE SignalUnlock BY <2>7 DEF SignalUnlock
  <2>8. CASE WatcherUnlock BY <2>8 DEF WatcherUnlock
  <2> QED BY <1>3, <2>1, <2>2, <2>3, <2>4, <2>5, <2>6, <2>7, <2>8 DEF WatcherStep
<1>4. CASE Wakeup BY <1>4 DEF Wakeup
<1>5. CASE InvokeOnMain BY <1>5 DEF InvokeOnMain
<1>6. CASE ReturnOnMain BY <1>6 DEF ReturnOnMain
<1>7. CASE HandleLoad BY <1>7 DEF HandleLoad
<1>8. CASE HandleStore BY <1>8 DEF HandleStore
<1>9. CASE LoopExit BY <1>9 DEF LoopExit
<1>10. CASE UNCHANGED vars BY <1>10 DEF vars
<1> QED BY <1>1, <1>2, <1>3, <1>4, <1>5, <1>6, <1>7, <1>8, <1>9, <1>10
        DEF Next, Over, SpuriousWakeup

LEMMA ServiceStep ==
  ASSUME TypeOK, QueueAccessExclusive, HandshakeInv, [Next]_vars, ~unsignalled'
  PROVE  ServiceInv'
<1> USE DEF HandshakeInv, TypeOK, QueueInv, ServiceInv, OutcomeInv, InvMutexInv,
            Asleep, Released, Serving,
        threadVars, queueVars, loopVars, mainVars, historyVars
<1>1. ASSUME NEW t \in Threads, Enter(t) PROVE ServiceInv'
  BY <1>1 DEF Enter
<1>2. ASSUME NEW t \in Threads, InvokeStep(t) PROVE ServiceInv'
  <2>1. CASE UvRefTest(t) BY <2>1 DEF UvRefTest
  <2>2. CASE UvRefSet(t) BY <2>2 DEF UvRefSet
  <2>3. CASE UvRefAdd(t) BY <2>3 DEF UvRefAdd
  <2>4. CASE NewInvokation(t) BY <2>4 DEF NewInvokation
  <2>5. CASE LockQueue(t) BY <2>5 DEF LockQueue
  <2>6. CASE PushQueue(t) BY <2>6 DEF PushQueue
  <2>7. CASE AsyncSend(t) BY <2>7 DEF AsyncSend
  <2>8. CASE WaitForExecution(t) BY <2>8 DEF WaitForExecution
  <2>9. CASE WaitReturns(t) BY <2>9 DEF WaitReturns
  <2>10. CASE UvUnrefTest(t) BY <2>10 DEF UvUnrefTest
  <2>11. CASE UvUnrefSet(t) BY <2>11 DEF UvUnrefSet
  <2>12. CASE UvUnrefSub(t) BY <2>12 DEF UvUnrefSub
  <2>13. CASE DeleteInvokation(t) BY <2>13 DEF DeleteInvokation
  <2> QED BY <1>2, <2>1, <2>2, <2>3, <2>4, <2>5, <2>6, <2>7, <2>8, <2>9, <2>10, <2>11, <2>12, <2>13
          DEF InvokeStep
<1>3. CASE WatcherStep
  <2>1. CASE WatcherLock BY <2>1 DEF WatcherLock
  <2>2. CASE WatcherPop BY <2>2 DEF WatcherPop
  <2>3. CASE DispatchDone BY <2>3 DEF DispatchDone
  <2>4. CASE UncaughtError BY <2>4 DEF UncaughtError
  <2>5. CASE SignalLock BY <2>5 DEF SignalLock
  <2>6. CASE SignalCond BY <2>6 DEF SignalCond
  <2>7. CASE SignalUnlock BY <2>7 DEF SignalUnlock
  <2>8. CASE WatcherUnlock BY <2>8 DEF WatcherUnlock
  <2> QED BY <1>3, <2>1, <2>2, <2>3, <2>4, <2>5, <2>6, <2>7, <2>8 DEF WatcherStep
<1>4. CASE Wakeup BY <1>4 DEF Wakeup
<1>5. CASE InvokeOnMain BY <1>5 DEF InvokeOnMain
<1>6. CASE ReturnOnMain BY <1>6 DEF ReturnOnMain
<1>7. CASE HandleLoad BY <1>7 DEF HandleLoad
<1>8. CASE HandleStore BY <1>8 DEF HandleStore
<1>9. CASE LoopExit BY <1>9 DEF LoopExit
<1>10. CASE UNCHANGED vars BY <1>10 DEF vars
<1> QED BY <1>1, <1>2, <1>3, <1>4, <1>5, <1>6, <1>7, <1>8, <1>9, <1>10
        DEF Next, Over, SpuriousWakeup

LEMMA OutcomeStep ==
  ASSUME TypeOK, QueueAccessExclusive, HandshakeInv, [Next]_vars, ~unsignalled'
  PROVE  OutcomeInv'
<1> USE DEF HandshakeInv, TypeOK, QueueInv, ServiceInv, OutcomeInv, InvMutexInv,
            Asleep, Released, Serving,
        threadVars, queueVars, loopVars, mainVars, historyVars
<1>1. ASSUME NEW t \in Threads, Enter(t) PROVE OutcomeInv'
  BY <1>1 DEF Enter
<1>2. ASSUME NEW t \in Threads, InvokeStep(t) PROVE OutcomeInv'
  <2>1. CASE UvRefTest(t) BY <2>1 DEF UvRefTest
  <2>2. CASE UvRefSet(t) BY <2>2 DEF UvRefSet
  <2>3. CASE UvRefAdd(t) BY <2>3 DEF UvRefAdd
  <2>4. CASE NewInvokation(t) BY <2>4 DEF NewInvokation
  <2>5. CASE LockQueue(t) BY <2>5 DEF LockQueue
  <2>6. CASE PushQueue(t) BY <2>6 DEF PushQueue
  <2>7. CASE AsyncSend(t) BY <2>7 DEF AsyncSend
  <2>8. CASE WaitForExecution(t) BY <2>8 DEF WaitForExecution
  <2>9. CASE WaitReturns(t) BY <2>9 DEF WaitReturns
  <2>10. CASE UvUnrefTest(t) BY <2>10 DEF UvUnrefTest
  <2>11. CASE UvUnrefSet(t) BY <2>11 DEF UvUnrefSet
  <2>12. CASE UvUnrefSub(t) BY <2>12 DEF UvUnrefSub
  <2>13. CASE DeleteInvokation(t) BY <2>13 DEF DeleteInvokation
  <2> QED BY <1>2, <2>1, <2>2, <2>3, <2>4, <2>5, <2>6, <2>7, <2>8, <2>9, <2>10, <2>11, <2>12, <2>13
          DEF InvokeStep
<1>3. CASE WatcherStep
  <2>1. CASE WatcherLock BY <2>1 DEF WatcherLock
  <2>2. CASE WatcherPop BY <2>2 DEF WatcherPop
  <2>3. CASE DispatchDone BY <2>3 DEF DispatchDone
  <2>4. CASE UncaughtError BY <2>4 DEF UncaughtError
  <2>5. CASE SignalLock BY <2>5 DEF SignalLock
  <2>6. CASE SignalCond BY <2>6 DEF SignalCond
  <2>7. CASE SignalUnlock BY <2>7 DEF SignalUnlock
  <2>8. CASE WatcherUnlock BY <2>8 DEF WatcherUnlock
  <2> QED BY <1>3, <2>1, <2>2, <2>3, <2>4, <2>5, <2>6, <2>7, <2>8 DEF WatcherStep
<1>4. CASE Wakeup BY <1>4 DEF Wakeup
<1>5. CASE InvokeOnMain BY <1>5 DEF InvokeOnMain
<1>6. CASE ReturnOnMain BY <1>6 DEF ReturnOnMain
<1>7. CASE HandleLoad BY <1>7 DEF HandleLoad
<1>8. CASE HandleStore BY <1>8 DEF HandleStore
<1>9. CASE LoopExit BY <1>9 DEF LoopExit
<1>10. CASE UNCHANGED vars BY <1>10 DEF vars
<1> QED BY <1>1, <1>2, <1>3, <1>4, <1>5, <1>6, <1>7, <1>8, <1>9, <1>10
        DEF Next, Over, SpuriousWakeup

LEMMA InvMutexStep ==
  ASSUME TypeOK, QueueAccessExclusive, HandshakeInv, [Next]_vars, ~unsignalled'
  PROVE  InvMutexInv'
<1> USE DEF HandshakeInv, TypeOK, QueueInv, ServiceInv, OutcomeInv, InvMutexInv,
            Asleep, Released, Serving,
        threadVars, queueVars, loopVars, mainVars, historyVars
<1>1. ASSUME NEW t \in Threads, Enter(t) PROVE InvMutexInv'
  BY <1>1 DEF Enter
<1>2. ASSUME NEW t \in Threads, InvokeStep(t) PROVE InvMutexInv'
  <2>1. CASE UvRefTest(t) BY <2>1 DEF UvRefTest
  <2>2. CASE UvRefSet(t) BY <2>2 DEF UvRefSet
  <2>3. CASE UvRefAdd(t) BY <2>3 DEF UvRefAdd
  <2>4. CASE NewInvokation(t) BY <2>4 DEF NewInvokation
  <2>5. CASE LockQueue(t) BY <2>5 DEF LockQueue
  <2>6. CASE PushQueue(t) BY <2>6 DEF PushQueue
  <2>7. CASE AsyncSend(t) BY <2>7 DEF AsyncSend
  <2>8. CASE WaitForExecution(t) BY <2>8 DEF WaitForExecution
  <2>9. CASE WaitReturns(t) BY <2>9 DEF WaitReturns
  <2>10. CASE UvUnrefTest(t) BY <2>10 DEF UvUnrefTest
  <2>11. CASE UvUnrefSet(t) BY <2>11 DEF UvUnrefSet
  <2>12. CASE UvUnrefSub(t) BY <2>12 DEF UvUnrefSub
  <2>13. CASE DeleteInvokation(t) BY <2>13 DEF DeleteInvokation
  <2> QED BY <1>2, <2>1, <2>2, <2>3, <2>4, <2>5, <2>6, <2>7, <2>8, <2>9, <2>10, <2>11, <2>12, <2>13
          DEF InvokeStep
<1>3. CASE WatcherStep
  <2>1. CASE WatcherLock BY <2>1 DEF WatcherLock
  <2>2. CASE WatcherPop BY <2>2 DEF WatcherPop
  <2>3. CASE DispatchDone BY <2>3 DEF DispatchDone
  <2>4. CASE UncaughtError BY <2>4 DEF UncaughtError
  <2>5. CASE SignalLock BY <2>5 DEF SignalLock
  <2>6. CASE SignalCond BY <2>6 DEF SignalCond
  <2>7. CASE SignalUnlock BY <2>7 DEF SignalUnlock
  <2>8. CASE WatcherUnlock BY <2>8 DEF WatcherUnlock
  <2> QED BY <1>3, <2>1, <2>2, <2>3, <2>4, <2>5, <2>6, <2>7, <2>8 DEF WatcherStep
<1>4. CASE Wakeup BY <1>4 DEF Wakeup
<1>5. CASE InvokeOnMain BY <1>5 DEF InvokeOnMain
<1>6. CASE ReturnOnMain BY <1>6 DEF ReturnOnMain
<1>7. CASE HandleLoad BY <1>7 DEF HandleLoad
<1>8. CASE HandleStore BY <1>8 DEF HandleStore
<1>9. CASE LoopExit BY <1>9 DEF LoopExit
<1>10. CASE UNCHANGED vars BY <1>10 DEF vars
<1> QED BY <1>1, <1>2, <1>3, <1>4, <1>5, <1>6, <1>7, <1>8, <1>9, <1>10
        DEF Next, Over, SpuriousWakeup

LEMMA ExclusiveStep ==
  ASSUME TypeOK, QueueAccessExclusive, [Next]_vars
  PROVE  QueueAccessExclusive'
<1> USE DEF TypeOK, QueueAccessExclusive, InWatcher, Serving,
        threadVars, queueVars, loopVars, mainVars, historyVars
<1>1. ASSUME NEW t \in Threads, Enter(t) PROVE QueueAccessExclusive'
  BY <1>1 DEF Enter
<1>2. ASSUME NEW t \in Threads, InvokeStep(t) PROVE QueueAccessExclusive'
  <2>1. CASE UvRefTest(t) BY <2>1 DEF UvRefTest
  <2>2. CASE UvRefSet(t) BY <2>2 DEF UvRefSet
  <2>3. CASE UvRefAdd(t) BY <2>3 DEF UvRefAdd
  <2>4. CASE NewInvokation(t) BY <2>4 DEF NewInvokation
  <2>5. CASE LockQueue(t) BY <2>5 DEF LockQueue
  <2>6. CASE PushQueue(t) BY <2>6 DEF PushQueue
  <2>7. CASE AsyncSend(t) BY <2>7 DEF AsyncSend
  <2>8. CASE WaitForExecution(t) BY <2>8 DEF WaitForExecution
  <2>9. CASE WaitReturns(t) BY <2>9 DEF WaitReturns
  <2>10. CASE UvUnrefTest(t) BY <2>10 DEF UvUnrefTest
  <2>11. CASE UvUnrefSet(t) BY <2>11 DEF UvUnrefSet
  <2>12. CASE UvUnrefSub(t) BY <2>12 DEF UvUnrefSub
  <2>13. CASE DeleteInvokation(t) BY <2>13 DEF DeleteInvokation
  <2> QED BY <1>2, <2>1, <2>2, <2>3, <2>4, <2>5, <2>6, <2>7, <2>8, <2>9, <2>10, <2>11, <2>12, <2>13
          DEF InvokeStep
<1>3. CASE WatcherStep
  <2>1. CASE WatcherLock BY <2>1 DEF WatcherLock
  <2>2. CASE WatcherPop BY <2>2 DEF WatcherPop
  <2>3. CASE DispatchDone BY <2>3 DEF DispatchDone
  <2>4. CASE UncaughtError BY <2>4 DEF UncaughtError
  <2>5. CASE SignalLock BY <2>5 DEF SignalLock
  <2>6. CASE SignalCond BY <2>6 DEF SignalCond
  <2>7. CASE SignalUnlock BY <2>7 DEF SignalUnlock
  <2>8. CASE WatcherUnlock BY <2>8 DEF WatcherUnlock
  <2> QED BY <1>3, <2>1, <2>2, <2>3, <2>4, <2>5, <2>6, <2>7, <2>8 DEF WatcherStep
<1>4. CASE Wakeup BY <1>4 DEF Wakeup
<1>5. CASE InvokeOnMain BY <1>5 DEF InvokeOnMain
<1>6. CASE ReturnOnMain BY <1>6 DEF ReturnOnMain
<1>7. CASE HandleLoad BY <1>7 DEF HandleLoad
<1>8. CASE HandleStore BY <1>8 DEF HandleStore
<1>9. CASE LoopExit BY <1>9 DEF LoopExit
<1>10. CASE UNCHANGED vars BY <1>10 DEF vars
<1>11. ASSUME NEW t \in Threads, SpuriousWakeup(t) PROVE QueueAccessExclusive'
  BY <1>11 DEF SpuriousWakeup
<1> QED BY <1>1, <1>2, <1>3, <1>4, <1>5, <1>6, <1>7, <1>8, <1>9, <1>10, <1>11
        DEF Next, Over

LEMMA StrandedStep ==
  ASSUME TypeOK, NoStranded, [Next]_vars
  PROVE  NoStranded'
<1> USE DEF TypeOK, NoStranded, Queued, InWatcher, Serving, Ended,
        threadVars, queueVars, loopVars, mainVars, historyVars
<1>1. ASSUME NEW t \in Threads, Enter(t) PROVE NoStranded'
  BY <1>1 DEF Enter
<1>2. ASSUME NEW t \in Threads, InvokeStep(t) PROVE NoStranded'
  <2>1. CASE UvRefTest(t) BY <2>1 DEF UvRefTest
  <2>2. CASE UvRefSet(t) BY <2>2 DEF UvRefSet
  <2>3. CASE UvRefAdd(t) BY <2>3 DEF UvRefAdd
  <2>4. CASE NewInvokation(t) BY <2>4 DEF NewInvokation
  <2>5. CASE LockQueue(t) BY <2>5 DEF LockQueue
  <2>6. CASE PushQueue(t) BY <2>6 DEF PushQueue
  <2>7. CASE AsyncSend(t) BY <2>7 DEF AsyncSend
  <2>8. CASE WaitForExecution(t) BY <2>8 DEF WaitForExecution
  <2>9. CASE WaitReturns(t) BY <2>9 DEF WaitReturns
  <2>10. CASE UvUnrefTest(t) BY <2>10 DEF UvUnrefTest
  <2>11. CASE UvUnrefSet(t) BY <2>11 DEF UvUnrefSet
  <2>12. CASE UvUnrefSub(t) BY <2>12 DEF UvUnrefSub
  <2>13. CASE DeleteInvokation(t) BY <2>13 DEF DeleteInvokation
  <2> QED BY <1>2, <2>1, <2>2, <2>3, <2>4, <2>5, <2>6, <2>7, <2>8, <2>9, <2>10, <2>11, <2>12, <2>13
          DEF InvokeStep
<1>3. CASE WatcherStep
  <2>1. CASE WatcherLock BY <2>1 DEF WatcherLock
  <2>2. CASE WatcherPop BY <2>2 DEF WatcherPop
  <2>3. CASE DispatchDone BY <2>3 DEF DispatchDone
  <2>4. CASE UncaughtError BY <2>4 DEF UncaughtError
  <2>5. CASE SignalLock BY <2>5 DEF SignalLock
  <2>6. CASE SignalCond BY <2>6 DEF SignalCond
  <2>7. CASE SignalUnlock BY <2>7 DEF SignalUnlock
  <2>8. CASE WatcherUnlock BY <2>8 DEF WatcherUnlock
  <2> QED BY <1>3, <2>1, <2>2, <2>3, <2>4, <2>5, <2>6, <2>7, <2>8 DEF WatcherStep
<1>4. CASE Wakeup BY <1>4 DEF Wakeup
<1>5. CASE InvokeOnMain BY <1>5 DEF InvokeOnMain
<1>6. CASE ReturnOnMain BY <1>6 DEF ReturnOnMain
<1>7. CASE HandleLoad BY <1>7 DEF HandleLoad
<1>8. CASE HandleStore BY <1>8 DEF HandleStore
<1>9. CASE LoopExit BY <1>9 DEF LoopExit
<1>10. CASE UNCHANGED vars BY <1>10 DEF vars
<1>11. ASSUME NEW t \in Threads, SpuriousWakeup(t) PROVE NoStranded'
  BY <1>11 DEF SpuriousWakeup
<1> QED BY <1>1, <1>2, <1>3, <1>4, <1>5, <1>6, <1>7, <1>8, <1>9, <1>10, <1>11
        DEF Next, Over

LEMMA RendezvousInit == Init => RendezvousInv
<1> SUFFICES ASSUME Init PROVE RendezvousInv
  OBVIOUS
<1>1. TypeOK BY TypeInit
<1>2. QueueInv BY DEF Init, QueueInv
<1>3. ServiceInv BY DEF Init, ServiceInv
<1>4. OutcomeInv BY DEF Init, OutcomeInv, Released
<1>5. InvMutexInv BY DEF Init, InvMutexInv, Released
<1>6. QueueAccessExclusive BY DEF Init, QueueAccessExclusive, InWatcher, Serving
<1>7. NoStranded BY DEF Init, NoStranded
<1>8. HandshakeInv BY <1>2, <1>3, <1>4, <1>5 DEF HandshakeInv
<1> QED BY <1>1, <1>6, <1>7, <1>8 DEF RendezvousInv

(* Once a wait has returned without a signal, that stays on record.          *)
LEMMA UnsignalledStays == ASSUME [Next]_vars, ~unsignalled' PROVE ~unsignalled
<1> USE DEF threadVars, queueVars, loopVars, mainVars, historyVars
<1>1. ASSUME NEW t \in Threads, Enter(t) \/ InvokeStep(t) PROVE unsignalled' = unsignalled
  BY <1>1 DEF Enter, InvokeStep, UvRefTest, UvRefSet, UvRefAdd, NewInvokation, LockQueue,
       PushQueue, AsyncSend, WaitForExecution, WaitReturns, UvUnrefTest, UvUnrefSet,
       UvUnrefSub, DeleteInvokation
<1>2. CASE Wakeup \/ WatcherStep
  BY <1>2 DEF Wakeup, WatcherStep, WatcherLock, WatcherPop, DispatchDone, UncaughtError,
       SignalLock, SignalCond, SignalUnlock, WatcherUnlock
<1>3. CASE InvokeOnMain \/ ReturnOnMain \/ HandleLoad \/ HandleStore \/ LoopExit
  BY <1>3 DEF InvokeOnMain, ReturnOnMain, HandleLoad, HandleStore, LoopExit
<1>4. CASE UNCHANGED vars BY <1>4 DEF vars
<1> QED BY <1>1, <1>2, <1>3, <1>4 DEF Next, Over, SpuriousWakeup

LEMMA RendezvousStep == RendezvousInv /\ [Next]_vars => RendezvousInv'
<1> SUFFICES ASSUME RendezvousInv, [Next]_vars PROVE RendezvousInv'
  OBVIOUS
<1>1. TypeOK' BY TypeStep DEF RendezvousInv
<1>2. QueueAccessExclusive' /\ NoStranded'
  BY ExclusiveStep, StrandedStep DEF RendezvousInv
<1>3. ASSUME ~unsignalled' PROVE HandshakeInv'
  <2>1. TypeOK /\ QueueAccessExclusive /\ HandshakeInv
    BY <1>3, UnsignalledStays DEF RendezvousInv
  <2> QED BY <1>3, <2>1, QueueStep, ServiceStep, OutcomeStep, InvMutexStep DEF HandshakeInv
<1> QED BY <1>1, <1>2, <1>3 DEF RendezvousInv

(* The inductive invariant holds of every execution of Invoke and           *)
(* WatcherCallback, its handshake until a wait first returns unsignalled.   *)
THEOREM RendezvousCorrect == Spec => []RendezvousInv
<1>1. RendezvousInv /\ [Next]_vars => RendezvousInv' BY RendezvousStep
<1> QED BY RendezvousInit, <1>1, PTL DEF Spec

(* WaitForExecution returns only after the JavaScript function has run, in  *)
(* every execution up to the first wait that returns without a signal.      *)
THEOREM OrderOfExecutionHolds == Spec => []OrderOfExecution
<1>1. RendezvousInv => OrderOfExecution
  BY DEF RendezvousInv, HandshakeInv, OutcomeInv, OrderOfExecution
<1> QED BY RendezvousCorrect, <1>1, PTL

(* The main thread never touches an invocation that was deleted, up to the  *)
(* same moment.                                                             *)
THEOREM NoUseAfterFreeHolds == Spec => []NoUseAfterFree
<1>1. RendezvousInv => NoUseAfterFree
  BY DEF RendezvousInv, HandshakeInv, QueueInv, ServiceInv, NoUseAfterFree, Queued, Asleep,
         Allocated, Serving
<1> QED BY RendezvousCorrect, <1>1, PTL

(* SignalDoneExecuting never signals a thread that is not waiting yet.      *)
THEOREM SignalFindsWaiterHolds == Spec => []SignalFindsWaiter
<1>1. RendezvousInv => SignalFindsWaiter
  BY DEF RendezvousInv, HandshakeInv, ServiceInv, SignalFindsWaiter
<1> QED BY RendezvousCorrect, <1>1, PTL

(* Only the thread that holds g_queue_mutex touches g_queue, JavaScript run  *)
(* by WatcherCallback and the callbacks nested in it included, however       *)
(* waits end.                                                                *)
THEOREM QueueAccessExclusiveHolds == Spec => []QueueAccessExclusive
<1>1. RendezvousInv => QueueAccessExclusive BY DEF RendezvousInv
<1> QED BY RendezvousCorrect, <1>1, PTL

(* No invocation is executed twice.                                         *)
THEOREM ExactlyOnceHolds == Spec => []ExactlyOnce
<1>1. RendezvousInv => ExactlyOnce
  BY DEF RendezvousInv, HandshakeInv, QueueInv, ServiceInv, ExactlyOnce, Queued
<1> QED BY RendezvousCorrect, <1>1, PTL

(* Coalesced sends and a drained queue never leave an invocation behind     *)
(* that nobody is going to look at, however waits end.                      *)
THEOREM NoStrandedHolds == Spec => []NoStranded
<1>1. RendezvousInv => NoStranded BY DEF RendezvousInv
<1> QED BY RendezvousCorrect, <1>1, PTL

-----------------------------------------------------------------------------
(* The event loop's reference: any threads, any handles of the program's     *)
(* own, until uses of the reference race.                                    *)

(* A race stays on record.                                                   *)
LEMMA RacedStays == ASSUME [Next]_vars, ~raced' PROVE ~raced
<1> USE DEF threadVars, queueVars, loopVars, mainVars, historyVars
<1>1. ASSUME NEW t \in Threads, Enter(t) \/ InvokeStep(t) \/ SpuriousWakeup(t) PROVE ~raced
  BY <1>1 DEF Enter, InvokeStep, UvRefTest, UvRefSet, UvRefAdd, NewInvokation, LockQueue,
       PushQueue, AsyncSend, WaitForExecution, WaitReturns, UvUnrefTest, UvUnrefSet,
       UvUnrefSub, DeleteInvokation, SpuriousWakeup
<1>2. CASE Wakeup \/ WatcherStep
  BY <1>2 DEF Wakeup, WatcherStep, WatcherLock, WatcherPop, DispatchDone, UncaughtError,
       SignalLock, SignalCond, SignalUnlock, WatcherUnlock
<1>3. CASE InvokeOnMain \/ ReturnOnMain \/ HandleLoad \/ HandleStore \/ LoopExit
  BY <1>3 DEF InvokeOnMain, ReturnOnMain, HandleLoad, HandleStore, LoopExit
<1>4. CASE UNCHANGED vars BY <1>4 DEF vars
<1> QED BY <1>1, <1>2, <1>3, <1>4 DEF Next, Over

(* The count is far below its modulus, so nothing wraps.                     *)
LEMMA CountFits ==
  \A n \in 0..MaxOthers + 1 : n \in 0..CountModulus - 1 /\ n % CountModulus = n
BY BoundsAssumption

Flagging == Holding \cup {"refadd", "unrefset"}
Counted  == Holding \cup {"unrefset", "unrefsub"}

(* Steps that do not touch the reference, nor a thread's share in it.        *)
LEMMA SharesKept ==
  ASSUME ReferenceInv, UNCHANGED loopVars, main' = "handle" <=> main = "handle",
         \A t \in Threads : /\ pc'[t] \in Referring <=> pc[t] \in Referring
                            /\ pc'[t] \in Flagging <=> pc[t] \in Flagging
                            /\ pc'[t] \in Counted <=> pc[t] \in Counted
                            /\ pc'[t] \in Updating => pc[t] \in Updating
  PROVE  ReferenceInv'
<1>1. References' = References BY DEF References, Counted
<1> QED BY <1>1 DEF ReferenceInv, loopVars, Flagging

(* A thread that refers to the loop is alone: the flag and the count are its *)
(* own.                                                                      *)
LEMMA Alone ==
  ASSUME ReferenceInv, NEW t \in Threads, pc[t] \in Referring
  PROVE  /\ \A u \in Threads : u # t => pc[u] \notin Referring
         /\ refFlag <=> pc[t] \in Flagging
         /\ References = IF pc[t] \in Counted THEN 1 ELSE 0
<1>1. \A u \in Threads : pc[u] \in Flagging \cup Counted => pc[u] \in Referring
  BY DEF Flagging, Counted, Referring
<1> QED BY <1>1 DEF ReferenceInv, References, Flagging, Counted

(* The same after a step of that thread.                                     *)
LEMMA AloneNext ==
  ASSUME TypeOK, ReferenceInv, NEW t \in Threads, pc[t] \in Referring,
         NEW to, pc' = [pc EXCEPT ![t] = to],
         refFlag' <=> to \in Flagging,
         main # "handle", main' # "handle",
         to \in Counted => activeHandles' = others + 1,
         to \notin Counted => activeHandles' = others,
         others \in Int, others' = others,
         to \in Updating => reg'[t] = activeHandles'
  PROVE  ReferenceInv'
<1>1. pc'[t] = to /\ \A u \in Threads : u # t => pc'[u] = pc[u] BY DEF TypeOK
<1>2. \A u \in Threads : u # t => pc'[u] \notin Referring BY <1>1, Alone
<1>3. Flagging \cup Counted \cup Updating \subseteq Referring
  BY DEF Flagging, Counted, Referring, Updating
<1>4. \A u \in Threads : u # t => /\ pc'[u] \notin Flagging /\ pc'[u] \notin Counted
                                  /\ pc'[u] \notin Updating
  BY <1>2, <1>3
<1>5. References' = IF to \in Counted THEN 1 ELSE 0
  BY <1>1, <1>4 DEF References, Counted
<1>6. refFlag' <=> \E u \in Threads : pc'[u] \in Flagging BY <1>1, <1>4
<1>7. activeHandles' = others' + References' BY <1>5
<1> QED BY <1>1, <1>2, <1>4, <1>6, <1>7 DEF ReferenceInv, Flagging

LEMMA ThreadReference ==
  ASSUME TypeOK, ReferenceInv, ~raced', NEW t \in Threads,
         Enter(t) \/ InvokeStep(t) \/ SpuriousWakeup(t)
  PROVE  ReferenceInv'
<1> USE DEF TypeOK, Holding, Referring, Flagging, Counted, Updating
<1>a. others \in 0..MaxOthers /\ others + 1 \in 0..MaxOthers + 1 /\ others \in 0..MaxOthers + 1
      /\ others \in Int
  OBVIOUS
<1>b. References \in {0, 1} BY DEF References
<1>1. CASE Enter(t)
  <2>1. \A u \in Threads : pc[u] \notin Referring BY <1>1 DEF Enter
  <2>2. /\ pc'[t] = "ref" /\ \A u \in Threads : u # t => pc'[u] = pc[u]
        /\ UNCHANGED loopVars /\ main' = main
    BY <1>1 DEF Enter, mainVars
  <2>3. /\ \A u \in Threads : pc[u] \notin Flagging /\ pc[u] \notin Counted
        /\ \A u \in Threads : pc'[u] \notin Flagging /\ pc'[u] \notin Counted
                              /\ pc'[u] \notin Updating
    BY <2>1, <2>2
  <2>4. References' = References BY <2>3 DEF References
  <2> QED BY <2>1, <2>2, <2>3, <2>4 DEF ReferenceInv, loopVars
<1>2. CASE UvRefTest(t)
  <2>1. pc[t] \in Referring /\ ~refFlag BY <1>2, Alone DEF UvRefTest
  <2>2. pc' = [pc EXCEPT ![t] = "refset"] /\ UNCHANGED loopVars /\ main' = main
    BY <1>2, <2>1 DEF UvRefTest, mainVars
  <2> QED BY <1>2, <2>2, SharesKept DEF UvRefTest
<1>3. CASE UvRefSet(t)
  <2>1. main # "handle" /\ main' = main /\ pc[t] = "refset"
    BY <1>3 DEF UvRefSet, mainVars
  <2>2. activeHandles = others
    BY <2>1, <1>a, Alone DEF ReferenceInv
  <2>3. reg'[t] = activeHandles /\ activeHandles' = activeHandles /\ others' = others
        /\ pc' = [pc EXCEPT ![t] = "refadd"] /\ refFlag' = TRUE
    BY <1>3 DEF UvRefSet
  <2> QED BY <1>a, <2>1, <2>2, <2>3, AloneNext
<1>4. CASE UvRefAdd(t)
  <2>1. main # "handle" /\ main' = main /\ pc[t] = "refadd" /\ reg[t] = activeHandles
    BY <1>4 DEF UvRefAdd, mainVars, ReferenceInv
  <2>2. activeHandles = others /\ refFlag
    BY <2>1, <1>a, Alone DEF ReferenceInv
  <2>3. activeHandles' = others + 1 BY <1>4, <1>a, <2>1, <2>2, CountFits DEF UvRefAdd
  <2>4. others' = others /\ pc' = [pc EXCEPT ![t] = "new"] /\ refFlag' = refFlag
    BY <1>4 DEF UvRefAdd
  <2> QED BY <1>a, <2>1, <2>2, <2>3, <2>4, AloneNext
<1>5. CASE UvUnrefTest(t)
  <2>1. pc[t] \in Referring /\ refFlag BY <1>5, Alone DEF UvUnrefTest
  <2>2. pc' = [pc EXCEPT ![t] = "unrefset"] /\ UNCHANGED loopVars /\ main' = main
    BY <1>5, <2>1 DEF UvUnrefTest, mainVars
  <2> QED BY <1>5, <2>2, SharesKept DEF UvUnrefTest
<1>6. CASE UvUnrefSet(t)
  <2>1. main # "handle" /\ main' = main /\ pc[t] = "unrefset"
    BY <1>6 DEF UvUnrefSet, mainVars
  <2>2. activeHandles = others + 1
    BY <2>1, <1>a, Alone DEF ReferenceInv
  <2>3. reg'[t] = activeHandles /\ activeHandles' = activeHandles /\ others' = others
        /\ pc' = [pc EXCEPT ![t] = "unrefsub"] /\ refFlag' = FALSE
    BY <1>6 DEF UvUnrefSet
  <2> QED BY <1>a, <2>1, <2>2, <2>3, AloneNext
<1>7. CASE UvUnrefSub(t)
  <2>1. main # "handle" /\ main' = main /\ pc[t] = "unrefsub" /\ reg[t] = activeHandles
    BY <1>7 DEF UvUnrefSub, mainVars, ReferenceInv
  <2>2. activeHandles = others + 1 /\ ~refFlag
    BY <2>1, <1>a, Alone DEF ReferenceInv
  <2>3. activeHandles' = others
    <3>1. reg[t] - 1 = others BY <1>a, <2>1, <2>2
    <3> QED BY <1>7, <1>a, <3>1, CountFits DEF UvUnrefSub
  <2>4. others' = others /\ pc' = [pc EXCEPT ![t] = "delete"] /\ refFlag' = refFlag
    BY <1>7 DEF UvUnrefSub
  <2> QED BY <1>a, <2>1, <2>2, <2>3, <2>4, AloneNext
<1>8. CASE \/ NewInvokation(t) \/ LockQueue(t) \/ PushQueue(t) \/ AsyncSend(t)
           \/ WaitForExecution(t) \/ WaitReturns(t) \/ DeleteInvokation(t)
           \/ SpuriousWakeup(t)
  BY <1>8, SharesKept DEF NewInvokation, LockQueue, PushQueue, AsyncSend, WaitForExecution,
     WaitReturns, DeleteInvokation, SpuriousWakeup, mainVars
<1> QED BY <1>1, <1>2, <1>3, <1>4, <1>5, <1>6, <1>7, <1>8 DEF InvokeStep

LEMMA MainReference ==
  ASSUME TypeOK, ReferenceInv, ~raced',
         \/ Wakeup \/ WatcherStep \/ InvokeOnMain \/ ReturnOnMain
         \/ HandleLoad \/ HandleStore \/ LoopExit
  PROVE  ReferenceInv'
<1> USE DEF TypeOK
<1>a. References \in {0, 1} BY DEF References
<1>1. CASE SignalCond
  BY <1>1, SharesKept DEF SignalCond, Holding, Referring, Flagging, Counted, Updating
<1>2. CASE \/ Wakeup \/ WatcherLock \/ WatcherPop \/ DispatchDone \/ UncaughtError
           \/ SignalLock \/ SignalUnlock \/ WatcherUnlock
           \/ InvokeOnMain \/ ReturnOnMain \/ LoopExit
  <2>1. pc' = pc /\ UNCHANGED loopVars /\ (main' = "handle" <=> main = "handle")
    BY <1>2 DEF Wakeup, WatcherLock, WatcherPop, DispatchDone, UncaughtError, SignalLock,
       SignalUnlock, WatcherUnlock, InvokeOnMain, ReturnOnMain, LoopExit, threadVars
  <2> QED BY <2>1, SharesKept
<1>3. CASE HandleLoad
  <2>1. /\ pc' = pc /\ refFlag' = refFlag /\ main = "loop" /\ main' = "handle"
        /\ \A t \in Threads : pc[t] \notin Updating
    BY <1>3 DEF HandleLoad, threadVars
  <2>2. activeHandles = others + References BY <2>1 DEF ReferenceInv
  <2>3. References' = References BY <2>1 DEF References
  <2>4. PICK d \in {1, -1} :
          /\ others + d \in 0..MaxOthers /\ others' = others + d
          /\ reg' = [reg EXCEPT ![Main] = (activeHandles + d) % CountModulus]
    BY <1>3 DEF HandleLoad
  <2>5. activeHandles + d = others' + References /\ activeHandles + d \in 0..MaxOthers + 1
    BY <1>a, <2>2, <2>4
  <2>6. reg'[Main] = others' + References' BY <2>3, <2>4, <2>5, CountFits
  <2> QED BY <2>1, <2>3, <2>6 DEF ReferenceInv
<1>4. CASE HandleStore
  <2>1. /\ pc' = pc /\ refFlag' = refFlag /\ main = "handle" /\ main' = "loop"
        /\ others' = others /\ activeHandles' = reg[Main]
    BY <1>4 DEF HandleStore, threadVars
  <2>2. References' = References BY <2>1 DEF References
  <2>3. \A t \in Threads : pc[t] \notin Updating BY <2>1 DEF ReferenceInv
  <2> QED BY <2>1, <2>2, <2>3 DEF ReferenceInv
<1> QED BY <1>1, <1>2, <1>3, <1>4 DEF WatcherStep

LEMMA LoopStep == LoopInv /\ [Next]_vars => LoopInv'
<1> SUFFICES ASSUME LoopInv, [Next]_vars PROVE LoopInv'
  OBVIOUS
<1>1. TypeOK' BY TypeStep DEF LoopInv
<1>2. ASSUME ~raced' PROVE ReferenceInv'
  <2>1. TypeOK /\ ReferenceInv BY <1>2, RacedStays DEF LoopInv
  <2>2. CASE UNCHANGED vars
    BY <2>1, <2>2, SharesKept DEF vars, threadVars, loopVars, mainVars
  <2>3. CASE Next
    BY <1>2, <2>1, <2>2, <2>3, ThreadReference, MainReference DEF Next, Over
  <2> QED BY <2>2, <2>3
<1> QED BY <1>1, <1>2 DEF LoopInv

LEMMA LoopInvHolds == Spec => []LoopInv
<1>1. ASSUME Init PROVE LoopInv
  <2>1. TypeOK BY <1>1, TypeInit
  <2>2. \A t \in Threads : pc[t] = "c" BY <1>1 DEF Init
  <2>3. References = 0 BY <2>2 DEF References, Holding
  <2>4. \A t \in Threads : /\ pc[t] \notin Referring /\ pc[t] \notin Updating
                           /\ pc[t] \notin Holding \cup {"refadd", "unrefset"}
    BY <2>2 DEF Referring, Updating, Holding
  <2>5. refFlag = FALSE /\ main = "loop" /\ activeHandles = 0 /\ others = 0
    BY <1>1 DEF Init
  <2> QED BY <2>1, <2>3, <2>4, <2>5 DEF LoopInv, ReferenceInv
<1> QED BY <1>1, LoopStep, PTL DEF Spec

(* For any threads and any handles of the program: the loop exits under a    *)
(* callback only after a race over the reference, that is a second thread in *)
(* Invoke, or uv_ref or uv_unref in the middle of another handle's change.   *)
THEOREM LoopHeldUnlessRaced == Spec => HeldUnlessRaced
<1>1. LoopInv => [raced \/ ExitsIdle]_vars
  <2> SUFFICES ASSUME LoopInv, ~raced, LoopExit, NEW t \in Threads, pc[t] \in Holding
               PROVE  FALSE
    BY DEF ExitsIdle
  <2>1. References = 1 /\ ReferenceInv BY DEF LoopInv, References
  <2>2. main = "loop" /\ activeHandles = 0 /\ others \in Nat
    BY DEF LoopExit, LoopInv, TypeOK
  <2> QED BY <2>1, <2>2 DEF ReferenceInv
<1>2. []LoopInv => HeldUnlessRaced BY <1>1, PTL DEF HeldUnlessRaced
<1> QED BY <1>2, LoopInvHolds, PTL

(* Without such a race the count comes back to what the program's own        *)
(* handles need, once every thread is back in C.                             *)
THEOREM LoopReleasedUnlessRaced == Spec => []LoopReleased
<1>1. LoopInv => LoopReleased
  <2> SUFFICES ASSUME LoopInv, ~raced, \A t \in Threads : pc[t] = "c", main # "handle"
               PROVE  activeHandles = others
    BY DEF LoopReleased
  <2>1. References = 0 /\ ReferenceInv BY DEF LoopInv, References, Holding
  <2>2. others \in Nat BY DEF LoopInv, TypeOK
  <2> QED BY <2>1, <2>2 DEF ReferenceInv
<1> QED BY <1>1, LoopInvHolds, PTL

-----------------------------------------------------------------------------
(* ThreadedCallback implements the safety part of CallbackRendezvous: under *)
(* the mapping `Promise`, every step of Invoke and WatcherCallback is a     *)
(* step of the rendezvous or leaves it alone.                               *)

USE DEF Promise!vars

(* What <<x>> \o q is made of. *)
LEMMA ConsProperties ==
  ASSUME NEW S, NEW x \in S, NEW q \in Seq(S)
  PROVE  /\ <<x>> \o q # <<>>
         /\ Head(<<x>> \o q) = x
         /\ Tail(<<x>> \o q) = q
<1>1. <<x>> \o q \in Seq(S) /\ Len(<<x>> \o q) = Len(q) + 1 OBVIOUS
<1>2. (<<x>> \o q)[1] = x OBVIOUS
<1>3. \A i \in 1..Len(q) : (<<x>> \o q)[i + 1] = q[i] OBVIOUS
<1>4. <<x>> \o q # <<>> BY <1>1
<1>5. Head(<<x>> \o q) = x BY <1>1, <1>2, <1>4
<1>6. /\ Tail(<<x>> \o q) \in Seq(S)
      /\ Len(Tail(<<x>> \o q)) = Len(q)
      /\ \A i \in 1..Len(q) : Tail(<<x>> \o q)[i] = q[i]
  BY <1>1, <1>3, <1>4
<1>7. Tail(<<x>> \o q) = q BY <1>6, SeqEqual
<1> QED BY <1>4, <1>5, <1>7

LEMMA SplitHead ==
  ASSUME NEW S, NEW q \in Seq(S), q # <<>>
  PROVE  <<Head(q)>> \o Tail(q) = q
BY SMT

(* A thread's place in the rendezvous changes at three steps only.          *)
LEMMA InvokeRefines ==
  ASSUME NEW t \in Threads, TypeOK, QueueAccessExclusive, HandshakeInv,
         Enter(t) \/ InvokeStep(t)
  PROVE  [Promise!Next]_(Promise!vars)
<1> USE DEF HandshakeInv, TypeOK, Call, Asleep, threadVars, queueVars, loopVars, mainVars, historyVars
<1>1. main \notin Ended /\ main' = main
  BY DEF Enter, InvokeStep, UvRefTest, UvRefSet, UvRefAdd, NewInvokation, LockQueue,
         PushQueue, AsyncSend, WaitForExecution, WaitReturns, UvUnrefTest,
         UvUnrefSet, UvUnrefSub, DeleteInvokation
<1>2. CASE PushQueue(t)
  <2>1. main # "dispatch"
    BY <1>2 DEF PushQueue, QueueAccessExclusive, InWatcher, Serving
  <2>2. Pending = queue /\ Pending' = Append(Pending, t)
    BY <1>1, <1>2, <2>1 DEF Pending, PushQueue, Ended
  <2>3. cur # t BY <1>1, <1>2 DEF PushQueue, ServiceInv, MainLocs, InWatcher, Serving
  <2>4. outcome[t] = "none" BY <1>2, <2>3 DEF PushQueue, OutcomeInv, Released
  <2>5. Call[t] = "idle" /\ Call' = [Call EXCEPT ![t] = "requested"]
    BY <1>2, <2>4 DEF PushQueue
  <2> QED BY <1>1, <2>2, <2>5 DEF Promise!Next, Promise!Request
<1>3. CASE DeleteInvokation(t)
  <2>1. outcome[t] # "none" BY <1>3 DEF DeleteInvokation, OutcomeInv, Released
  <2>2. Call[t] = "executed" /\ Call' = [Call EXCEPT ![t] = "idle"]
    BY <1>3, <2>1 DEF DeleteInvokation
  <2>3. Pending' = Pending BY <1>1, <1>3 DEF DeleteInvokation, Pending
  <2> QED BY <1>1, <2>2, <2>3 DEF Promise!Next, Promise!Return
<1>4. CASE ~PushQueue(t) /\ ~DeleteInvokation(t)
  <2>1. queue' = queue /\ cur' = cur /\ outcome' = outcome
    BY <1>4 DEF Enter, InvokeStep, UvRefTest, UvRefSet, UvRefAdd, NewInvokation,
         LockQueue, AsyncSend, WaitForExecution, WaitReturns, UvUnrefTest,
         UvUnrefSet, UvUnrefSub
  <2>2. Pending' = Pending BY <1>1, <2>1 DEF Pending
  <2>3. Call' = Call
    <3>1. CASE WaitReturns(t)
      BY <2>1, <3>1 DEF WaitReturns, OutcomeInv
    <3>2. CASE ~WaitReturns(t)
      BY <1>4, <2>1, <3>2 DEF Enter, InvokeStep, UvRefTest, UvRefSet, UvRefAdd,
         NewInvokation, LockQueue, AsyncSend, WaitForExecution, UvUnrefTest,
         UvUnrefSet, UvUnrefSub
    <3> QED BY <3>1, <3>2
  <2> QED BY <1>1, <2>2, <2>3
<1> QED BY <1>2, <1>3, <1>4

(* The main thread executes the oldest invocation, or ends the process.      *)
LEMMA MainRefines ==
  ASSUME TypeOK, HandshakeInv,
         \/ Wakeup \/ WatcherStep \/ InvokeOnMain \/ ReturnOnMain
         \/ HandleLoad \/ HandleStore \/ LoopExit
  PROVE  [Promise!Next]_(Promise!vars)
<1> USE DEF HandshakeInv, TypeOK, Call, Asleep, Ended, Serving,
            threadVars, queueVars, loopVars, mainVars, historyVars
<1>1. CASE DispatchDone
  <2>1. cur \in Threads /\ queue \in Seq(Threads) BY <1>1 DEF DispatchDone
  <2>2. Pending = <<cur>> \o queue /\ Pending' = queue
    BY <1>1 DEF DispatchDone, Pending
  <2>3. Pending # <<>> /\ Head(Pending) = cur /\ Pending' = Tail(Pending)
    BY <2>1, <2>2, ConsProperties
  <2>4. Call' = [Call EXCEPT ![cur] = "executed"]
    BY <1>1, <2>1 DEF DispatchDone
  <2>5. main \notin Ended /\ main' \notin Ended BY <1>1 DEF DispatchDone
  <2> QED BY <2>3, <2>4, <2>5 DEF Promise!Next, Promise!Execute
<1>2. CASE UncaughtError
  BY <1>2 DEF UncaughtError, Pending, Promise!Next, Promise!Close
<1>3. CASE LoopExit
  BY <1>3 DEF LoopExit, Pending, Promise!Next, Promise!Close
<1>4. CASE WatcherPop
  <2>1. Pending = queue /\ Pending' = <<Head(queue)>> \o Tail(queue)
    BY <1>4 DEF WatcherPop, Pending
  <2>2. Pending' = Pending BY <1>4, <2>1, SplitHead DEF WatcherPop
  <2>3. Call' = Call BY <1>4 DEF WatcherPop
  <2> QED BY <1>4, <2>2, <2>3 DEF WatcherPop
<1>5. CASE SignalCond
  <2>1. outcome[cur] # "none" BY <1>5 DEF SignalCond, ServiceInv
  <2>2. Call' = Call BY <1>5, <2>1 DEF SignalCond
  <2> QED BY <1>5, <2>2 DEF SignalCond, Pending
<1>6. CASE \/ Wakeup \/ WatcherLock \/ SignalLock \/ SignalUnlock \/ WatcherUnlock
           \/ InvokeOnMain \/ ReturnOnMain \/ HandleLoad \/ HandleStore
  <2>1. Call' = Call
    BY <1>6 DEF Wakeup, WatcherLock, SignalLock, SignalUnlock, WatcherUnlock,
         InvokeOnMain, ReturnOnMain, HandleLoad, HandleStore
  <2>2. Pending' = Pending /\ (main' \in Ended <=> main \in Ended)
    BY <1>6 DEF Pending, Wakeup, WatcherLock, SignalLock, SignalUnlock,
         WatcherUnlock, InvokeOnMain, ReturnOnMain, HandleLoad, HandleStore
  <2> QED BY <2>1, <2>2
<1> QED BY <1>1, <1>2, <1>3, <1>4, <1>5, <1>6 DEF WatcherStep

(* Every step of the program, seen through the mapping, is a step of the     *)
(* first-come-first-served rendezvous that ffi.Callback promises, for every  *)
(* number of native threads, when waits only end by a signal.                *)
THEOREM RendezvousRefined ==
  ASSUME SpuriousWakeups = FALSE
  PROVE  Spec => StepsLikeRendezvous
<1>1. Init => Promise!Init
  BY DEF Init, Promise!Init, Call, Pending, Ended, Asleep
<1>2. RendezvousInv /\ [Next]_vars => [Promise!Next]_(Promise!vars)
  <2> SUFFICES ASSUME RendezvousInv, [Next]_vars
               PROVE  [Promise!Next]_(Promise!vars)
    OBVIOUS
  <2>1. CASE UNCHANGED vars
    BY <2>1 DEF vars, threadVars, queueVars, loopVars, mainVars, Call, Pending
  <2>2. CASE Next
    <3>1. TypeOK /\ QueueAccessExclusive /\ HandshakeInv BY DEF RendezvousInv, TypeOK
    <3> QED BY <2>1, <2>2, <3>1, InvokeRefines, MainRefines DEF Next, Over, SpuriousWakeup
  <2> QED BY <2>1, <2>2
<1> QED BY <1>1, <1>2, RendezvousCorrect, PTL DEF Spec, StepsLikeRendezvous
=============================================================================
