------------------------ MODULE ClosureLifetimeProofs ------------------------
(* Proofs about ClosureLifetime, for any callbacks, closure memory, threads *)
(* and bounds.                                                              *)
EXTENDS ClosureLifetime, SequenceTheorems, TLAPS

USE NoneAssumption, BoundsAssumption
    DEF bufferVars, closureVars, handleVars, callVars, OrNone

-----------------------------------------------------------------------------
(* Records and sequences *)

(* Assigning handles to a callback_info.                                    *)
LEMMA InfoTypes ==
  ASSUME NEW i \in Info, NEW f \in OrNone(Callbacks), NEW e \in OrNone(Callbacks)
  PROVE  /\ [i EXCEPT !.function = f] \in Info
         /\ [i EXCEPT !.function = f, !.errorFunction = e] \in Info
         /\ [i EXCEPT !.function = f].errorFunction = i.errorFunction
         /\ [i EXCEPT !.function = f].function = f
BY DEF Info

(* All but the last element of a sequence.                                  *)
LEMMA FrontTypes ==
  ASSUME NEW S, NEW q \in Seq(S), q # <<>>
  PROVE  /\ Front(q) \in Seq(S) /\ Len(Front(q)) = Len(q) - 1
         /\ \A i \in 1..Len(Front(q)) : i \in 1..Len(q) /\ Front(q)[i] = q[i]
<1>1. Len(q) \in Nat \ {0} /\ \A i \in 1..Len(q) : q[i] \in S OBVIOUS
<1> DEFINE n == Len(q) - 1
<1>2. n \in Nat /\ 1 \in Int /\ n \in Int /\ \A i \in 1..n : q[i] \in S BY <1>1
<1> HIDE DEF n
<1>3. /\ SubSeq(q, 1, n) \in Seq(S)
      /\ Len(SubSeq(q, 1, n)) = IF 1 =< n THEN n - 1 + 1 ELSE 0
      /\ \A i \in 1..(n - 1 + 1) : SubSeq(q, 1, n)[i] = q[1 + i - 1]
  BY <1>2, SubSeqProperties
<1>4. Front(q) = SubSeq(q, 1, n) BY DEF Front, n
<1>5. Len(Front(q)) = n BY <1>2, <1>3, <1>4
<1>6. \A i \in 1..n : Front(q)[i] = q[i] BY <1>2, <1>3, <1>4
<1>7. \A i \in 1..n : i \in 1..Len(q) BY <1>1 DEF n
<1> QED BY <1>3, <1>4, <1>5, <1>6, <1>7 DEF n

(* A call of a thread goes on to another phase.                             *)
LEMMA GotoTypes ==
  ASSUME thread \in [Threads -> Call], NEW t \in Threads,
         NEW phase \in {"none", "waiting", "executing", "leaving"}, Goto(t, phase)
  PROVE  /\ thread' \in [Threads -> Call]
         /\ thread'[t].meant = thread[t].meant /\ thread'[t].cif = thread[t].cif
         /\ thread'[t].phase = phase
         /\ \A u \in Threads : u # t => thread'[u] = thread[u]
<1> DEFINE call == [thread[t] EXCEPT !.phase = phase]
<1>1. /\ call \in Call /\ call.meant = thread[t].meant /\ call.cif = thread[t].cif
      /\ call.phase = phase
  BY DEF Call
<1>2. thread' = [thread EXCEPT ![t] = call] BY DEF Goto
<1> HIDE DEF call
<1> QED BY <1>1, <1>2

-----------------------------------------------------------------------------
(* Calls *)

(* TypeOK's conjuncts about calls, and the others.                          *)
CallTypes ==
  /\ inC \subseteq {c \in Callbacks : slotOf[c] # None}
  /\ thread \in [Threads -> Call]
  /\ \A t \in Threads : At(t, "none") <=> thread[t].meant = None
  /\ stack \in Seq(Frame)
  /\ \A c \in Callbacks : Wanted(c) => slotOf[c] # None
  /\ \A i \in 1..Len(stack) : stack[i].by # None => i = 1
  /\ \A t \in Threads : At(t, "executing") <=> stack # <<>> /\ stack[1].by = t

DataTypes ==
  /\ buffer \in [Callbacks -> {"new", "failed", "live", "freed"}]
  /\ held \subseteq {c \in Callbacks : buffer[c] = "live"}
  /\ cifs \subseteq Callbacks
  /\ slotOf \in [Callbacks -> OrNone(Slots)]
  /\ \A c \in Callbacks : buffer[c] \in {"live", "freed"} <=> slotOf[c] # None
  /\ inUse \subseteq Slots
  /\ info \in [Slots -> Info]
  /\ functions \subseteq Callbacks /\ errorFunctions \subseteq Callbacks
  /\ process \in {"up", "crashed"} /\ careful \in BOOLEAN

LEMMA TypeParts == TypeOK <=> DataTypes /\ CallTypes
BY DEF TypeOK, DataTypes, CallTypes

LEMMA TypePartsNext == TypeOK' <=> DataTypes' /\ CallTypes'
BY DEF TypeOK, DataTypes, CallTypes

(* Every call and every frame belongs to a pointer that was given out, and  *)
(* a thread's frame is the outermost one.                                   *)
LEMMA FrameFacts ==
  ASSUME DataTypes, CallTypes
  PROVE  /\ \A i \in 1..Len(stack) :
              /\ stack[i].meant \in Callbacks /\ stack[i].by \in OrNone(Threads)
              /\ slotOf[stack[i].meant] \in Slots /\ Wanted(stack[i].meant)
         /\ \A t \in Threads : ~At(t, "none") =>
              /\ thread[t].meant \in Callbacks /\ thread[t].cif \in OrNone(Callbacks)
              /\ slotOf[thread[t].meant] \in Slots /\ Wanted(thread[t].meant)
<1>1. ASSUME NEW i \in 1..Len(stack)
      PROVE  /\ stack[i].meant \in Callbacks /\ stack[i].by \in OrNone(Threads)
             /\ slotOf[stack[i].meant] \in Slots /\ Wanted(stack[i].meant)
  <2>1. stack[i] \in Frame BY DEF CallTypes
  <2>2. stack[i].meant \in Callbacks /\ stack[i].by \in OrNone(Threads) BY <2>1 DEF Frame
  <2>3. Wanted(stack[i].meant) BY DEF Wanted
  <2> QED BY <2>2, <2>3 DEF CallTypes, DataTypes
<1>2. ASSUME NEW t \in Threads, ~At(t, "none")
      PROVE  /\ thread[t].meant \in Callbacks /\ thread[t].cif \in OrNone(Callbacks)
             /\ slotOf[thread[t].meant] \in Slots /\ Wanted(thread[t].meant)
  <2>1. thread[t] \in Call /\ thread[t].meant # None BY <1>2 DEF CallTypes
  <2>2. thread[t].meant \in Callbacks /\ thread[t].cif \in OrNone(Callbacks)
    BY <2>1 DEF Call
  <2>3. Wanted(thread[t].meant) BY DEF Wanted
  <2> QED BY <2>2, <2>3 DEF CallTypes, DataTypes
<1> QED BY <1>1, <1>2

(* DispatchToV8 either starts a frame or leaves the stack as it is.         *)
LEMMA DispatchFrames ==
  ASSUME DataTypes, stack \in Seq(Frame), NEW c \in Callbacks, slotOf[c] \in Slots,
         NEW cif \in OrNone(Callbacks), NEW t \in OrNone(Threads), Dispatch(c, cif, t)
  PROVE  LET f == Closure(c).function
             fr == [meant |-> c, cif |-> cif, runs |-> f, by |-> t]
         IN  /\ f = None => stack' = stack
             /\ f # None => /\ stack' \in Seq(Frame) /\ Len(stack') = Len(stack) + 1
                            /\ stack'[Len(stack) + 1] = fr
                            /\ \A i \in 1..Len(stack) : stack'[i] = stack[i]
<1> DEFINE f == Closure(c).function
           fr == [meant |-> c, cif |-> cif, runs |-> f, by |-> t]
<1>1. info[slotOf[c]] \in Info BY DEF DataTypes
<1>2. f \in OrNone(Callbacks) BY <1>1 DEF Closure, Info
<1>3. f # None => fr \in Frame BY <1>2 DEF Frame
<1>4. stack' = IF f = None THEN stack ELSE Append(stack, fr) BY DEF Dispatch
<1> HIDE DEF f, fr
<1>5. f # None => /\ stack' \in Seq(Frame) /\ Len(stack') = Len(stack) + 1
                  /\ stack'[Len(stack) + 1] = fr
                  /\ \A i \in 1..Len(stack) : stack'[i] = stack[i]
  BY <1>3, <1>4
<1>6. f = None => stack' = stack BY <1>4
<1> QED BY <1>5, <1>6 DEF f, fr

(* The steps that move calls around; they leave the closures alone.         *)
CallSteps == UNCHANGED <<bufferVars, closureVars, handleVars>>

(* ... and among them, those that neither crash nor let C have a pointer.   *)
Moves ==
  /\ CallSteps /\ UNCHANGED <<inC, process, careful>>
  /\ CallTypes'
  /\ \A c \in Callbacks : Wanted(c)' => Wanted(c)

LEMMA MainMoves ==
  ASSUME DataTypes, CallTypes, NEW c \in inC, Dispatch(c, Closure(c).cif, None),
         UNCHANGED thread
  PROVE  Moves
<1>1. /\ c \in Callbacks /\ slotOf[c] \in Slots /\ stack \in Seq(Frame)
      /\ Wanted(c) /\ info[slotOf[c]] \in Info
  BY DEF CallTypes, DataTypes, Wanted
<1>a. Closure(c).cif \in OrNone(Callbacks) BY <1>1 DEF Closure, Info
<1>2. CallSteps /\ UNCHANGED <<inC, process, careful>> /\ thread' = thread
      /\ inC' = inC /\ slotOf' = slotOf
  BY DEF Dispatch, CallSteps
<1>3. CASE Closure(c).function = None
  <2>1. stack' = stack BY <1>3 DEF Dispatch
  <2> QED BY <1>2, <2>1 DEF CallTypes, Wanted, At, Moves
<1>4. CASE Closure(c).function # None
  <2> DEFINE n == Len(stack) + 1
             fr == [meant |-> c, cif |-> Closure(c).cif, runs |-> Closure(c).function,
                    by |-> None]
  <2>1. /\ stack' \in Seq(Frame) /\ Len(stack') = n
        /\ stack'[n] = fr
        /\ \A i \in 1..Len(stack) : stack'[i] = stack[i]
    BY <1>1, <1>a, <1>4, DispatchFrames
  <2>2. fr.meant = c /\ fr.by = None OBVIOUS
  <2>3. Len(stack) \in Nat /\ (stack = <<>> <=> Len(stack) = 0) /\ stack' # <<>>
    BY <1>1, <2>1
  <2> HIDE DEF fr
  <2>4. \A i \in 1..Len(stack') : i = n \/ i \in 1..Len(stack) BY <2>1, <2>3
  <2>5. \A d \in Callbacks : Wanted(d)' => Wanted(d)
    BY <1>1, <1>2, <2>1, <2>2, <2>4 DEF Wanted
  <2>6. \A i \in 1..Len(stack') : stack'[i].by # None => i = 1
    BY <2>1, <2>2, <2>4 DEF CallTypes
  <2>7. \A t \in Threads : stack'[1].by = t <=> stack # <<>> /\ stack[1].by = t
    <3>1. CASE Len(stack) = 0 BY <2>1, <2>2, <2>3, <3>1
    <3>2. CASE Len(stack) # 0 BY <2>1, <2>3, <3>2
    <3> QED BY <3>1, <3>2
  <2>8. \A t \in Threads : (At(t, "executing") <=> stack # <<>> /\ stack[1].by = t)'
    BY <1>2, <2>3, <2>7 DEF CallTypes, At
  <2>9. (\A t \in Threads : At(t, "none") <=> thread[t].meant = None)'
    BY <1>2 DEF CallTypes, At
  <2>10. (\A d \in Callbacks : Wanted(d) => slotOf[d] # None)'
    BY <1>2, <2>5 DEF CallTypes
  <2>11. CallTypes' BY <1>2, <2>1, <2>6, <2>8, <2>9, <2>10 DEF CallTypes
  <2> QED BY <1>2, <2>5, <2>11 DEF Moves
<1> QED BY <1>3, <1>4

LEMMA WatcherMoves ==
  ASSUME DataTypes, CallTypes, NEW t \in Threads, stack = <<>>, At(t, "waiting"),
         Dispatch(thread[t].meant, thread[t].cif, t),
         Goto(t, IF Closure(thread[t].meant).function = None THEN "leaving" ELSE "executing")
  PROVE  Moves
<1> DEFINE c == thread[t].meant
           cif == thread[t].cif
<1>1. /\ c \in Callbacks /\ cif \in OrNone(Callbacks) /\ slotOf[c] \in Slots
      /\ stack \in Seq(Frame) /\ thread \in [Threads -> Call]
      /\ Wanted(c)
  BY FrameFacts DEF At, CallTypes
<1>2. CallSteps /\ UNCHANGED <<inC, process, careful>> /\ inC' = inC /\ slotOf' = slotOf
  BY DEF Dispatch, CallSteps
<1>3. ASSUME NEW phase \in {"executing", "leaving"}, Goto(t, phase),
             \A i \in 1..Len(stack') : i = 1 /\ stack'[i].meant = c,
             stack' \in Seq(Frame),
             \A u \in Threads : stack' # <<>> /\ stack'[1].by = u
                                 <=> u = t /\ phase = "executing"
      PROVE  Moves
  <2>1. /\ thread' \in [Threads -> Call]
        /\ thread'[t].meant = c /\ thread'[t].phase = phase
        /\ \A u \in Threads : u # t => thread'[u] = thread[u]
    BY <1>1, <1>3, GotoTypes
  <2>2. \A d \in Callbacks : Wanted(d)' => Wanted(d)
    BY <1>1, <1>2, <1>3, <2>1 DEF Wanted
  <2>3. (\A u \in Threads : At(u, "none") <=> thread[u].meant = None)'
    BY <1>1, <2>1 DEF CallTypes, At
  <2>4. (\A u \in Threads : At(u, "executing") <=> stack # <<>> /\ stack[1].by = u)'
    BY <1>3, <2>1 DEF CallTypes, At
  <2>5. (\A d \in Callbacks : Wanted(d) => slotOf[d] # None)'
    BY <1>2, <2>2 DEF CallTypes
  <2>6. (\A i \in 1..Len(stack) : stack[i].by # None => i = 1)' BY <1>3
  <2>7. CallTypes' BY <1>2, <1>3, <2>1, <2>3, <2>4, <2>5, <2>6 DEF CallTypes
  <2> QED BY <1>2, <2>2, <2>7 DEF Moves
<1>4. CASE Closure(c).function = None
  <2>1. stack' = <<>> BY <1>4 DEF Dispatch
  <2>2. Goto(t, "leaving") BY <1>4
  <2> QED BY <1>3, <2>1, <2>2
<1>5. CASE Closure(c).function # None
  <2> DEFINE fr == [meant |-> c, cif |-> cif, runs |-> Closure(c).function, by |-> t]
  <2>1. stack' \in Seq(Frame) /\ Len(stack') = 1 /\ stack'[1] = fr
    BY <1>1, <1>5, DispatchFrames
  <2>2. fr.meant = c /\ fr.by = t OBVIOUS
  <2> HIDE DEF fr
  <2>3. \A i \in 1..Len(stack') : i = 1 /\ stack'[i].meant = c BY <2>1, <2>2
  <2>a. Len(stack') # 0 BY <2>1
  <2>b. stack' # <<>> BY <2>a
  <2>4. stack' # <<>> /\ stack'[1].by = t BY <2>1, <2>2, <2>b
  <2>5. Goto(t, "executing") BY <1>5
  <2> QED BY <1>3, <2>1, <2>3, <2>4, <2>5
<1> QED BY <1>4, <1>5

LEMMA FinishMoves ==
  ASSUME DataTypes, CallTypes, stack # <<>>, Finish(Last(stack))
  PROVE  Moves
<1> DEFINE n == Len(stack)
           f == stack[n]
<1>1. /\ stack \in Seq(Frame) /\ n \in 1..Len(stack) /\ Last(stack) = f
      /\ n \in Nat \ {0} /\ thread \in [Threads -> Call]
  BY DEF CallTypes, Last
<1>2. CallSteps /\ UNCHANGED <<inC, process, careful>> /\ inC' = inC /\ slotOf' = slotOf
  BY DEF Finish, CallSteps
<1>3. /\ stack' \in Seq(Frame) /\ Len(stack') = n - 1
      /\ \A i \in 1..Len(stack') : i \in 1..n /\ stack'[i] = stack[i]
  BY <1>1, FrontTypes DEF Finish
<1>a. stack' # <<>> <=> n # 1 BY <1>1, <1>3
<1>b. stack' # <<>> => stack'[1] = stack[1] BY <1>1, <1>3
<1>c. (\A i \in 1..Len(stack) : stack[i].by # None => i = 1)' BY <1>3 DEF CallTypes
<1>d. f.by \in OrNone(Threads) BY <1>1, FrameFacts
<1>4. CASE f.by = None
  <2>1. thread' = thread BY <1>1, <1>4 DEF Finish
  <2>2. \A d \in Callbacks : Wanted(d)' => Wanted(d) BY <1>2, <1>3, <2>1 DEF Wanted
  <2>3. \A t \in Threads : stack' # <<>> /\ stack'[1].by = t
                           <=> stack # <<>> /\ stack[1].by = t
    BY <1>1, <1>a, <1>b, <1>4
  <2>4. (\A t \in Threads : At(t, "executing") <=> stack # <<>> /\ stack[1].by = t)'
    BY <2>1, <2>3 DEF CallTypes, At
  <2>5. (\A d \in Callbacks : Wanted(d) => slotOf[d] # None)'
    BY <1>2, <2>2 DEF CallTypes
  <2>6. (\A t \in Threads : At(t, "none") <=> thread[t].meant = None)'
    BY <2>1 DEF CallTypes, At
  <2>7. CallTypes' BY <1>1, <1>2, <1>3, <1>c, <2>1, <2>4, <2>5, <2>6 DEF CallTypes
  <2> QED BY <1>2, <2>2, <2>7 DEF Moves
<1>5. ASSUME NEW t \in Threads, f.by = t PROVE Moves
  <2>1. Goto(t, "leaving") BY <1>1, <1>5 DEF Finish
  <2>2. n = 1 /\ At(t, "executing") BY <1>1, <1>5 DEF CallTypes
  <2>3. stack' = <<>> BY <1>a, <2>2
  <2>4. /\ thread' \in [Threads -> Call]
        /\ thread'[t].meant = thread[t].meant /\ thread'[t].phase = "leaving"
        /\ \A u \in Threads : u # t => thread'[u] = thread[u]
    BY <1>1, <2>1, GotoTypes
  <2>5. \A d \in Callbacks : Wanted(d)' => Wanted(d) BY <1>2, <1>3, <2>4 DEF Wanted
  <2>6. (\A u \in Threads : At(u, "none") <=> thread[u].meant = None)'
    BY <2>2, <2>4 DEF CallTypes, At
  <2>7. \A u \in Threads : ~At(u, "executing")' BY <1>5, <2>2, <2>4 DEF CallTypes, At
  <2>8. (\A u \in Threads : At(u, "executing") <=> stack # <<>> /\ stack[1].by = u)'
    BY <2>3, <2>7
  <2>9. (\A d \in Callbacks : Wanted(d) => slotOf[d] # None)'
    BY <1>2, <2>5 DEF CallTypes
  <2>10. CallTypes' BY <1>2, <1>3, <1>c, <2>4, <2>6, <2>8, <2>9 DEF CallTypes
  <2> QED BY <1>2, <2>5, <2>10 DEF Moves
<1> QED BY <1>d, <1>4, <1>5

(* A thread starts a call, or is back from one.                             *)
LEMMA ThreadMoves ==
  ASSUME DataTypes, CallTypes, NEW t \in Threads, CallSteps,
         UNCHANGED <<inC, stack, process, careful>>,
         \/ /\ At(t, "none")
            /\ \E c \in inC : thread' = [thread EXCEPT ![t] =
                 [meant |-> c, cif |-> Closure(c).cif, phase |-> "waiting"]]
         \/ At(t, "leaving") /\ thread' = [thread EXCEPT ![t] = NoCall]
  PROVE  Moves
<1>1. /\ inC' = inC /\ slotOf' = slotOf /\ stack' = stack
      /\ thread \in [Threads -> Call]
  BY DEF CallSteps, CallTypes
<1>2. ~At(t, "executing") BY DEF At
<1>3. ASSUME NEW call \in Call, thread' = [thread EXCEPT ![t] = call],
             call.phase # "executing", call.phase = "none" <=> call.meant = None,
             call.meant # None => Wanted(call.meant)
      PROVE  Moves
  <2>1. /\ thread' \in [Threads -> Call] /\ thread'[t] = call
        /\ \A u \in Threads : u # t => thread'[u] = thread[u]
    BY <1>1, <1>3
  <2>2. \A d \in Callbacks : Wanted(d)' => Wanted(d) BY <1>1, <1>3, <2>1 DEF Wanted
  <2>3. (\A u \in Threads : At(u, "none") <=> thread[u].meant = None)'
    BY <1>3, <2>1 DEF CallTypes, At
  <2>4. (\A u \in Threads : At(u, "executing") <=> stack # <<>> /\ stack[1].by = u)'
    BY <1>1, <1>2, <1>3, <2>1 DEF CallTypes, At
  <2>5. (\A d \in Callbacks : Wanted(d) => slotOf[d] # None)'
    BY <1>1, <2>2 DEF CallTypes
  <2>6. CallTypes' BY <1>1, <2>1, <2>3, <2>4, <2>5 DEF CallTypes
  <2> QED BY <2>2, <2>6 DEF Moves
<1>4. ASSUME NEW c \in inC, thread' = [thread EXCEPT ![t] =
               [meant |-> c, cif |-> Closure(c).cif, phase |-> "waiting"]]
      PROVE  Moves
  <2> DEFINE call == [meant |-> c, cif |-> Closure(c).cif, phase |-> "waiting"]
  <2>1. c \in Callbacks /\ slotOf[c] \in Slots /\ Wanted(c)
    BY DEF CallTypes, DataTypes, Wanted
  <2>2. info[slotOf[c]] \in Info BY <2>1 DEF DataTypes
  <2>3. Closure(c).cif \in OrNone(Callbacks) BY <2>2 DEF Closure, Info
  <2>4. call \in Call /\ call.phase = "waiting" /\ call.meant = c BY <2>1, <2>3 DEF Call
  <2>5. thread' = [thread EXCEPT ![t] = call] BY <1>4
  <2> HIDE DEF call
  <2> QED BY <1>3, <2>1, <2>4, <2>5
<1>5. CASE thread' = [thread EXCEPT ![t] = NoCall]
  <2>1. NoCall \in Call /\ NoCall.phase = "none" /\ NoCall.meant = None
    BY DEF NoCall, Call
  <2> QED BY <1>3, <1>5, <2>1
<1> QED BY <1>4, <1>5

-----------------------------------------------------------------------------
(* Type correctness *)

LEMMA TypeInit == Init => TypeOK
BY DEF Init, TypeOK, Info, Call, NoCall, At, Wanted

(* The next-state relation by what its steps may change.                    *)
LEMMA StepCases ==
  ASSUME DataTypes, CallTypes, [Next]_vars
  PROVE  \/ \E c \in Callbacks : \/ Refuse(c) \/ Forget(c) \/ Collect(c) \/ CollectCif(c)
                                 \/ \E s \in Slots : NewCallback(c, s) \/ PrepFails(c, s)
         \/ \E c \in Callbacks : Give(c) \/ Revoke(c)
         \/ Crash
         \/ Moves
         \/ UNCHANGED vars
<1>1. ASSUME NEW c \in Callbacks, InvokeOnMain(c) PROVE Crash \/ Moves
  BY <1>1, MainMoves DEF InvokeOnMain
<1>2. ASSUME NEW c \in Callbacks, NEW t \in Threads, InvokeOnThread(t, c)
      PROVE  Crash \/ Moves
  BY <1>2, ThreadMoves DEF InvokeOnThread, CallSteps
<1>3. ASSUME NEW t \in Threads, WatcherCallback(t) PROVE Crash \/ Moves
  BY <1>3, WatcherMoves DEF WatcherCallback
<1>4. ASSUME NEW t \in Threads, Leave(t) PROVE Crash \/ Moves
  BY <1>4, ThreadMoves DEF Leave, CallSteps
<1>5. CASE Return \/ ReportError BY <1>5, FinishMoves DEF Return, ReportError
<1> QED BY <1>1, <1>2, <1>3, <1>4, <1>5 DEF Next, Idle

(* Steps that leave the calls as they are and take no address back.         *)
LEMMA CallsKept ==
  ASSUME CallTypes, UNCHANGED callVars,
         \A c \in Callbacks : slotOf[c] # None => slotOf'[c] # None
  PROVE  CallTypes'
<1>1. inC' = inC /\ thread' = thread /\ stack' = stack OBVIOUS
<1>2. (\A c \in Callbacks : Wanted(c) => slotOf[c] # None)'
  BY <1>1 DEF CallTypes, Wanted
<1>3. (inC \subseteq {c \in Callbacks : slotOf[c] # None})' BY <1>1 DEF CallTypes
<1> QED BY <1>1, <1>2, <1>3 DEF CallTypes, At

LEMMA TypeStep ==
  ASSUME TypeOK, [Next]_vars
  PROVE  TypeOK'
<1>a. DataTypes /\ CallTypes BY TypeParts
<1>1. ASSUME NEW c \in Callbacks, NEW s \in Slots, NewCallback(c, s)
      PROVE  DataTypes' /\ CallTypes'
  <2>1. [function |-> c, errorFunction |-> c, cif |-> c] \in Info BY DEF Info
  <2>2. info' \in [Slots -> Info] BY <1>1, <1>a, <2>1 DEF NewCallback, DataTypes
  <2>3. s # None OBVIOUS
  <2>4. DataTypes' BY <1>1, <1>a, <2>2, <2>3 DEF NewCallback, Allocate, DataTypes
  <2>5. \A d \in Callbacks : slotOf[d] # None => slotOf'[d] # None
    BY <1>1, <1>a, <2>3 DEF NewCallback, DataTypes
  <2> QED BY <1>1, <1>a, <2>4, <2>5, CallsKept DEF NewCallback
<1>2. ASSUME NEW c \in Callbacks, NEW s \in Slots, PrepFails(c, s)
      PROVE  DataTypes' /\ CallTypes'
  <2>1. info' = [info EXCEPT ![s] = [info[s] EXCEPT !.function = c, !.errorFunction = c]]
    BY <1>2 DEF PrepFails
  <2>2. [info[s] EXCEPT !.function = c, !.errorFunction = c] \in Info
    BY <1>a, InfoTypes DEF DataTypes
  <2>3. info' \in [Slots -> Info] BY <1>a, <2>1, <2>2 DEF DataTypes
  <2>4. DataTypes' BY <1>2, <1>a, <2>3 DEF PrepFails, Allocate, DataTypes
  <2> QED BY <1>2, <1>a, <2>4, CallsKept DEF PrepFails
<1>3. ASSUME NEW c \in Callbacks, Collect(c) PROVE DataTypes' /\ CallTypes'
  <2> DEFINE s == slotOf[c]
  <2>1. info' = [info EXCEPT ![s] = [info[s] EXCEPT !.function = None]] /\ s \in Slots
    BY <1>3, <1>a DEF Collect, DataTypes
  <2>2. [info[s] EXCEPT !.function = None] \in Info
    BY <1>a, <2>1, InfoTypes DEF DataTypes
  <2>3. info' \in [Slots -> Info] BY <1>a, <2>1, <2>2 DEF DataTypes
  <2>4. DataTypes' BY <1>3, <1>a, <2>3 DEF Collect, DataTypes
  <2> QED BY <1>3, <1>a, <2>4, CallsKept DEF Collect
<1>4. ASSUME NEW c \in Callbacks, Refuse(c) \/ Forget(c) \/ CollectCif(c)
      PROVE  DataTypes' /\ CallTypes'
  <2>1. DataTypes' BY <1>4, <1>a DEF Refuse, Forget, CollectCif, DataTypes
  <2> QED BY <1>4, <1>a, <2>1, CallsKept DEF Refuse, Forget, CollectCif
<1>5. ASSUME NEW c \in Callbacks, Give(c) \/ Revoke(c) PROVE DataTypes' /\ CallTypes'
  <2>1. /\ UNCHANGED <<bufferVars, closureVars, handleVars, thread, stack, process, careful>>
        /\ inC' \subseteq inC \cup {c} /\ (c \in held \/ c \in inC)
    BY <1>5 DEF Give, Revoke
  <2>2. slotOf[c] # None BY <1>a, <2>1 DEF DataTypes, CallTypes
  <2>3. DataTypes' BY <1>a, <2>1 DEF DataTypes
  <2>4. (inC \subseteq {d \in Callbacks : slotOf[d] # None})'
    BY <1>a, <2>1, <2>2 DEF CallTypes
  <2>5. (\A d \in Callbacks : Wanted(d) => slotOf[d] # None)'
    BY <1>a, <2>1, <2>2 DEF CallTypes, Wanted
  <2> QED BY <1>a, <2>1, <2>3, <2>4, <2>5 DEF CallTypes, At
<1>6. CASE Crash
  <2>1. DataTypes' BY <1>6, <1>a DEF Crash, DataTypes
  <2> QED BY <1>6, <1>a, <2>1, CallsKept, TypePartsNext DEF Crash
<1>7. CASE Moves
  <2>1. DataTypes' BY <1>7, <1>a DEF Moves, CallSteps, DataTypes
  <2> QED BY <1>7, <2>1, TypePartsNext DEF Moves
<1>8. CASE UNCHANGED vars
  <2>1. DataTypes' BY <1>8, <1>a DEF vars, DataTypes
  <2> QED BY <1>8, <1>a, <2>1, CallsKept, TypePartsNext DEF vars
<1> QED BY <1>a, <1>1, <1>2, <1>3, <1>4, <1>5, <1>6, <1>7, <1>8, StepCases, TypePartsNext

-----------------------------------------------------------------------------
(* Closures and handles, whatever the program does *)

LEMMA OtherSteps ==
  ASSUME TypeOK, [Next]_vars
  PROVE  \/ \E c \in Callbacks : \/ Refuse(c) \/ Forget(c) \/ Collect(c) \/ CollectCif(c)
                                 \/ \E s \in Slots : NewCallback(c, s) \/ PrepFails(c, s)
         \/ CallSteps
<1>1. ASSUME NEW c \in Callbacks, Give(c) \/ Revoke(c) PROVE CallSteps
  BY <1>1 DEF Give, Revoke, CallSteps
<1>2. Crash \/ Moves \/ UNCHANGED vars => CallSteps BY DEF Crash, Moves, vars, CallSteps
<1> QED BY <1>1, <1>2, StepCases, TypeParts

LEMMA InfoStep ==
  ASSUME TypeOK, ClosureInv, InfoInv, [Next]_vars
  PROVE  InfoInv'
<1>1. ASSUME NEW c \in Callbacks, Refuse(c) PROVE InfoInv'
  BY <1>1 DEF Refuse, InfoInv, TypeOK, Info
<1>2. ASSUME NEW c \in Callbacks, NEW s \in Slots, NewCallback(c, s) PROVE InfoInv'
  BY <1>2 DEF NewCallback, Allocate, InfoInv, TypeOK, Info
<1>3. ASSUME NEW c \in Callbacks, NEW s \in Slots, PrepFails(c, s) PROVE InfoInv'
  BY <1>3 DEF PrepFails, Allocate, InfoInv, TypeOK, Info
<1>4. ASSUME NEW c \in Callbacks, Collect(c) PROVE InfoInv'
  BY <1>4 DEF Collect, InfoInv, TypeOK, Info
<1>5. ASSUME NEW c \in Callbacks, Forget(c) \/ CollectCif(c) PROVE InfoInv'
  BY <1>5 DEF Forget, CollectCif, InfoInv
<1>6. CASE CallSteps BY <1>6 DEF CallSteps, InfoInv
<1> QED BY <1>1, <1>2, <1>3, <1>4, <1>5, <1>6, OtherSteps

LEMMA ClosureStep ==
  ASSUME TypeOK, ClosureInv, [Next]_vars
  PROVE  ClosureInv'
<1>1. ASSUME NEW c \in Callbacks, Refuse(c) PROVE ClosureInv'
  BY <1>1 DEF Refuse, ClosureInv, TypeOK
<1>2. ASSUME NEW c \in Callbacks, NEW s \in Slots, NewCallback(c, s) PROVE ClosureInv'
  BY <1>2 DEF NewCallback, Allocate, ClosureInv, TypeOK
<1>3. ASSUME NEW c \in Callbacks, NEW s \in Slots, PrepFails(c, s) PROVE ClosureInv'
  BY <1>3 DEF PrepFails, Allocate, ClosureInv, TypeOK
<1>4. ASSUME NEW c \in Callbacks, Collect(c) PROVE ClosureInv'
  BY <1>4 DEF Collect, ClosureInv, TypeOK
<1>5. ASSUME NEW c \in Callbacks, Forget(c) \/ CollectCif(c) PROVE ClosureInv'
  BY <1>5 DEF Forget, CollectCif, CifReachable, ClosureInv
<1>6. CASE CallSteps BY <1>6 DEF CallSteps, ClosureInv
<1> QED BY <1>1, <1>2, <1>3, <1>4, <1>5, <1>6, OtherSteps

LEMMA HandleStep ==
  ASSUME TypeOK, ClosureInv, InfoInv, HandleInv, [Next]_vars
  PROVE  HandleInv'
<1>1. ASSUME NEW c \in Callbacks, Refuse(c) PROVE HandleInv'
  BY <1>1 DEF Refuse, HandleInv
<1>2. ASSUME NEW c \in Callbacks, NEW s \in Slots, NewCallback(c, s) PROVE HandleInv'
  BY <1>2 DEF NewCallback, Allocate, HandleInv, TypeOK
<1>3. ASSUME NEW c \in Callbacks, NEW s \in Slots, PrepFails(c, s) PROVE HandleInv'
  BY <1>3 DEF PrepFails, Allocate, HandleInv, TypeOK, Info
<1>4. ASSUME NEW c \in Callbacks, Collect(c) PROVE HandleInv'
  BY <1>4 DEF Collect, HandleInv, InfoInv, TypeOK, Info
<1>5. ASSUME NEW c \in Callbacks, Forget(c) \/ CollectCif(c) PROVE HandleInv'
  BY <1>5 DEF Forget, CollectCif, HandleInv
<1>6. CASE CallSteps BY <1>6 DEF CallSteps, HandleInv
<1> QED BY <1>1, <1>2, <1>3, <1>4, <1>5, <1>6, OtherSteps

LEMMA ClosureInit == Init => ClosureInv /\ InfoInv /\ HandleInv
BY DEF Init, ClosureInv, InfoInv, HandleInv

ClosureIInv == TypeOK /\ ClosureInv /\ InfoInv /\ HandleInv

(* What holds of the closures whatever the program does.                    *)
LEMMA ClosureIInvHolds == Spec => []ClosureIInv
<1>1. Init => ClosureIInv BY TypeInit, ClosureInit DEF ClosureIInv
<1>2. ClosureIInv /\ [Next]_vars => ClosureIInv'
  BY TypeStep, ClosureStep, InfoStep, HandleStep DEF ClosureIInv
<1> QED BY <1>1, <1>2, PTL DEF Spec

(* Type correctness.                                                        *)
THEOREM ClosureTypes == Spec => []TypeOK
<1>1. ClosureIInv => TypeOK BY DEF ClosureIInv
<1> QED BY <1>1, ClosureIInvHolds, PTL

(* However often closure memory is freed and handed out again, and whatever *)
(* the program drops: a closure in use belongs to one live Buffer, carries  *)
(* that callback's function, handles and cif, and is freed with it.         *)
THEOREM ClosuresOwned == Spec => []ClosureInv
<1>1. ClosureIInv => ClosureInv BY DEF ClosureIInv
<1> QED BY <1>1, ClosureIInvHolds, PTL

(* No closure, freed ones included, refers to a deleted handle, although    *)
(* its memory is handed out again and callbacks fail to be made.            *)
THEOREM HandlesNeverDangle == Spec => []HandleInv
<1>1. ClosureIInv => HandleInv BY DEF ClosureIInv
<1> QED BY <1>1, ClosureIInvHolds, PTL

-----------------------------------------------------------------------------
(* Careful programs *)

(* Calls in progress use the cif of their own callback.                     *)
OwnCifs == /\ \A i \in 1..Len(stack) : stack[i].cif = stack[i].meant
           /\ \A t \in Threads : ~At(t, "none") => thread[t].cif = thread[t].meant

CarefulIInv == ClosureIInv /\ CarefulInv /\ OwnFunction /\ NoCrash
               /\ (careful => OwnCifs)

(* The closure of a pointer that C may still use is there, with all that a   *)
(* call of it needs from its start to its end.                              *)
LEMMA WantedWorks ==
  ASSUME ClosureIInv, CarefulInv, careful, NEW c \in Callbacks, Wanted(c)
  PROVE  /\ ~Freed(c) /\ c \in cifs /\ ~UnsafeStart(c)
         /\ \A t : ~Dangles(c, t)
         /\ Closure(c).function = c /\ Closure(c).cif = c
         /\ Closure(c).errorFunction \in errorFunctions
<1>1. c \in held /\ buffer[c] = "live" BY DEF CarefulInv, ClosureIInv, TypeOK
<1>2. /\ c \in functions /\ c \in errorFunctions /\ c \in cifs
      /\ info[slotOf[c]] = [function |-> c, errorFunction |-> c, cif |-> c]
  BY <1>1 DEF ClosureIInv, ClosureInv
<1> QED BY <1>1, <1>2 DEF Freed, Closure, UnsafeStart, Dangles

(* A call that starts on the closure of its own callback.                   *)
LEMMA DispatchOwn ==
  ASSUME ClosureIInv, RunsOwn, OwnCifs, NEW c \in Callbacks, Wanted(c),
         NEW t \in OrNone(Threads), Closure(c).function = c, Dispatch(c, c, t)
  PROVE  RunsOwn' /\ \A i \in 1..Len(stack') : stack'[i].cif = stack'[i].meant
<1> DEFINE fr == [meant |-> c, cif |-> c, runs |-> c, by |-> t]
<1>1. DataTypes /\ CallTypes BY TypeParts DEF ClosureIInv
<1>2. slotOf[c] \in Slots /\ stack \in Seq(Frame) BY <1>1 DEF DataTypes, CallTypes
<1>3. /\ Len(stack') = Len(stack) + 1 /\ stack'[Len(stack) + 1] = fr
      /\ \A i \in 1..Len(stack) : stack'[i] = stack[i]
  BY <1>1, <1>2, DispatchFrames
<1>4. fr.meant = c /\ fr.cif = c /\ fr.runs = c OBVIOUS
<1> HIDE DEF fr
<1>5. \A i \in 1..Len(stack') : i = Len(stack) + 1 \/ i \in 1..Len(stack) BY <1>2, <1>3
<1> QED BY <1>3, <1>4, <1>5 DEF RunsOwn, OwnCifs

(* What a careful program gets.                                             *)
Kept == /\ \A c \in Callbacks : Wanted(c) => c \in held
        /\ RunsOwn /\ OwnCifs
        /\ process = "up"

(* ... and keeps when calls start, go on and end.                           *)
LEMMA MovesKeep ==
  ASSUME Kept, Moves, RunsOwn', OwnCifs'
  PROVE  Kept'
<1>1. \A c \in Callbacks : Wanted(c)' => c \in held' BY DEF Moves, CallSteps, Kept
<1> QED BY <1>1 DEF Kept, Moves

(* Steps that start no call and end none.                                   *)
LEMMA CallsStay ==
  ASSUME Kept, UNCHANGED <<thread, stack, process>>,
         \A c \in Callbacks : Wanted(c)' => c \in held'
  PROVE  Kept'
<1>1. RunsOwn' BY DEF Kept, RunsOwn
<1>2. OwnCifs' BY DEF Kept, OwnCifs, At
<1> QED BY <1>1, <1>2 DEF Kept

LEMMA CarefulStep ==
  ASSUME CarefulIInv, careful, [Next]_vars, careful'
  PROVE  Kept'
<1>a. DataTypes /\ CallTypes /\ Kept /\ ClosureIInv /\ CarefulInv
  BY TypeParts DEF CarefulIInv, ClosureIInv, CarefulInv, OwnFunction, NoCrash, Kept
<1>b. stack \in Seq(Frame) /\ thread \in [Threads -> Call] BY <1>a DEF CallTypes
<1>1. ASSUME NEW c \in Callbacks, Refuse(c) \/ Give(c) \/ Revoke(c) \/ Forget(c)
                                  \/ Collect(c) \/ CollectCif(c) PROVE Kept'
  <2>1. UNCHANGED <<thread, stack, process>>
    BY <1>1 DEF Refuse, Give, Revoke, Forget, Collect, CollectCif
  <2>2. \A d \in Callbacks : Wanted(d)' => d \in held'
    BY <1>1, <1>a DEF Refuse, Give, Revoke, Forget, Collect, CollectCif, Kept, Wanted
  <2> QED BY <1>a, <2>1, <2>2, CallsStay
<1>2. ASSUME NEW c \in Callbacks, NEW s \in Slots, NewCallback(c, s) \/ PrepFails(c, s)
      PROVE  Kept'
  <2>1. UNCHANGED <<thread, stack, process>> BY <1>2 DEF NewCallback, PrepFails
  <2>2. \A d \in Callbacks : Wanted(d)' => d \in held'
    BY <1>2, <1>a DEF NewCallback, PrepFails, Kept, Wanted
  <2> QED BY <1>a, <2>1, <2>2, CallsStay
<1>3. ASSUME NEW c \in Callbacks, InvokeOnMain(c) PROVE Kept'
  <2>1. Wanted(c) /\ c \in inC BY <1>3 DEF InvokeOnMain, Wanted
  <2>2. /\ ~UnsafeStart(c) /\ ~Dangles(c, None)
        /\ Closure(c).function = c /\ Closure(c).cif = c
    BY <1>a, <2>1, WantedWorks
  <2>3. Dispatch(c, Closure(c).cif, None) /\ UNCHANGED thread
    BY <1>3, <2>2 DEF InvokeOnMain
  <2>4. RunsOwn' /\ \A i \in 1..Len(stack') : stack'[i].cif = stack'[i].meant
    BY <1>a, <2>1, <2>2, <2>3, DispatchOwn DEF Kept
  <2>5. OwnCifs' BY <1>a, <2>3, <2>4 DEF OwnCifs, Kept, At
  <2>6. Moves BY <1>a, <2>1, <2>3, MainMoves
  <2> QED BY <1>a, <2>4, <2>5, <2>6, MovesKeep
<1>4. ASSUME NEW c \in Callbacks, NEW t \in Threads, InvokeOnThread(t, c) PROVE Kept'
  <2>1. Wanted(c) /\ c \in inC /\ At(t, "none") BY <1>4 DEF InvokeOnThread, Wanted
  <2>2. ~UnsafeStart(c) /\ Closure(c).cif = c BY <1>a, <2>1, WantedWorks
  <2> DEFINE call == [meant |-> c, cif |-> c, phase |-> "waiting"]
  <2>3. /\ thread' = [thread EXCEPT ![t] = call]
        /\ UNCHANGED <<bufferVars, closureVars, handleVars, inC, stack, process, careful>>
    BY <1>4, <2>2 DEF InvokeOnThread
  <2>4. Moves BY <1>a, <2>1, <2>2, <2>3, ThreadMoves DEF CallSteps
  <2>5. call.cif = call.meant OBVIOUS
  <2> HIDE DEF call
  <2>6. /\ thread'[t] = call /\ \A u \in Threads : u # t => thread'[u] = thread[u]
    BY <1>b, <2>3
  <2>7. OwnCifs' BY <1>a, <2>3, <2>5, <2>6 DEF OwnCifs, Kept, At
  <2>8. RunsOwn' BY <1>a, <2>3 DEF RunsOwn, Kept
  <2> QED BY <1>a, <2>4, <2>7, <2>8, MovesKeep
<1>5. ASSUME NEW t \in Threads, WatcherCallback(t) PROVE Kept'
  <2> DEFINE c == thread[t].meant
  <2>1. /\ c \in Callbacks /\ Wanted(c) /\ thread[t].cif = c
        /\ At(t, "waiting") /\ stack = <<>>
    BY <1>5, <1>a, FrameFacts DEF WatcherCallback, At, Kept, OwnCifs
  <2>2. ~Freed(c) /\ ~Dangles(c, t) /\ Closure(c).function = c
    BY <1>a, <2>1, WantedWorks
  <2>3. /\ Dispatch(c, thread[t].cif, t)
        /\ Goto(t, IF Closure(c).function = None THEN "leaving" ELSE "executing")
    BY <1>5, <2>2 DEF WatcherCallback
  <2>4. RunsOwn' /\ \A i \in 1..Len(stack') : stack'[i].cif = stack'[i].meant
    BY <1>a, <2>1, <2>2, <2>3, DispatchOwn DEF Kept
  <2>5. Moves BY <1>a, <2>1, <2>3, WatcherMoves
  <2>6. Goto(t, "executing") BY <2>1, <2>2, <2>3
  <2>7. /\ thread'[t].meant = thread[t].meant /\ thread'[t].cif = thread[t].cif
        /\ \A u \in Threads : u # t => thread'[u] = thread[u]
    BY <1>b, <2>6, GotoTypes
  <2>8. OwnCifs' BY <1>a, <2>1, <2>4, <2>7 DEF OwnCifs, Kept, At
  <2> QED BY <1>a, <2>4, <2>5, <2>8, MovesKeep
<1>6. CASE Return \/ ReportError
  <2> DEFINE f == stack[Len(stack)]
  <2>1. stack # <<>> /\ Last(stack) = f /\ Len(stack) \in 1..Len(stack)
    BY <1>6, <1>b DEF Return, ReportError, Last
  <2>2. /\ f.meant \in Callbacks /\ f.by \in OrNone(Threads) /\ Wanted(f.meant)
        /\ f.cif = f.meant
    BY <1>a, <2>1, FrameFacts DEF Kept, OwnCifs
  <2>3. /\ ~Freed(f.meant) /\ f.cif \in cifs
        /\ Closure(f.meant).errorFunction \in errorFunctions
    BY <1>a, <2>2, WantedWorks
  <2>4. Finish(Last(stack)) BY <1>6, <2>1, <2>3 DEF Return, ReportError, UnsafeEnd
  <2>5. Moves BY <1>a, <2>1, <2>4, FinishMoves
  <2>6. \A i \in 1..Len(stack') : i \in 1..Len(stack) /\ stack'[i] = stack[i]
    BY <1>b, <2>1, <2>4, FrontTypes DEF Finish
  <2>7. RunsOwn' BY <1>a, <2>6 DEF RunsOwn, Kept
  <2>8. \A u \in Threads : /\ thread'[u].meant = thread[u].meant
                           /\ thread'[u].cif = thread[u].cif
                           /\ At(u, "none")' <=> At(u, "none")
    <3>1. CASE f.by = None BY <2>1, <2>4, <3>1 DEF Finish, At
    <3>2. ASSUME NEW t \in Threads, f.by = t
          PROVE  \A u \in Threads : /\ thread'[u].meant = thread[u].meant
                                    /\ thread'[u].cif = thread[u].cif
                                    /\ At(u, "none")' <=> At(u, "none")
      <4>1. Goto(t, "leaving") BY <2>1, <2>4, <3>2 DEF Finish
      <4>2. At(t, "executing") BY <1>a, <2>1, <3>2 DEF CallTypes
      <4>3. /\ thread'[t].meant = thread[t].meant /\ thread'[t].cif = thread[t].cif
            /\ thread'[t].phase = "leaving"
            /\ \A u \in Threads : u # t => thread'[u] = thread[u]
        BY <1>b, <4>1, GotoTypes
      <4> QED BY <4>2, <4>3 DEF At
    <3> QED BY <2>2, <3>1, <3>2
  <2>9. OwnCifs' BY <1>a, <2>6, <2>8 DEF OwnCifs, Kept
  <2> QED BY <1>a, <2>5, <2>7, <2>9, MovesKeep
<1>7. ASSUME NEW t \in Threads, Leave(t) PROVE Kept'
  <2> DEFINE c == thread[t].meant
  <2>1. c \in Callbacks /\ Wanted(c) /\ thread[t].cif = c /\ At(t, "leaving")
    BY <1>7, <1>a, FrameFacts DEF Leave, At, Kept, OwnCifs
  <2>2. ~UnsafeEnd(thread[t]) BY <1>a, <2>1, WantedWorks DEF UnsafeEnd
  <2>3. /\ thread' = [thread EXCEPT ![t] = NoCall]
        /\ UNCHANGED <<bufferVars, closureVars, handleVars, inC, stack, process, careful>>
    BY <1>7, <2>2 DEF Leave
  <2>4. Moves BY <1>a, <2>1, <2>3, ThreadMoves DEF CallSteps
  <2>5. /\ thread'[t] = NoCall /\ \A u \in Threads : u # t => thread'[u] = thread[u]
    BY <1>b, <2>3
  <2>6. OwnCifs' BY <1>a, <2>3, <2>5 DEF OwnCifs, Kept, At, NoCall
  <2>7. RunsOwn' BY <1>a, <2>3 DEF RunsOwn, Kept
  <2> QED BY <1>a, <2>4, <2>6, <2>7, MovesKeep
<1>8. CASE UNCHANGED vars
  <2>1. \A c \in Callbacks : Wanted(c)' => c \in held'
    BY <1>8, <1>a DEF vars, Kept, Wanted
  <2> QED BY <1>8, <1>a, <2>1, CallsStay DEF vars
<1> QED BY <1>1, <1>2, <1>3, <1>4, <1>5, <1>6, <1>7, <1>8 DEF Next, Idle

(* A program that has not been careful never is again.                      *)
LEMMA CarefulBefore == ASSUME TypeOK, [Next]_vars, careful' PROVE careful
<1>1. ASSUME NEW c \in Callbacks,
             \/ Refuse(c) \/ Forget(c) \/ Collect(c) \/ CollectCif(c) \/ Give(c) \/ Revoke(c)
             \/ \E s \in Slots : NewCallback(c, s) \/ PrepFails(c, s)
      PROVE  careful
  BY <1>1 DEF Refuse, Give, Revoke, Forget, Collect, CollectCif, NewCallback, PrepFails
<1>2. Crash \/ Moves \/ UNCHANGED vars => careful BY DEF Crash, Moves, vars
<1> QED BY <1>1, <1>2, StepCases, TypeParts

LEMMA CarefulIInvHolds == Spec => []CarefulIInv
<1>1. Init => CarefulInv /\ OwnFunction /\ NoCrash /\ OwnCifs
  BY DEF Init, CarefulInv, Wanted, OwnFunction, RunsOwn, NoCrash, OwnCifs, At, NoCall
<1>2. CarefulIInv /\ [Next]_vars
        => (CarefulInv /\ OwnFunction /\ NoCrash /\ (careful => OwnCifs))'
  <2> SUFFICES ASSUME CarefulIInv, [Next]_vars, careful' PROVE Kept'
    BY DEF CarefulInv, OwnFunction, NoCrash, Kept
  <2> QED BY CarefulBefore, CarefulStep DEF CarefulIInv, ClosureIInv
<1>3. Init /\ ClosureIInv => CarefulIInv BY <1>1 DEF CarefulIInv
<1>4. CarefulIInv /\ [Next]_vars /\ ClosureIInv' => CarefulIInv'
  BY <1>2 DEF CarefulIInv
<1> QED BY <1>3, <1>4, ClosureIInvHolds, PTL DEF Spec

(* As long as the program keeps every Buffer until C can no longer call its *)
(* pointer and is back from the calls it has made, a call runs the function *)
(* its pointer was made for.                                                *)
THEOREM OwnFunctionHolds == Spec => []OwnFunction
<1>1. CarefulIInv => OwnFunction BY DEF CarefulIInv
<1> QED BY <1>1, CarefulIInvHolds, PTL

(* ... and nothing a call uses, from its start to libffi's return to C, the *)
(* report of an error included, is freed, collected or deleted, although    *)
(* other callbacks' memory is freed and used again meanwhile.               *)
THEOREM NoCrashHolds == Spec => []NoCrash
<1>1. CarefulIInv => NoCrash BY DEF CarefulIInv
<1> QED BY <1>1, CarefulIInvHolds, PTL
=============================================================================
