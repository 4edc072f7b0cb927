--------------------------- MODULE AsyncCallProofs ---------------------------
(* Proofs about AsyncCall, for any number of calls and pool threads.        *)
EXTENDS AsyncCall, TLAPS

USE NoneAssumption DEF Go, poolVars, nativeVars, memVars

(* The Buffers of a call are its own.                                       *)
LEMMA BuffersDistinct ==
  /\ Cif \in Buffers /\ FuncPtr \in Buffers
  /\ \A c \in Calls : Result(c) \in Buffers /\ ArgsList(c) \in Buffers
  /\ \A c, d \in Calls : /\ Result(c) = Result(d) => c = d
                         /\ ArgsList(c) = ArgsList(d) => c = d
                         /\ Result(c) # ArgsList(d)
                         /\ Result(c) # Cif /\ Result(c) # FuncPtr
                         /\ ArgsList(c) # Cif /\ ArgsList(c) # FuncPtr
BY DEF Buffers, Cif, FuncPtr, Result, ArgsList

(* Appending a new element to a sequence without repetitions.               *)
LEMMA AppendDistinct ==
  ASSUME NEW S, NEW q \in Seq(S), NEW x \in S,
         \A i, j \in 1..Len(q) : q[i] = q[j] => i = j,
         \A i \in 1..Len(q) : q[i] # x
  PROVE  /\ \A i, j \in 1..Len(Append(q, x)) :
              Append(q, x)[i] = Append(q, x)[j] => i = j
         /\ \A i \in 1..Len(Append(q, x)) :
              \/ Append(q, x)[i] = x
              \/ \E j \in 1..Len(q) : Append(q, x)[i] = q[j]
<1> DEFINE r == Append(q, x)
<1>1. Len(r) = Len(q) + 1 /\ r[Len(q) + 1] = x /\ Len(q) \in Nat OBVIOUS
<1>2. \A i \in 1..Len(q) : r[i] = q[i] OBVIOUS
<1>3. \A i \in 1..Len(r) : i \in 1..Len(q) \/ i = Len(q) + 1 BY <1>1
<1> HIDE DEF r
<1>4. ASSUME NEW i \in 1..Len(r), NEW j \in 1..Len(r), r[i] = r[j] PROVE i = j
  <2>1. CASE i \in 1..Len(q) /\ j \in 1..Len(q)
    <3>1. q[i] = q[j] BY <1>2, <1>4, <2>1
    <3> QED BY <2>1, <3>1
  <2>2. CASE i = Len(q) + 1 /\ j \in 1..Len(q)
    <3>1. q[j] = x BY <1>1, <1>2, <1>4, <2>2
    <3> QED BY <2>2, <3>1
  <2>3. CASE j = Len(q) + 1 /\ i \in 1..Len(q)
    <3>1. q[i] = x BY <1>1, <1>2, <1>4, <2>3
    <3> QED BY <2>3, <3>1
  <2> QED BY <1>3, <2>1, <2>2, <2>3
<1>5. ASSUME NEW i \in 1..Len(r) PROVE r[i] = x \/ \E j \in 1..Len(q) : r[i] = q[j]
  BY <1>1, <1>2, <1>3
<1> QED BY <1>4, <1>5 DEF r

LEMMA TypesStep ==
  ASSUME VarTypes, [Next]_vars
  PROVE  VarTypes'
<1> USE DEF VarTypes, Phases, Front
<1>1. ASSUME NEW c \in Calls, Refuse(c) \/ AllocBuffers(c) \/ MainStep(c)
      PROVE  VarTypes'
  <2>1. CASE Refuse(c) BY <2>1 DEF Refuse
  <2>2. CASE AllocBuffers(c)
    <3>1. mem' \in [Buffers -> {"unborn", "live", "freed"}]
      BY <2>2 DEF AllocBuffers
    <3>2. stack' \in Seq(Calls) /\ phase' \in [Calls -> Phases]
      BY <2>2 DEF AllocBuffers
    <3> QED BY <2>2, <3>1, <3>2 DEF AllocBuffers
  <2>3. CASE MarshalFails(c) BY <2>3 DEF MarshalFails
  <2>4. CASE FFICallAsync(c) BY <2>4 DEF FFICallAsync
  <2>5. CASE TickCallback(c) BY <2>5 DEF TickCallback
  <2>6. CASE Finish(c) BY <2>6 DEF Finish
  <2>7. CASE TickDone(c) BY <2>7 DEF TickDone
  <2> QED BY <1>1, <2>1, <2>2, <2>3, <2>4, <2>5, <2>6, <2>7 DEF MainStep
<1>2. ASSUME NEW w \in Workers, WorkerStart(w) PROVE VarTypes'
  BY <1>2 DEF WorkerStart
<1>3. ASSUME NEW w \in Workers, AsyncFFICall(w) PROVE VarTypes'
  <2> DEFINE c == worker[w]
  <2>1. c \in Calls BY <1>3 DEF AsyncFFICall
  <2>2. phase' \in [Calls -> Phases] BY <1>3, <2>1 DEF AsyncFFICall
  <2>3. content' \in [Buffers -> Calls \cup {None}] BY <1>3, <2>1 DEF AsyncFFICall
  <2>4. doneQueue' \in Seq(Calls) BY <1>3, <2>1 DEF AsyncFFICall
  <2>5. worker' \in [Workers -> Calls \cup {None}] BY <1>3 DEF AsyncFFICall
  <2> QED BY <1>3, <2>2, <2>3, <2>4, <2>5 DEF AsyncFFICall
<1>4. CASE CallClosure
  <2> DEFINE c == Head(doneQueue)
  <2>1. c \in Calls BY <1>4 DEF CallClosure
  <2>2. content[Result(c)] \in Calls \cup {None} BY <2>1, BuffersDistinct
  <2>3. PICK x \in Calls \cup {"badarg", "exception", None} :
          delivered' = [delivered EXCEPT ![c] = Append(@, x)]
    BY <1>4, <2>2 DEF CallClosure, Answer
  <2>4. delivered' \in [Calls -> Seq(Calls \cup {"badarg", "exception", None})]
    BY <2>1, <2>3
  <2>5. phase' \in [Calls -> Phases] BY <1>4, <2>1 DEF CallClosure
  <2>6. doneQueue' \in Seq(Calls) /\ stack' \in Seq(Calls) BY <1>4, <2>1 DEF CallClosure
  <2> QED BY <1>4, <2>4, <2>5, <2>6 DEF CallClosure
<1>5. CASE DropProxy \/ Collect \/ LoopExit \/ UNCHANGED vars
  BY <1>5 DEF DropProxy, Collect, LoopExit, vars
<1> QED BY <1>1, <1>2, <1>3, <1>4, <1>5 DEF Next, PoolStep, Over

LEMMA DoneStep ==
  ASSUME VarTypes, DoneInv, [Next]_vars
  PROVE  DoneInv'
<1> USE DEF VarTypes, DoneInv
<1>1. ASSUME NEW c \in Calls, Refuse(c) \/ AllocBuffers(c) \/ MainStep(c)
      PROVE  DoneInv'
  <2>1. CASE Refuse(c) BY <2>1 DEF Refuse
  <2>2. CASE AllocBuffers(c) BY <2>2 DEF AllocBuffers
  <2>3. CASE MarshalFails(c)
    <3>1. doneQueue' = doneQueue /\ phase' = [phase EXCEPT ![c] = "nextTick"]
      BY <2>3 DEF MarshalFails
    <3>2. phase[c] = "marshal" BY <2>3 DEF MarshalFails
    <3> QED BY <3>1, <3>2
  <2>4. CASE FFICallAsync(c) BY <2>4 DEF FFICallAsync
  <2>5. CASE TickCallback(c) BY <2>5 DEF TickCallback
  <2>6. CASE Finish(c) BY <2>6 DEF Finish
  <2>7. CASE TickDone(c) BY <2>7 DEF TickDone
  <2> QED BY <1>1, <2>1, <2>2, <2>3, <2>4, <2>5, <2>6, <2>7 DEF MainStep
<1>2. ASSUME NEW w \in Workers, WorkerStart(w) PROVE DoneInv'
  BY <1>2 DEF WorkerStart
<1>3. ASSUME NEW w \in Workers, AsyncFFICall(w) PROVE DoneInv'
  <2> DEFINE c == worker[w]
  <2>1. c \in Calls /\ phase[c] = "running" /\ phase'[c] \in {"ran", "threw"}
    BY <1>3 DEF AsyncFFICall
  <2>2. \A d \in Calls : d # c => phase'[d] = phase[d]
    BY <1>3, <2>1 DEF AsyncFFICall
  <2>3. doneQueue' = Append(doneQueue, c) BY <1>3 DEF AsyncFFICall
  <2>4. \A i \in 1..Len(doneQueue) : doneQueue[i] \in Calls
    OBVIOUS
  <2> HIDE DEF c
  <2>5. \A i \in 1..Len(doneQueue) : doneQueue[i] # c
    BY <2>1
  <2>6. /\ \A i, j \in 1..Len(doneQueue') : doneQueue'[i] = doneQueue'[j] => i = j
        /\ \A i \in 1..Len(doneQueue') :
             doneQueue'[i] = c \/ \E j \in 1..Len(doneQueue) : doneQueue'[i] = doneQueue[j]
    BY <2>1, <2>3, <2>5, AppendDistinct
  <2>7. \A i \in 1..Len(doneQueue) : phase'[doneQueue[i]] \in {"ran", "threw"}
    BY <2>2, <2>4, <2>5
  <2> QED BY <2>1, <2>6, <2>7
<1>4. CASE CallClosure
  <2> DEFINE c == Head(doneQueue)
              n == Len(doneQueue)
  <2>1. /\ doneQueue # <<>> /\ doneQueue' = Tail(doneQueue)
        /\ phase' = [phase EXCEPT ![c] = "callback"]
    BY <1>4 DEF CallClosure
  <2>2. n \in Nat /\ n >= 1 /\ c = doneQueue[1] BY <2>1
  <2>3. /\ Len(doneQueue') = n - 1
        /\ \A i \in 1..(n - 1) : /\ i + 1 \in 1..n
                                 /\ doneQueue'[i] = doneQueue[i + 1]
                                 /\ doneQueue[i + 1] \in Calls
    BY <2>1, <2>2
  <2>4. phase \in [Calls -> Phases] /\ DoneInv OBVIOUS
  <2> HIDE DEF c, n, VarTypes, DoneInv
  <2>5. \A i, j \in 1..(n - 1) : doneQueue'[i] = doneQueue'[j] => i = j
    BY <2>2, <2>3, <2>4 DEF DoneInv, n
  <2>6. \A i \in 1..(n - 1) : doneQueue'[i] # c
    BY <2>2, <2>3, <2>4 DEF DoneInv, n
  <2>7. \A i \in 1..(n - 1) : phase[doneQueue'[i]] \in {"ran", "threw"}
    BY <2>2, <2>3, <2>4 DEF DoneInv, n
  <2>8. \A i \in 1..(n - 1) : phase'[doneQueue'[i]] = phase[doneQueue'[i]]
    BY <2>1, <2>3, <2>4, <2>6
  <2> QED BY <2>3, <2>5, <2>7, <2>8 DEF DoneInv
<1>5. CASE DropProxy \/ Collect \/ LoopExit \/ UNCHANGED vars
  BY <1>5 DEF DropProxy, Collect, LoopExit, vars
<1> QED BY <1>1, <1>2, <1>3, <1>4, <1>5 DEF Next, PoolStep, Over

LEMMA NativeStep ==
  ASSUME VarTypes, DoneInv, NativeMemory, [Next]_vars
  PROVE  NativeMemory'
<1> USE DEF VarTypes, DoneInv, NativeMemory
<1>1. ASSUME NEW c \in Calls, Refuse(c) \/ AllocBuffers(c) \/ MainStep(c)
      PROVE  NativeMemory'
  <2>1. CASE Refuse(c) BY <2>1 DEF Refuse
  <2>2. CASE AllocBuffers(c) BY <2>2 DEF AllocBuffers
  <2>3. CASE MarshalFails(c) BY <2>3 DEF MarshalFails
  <2>4. CASE FFICallAsync(c) BY <2>4 DEF FFICallAsync
  <2>5. CASE TickCallback(c) BY <2>5 DEF TickCallback
  <2>6. CASE Finish(c) BY <2>6 DEF Finish
  <2>7. CASE TickDone(c) BY <2>7 DEF TickDone
  <2> QED BY <1>1, <2>1, <2>2, <2>3, <2>4, <2>5, <2>6, <2>7 DEF MainStep
<1>2. ASSUME NEW w \in Workers, WorkerStart(w) PROVE NativeMemory'
  BY <1>2 DEF WorkerStart
<1>3. ASSUME NEW w \in Workers, AsyncFFICall(w) PROVE NativeMemory'
  BY <1>3 DEF AsyncFFICall
<1>4. CASE CallClosure BY <1>4 DEF CallClosure
<1>5. CASE DropProxy \/ Collect \/ LoopExit \/ UNCHANGED vars
  BY <1>5 DEF DropProxy, Collect, LoopExit, vars
<1> QED BY <1>1, <1>2, <1>3, <1>4, <1>5 DEF Next, PoolStep, Over

(* ReachableAlive spelt out, root by root.                                  *)
RootsAlive ==
  /\ proxyHeld => mem[Cif] = "live" /\ mem[FuncPtr] = "live"
  /\ \A c \in persistent : \A b \in Uses(c) : mem[b] = "live"
  /\ \A c \in Calls : phase[c] = "marshal" => \A b \in Uses(c) : mem[b] = "live"

LEMMA AliveByRoot == ReachableAlive <=> RootsAlive
BY DEF RootsAlive, ReachableAlive, Reachable, Uses, Captured

LEMMA ReachableStep ==
  ASSUME VarTypes, ReachableAlive, NativeMemory, [Next]_vars
  PROVE  ReachableAlive'
<1> SUFFICES RootsAlive'
  BY DEF RootsAlive, ReachableAlive, Reachable, Uses, Captured, Cif, FuncPtr, Result, ArgsList
<1> USE DEF VarTypes, RootsAlive
<1>a. /\ proxyHeld => mem[Cif] = "live" /\ mem[FuncPtr] = "live"
      /\ \A c \in persistent : \A b \in Uses(c) : mem[b] = "live"
      /\ \A c \in Calls : phase[c] = "marshal" => \A b \in Uses(c) : mem[b] = "live"
  BY AliveByRoot DEF RootsAlive
<1>b. persistent \subseteq Calls OBVIOUS
<1>1. ASSUME NEW c \in Calls, Refuse(c) \/ AllocBuffers(c) \/ MainStep(c)
      PROVE  RootsAlive'
  <2>1. CASE Refuse(c) BY <1>a, <2>1 DEF Refuse
  <2>2. CASE AllocBuffers(c)
    <3>1. \A b \in Buffers : mem[b] = "live" => mem'[b] = "live"
      BY <2>2 DEF AllocBuffers
    <3>2. mem'[Result(c)] = "live" /\ mem'[ArgsList(c)] = "live"
      BY <2>2, BuffersDistinct DEF AllocBuffers
    <3>3. mem'[Cif] = "live" /\ mem'[FuncPtr] = "live"
      BY <1>a, <2>2, <3>1, BuffersDistinct DEF AllocBuffers
    <3>4. \A d \in Calls : \A b \in Uses(d) : b \in Buffers
      BY BuffersDistinct DEF Uses
    <3>5. \A b \in Uses(c) : mem'[b] = "live" BY <3>2, <3>3 DEF Uses
    <3>6. \A d \in Calls : phase'[d] = "marshal" => phase[d] = "marshal" \/ d = c
      BY <2>2 DEF AllocBuffers
    <3>7. persistent' = persistent BY <2>2 DEF AllocBuffers
    <3> QED BY <1>a, <1>b, <3>1, <3>3, <3>4, <3>5, <3>6, <3>7
  <2>3. CASE MarshalFails(c) BY <1>a, <2>3 DEF MarshalFails
  <2>4. CASE FFICallAsync(c) BY <1>a, <2>4 DEF FFICallAsync
  <2>5. CASE TickCallback(c) BY <1>a, <2>5 DEF TickCallback
  <2>6. CASE Finish(c) BY <1>a, <2>6 DEF Finish
  <2>7. CASE TickDone(c) BY <1>a, <2>7 DEF TickDone
  <2> QED BY <1>1, <2>1, <2>2, <2>3, <2>4, <2>5, <2>6, <2>7 DEF MainStep
<1>2. ASSUME NEW w \in Workers, WorkerStart(w) PROVE RootsAlive'
  BY <1>a, <1>2 DEF WorkerStart
<1>3. ASSUME NEW w \in Workers, AsyncFFICall(w) PROVE RootsAlive'
  BY <1>a, <1>3 DEF AsyncFFICall
<1>4. CASE CallClosure
  <2>1. \A d \in Calls : phase'[d] = "marshal" => phase[d] = "marshal"
    BY <1>4 DEF CallClosure
  <2>2. persistent' = persistent /\ mem' = mem /\ proxyHeld' = proxyHeld
    BY <1>4 DEF CallClosure
  <2> QED BY <1>a, <2>1, <2>2
<1>5. CASE Collect
  <2>0. Reachable \subseteq Buffers BY BuffersDistinct DEF Reachable, Captured, Uses
  <2>1. \A b \in Reachable : mem'[b] = mem[b] BY <1>5, <2>0 DEF Collect
  <2>2. \A b \in Reachable : mem'[b] = "live" BY <2>1 DEF ReachableAlive
  <2>3. proxyHeld' = proxyHeld /\ persistent' = persistent /\ phase' = phase
    BY <1>5 DEF Collect
  <2> QED BY <2>2, <2>3 DEF Reachable, Captured, Uses
<1>6. CASE DropProxy \/ LoopExit \/ UNCHANGED vars
  BY <1>a, <1>6 DEF DropProxy, LoopExit, vars
<1> HIDE DEF RootsAlive
<1> QED BY <1>1, <1>2, <1>3, <1>4, <1>5, <1>6 DEF Next, PoolStep, Over

LEMMA DeliveryStep ==
  ASSUME VarTypes, DoneInv, DeliveryInv, [Next]_vars
  PROVE  DeliveryInv'
<1> USE DEF VarTypes
<1>1. ASSUME NEW c \in Calls, Refuse(c) \/ AllocBuffers(c) \/ MainStep(c)
      PROVE  DeliveryInv'
  <2> USE DEF DeliveryInv, Result
  <2>1. CASE Refuse(c) BY <2>1 DEF Refuse
  <2>2. CASE AllocBuffers(c) BY <2>2 DEF AllocBuffers
  <2>3. CASE MarshalFails(c) BY <2>3 DEF MarshalFails
  <2>4. CASE FFICallAsync(c) BY <2>4 DEF FFICallAsync
  <2>5. CASE TickCallback(c)
    <3>1. delivered[c] = <<>> BY <2>5 DEF TickCallback
    <3>2. delivered'[c] = <<"badarg">> BY <2>5, <3>1 DEF TickCallback
    <3>3. \A d \in Calls : d # c => delivered'[d] = delivered[d] /\ phase'[d] = phase[d]
      BY <2>5 DEF TickCallback
    <3>4. phase'[c] = "tick" /\ content' = content BY <2>5 DEF TickCallback
    <3> QED BY <3>2, <3>3, <3>4
  <2>6. CASE Finish(c) BY <2>6 DEF Finish
  <2>7. CASE TickDone(c) BY <2>7 DEF TickDone
  <2> QED BY <1>1, <2>1, <2>2, <2>3, <2>4, <2>5, <2>6, <2>7 DEF MainStep
<1>2. ASSUME NEW w \in Workers, WorkerStart(w) PROVE DeliveryInv'
  BY <1>2 DEF WorkerStart, DeliveryInv, Result
<1>3. ASSUME NEW w \in Workers, AsyncFFICall(w) PROVE DeliveryInv'
  <2> DEFINE c == worker[w]
  <2>1. c \in Calls /\ phase[c] = "running" BY <1>3 DEF AsyncFFICall
  <2>2. \/ phase'[c] = "ran" /\ content' = [content EXCEPT ![Result(c)] = c]
        \/ phase'[c] = "threw" /\ content' = content
    BY <1>3, <2>1 DEF AsyncFFICall
  <2>3. \A d \in Calls : d # c => phase'[d] = phase[d]
    BY <1>3, <2>1 DEF AsyncFFICall
  <2>4. delivered' = delivered BY <1>3 DEF AsyncFFICall
  <2> HIDE DEF c
  <2>5. \A d \in Calls : d # c => content'[Result(d)] = content[Result(d)]
    BY <2>1, <2>2, BuffersDistinct
  <2>6. phase'[c] = "ran" => content'[Result(c)] = c
    BY <2>1, <2>2, BuffersDistinct
  <2> QED BY <2>1, <2>2, <2>3, <2>4, <2>5, <2>6 DEF DeliveryInv, Result
<1>4. CASE CallClosure
  <2> DEFINE c == Head(doneQueue)
  <2>1. c \in Calls /\ phase[c] \in {"ran", "threw"}
    BY <1>4 DEF CallClosure, DoneInv
  <2>2. delivered[c] = <<>> /\ (phase[c] = "ran" => content[Result(c)] = c)
    BY <2>1 DEF DeliveryInv, Result
  <2>3. /\ phase' = [phase EXCEPT ![c] = "callback"]
        /\ delivered' = [delivered EXCEPT ![c] = Append(@, Answer(c))]
        /\ content' = content
    BY <1>4 DEF CallClosure
  <2> HIDE DEF c
  <2>4. PICK x \in {c, "badarg", "exception"} : delivered' = [delivered EXCEPT ![c] = <<x>>]
    <3>1. CASE phase[c] = "threw"
      <4>1. delivered' = [delivered EXCEPT ![c] = <<"exception">>]
        BY <2>1, <2>2, <2>3, <3>1 DEF Answer
      <4> QED BY <4>1
    <3>2. CASE phase[c] = "ran"
      <4>1. Answer(c) = c
        BY <2>2, <3>2 DEF Answer
      <4>2. delivered' = [delivered EXCEPT ![c] = Append(<<>>, c)]
        BY <2>2, <2>3, <4>1
      <4>3. Append(<<>>, c) = <<c>> OBVIOUS
      <4> QED BY <4>2, <4>3
    <3> QED BY <2>1, <3>1, <3>2
  <2>5. delivered'[c] = <<x>> /\ phase'[c] = "callback" BY <2>1, <2>3, <2>4
  <2>6. \A d \in Calls : d # c => delivered'[d] = delivered[d] /\ phase'[d] = phase[d]
    BY <2>1, <2>3, <2>4
  <2>7. \E y \in {c, "badarg", "exception"} : delivered'[c] = <<y>> BY <2>5
  <2> QED BY <2>1, <2>3, <2>5, <2>6, <2>7 DEF DeliveryInv, Result
<1>5. CASE DropProxy \/ Collect \/ LoopExit \/ UNCHANGED vars
  BY <1>5 DEF DropProxy, Collect, LoopExit, vars, DeliveryInv, Result
<1> QED BY <1>1, <1>2, <1>3, <1>4, <1>5 DEF Next, PoolStep, Over

LEMMA AsyncInit == Init => AsyncInv
<1> SUFFICES ASSUME Init PROVE AsyncInv OBVIOUS
<1> USE DEF Init
<1>1. VarTypes BY DEF VarTypes, Phases
<1>2. DoneInv /\ NativeMemory BY DEF DoneInv, NativeMemory
<1>3. ReachableAlive
  BY BuffersDistinct DEF ReachableAlive, Reachable
<1>4. DeliveryInv BY DEF DeliveryInv
<1> QED BY <1>1, <1>2, <1>3, <1>4 DEF AsyncInv

(* AsyncInv is an inductive invariant of proxy.async: it is what the        *)
(* closure, the parameters and the Buffers of FFICallAsync rely on.         *)
THEOREM AsyncCorrect == Spec => []AsyncInv
<1>1. AsyncInv /\ [Next]_vars => AsyncInv'
  BY TypesStep, DoneStep, NativeStep, ReachableStep, DeliveryStep DEF AsyncInv
<1> QED BY AsyncInit, <1>1, PTL DEF Spec

(* No Buffer a pool thread has the address of is ever collected, however    *)
(* the collector, the pool and the program's references interleave.         *)
THEOREM BuffersAliveHolds == Spec => []BuffersAlive
<1>1. AsyncInv => BuffersAlive
  BY DEF AsyncInv, NativeMemory, ReachableAlive, Reachable, Captured, Uses, BuffersAlive
<1> QED BY <1>1, AsyncCorrect, PTL

(* A callback only ever gets the result of its own call or an error.        *)
THEOREM OwnResultHolds == Spec => []OwnResult
<1>1. AsyncInv => OwnResult
  <2> SUFFICES ASSUME AsyncInv, NEW c \in Calls, NEW i \in 1..Len(delivered[c])
               PROVE  delivered[c][i] \in {c, "badarg", "exception"}
    BY DEF OwnResult
  <2>1. CASE delivered[c] = <<>> BY <2>1
  <2>2. CASE \E x \in {c, "badarg", "exception"} : delivered[c] = <<x>> BY <2>2
  <2> QED BY <2>1, <2>2 DEF AsyncInv, DeliveryInv
<1> QED BY <1>1, AsyncCorrect, PTL

(* A callback is called at most once, and exactly once when it is over.     *)
THEOREM CalledOnceHolds == Spec => []CalledOnce
<1>1. AsyncInv => CalledOnce
  <2> SUFFICES ASSUME AsyncInv, NEW c \in Calls
               PROVE  Len(delivered[c]) =< 1 /\ (phase[c] = "done" => Len(delivered[c]) = 1)
    BY DEF CalledOnce
  <2>1. CASE delivered[c] = <<>> /\ phase[c] # "done" BY <2>1
  <2>2. CASE \E x \in {c, "badarg", "exception"} : delivered[c] = <<x>> BY <2>2
  <2> QED BY <2>1, <2>2 DEF AsyncInv, DeliveryInv
<1> QED BY <1>1, AsyncCorrect, PTL

(* The Persistent, the parameters and the request are there exactly from    *)
(* FFICallAsync to the end of FinishAsyncFFICall.                           *)
THEOREM NativeMemoryHolds == Spec => []NativeMemory
<1>1. AsyncInv => NativeMemory BY DEF AsyncInv
<1> QED BY <1>1, AsyncCorrect, PTL

-----------------------------------------------------------------------------
(* The stack: a call has at most one frame, and only the innermost frame    *)
(* can be one that is marshalling.                                          *)
JsPhases == {"marshal", "tick", "callback"}
OnStack(c) == phase[c] \in JsPhases

StackInv ==
  /\ \A i \in 1..Len(stack) : OnStack(stack[i])
  /\ \A c \in Calls : OnStack(c) => \E i \in 1..Len(stack) : stack[i] = c
  /\ \A i, j \in 1..Len(stack) : stack[i] = stack[j] => i = j
  /\ \A i \in 1..Len(stack) : phase[stack[i]] = "marshal" => i = Len(stack)

(* A step that changes neither the stack nor who has a frame.               *)
LEMMA StackStays ==
  ASSUME VarTypes, StackInv, stack' = stack,
         \A d \in Calls : \/ phase'[d] = phase[d]
                          \/ ~OnStack(d) /\ phase'[d] \in {"refused", "running", "ran", "threw"}
  PROVE  StackInv'
<1>1. \A i \in 1..Len(stack) : stack[i] \in Calls BY DEF VarTypes
<1> QED BY <1>1 DEF StackInv, OnStack, JsPhases

(* The only frame of an empty or emptied stack.                             *)
LEMMA FirstFrame ==
  ASSUME VarTypes, StackInv, stack = <<>>, NEW c \in Calls, NEW p \in {"tick", "callback"},
         phase' = [phase EXCEPT ![c] = p], stack' = <<c>>
  PROVE  StackInv'
<1>1. Len(stack) = 0 /\ Len(stack') = 1 /\ stack'[1] = c OBVIOUS
<1>2. \A d \in Calls : ~OnStack(d) BY <1>1 DEF StackInv
<1>3. phase'[c] = p /\ \A d \in Calls : d # c => phase'[d] = phase[d] BY DEF VarTypes
<1> QED BY <1>1, <1>2, <1>3 DEF StackInv, OnStack, JsPhases

LEMMA LastFrame ==
  ASSUME VarTypes, StackInv, NEW c \in Calls, stack = <<c>>,
         phase' = [phase EXCEPT ![c] = "done"], stack' = <<>>
  PROVE  StackInv'
<1>1. Len(stack) = 1 /\ Len(stack') = 0 /\ stack[1] = c OBVIOUS
<1>2. \A d \in Calls : OnStack(d) => d = c BY <1>1 DEF StackInv
<1>3. phase'[c] = "done" /\ \A d \in Calls : d # c => phase'[d] = phase[d] BY DEF VarTypes
<1> QED BY <1>1, <1>2, <1>3 DEF StackInv, OnStack, JsPhases

(* async() returns: its frame is the innermost one.                         *)
LEMMA AsyncReturns ==
  ASSUME VarTypes, StackInv, NEW c \in Calls, NEW p \in {"nextTick", "queued"},
         phase[c] = "marshal", phase' = [phase EXCEPT ![c] = p], stack' = Front(stack)
  PROVE  StackInv'
<1> DEFINE n == Len(stack)
<1>1. n \in Nat /\ stack[n] = c /\ n > 0
  <2>1. PICK i \in 1..n : stack[i] = c BY DEF StackInv, OnStack, JsPhases
  <2>2. i = n BY <2>1 DEF StackInv
  <2> QED BY <2>1, <2>2 DEF VarTypes
<1>2. Len(stack') = n - 1 /\ \A i \in 1..(n - 1) : stack'[i] = stack[i] /\ stack[i] \in Calls
  <2>1. stack \in Seq(Calls) /\ stack' = SubSeq(stack, 1, n - 1) BY DEF VarTypes, Front
  <2>2. n - 1 \in Nat /\ \A i \in 1..(n - 1) : i \in 1..n BY <1>1
  <2>3. \A i \in 1..n : stack[i] \in Calls BY <2>1
  <2> HIDE DEF n
  <2>4. Len(stack') = n - 1
    <3>1. \A m \in Nat : m =< Len(stack) => Len(SubSeq(stack, 1, m)) = m BY <2>1
    <3>2. n - 1 =< Len(stack) BY <1>1 DEF n
    <3> QED BY <2>1, <2>2, <3>1, <3>2
  <2>5. \A i \in 1..(n - 1) : stack'[i] = stack[i] BY <1>1, <2>1, <2>2 DEF n
  <2> QED BY <2>2, <2>3, <2>4, <2>5
<1>3. \A i \in 1..(n - 1) : stack[i] # c BY <1>1 DEF StackInv
<1>4. phase'[c] = p /\ \A d \in Calls : d # c => phase'[d] = phase[d] BY DEF VarTypes
<1>5. \A i \in 1..(n - 1) : phase[stack[i]] # "marshal" BY <1>1 DEF StackInv
<1>6. ~(OnStack(c)') BY <1>4 DEF OnStack, JsPhases
<1>7. ASSUME NEW d \in Calls, OnStack(d)' PROVE \E i \in 1..(n - 1) : stack'[i] = d
  <2>1. d # c /\ OnStack(d) BY <1>4, <1>6, <1>7 DEF OnStack, JsPhases
  <2>2. PICK i \in 1..n : stack[i] = d BY <2>1 DEF StackInv
  <2>3. i \in 1..(n - 1) BY <1>1, <2>1, <2>2
  <2> QED BY <1>2, <2>2, <2>3
<1>8. ASSUME NEW i \in 1..(n - 1) PROVE phase'[stack'[i]] \in JsPhases /\ phase'[stack'[i]] # "marshal"
  <2>1. i \in 1..n BY <1>1
  <2>2. OnStack(stack[i]) BY <2>1 DEF StackInv
  <2>3. phase'[stack[i]] = phase[stack[i]] BY <1>2, <1>3, <1>4
  <2> QED BY <1>2, <1>5, <2>2, <2>3 DEF OnStack, JsPhases
<1>9. \A i, j \in 1..(n - 1) : stack'[i] = stack'[j] => i = j BY <1>1, <1>2 DEF StackInv
<1> HIDE DEF n
<1> QED BY <1>2, <1>7, <1>8, <1>9 DEF StackInv, OnStack

LEMMA StackStep ==
  ASSUME VarTypes, DoneInv, StackInv, [Next]_vars
  PROVE  StackInv'
<1>1. ASSUME NEW c \in Calls, Refuse(c) \/ AllocBuffers(c) \/ MainStep(c)
      PROVE  StackInv'
  <2>1. CASE Refuse(c)
    <3>1. stack' = stack /\ phase[c] = "new" /\ phase' = [phase EXCEPT ![c] = "refused"]
      BY <2>1 DEF Refuse
    <3> QED BY <3>1, StackStays DEF OnStack, JsPhases, VarTypes
  <2>2. CASE AllocBuffers(c)
    <3> DEFINE n == Len(stack)
    <3>1. /\ phase[c] = "new" /\ phase' = [phase EXCEPT ![c] = "marshal"]
          /\ stack' = Append(stack, c) /\ (stack # <<>> => InCallback(stack[n]))
      BY <2>2 DEF AllocBuffers, CanRunJS, Last
    <3>2. phase'[c] = "marshal" /\ \A d \in Calls : d # c => phase'[d] = phase[d]
      BY <3>1 DEF VarTypes
    <3>3. /\ n \in Nat /\ Len(stack') = n + 1 /\ stack'[n + 1] = c
          /\ \A i \in 1..n : stack'[i] = stack[i] /\ stack[i] \in Calls
      BY <3>1 DEF VarTypes
    <3>4. \A i \in 1..n : OnStack(stack[i]) /\ stack[i] # c
      BY <3>1 DEF StackInv, OnStack, JsPhases
    <3>5. \A i \in 1..n : phase[stack[i]] # "marshal"
      BY <3>1, <3>3 DEF StackInv, InCallback
    <3>6. \A i \in 1..(n + 1) : i \in 1..n \/ i = n + 1 BY <3>3
    <3>7. ASSUME NEW i \in 1..(n + 1) PROVE phase'[stack'[i]] \in JsPhases
      BY <3>2, <3>3, <3>4, <3>6 DEF OnStack, JsPhases
    <3>8. ASSUME NEW d \in Calls, OnStack(d)' PROVE \E i \in 1..(n + 1) : stack'[i] = d
      <4>1. CASE d = c BY <3>3, <4>1
      <4>2. CASE d # c
        <5>1. OnStack(d) BY <3>2, <3>8, <4>2 DEF OnStack, JsPhases
        <5>2. PICK i \in 1..n : stack[i] = d BY <5>1 DEF StackInv
        <5> QED BY <3>3, <5>2
      <4> QED BY <4>1, <4>2
    <3>9. ASSUME NEW i \in 1..(n + 1), NEW j \in 1..(n + 1), stack'[i] = stack'[j] PROVE i = j
      BY <3>3, <3>4, <3>6, <3>9 DEF StackInv
    <3>10. ASSUME NEW i \in 1..(n + 1), phase'[stack'[i]] = "marshal" PROVE i = n + 1
      BY <3>2, <3>3, <3>4, <3>5, <3>6, <3>10
    <3> HIDE DEF n
    <3> QED BY <3>3, <3>7, <3>8, <3>9, <3>10 DEF StackInv, OnStack
  <2>3. CASE MarshalFails(c)
    <3>1. /\ phase[c] = "marshal" /\ phase' = [phase EXCEPT ![c] = "nextTick"]
          /\ stack' = Front(stack)
      BY <2>3 DEF MarshalFails
    <3> QED BY <3>1, AsyncReturns
  <2>4. CASE FFICallAsync(c)
    <3>1. /\ phase[c] = "marshal" /\ phase' = [phase EXCEPT ![c] = "queued"]
          /\ stack' = Front(stack)
      BY <2>4 DEF FFICallAsync
    <3> QED BY <3>1, AsyncReturns
  <2>5. CASE TickCallback(c) BY <2>5, FirstFrame DEF TickCallback
  <2>6. CASE Finish(c) BY <2>6, LastFrame DEF Finish
  <2>7. CASE TickDone(c) BY <2>7, LastFrame DEF TickDone
  <2> QED BY <1>1, <2>1, <2>2, <2>3, <2>4, <2>5, <2>6, <2>7 DEF MainStep
<1>2. ASSUME NEW w \in Workers, WorkerStart(w) PROVE StackInv'
  <2> DEFINE c == Head(poolQueue)
  <2>1. /\ stack' = stack /\ c \in Calls /\ phase[c] = "queued"
        /\ phase' = [phase EXCEPT ![c] = "running"]
    BY <1>2 DEF WorkerStart, VarTypes
  <2> HIDE DEF c
  <2> QED BY <2>1, StackStays DEF OnStack, JsPhases, VarTypes
<1>3. ASSUME NEW w \in Workers, AsyncFFICall(w) PROVE StackInv'
  <2> DEFINE c == worker[w]
  <2>1. /\ stack' = stack /\ c \in Calls /\ phase[c] = "running"
        /\ \E p \in {"ran", "threw"} : phase' = [phase EXCEPT ![c] = p]
    BY <1>3 DEF AsyncFFICall, VarTypes
  <2> HIDE DEF c
  <2> QED BY <2>1, StackStays DEF OnStack, JsPhases, VarTypes
<1>4. CASE CallClosure
  <2> DEFINE c == Head(doneQueue)
  <2>1. /\ stack = <<>> /\ stack' = <<c>> /\ c \in Calls
        /\ phase' = [phase EXCEPT ![c] = "callback"]
    BY <1>4 DEF CallClosure, VarTypes
  <2> QED BY <2>1, FirstFrame
<1>5. CASE DropProxy \/ Collect \/ LoopExit \/ UNCHANGED vars
  <2>1. stack' = stack /\ phase' = phase
    BY <1>5 DEF DropProxy, Collect, LoopExit, vars
  <2> QED BY <2>1, StackStays
<1> QED BY <1>1, <1>2, <1>3, <1>4, <1>5 DEF Next, PoolStep, Over

(* Every variable has its type, and the frames on the stack are those of    *)
(* the calls that are in async() or in their callback.                      *)
THEOREM AsyncTypes == Spec => []TypeOK
<1>1. Init => StackInv BY DEF Init, StackInv, OnStack, JsPhases
<1>2. AsyncInv /\ StackInv /\ [Next]_vars => StackInv'
  BY StackStep DEF AsyncInv
<1>3. Spec => []StackInv BY <1>1, <1>2, AsyncCorrect, PTL DEF Spec
<1>4. AsyncInv /\ StackInv => TypeOK
  <2> SUFFICES ASSUME AsyncInv, StackInv
               PROVE  {stack[i] : i \in 1..Len(stack)} = {c \in Calls : OnStack(c)}
    BY DEF AsyncInv, TypeOK, OnStack, JsPhases
  <2>1. \A i \in 1..Len(stack) : stack[i] \in Calls BY DEF AsyncInv, VarTypes
  <2> QED BY <2>1 DEF StackInv
<1> QED BY <1>3, <1>4, AsyncCorrect, PTL

(* No callback of proxy.async starts inside async() or another callback:    *)
(* only the loop and the tick queue call one, and both with an empty stack. *)
THEOREM NeverSynchronousHolds == Spec => NeverSynchronous
<1>1. [Next]_vars => ((\E c \in Calls : delivered'[c] # delivered[c]) => stack = <<>>)
  BY DEF Next, MainStep, PoolStep, Refuse, AllocBuffers, MarshalFails, FFICallAsync,
     TickCallback, Finish, TickDone, WorkerStart, AsyncFFICall, CallClosure, DropProxy,
     Collect, LoopExit, Over, vars
<1>2. [Next]_vars => [(\E c \in Calls : delivered'[c] # delivered[c]) => stack = <<>>]_vars
  BY <1>1
<1> QED BY <1>2, PTL DEF Spec, NeverSynchronous

=============================================================================
