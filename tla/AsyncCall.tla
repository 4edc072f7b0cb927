------------------------------ MODULE AsyncCall ------------------------------
(***************************************************************************)
(* proxy.async() of one ForeignFunction (src/lib/_foreign_function.js) and *)
(* the bindings under it, FFI::FFICallAsync, AsyncFFICall and              *)
(* FinishAsyncFFICall (src/src/ffi.cc).                                    *)
(*                                                                         *)
(* The main thread allocates the argument and result Buffers and queues    *)
(* work; a thread of libuv's pool runs the C function with the raw         *)
(* addresses of those Buffers; the main thread then reads the result and   *)
(* calls the user's callback.  The addresses do not keep a Buffer alive:   *)
(* only the JavaScript closure held by AsyncCallParams does.               *)
(*                                                                         *)
(* The pool, the loop, the garbage collector and ref (whose writePointer   *)
(* makes a Buffer keep the one it points to) are external.                 *)
(***************************************************************************)
EXTENDS Naturals, Sequences, FiniteSets, SequencesExt

CONSTANTS Calls,      \* calls of proxy.async, each made once
          Workers,    \* threads of the pool
          None

ASSUME NoneAssumption == None \notin Calls

VARIABLES
  phase,      \* how far each call has come
  stack,      \* the calls with a JavaScript frame on the main thread
  poolQueue,  \* work no pool thread has taken yet
  worker,     \* the call each pool thread is running
  doneQueue,  \* finished work the loop has not picked up
  persistent, \* the calls whose Nan::Callback is alive
  params,     \* the calls whose AsyncCallParams and uv_work_t are allocated
  mem,        \* the state of each Buffer
  content,    \* the call whose C function wrote each result Buffer
  delivered,  \* what each user callback has been called with, in order
  proxyHeld,  \* the program still refers to the ForeignFunction
  process     \* "up", or how it ended

poolVars   == <<poolQueue, worker, doneQueue>>
nativeVars == <<persistent, params>>
memVars    == <<mem, content>>
vars == <<phase, stack, poolVars, nativeVars, memVars, delivered, proxyHeld, process>>

(* Buffers: `cif` and `funcPtr` belong to the proxy, the others to a call. *)
Cif == <<"cif">>
FuncPtr == <<"funcPtr">>
ResultFault_Shared(c) == <<"result">>   \* faulty: one result Buffer per proxy
Result(c) == <<"result", c>>
ArgsList(c) == <<"argsList", c>>        \* the Buffers of the values hang off it
Buffers == {Cif, FuncPtr} \cup (UNION {{Result(c), ArgsList(c)} : c \in Calls})

(* What AsyncFFICall reads and writes on the pool. *)
Uses(c) == {Cif, FuncPtr, Result(c), ArgsList(c)}

(* What the completion closure captures: it assigns cif, funcPtr and        *)
(* argsList to themselves for that reason, and dereferences result.         *)
CapturedFault_NoArgs(c) == {Cif, FuncPtr, Result(c)}    \* faulty
Captured(c) == {Cif, FuncPtr, ArgsList(c), Result(c)}

Reachable == (IF proxyHeld THEN {Cif, FuncPtr} ELSE {})
             \cup (UNION {Captured(c) : c \in persistent})
             \cup (UNION {Uses(c) : c \in {d \in Calls : phase[d] = "marshal"}})

InCallback(c) == phase[c] \in {"callback", "tick"}

Go(c, from, to) == /\ process = "up"
                   /\ phase[c] = from
                   /\ phase' = [phase EXCEPT ![c] = to]

Init == /\ phase = [c \in Calls |-> "new"]
        /\ stack = <<>>
        /\ poolQueue = <<>> /\ doneQueue = <<>>
        /\ worker = [w \in Workers |-> None]
        /\ persistent = {} /\ params = {}
        /\ mem = [b \in Buffers |-> IF b \in {Cif, FuncPtr} THEN "live" ELSE "unborn"]
        /\ content = [b \in Buffers |-> None]
        /\ delivered = [c \in Calls |-> <<>>]
        /\ proxyHeld = TRUE
        /\ process = "up"

-----------------------------------------------------------------------------
(* proxy.async, from the program or from a callback of an earlier call *)

CanRunJS == IF stack = <<>> THEN TRUE ELSE InCallback(Last(stack))

(* The arity and the callback are checked first: async() throws. *)
Refuse(c) == /\ CanRunJS /\ proxyHeld
             /\ Go(c, "new", "refused")
             /\ UNCHANGED <<stack, poolVars, nativeVars, memVars, delivered,
                            proxyHeld, process>>

AllocBuffers(c) ==
  /\ CanRunJS /\ proxyHeld
  /\ Go(c, "new", "marshal")
  /\ stack' = Append(stack, c)
  /\ mem' = [mem EXCEPT ![Result(c)] = "live", ![ArgsList(c)] = "live"]
  /\ UNCHANGED <<poolVars, nativeVars, content, delivered, proxyHeld, process>>

(* An argument does not convert: the error goes to the callback, but on the *)
(* next tick, and async() returns.                                          *)
MarshalFailsFault_Now(c) ==     \* faulty: the callback is called in place
  /\ Go(c, "marshal", "done")
  /\ stack' = Front(stack)
  /\ delivered' = [delivered EXCEPT ![c] = Append(@, "badarg")]
  /\ UNCHANGED <<poolVars, nativeVars, memVars, proxyHeld, process>>
MarshalFails(c) ==
  /\ Go(c, "marshal", "nextTick")
  /\ stack' = Front(stack)
  /\ UNCHANGED <<poolVars, nativeVars, memVars, delivered, proxyHeld, process>>

(* The arguments are written and FFICallAsync queues the work: addresses    *)
(* into AsyncCallParams, the closure into a Persistent.                     *)
FFICallAsyncFault_Blocks(c) ==  \* faulty: async() waits for the pool
  /\ Go(c, "marshal", "queued")
  /\ params' = params \cup {c}
  /\ persistent' = persistent \cup {c}
  /\ poolQueue' = Append(poolQueue, c)
  /\ UNCHANGED <<stack, worker, doneQueue, memVars, delivered, proxyHeld, process>>
FFICallAsync(c) ==
  /\ Go(c, "marshal", "queued")
  /\ stack' = Front(stack)
  /\ params' = params \cup {c}
  /\ persistent' = persistent \cup {c}
  /\ poolQueue' = Append(poolQueue, c)
  /\ UNCHANGED <<worker, doneQueue, memVars, delivered, proxyHeld, process>>

-----------------------------------------------------------------------------
(* The thread pool *)

WorkerStart(w) ==
  /\ worker[w] = None /\ poolQueue # <<>>
  /\ Go(Head(poolQueue), "queued", "running")
  /\ worker' = [worker EXCEPT ![w] = Head(poolQueue)]
  /\ poolQueue' = Tail(poolQueue)
  /\ UNCHANGED <<stack, doneQueue, nativeVars, memVars, delivered, proxyHeld, process>>

(* ffi_call returned, with the result in place, or (Objective-C builds) it  *)
(* threw and p->result says so; libuv hands the request to the loop.        *)
AsyncFFICallFault_LostThrow(w) == \* faulty: a throw escapes the pool thread's work
  LET c == worker[w] IN
  /\ c # None
  /\ \/ /\ Go(c, "running", "ran")
        /\ content' = [content EXCEPT ![Result(c)] = c]
        /\ doneQueue' = Append(doneQueue, c)
     \/ Go(c, "running", "threw") /\ UNCHANGED <<content, doneQueue>>
  /\ worker' = [worker EXCEPT ![w] = None]
  /\ UNCHANGED <<stack, poolQueue, nativeVars, mem, delivered, proxyHeld, process>>
AsyncFFICall(w) ==
  LET c == worker[w] IN
  /\ c # None
  /\ \/ Go(c, "running", "ran") /\ content' = [content EXCEPT ![Result(c)] = c]
     \/ Go(c, "running", "threw") /\ UNCHANGED content
  /\ doneQueue' = Append(doneQueue, c)
  /\ worker' = [worker EXCEPT ![w] = None]
  /\ UNCHANGED <<stack, poolQueue, nativeVars, mem, delivered, proxyHeld, process>>

-----------------------------------------------------------------------------
(* Completion on the main thread *)

(* process.nextTick: the callback of a failed call, before the loop goes on. *)
TickCallback(c) ==
  /\ stack = <<>>
  /\ Go(c, "nextTick", "tick")
  /\ stack' = <<c>>
  /\ delivered' = [delivered EXCEPT ![c] = Append(@, "badarg")]
  /\ UNCHANGED <<poolVars, nativeVars, memVars, proxyHeld, process>>

NoTicks == \A c \in Calls : phase[c] # "nextTick"

(* The closure tells an error from a result, which it dereferences.         *)
Answer(c) == IF phase[c] = "threw" THEN "exception" ELSE content[Result(c)]

(* FinishAsyncFFICall calls the closure, which calls the user's callback    *)
(* with the error or with the dereferenced result.                          *)
CallClosureFault_NoElse ==      \* faulty: callback(err) and callback(null, result)
  LET c == Head(doneQueue) IN
  /\ stack = <<>> /\ NoTicks /\ doneQueue # <<>>
  /\ process = "up"
  /\ phase' = [phase EXCEPT ![c] = "callback"]
  /\ stack' = <<c>>
  /\ doneQueue' = Tail(doneQueue)
  /\ delivered' = [delivered EXCEPT ![c] =
       IF phase[c] = "threw" THEN @ \o <<"exception", content[Result(c)]>>
       ELSE Append(@, content[Result(c)])]
  /\ UNCHANGED <<poolQueue, worker, nativeVars, memVars, proxyHeld, process>>
CallClosure ==
  LET c == Head(doneQueue) IN
  /\ stack = <<>> /\ NoTicks /\ doneQueue # <<>>
  /\ process = "up"
  /\ phase' = [phase EXCEPT ![c] = "callback"]
  /\ stack' = <<c>>
  /\ doneQueue' = Tail(doneQueue)
  /\ delivered' = [delivered EXCEPT ![c] = Append(@, Answer(c))]
  /\ UNCHANGED <<poolQueue, worker, nativeVars, memVars, proxyHeld, process>>

(* The user's callback returned or threw; either way FinishAsyncFFICall     *)
(* deletes the handle, the parameters and the request, and only then lets a *)
(* caught exception end the process (or reach an uncaughtException handler).*)
FinishFault_ThrowFirst(c) ==    \* faulty: a throw skips the deletes
  /\ stack = <<c>>
  /\ Go(c, "callback", "done")
  /\ stack' = <<>>
  /\ \/ persistent' = persistent \ {c} /\ params' = params \ {c}
     \/ UNCHANGED nativeVars
  /\ process' \in {"up", "dead"}
  /\ UNCHANGED <<poolVars, memVars, delivered, proxyHeld>>
Finish(c) ==
  /\ stack = <<c>>
  /\ Go(c, "callback", "done")
  /\ stack' = <<>>
  /\ persistent' = persistent \ {c}
  /\ params' = params \ {c}
  /\ process' \in {"up", "dead"}
  /\ UNCHANGED <<poolVars, memVars, delivered, proxyHeld>>

TickDone(c) ==
  /\ stack = <<c>>
  /\ Go(c, "tick", "done")
  /\ stack' = <<>>
  /\ process' \in {"up", "dead"}
  /\ UNCHANGED <<poolVars, nativeVars, memVars, delivered, proxyHeld>>

-----------------------------------------------------------------------------
(* The program and the garbage collector *)

DropProxy == /\ process = "up" /\ CanRunJS /\ proxyHeld
             /\ proxyHeld' = FALSE
             /\ UNCHANGED <<phase, stack, poolVars, nativeVars, memVars,
                            delivered, process>>

(* Buffers are collected whenever JavaScript allocates, one by one.         *)
Collect == /\ process = "up"
           /\ \E b \in Buffers \ Reachable :
                /\ mem[b] = "live"
                /\ mem' = [mem EXCEPT ![b] = "freed"]
           /\ UNCHANGED <<phase, stack, poolVars, nativeVars, content,
                          delivered, proxyHeld, process>>

(* The loop ends when no request is active and nothing is left to run.      *)
LoopExit == /\ process = "up" /\ stack = <<>> /\ NoTicks /\ params = {}
            /\ process' = "exited"
            /\ UNCHANGED <<phase, stack, poolVars, nativeVars, memVars,
                           delivered, proxyHeld>>

Over == process # "up" /\ UNCHANGED vars

MainStep(c) == \/ MarshalFails(c) \/ FFICallAsync(c) \/ TickCallback(c)
               \/ Finish(c) \/ TickDone(c)
PoolStep(w) == WorkerStart(w) \/ AsyncFFICall(w)

Next == \/ \E c \in Calls : Refuse(c) \/ AllocBuffers(c) \/ MainStep(c)
        \/ \E w \in Workers : PoolStep(w)
        \/ CallClosure \/ DropProxy \/ Collect \/ LoopExit \/ Over

(* JavaScript code and C functions return, the loop and the pool go on and  *)
(* the collector gets to every garbage Buffer.                              *)
Fairness == /\ \A c \in Calls : WF_vars(MainStep(c))
            /\ \A w \in Workers : WF_vars(PoolStep(w))
            /\ WF_vars(CallClosure) /\ WF_vars(Collect)

Spec == Init /\ [][Next]_vars

FairSpec == Spec /\ Fairness

-----------------------------------------------------------------------------
Phases == {"new", "refused", "marshal", "nextTick", "tick", "queued", "running",
           "ran", "threw", "callback", "done"}

VarTypes ==
  /\ phase \in [Calls -> Phases]
  /\ stack \in Seq(Calls)
  /\ poolQueue \in Seq(Calls)
  /\ doneQueue \in Seq(Calls)
  /\ worker \in [Workers -> Calls \cup {None}]
  /\ persistent \subseteq Calls
  /\ params \subseteq Calls
  /\ mem \in [Buffers -> {"unborn", "live", "freed"}]
  /\ content \in [Buffers -> Calls \cup {None}]
  /\ delivered \in [Calls -> Seq(Calls \cup {"badarg", "exception", None})]
  /\ proxyHeld \in BOOLEAN
  /\ process \in {"up", "dead", "exited"}

(* Every variable has its type, and the calls with a frame on the stack are *)
(* those that are running JavaScript.                                       *)
TypeOK ==
  /\ VarTypes
  /\ {stack[i] : i \in 1..Len(stack)} =
       {c \in Calls : phase[c] \in {"marshal", "tick", "callback"}}

(* "make sure that the 4 Buffers passed in above don't get GC'd while we're *)
(* doing work on the thread pool": from the call to the end of the callback *)
(* every Buffer AsyncFFICall has an address of is alive.                    *)
BuffersAlive ==
  \A c \in params : \A b \in Uses(c) : mem[b] = "live"

(* A callback gets the result of its own call, whatever other calls of the  *)
(* same ForeignFunction run on the pool at the same time.                   *)
OwnResult ==
  \A c \in Calls : \A i \in 1..Len(delivered[c]) :
    delivered[c][i] \in {c, "badarg", "exception"}

(* A callback is called at most once, and for a finished call exactly once. *)
CalledOnce ==
  \A c \in Calls : /\ Len(delivered[c]) =< 1
                   /\ phase[c] = "done" => Len(delivered[c]) = 1

(* A callback is never called from inside async() or another callback: it   *)
(* only starts on an empty JavaScript stack, argument errors included.      *)
NeverSynchronous ==
  [][(\E c \in Calls : delivered'[c] # delivered[c]) => stack = <<>>]_vars

(* The handle, the AsyncCallParams and the request exist exactly from       *)
(* FFICallAsync to the end of FinishAsyncFFICall: the pool and the loop      *)
(* never touch freed ones, and none is left behind when a callback throws.  *)
NativeMemory ==
  /\ params = {c \in Calls : phase[c] \in {"queued", "running", "ran", "threw", "callback"}}
  /\ persistent = params

(* The inductive invariant behind BuffersAlive, OwnResult, CalledOnce and   *)
(* NativeMemory: what the collector must leave alone is there, finished     *)
(* work is waiting once, and results and deliveries follow the phases.      *)
DoneInv ==
  /\ \A i, j \in 1..Len(doneQueue) : doneQueue[i] = doneQueue[j] => i = j
  /\ \A i \in 1..Len(doneQueue) : phase[doneQueue[i]] \in {"ran", "threw"}

ReachableAlive == \A b \in Reachable : mem[b] = "live"

DeliveryInv ==
  \A c \in Calls :
    /\ phase[c] = "ran" => content[Result(c)] = c
    /\ IF phase[c] \in {"tick", "callback", "done"}
         THEN \E x \in {c, "badarg", "exception"} : delivered[c] = <<x>>
         ELSE delivered[c] = <<>>

AsyncInv == VarTypes /\ DoneInv /\ NativeMemory /\ ReachableAlive /\ DeliveryInv

(* Every accepted call has its callback called, unless the process ends.    *)
AsyncCompletes ==
  \A c \in Calls : phase[c] \in {"queued", "nextTick"}
                     ~> (delivered[c] # <<>> \/ process # "up")

(* The Buffers of a finished call do become garbage and are collected.      *)
BuffersFreed ==
  \A c \in Calls : phase[c] = "done"
                     ~> (mem[Result(c)] = "freed" \/ process # "up")
=============================================================================
