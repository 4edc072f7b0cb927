--------------------------- MODULE ClosureLifetime ---------------------------
(***************************************************************************)
(* The life of an ffi.Callback: its closure memory, its persistent handles *)
(* and its Buffer (CallbackInfo::Callback, closure_pointer_cb, Invoke and  *)
(* DispatchToV8 of src/src/callback_info.cc, Callback of                   *)
(* src/lib/callback.js).                                                   *)
(*                                                                         *)
(* C code keeps the code pointer for as long as it likes and may call it   *)
(* from the main thread or from its own; the Buffer that owns the closure  *)
(* is collected as soon as JavaScript forgets it, and the memory goes back *)
(* to an allocator that hands it to the next callback.  `careful` records  *)
(* whether the program has so far kept every Buffer while C might still    *)
(* start a call of it or had not yet got back from one.                    *)
(*                                                                         *)
(* The closure and its cif are used when a call starts, by DispatchToV8,   *)
(* when an error is reported, and by libffi once more when the call ends   *)
(* (src/deps/libffi/src/x86/ffi.c reads the cif after the callback and     *)
(* returns into STDCALL and THISCALL trampolines; other builds do neither).*)
(* A use of freed memory is undefined: it reads what was there last or     *)
(* what the next owner has written, or the process crashes, as the         *)
(* allocator writes its links over the trampoline or unmaps the memory.    *)
(*                                                                         *)
(* External: V8's collector, libffi's closures and their allocator, the C  *)
(* code.  The rendezvous of a thread's call with the main thread, its      *)
(* order and its mutexes are ThreadedCallback's; here waiting calls are    *)
(* executed in any order.                                                  *)
(***************************************************************************)
EXTENDS Naturals, Sequences, FiniteSets, SequencesExt

CONSTANTS Callbacks,  \* calls of ffi.Callback, each made once
          Slots,      \* pieces of closure memory
          Threads,    \* native threads that call callbacks, one call at a time
          None,       \* NULL; no thread
          MaxDepth    \* bound: callbacks executing inside one another

ASSUME NoneAssumption == None \notin Callbacks \cup Slots \cup Threads
ASSUME BoundsAssumption == MaxDepth \in Nat

VARIABLES
  buffer,      \* each callback's Buffer: "new", "failed", "live" or "freed"
  held,        \* callbacks whose Buffer the program refers to
  cifs,        \* callbacks whose cif Buffer is still there
  slotOf,      \* the address each callback's Buffer has given out
  inUse,       \* slots between ffi_closure_alloc and ffi_closure_free
  info,        \* callback_info in each slot, after it is freed too
  functions,   \* callbacks whose `function` handle exists
  errorFunctions, \* callbacks whose `errorFunction` handle exists
  inC,         \* callbacks C code may start a call of
  thread,      \* each thread's call in progress
  stack,       \* executing callbacks on the main thread, innermost last
  process,     \* "up" or "crashed"
  careful      \* history: nothing was forgotten that C might still use

bufferVars  == <<buffer, held, cifs>>
closureVars == <<slotOf, inUse, info>>
handleVars  == <<functions, errorFunctions>>
callVars    == <<inC, thread, stack>>
vars == <<bufferVars, closureVars, handleVars, callVars, process, careful>>

OrNone(S) == S \cup {None}
Info == [function : OrNone(Callbacks), errorFunction : OrNone(Callbacks),
         cif : OrNone(Callbacks)]

(* A call knows the callback its pointer was made for and the cif libffi has *)
(* found in the closure; a thread's waits for the main thread, is executed   *)
(* there, or is on its way back to C.                                        *)
Call  == [meant : OrNone(Callbacks), cif : OrNone(Callbacks),
          phase : {"none", "waiting", "executing", "leaving"}]
NoCall == [meant |-> None, cif |-> None, phase |-> "none"]
Frame == [meant : Callbacks, cif : OrNone(Callbacks), runs : Callbacks,
          by : OrNone(Threads)]

Init == /\ buffer = [c \in Callbacks |-> "new"]
        /\ held = {} /\ cifs = {}
        /\ slotOf = [c \in Callbacks |-> None]
        /\ inUse = {}
        /\ info = [s \in Slots |-> [function |-> None, errorFunction |-> None,
                                    cif |-> None]]
        /\ functions = {} /\ errorFunctions = {}
        /\ inC = {} /\ thread = [t \in Threads |-> NoCall] /\ stack = <<>>
        /\ process = "up" /\ careful = TRUE

-----------------------------------------------------------------------------
(* ffi.Callback *)

(* An argument, the CIF or ffi_closure_alloc fails: Callback throws. *)
Refuse(c) == /\ process = "up"
             /\ buffer[c] = "new"
             /\ buffer' = [buffer EXCEPT ![c] = "failed"]
             /\ UNCHANGED <<held, cifs, closureVars, handleVars, callVars, process, careful>>

(* ffi_closure_alloc; both handles are made and the struct is filled. *)
Allocate(c, s) ==
  /\ process = "up"
  /\ buffer[c] = "new" /\ s \in Slots \ inUse
  /\ functions' = functions \cup {c}
  /\ errorFunctions' = errorFunctions \cup {c}

NewCallback(c, s) ==
  /\ Allocate(c, s)
  /\ info' = [info EXCEPT ![s] = [function |-> c, errorFunction |-> c, cif |-> c]]
  /\ inUse' = inUse \cup {s}
  /\ slotOf' = [slotOf EXCEPT ![c] = s]
  /\ buffer' = [buffer EXCEPT ![c] = "live"]
  /\ held' = held \cup {c}
  /\ cifs' = cifs \cup {c}
  /\ UNCHANGED <<callVars, process, careful>>

(* ffi_prep_closure_loc fails: the closure is freed, the handles are not. *)
PrepFailsFault_NoReturn(c, s) ==    \* faulty: a Buffer of the freed closure is made
  /\ Allocate(c, s)
  /\ info' = [info EXCEPT ![s] = [function |-> c, errorFunction |-> c, cif |-> c]]
  /\ buffer' = [buffer EXCEPT ![c] = "live"]
  /\ slotOf' = [slotOf EXCEPT ![c] = s]
  /\ held' = held \cup {c} /\ cifs' = cifs \cup {c}
  /\ UNCHANGED <<inUse, callVars, process, careful>>
PrepFailsFault_AddressKept(c, s) == \* faulty: the address gets out before the check
  /\ Allocate(c, s)
  /\ info' = [info EXCEPT ![s].function = c, ![s].errorFunction = c]
  /\ buffer' = [buffer EXCEPT ![c] = "failed"]
  /\ slotOf' = [slotOf EXCEPT ![c] = s]
  /\ UNCHANGED <<held, cifs, inUse, callVars, process, careful>>
PrepFails(c, s) ==
  /\ Allocate(c, s)
  /\ info' = [info EXCEPT ![s].function = c, ![s].errorFunction = c]
  /\ buffer' = [buffer EXCEPT ![c] = "failed"]
  /\ UNCHANGED <<held, cifs, slotOf, inUse, callVars, process, careful>>

-----------------------------------------------------------------------------
(* The program, the C code it calls and the collector *)

Give(c) == /\ process = "up" /\ c \in held
           /\ inC' = inC \cup {c}
           /\ UNCHANGED <<bufferVars, closureVars, handleVars, thread, stack, process, careful>>

Revoke(c) == /\ process = "up" /\ c \in inC
             /\ inC' = inC \ {c}
             /\ UNCHANGED <<bufferVars, closureVars, handleVars, thread, stack, process, careful>>

(* C can start a call of c, or has started one and is not back from it.     *)
Wanted(c) == \/ c \in inC
             \/ \E t \in Threads : thread[t].meant = c
             \/ \E i \in 1..Len(stack) : stack[i].meant = c

Forget(c) == /\ process = "up" /\ c \in held
             /\ held' = held \ {c}
             /\ careful' = (careful /\ ~Wanted(c))
             /\ UNCHANGED <<buffer, cifs, closureVars, handleVars, callVars, process>>

(* closure_pointer_cb, when the Buffer of the code pointer is collected: at *)
(* any moment after it was forgotten, an executing callback included.       *)
CollectFault_BothHandles(c) ==  \* faulty: deletes errorFunction as well
  /\ process = "up" /\ buffer[c] = "live" /\ c \notin held
  /\ functions' = functions \ {c}
  /\ errorFunctions' = errorFunctions \ {c}
  /\ info' = [info EXCEPT ![slotOf[c]].function = None]
  /\ inUse' = inUse \ {slotOf[c]}
  /\ buffer' = [buffer EXCEPT ![c] = "freed"]
  /\ UNCHANGED <<held, cifs, slotOf, callVars, process, careful>>
Collect(c) ==
  /\ process = "up" /\ buffer[c] = "live" /\ c \notin held
  /\ functions' = functions \ {c}
  /\ info' = [info EXCEPT ![slotOf[c]].function = None]
  /\ inUse' = inUse \ {slotOf[c]}
  /\ buffer' = [buffer EXCEPT ![c] = "freed"]
  /\ UNCHANGED <<held, cifs, slotOf, errorFunctions, callVars, process, careful>>

(* The cif hangs off the Buffer of its callback and goes with it. *)
CifReachableFault_NotKept(c) == FALSE   \* faulty: callback._cif is not set
CifReachable(c) == c \in held

CollectCif(c) == /\ process = "up" /\ c \in cifs /\ ~CifReachable(c)
                 /\ cifs' = cifs \ {c}
                 /\ UNCHANGED <<buffer, held, closureVars, handleVars, callVars, process, careful>>

-----------------------------------------------------------------------------
(* Invoke and DispatchToV8 *)

Crash == /\ process' = "crashed"
         /\ UNCHANGED <<bufferVars, closureVars, handleVars, callVars, careful>>

(* The closure that c's pointer leads to, and whether it is still c's.      *)
Closure(c) == info[slotOf[c]]
Freed(c) == buffer[c] # "live"

(* The start of a call uses the closure and its cif, the end of one the cif *)
(* found then and the trampoline again.                                     *)
UnsafeStart(c) == Freed(c) \/ Closure(c).cif \notin cifs
UnsafeEnd(call) == Freed(call.meant) \/ call.cif \notin cifs

(* DispatchToV8(info): a NULL function is an error, thrown or reported, and *)
(* the call is over ...                                                     *)
Dispatch(c, cif, t) ==
  /\ stack' = IF Closure(c).function = None THEN stack
              ELSE Append(stack, [meant |-> c, cif |-> cif,
                                  runs |-> Closure(c).function, by |-> t])
  /\ UNCHANGED <<bufferVars, closureVars, handleVars, inC, process, careful>>

(* ... and a handle that was deleted is a crash. *)
Dangles(c, t) ==
  \/ Closure(c).function \notin functions \cup {None}
  \/ Closure(c).function = None /\ t # None /\ Closure(c).errorFunction \notin errorFunctions

InvokeOnMain(c) ==
  /\ process = "up" /\ c \in inC /\ Len(stack) < MaxDepth
  /\ \/ ~Dangles(c, None) /\ Dispatch(c, Closure(c).cif, None) /\ UNCHANGED thread
     \/ (UnsafeStart(c) \/ Dangles(c, None)) /\ Crash

At(t, phase) == thread[t].phase = phase

InvokeOnThread(t, c) ==
  /\ process = "up" /\ c \in inC /\ At(t, "none")
  /\ \/ /\ thread' = [thread EXCEPT ![t] =
             [meant |-> c, cif |-> Closure(c).cif, phase |-> "waiting"]]
        /\ UNCHANGED <<bufferVars, closureVars, handleVars, inC, stack, process, careful>>
     \/ UnsafeStart(c) /\ Crash

Goto(t, phase) == thread' = [thread EXCEPT ![t].phase = phase]

WatcherCallback(t) ==
  LET c == thread[t].meant IN
  /\ process = "up" /\ stack = <<>> /\ At(t, "waiting")
  /\ \/ /\ ~Dangles(c, t) /\ Dispatch(c, thread[t].cif, t)
        /\ Goto(t, IF Closure(c).function = None THEN "leaving" ELSE "executing")
     \/ (Freed(c) \/ Dangles(c, t)) /\ Crash

(* The JavaScript function is done, and the thread's invocation with it.    *)
Finish(f) == /\ stack' = Front(stack)
             /\ IF f.by = None THEN UNCHANGED thread ELSE Goto(f.by, "leaving")
             /\ UNCHANGED <<bufferVars, closureVars, handleVars, inC, process, careful>>

(* It has returned, or thrown on the main thread: libffi returns to C.      *)
Return == LET f == Last(stack) IN
  /\ process = "up" /\ stack # <<>>
  /\ \/ Finish(f)
     \/ f.by = None /\ UnsafeEnd(f) /\ Crash

(* A thread's has thrown: the error is reported with the errorFunction the  *)
(* struct holds now.                                                        *)
ReportError == LET f == Last(stack) IN
  /\ process = "up" /\ stack # <<>> /\ f.by # None
  /\ \/ Closure(f.meant).errorFunction \in errorFunctions /\ Finish(f)
     \/ /\ Freed(f.meant) \/ Closure(f.meant).errorFunction \notin errorFunctions
        /\ Crash

(* Invoke returns on the thread, and libffi to C. *)
Leave(t) ==
  /\ process = "up" /\ At(t, "leaving")
  /\ \/ /\ thread' = [thread EXCEPT ![t] = NoCall]
        /\ UNCHANGED <<bufferVars, closureVars, handleVars, inC, stack, process, careful>>
     \/ UnsafeEnd(thread[t]) /\ Crash

Idle == /\ (stack = <<>> /\ \A t \in Threads : At(t, "none")) \/ process = "crashed"
        /\ UNCHANGED vars

Next == \/ \E c \in Callbacks :
             \/ Refuse(c)
             \/ \E s \in Slots : NewCallback(c, s) \/ PrepFails(c, s)
             \/ Give(c) \/ Revoke(c) \/ Forget(c)
             \/ Collect(c) \/ CollectCif(c)
             \/ InvokeOnMain(c) \/ \E t \in Threads : InvokeOnThread(t, c)
        \/ \E t \in Threads : WatcherCallback(t) \/ Leave(t)
        \/ Return \/ ReportError \/ Idle

Spec == Init /\ [][Next]_vars

-----------------------------------------------------------------------------
(* Every variable has its type.  Exactly the callbacks that were made have  *)
(* an address: those whose Buffer is alive or was collected.  A thread's    *)
(* call is executing exactly while its frame is at the bottom of the stack. *)
TypeOK ==
  /\ buffer \in [Callbacks -> {"new", "failed", "live", "freed"}]
  /\ held \subseteq {c \in Callbacks : buffer[c] = "live"}
  /\ cifs \subseteq Callbacks
  /\ slotOf \in [Callbacks -> OrNone(Slots)]
  /\ \A c \in Callbacks : buffer[c] \in {"live", "freed"} <=> slotOf[c] # None
  /\ inUse \subseteq Slots
  /\ info \in [Slots -> Info]
  /\ functions \subseteq Callbacks /\ errorFunctions \subseteq Callbacks
  /\ inC \subseteq {c \in Callbacks : slotOf[c] # None}
  /\ thread \in [Threads -> Call]
  /\ \A t \in Threads : At(t, "none") <=> thread[t].meant = None
  /\ stack \in Seq(Frame)
  /\ \A c \in Callbacks : Wanted(c) => slotOf[c] # None
  /\ \A i \in 1..Len(stack) : stack[i].by # None => i = 1
  /\ \A t \in Threads : At(t, "executing") <=> stack # <<>> /\ stack[1].by = t
  /\ process \in {"up", "crashed"} /\ careful \in BOOLEAN

(* A closure in use has one owner, runs the owner's function, and both of   *)
(* its handles exist, however often its memory has been used before; a      *)
(* closure is in use exactly as long as its Buffer lives.                   *)
ClosureInv ==
  /\ inUse = {slotOf[c] : c \in {d \in Callbacks : buffer[d] = "live"}}
  /\ \A c, d \in Callbacks :
       buffer[c] = "live" /\ buffer[d] = "live" /\ slotOf[c] = slotOf[d] => c = d
  /\ \A c \in Callbacks : buffer[c] = "live" =>
       /\ info[slotOf[c]] = [function |-> c, errorFunction |-> c, cif |-> c]
       /\ c \in functions /\ c \in errorFunctions
  /\ held \subseteq cifs

(* A handle that a closure refers to is never a deleted one, not even after *)
(* the closure is freed: `function` is NULL by then, and `errorFunction`    *)
(* exists for ever.  So as long as nobody else has the memory, a late call  *)
(* finds nothing in it that it could not use.                               *)
HandleInv ==
  \A s \in Slots : /\ info[s].function \in functions \cup {None}
                   /\ info[s].errorFunction \in errorFunctions \cup {None}

(* What makes HandleInv inductive: a function handle is named by the        *)
(* closure of its live Buffer or was left behind by PrepFails.              *)
InfoInv ==
  \A s \in Slots : LET f == info[s].function IN
    f # None => \/ buffer[f] = "failed"
                \/ buffer[f] = "live" /\ slotOf[f] = s

(* What a careful program keeps. *)
CarefulInv == careful => \A c \in Callbacks : Wanted(c) => c \in held

(* As long as the program has been careful, executing callbacks run the     *)
(* function the pointer was made for, although memory is reused and calls   *)
(* of threads wait.                                                         *)
RunsOwn == \A i \in 1..Len(stack) : stack[i].runs = stack[i].meant
OwnFunction == careful => RunsOwn

(* ... and nothing that a call or the report of its error uses, from its    *)
(* start until libffi is back in C, is a freed closure, a collected cif or  *)
(* a deleted handle.                                                        *)
NoCrash == careful => process = "up"

(* "throw an error instead of segfaulting": a call of a pointer whose       *)
(* callback has been collected throws, whatever the program did.            *)
CollectedThrows == process = "up" /\ RunsOwn
=============================================================================
