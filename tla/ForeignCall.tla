----------------------------- MODULE ForeignCall -----------------------------
(***************************************************************************)
(* Foreign calls on the main thread: the proxy of a ForeignFunction        *)
(* (src/lib/_foreign_function.js) with FFICall (src/src/ffi.cc), and the   *)
(* callbacks the C function makes meanwhile (DispatchToV8 of               *)
(* src/src/callback_info.cc, the wrapper of src/lib/callback.js).          *)
(*                                                                         *)
(* The main thread's stack alternates: JavaScript calls C through a proxy, *)
(* C calls JavaScript back, and so on.  A callback that fails cannot       *)
(* unwind the C function that called it: the error is scheduled            *)
(* (Nan::ThrowError), C goes on with a return value nobody has written,    *)
(* and V8 throws the error in the next JavaScript code a native function   *)
(* returns to.  There is one place for it, whoever's error it is: a later  *)
(* error replaces an earlier one, that of the same C function or, where    *)
(* JavaScript has called C again without calling a native function before, *)
(* that of a C function further out.                                       *)
(*                                                                         *)
(* A function passed for an argument of type ffi.Function becomes an       *)
(* ffi.Callback (src/lib/function.js) that only the call's argsList keeps; *)
(* a call of proxy.async keeps its own until its completion.               *)
(*                                                                         *)
(* External: V8 (the stack, the scheduled exception, the collector), ref   *)
(* (whose writePointer makes a Buffer keep the one it points to), C code.  *)
(***************************************************************************)
EXTENDS Naturals, Sequences, SequencesExt

CONSTANTS Callbacks,  \* the Buffers of callbacks made for arguments, reused
          MaxDepth    \* bound: frames on the main thread's stack

VARIABLES
  stack,      \* the main thread's stack, innermost frame last
  scheduled,  \* the frame of the C function from whose callback the scheduled
              \* exception comes, 0 if there is none
  live,       \* callbacks made for arguments and not collected yet
  pinned      \* those that asynchronous calls keep

vars == <<stack, scheduled, live, pinned>>

(* What is known of the value a C function will return: nothing is wrong    *)
(* with it; or it may be computed from a value that a failed callback has   *)
(* not written.  The error of the last such callback is scheduled ("owed"), *)
(* JavaScript has been told of it ("told"), it was `undefined` ("silent"),  *)
(* or an error of a call further in has taken its place, which JavaScript   *)
(* is still to be told of ("replaced") or has been told of ("lost").        *)
Results == {"good", "owed", "told", "silent", "replaced", "lost"}

Frame == [kind : {"js", "c"}, args : SUBSET Callbacks, result : Results]

JsFrame    == [kind |-> "js", args |-> {}, result |-> "good"]
CFrame(K)  == [kind |-> "c", args |-> K, result |-> "good"]

Running(kind) == stack # <<>> /\ Last(stack).kind = kind

InCallback == Running("js") /\ Len(stack) > 1

Init == stack = <<>> /\ scheduled = 0 /\ live = {} /\ pinned = {}

-----------------------------------------------------------------------------
(* The event loop *)

RunTask == /\ stack = <<>>
           /\ stack' = <<JsFrame>>
           /\ UNCHANGED <<scheduled, live, pinned>>

TaskEnds == /\ Running("js") /\ Len(stack) = 1
            /\ stack' = <<>>
            /\ UNCHANGED <<scheduled, live, pinned>>

-----------------------------------------------------------------------------
(* The proxy and FFICall *)

(* Function.set: the functions among the arguments become callbacks, by     *)
(* native functions, whose return makes V8 throw what is scheduled.  For a  *)
(* function without arguments the proxy need not call any before ffi_call.  *)
MakeCallbacks(K) == /\ Running("js")
                    /\ K # {} => scheduled = 0
                    /\ K \cap live = {}
                    /\ live' = live \cup K

(* An argument does not convert: the proxy throws, and the callbacks made   *)
(* for the arguments before it are garbage.                                 *)
ProxyThrows(K) == MakeCallbacks(K) /\ UNCHANGED <<stack, scheduled, pinned>>

(* The arguments are written and ffi_call enters the C function.            *)
Proxy(K) == /\ MakeCallbacks(K)
            /\ Len(stack) < MaxDepth
            /\ stack' = Append(stack, CFrame(K))
            /\ UNCHANGED <<scheduled, pinned>>

Mark(frames, i, result) == [j \in DOMAIN frames |->
  IF j = i THEN [frames[j] EXCEPT !.result = result] ELSE frames[j]]

(* JavaScript is told of the scheduled exception, and so of no other: whose *)
(* error it has replaced has lost its own.                                  *)
Tell(frames) == [i \in DOMAIN frames |->
  IF i = scheduled THEN [frames[i] EXCEPT !.result = "told"]
  ELSE IF frames[i].result = "replaced" THEN [frames[i] EXCEPT !.result = "lost"]
  ELSE frames[i]]

(* The C function returns and FFICall with it: V8 throws what is scheduled  *)
(* in the proxy, which does not catch it (Objective-C builds also throw     *)
(* what the C function has thrown) ...                                      *)
FFICallThrows == /\ Running("c")
                 /\ scheduled' = 0
                 /\ stack' = Tell(Front(stack))
                 /\ UNCHANGED <<live, pinned>>

(* ... or else the proxy dereferences the result.                           *)
FFICallReturns == /\ Running("c") /\ scheduled = 0
                  /\ stack' = Front(stack)
                  /\ UNCHANGED <<scheduled, live, pinned>>

-----------------------------------------------------------------------------
(* Direct callbacks: DispatchToV8 and the wrapper it calls *)

(* C calls a callback: one of the arguments, or one the program has made.   *)
Invoke == /\ Running("c") /\ Len(stack) < MaxDepth
          /\ stack' = Append(stack, JsFrame)
          /\ UNCHANGED <<scheduled, live, pinned>>

(* The wrapper has set the return value. *)
CallbackReturns == /\ InCallback
                   /\ stack' = Front(stack)
                   /\ UNCHANGED <<scheduled, live, pinned>>

(* The return value for the innermost C function is not written. *)
Fails(frames, result) == Mark(frames, Len(frames), result)

(* DispatchToV8 schedules an error for that, over one that is there.        *)
Schedule(frames) ==
  /\ scheduled' = Len(frames)
  /\ stack' = Fails(Mark(frames, scheduled, "replaced"), "owed")

(* The arguments, the function or ref.set throws: the wrapper returns the   *)
(* error.                                                                   *)
CallbackFailsFault_Ignored ==   \* faulty: what the wrapper returns is dropped
  /\ InCallback
  /\ stack' = Fails(Front(stack), "owed")
  /\ UNCHANGED <<scheduled, live, pinned>>
CallbackFails == /\ InCallback
                 /\ Schedule(Front(stack))
                 /\ UNCHANGED <<live, pinned>>

(* The same, but `undefined` is thrown: that looks like success.            *)
CallbackThrowsUndefined ==
  /\ InCallback
  /\ LET below == Front(stack)
     IN  stack' = IF Last(below).result = "owed" THEN below
                                                 ELSE Fails(below, "silent")
  /\ UNCHANGED <<scheduled, live, pinned>>

(* C calls a pointer it has kept for too long, and the memory says so:      *)
(* DispatchToV8 schedules an error of its own.                              *)
InvokeCollected == /\ Running("c")
                   /\ Schedule(stack)
                   /\ UNCHANGED <<live, pinned>>

(* An error of an earlier callback shows up in JavaScript that calls any    *)
(* native function (the wrapper's own readPointer included).                *)
Surface == /\ Running("js") /\ scheduled # 0
           /\ scheduled' = 0
           /\ stack' = Tell(stack)
           /\ UNCHANGED <<live, pinned>>

-----------------------------------------------------------------------------
(* proxy.async and the collector *)

ProxyAsync(K) == /\ MakeCallbacks(K)
                 /\ pinned' = pinned \cup K
                 /\ UNCHANGED <<stack, scheduled>>

(* An asynchronous call is complete, and its completion closure is gone.    *)
AsyncEnds(K) == /\ K \subseteq pinned
                /\ pinned' = pinned \ K
                /\ UNCHANGED <<stack, scheduled, live>>

(* argsList keeps the Buffer of each argument, which keeps its callback.    *)
ReachableFault_Innermost ==     \* faulty: only the running call keeps its own
  pinned \cup (IF stack = <<>> THEN {} ELSE Last(stack).args)
Reachable == pinned \cup UNION {stack[i].args : i \in DOMAIN stack}

Collect(k) == /\ k \in live \ Reachable
              /\ live' = live \ {k}
              /\ UNCHANGED <<stack, scheduled, pinned>>

-----------------------------------------------------------------------------
Next == \/ RunTask \/ TaskEnds
        \/ FFICallThrows \/ FFICallReturns
        \/ Invoke \/ InvokeCollected
        \/ CallbackReturns \/ CallbackFails \/ CallbackThrowsUndefined \/ Surface
        \/ \E K \in SUBSET Callbacks :
             ProxyThrows(K) \/ Proxy(K) \/ ProxyAsync(K) \/ AsyncEnds(K)
        \/ \E k \in Callbacks : Collect(k)

Spec == Init /\ [][Next]_vars

-----------------------------------------------------------------------------
(* Every variable has its type, and the stack alternates between JavaScript *)
(* and C, starting with JavaScript that the loop runs.                      *)
TypeOK ==
  /\ stack \in Seq(Frame)
  /\ \A i \in DOMAIN stack : stack[i].kind = IF i % 2 = 1 THEN "js" ELSE "c"
  /\ scheduled \in Nat
  /\ live \subseteq Callbacks /\ pinned \subseteq Callbacks

(* The scheduled exception is that of a C function on the stack, and of the *)
(* only one that owes one: none is left over to hit an unrelated call       *)
(* later, none gets lost on the way through other frames, and one that has  *)
(* replaced another came from a call further in.                            *)
ExceptionInv ==
  /\ scheduled # 0 => scheduled \in DOMAIN stack
  /\ \A i \in DOMAIN stack :
       /\ stack[i].kind = "c" /\ stack[i].result = "owed" <=> scheduled = i
       /\ stack[i].result = "replaced" => i < scheduled

(* "should throw an Error when invoked through a ForeignFunction and        *)
(* throws": a call that returns a value computed from one that a failed     *)
(* callback did not write has told JavaScript of the last such callback's   *)
(* error before, in a later callback.  Two cases are excepted: `undefined`  *)
(* was thrown, or the error was replaced by that of a call which a later    *)
(* callback made; then JavaScript has been told of that one instead.        *)
ErrorsSurface == [][FFICallReturns => Last(stack).result \notin {"owed", "replaced"}]_vars

(* The callbacks made for the arguments of a call on the stack or on the    *)
(* pool, which its C function may call at any time, are not collected.      *)
ArgumentsAlive ==
  /\ pinned \subseteq live
  /\ \A i \in DOMAIN stack : stack[i].args \subseteq live
=============================================================================
