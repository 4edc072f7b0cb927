------------------------- MODULE CallbackRendezvous -------------------------
(***************************************************************************)
(* What ffi.Callback promises to native threads.  A thread that calls the  *)
(* C function pointer hands its invocation over to the JavaScript thread,  *)
(* is blocked until the JavaScript function has run for it, and then       *)
(* returns.  Invocations are executed one at a time and in the order in    *)
(* which they were handed over, as long as the process is running.         *)
(*                                                                         *)
(* Nothing here is about mutexes, condition variables or the event loop:   *)
(* ThreadedCallback is shown to implement this module.                     *)
(***************************************************************************)
EXTENDS Sequences

CONSTANT Threads        \* the native threads

VARIABLES call,         \* the state of each thread's invocation
          order,        \* the invocations not executed yet, oldest first
          open          \* the process is running

vars == <<call, order, open>>

Init == /\ call = [t \in Threads |-> "idle"]
        /\ order = <<>>
        /\ open = TRUE

(* A thread hands an invocation over. *)
Request(t) == /\ open
              /\ call[t] = "idle"
              /\ call' = [call EXCEPT ![t] = "requested"]
              /\ order' = Append(order, t)
              /\ open' = open

(* The JavaScript function has run for the oldest invocation. *)
Execute == /\ open
           /\ order # <<>>
           /\ call' = [call EXCEPT ![Head(order)] = "executed"]
           /\ order' = Tail(order)
           /\ open' = open

(* Only then does the thread get its answer. *)
Return(t) == /\ open
             /\ call[t] = "executed"
             /\ call' = [call EXCEPT ![t] = "idle"]
             /\ UNCHANGED order /\ open' = open

(* The process ends, and its threads with it. *)
Close == open /\ open' = FALSE /\ UNCHANGED <<call, order>>

Next == \/ Execute
        \/ Close
        \/ \E t \in Threads : Request(t) \/ Return(t)

Spec == /\ Init /\ [][Next]_vars
        /\ WF_vars(Execute)
        /\ \A t \in Threads : WF_vars(Return(t))
=============================================================================
