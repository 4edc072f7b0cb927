# TLA+ models and proofs for node-ffi

node-ffi lets JavaScript call C functions and lets C call JavaScript functions.
This directory holds TLA+ models of its code, TLC configurations that check them
on small instances, and TLAPS proofs of the properties that matter most. Paths
below are relative to the repository (`src/` is its root here).

## 1. The system

| Part | Code | State | Operations |
| --- | --- | --- | --- |
| Threaded callbacks | `src/src/callback_info.cc`, `threaded_callback_invokation.cc` | `g_queue`, `g_queue_mutex`, `g_async`, one `m_mutex`/`m_cond` per invocation, the loop's handle count | `Invoke`, `WatcherCallback`, `DispatchToV8`, constructor/destructor, `WaitForExecution`, `SignalDoneExecuting`, `Initialize` |
| Callback lifetime | `callback_info.cc`, `src/lib/callback.js` | closure memory (`callback_info`), two persistent handles, the Buffer of the code pointer, its `_cif` | `Callback` (JS and native), `closure_pointer_cb`, late calls |
| Asynchronous calls | `src/lib/_foreign_function.js` (`proxy.async`), `src/src/ffi.cc` | `AsyncCallParams`, `uv_work_t`, the completion closure, four Buffers | `FFICallAsync`, `AsyncFFICall`, `FinishAsyncFFICall` |
| Synchronous calls | `_foreign_function.js` (`proxy`), `foreign_function.js`, `FFICall` | fresh Buffers per call; V8's scheduled exception; the callbacks made for arguments | marshal, `ffi_call`, direct callbacks, dereference |
| Call interfaces | `cif.js`, `cif_var.js`, `FFIPrepCif[Var]`, libffi's `prep_cif.c` | `ffi_cif` Buffers | prepare, status to error |
| ffi_type of a type | `type.js`, `ffi.js` | `type.ffi_type` cache, hand-made `ffi_type` structs | `Type` |
| Variadic functions | `foreign_function_var.js` | `cache`, `_ffiId` of types | generator |
| Libraries | `dynamic_library.js`, `library.js`, `win32-dlfcn.cc` | handles, `lastError` | open (with linker scripts), `get`, `close`, `Library` |
| Function types, errno, initialisation | `function.js`, `errno.js`, `ffi.js`, `bindings.js` | constants | conversions |
| libffi | `deps/libffi` (vendored) | closure allocator | external |

How they interact: `Library` opens a `DynamicLibrary` and makes `ForeignFunction`s
(or variadic ones), each a cif plus a proxy. A proxy call runs C on the main
thread; `proxy.async` runs it on libuv's pool and comes back through the loop.
C code may hold a code pointer made by `ffi.Callback`; when it calls it on the main
thread the JavaScript function runs directly, on any other thread the call is
queued, the loop is woken up by `g_async` and the thread sleeps until the main
thread has run the function.

Where it is hard: native threads, the pool and the main thread share a queue,
condition variables and the loop's reference count; the garbage collector frees
Buffers whose raw addresses C has; user code runs in the middle of every
operation and may throw, nest, drop references or start more work. The full
list of hazards, each at its line, is `PROJECT.json`, `hazards`.

What makes each part correct:

- threaded callbacks: an invocation is executed once, in order, and its thread
  returns after that and not before; no signal and no wake-up is lost; nothing
  deleted is referred to; the loop stays open meanwhile and is released after.
- callback lifetime: a closure in use is its Buffer's and has that callback's function,
  handles and cif; a call runs its own function or reports an error.
- synchronous calls: the error of a callback, or of a nested one that replaced it, reaches
  JavaScript before a value computed from its missing result does, and no error is left over;
  callbacks made for arguments outlive their call; a call from a thread is answered unless the
  main thread's C code waits for that thread.
- asynchronous calls: Buffers outlive the work; each callback is called
  once, later, with its own result; native memory is exact.
- call interfaces and types: the layout libffi computes is the one the
  JavaScript struct uses; a failed preparation leaves nothing behind.
- variadic functions: equal keys only for equal signatures; the cif and the proxy agree.
- libraries: a symbol is only used while its library is open; failures leave no partial object.

## 2. Modules

| Module | What it is |
| --- | --- |
| `CallbackRendezvous` | abstract specification: callers hand requests over, the host executes them first come first served, each caller continues after its own |
| `ThreadedCallback` | `Invoke`, `WatcherCallback` and the invocation object, one action per lock, signal, queue and flag operation |
| `ThreadedCallbackProofs` | type correctness, the inductive invariant and its consequences; what the reference of `g_async` holds until two uses of it overlap; `ThreadedCallback` implements the safety part of `CallbackRendezvous` |
| `AsyncCall` | `proxy.async` and its binding, with pool threads and the collector |
| `AsyncCallProofs` | the inductive invariant of `AsyncCall` and its consequences |
| `ClosureLifetime` | creation, collection, reuse and late calls of callbacks |
| `ClosureLifetimeProofs` | invariants of the closures for all programs, and of calls as long as the program is careful |
| `ForeignCall` | foreign calls on the main thread, the callbacks C makes meanwhile, their errors and the callbacks made for arguments |
| `ForeignCallProofs` | its invariants, for any depth of nesting and any callbacks |
| `CallSystem` | `ForeignCall` and `CallbackRendezvous` composed: the loop, pool and native threads that call back, and C code on the main thread that waits for a thread |
| `CallSystemProofs` | the composition implements both parts; its invariants; the circular wait is for good |
| `FfiType` | `Type()` with its cache, `CIF`/`CIF_var` and libffi's layout of structs, against the layout of C, on several platforms; the size of result Buffers |
| `FfiTypeProofs` | libffi's layout is that of C, for structs of any number, nesting and length |
| `Variadic` | the cache of variadic functions, its keys and the ids of types |
| `VariadicProofs` | keys, instances and hits of the cache |
| `Libraries` | `DynamicLibrary` with linker scripts, `get`, `close`, and `Library` |
| `LibrariesProofs` | the loader's counts are exact; pointers and functions stay good; scripts lead where they should |
| `MCThreadedCallback`, `MCAsyncCall`, `MCClosureLifetime`, `MCFfiType`, `MCVariadic`, `MCLibraries` | symmetry sets and constant values for TLC |

`CallbackRendezvous` stands between two levels. `ThreadedCallback`, with every lock and
signal, implements it; `CallSystem` uses it for calls from threads and adds what the
main thread does meanwhile. The other components (types, libraries, variadic
functions, closures) share no state with a call under way but what their properties
guarantee to it.

In every module an operator named `...Fault_...` is a plausible bug of the definition next
to it. No specification uses it; `PROJECT.json` (`mutants`) pairs each
with the property that must notice when it takes that definition's place.

### ThreadedCallback

`pc[t]` is the place of a native thread in `Invoke`; `main` that of the main thread in
the loop, `WatcherCallback` and `SignalDoneExecuting`. `queue`, `queueMutex`,
`invMutex`, `cur` are `g_queue`, `g_queue_mutex`, `m_mutex` and `inv`. `outcome` is what
`DispatchToV8` did for an invocation. `refFlag`, `activeHandles` and `reg` are
the flag of `g_async`, the loop's count, and the copy of the count a thread
has read: `uv_ref` and `uv_unref` are three steps each (test, set the flag and
read, write) because they run without a lock. `nested` counts direct callbacks on the main
thread, which are legal inside `DispatchToV8` with the queue's mutex held. Two variables are
history, read by no action: `unsignalled`, a wait has returned without a signal, which `WaitForExecution` has no
predicate to notice; and `raced`, two uses of `g_async`'s reference have overlapped (two threads between the start of
`uv_ref` and the end of `uv_unref`, or the main thread changing the count while a thread does). The code is wrong
after either; the properties say what holds until then.

Abstractions. A thread has at most one invocation at a time, so an invocation is named
by its thread; after a spurious wake-up the thread may come back with a new
invocation, and the model then behaves as if the allocator had reused the
memory. Pushing and unlocking are one step, as nobody else can look at the queue
between them. `LoopExit` ends all threads at once. Other handles (`others`)
start and stop only from the loop, not from within callbacks. The value a
callback returns is not modelled; an error reported by `errorReportCallback`
is one outcome, ending the process because nobody handles it (`UncaughtError`) another.
The same code is compiled for all platforms except for the thread comparison.

### ForeignCall

`stack` is the main thread's stack: JavaScript calls C through `proxy` and `FFICall` (`Proxy`), C
calls JavaScript through `Invoke` and `DispatchToV8` (`Invoke`), and so on. A callback
that fails cannot unwind the C function that called it: `Nan::ThrowError` schedules its
error, C goes on with a return value nobody wrote, and V8 throws the error
where native code next returns to JavaScript: in the proxy (`FFICallThrows`) or in a later
callback (`Surface`). There is one place for such an error, `scheduled`, which names
the frame of the C function whose callback it comes from. Another error takes that place (`Schedule`):
a second one of the same C function, which JavaScript is then told of as this call's failure, or one of a
call further in. The latter needs a callback that gets to `ffi_call` with an error scheduled, that is
without calling a native function that returns before; the proxy calls some for every argument
(`ref`'s, and `ffi.Callback`'s in `MakeCallbacks`), but for a function without arguments only `new Buffer`, which on
Node 6 and later takes its memory from a pool without one. `result` of a C frame says whether its value
can be trusted: `good`, or computed from a missing one whose error is `owed`, was `told`,
was `undefined` (`silent`), or was replaced by one from further in, which JavaScript has
still to be told of (`replaced`) or was told of instead (`lost`). `args` of a frame are the callbacks that
`Function.set` made for its arguments, which its C function may call; `live` are the ones not collected,
`pinned` those of asynchronous calls. What keeps the collector from them is `Reachable`.
An error that C code itself raises (Objective-C builds) is `FFICallThrows` too. Not
modelled: values, and which JavaScript catches what.

### CallSystem

`call` and `order` are the rendezvous, `thread` what each native or pool thread is doing,
`draining` that `WatcherCallback` holds `g_queue_mutex`, `joining` the thread that the innermost C
function waits for. The main thread's steps are `ForeignCall`'s, the calls of
threads `CallbackRendezvous`'s; a dispatch is a task of the loop whose frame is at the bottom of
the stack, as `WatcherCallback` only runs from the loop. `Completed` is the end of an asynchronous
call, which lets its `args` go. The loop stays open here: `ThreadedCallback` has what happens to its reference.

### AsyncCall

`phase[c]` follows one call of `proxy.async`; `stack` holds the calls with a
JavaScript frame (a callback may start new calls). `poolQueue`, `worker`, `doneQueue` are
libuv's; `persistent` and `params` are the `Nan::Callback` and the two
structures made by `FFICallAsync`. `mem` and `content` give the state of each
Buffer and who wrote its result; `Reachable` is what the collector may not
take: what the proxy, a frame that is marshalling, or a persistent completion
closure refers to. The process may end after any callback that throws. Not modelled: the
argument values, and `uv_queue_work` failing (its return value is ignored and
it only fails without a work function).

### ClosureLifetime

`buffer`, `held`, `cifs` are the Buffers and the references the program keeps;
`slotOf`, `inUse`, `info` the closure memory: an address, whether it is allocated, and the
`callback_info` in it. `functions` and `errorFunctions` are the persistent handles. `inC` are the
callbacks C may still start a call of, `thread` each native thread's call (waiting for the main
thread, executing there, or on its way back to C), `stack` the frames on the main thread. A call keeps
the cif libffi found when it started.

A use of freed memory may go either way: it finds what was there last or what the next
owner wrote, or the process crashes (`Crash`), because libffi's allocator writes its links over the
trampoline (`dlmalloc.c`) or gives the pages back. Uses are: the closure and its cif when a call
starts (`UnsafeStart`); `function` or, if that is NULL, `errorFunction` in `DispatchToV8` (`Dangles`);
`errorFunction` when an error is reported (`ReportError`, `callback_info.cc:78`); and at the end of a
call the cif again and the trampoline (`UnsafeEnd`), which on 32-bit x86 and 64-bit Windows
libffi reads after the callback (`deps/libffi/src/x86/ffi.c:476`, `:500`) and, for STDCALL and
THISCALL, returns into (`:603-641`). Other builds do neither; the model takes the worst of them.
A deleted handle is always a crash.

The ghost variable `careful` records the duty the test suite leaves "up to the developer"
(`test/callback.js:189-197`): it turns false when a Buffer is forgotten while C may start a call of it
or is not back from one. The order and the mutexes of the rendezvous are `ThreadedCallback`'s: here waiting calls
are executed in any order, which only adds behaviours.

### FfiType

`platform` is what the process runs on: C's size of `long` and pointers, the largest
alignment, the size of `ffi_arg`, and whether types come from the program's own copy of `ref`.
`Builtin` is the ffi_type a primitive type gets: from `ffi.js` (`Own`), or for another
copy by name from `FFI_TYPES` and then by size (`Searched`). `fields` are the fields of each
struct type, chosen once; `ffi_type` the cached `ffi_type` of each with the size and alignment
libffi has written into it; `accepted` the struct types in call interfaces that were
returned. One action is one call of `CIF` or `CIF_var`: `Type()` for every type in turn, which may
throw (`TypeThrows`); then `ffi_prep_cif` refuses the ABI (`BadAbi`) or lays out the types in turn,
until one fails (`BadTypedef`) or all are done (`PrepOk`). JavaScript runs one such call at a time.
`Type()` and `initialize_aggregate` call themselves for the structs inside: they are the recursive
functions `Make` and `Aggregate`, from a struct to what the call does to the memory of the
ffi_types (`Memories`) and whether it returned. Both have an operator (`MakeStruct`, `InitializeAggregate`) for one
call, which is given that function; a loop in them is a `Run`, the last of the memories its steps come to.
`CLayout` is the reference definition of the layout in C, `ResultSize` the size of `proxy`'s result
Buffer. A `Platform` has `ffi_arg` no smaller than `long`, as libffi widens integers to it. Struct types are numbered and contain
earlier ones only, as a C struct does. One type stands for others like it (`long` for `ulong`,
`char` for all of a byte, `pointer` for all pointers). `Valid` excludes structs with
an array of arrays from the comparison: `Type()` makes pointers of its rows (section 5).
What `ffi_prep_cif_machdep` does after the layout is left out.

### Variadic

`id` is `_ffiId` of each type object, `gen` the arguments of each call of
`VariadicForeignFunction` with the present `returnType`, `cache` its cache. Every id has
five hexadecimal digits (`1 + Math.random()` is at least 1), so a joined key
stands for the sequence of its ids. Ids are drawn at random and may repeat; `IdsUnique`
says that no two types have the same.
A call looks up its key (`Hit`, `Miss`), or throws at a type without a name
(`RefuseType`, after the ids of the types before it) or in `CIF_var` (`CifFails`).

### Libraries

`content` is what each file is, `count` the loader's count for it, `handle` and
`closes` what each `DynamicLibrary` opened and how often it was closed, `private` the
ones inside `Library`, `pointers` what was got from each, `lib` which one each function of an
object comes from. An opening is several steps (`DlopenOk`, `DlopenFails`, `ReadScript`, `Fill`)
because the constructor calls itself, but nothing else happens meanwhile. The loader's
own keeping of needed files is left out: a file whose count is zero is taken as
unmapped, so a pointer may dangle in the model where a dependency would keep it good.

## 3. Runs

| Run | Instance | Shows |
| --- | --- | --- |
| `rendezvous` | 2 threads, direct callbacks nested once, 1 other handle | no invocation is repeated or stranded; every call returns unless the process ends; `CallbackRendezvous` is implemented with its fairness |
| `races` | 2 threads, 1 other handle, direct callbacks nested once, spurious wake-ups on | until a wait returns without a signal: answers before returns, no deleted invocation in use; until uses of the loop's reference overlap: the loop stays open during a call and is released after it |
| `loop_not_held` | 2 threads | finding: the loop exits under an executing callback |
| `async` | 3 calls, 2 pool threads | Buffers, results, callbacks and native memory of overlapping calls; calls complete, Buffers are collected |
| `closure` | 3 callbacks, 2 closures, 2 threads, 2 frames, any program | the bookkeeping of closures and handles; while the program is careful, calls run their own function and nothing freed is used until libffi is back in C |
| `closure_stale` | 2 callbacks, 1 closure | finding: a late call does not always throw the promised error |
| `layout` | 64-bit Windows and LP64 with foreign types; all pairs of struct types with up to 2 fields, arrays, arrays of arrays, nesting; signatures of 2 types | the layout of C, valid types never half done, results fit their Buffer |
| `layout_longlong` | 32-bit Linux, structs with a `long long` | finding: `long long` gets libffi's type for `long` |
| `variadic` | 3 types, 4 ids that may repeat, 1 generator, 1 fixed and 2 variadic arguments | keys stay right, one function per signature, a hit is right while ids are unique |
| `variadic_return` | as `variadic` | finding: a patched return type does not reach the cif |
| `libraries` | 2 files, 3 library objects, 1 filled object, 2 symbols | counts, pointers and functions; scripts lead where they should |
| `calls` | 2 threads, 1 callback made for an argument (and reused), 5 frames on the main stack | errors of callbacks, or the ones that replace them, come before the values made without them, callbacks of arguments live as long as the call, threads are answered but for a circular wait, which is for good |

Bounds. Two threads have one served while the other is anywhere, and two signals that
could be confused; a third (one served, two queued) is covered by the proofs, which
hold for any number. `MaxNest` 1 already puts a direct callback inside a dispatch.
`CountModulus` stands for 2^32: the
count must wrap below zero, and 3 or 4 leave room for the largest right count (`MaxOthers + 1`). Counts that lost
updates have driven far off come back to zero sooner than they would at 2^32; that only adds exits of the loop
after a race, where `races` does not ask it to stay open, and `rendezvous` never does. `MaxQueue` only limits
new calls when spurious wake-ups leave stale entries behind. Five frames in `calls` have a
callback of a callback's foreign call fail while an error of the outer call is scheduled,
and a C function can wait at two depths; one callback Buffer is made, collected and
made again by calls on both threads. Three calls on two
pool threads have one waiting, one running and one finishing. Three
callbacks on two closures have one closure reused while another callback waits or executes; two threads
have one call waiting while the other is executing or on its way back, with a direct call inside.
The platforms of `layout` differ in the size of `long` and in the way
types are found. Two struct types, one inside the other, with two fields of alignments 1 and 8 and arrays of
odd length need padding between fields, at the end and around the inner struct; two
types in a signature let one fail after the other was laid out. Three types (one unnamed)
and two variadic arguments make keys of different lengths and orders. Two
files with three objects have a file opened twice and a script naming the other
file. `MaxScripts` stands for the depth of the JavaScript stack, `MaxCloses` 2 includes
the double close that the properties exclude. The
proofs have none of these bounds.

Deadlock is checked everywhere except in two runs. In `races`, after a
spurious wake-up the main thread can wait for ever for the mutex of an invocation
that its owner has deleted (in the model: for a mutex its owner holds). In `calls` the
program really stops when C code on the main thread waits for a thread that waits for
the main thread (`Circular`, the deadlock of `callback_info.cc:193`); `CallbacksAnswered` says
that this is the only way for a call to stay unanswered. Processes
that have ended stutter (`Over`, `Idle`).

Fairness. `InvokeStep(t)` is weakly fair: the scheduler runs every thread that can
run. `LockQueue(t)` is strongly fair: a mutex that is free again and again is
eventually granted. `WatcherStep` is weakly fair. `Wakeup` is strongly fair because
libuv handles a pending async handle at the next turn of the loop, however
often direct callbacks or handle changes come first; `DispatchDone` is strongly fair
because a user callback that keeps starting nested callbacks still
returns. `ReturnOnMain` and `HandleStore` are weakly fair: JavaScript functions
return. Nothing makes a thread `Enter`, a wait end spuriously, a
callback throw or the loop exit. In `CallSystem`
a frame that again and again could return does (`Returns`, strongly fair for each depth: C and
JavaScript functions do not run, call or collect for ever), the loop gets round to a pending
`g_async` (`WatcherLock`, strong, as for `Wakeup`), `Dispatch`, `WatcherUnlock` and `JoinEnds` are the next thing
their thread does, threads run (weak), and `g_queue_mutex`, free again and again,
is granted (`InvokeQueues`, strong). Nothing makes C code wait for a thread or start one, or
collects a callback. In `AsyncCall` C functions and callbacks return
(`MainStep`, `PoolStep`, `CallClosure`) and the collector gets to every garbage
Buffer (`Collect`); the last is an assumption about V8 that only
`BuffersFreed` needs.

## 4. Proofs

All theorems hold for every value of the constants allowed by the named
assumptions of the modules.

`ThreadedCallbackProofs`. `TypeCorrect` needs nothing else. `RendezvousCorrect` proves the inductive
invariant `RendezvousInv`, whose `HandshakeInv` part holds until a wait returns without a signal: the properties
alone are not inductive, since whether a thread may be signalled depends on who is
queued (`QueueInv`: each queued thread once, handed over, not executed), whom the
main thread serves and how far it is (`ServiceInv`), which threads have an
outcome (`OutcomeInv`) and who holds `m_mutex` (`InvMutexInv`: the owner,
except while it sleeps). That `SignalDoneExecuting` needs the mutex and the owner holds it from
the constructor to the wait gives `SignalFindsWaiter`; that
only a signal ends the wait gives `OrderOfExecution`, and with it `NoUseAfterFree`
and `ExactlyOnce`. `NoStranded` is inductive by itself together with the types: a thread that
has pushed and not yet sent is at `send`; it and `QueueAccessExclusive` hold after a spurious wake-up too. `LoopHeldUnlessRaced` and
`LoopReleasedUnlessRaced` rest on `ReferenceInv`: until a race one thread at a time refers to the loop (`Alone`), the flag
and the count follow it, and a copy of the count, a thread's or the main thread's, is still right when it is written
back (`ThreadReference`, `MainReference`).

The refinement (`RendezvousRefined`) reads a caller's state off
`pc` and `outcome`, and the order of requests off `queue` with the invocation being
dispatched in front. The push is the request, the end of `DispatchToV8` the
execution, the destructor the return; everything else stutters. It assumes `SpuriousWakeups = FALSE`: a
caller that returns unanswered implements nothing.

`ForeignCallProofs`. The stack alternates and keeps its type because every step pushes, pops
or re-labels (`PushAlternates`, `PopAlternates`, `SameAlternates`). `ExceptionInv`
is inductive with it, as `Accounted(stack, scheduled)`: a push or pop of JavaScript leaves it alone, a
failure makes the innermost C frame the only one that owes and the former one `replaced`, further out
(`ScheduleAccounted`), telling leaves no debt (`TellAccounted`). `ErrorsSurface` follows: when `FFICall` returns
normally nothing is scheduled, so its frame neither owes nor waits for one further in. `ArgumentsAlive` is about what C may call
and does not mention `Reachable`, which only guards `Collect`; it rests on
`Kept(stack)`: `MakeCallbacks` takes Buffers that are not in use and adds them to `live`, and what is kept
on the stack or pinned is within `Reachable`.

`CallSystemProofs`. `LocalTypes` and `OrderInv` (the queue holds the requested invocations, each once) are
inductive. Under them every step of the composition is a step of `ForeignCall` or none
(`ImplementsForeignCall`), and one of `CallbackRendezvous` or none (`ImplementsRendezvous`, its safety part), so that
the theorems of `ForeignCall` carry over. `CircularIsForGood` goes action by action: the main
thread's frame is C and `joining`, so only threads and the collector move, and the
thread that would have to move needs the mutex or an execution.

`AsyncCallProofs`. `AsyncInv` adds to the types: finished work waits once
(`DoneInv`), native memory follows the phases (`NativeMemory`), reachable
Buffers are alive (`ReachableAlive`), results and deliveries follow the phases
(`DeliveryInv`). `BuffersAlive` follows because `params` and `persistent` are the same calls and
the completion closure captures all that `AsyncFFICall` uses. `TypeOK` also says which calls have a
frame on the stack; that takes `StackInv` (no call twice, only the innermost frame is one
that is marshalling). `NeverSynchronous` holds of each step by itself.

`ClosureLifetimeProofs`. For any program `ClosureInv` and `HandleInv` are
invariants; the latter needs `InfoInv`: a `function` handle is named
only by the closure of its live Buffer or was left behind by a failed preparation, so
deleting it leaves no other closure dangling. As long as `careful` is true, `CarefulInv` (what C may call or
is not back from is held) makes every wanted pointer lead to a closure in use with its own cif
(`WantedWorks`), and `OwnCifs` says that calls under way started with that cif: so neither the start nor
the end of a call can crash, and `OwnFunction` and `NoCrash` follow.

`VariadicProofs`. `VariadicInv`: keys consist of ids and are the keys of their own
function's signature (`KeyInv`), fixed types have ids (`FixedInv`), and no two
functions share a key or a signature (`SameInstance`). The argument is that ids are given once: the
types behind a key have theirs, so the key of a signature never changes; and if ids are unique,
equal keys have equal elements, which gives `HitsMatch`.

`LibrariesProofs`. `LibrariesInv`: types, `CountExact`, `PointersGood`, and that nobody
closes what `Library` opened (`PrivateInv`). A file whose count is 1 has exactly one open object
(cardinality of a finite set of objects, assumption `DlsFinite`), so the close
that unmaps it concerns no other object's pointers; `FunctionsGood` follows.

`RightLibrary` speaks of the least set of files that is closed under what a script names, so it is
shown without a recursive definition: the invariant is that the opening under way is at a file in
every such set (`RightOpening`), which a `ReadScript` keeps because it follows one name (`ScriptRight`).

`FfiTypeProofs`. `Make`, `Aggregate` and `CLayout` are recursive functions on the structs. That such a function
satisfies its own definition has to be proved: `RecursionExists` does, from the fact that a struct's value
depends on earlier structs only (`MakeDepends`, `AggregateDepends`, `CLayoutDepends`). It rests, like every
induction here, on `SetInduction`: a set of numbers that has 0 and the successor of each member is `Nat`, shown
with the library's theorem on minimal elements (`WFMin`) because the prover cannot use the ones that take a
predicate. `LoopRule` is the same for the steps of a loop.

- `TypeOK`: `Type()` only adds fresh ffi_types whose elements are there (`Grows`); libffi only writes sizes, only
  where they were 0 and only of the struct and those before it (`Keeps`); it succeeds with a size.
- `PlainLayout` is what `NoHalfLayout` and `LayoutMatches` say, of plain structs: valid ones that have no
  `long long` at any depth where `long` has only four bytes. It holds on every platform. It is
  not inductive: whether a size is right depends on the elements and on the structs inside. The
  inductive invariant is `TypeOK /\ Clean`: every ffi_type has the elements of its fields, and a plain struct's
  with a size has its final layout. `Clean` survives `initialize_aggregate`
  by induction over the structs (`AggregateClean`): a plain struct has plain structs inside, so none of its elements fails, and
  each is placed as `Placed` says. `Placed` goes element by element and C field by field, arrays at once and
  by the first multiple that fits: that both come to the same size and alignment is `PlacedIsC`
  (`ElementPlaces`: which elements are whose; `PlacedArray`: copies of an element need no padding between them).
- `NoHalfLayout` and `LayoutMatches` follow where every valid struct is plain (`AllPlain`), and `ResultFits`
  since sizes and the result Buffer are then C's.

These three assume `LongLongFits`: where a struct may have a `long long`, `long` has eight bytes.
Without it the code is wrong (section 5, finding 4), and TLC refutes `LayoutMatches`.

`RendezvousCorrect`, `SignalFindsWaiterHolds`, `QueueAccessExclusiveHolds`, `RendezvousRefined`,
`AsyncCorrect`, `KeysRight` and the theorems of `ForeignCall` are about invariants no run lists,
because others follow from them or, for `ForeignCall`, because `calls` checks them in the composition.

Only model-checked: everything about liveness (`InvokeCompletes`,
`ImplementsRendezvous` of `ThreadedCallback` with its fairness, `AsyncCompletes`, `BuffersFreed`, `CallbacksAnswered`), because the
proof system does not reason about fairness and ENABLED.

## 5. Findings

1. `uv_ref`/`uv_unref` on `g_async` (`callback_info.cc:176`, `:196`) do not hold
   the loop open for more than one thread (`loop_not_held`); until two uses of it overlap they
   do (`races`).
2. The check for a collected callback reads freed memory
   (`callback_info.cc:45`, `:57`; `closure_stale`).
3. The patched return type of a variadic function does not reach its cif
   (`foreign_function_var.js:80`; `variadic_return`).
4. `long long` is given libffi's type for `long` (`ffi.cc:155`): where `long` has four bytes, half of
   the value is passed, and structs are laid out wrong (`layout_longlong`).

Seen while modelling and left out of what the properties claim; no run is kept for these:

- `WaitForExecution` calls `uv_cond_wait` once and without a predicate
  (`threaded_callback_invokation.cc:27`): when that returns without a signal, the C caller
  reads a result that is not there and the queue keeps a deleted invocation: `OrderOfExecution`, `NoUseAfterFree`
  and `ExactlyOnce` end there (`unsignalled`);
- a callback that throws `undefined` looks like one that returned (`callback_info.cc:74`), and
  `errorReportCallback` ignores every falsy error (`callback.js:13-23`): `silent` results;
- a callback whose Buffer is dropped while it is executing (by its own function, as its last call) may be collected
  before it is over: `DispatchToV8` then reads `errorFunction` out of the freed closure (`callback_info.cc:78`), and
  libffi's x86 code the collected cif (`deps/libffi/src/x86/ffi.c:476`, `:500`): `careful` asks to keep it until C is back;
- the scheduled error of one callback can be thrown into a later callback of the same C function,
  which may catch it: the outer call then returns a value (`told` results); of several errors of
  one call JavaScript is told of the last;
- if that later callback calls a function without arguments instead, whose own callback fails too, the
  second error replaces the first (`callback_info.cc:80`): JavaScript is told of the second, and the outer call
  returns a value although nobody was told of the first (`lost` results; `ErrorsSurface` excepts them);
- on 64-bit Windows (`long` of 4 bytes, `ffi_arg` of 8) an integer result of 4 bytes gets a Buffer of 4
  bytes, into which libffi writes 8 (`_foreign_function.js:23`): the premise of `ResultFits`;
- a function obtained as a result of type `ffi.Function` (`abs` in `test/function.js:31-42`) calls a
  callback that nothing keeps after the call that returned it: `ArgumentsAlive` ends with the call;
- the search by name in `Type()` walks the prototype chain and assigns `ffi_type = undefined` on what it passes,
  `Object.prototype` included, when it finds nothing (`type.js:119`);
- with two threads the unlocked `uv_unref` calls can both subtract and leave the loop's
  count wrong for good (`callback_info.cc:196`): `LoopReleased` ends at the race (`raced`);
- a struct type with an empty struct inside is refused the first time and accepted the
  second, with the size summed up so far (`type.js:108`, `prep_cif.c:54`): `Valid`;
- an array of arrays in a struct becomes pointers, although the comment at `type.js:75-76`
  says arrays are accounted for (`type.js:96`): `Valid`;
- type ids are random and not compared, so two types may share an instance
  (`foreign_function_var.js:99`): `IdsUnique`;
- the fallback for linker scripts also starts when the library is just missing, and the
  caller then gets `ENOENT` in place of the loader's message (`dynamic_library.js:63-67`);
- if a library that is needed turns out to be a linker script, what that script names is opened
  in place of the library asked for (`dynamic_library.js:66-70`): `RightLibrary`.

## 6. Not modelled, and the plan

Not modelled:

- the values of arguments and results, and their conversions by `ref`: types, layouts, sizes and
  outcomes are, values are not;
- function types as results (`Function.get`): they make a plain `ForeignFunction`;
- `errno.js`: a synchronous call with no state of its own; what the runtime does to `errno`
  between two calls is not this code's;
- constants and module initialisation beyond `FFI_TYPES` and `CallbackInfo::Initialize`;
- C code that waits for another native thread on a thread of its own, and deadlocks within C;
- redefining the fields of a struct after its first use (`ref-struct` is another package);
- libffi's machine-dependent code, its build files, tests and examples.

What could be added: `ClosureLifetime` put under `CallSystem`, so that the callbacks of arguments
are closures that are reused, and the loop's reference in `CallSystem` (`open` as a variable), with the process ending
in the middle of nested calls.
