------------------------------ MODULE Libraries ------------------------------
(***************************************************************************)
(* DynamicLibrary (src/lib/dynamic_library.js) and Library                 *)
(* (src/lib/library.js): opening shared libraries, through linker scripts  *)
(* if need be, getting function pointers from them and closing them.       *)
(*                                                                         *)
(* The loader is external, modelled from dlopen and dlclose as the code    *)
(* uses them and as src/src/win32-dlfcn.cc emulates them: a count for each *)
(* file, which is unmapped when the count comes to zero; handles are the   *)
(* same for all openings of a file.  A DynamicLibrary keeps its handle     *)
(* after close().  Library has a DynamicLibrary of its own that nobody can *)
(* close.  JavaScript runs one operation at a time: while `opening` is not *)
(* None nothing else happens.                                              *)
(***************************************************************************)
EXTENDS Naturals, FiniteSets

CONSTANTS Files,
          Program,    \* the file name NULL: the program itself
          Dls,        \* DynamicLibrary objects
          LibObjects, \* objects that Library fills
          Symbols,
          MaxScripts, \* bound: linker scripts read before the stack is full
          MaxCloses,  \* bound: calls of close() on one object
          None

ASSUME NamesAssumption == /\ Program \notin Files
                          /\ None \notin Files \cup {Program} \cup Dls \cup LibObjects
ASSUME BoundsAssumption == MaxScripts \in Nat /\ MaxCloses \in Nat
ASSUME DlsFinite == IsFiniteSet(Dls)

VARIABLES
  content,  \* what each file is
  count,    \* the loader's count for each file
  handle,   \* each DynamicLibrary's _handle: a file that was opened
  asked,    \* the path each DynamicLibrary was asked for
  closes,   \* how often close() was called on each DynamicLibrary
  private,  \* the DynamicLibrary objects made by Library
  pointers, \* the pointers got from each DynamicLibrary: "none", "live", "dangling"
  lib,      \* the DynamicLibrary each function of an object comes from
  opening,  \* the DynamicLibrary call under way
  result    \* how the last operation ended

objectVars == <<handle, asked, closes, private>>
vars == <<content, count, objectVars, pointers, lib, opening, result>>

Paths == Files \cup {Program}

(* A shared object, one that needs another file, a linker script for        *)
(* another file, any other file, or none at all.                            *)
Kinds == {"object", "needs", "script", "other", "missing"}
Contents == [kind : Kinds, file : Files]

Init == /\ content \in [Files -> Contents]
        /\ count = [f \in Files |-> 0]
        /\ handle = [d \in Dls |-> None]
        /\ asked = [d \in Dls |-> None]
        /\ closes = [d \in Dls |-> 0]
        /\ private = {}
        /\ pointers = [d \in Dls |-> "none"]
        /\ lib = [o \in LibObjects |-> [s \in Symbols |-> None]]
        /\ opening = None
        /\ result = "none"

-----------------------------------------------------------------------------
(* new DynamicLibrary(path), by the program or, for `object`, by Library *)

Start(d, path, object) ==
  /\ opening = None /\ result # "crash"
  /\ handle[d] = None
  /\ opening' = [dl |-> d, asked |-> path, path |-> path, scripts |-> 0,
                 object |-> object, step |-> "dlopen"]
  /\ UNCHANGED <<content, count, objectVars, pointers, lib, result>>

(* dlopen finds fault with a file, itself or one it needs (whatever that    *)
(* needs in turn is there).                                                 *)
Loadable(f) == content[f].kind \in {"object", "needs"}
Faulty(f) == IF f = Program THEN {}
             ELSE IF content[f].kind = "needs" THEN {content[f].file} \ {g \in Files : Loadable(g)}
             ELSE {f} \ {g \in Files : Loadable(g)}

Finish(how) == opening' = None /\ result' = how

DlopenOk ==
  LET d == opening.dl
      f == opening.path IN
  /\ opening # None /\ opening.step = "dlopen"
  /\ Faulty(f) = {}
  /\ handle' = [handle EXCEPT ![d] = f]
  /\ asked' = [asked EXCEPT ![d] = opening.asked]
  /\ count' = IF f = Program THEN count ELSE [count EXCEPT ![f] = @ + 1]
  /\ IF opening.object = None
       THEN Finish("ok") /\ UNCHANGED private
       ELSE /\ opening' = [opening EXCEPT !.step = "fill"]
            /\ private' = private \cup {d}
            /\ UNCHANGED result
  /\ UNCHANGED <<content, closes, pointers, lib>>

DlopenFailsFault_Handle ==  \* faulty: a handle is there before the script is read
  /\ opening # None /\ opening.step = "dlopen"
  /\ \E f \in Faulty(opening.path) :
       opening' = [opening EXCEPT !.path = f, !.step = "read"]
  /\ handle' = [handle EXCEPT ![opening.dl] = opening.path]
  /\ UNCHANGED <<content, count, asked, closes, private, pointers, lib, result>>

(* The message of dlerror() begins with the name of the faulty file, or not *)
(* (other names, other platforms).                                          *)
DlopenFails ==
  /\ opening # None /\ opening.step = "dlopen"
  /\ \E f \in Faulty(opening.path) :
       \/ Finish("linking error")
       \/ /\ opening' = [opening EXCEPT !.path = f, !.step = "read"]
          /\ UNCHANGED result
  /\ UNCHANGED <<content, count, objectVars, pointers, lib>>

(* The named file is read and searched for GROUP ( file ...; the constructor *)
(* calls itself, as long as there is stack.                                  *)
ReadScriptFault_AnyText ==  \* faulty: any file name in any file is taken
  LET c == content[opening.path] IN
  /\ opening # None /\ opening.step = "read"
  /\ CASE c.kind = "missing" -> Finish("ENOENT")
       [] c.kind # "missing" /\ opening.scripts = MaxScripts -> Finish("RangeError")
       [] OTHER -> /\ opening' = [opening EXCEPT !.path = c.file, !.scripts = @ + 1,
                                                 !.step = "dlopen"]
                   /\ UNCHANGED result
  /\ UNCHANGED <<content, count, objectVars, pointers, lib>>
ReadScript ==
  LET c == content[opening.path] IN
  /\ opening # None /\ opening.step = "read"
  /\ CASE c.kind = "missing" -> Finish("ENOENT")
       [] c.kind = "script" /\ opening.scripts = MaxScripts -> Finish("RangeError")
       [] c.kind = "script" /\ opening.scripts # MaxScripts ->
            /\ opening' = [opening EXCEPT !.path = c.file, !.scripts = @ + 1,
                                          !.step = "dlopen"]
            /\ UNCHANGED result
       [] OTHER -> Finish("linking error")
  /\ UNCHANGED <<content, count, objectVars, pointers, lib>>

-----------------------------------------------------------------------------
(* Library: the functions one after the other, until one is not found or    *)
(* its ForeignFunction cannot be made.  Those before it are on the object.  *)

FillFault_Close ==          \* faulty: the library is closed when Library is done
  LET d == opening.dl
      f == handle[d] IN
  /\ opening # None /\ opening.step = "fill"
  /\ \E S \in SUBSET Symbols :
       /\ lib' = [lib EXCEPT ![opening.object] =
                    [s \in Symbols |-> IF s \in S THEN d ELSE @[s]]]
       /\ pointers' = IF S = {} THEN pointers ELSE [pointers EXCEPT ![d] = "live"]
  /\ count' = IF f = Program THEN count ELSE [count EXCEPT ![f] = @ - 1]
  /\ \E how \in {"ok", "symbol error"} : Finish(how)
  /\ UNCHANGED <<content, objectVars>>
Fill ==
  LET d == opening.dl IN
  /\ opening # None /\ opening.step = "fill"
  /\ \E S \in SUBSET Symbols :
       /\ lib' = [lib EXCEPT ![opening.object] =
                    [s \in Symbols |-> IF s \in S THEN d ELSE @[s]]]
       /\ pointers' = IF S = {} THEN pointers ELSE [pointers EXCEPT ![d] = "live"]
  /\ \E how \in {"ok", "symbol error"} : Finish(how)
  /\ UNCHANGED <<content, count, objectVars>>

-----------------------------------------------------------------------------
(* get() and close() *)

Usable(d) == /\ opening = None /\ result # "crash"
             /\ handle[d] # None /\ d \notin private

Mapped(f) == IF f = Program THEN TRUE ELSE count[f] > 0

(* dlsym on a handle whose file is gone may fail or crash.                  *)
Get(d) ==
  /\ Usable(d)
  /\ \/ /\ Mapped(handle[d])
        /\ pointers' = [pointers EXCEPT ![d] = IF @ = "none" THEN "live" ELSE @]
        /\ result' = "ok"
     \/ result' = "symbol error" /\ UNCHANGED pointers
     \/ ~Mapped(handle[d]) /\ result' = "crash" /\ UNCHANGED pointers
  /\ UNCHANGED <<content, count, objectVars, lib, opening>>

(* dlclose(this._handle), and nothing else.                                 *)
CloseFault_UnmapsAlways(d) ==   \* faulty: other openings of the file do not count
  /\ Usable(d) /\ closes[d] < MaxCloses
  /\ closes' = [closes EXCEPT ![d] = @ + 1]
  /\ LET f == handle[d] IN
     \/ f = Program /\ result' = "ok" /\ UNCHANGED <<count, pointers>>
     \/ /\ f # Program /\ count[f] > 0
        /\ count' = [count EXCEPT ![f] = 0]
        /\ pointers' = [e \in Dls |-> IF handle[e] = f /\ pointers[e] = "live"
                                        THEN "dangling" ELSE pointers[e]]
        /\ result' = "ok"
  /\ UNCHANGED <<content, handle, asked, private, lib, opening>>
Close(d) ==
  /\ Usable(d) /\ closes[d] < MaxCloses
  /\ closes' = [closes EXCEPT ![d] = @ + 1]
  /\ LET f == handle[d] IN
     \/ f = Program /\ result' = "ok" /\ UNCHANGED <<count, pointers>>
     \/ /\ f # Program /\ count[f] > 0
        /\ count' = [count EXCEPT ![f] = @ - 1]
        /\ pointers' = [e \in Dls |->
             IF handle[e] = f /\ count[f] = 1 /\ pointers[e] = "live"
               THEN "dangling" ELSE pointers[e]]
        /\ result' = "ok"
     \/ /\ f # Program /\ count[f] = 0
        /\ result' \in {"close error", "crash"}
        /\ UNCHANGED <<count, pointers>>
  /\ UNCHANGED <<content, handle, asked, private, lib, opening>>

(* The program goes on with something else, or has crashed.                 *)
Idle == opening = None /\ UNCHANGED vars

Next == \/ \E d \in Dls : \/ \E path \in Paths : \E object \in LibObjects \cup {None} :
                               Start(d, path, object)
                          \/ Get(d) \/ Close(d)
        \/ DlopenOk \/ DlopenFails \/ ReadScript \/ Fill \/ Idle

Spec == Init /\ [][Next]_vars

-----------------------------------------------------------------------------
Openings == [dl : Dls, asked : Paths, path : Paths, scripts : 0..MaxScripts,
             object : LibObjects \cup {None}, step : {"dlopen", "read", "fill"}]
Results == {"none", "ok", "linking error", "ENOENT", "RangeError", "symbol error",
            "close error", "crash"}

(* Every variable has its type; only opened libraries have been closed,     *)
(* give pointers and are behind functions, and only one being opened for    *)
(* Library has a handle before its opening is over.                         *)
TypeOK ==
  /\ content \in [Files -> Contents]
  /\ count \in [Files -> Nat]
  /\ handle \in [Dls -> Paths \cup {None}] /\ asked \in [Dls -> Paths \cup {None}]
  /\ closes \in [Dls -> Nat] /\ private \subseteq Dls
  /\ pointers \in [Dls -> {"none", "live", "dangling"}]
  /\ lib \in [LibObjects -> [Symbols -> Dls \cup {None}]]
  /\ opening \in Openings \cup {None}
  /\ result \in Results
  /\ \A d \in Dls : handle[d] = None => closes[d] = 0 /\ pointers[d] = "none" /\ d \notin private
  /\ opening # None =>
       /\ opening.step = "fill" <=> handle[opening.dl] # None
       /\ opening.step = "fill" => opening.dl \in private /\ opening.object # None
       /\ opening.step = "read" => opening.path # Program

(* The program has closed no library twice.                                 *)
NoDoubleClose == \A d \in Dls : closes[d] =< 1

Open(f) == {d \in Dls : handle[d] = f /\ closes[d] = 0}

(* The loader counts every library that is open, Library's own included,    *)
(* once: no opening, failed ones and linker scripts included, leaks a count *)
(* or takes one that belongs to another object.                             *)
CountExact == NoDoubleClose => \A f \in Files : count[f] = Cardinality(Open(f))

(* A pointer stays good for as long as the object it was got from is open,  *)
(* whatever else is opened and closed on the same file.                     *)
PointersGood == NoDoubleClose => \A d \in Dls : closes[d] = 0 => pointers[d] # "dangling"

(* What Library has put on an object can be called for ever, also if        *)
(* Library threw halfway, or the object was filled again.                   *)
FunctionsGood ==
  NoDoubleClose =>
    \A o \in LibObjects : \A s \in Symbols :
      lib[o][s] # None => lib[o][s] \in private /\ pointers[lib[o][s]] = "live"

(* A file and those that linker scripts lead to from there: what every set  *)
(* contains that has the file and all that the scripts in it name.          *)
Named(f) ==
  {g \in Files : \A S \in SUBSET Files :
     f \in S /\ (\A h \in S : content[h].kind = "script" => content[h].file \in S) => g \in S}

Right(path, file) ==
  file \in Files => /\ path \in Files
                    /\ \/ file \in Named(path)
                       \/ \E f \in Named(path) : content[f].kind = "needs"

(* A chain of linker scripts ends where it should (dynamic_library.js:55 to *)
(* 60): unless one of the libraries it names needs yet another file, whose  *)
(* name the loader would then report, what gets opened is the file that was *)
(* asked for or one its scripts name.                                       *)
RightLibrary == \A d \in Dls : Right(asked[d], handle[d])
=============================================================================
