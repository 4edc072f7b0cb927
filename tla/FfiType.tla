------------------------------- MODULE FfiType -------------------------------
(***************************************************************************)
(* Type() of src/lib/type.js, which finds or makes the ffi_type of a type, *)
(* and the preparation of call interfaces that uses it: CIF and CIF_var    *)
(* (src/lib), FFIPrepCif and FFIPrepCifVar (src/src/ffi.cc) and libffi's   *)
(* machine-independent layout (deps/libffi/src/prep_cif.c).                *)
(*                                                                         *)
(* Type() makes the ffi_type of a struct once, without a layout, and       *)
(* caches it on the type.  libffi writes size and alignment into it the    *)
(* first time a call interface uses it, and goes by size = 0 to see that   *)
(* it has not done so.                                                     *)
(*                                                                         *)
(* Programs finish a struct type before they use it: `fields` does not     *)
(* change.  The platform decides what size a type has in C and which of    *)
(* libffi's types ffi.js and FFI_TYPES (src/src/ffi.cc) give it.           *)
(***************************************************************************)
EXTENDS Naturals, Sequences, SequencesExt

CONSTANTS
  NumStructs,   \* struct types, each made of earlier ones
  char, long, longlong, size_t, pointer,  \* types of ref, for others like them
  sint8, sint32, sint64,                  \* types of libffi (also: pointer)
  Unknown,      \* a type with no ffi_type
  Platforms,    \* C's sizes of long and pointers, the largest alignment, the
                \* size of ffi_arg; whether types come from another copy of ref;
                \* bound: the types that fields may have
  Dims,         \* lengths of array fields, outermost first; <<>>: no array
  MaxFields,    \* bound: fields of a struct
  MaxTypes,     \* bound: return and argument types of a function
  None

Structs  == 1..NumStructs
Prims    == {char, long, longlong, size_t, pointer}
Builtins == {sint8, sint32, sint64, pointer}

(* ffi_arg is what libffi widens integers to: never less than a long.       *)
Platform == {p \in [long : {4, 8}, pointer : {4, 8}, align : {4, 8}, ffi_arg : {4, 8},
                    copy : BOOLEAN, types : SUBSET Prims] : p.long =< p.ffi_arg}

FfiTypes == [size : Nat, alignment : Nat, elements : Seq(Builtins \cup Structs)]
CLayouts == [size : Nat, align : Nat]

ASSUME TypesAssumption ==
  /\ NumStructs \in Nat /\ MaxFields \in Nat /\ MaxTypes \in Nat
  /\ Platforms \subseteq Platform
  /\ \A d \in Dims : d \in Seq(Nat \ {0})
ASSUME NamesAssumption ==
  /\ char \notin {long, longlong, size_t, pointer} /\ long \notin {longlong, size_t, pointer}
  /\ longlong \notin {size_t, pointer} /\ size_t # pointer
  /\ sint8 \notin {sint32, sint64, pointer} /\ sint32 \notin {sint64, pointer}
  /\ sint64 # pointer
  /\ Unknown \notin Prims \cup Structs /\ None \notin Builtins \cup Structs
  /\ None \notin FfiTypes \cup CLayouts
  /\ Structs \cap (Prims \cup Builtins) = {}

VARIABLES
  platform, \* what the process runs on
  fields,   \* the fields of each struct type, in order
  ffi_type, \* the cached ffi_type of each struct type, with its memory
  accepted  \* the struct types of the call interfaces made so far

vars == <<platform, fields, ffi_type, accepted>>

FieldTypes(s) == [base : platform.types \cup 1..(s - 1), dims : Dims]
                 \cup {[base |-> Unknown, dims |-> <<>>]}

FieldLists(s) == UNION {[1..n -> FieldTypes(s)] : n \in 0..MaxFields}

Init == /\ platform \in Platforms
        /\ fields \in {f \in [Structs -> UNION {FieldLists(s) : s \in Structs}] :
                         \A s \in Structs : f[s] \in FieldLists(s)}
        /\ ffi_type = [s \in Structs |-> None]
        /\ accepted = {}

(* The memory of the cached ffi_types.  What an operation returns, or       *)
(* throws, it does so with the memory it leaves.                            *)
Memories == [Structs -> FfiTypes \cup {None}]
Outcomes == [ok : BOOLEAN, ffi : Memories]

(* The elements of an ffi_type are those of earlier structs, which are there. *)
WellFormed(ffi) == \A s \in Structs : ffi[s] # None =>
  \A i \in DOMAIN ffi[s].elements :
    ffi[s].elements[i] \in Builtins \cup {e \in 1..(s - 1) : ffi[e] # None}

(* A loop of n steps, functions of what the steps before have come to.      *)
Trace(n, step, x) == LET after[i \in 0..n] == IF i = 0 THEN x ELSE step[i][after[i - 1]]
                     IN  after
Run(n, step, x) == Trace(n, step, x)[n]

-----------------------------------------------------------------------------
(* The ffi_type of the types ref has *)

CSize(n) == CASE n = char -> 1
              [] n = long -> platform.long
              [] n = longlong -> 8
              [] n \in {size_t, pointer} -> platform.pointer

BuiltinSize(b) == CASE b = sint8 -> 1 [] b = sint32 -> 4 [] b = sint64 -> 8
                    [] b = pointer -> platform.pointer

AlignOf(size) == IF size > platform.align THEN platform.align ELSE size

IntType(size) == IF size = 4 THEN sint32 ELSE sint64

(* InitializeBindings: long long is ffi_type_slong, libffi's type for long. *)
FFI_TYPES == [n \in {char, longlong, pointer} |->
  IF n = char THEN sint8 ELSE IF n = longlong THEN IntType(platform.long) ELSE pointer]

(* ffi.js gives these to the types of its own ref. *)
OwnFault_Long64(n) ==           \* faulty: long as libffi has it by default
  IF n \in {size_t, pointer} THEN pointer ELSE IF n = char THEN sint8 ELSE sint64
Own(n) == IF n = size_t THEN pointer
          ELSE IF n = long THEN IntType(platform.long)
          ELSE FFI_TYPES[n]

(* Type() searches FFI_TYPES for the name of another copy's type, then for  *)
(* that of its prototype, the integer of the same size.                     *)
Searched(n) == IF n \in DOMAIN FFI_TYPES THEN FFI_TYPES[n] ELSE IntType(CSize(n))

Builtin(n) == IF platform.copy THEN Searched(n) ELSE Own(n)

-----------------------------------------------------------------------------
(* Type() *)

(* What an array field contributes: its elements, one level deep.  The      *)
(* element of an array of arrays is an array, which gets `pointer`.         *)
ElementType(f) == IF Len(f.dims) > 1 THEN pointer ELSE f.base
Count(f) == IF f.dims = <<>> THEN 1 ELSE Head(f.dims)

Element(f) == IF ElementType(f) \in Prims THEN Builtin(ElementType(f)) ELSE ElementType(f)

Elements(s) ==
  Run(Len(fields[s]),
      [i \in DOMAIN fields[s] |-> [q \in Seq(Builtins \cup Structs) |->
         q \o [j \in 1..Count(fields[s][i]) |-> Element(fields[s][i])]]],
      <<>>)

NewFfiType(s) == [size |-> 0, alignment |-> 0, elements |-> Elements(s)]

(* The ffi_types after Type(t), and whether it returned or threw, `make`    *)
(* being what it does with a struct that has none.                          *)
Type(make, t, ffi) ==
  IF t = Unknown THEN [ok |-> FALSE, ffi |-> ffi]
  ELSE IF t \in Prims \/ ffi[t] # None THEN [ok |-> TRUE, ffi |-> ffi]
  ELSE make[t][ffi]

(* One type after the other, until one throws.                              *)
TypeEach(make, types, ffi) ==
  Run(Len(types),
      [i \in DOMAIN types |-> [r \in Outcomes |->
         IF r.ok THEN Type(make, types[i], r.ffi) ELSE r]],
      [ok |-> TRUE, ffi |-> ffi])

(* The structs inside come first; one that throws leaves those before it.   *)
MakeStruct(make, s, ffi) ==
  LET inner == TypeEach(make, [i \in DOMAIN fields[s] |-> ElementType(fields[s][i])], ffi)
  IN  IF inner.ok THEN [inner EXCEPT !.ffi[s] = NewFfiType(s)] ELSE inner

Untyped(s) == {ffi \in Memories : ffi[s] = None}

Make[s \in Structs] == [ffi \in Untyped(s) |-> MakeStruct(Make, s, ffi)]

TypeAll(types) == TypeEach(Make, types, ffi_type)

-----------------------------------------------------------------------------
(* ffi_prep_cif *)

RoundUpFault_None(n, a) == n    \* faulty: no padding
RoundUp(n, a) == IF a = 0 THEN 0 ELSE ((n + a - 1) \div a) * a
Larger(a, b) == IF a > b THEN a ELSE b

Size(t, ffi)  == IF t \in Builtins THEN BuiltinSize(t) ELSE ffi[t].size
Align(t, ffi) == IF t \in Builtins THEN AlignOf(BuiltinSize(t)) ELSE ffi[t].alignment

(* initialize_aggregate(t) if its size is 0, `aggregate` being what that    *)
(* function does.                                                           *)
Initialize(aggregate, t, ffi) ==
  IF Size(t, ffi) # 0 THEN [ok |-> TRUE, ffi |-> ffi] ELSE aggregate[t][ffi]

Unsized(s) == {ffi \in Memories : WellFormed(ffi) /\ ffi[s] # None /\ ffi[s].size = 0}

(* An element e of s goes after the one before, at its alignment.           *)
Place(s, e, ffi) ==
  [ffi EXCEPT ![s].size = RoundUp(@, Align(e, ffi)) + Size(e, ffi),
              ![s].alignment = Larger(@, Align(e, ffi))]

PlaceNext(aggregate, s, e, r) ==
  LET i == Initialize(aggregate, e, r.ffi)
  IN  IF ~r.ok THEN r ELSE IF ~i.ok THEN i ELSE [i EXCEPT !.ffi = Place(s, e, @)]

(* Each element is initialized and placed.  A failure returns at once and   *)
(* leaves what has been written of the sizes.                               *)
PlaceAll(aggregate, s, ffi) ==
  LET elements == ffi[s].elements
  IN  Run(Len(elements),
          [i \in DOMAIN elements |-> [r \in Outcomes |-> PlaceNext(aggregate, s, elements[i], r)]],
          [ok |-> TRUE, ffi |-> [ffi EXCEPT ![s].alignment = 0]])

InitializeAggregate(aggregate, s, ffi) ==
  LET all == PlaceAll(aggregate, s, ffi)
      size == RoundUp(all.ffi[s].size, all.ffi[s].alignment)
  IN  IF all.ok THEN [ok |-> size # 0, ffi |-> [all.ffi EXCEPT ![s].size = size]] ELSE all

Aggregate[s \in Structs] == [ffi \in Unsized(s) |-> InitializeAggregate(Aggregate, s, ffi)]

(* The return type and the arguments in turn, until one fails.              *)
PrepCif(types, ffi) ==
  Run(Len(types),
      [i \in DOMAIN types |-> [r \in Outcomes |->
         IF r.ok THEN Initialize(Aggregate, types[i], r.ffi) ELSE r]],
      [ok |-> TRUE, ffi |-> ffi])

-----------------------------------------------------------------------------
(* CIF and CIF_var: each throws, or returns a Buffer with the ffi_cif.      *)

(* Type() throws for one of the types. *)
TypeThrows(types) ==
  /\ ~TypeAll(types).ok
  /\ ffi_type' = TypeAll(types).ffi
  /\ UNCHANGED <<platform, fields, accepted>>

(* FFI_BAD_ABI is found before any type is looked at. *)
BadAbi(types) ==
  /\ TypeAll(types).ok
  /\ ffi_type' = TypeAll(types).ffi
  /\ UNCHANGED <<platform, fields, accepted>>

(* FFI_BAD_TYPEDEF throws, but the types stay as libffi has left them. *)
BadTypedefFault_Ignored(types) ==   \* faulty: the status is not looked at
  LET made == TypeAll(types)
      prep == PrepCif(types, made.ffi) IN
  /\ made.ok /\ ~prep.ok
  /\ ffi_type' = prep.ffi
  /\ accepted' = accepted \cup (ToSet(types) \cap Structs)
  /\ UNCHANGED <<platform, fields>>
BadTypedef(types) ==
  LET made == TypeAll(types)
      prep == PrepCif(types, made.ffi) IN
  /\ made.ok /\ ~prep.ok
  /\ ffi_type' = prep.ffi
  /\ UNCHANGED <<platform, fields, accepted>>

PrepOk(types) ==
  LET made == TypeAll(types)
      prep == PrepCif(types, made.ffi) IN
  /\ made.ok /\ prep.ok
  /\ ffi_type' = prep.ffi
  /\ accepted' = accepted \cup (ToSet(types) \cap Structs)
  /\ UNCHANGED <<platform, fields>>

(* ForeignFunction: the bytes of the result Buffer for a type of this size. *)
ResultSizeFault_Plain(size) == size   \* faulty: no room for an ffi_arg
ResultSize(size) == IF size >= platform.long THEN size ELSE platform.ffi_arg

Signatures == UNION {[1..n -> Structs \cup {pointer}] : n \in 1..MaxTypes}

Next == \E types \in Signatures :
          TypeThrows(types) \/ BadAbi(types) \/ BadTypedef(types) \/ PrepOk(types)

Spec == Init /\ [][Next]_vars

-----------------------------------------------------------------------------
(* What does not change.                                                    *)
Setting == /\ platform \in Platforms
           /\ DOMAIN fields = Structs
           /\ \A s \in Structs : fields[s] \in Seq(FieldTypes(s))

(* A cached ffi_type has its cached elements; one in an accepted call       *)
(* interface is there and has a size.                                       *)
TypeOK ==
  /\ Setting
  /\ ffi_type \in Memories /\ WellFormed(ffi_type)
  /\ \A s \in accepted : s \in Structs /\ ffi_type[s] # None /\ ffi_type[s].size > 0

(* Reference definition: the layout a C compiler gives the same struct, and *)
(* None for what C does not accept: an empty struct, an unknown type; also  *)
(* where there is an array of arrays, which Type() turns into a pointer.    *)
FirstFit(n, a) == CHOOSE m \in n..(n + a - 1) : m % a = 0

CType(declared, t) ==
  IF t \in Prims THEN [size |-> CSize(t), align |-> AlignOf(CSize(t))]
  ELSE IF t \in Structs THEN declared[t] ELSE None

CAccepts(declared, s) ==
  fields[s] # <<>> /\ \A i \in DOMAIN fields[s] :
    CType(declared, fields[s][i].base) # None /\ Len(fields[s][i].dims) =< 1

CStruct(declared, s) ==
  LET field(f) == [l \in CLayouts |->
        LET e == CType(declared, f.base)
        IN  [size |-> FirstFit(l.size, e.align) + Count(f) * e.size,
             align |-> Larger(l.align, e.align)]]
      all == Run(Len(fields[s]), [i \in DOMAIN fields[s] |-> field(fields[s][i])],
                 [size |-> 0, align |-> 1])
  IN  [all EXCEPT !.size = FirstFit(@, all.align)]

CLayout[s \in Structs] == IF CAccepts(CLayout, s) THEN CStruct(CLayout, s) ELSE None

Valid(s) == CLayout[s] # None

LaidOut(s) == ffi_type[s].size = CLayout[s].size /\ ffi_type[s].alignment = CLayout[s].align

(* Once a call interface has been made with a valid struct type, libffi     *)
(* passes the struct with the size and alignment C gives it, whatever other *)
(* types and interfaces have failed before or after.                        *)
LayoutMatches == \A s \in accepted : Valid(s) => LaidOut(s)

(* A failure halfway through a call interface never leaves a valid struct   *)
(* type half laid out: size = 0 always means that nothing has been done,    *)
(* and any other size is final.                                             *)
NoHalfLayout == \A s \in Structs :
  ffi_type[s] # None /\ Valid(s) => ffi_type[s].size = 0 \/ LaidOut(s)

(* ffi_call fits into the result Buffer: for an integer it writes at least  *)
(* an ffi_arg, for a struct what the call interface says.  (Not where long  *)
(* is smaller than ffi_arg, as on 64-bit Windows.)                          *)
ResultFits == platform.ffi_arg =< platform.long =>
  /\ \A n \in platform.types :
       Larger(BuiltinSize(Builtin(n)), platform.ffi_arg) =< ResultSize(CSize(n))
  /\ \A s \in accepted : Valid(s) => ffi_type[s].size =< ResultSize(CLayout[s].size)
=============================================================================
