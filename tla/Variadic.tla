------------------------------- MODULE Variadic -------------------------------
(***************************************************************************)
(* VariadicForeignFunction (src/lib/foreign_function_var.js): a generator  *)
(* of functions that makes one call interface and one proxy for each list  *)
(* of variadic argument types and keeps them in a cache.                   *)
(*                                                                         *)
(* The key of the cache is made of the _ffiId of the types, which getId    *)
(* draws at random the first time it meets a type object.  All ids have    *)
(* five digits, so a joined key determines its ids: it is their sequence.  *)
(*                                                                         *)
(* A type here is a type object, after ref.coerceType.                     *)
(***************************************************************************)
EXTENDS Naturals, Sequences, FiniteSets

CONSTANTS Types,
          Unnamed,     \* types whose ffi_type has no name (structs)
          Ids, None,
          Generators,  \* calls of VariadicForeignFunction
          MaxFixed,    \* bound: fixed arguments
          MaxVariadic, \* bound: variadic arguments
          MaxCache     \* bound: functions in a cache

ASSUME TypesAssumption == /\ Unnamed \subseteq Types
                          /\ None \notin Types \cup Ids
ASSUME BoundsAssumption == {MaxFixed, MaxVariadic, MaxCache} \subseteq Nat

VARIABLES
  id,    \* each type's _ffiId
  gen,   \* each generator's fixed types, original and present return type
  cache  \* each generator's cache: a set of keys with their functions

vars == <<id, gen, cache>>

Lists(S, n) == UNION {[1..k -> S] : k \in 0..n}

Init == /\ id = [t \in Types |-> None]
        /\ gen = [g \in Generators |-> None]
        /\ cache = [g \in Generators |-> {}]

-----------------------------------------------------------------------------
(* getId for every type of S. *)
GetIdsFault_Again(S) ==     \* faulty: draws again for a type that has an id
  /\ id' \in [Types -> Ids \cup {None}]
  /\ \A t \in Types : IF t \in S THEN id'[t] \in Ids ELSE id'[t] = id[t]
GetIds(S) ==
  /\ id' \in [Types -> Ids \cup {None}]
  /\ \A t \in Types :
       IF t \in S /\ id[t] = None THEN id'[t] \in Ids ELSE id'[t] = id[t]

NewGenerator(g, rtn, fixed) ==
  /\ gen[g] = None
  /\ GetIds({fixed[i] : i \in DOMAIN fixed})
  /\ gen' = [gen EXCEPT ![g] = [fixed |-> fixed, original |-> rtn, returnType |-> rtn]]
  /\ UNCHANGED cache

(* The program assigns the generator's property returnType. *)
Patch(g, rtn) == /\ gen[g] # None
                 /\ gen' = [gen EXCEPT ![g].returnType = rtn]
                 /\ UNCHANGED <<id, cache>>

(* A call of the generator. *)
AllTypes(g, args) == gen[g].fixed \o args

KeyFault_NoReturn(ids, rtn, types) ==   \* faulty: the return type is left out
  <<None>> \o [i \in DOMAIN types |-> ids[types[i]]]
Key(ids, rtn, types) == <<ids[rtn]>> \o [i \in DOMAIN types |-> ids[types[i]]]

(* CIF_var gets the original return type, the proxy the present one.        *)
NewFunctionFault_NoArgs(g, args) == \* faulty: the proxy gets the fixed types only
  [cif |-> [rtn |-> gen[g].original, args |-> AllTypes(g, args)],
   rtn |-> gen[g].returnType, args |-> gen[g].fixed]
NewFunction(g, args) ==
  [cif |-> [rtn |-> gen[g].original, args |-> AllTypes(g, args)],
   rtn |-> gen[g].returnType, args |-> AllTypes(g, args)]

(* A type without a name: the call throws, after the ids of those before. *)
RefuseType(g, args) ==
  /\ gen[g] # None
  /\ \E i \in DOMAIN args :
       /\ args[i] \in Unnamed
       /\ \A j \in 1..(i - 1) : args[j] \notin Unnamed
       /\ GetIds({args[j] : j \in 1..(i - 1)})
  /\ UNCHANGED <<gen, cache>>

Look(g, args) ==
  /\ gen[g] # None
  /\ \A i \in DOMAIN args : args[i] \notin Unnamed
  /\ GetIds({args[i] : i \in DOMAIN args} \cup {gen[g].returnType})
  /\ UNCHANGED gen

Hits(g, args) ==
  {e \in cache[g] : e.key = Key(id', gen[g].returnType, AllTypes(g, args))}

Hit(g, args) == /\ Look(g, args)
                /\ Hits(g, args) # {}
                /\ UNCHANGED cache

(* CIF_var throws: for want of a fixed argument, or whatever else it finds. *)
CifFails(g, args) == /\ Look(g, args)
                     /\ Hits(g, args) = {}
                     /\ UNCHANGED cache

Miss(g, args) ==
  /\ Look(g, args)
  /\ Hits(g, args) = {} /\ gen[g].fixed # <<>>
  /\ Cardinality(cache[g]) < MaxCache
  /\ cache' = [cache EXCEPT ![g] = @ \cup
       {[key |-> Key(id', gen[g].returnType, AllTypes(g, args)),
         func |-> NewFunction(g, args)]}]

Next == \E g \in Generators :
          \/ \E rtn \in Types : \/ Patch(g, rtn)
                                \/ \E fixed \in Lists(Types, MaxFixed) :
                                     NewGenerator(g, rtn, fixed)
          \/ \E args \in Lists(Types, MaxVariadic) :
               \/ RefuseType(g, args) \/ Hit(g, args)
               \/ CifFails(g, args) \/ Miss(g, args)

Spec == Init /\ [][Next]_vars

-----------------------------------------------------------------------------
Signatures == [rtn : Types, args : Seq(Types)]
Functions == [cif : Signatures, rtn : Types, args : Seq(Types)]
Entries == [key : Seq(Ids), func : Functions]
GeneratorStates == [fixed : Seq(Types), original : Types, returnType : Types]

(* Every variable has its type, and the types behind a key have their ids.  *)
TypeOK ==
  /\ id \in [Types -> Ids \cup {None}]
  /\ gen \in [Generators -> GeneratorStates \cup {None}]
  /\ cache \in [Generators -> SUBSET Entries]
  /\ \A g \in Generators : cache[g] # {} => gen[g] \in GeneratorStates

(* No two types have drawn the same id, which getId cannot rule out.        *)
IdsUnique == \A t, u \in Types : id[t] = id[u] /\ id[t] # None => t = u

(* "reusing ForeignFunction instances that contain the same ffi_type        *)
(* argument signature": unless two types have drawn the same id, a call     *)
(* that hits the cache gets a function for exactly its types and the return *)
(* type the generator has now, however often it was patched and whatever    *)
(* ids were given in between.                                               *)
HitsMatch == IdsUnique =>
  \A g \in Generators : \A e \in cache[g] :
    \A args \in Lists(Types, MaxVariadic) :
      e.key = Key(id, gen[g].returnType, AllTypes(g, args)) =>
        e.func.rtn = gen[g].returnType /\ e.func.args = AllTypes(g, args)

(* test/variadic.js:28: "should return the same Function instance when the  *)
(* same arguments are used": a cache never holds two functions of one       *)
(* signature, nor two functions under one key.                              *)
SameInstance ==
  \A g \in Generators : \A e, f \in cache[g] :
    e.key = f.key \/ (e.func.rtn = f.func.rtn /\ e.func.args = f.func.args) => e = f

(* The return type can be patched "in the very rare case where the return   *)
(* type is variadic as well": the call interface returns what the proxy     *)
(* reads.                                                                   *)
CifMatchesProxy ==
  \A g \in Generators : \A e \in cache[g] : e.func.cif.rtn = e.func.rtn

(* A key is made of the ids of the signature of its function, which never   *)
(* change, whatever generators and calls share the types afterwards.        *)
KeyInv ==
  \A g \in Generators : \A e \in cache[g] :
    e.key = Key(id, e.func.rtn, e.func.args)
=============================================================================
