---------------------------- MODULE VariadicProofs ----------------------------
(***************************************************************************)
(* The cache of a variadic function, for every number of types and every   *)
(* number of arguments: one function for each signature, and, as long as   *)
(* ids are unique, a hit is right.                                         *)
(***************************************************************************)
EXTENDS Variadic, TLAPS

(* The fixed types of a generator have their ids.                           *)
FixedInv ==
  \A g \in Generators : gen[g] # None =>
    \A i \in DOMAIN gen[g].fixed : id[gen[g].fixed[i]] # None

VariadicInv == TypeOK /\ KeyInv /\ FixedInv /\ SameInstance

(* A key, element by element.                                               *)
LEMMA KeyElements ==
  ASSUME NEW ids \in [Types -> Ids \cup {None}], NEW rtn \in Types, NEW types \in Seq(Types)
  PROVE  /\ Key(ids, rtn, types) \in Seq(Ids \cup {None})
         /\ Len(Key(ids, rtn, types)) = Len(types) + 1
         /\ Key(ids, rtn, types)[1] = ids[rtn]
         /\ \A i \in 1..Len(types) : Key(ids, rtn, types)[i + 1] = ids[types[i]]
<1> DEFINE tail == [i \in DOMAIN types |-> ids[types[i]]]
<1>1. tail \in Seq(Ids \cup {None}) /\ Len(tail) = Len(types) /\ \A i \in 1..Len(types) : tail[i] = ids[types[i]]
  OBVIOUS
<1>2. Key(ids, rtn, types) = <<ids[rtn]>> \o tail
  BY DEF Key
<1> HIDE DEF tail
<1>3. ids[rtn] \in Ids \cup {None} OBVIOUS
<1> QED BY <1>1, <1>2, <1>3

LEMMA ListsAreSequences ==
  ASSUME NEW n \in Nat, NEW list \in Lists(Types, n)
  PROVE  list \in Seq(Types)
<1>1. PICK k \in 0..n : list \in [1..k -> Types] BY DEF Lists
<1> QED BY <1>1

(* Ids are given once: a type that has one keeps it.                        *)
LEMMA IdsStay ==
  ASSUME NEW S, TypeOK, GetIds(S)
  PROVE  /\ id' \in [Types -> Ids \cup {None}]
         /\ \A t \in Types : id[t] # None => id'[t] = id[t]
         /\ \A t \in Types : t \in S => id'[t] \in Ids
<1>1. id' \in [Types -> Ids \cup {None}] BY DEF GetIds
<1>2. \A t \in Types : id[t] # None => id'[t] = id[t] BY DEF GetIds
<1>3. \A t \in Types : t \in S => id'[t] \in Ids BY DEF GetIds, TypeOK
<1> QED BY <1>1, <1>2, <1>3

(* So the key of a signature whose types have ids does not change.          *)
LEMMA KeysStay ==
  ASSUME NEW S, TypeOK, GetIds(S), NEW rtn \in Types, NEW types \in Seq(Types),
         Key(id, rtn, types) \in Seq(Ids)
  PROVE  Key(id', rtn, types) = Key(id, rtn, types)
<1> DEFINE k == Key(id, rtn, types)
           l == Key(id', rtn, types)
<1>1. id \in [Types -> Ids \cup {None}] /\ id' \in [Types -> Ids \cup {None}]
  BY IdsStay DEF TypeOK
<1>2. /\ k \in Seq(Ids) /\ l \in Seq(Ids \cup {None})
      /\ Len(k) = Len(types) + 1 /\ Len(l) = Len(types) + 1
      /\ k[1] = id[rtn] /\ l[1] = id'[rtn]
      /\ \A i \in 1..Len(types) : k[i + 1] = id[types[i]] /\ l[i + 1] = id'[types[i]]
  BY <1>1, KeyElements
<1> HIDE DEF k, l
<1>3. \A t \in Types : id[t] \in Ids => id'[t] = id[t]
  BY IdsStay, TypesAssumption
<1>4. l[1] = k[1]
  <2>1. k[1] \in Ids BY <1>2
  <2> QED BY <1>2, <1>3, <2>1
<1>5. ASSUME NEW i \in 1..Len(types) PROVE l[i + 1] = k[i + 1]
  <2>1. k[i + 1] \in Ids /\ types[i] \in Types BY <1>2
  <2> QED BY <1>2, <1>3, <2>1
<1>6. \A j \in 1..(Len(types) + 1) : l[j] = k[j]
  <2> SUFFICES ASSUME NEW j \in 1..(Len(types) + 1) PROVE l[j] = k[j] OBVIOUS
  <2>1. CASE j = 1 BY <1>4, <2>1
  <2>2. CASE j # 1
    <3>1. j - 1 \in 1..Len(types) /\ (j - 1) + 1 = j BY <2>2
    <3> QED BY <1>5, <3>1
  <2> QED BY <2>1, <2>2
<1>7. l = k BY <1>2, <1>6
<1> QED BY <1>7 DEF k, l

(* Unique ids make keys unique.                                             *)
LEMMA KeysDiffer ==
  ASSUME TypeOK, IdsUnique, NEW r1 \in Types, NEW r2 \in Types,
         NEW t1 \in Seq(Types), NEW t2 \in Seq(Types),
         Key(id, r1, t1) \in Seq(Ids), Key(id, r1, t1) = Key(id, r2, t2)
  PROVE  r1 = r2 /\ t1 = t2
<1> DEFINE k == Key(id, r1, t1)
<1>0. id \in [Types -> Ids \cup {None}] BY DEF TypeOK
<1>1. /\ k \in Seq(Ids) /\ Len(k) = Len(t1) + 1 /\ k[1] = id[r1]
      /\ \A i \in 1..Len(t1) : k[i + 1] = id[t1[i]]
  BY <1>0, KeyElements
<1>2. /\ Len(k) = Len(t2) + 1 /\ k[1] = id[r2]
      /\ \A i \in 1..Len(t2) : k[i + 1] = id[t2[i]]
  BY <1>0, KeyElements
<1> HIDE DEF k
<1>3. \A t, u \in Types : id[t] = id[u] /\ id[t] \in Ids => t = u
  BY TypesAssumption DEF IdsUnique
<1>4. r1 = r2
  <2>1. k[1] \in Ids BY <1>1
  <2> QED BY <1>1, <1>2, <1>3, <2>1
<1>5. Len(t1) = Len(t2) BY <1>1, <1>2
<1>6. ASSUME NEW i \in 1..Len(t1) PROVE t1[i] = t2[i]
  <2>1. k[i + 1] \in Ids /\ t1[i] \in Types /\ t2[i] \in Types BY <1>1, <1>5
  <2> QED BY <1>1, <1>2, <1>3, <1>5, <2>1
<1>7. t1 = t2 BY <1>5, <1>6
<1> QED BY <1>4, <1>7

LEMMA InitInv == Init => VariadicInv
BY DEF Init, VariadicInv, TypeOK, SameInstance, KeyInv, FixedInv

(* Giving ids keeps everything that is known of the functions in a cache.   *)
LEMMA EntriesStay ==
  ASSUME VariadicInv, NEW S, GetIds(S), NEW g \in Generators, NEW e \in cache[g]
  PROVE  e.key = Key(id', e.func.rtn, e.func.args)
<1>1. TypeOK /\ e.key = Key(id, e.func.rtn, e.func.args) BY DEF VariadicInv, KeyInv
<1>2. e.func.rtn \in Types /\ e.func.args \in Seq(Types) /\ e.key \in Seq(Ids)
  BY <1>1 DEF TypeOK, Entries, Functions
<1> QED BY <1>1, <1>2, KeysStay

LEMMA FixedStay ==
  ASSUME VariadicInv, NEW S, GetIds(S), NEW g \in Generators, gen[g] # None
  PROVE  \A i \in DOMAIN gen[g].fixed : id'[gen[g].fixed[i]] # None
<1>1. gen[g].fixed \in Seq(Types) BY DEF VariadicInv, TypeOK, GeneratorStates
<1>2. TypeOK BY DEF VariadicInv
<1> QED BY <1>1, <1>2, IdsStay DEF VariadicInv, FixedInv

LEMMA NewGeneratorStep ==
  ASSUME VariadicInv, NEW g \in Generators, NEW rtn \in Types,
         NEW fixed \in Lists(Types, MaxFixed), NewGenerator(g, rtn, fixed)
  PROVE  VariadicInv'
<1> DEFINE S == {fixed[i] : i \in DOMAIN fixed}
<1>0. TypeOK /\ SameInstance BY DEF VariadicInv
<1>1. GetIds(S) /\ gen[g] = None /\ cache' = cache
      /\ gen' = [gen EXCEPT ![g] = [fixed |-> fixed, original |-> rtn, returnType |-> rtn]]
  BY DEF NewGenerator
<1>2. fixed \in Seq(Types) BY ListsAreSequences, BoundsAssumption
<1>3. [fixed |-> fixed, original |-> rtn, returnType |-> rtn] \in GeneratorStates
  BY <1>2 DEF GeneratorStates
<1>4. TypeOK'
  <2>1. gen' \in [Generators -> GeneratorStates \cup {None}] BY <1>0, <1>1, <1>3 DEF TypeOK
  <2>2. id' \in [Types -> Ids \cup {None}] BY <1>0, <1>1, IdsStay
  <2>3. \A h \in Generators : gen[h] \in GeneratorStates => gen'[h] \in GeneratorStates
    BY <1>0, <1>1, <1>3 DEF TypeOK
  <2> QED BY <1>0, <1>1, <2>1, <2>2, <2>3 DEF TypeOK
<1>5. SameInstance' BY <1>0, <1>1 DEF SameInstance
<1>6. KeyInv' BY <1>1, EntriesStay DEF KeyInv
<1>7. FixedInv'
  <2> SUFFICES ASSUME NEW h \in Generators, gen'[h] # None, NEW i \in DOMAIN gen'[h].fixed
               PROVE  id'[gen'[h].fixed[i]] # None
    BY DEF FixedInv
  <2>1. CASE h = g
    <3>1. gen'[h].fixed = fixed BY <1>0, <1>1, <2>1 DEF TypeOK
    <3>2. fixed[i] \in S /\ fixed[i] \in Types BY <1>2, <3>1
    <3>3. id'[fixed[i]] \in Ids BY <1>0, <1>1, <3>2, IdsStay
    <3> QED BY <3>1, <3>3, TypesAssumption
  <2>2. CASE h # g
    <3>1. gen'[h] = gen[h] BY <1>0, <1>1, <2>2 DEF TypeOK
    <3> QED BY <1>1, <3>1, FixedStay
  <2> QED BY <2>1, <2>2
<1> QED BY <1>4, <1>5, <1>6, <1>7 DEF VariadicInv

LEMMA PatchStep ==
  ASSUME VariadicInv, NEW g \in Generators, NEW rtn \in Types, Patch(g, rtn)
  PROVE  VariadicInv'
<1> USE DEF VariadicInv
<1>1. gen[g] \in GeneratorStates /\ gen' = [gen EXCEPT ![g].returnType = rtn]
      /\ UNCHANGED <<id, cache>>
  BY DEF Patch, TypeOK
<1>2. gen'[g] \in GeneratorStates /\ gen'[g].fixed = gen[g].fixed
      /\ \A h \in Generators \ {g} : gen'[h] = gen[h]
  BY <1>1 DEF TypeOK, GeneratorStates
<1>3. TypeOK'
  <2>1. gen' \in [Generators -> GeneratorStates \cup {None}] BY <1>1, <1>2 DEF TypeOK
  <2> QED BY <1>1, <1>2, <2>1 DEF TypeOK
<1>4. FixedInv' BY <1>1, <1>2 DEF FixedInv, Patch
<1> QED BY <1>1, <1>3, <1>4 DEF SameInstance, KeyInv

(* What a call knows before it looks into the cache.                        *)
LEMMA CallKnows ==
  ASSUME VariadicInv, NEW g \in Generators, NEW args \in Lists(Types, MaxVariadic), Look(g, args)
  PROVE  /\ gen[g] \in GeneratorStates /\ gen' = gen
         /\ AllTypes(g, args) \in Seq(Types)
         /\ id' \in [Types -> Ids \cup {None}]
         /\ Key(id', gen[g].returnType, AllTypes(g, args)) \in Seq(Ids)
         /\ \A h \in Generators : \A e \in cache[h] :
              e.key = Key(id', e.func.rtn, e.func.args)
         /\ FixedInv'
<1> DEFINE S == {args[i] : i \in DOMAIN args} \cup {gen[g].returnType}
           all == AllTypes(g, args)
           k == Key(id', gen[g].returnType, all)
<1>1. TypeOK /\ FixedInv BY DEF VariadicInv
<1>2. gen[g] # None /\ GetIds(S) /\ gen' = gen BY DEF Look
<1>3. gen[g] \in GeneratorStates BY <1>1, <1>2 DEF TypeOK
<1>4. args \in Seq(Types) BY ListsAreSequences, BoundsAssumption
<1>5. gen[g].fixed \in Seq(Types) /\ gen[g].returnType \in Types BY <1>3 DEF GeneratorStates
<1>6. /\ all \in Seq(Types) /\ Len(all) = Len(gen[g].fixed) + Len(args)
      /\ \A i \in 1..Len(all) : \/ i \in DOMAIN gen[g].fixed /\ all[i] = gen[g].fixed[i]
                                \/ \E j \in DOMAIN args : all[i] = args[j]
  <2>1. all = gen[g].fixed \o args BY DEF AllTypes
  <2> QED BY <1>4, <1>5, <2>1
<1>7. id' \in [Types -> Ids \cup {None}] BY <1>1, <1>2, IdsStay
<1>8. \A i \in 1..Len(all) : id'[all[i]] \in Ids
  <2> SUFFICES ASSUME NEW i \in 1..Len(all) PROVE id'[all[i]] \in Ids OBVIOUS
  <2>1. all[i] \in Types BY <1>6
  <2>2. CASE i \in DOMAIN gen[g].fixed /\ all[i] = gen[g].fixed[i]
    <3>1. id'[all[i]] # None BY <1>2, <2>2, FixedStay
    <3> QED BY <1>7, <2>1, <3>1
  <2>3. CASE \E j \in DOMAIN args : all[i] = args[j]
    <3>1. all[i] \in S BY <2>3
    <3> QED BY <1>1, <1>2, <2>1, <3>1, IdsStay
  <2> QED BY <1>6, <2>2, <2>3
<1>9. k \in Seq(Ids)
  <2>1. /\ k \in Seq(Ids \cup {None}) /\ Len(k) = Len(all) + 1
        /\ k[1] = id'[gen[g].returnType]
        /\ \A i \in 1..Len(all) : k[i + 1] = id'[all[i]]
    BY <1>5, <1>6, <1>7, KeyElements
  <2>2. k[1] \in Ids
    <3>1. gen[g].returnType \in S OBVIOUS
    <3>2. id'[gen[g].returnType] \in Ids BY <1>1, <1>2, <1>5, <3>1, IdsStay
    <3> QED BY <2>1, <3>2
  <2> HIDE DEF k, all
  <2>3. ASSUME NEW j \in 1..Len(k) PROVE k[j] \in Ids
    <3>1. CASE j = 1 BY <2>2, <3>1
    <3>2. CASE j # 1
      <4>1. j - 1 \in 1..Len(all) /\ (j - 1) + 1 = j BY <1>6, <2>1, <3>2
      <4> QED BY <1>8, <2>1, <4>1
    <3> QED BY <3>1, <3>2
  <2> QED BY <2>1, <2>3
<1>10. \A h \in Generators : \A e \in cache[h] : e.key = Key(id', e.func.rtn, e.func.args)
  BY <1>2, EntriesStay
<1>11. FixedInv' BY <1>2, FixedStay DEF FixedInv
<1> QED BY <1>2, <1>3, <1>6, <1>7, <1>9, <1>10, <1>11

LEMMA CallStep ==
  ASSUME VariadicInv, NEW g \in Generators, NEW args \in Lists(Types, MaxVariadic),
         Hit(g, args) \/ CifFails(g, args) \/ Miss(g, args)
  PROVE  VariadicInv'
<1>1. Look(g, args) BY DEF Hit, CifFails, Miss
<1> DEFINE all == AllTypes(g, args)
           k == Key(id', gen[g].returnType, all)
           new == [key |-> k, func |-> NewFunction(g, args)]
<1>2. /\ gen[g] \in GeneratorStates /\ gen' = gen /\ all \in Seq(Types)
      /\ id' \in [Types -> Ids \cup {None}] /\ k \in Seq(Ids)
      /\ \A h \in Generators : \A e \in cache[h] : e.key = Key(id', e.func.rtn, e.func.args)
      /\ FixedInv'
  BY <1>1, CallKnows
<1>3. cache' = cache \/ cache' = [cache EXCEPT ![g] = cache[g] \cup {new}]
  BY DEF Hit, CifFails, Miss
<1>4. /\ new.key = k /\ new.func \in Functions
      /\ new.func.rtn = gen[g].returnType /\ new.func.args = all
  BY <1>2 DEF NewFunction, Functions, Signatures, GeneratorStates
<1> HIDE DEF new, all, k
<1>5. ASSUME NEW h \in Generators, NEW e \in cache'[h]
      PROVE  e \in cache[h] \/ (h = g /\ e = new)
  <2>1. CASE cache' = cache BY <2>1
  <2>2. CASE cache' = [cache EXCEPT ![g] = cache[g] \cup {new}]
    BY <2>2 DEF VariadicInv, TypeOK
  <2> QED BY <1>3, <2>1, <2>2
<1>6. TypeOK'
  <2>1. new \in Entries BY <1>2, <1>4 DEF new, k, Entries
  <2>2. cache' \in [Generators -> SUBSET Entries]
    BY <1>3, <2>1 DEF TypeOK, VariadicInv
  <2>3. \A h \in Generators : cache'[h] # {} => gen'[h] \in GeneratorStates
    BY <1>2, <1>5 DEF TypeOK, VariadicInv
  <2> QED BY <1>2, <2>2, <2>3 DEF TypeOK, VariadicInv
<1>7. KeyInv'
  <2> SUFFICES ASSUME NEW h \in Generators, NEW e \in cache'[h]
               PROVE  e.key = Key(id', e.func.rtn, e.func.args)
    BY DEF KeyInv
  <2>1. CASE e \in cache[h] BY <1>2, <2>1
  <2>2. CASE e = new
    <3>1. k = Key(id', gen[g].returnType, all) BY DEF k
    <3> QED BY <1>4, <2>2, <3>1
  <2> QED BY <1>5, <2>1, <2>2
<1>8. SameInstance'
  <2>1. CASE cache' = cache BY <2>1 DEF VariadicInv, SameInstance
  <2>2. CASE Miss(g, args)
    <3>1. \A e \in cache[g] : e.key # k BY <2>2 DEF Miss, Hits, k, all
    <3> SUFFICES ASSUME NEW h \in Generators, NEW e \in cache'[h], NEW f \in cache'[h],
                        \/ e.key = f.key
                        \/ e.func.rtn = f.func.rtn /\ e.func.args = f.func.args
                 PROVE  e = f
      BY DEF SameInstance
    <3>2. e.key = f.key BY <1>7 DEF KeyInv
    <3>3. CASE e \in cache[h] /\ f \in cache[h]
      BY <3>2, <3>3 DEF VariadicInv, SameInstance
    <3>4. CASE ~(e \in cache[h] /\ f \in cache[h]) BY <1>4, <1>5, <3>1, <3>2, <3>4
    <3> QED BY <3>3, <3>4
  <2> QED BY <2>1, <2>2 DEF Hit, CifFails
<1> QED BY <1>2, <1>6, <1>7, <1>8 DEF VariadicInv

LEMMA RefuseStep ==
  ASSUME VariadicInv, NEW g \in Generators, NEW args \in Lists(Types, MaxVariadic),
         RefuseType(g, args)
  PROVE  VariadicInv'
<1>1. PICK i \in DOMAIN args : GetIds({args[j] : j \in 1..(i - 1)})
  BY DEF RefuseType
<1>2. UNCHANGED <<gen, cache>> BY DEF RefuseType
<1>3. TypeOK /\ SameInstance BY DEF VariadicInv
<1>4. TypeOK' /\ SameInstance' BY <1>1, <1>2, <1>3, IdsStay DEF TypeOK, SameInstance
<1>5. KeyInv' BY <1>1, <1>2, EntriesStay DEF KeyInv
<1>6. FixedInv' BY <1>1, <1>2, FixedStay DEF FixedInv
<1> QED BY <1>4, <1>5, <1>6 DEF VariadicInv

LEMMA UnchangedStep == ASSUME VariadicInv, UNCHANGED vars PROVE VariadicInv'
BY DEF vars, VariadicInv, TypeOK, SameInstance, KeyInv, FixedInv

(* The inductive invariant holds for every number of types, ids, generators *)
(* and arguments.                                                           *)
THEOREM VariadicCorrect == Spec => []VariadicInv
<1>1. VariadicInv /\ [Next]_vars => VariadicInv'
  BY NewGeneratorStep, PatchStep, CallStep, RefuseStep, UnchangedStep DEF Next
<1> QED BY InitInv, <1>1, PTL DEF Spec

(* Every variable has its type, and the keys are made of ids.               *)
THEOREM VariadicTypes == Spec => []TypeOK
<1>1. VariadicInv => TypeOK BY DEF VariadicInv
<1> QED BY <1>1, VariadicCorrect, PTL

(* A key stands for the signature of its function for ever.                 *)
THEOREM KeysRight == Spec => []KeyInv
<1>1. VariadicInv => KeyInv BY DEF VariadicInv
<1> QED BY <1>1, VariadicCorrect, PTL

(* A cache never holds two functions of one signature or under one key,     *)
(* also when types share ids.                                               *)
THEOREM OneInstance == Spec => []SameInstance
<1>1. VariadicInv => SameInstance BY DEF VariadicInv
<1> QED BY <1>1, VariadicCorrect, PTL

(* Unless two types share an id, a call that hits the cache gets a function *)
(* for exactly its types.                                                   *)
THEOREM HitsMatchHolds == Spec => []HitsMatch
<1>1. VariadicInv => HitsMatch
  <2> SUFFICES ASSUME VariadicInv, IdsUnique, NEW g \in Generators, NEW e \in cache[g],
                      NEW args \in Lists(Types, MaxVariadic),
                      e.key = Key(id, gen[g].returnType, AllTypes(g, args))
               PROVE  e.func.rtn = gen[g].returnType /\ e.func.args = AllTypes(g, args)
    BY DEF HitsMatch
  <2>1. TypeOK /\ e.key = Key(id, e.func.rtn, e.func.args)
    BY DEF VariadicInv, KeyInv
  <2>2. /\ e.func.rtn \in Types /\ e.func.args \in Seq(Types) /\ e.key \in Seq(Ids)
        /\ gen[g].fixed \in Seq(Types) /\ gen[g].returnType \in Types
    BY <2>1 DEF TypeOK, Entries, Functions, GeneratorStates
  <2>3. AllTypes(g, args) \in Seq(Types)
    BY <2>2, ListsAreSequences, BoundsAssumption DEF AllTypes
  <2> QED BY <2>1, <2>2, <2>3, KeysDiffer
<1> QED BY <1>1, VariadicCorrect, PTL
==============================================================================
