---------------------------- MODULE FfiTypeProofs ----------------------------
(***************************************************************************)
(* The invariants of FfiType, for every number and depth of structs, every *)
(* length of arrays and signatures, and every platform.                    *)
(*                                                                         *)
(* Type() and initialize_aggregate call themselves: here they are recursive *)
(* functions on the structs, which contain earlier ones only.  Such a      *)
(* function is its own definition (RecursionExists), and what holds of a   *)
(* struct if it holds of the earlier ones holds of all (SetInduction).     *)
(* Their loops are traces, and LoopRule is the rule of a loop's invariant. *)
(***************************************************************************)
EXTENDS FfiType, SequenceTheorems, WellFoundedInduction, TLAPS

(* Induction over the numbers, without an operator as a parameter.         *)
LEMMA SetInduction ==
  ASSUME NEW S \in SUBSET Nat, 0 \in S, \A n \in S : n + 1 \in S
  PROVE  S = Nat
<1> SUFFICES ASSUME S # Nat PROVE FALSE
  OBVIOUS
<1> DEFINE T == Nat \ S
<1>1. T # {} /\ T \subseteq Nat OBVIOUS
<1>2. PICK x \in T : \A y \in T : ~(<<y, x>> \in OpToRel(<, Nat))
  <2> HIDE DEF T
  <2> QED BY <1>1, NatLessThanWellFounded, WFMin
<1>3. x # 0 /\ x - 1 \in Nat OBVIOUS
<1>4. x - 1 \in T
  <2> SUFFICES ASSUME x - 1 \notin T PROVE FALSE
    OBVIOUS
  <2>1. x - 1 \in S BY <1>3
  <2>2. (x - 1) + 1 \in S BY <2>1
  <2> QED BY <1>3, <2>2
<1>5. <<x - 1, x>> \in OpToRel(<, Nat) BY <1>3 DEF OpToRel
<1> QED BY <1>2, <1>4, <1>5

(* Each step of a loop is its function of the step before.                 *)
LEMMA TraceFacts ==
  ASSUME NEW n \in Nat, NEW step, NEW x
  PROVE  /\ Trace(n, step, x)[0] = x
         /\ \A i \in 1..n : Trace(n, step, x)[i] = step[i][Trace(n, step, x)[i - 1]]
<1> DEFINE Loop(k, f) == f = [i \in 0..k |-> IF i = 0 THEN x ELSE step[i][f[i - 1]]]
           S == {k \in Nat : \E f : Loop(k, f)}
<1>1. 0 \in S
  <2>1. Loop(0, [i \in 0..0 |-> x]) OBVIOUS
  <2> QED BY <2>1
<1>2. ASSUME NEW k \in S PROVE k + 1 \in S
  <2>1. PICK f : Loop(k, f) BY <1>2
  <2> DEFINE g == [i \in 0..(k + 1) |-> IF i = k + 1 THEN step[k + 1][f[k]] ELSE f[i]]
  <2>a. k \in Nat OBVIOUS
  <2>b. \A i \in 0..k : f[i] = IF i = 0 THEN x ELSE step[i][f[i - 1]] BY <2>1
  <2>c. \A i \in 0..k : g[i] = f[i] /\ (i > 0 => g[i - 1] = f[i - 1]) BY <2>a
  <2>d. g[k + 1] = step[k + 1][f[k]] /\ g[k] = f[k] BY <2>a
  <2>2. ASSUME NEW i \in 0..(k + 1) PROVE g[i] = IF i = 0 THEN x ELSE step[i][g[i - 1]]
    <3> HIDE DEF g
    <3>1. CASE i \in 0..k BY <2>a, <2>b, <2>c, <3>1
    <3>2. CASE i = k + 1 BY <2>a, <2>d, <3>2
    <3> QED BY <2>a, <3>1, <3>2
  <2>3. g = [i \in 0..(k + 1) |-> g[i]] OBVIOUS
  <2>4. Loop(k + 1, g) 
    <3> HIDE DEF g
    <3> QED BY <2>2, <2>3
  <2> HIDE DEF Loop, g
  <2> QED BY <2>4
<1>3. S = Nat
  <2> HIDE DEF S
  <2>1. S \in SUBSET Nat BY DEF S
  <2> QED BY <1>1, <1>2, <2>1, SetInduction
<1>4. \E f : Loop(n, f) BY <1>3
<1>5. Loop(n, Trace(n, step, x))
  <2>1. Trace(n, step, x) = CHOOSE f : Loop(n, f) BY DEF Trace
  <2> HIDE DEF Loop
  <2> QED BY <1>4, <2>1
<1> HIDE DEF S
<1> QED BY <1>5

(* A loop keeps what each of its steps keeps.                              *)
LEMMA LoopRule ==
  ASSUME NEW n \in Nat, NEW step, NEW x, NEW J,
         x \in J[0], \A i \in 1..n : \A r \in J[i - 1] : step[i][r] \in J[i]
  PROVE  (\A i \in 0..n : Trace(n, step, x)[i] \in J[i]) /\ Run(n, step, x) \in J[n]
<1> DEFINE S == {k \in Nat : k =< n => Trace(n, step, x)[k] \in J[k]}
<1>1. 0 \in S BY TraceFacts
<1>2. ASSUME NEW k \in S PROVE k + 1 \in S
  <2> SUFFICES ASSUME k + 1 =< n PROVE Trace(n, step, x)[k + 1] \in J[k + 1]
    OBVIOUS
  <2>1. Trace(n, step, x)[k] \in J[k] OBVIOUS
  <2>2. k + 1 \in 1..n /\ (k + 1) - 1 = k OBVIOUS
  <2>3. Trace(n, step, x)[k + 1] = step[k + 1][Trace(n, step, x)[k]] BY <2>2, TraceFacts
  <2> QED BY <2>1, <2>2, <2>3
<1>3. S = Nat
  <2>1. S \in SUBSET Nat OBVIOUS
  <2> HIDE DEF S
  <2> QED BY <1>1, <1>2, <2>1, SetInduction
<1>4. \A i \in 0..n : Trace(n, step, x)[i] \in J[i] BY <1>3
<1> QED BY <1>4 DEF Run

(* There is an f with f = D(f), if D(f)[s] depends on f below s only.      *)
LEMMA RecursionExists ==
  ASSUME NEW n \in Nat, NEW V, NEW G \in SUBSET [1..n -> V], G # {}, NEW D \in [G -> G],
         \A g, h \in G : \A s \in 1..n :
           (\A i \in 1..(s - 1) : g[i] = h[i]) => D[g][s] = D[h][s]
  PROVE  \E f \in G : f = D[f]
<1> DEFINE Up(k, f) == \A s \in 1..n : s =< k => f[s] = D[f][s]
           S == {k \in Nat : \E f \in G : Up(k, f)}
<1>1. 0 \in S OBVIOUS
<1>2. ASSUME NEW k \in S PROVE k + 1 \in S
  <2>1. PICK f \in G : Up(k, f) BY <1>2
  <2>2. D[f] \in G OBVIOUS
  <2>3. ASSUME NEW s \in 1..n, s =< k + 1 PROVE D[f][s] = D[D[f]][s]
    <3>1. \A i \in 1..(s - 1) : f[i] = D[f][i] BY <2>1, <2>3
    <3> QED BY <2>2, <3>1
  <2>4. Up(k + 1, D[f]) BY <2>3
  <2> HIDE DEF Up
  <2> QED BY <2>2, <2>4
<1>3. S = Nat
  <2>1. S \in SUBSET Nat OBVIOUS
  <2> HIDE DEF S
  <2> QED BY <1>1, <1>2, <2>1, SetInduction
<1>4. PICK f \in G : Up(n, f) BY <1>3
<1>5. \A s \in 1..n : f[s] = D[f][s] BY <1>4
<1>6. D[f] \in [1..n -> V] /\ f \in [1..n -> V] OBVIOUS
<1>7. f = D[f] BY <1>5, <1>6
<1> QED BY <1>7

-----------------------------------------------------------------------------
(* Type() *)

(* The types that the fields of s, or a signature if s = NumStructs + 1,    *)
(* can have.                                                                *)
Earlier(s) == Prims \cup 1..(s - 1) \cup {Unknown}

LEMMA BuiltinType == ASSUME Setting, NEW n \in Prims PROVE Builtin(n) \in Builtins
BY DEF Builtin, Own, Searched, FFI_TYPES, IntType, Prims, Builtins

LEMMA EarlierStructs ==
  ASSUME NEW s \in 1..(NumStructs + 1)
  PROVE  1..(s - 1) \subseteq Structs /\ Unknown \notin 1..(s - 1) /\ 1..(s - 1) \cap Prims = {}
<1>1. 1..(s - 1) \subseteq Structs BY TypesAssumption DEF Structs
<1> QED BY <1>1, NamesAssumption

LEMMA FieldsSeq ==
  ASSUME Setting, NEW s \in Structs
  PROVE  Len(fields[s]) \in Nat /\ DOMAIN fields[s] = 1..Len(fields[s])
<1>1. fields[s] \in Seq(FieldTypes(s)) BY DEF Setting
<1> QED BY <1>1

LEMMA FieldFacts ==
  ASSUME Setting, NEW s \in Structs, NEW i \in DOMAIN fields[s]
  PROVE  /\ fields[s][i].base \in Earlier(s)
         /\ fields[s][i].base \in Prims => fields[s][i].base \in platform.types
         /\ ElementType(fields[s][i]) \in Earlier(s)
         /\ Count(fields[s][i]) \in Nat \ {0}
         /\ ElementType(fields[s][i]) # Unknown =>
              /\ fields[s][i].base # Unknown
              /\ Element(fields[s][i]) \in Builtins \cup 1..(s - 1)
<1> DEFINE f == fields[s][i]
<1>0. s \in 1..(NumStructs + 1) BY TypesAssumption DEF Structs
<1>1. fields[s] \in Seq(FieldTypes(s)) BY DEF Setting
<1>2. f \in FieldTypes(s) BY <1>1
<1>3. platform.types \subseteq Prims
  BY TypesAssumption DEF Setting, Platform
<1>4. \/ f.base \in platform.types \cup 1..(s - 1) /\ f.dims \in Dims
      \/ f.base = Unknown /\ f.dims = <<>>
  BY <1>2 DEF FieldTypes
<1>5. f.base \in Earlier(s) /\ (f.base = Unknown => f.dims = <<>>)
  BY <1>0, <1>3, <1>4, EarlierStructs, NamesAssumption DEF Earlier
<1>6. f.base \in Prims => f.base \in platform.types
  BY <1>0, <1>4, EarlierStructs, NamesAssumption
<1>7. pointer \in Prims BY DEF Prims
<1>8. ElementType(f) \in Earlier(s) BY <1>5, <1>7 DEF ElementType, Earlier
<1>9. Count(f) \in Nat \ {0}
  <2>1. CASE f.dims = <<>> BY <2>1 DEF Count
  <2>2. CASE f.dims # <<>>
    <3>1. f.dims \in Seq(Nat \ {0}) BY <1>4, <2>2, TypesAssumption
    <3>2. Head(f.dims) \in Nat \ {0} BY <2>2, <3>1
    <3> QED BY <2>2, <3>2 DEF Count
  <2> QED BY <2>1, <2>2
<1>10. ASSUME ElementType(f) # Unknown
       PROVE f.base # Unknown /\ Element(f) \in Builtins \cup 1..(s - 1)
  <2>1. ASSUME f.base = Unknown PROVE FALSE
    <3>1. Len(f.dims) = 0 BY <1>5, <2>1
    <3> QED BY <1>10, <2>1, <3>1 DEF ElementType
  <2>2. Element(f) \in Builtins \cup 1..(s - 1)
    BY <1>8, <1>10, BuiltinType DEF Element, Earlier
  <2> QED BY <2>1, <2>2
<1> HIDE DEF f
<1> QED BY <1>5, <1>6, <1>8, <1>9, <1>10 DEF f

(* The elements of a new ffi_type are those of its fields.                 *)
LEMMA ElementsMade ==
  ASSUME Setting, NEW s \in Structs,
         \A i \in DOMAIN fields[s] : ElementType(fields[s][i]) # Unknown
  PROVE  Elements(s) \in Seq({Element(fields[s][i]) : i \in DOMAIN fields[s]})
<1> DEFINE n == Len(fields[s])
           E == {Element(fields[s][i]) : i \in DOMAIN fields[s]}
           J == [i \in 0..n |-> Seq(E)]
           copies(i) == [j \in 1..Count(fields[s][i]) |-> Element(fields[s][i])]
           step == [i \in DOMAIN fields[s] |-> [q \in Seq(Builtins \cup Structs) |-> q \o copies(i)]]
<1>1. n \in Nat /\ DOMAIN fields[s] = 1..n BY FieldsSeq
<1>a. ASSUME NEW i \in DOMAIN fields[s]
      PROVE Element(fields[s][i]) \in Builtins \cup Structs /\ Count(fields[s][i]) \in Nat
  <2>1. s \in 1..(NumStructs + 1) BY TypesAssumption DEF Structs
  <2>2. Element(fields[s][i]) \in Builtins \cup 1..(s - 1) BY <1>a, FieldFacts
  <2>3. Count(fields[s][i]) \in Nat BY <1>a, FieldFacts
  <2> QED BY <2>1, <2>2, <2>3, EarlierStructs
<1>2. E \subseteq Builtins \cup Structs BY <1>a
<1>3. Seq(E) \subseteq Seq(Builtins \cup Structs)
  <2> HIDE DEF E
  <2> QED BY <1>2
<1>4. ASSUME NEW i \in 1..n, NEW q \in Seq(E) PROVE step[i][q] \in Seq(E)
  <2>1. copies(i) \in Seq(E)
    <3>1. Count(fields[s][i]) \in Nat /\ Element(fields[s][i]) \in E BY <1>1, <1>a
    <3> HIDE DEF E
    <3> QED BY <3>1
  <2>2. step[i][q] = q \o copies(i)
    <3> HIDE DEF E
    <3> QED BY <1>1, <1>3
  <2> HIDE DEF E, copies, step
  <2> QED BY <2>1, <2>2
<1>5. <<>> \in J[0] BY <1>1
<1>6. Run(n, step, <<>>) \in J[n]
  <2>1. \A i \in 1..n : \A q \in J[i - 1] : step[i][q] \in J[i]
    <3> HIDE DEF step, E
    <3> QED BY <1>1, <1>4
  <2> HIDE DEF J, step, n
  <2> QED BY <1>1, <1>5, <2>1, LoopRule
<1>7. Elements(s) = Run(n, step, <<>>) BY DEF Elements
<1> HIDE DEF step, E
<1> QED BY <1>1, <1>6, <1>7 DEF E

(* What one or more calls of Type() do to the memory m: they add fresh      *)
(* ffi_types.                                                               *)
Grown(m, r) == \A u \in Structs : r[u] = m[u] \/ (m[u] = None /\ r[u] = NewFfiType(u))
Grows(m, r) == r \in Outcomes /\ Grown(m, r.ffi) /\ (WellFormed(m) => WellFormed(r.ffi))
Has(t, m) == t # Unknown /\ (t \in Structs => m[t] # None)

GoodMake(s, make) == /\ make \in [Untyped(s) -> Outcomes]
                     /\ \A m \in Untyped(s) : Grows(m, make[m]) /\ (make[m].ok => Has(s, make[m].ffi))
GoodMakes(s, make) == \A u \in 1..(s - 1) : GoodMake(u, make[u])

LEMMA GrownTransitive ==
  ASSUME NEW a, NEW b, NEW c, Grown(a, b), Grown(b, c)
  PROVE  Grown(a, c)
BY DEF Grown

LEMMA HasGrown == ASSUME NEW t, NEW a, NEW b, Has(t, a), Grown(a, b) PROVE Has(t, b)
BY DEF Has, Grown

LEMMA TypeOne ==
  ASSUME NEW s \in 1..(NumStructs + 1), NEW make, GoodMakes(s, make),
         NEW t \in Earlier(s), NEW m \in Memories
  PROVE  LET r == Type(make, t, m) IN Grows(m, r) /\ (r.ok => Has(t, r.ffi))
<1>1. m \in [Structs -> FfiTypes \cup {None}] BY DEF Memories
<1>2. Grown(m, m) BY DEF Grown
<1>3. CASE t = Unknown BY <1>2, <1>3 DEF Type, Grows, Outcomes
<1>4. CASE t # Unknown /\ (t \in Prims \/ m[t] # None)
  <2>1. t \in Structs => m[t] # None BY <1>4, NamesAssumption
  <2> QED BY <1>2, <1>4, <2>1 DEF Type, Grows, Outcomes, Has
<1>5. CASE t # Unknown /\ ~(t \in Prims \/ m[t] # None)
  <2>1. t \in 1..(s - 1) /\ m \in Untyped(t) BY <1>5 DEF Earlier, Untyped
  <2>2. GoodMake(t, make[t]) BY <2>1 DEF GoodMakes
  <2>3. Type(make, t, m) = make[t][m] BY <1>5 DEF Type
  <2> QED BY <2>1, <2>2, <2>3 DEF GoodMake
<1> QED BY <1>3, <1>4, <1>5

(* The types of fields or of a signature, one after the other.             *)
LEMMA TypeEachGood ==
  ASSUME NEW s \in 1..(NumStructs + 1), NEW make, GoodMakes(s, make),
         NEW types \in Seq(Earlier(s)), NEW m \in Memories
  PROVE  LET r == TypeEach(make, types, m)
         IN  Grows(m, r) /\ (r.ok => \A i \in DOMAIN types : Has(types[i], r.ffi))
<1> DEFINE n == Len(types)
           step == [i \in DOMAIN types |-> [r \in Outcomes |->
                      IF r.ok THEN Type(make, types[i], r.ffi) ELSE r]]
           start == [ok |-> TRUE, ffi |-> m]
           J == [i \in 0..n |-> {r \in Outcomes :
                  Grows(m, r) /\ (r.ok => \A j \in 1..i : Has(types[j], r.ffi))}]
<1>1. n \in Nat /\ DOMAIN types = 1..n OBVIOUS
<1>2. start \in J[0]
  <2>1. Grown(m, m) BY DEF Grown
  <2>2. start \in Outcomes BY DEF Outcomes
  <2> QED BY <1>1, <2>1, <2>2 DEF Grows
<1>3. ASSUME NEW i \in 1..n, NEW r \in J[i - 1] PROVE step[i][r] \in J[i]
  <2>1. /\ i - 1 \in 0..n /\ i \in 0..n /\ types[i] \in Earlier(s)
        /\ r \in Outcomes /\ Grows(m, r) /\ (r.ok => \A j \in 1..(i - 1) : Has(types[j], r.ffi))
    BY <1>1, <1>3
  <2>2. step[i][r] = IF r.ok THEN Type(make, types[i], r.ffi) ELSE r BY <1>1, <2>1
  <2>3. CASE ~r.ok
    <3>1. step[i][r] = r BY <2>2, <2>3
    <3> QED BY <2>1, <2>3, <3>1
  <2>4. CASE r.ok
    <3> DEFINE q == Type(make, types[i], r.ffi)
    <3>1. r.ffi \in Memories BY <2>1 DEF Outcomes
    <3>2. Grows(r.ffi, q) /\ (q.ok => Has(types[i], q.ffi)) BY <2>1, <3>1, TypeOne
    <3> HIDE DEF q
    <3>3. q \in Outcomes /\ Grown(r.ffi, q.ffi) BY <3>2 DEF Grows
    <3>4. Grows(m, q)
      BY <2>1, <3>2, <3>3, GrownTransitive DEF Grows
    <3>5. q.ok => \A j \in 1..i : Has(types[j], q.ffi)
      <4> SUFFICES ASSUME q.ok, NEW j \in 1..i PROVE Has(types[j], q.ffi)
        OBVIOUS
      <4>1. CASE j = i BY <3>2, <4>1
      <4>2. CASE j \in 1..(i - 1) BY <2>1, <2>4, <3>3, <4>2, HasGrown
      <4> QED BY <2>1, <4>1, <4>2
    <3>6. step[i][r] = q BY <2>2, <2>4 DEF q
    <3>7. q \in J[i]
      <4> HIDE DEF step
      <4> QED BY <2>1, <3>3, <3>4, <3>5
    <3> QED BY <3>6, <3>7
  <2> QED BY <2>3, <2>4
<1>4. Run(n, step, start) \in J[n]
  <2> HIDE DEF n, step, start, J
  <2> QED BY <1>1, <1>2, <1>3, LoopRule
<1>5. TypeEach(make, types, m) = Run(n, step, start) BY DEF TypeEach
<1> HIDE DEF step, start
<1> QED BY <1>1, <1>4, <1>5

FieldElements(s) == [i \in DOMAIN fields[s] |-> ElementType(fields[s][i])]

LEMMA FieldElementsSeq ==
  ASSUME Setting, NEW s \in Structs
  PROVE  FieldElements(s) \in Seq(Earlier(s)) /\ DOMAIN FieldElements(s) = DOMAIN fields[s]
<1>1. \A i \in DOMAIN fields[s] : ElementType(fields[s][i]) \in Earlier(s) BY FieldFacts
<1> QED BY <1>1, FieldsSeq DEF FieldElements

(* Type() for a struct, if it is good for those inside.                     *)
LEMMA MakeStructGood ==
  ASSUME Setting, NEW s \in Structs, NEW make, GoodMakes(s, make), NEW m \in Untyped(s)
  PROVE  LET r == MakeStruct(make, s, m) IN Grows(m, r) /\ (r.ok => Has(s, r.ffi))
<1> DEFINE inner == TypeEach(make, FieldElements(s), m)
           new == NewFfiType(s)
<1>1. s \in 1..(NumStructs + 1) /\ s # Unknown /\ m \in Memories
  BY TypesAssumption, NamesAssumption DEF Structs, Untyped
<1>2. Grows(m, inner) /\ (inner.ok => \A i \in DOMAIN fields[s] : Has(ElementType(fields[s][i]), inner.ffi))
  <2>1. inner.ok => \A i \in DOMAIN fields[s] : Has(FieldElements(s)[i], inner.ffi)
    BY <1>1, FieldElementsSeq, TypeEachGood
  <2>2. Grows(m, inner) BY <1>1, FieldElementsSeq, TypeEachGood
  <2> HIDE DEF inner
  <2> QED BY <2>1, <2>2 DEF FieldElements
<1>3. MakeStruct(make, s, m) = IF inner.ok THEN [inner EXCEPT !.ffi[s] = new] ELSE inner
  BY DEF MakeStruct, FieldElements
<1>4. CASE ~inner.ok BY <1>2, <1>3, <1>4
<1>5. CASE inner.ok
  <2> HIDE DEF inner, new
  <2> DEFINE r == [inner EXCEPT !.ffi[s] = new]
  <2>1. inner \in Outcomes /\ inner.ffi \in [Structs -> FfiTypes \cup {None}] /\ Grown(m, inner.ffi)
    BY <1>2 DEF Grows, Outcomes, Memories
  <2>2. r.ok = inner.ok /\ r.ffi = [inner.ffi EXCEPT ![s] = new] BY <2>1 DEF Outcomes
  <2>3. /\ \A i \in DOMAIN fields[s] : ElementType(fields[s][i]) # Unknown
        /\ \A i \in DOMAIN fields[s] : ElementType(fields[s][i]) \in Structs =>
             inner.ffi[ElementType(fields[s][i])] # None
    BY <1>2, <1>5 DEF Has
  <2>4. ASSUME NEW i \in DOMAIN fields[s]
        PROVE  Element(fields[s][i]) \in Builtins \cup {e \in 1..(s - 1) : inner.ffi[e] # None}
    <3>1. ElementType(fields[s][i]) \in Prims \cup 1..(s - 1) BY <2>3, FieldFacts DEF Earlier
    <3>2. CASE ElementType(fields[s][i]) \in Prims BY <3>2, BuiltinType DEF Element
    <3>3. CASE ElementType(fields[s][i]) \in 1..(s - 1)
      BY <1>1, <2>3, <3>3, EarlierStructs DEF Element
    <3> QED BY <3>1, <3>2, <3>3
  <2>5. Elements(s) \in Seq({Element(fields[s][i]) : i \in DOMAIN fields[s]})
    BY <2>3, ElementsMade
  <2>6. Elements(s) \in Seq(Builtins \cup {e \in 1..(s - 1) : inner.ffi[e] # None})
    <3>1. {Element(fields[s][i]) : i \in DOMAIN fields[s]}
            \subseteq Builtins \cup {e \in 1..(s - 1) : inner.ffi[e] # None}
      BY <2>4
    <3> QED BY <2>5, <3>1
  <2>7. Elements(s) \in Seq(Builtins \cup Structs)
    <3>1. {e \in 1..(s - 1) : inner.ffi[e] # None} \subseteq Structs BY <1>1, EarlierStructs
    <3> QED BY <2>6, <3>1
  <2>8. new \in FfiTypes /\ new # None /\ new.elements = Elements(s)
    BY <2>7, NamesAssumption DEF new, NewFfiType, FfiTypes
  <2>9. r.ffi \in Memories BY <2>1, <2>2, <2>8 DEF Memories
  <2>10. r \in Outcomes
    <3>1. r = [ok |-> inner.ok, ffi |-> r.ffi] BY <2>1, <2>2 DEF Outcomes
    <3> HIDE DEF r
    <3> QED BY <2>1, <2>9, <3>1 DEF Outcomes
  <2>11. Grown(m, r.ffi)
    <3>1. m[s] = None BY DEF Untyped
    <3> HIDE DEF r
    <3> QED BY <2>1, <2>2, <3>1 DEF Grown, new
  <2>12. WellFormed(m) => WellFormed(r.ffi)
    <3> SUFFICES ASSUME WellFormed(m), NEW u \in Structs, r.ffi[u] # None,
                        NEW i \in DOMAIN r.ffi[u].elements
                 PROVE  r.ffi[u].elements[i] \in Builtins \cup {e \in 1..(u - 1) : r.ffi[e] # None}
      BY DEF WellFormed
    <3> HIDE DEF r
    <3>1. WellFormed(inner.ffi) BY <1>2 DEF Grows
    <3>2. \A e \in Structs : inner.ffi[e] # None => r.ffi[e] # None BY <2>1, <2>2, <2>8
    <3>3. u \in 1..(NumStructs + 1) BY TypesAssumption DEF Structs
    <3>4. CASE u = s
      <4>1. r.ffi[u].elements = Elements(s) BY <2>1, <2>2, <2>8, <3>4
      <4>2. r.ffi[u].elements[i] \in Builtins \cup {e \in 1..(s - 1) : inner.ffi[e] # None}
        BY <2>6, <4>1
      <4> QED BY <3>2, <3>3, <3>4, <4>2, EarlierStructs
    <3>5. CASE u # s
      <4>1. r.ffi[u] = inner.ffi[u] BY <2>1, <2>2, <3>5
      <4>2. r.ffi[u].elements[i] \in Builtins \cup {e \in 1..(u - 1) : inner.ffi[e] # None}
        BY <3>1, <4>1 DEF WellFormed
      <4> QED BY <3>2, <3>3, <4>2, EarlierStructs
    <3> QED BY <3>4, <3>5
  <2>13. Has(s, r.ffi)
    <3> HIDE DEF r
    <3> QED BY <1>1, <2>1, <2>2, <2>8 DEF Has
  <2>14. MakeStruct(make, s, m) = r BY <1>3, <1>5
  <2> HIDE DEF r
  <2> QED BY <2>10, <2>11, <2>12, <2>13, <2>14 DEF Grows
<1> QED BY <1>4, <1>5

(* It uses `make` for earlier structs only.                                 *)
LEMMA MakeDepends ==
  ASSUME Setting, NEW s \in Structs, NEW g, NEW h, NEW m,
         \A u \in 1..(s - 1) : g[u] = h[u]
  PROVE  MakeStruct(g, s, m) = MakeStruct(h, s, m)
<1> DEFINE types == FieldElements(s)
           step(make) == [i \in DOMAIN types |-> [r \in Outcomes |->
                           IF r.ok THEN Type(make, types[i], r.ffi) ELSE r]]
<1>1. ASSUME NEW i \in DOMAIN types, NEW x PROVE Type(g, types[i], x) = Type(h, types[i], x)
  <2>1. types[i] \in Earlier(s) BY FieldElementsSeq
  <2> HIDE DEF types
  <2> QED BY <2>1 DEF Type, Earlier
<1>2. step(g) = step(h)
  <2> HIDE DEF types
  <2> QED BY <1>1
<1>3. TypeEach(g, types, m) = TypeEach(h, types, m)
  <2>1. TypeEach(g, types, m) = Run(Len(types), step(g), [ok |-> TRUE, ffi |-> m]) BY DEF TypeEach
  <2>2. TypeEach(h, types, m) = Run(Len(types), step(h), [ok |-> TRUE, ffi |-> m]) BY DEF TypeEach
  <2> HIDE DEF types, step
  <2> QED BY <1>2, <2>1, <2>2
<1> HIDE DEF step
<1> QED BY <1>3 DEF MakeStruct, FieldElements

(* The recursive function exists, and is good for every struct.             *)
LEMMA MakeFacts ==
  ASSUME Setting
  PROVE  /\ Make = [s \in Structs |-> [ffi \in Untyped(s) |-> MakeStruct(Make, s, ffi)]]
         /\ \A s \in Structs : GoodMake(s, Make[s])
<1> DEFINE V == UNION {[Untyped(s) -> Outcomes] : s \in Structs}
           G == {g \in [Structs -> V] : \A s \in Structs : GoodMake(s, g[s])}
           body(g) == [s \in Structs |-> [ffi \in Untyped(s) |-> MakeStruct(g, s, ffi)]]
           D == [g \in G |-> body(g)]
<1>1. ASSUME NEW g, NEW s \in Structs, GoodMakes(s, g) PROVE GoodMake(s, body(g)[s])
  <2>1. body(g)[s] = [ffi \in Untyped(s) |-> MakeStruct(g, s, ffi)] OBVIOUS
  <2>2. \A m \in Untyped(s) : LET r == MakeStruct(g, s, m) IN Grows(m, r) /\ (r.ok => Has(s, r.ffi))
    BY <1>1, MakeStructGood
  <2>3. \A m \in Untyped(s) : MakeStruct(g, s, m) \in Outcomes BY <2>2 DEF Grows
  <2> HIDE DEF body
  <2> QED BY <2>1, <2>2, <2>3 DEF GoodMake
<1>2. ASSUME NEW g, NEW s \in Structs, \A u \in Structs : GoodMake(u, g[u]) PROVE GoodMakes(s, g)
  <2>1. s \in 1..(NumStructs + 1) BY TypesAssumption DEF Structs
  <2> QED BY <1>2, <2>1, EarlierStructs DEF GoodMakes
<1>3. G # {}
  <2> DEFINE g0 == [s \in Structs |-> [m \in Untyped(s) |-> [ok |-> FALSE, ffi |-> m]]]
  <2>1. ASSUME NEW s \in Structs PROVE GoodMake(s, g0[s])
    <3>1. g0[s] = [m \in Untyped(s) |-> [ok |-> FALSE, ffi |-> m]] OBVIOUS
    <3>2. \A m \in Untyped(s) : [ok |-> FALSE, ffi |-> m] \in Outcomes BY DEF Untyped, Outcomes
    <3> HIDE DEF g0
    <3> QED BY <3>1, <3>2 DEF GoodMake, Grows, Grown
  <2>2. \A s \in Structs : g0[s] \in V
    <3> HIDE DEF g0
    <3> QED BY <2>1 DEF GoodMake
  <2>3. g0 = [s \in Structs |-> g0[s]] OBVIOUS
  <2> HIDE DEF g0, V
  <2> QED BY <2>1, <2>2, <2>3
<1>4. D \in [G -> G]
  <2> SUFFICES ASSUME NEW g \in G PROVE body(g) \in G
    OBVIOUS
  <2>1. \A s \in Structs : GoodMake(s, body(g)[s])
    <3> HIDE DEF body, V
    <3> QED BY <1>1, <1>2
  <2>2. \A s \in Structs : body(g)[s] \in V
    <3> HIDE DEF body
    <3> QED BY <2>1 DEF GoodMake
  <2>3. body(g) = [s \in Structs |-> body(g)[s]] OBVIOUS
  <2> HIDE DEF body, V
  <2> QED BY <2>1, <2>2, <2>3
<1>5. \A g, h \in G : \A s \in 1..NumStructs :
        (\A u \in 1..(s - 1) : g[u] = h[u]) => D[g][s] = D[h][s]
  <2> SUFFICES ASSUME NEW g \in G, NEW h \in G, NEW s \in Structs, \A u \in 1..(s - 1) : g[u] = h[u]
               PROVE  D[g][s] = D[h][s]
    BY DEF Structs
  <2>1. D[g][s] = [ffi \in Untyped(s) |-> MakeStruct(g, s, ffi)] OBVIOUS
  <2>2. D[h][s] = [ffi \in Untyped(s) |-> MakeStruct(h, s, ffi)] OBVIOUS
  <2>3. ASSUME NEW ffi PROVE MakeStruct(g, s, ffi) = MakeStruct(h, s, ffi)
    <3> HIDE DEF G, D
    <3> QED BY MakeDepends
  <2> HIDE DEF D, G
  <2> QED BY <2>1, <2>2, <2>3
<1>6. \E f \in G : f = D[f]
  <2>1. NumStructs \in Nat /\ G \in SUBSET [1..NumStructs -> V]
    BY TypesAssumption DEF Structs
  <2> HIDE DEF G, D, V
  <2> QED BY <1>3, <1>4, <1>5, <2>1, RecursionExists
<1>7. Make = body(Make)
  <2>1. Make = CHOOSE f : f = body(f) BY DEF Make
  <2>2. \E f : f = body(f) BY <1>6
  <2> HIDE DEF body
  <2> QED BY <2>1, <2>2
<1>8. \A s \in Structs : GoodMake(s, Make[s])
  <2> DEFINE S == {k \in Nat : \A s \in Structs : s =< k => GoodMake(s, Make[s])}
  <2>1. 0 \in S BY TypesAssumption DEF Structs
  <2>2. ASSUME NEW k \in S PROVE k + 1 \in S
    <3> SUFFICES ASSUME k + 1 \in Structs PROVE GoodMake(k + 1, Make[k + 1])
      BY TypesAssumption DEF Structs
    <3>1. GoodMakes(k + 1, Make) BY TypesAssumption DEF Structs, GoodMakes
    <3> HIDE DEF body
    <3> QED BY <1>1, <1>7, <3>1
  <2>3. S = Nat
    <3>1. S \in SUBSET Nat OBVIOUS
    <3> HIDE DEF S
    <3> QED BY <2>1, <2>2, <3>1, SetInduction
  <2> QED BY <2>3, TypesAssumption DEF Structs
<1> QED BY <1>7, <1>8

-----------------------------------------------------------------------------
(* Sizes and alignments *)

LEMMA BuiltinFacts ==
  ASSUME Setting, NEW b \in Builtins
  PROVE  BuiltinSize(b) \in {1, 4, 8} /\ AlignOf(BuiltinSize(b)) \in {1, 4, 8}
<1>1. platform \in Platform BY TypesAssumption DEF Setting
<1>2. platform.pointer \in {4, 8} /\ platform.align \in {4, 8} BY <1>1 DEF Platform
<1>3. BuiltinSize(b) \in {1, 4, 8}
  BY <1>2, NamesAssumption DEF Builtins, BuiltinSize
<1>4. AlignOf(BuiltinSize(b)) \in {1, 4, 8} BY <1>2, <1>3 DEF AlignOf
<1> QED BY <1>3, <1>4

LEMMA RoundUpNat == ASSUME NEW n \in Nat, NEW a \in Nat PROVE RoundUp(n, a) \in Nat
<1>1. CASE a = 0 BY <1>1 DEF RoundUp
<1>2. CASE a # 0
  <2>1. n + a - 1 \in Nat BY <1>2
  <2>2. (n + a - 1) \div a \in Nat BY <1>2, <2>1
  <2>3. \A q \in Nat : q * a \in Nat OBVIOUS
  <2> QED BY <1>2, <2>2, <2>3 DEF RoundUp
<1> QED BY <1>1, <1>2

(* What an element of s can be while ffi is the memory.                     *)
Inside(s, ffi) == Builtins \cup {e \in 1..(s - 1) : ffi[e] # None}

LEMMA SizeFacts ==
  ASSUME Setting, NEW s \in 1..(NumStructs + 1), NEW ffi \in Memories, NEW e \in Inside(s, ffi)
  PROVE  /\ Size(e, ffi) \in Nat /\ Align(e, ffi) \in Nat
         /\ e \in Builtins => Size(e, ffi) # 0
<1>1. CASE e \in Builtins BY <1>1, BuiltinFacts DEF Size, Align
<1>2. CASE e \notin Builtins
  <2>1. e \in Structs /\ ffi[e] \in FfiTypes
    BY <1>2, EarlierStructs DEF Inside, Memories
  <2> QED BY <1>2, <2>1 DEF Size, Align, FfiTypes
<1> QED BY <1>1, <1>2

(* What the initialization of structs before s does to the memory m: it     *)
(* writes sizes and alignments only, and only where the size was 0.         *)
Kept(s, m, r) == \A u \in Structs :
  /\ r[u] = None <=> m[u] = None
  /\ m[u] # None => r[u].elements = m[u].elements
  /\ m[u] # None /\ m[u].size # 0 => r[u] = m[u]
  /\ u >= s => r[u] = m[u]
Keeps(s, m, r) == r \in Outcomes /\ Kept(s, m, r.ffi) /\ WellFormed(r.ffi)

GoodAggregate(s, aggregate) ==
  /\ aggregate \in [Unsized(s) -> Outcomes]
  /\ \A m \in Unsized(s) : /\ Keeps(s + 1, m, aggregate[m])
                           /\ aggregate[m].ok => aggregate[m].ffi[s].size # 0
GoodAggregates(s, aggregate) == \A u \in 1..(s - 1) : GoodAggregate(u, aggregate[u])

LEMMA KeptRefl == ASSUME NEW s, NEW m PROVE Kept(s, m, m)
BY DEF Kept

LEMMA KeptTransitive ==
  ASSUME NEW s, NEW a, NEW b, NEW c, Kept(s, a, b), Kept(s, b, c)
  PROVE  Kept(s, a, c)
BY DEF Kept

LEMMA KeptLater ==
  ASSUME NEW s \in Int, NEW t \in Int, s =< t, NEW a, NEW b, Kept(s, a, b)
  PROVE  Kept(t, a, b)
<1>1. \A u \in Structs : u >= t => u >= s BY TypesAssumption DEF Structs
<1> QED BY <1>1 DEF Kept

LEMMA KeptInside ==
  ASSUME NEW s \in 1..(NumStructs + 1), NEW t, NEW a, NEW b, Kept(t, a, b)
  PROVE  Inside(s, a) = Inside(s, b)
<1>1. 1..(s - 1) \subseteq Structs BY EarlierStructs
<1>2. \A u \in 1..(s - 1) : b[u] = None <=> a[u] = None BY <1>1 DEF Kept
<1> QED BY <1>2 DEF Inside

LEMMA InitializeOne ==
  ASSUME Setting, NEW s \in 1..(NumStructs + 1), NEW aggregate, GoodAggregates(s, aggregate),
         NEW m \in Memories, WellFormed(m), NEW e \in Inside(s, m)
  PROVE  LET r == Initialize(aggregate, e, m)
         IN  Keeps(s, m, r) /\ (r.ok => Size(e, r.ffi) # 0)
<1>1. CASE Size(e, m) # 0
  BY <1>1, KeptRefl DEF Initialize, Keeps, Outcomes
<1>2. CASE Size(e, m) = 0
  <2> DEFINE r == aggregate[e][m]
  <2>1. e \notin Builtins BY <1>2, SizeFacts
  <2>2. e \in 1..(s - 1) /\ m[e] # None /\ e \in Structs
    BY <2>1, EarlierStructs DEF Inside
  <2>3. m \in Unsized(e) BY <1>2, <2>1, <2>2 DEF Unsized, Size
  <2>4. Keeps(e + 1, m, r) /\ (r.ok => r.ffi[e].size # 0)
    BY <2>2, <2>3 DEF GoodAggregates, GoodAggregate
  <2>5. Kept(s, m, r.ffi)
    <3>1. e + 1 \in Int /\ s \in Int /\ e + 1 =< s BY <2>2, TypesAssumption
    <3> QED BY <2>4, <3>1, KeptLater DEF Keeps
  <2>6. Initialize(aggregate, e, m) = r BY <1>2 DEF Initialize
  <2> HIDE DEF r
  <2> QED BY <2>1, <2>4, <2>5, <2>6 DEF Keeps, Size
<1> QED BY <1>1, <1>2

LEMMA PlaceFacts ==
  ASSUME Setting, NEW s \in Structs, NEW ffi \in Memories, ffi[s] # None, WellFormed(ffi),
         NEW e \in Inside(s, ffi)
  PROVE  LET r == Place(s, e, ffi) IN
         /\ r \in Memories /\ WellFormed(r) /\ r[s] # None
         /\ \A u \in Structs : u # s => r[u] = ffi[u]
         /\ r[s].elements = ffi[s].elements
         /\ r[s].size = RoundUp(ffi[s].size, Align(e, ffi)) + Size(e, ffi)
         /\ r[s].alignment = Larger(ffi[s].alignment, Align(e, ffi))
<1> DEFINE y == RoundUp(ffi[s].size, Align(e, ffi)) + Size(e, ffi)
           l == Larger(ffi[s].alignment, Align(e, ffi))
           new == [ffi[s] EXCEPT !.size = y, !.alignment = l]
           r == Place(s, e, ffi)
<1>0. s \in 1..(NumStructs + 1) BY TypesAssumption DEF Structs
<1>1. ffi \in [Structs -> FfiTypes \cup {None}] /\ ffi[s] \in FfiTypes BY DEF Memories
<1>2. Align(e, ffi) \in Nat /\ Size(e, ffi) \in Nat BY <1>0, SizeFacts
<1>3. ffi[s].size \in Nat /\ ffi[s].alignment \in Nat BY <1>1 DEF FfiTypes
<1>4. y \in Nat
  <2>1. RoundUp(ffi[s].size, Align(e, ffi)) \in Nat BY <1>2, <1>3, RoundUpNat
  <2> QED BY <1>2, <2>1
<1>5. l \in Nat BY <1>2, <1>3 DEF Larger
<1> HIDE DEF y, l
<1>6. r = [ffi EXCEPT ![s] = new] BY <1>1 DEF Place, y, l
<1> HIDE DEF r
<1>a. new \in FfiTypes /\ new.size = y /\ new.alignment = l /\ new.elements = ffi[s].elements
  BY <1>1, <1>4, <1>5 DEF FfiTypes
<1> HIDE DEF new
<1>7. r \in Memories BY <1>1, <1>6, <1>a DEF Memories
<1>8. r[s] = new /\ \A u \in Structs : u # s => r[u] = ffi[u] BY <1>1, <1>6
<1>9. r[s] # None BY <1>8, <1>a, NamesAssumption
<1>10. WellFormed(r)
  <2> SUFFICES ASSUME NEW u \in Structs, r[u] # None, NEW i \in DOMAIN r[u].elements
               PROVE  r[u].elements[i] \in Builtins \cup {x \in 1..(u - 1) : r[x] # None}
    BY DEF WellFormed
  <2>1. r[u].elements = ffi[u].elements /\ ffi[u] # None BY <1>8, <1>a
  <2>2. ffi[u].elements[i] \in Builtins \cup {x \in 1..(u - 1) : ffi[x] # None}
    BY <2>1 DEF WellFormed
  <2>3. u \in 1..(NumStructs + 1) BY TypesAssumption DEF Structs
  <2>4. \A x \in 1..(u - 1) : ffi[x] # None => r[x] # None
    BY <1>8, <1>9, <2>3, EarlierStructs
  <2> QED BY <2>1, <2>2, <2>4
<1> QED BY <1>7, <1>8, <1>9, <1>10, <1>a DEF y, l, r

(* A change of the size and alignment of s alone.                           *)
LEMMA ResizeKeeps ==
  ASSUME NEW s \in Structs, NEW m \in Unsized(s), NEW a, Kept(s + 1, m, a), NEW b,
         b[s] # None, b[s].elements = a[s].elements, \A u \in Structs : u # s => b[u] = a[u]
  PROVE  Kept(s + 1, m, b)
<1>1. m[s] # None /\ m[s].size = 0 BY DEF Unsized
<1>2. a[s] # None /\ a[s].elements = m[s].elements BY <1>1 DEF Kept
<1> SUFFICES ASSUME NEW u \in Structs
             PROVE  /\ b[u] = None <=> m[u] = None
                    /\ m[u] # None => b[u].elements = m[u].elements
                    /\ m[u] # None /\ m[u].size # 0 => b[u] = m[u]
                    /\ u >= s + 1 => b[u] = m[u]
  BY DEF Kept
<1>3. CASE u = s BY <1>1, <1>2, <1>3 DEF Structs
<1>4. CASE u # s BY <1>4 DEF Kept
<1> QED BY <1>3, <1>4

(* An element is initialized, then placed.                                 *)
LEMMA PlaceNextKeeps ==
  ASSUME Setting, NEW s \in Structs, NEW aggregate, GoodAggregates(s, aggregate),
         NEW m \in Unsized(s), NEW e \in Inside(s, m), NEW r, Keeps(s + 1, m, r)
  PROVE  Keeps(s + 1, m, PlaceNext(aggregate, s, e, r))
<1> DEFINE i == Initialize(aggregate, e, r.ffi)
           q == [i EXCEPT !.ffi = Place(s, e, i.ffi)]
<1>0. s \in 1..(NumStructs + 1) /\ s \in Int BY TypesAssumption DEF Structs
<1>1. r \in Outcomes /\ r.ffi \in Memories /\ WellFormed(r.ffi) /\ Kept(s + 1, m, r.ffi)
  BY DEF Keeps, Outcomes
<1>2. e \in Inside(s, r.ffi) BY <1>0, <1>1, KeptInside
<1>3. Keeps(s, r.ffi, i) BY <1>0, <1>1, <1>2, InitializeOne
<1> HIDE DEF i
<1>4. i \in Outcomes /\ i.ffi \in Memories /\ WellFormed(i.ffi) /\ Kept(s, r.ffi, i.ffi)
  BY <1>3 DEF Keeps, Outcomes
<1>5. Kept(s + 1, m, i.ffi)
  <2>1. Kept(s + 1, r.ffi, i.ffi) BY <1>0, <1>4, KeptLater
  <2> QED BY <1>1, <2>1, KeptTransitive
<1>6. CASE ~r.ok BY <1>6 DEF PlaceNext
<1>7. CASE r.ok /\ ~i.ok BY <1>4, <1>5, <1>7 DEF PlaceNext, Keeps, i
<1>8. CASE r.ok /\ i.ok
  <2>1. PlaceNext(aggregate, s, e, r) = q BY <1>8 DEF PlaceNext, i
  <2>2. m[s] # None BY DEF Unsized
  <2>3. i.ffi[s] # None BY <1>5, <2>2 DEF Kept
  <2>4. e \in Inside(s, i.ffi) BY <1>0, <1>2, <1>4, KeptInside
  <2> DEFINE p == Place(s, e, i.ffi)
  <2>5. /\ p \in Memories /\ WellFormed(p) /\ p[s] # None
        /\ \A u \in Structs : u # s => p[u] = i.ffi[u]
        /\ p[s].elements = i.ffi[s].elements
    BY <1>4, <2>3, <2>4, PlaceFacts
  <2> HIDE DEF p
  <2>6. Kept(s + 1, m, p) BY <1>5, <2>5, ResizeKeeps
  <2>7. q \in Outcomes /\ q.ffi = p BY <1>4, <2>5 DEF Outcomes, p
  <2> HIDE DEF q
  <2> QED BY <2>1, <2>5, <2>6, <2>7 DEF Keeps
<1> QED BY <1>6, <1>7, <1>8

Cleared(s, m) == [m EXCEPT ![s].alignment = 0]

LEMMA ClearedFacts ==
  ASSUME NEW s \in Structs, NEW m \in Unsized(s)
  PROVE  /\ Keeps(s + 1, m, [ok |-> TRUE, ffi |-> Cleared(s, m)])
         /\ Cleared(s, m)[s].size = 0 /\ Cleared(s, m)[s].alignment = 0
         /\ \A u \in Structs : u # s => Cleared(s, m)[u] = m[u]
<1> DEFINE c == Cleared(s, m)
           new == [m[s] EXCEPT !.alignment = 0]
<1>1. m \in [Structs -> FfiTypes \cup {None}] /\ m[s] \in FfiTypes /\ m[s].size = 0 /\ WellFormed(m)
  BY DEF Unsized, Memories
<1>2. new \in FfiTypes /\ new.size = 0 /\ new.alignment = 0 /\ new.elements = m[s].elements
  BY <1>1 DEF FfiTypes
<1>3. c = [m EXCEPT ![s] = new] BY <1>1 DEF Cleared
<1> HIDE DEF c, new
<1>4. c \in Memories BY <1>1, <1>2, <1>3 DEF Memories
<1>5. c[s] = new /\ \A u \in Structs : u # s => c[u] = m[u] BY <1>1, <1>3
<1>6. c[s] # None BY <1>2, <1>5, NamesAssumption
<1>7. Kept(s + 1, m, c)
  <2>1. c[s].elements = m[s].elements BY <1>2, <1>5
  <2> QED BY <1>5, <1>6, <2>1, KeptRefl, ResizeKeeps
<1>8. WellFormed(c)
  <2> SUFFICES ASSUME NEW u \in Structs, c[u] # None, NEW i \in DOMAIN c[u].elements
               PROVE  c[u].elements[i] \in Builtins \cup {x \in 1..(u - 1) : c[x] # None}
    BY DEF WellFormed
  <2>1. c[u].elements = m[u].elements /\ m[u] # None BY <1>1, <1>2, <1>5, NamesAssumption
  <2>2. m[u].elements[i] \in Builtins \cup {x \in 1..(u - 1) : m[x] # None}
    BY <1>1, <2>1 DEF WellFormed
  <2>3. u \in 1..(NumStructs + 1) BY TypesAssumption DEF Structs
  <2>4. \A x \in 1..(u - 1) : m[x] # None => c[x] # None
    BY <1>5, <1>6, <2>3, EarlierStructs
  <2> QED BY <2>1, <2>2, <2>4
<1>9. Keeps(s + 1, m, [ok |-> TRUE, ffi |-> c])
  BY <1>4, <1>7, <1>8 DEF Keeps, Outcomes
<1> QED BY <1>2, <1>5, <1>9 DEF c

(* The loop over the elements.                                              *)
PlaceSteps(aggregate, s, m) ==
  [i \in DOMAIN m[s].elements |-> [r \in Outcomes |-> PlaceNext(aggregate, s, m[s].elements[i], r)]]
PlaceTrace(aggregate, s, m) ==
  Trace(Len(m[s].elements), PlaceSteps(aggregate, s, m), [ok |-> TRUE, ffi |-> Cleared(s, m)])

LEMMA UnsizedElements ==
  ASSUME NEW s \in Structs, NEW m \in Unsized(s)
  PROVE  /\ Len(m[s].elements) \in Nat /\ DOMAIN m[s].elements = 1..Len(m[s].elements)
         /\ \A i \in DOMAIN m[s].elements : m[s].elements[i] \in Inside(s, m)
<1>1. m[s] \in FfiTypes BY DEF Unsized, Memories
<1>2. m[s].elements \in Seq(Builtins \cup Structs) BY <1>1 DEF FfiTypes
<1>3. \A i \in DOMAIN m[s].elements : m[s].elements[i] \in Inside(s, m)
  BY DEF Unsized, WellFormed, Inside
<1> QED BY <1>2, <1>3

LEMMA PlaceTraceKeeps ==
  ASSUME Setting, NEW s \in Structs, NEW aggregate, GoodAggregates(s, aggregate), NEW m \in Unsized(s)
  PROVE  /\ \A i \in 0..Len(m[s].elements) : Keeps(s + 1, m, PlaceTrace(aggregate, s, m)[i])
         /\ PlaceAll(aggregate, s, m) = PlaceTrace(aggregate, s, m)[Len(m[s].elements)]
         /\ Keeps(s + 1, m, PlaceAll(aggregate, s, m))
<1> DEFINE n == Len(m[s].elements)
           step == PlaceSteps(aggregate, s, m)
           start == [ok |-> TRUE, ffi |-> Cleared(s, m)]
           J == [i \in 0..n |-> {r \in Outcomes : Keeps(s + 1, m, r)}]
<1>1. n \in Nat /\ DOMAIN m[s].elements = 1..n BY UnsizedElements
<1>2. start \in J[0] BY <1>1, ClearedFacts DEF Keeps
<1>3. ASSUME NEW i \in 1..n, NEW r \in J[i - 1] PROVE step[i][r] \in J[i]
  <2>1. i \in DOMAIN m[s].elements /\ i - 1 \in 0..n /\ i \in 0..n BY <1>1
  <2>2. r \in Outcomes /\ Keeps(s + 1, m, r) BY <2>1
  <2> DEFINE q == PlaceNext(aggregate, s, m[s].elements[i], r)
  <2>3. Keeps(s + 1, m, q) BY <2>1, <2>2, PlaceNextKeeps, UnsizedElements
  <2>4. step[i][r] = q BY <2>1, <2>2 DEF PlaceSteps
  <2> HIDE DEF q, step
  <2> QED BY <2>1, <2>3, <2>4 DEF Keeps
<1>4. (\A i \in 0..n : Trace(n, step, start)[i] \in J[i]) /\ Run(n, step, start) \in J[n]
  <2> HIDE DEF n, step, start, J
  <2> QED BY <1>1, <1>2, <1>3, LoopRule
<1>5. PlaceAll(aggregate, s, m) = Run(n, step, start)
  BY DEF PlaceAll, PlaceSteps, Cleared
<1>6. PlaceAll(aggregate, s, m) = PlaceTrace(aggregate, s, m)[n]
  BY <1>5 DEF Run, PlaceTrace
<1>7. \A i \in 0..n : PlaceTrace(aggregate, s, m)[i] = Trace(n, step, start)[i]
  BY DEF PlaceTrace
<1>8. \A i \in 0..n : Keeps(s + 1, m, Trace(n, step, start)[i])
  <2> HIDE DEF n, step, start
  <2> QED BY <1>1, <1>4
<1>9. \A i \in 0..n : Keeps(s + 1, m, PlaceTrace(aggregate, s, m)[i])
  <2> HIDE DEF step, start
  <2> QED BY <1>7, <1>8
<1>10. Keeps(s + 1, m, PlaceAll(aggregate, s, m))
  <2> HIDE DEF n, step, start
  <2> QED BY <1>1, <1>6, <1>9
<1> QED BY <1>6, <1>9, <1>10

Sized(s, m, z) == [m EXCEPT ![s].size = z]

LEMMA SizedFacts ==
  ASSUME NEW s \in Structs, NEW m \in Memories, m[s] # None, WellFormed(m), NEW z \in Nat
  PROVE  /\ Sized(s, m, z) \in Memories /\ WellFormed(Sized(s, m, z))
         /\ Sized(s, m, z)[s] # None
         /\ Sized(s, m, z)[s].size = z /\ Sized(s, m, z)[s].alignment = m[s].alignment
         /\ Sized(s, m, z)[s].elements = m[s].elements
         /\ \A u \in Structs : u # s => Sized(s, m, z)[u] = m[u]
<1> DEFINE c == Sized(s, m, z)
           new == [m[s] EXCEPT !.size = z]
<1>1. m \in [Structs -> FfiTypes \cup {None}] /\ m[s] \in FfiTypes BY DEF Memories
<1>2. /\ new \in FfiTypes /\ new.size = z /\ new.alignment = m[s].alignment
      /\ new.elements = m[s].elements
  BY <1>1 DEF FfiTypes
<1>3. c = [m EXCEPT ![s] = new] BY <1>1 DEF Sized
<1> HIDE DEF c, new
<1>4. c \in Memories BY <1>1, <1>2, <1>3 DEF Memories
<1>5. c[s] = new /\ \A u \in Structs : u # s => c[u] = m[u] BY <1>1, <1>3
<1>6. c[s] # None BY <1>2, <1>5, NamesAssumption
<1>7. WellFormed(c)
  <2> SUFFICES ASSUME NEW u \in Structs, c[u] # None, NEW i \in DOMAIN c[u].elements
               PROVE  c[u].elements[i] \in Builtins \cup {x \in 1..(u - 1) : c[x] # None}
    BY DEF WellFormed
  <2>1. c[u].elements = m[u].elements /\ m[u] # None BY <1>1, <1>2, <1>5
  <2>2. m[u].elements[i] \in Builtins \cup {x \in 1..(u - 1) : m[x] # None}
    BY <2>1 DEF WellFormed
  <2>3. u \in 1..(NumStructs + 1) BY TypesAssumption DEF Structs
  <2>4. \A x \in 1..(u - 1) : m[x] # None => c[x] # None
    BY <1>5, <1>6, <2>3, EarlierStructs
  <2> QED BY <2>1, <2>2, <2>4
<1> QED BY <1>2, <1>4, <1>5, <1>6, <1>7 DEF c

(* initialize_aggregate, if it is good for the structs inside.             *)
LEMMA InitializeAggregateKeeps ==
  ASSUME Setting, NEW s \in Structs, NEW aggregate, GoodAggregates(s, aggregate), NEW m \in Unsized(s)
  PROVE  LET r == InitializeAggregate(aggregate, s, m)
         IN  Keeps(s + 1, m, r) /\ (r.ok => r.ffi[s].size # 0)
<1> DEFINE all == PlaceAll(aggregate, s, m)
           size == RoundUp(all.ffi[s].size, all.ffi[s].alignment)
           r == InitializeAggregate(aggregate, s, m)
<1>1. Keeps(s + 1, m, all) BY PlaceTraceKeeps
<1>2. r = IF all.ok THEN [ok |-> size # 0, ffi |-> Sized(s, all.ffi, size)] ELSE all
  BY DEF InitializeAggregate, Sized
<1> HIDE DEF all, r
<1>3. CASE ~all.ok BY <1>1, <1>2, <1>3 DEF r
<1>4. CASE all.ok
  <2>1. all.ffi \in Memories /\ WellFormed(all.ffi) /\ Kept(s + 1, m, all.ffi)
    BY <1>1 DEF Keeps, Outcomes
  <2>2. m[s] # None BY DEF Unsized
  <2>3. all.ffi[s] # None BY <2>1, <2>2 DEF Kept
  <2>4. size \in Nat
    <3>1. all.ffi[s] \in FfiTypes BY <2>1, <2>3 DEF Memories
    <3>2. all.ffi[s].size \in Nat /\ all.ffi[s].alignment \in Nat BY <3>1 DEF FfiTypes
    <3> QED BY <3>2, RoundUpNat
  <2> HIDE DEF size
  <2> DEFINE c == Sized(s, all.ffi, size)
  <2>5. /\ c \in Memories /\ WellFormed(c) /\ c[s] # None /\ c[s].size = size
        /\ c[s].elements = all.ffi[s].elements
        /\ \A u \in Structs : u # s => c[u] = all.ffi[u]
    BY <2>1, <2>3, <2>4, SizedFacts
  <2> HIDE DEF c
  <2>6. Kept(s + 1, m, c) BY <2>1, <2>5, ResizeKeeps
  <2>7. r = [ok |-> size # 0, ffi |-> c] BY <1>2, <1>4 DEF c
  <2>8. r \in Outcomes BY <2>5, <2>7 DEF Outcomes
  <2>9. r.ok = (size # 0) /\ r.ffi = c BY <2>7
  <2>10. r.ok => r.ffi[s].size # 0 BY <2>5, <2>9
  <2>11. Keeps(s + 1, m, r) BY <2>5, <2>6, <2>8, <2>9 DEF Keeps
  <2> QED BY <2>10, <2>11 DEF r
<1> QED BY <1>3, <1>4

(* It is called for earlier structs only.                                  *)
LEMMA AggregateDepends ==
  ASSUME Setting, NEW s \in Structs, NEW g, NEW h, NEW m \in Unsized(s),
         \A u \in 1..(s - 1) : g[u] = h[u]
  PROVE  InitializeAggregate(g, s, m) = InitializeAggregate(h, s, m)
<1>1. ASSUME NEW i \in DOMAIN m[s].elements, NEW r
      PROVE  PlaceNext(g, s, m[s].elements[i], r) = PlaceNext(h, s, m[s].elements[i], r)
  <2> DEFINE e == m[s].elements[i]
  <2>1. e \in Builtins \/ e \in 1..(s - 1) BY UnsizedElements DEF Inside
  <2> HIDE DEF e
  <2>2. e \in Builtins => Size(e, r.ffi) # 0 BY BuiltinFacts DEF Size
  <2>3. Initialize(g, e, r.ffi) = Initialize(h, e, r.ffi) BY <2>1, <2>2 DEF Initialize
  <2>4. PlaceNext(g, s, e, r) = PlaceNext(h, s, e, r) BY <2>3 DEF PlaceNext
  <2> QED BY <2>4 DEF e
<1>2. PlaceSteps(g, s, m) = PlaceSteps(h, s, m) BY <1>1 DEF PlaceSteps
<1>3. \A x : PlaceAll(x, s, m) = Run(Len(m[s].elements), PlaceSteps(x, s, m), [ok |-> TRUE, ffi |-> Cleared(s, m)])
  BY DEF PlaceAll, PlaceSteps, Cleared
<1>4. PlaceAll(g, s, m) = PlaceAll(h, s, m) BY <1>2, <1>3
<1> QED BY <1>4 DEF InitializeAggregate

(* The recursive function exists, and is good for every struct.            *)
LEMMA AggregateFacts ==
  ASSUME Setting
  PROVE  /\ Aggregate = [s \in Structs |-> [ffi \in Unsized(s) |-> InitializeAggregate(Aggregate, s, ffi)]]
         /\ \A s \in Structs : GoodAggregate(s, Aggregate[s])
<1> DEFINE V == UNION {[Unsized(s) -> Outcomes] : s \in Structs}
           G == {g \in [Structs -> V] : \A s \in Structs : GoodAggregate(s, g[s])}
           body(g) == [s \in Structs |-> [ffi \in Unsized(s) |-> InitializeAggregate(g, s, ffi)]]
           D == [g \in G |-> body(g)]
<1>1. ASSUME NEW g, NEW s \in Structs, GoodAggregates(s, g) PROVE GoodAggregate(s, body(g)[s])
  <2>1. body(g)[s] = [ffi \in Unsized(s) |-> InitializeAggregate(g, s, ffi)] OBVIOUS
  <2>2. \A m \in Unsized(s) : LET r == InitializeAggregate(g, s, m)
                              IN  Keeps(s + 1, m, r) /\ (r.ok => r.ffi[s].size # 0)
    BY <1>1, InitializeAggregateKeeps
  <2>3. \A m \in Unsized(s) : InitializeAggregate(g, s, m) \in Outcomes BY <2>2 DEF Keeps
  <2> HIDE DEF body
  <2> QED BY <2>1, <2>2, <2>3 DEF GoodAggregate
<1>2. ASSUME NEW g, NEW s \in Structs, \A u \in Structs : GoodAggregate(u, g[u])
      PROVE  GoodAggregates(s, g)
  <2>1. s \in 1..(NumStructs + 1) BY TypesAssumption DEF Structs
  <2> QED BY <1>2, <2>1, EarlierStructs DEF GoodAggregates
<1>3. G # {}
  <2> DEFINE g0 == [s \in Structs |-> [m \in Unsized(s) |-> [ok |-> FALSE, ffi |-> m]]]
  <2>1. ASSUME NEW s \in Structs PROVE GoodAggregate(s, g0[s])
    <3>1. g0[s] = [m \in Unsized(s) |-> [ok |-> FALSE, ffi |-> m]] OBVIOUS
    <3>2. \A m \in Unsized(s) : [ok |-> FALSE, ffi |-> m] \in Outcomes /\ WellFormed(m)
      BY DEF Unsized, Outcomes
    <3> HIDE DEF g0
    <3> QED BY <3>1, <3>2, KeptRefl DEF GoodAggregate, Keeps
  <2>2. \A s \in Structs : g0[s] \in V
    <3> HIDE DEF g0
    <3> QED BY <2>1 DEF GoodAggregate
  <2>3. g0 = [s \in Structs |-> g0[s]] OBVIOUS
  <2> HIDE DEF g0, V
  <2> QED BY <2>1, <2>2, <2>3
<1>4. D \in [G -> G]
  <2> SUFFICES ASSUME NEW g \in G PROVE body(g) \in G
    OBVIOUS
  <2>1. \A s \in Structs : GoodAggregate(s, body(g)[s])
    <3> HIDE DEF body, V
    <3> QED BY <1>1, <1>2
  <2>2. \A s \in Structs : body(g)[s] \in V
    <3> HIDE DEF body
    <3> QED BY <2>1 DEF GoodAggregate
  <2>3. body(g) = [s \in Structs |-> body(g)[s]] OBVIOUS
  <2> HIDE DEF body, V
  <2> QED BY <2>1, <2>2, <2>3
<1>5. \A g, h \in G : \A s \in 1..NumStructs :
        (\A u \in 1..(s - 1) : g[u] = h[u]) => D[g][s] = D[h][s]
  <2> SUFFICES ASSUME NEW g \in G, NEW h \in G, NEW s \in Structs, \A u \in 1..(s - 1) : g[u] = h[u]
               PROVE  D[g][s] = D[h][s]
    BY DEF Structs
  <2>1. D[g][s] = [ffi \in Unsized(s) |-> InitializeAggregate(g, s, ffi)] OBVIOUS
  <2>2. D[h][s] = [ffi \in Unsized(s) |-> InitializeAggregate(h, s, ffi)] OBVIOUS
  <2>3. ASSUME NEW ffi \in Unsized(s)
        PROVE  InitializeAggregate(g, s, ffi) = InitializeAggregate(h, s, ffi)
    <3> HIDE DEF G, D
    <3> QED BY AggregateDepends
  <2> HIDE DEF D, G
  <2> QED BY <2>1, <2>2, <2>3
<1>6. \E f \in G : f = D[f]
  <2>1. NumStructs \in Nat /\ G \in SUBSET [1..NumStructs -> V]
    BY TypesAssumption DEF Structs
  <2> HIDE DEF G, D, V
  <2> QED BY <1>3, <1>4, <1>5, <2>1, RecursionExists
<1>7. Aggregate = body(Aggregate)
  <2>1. Aggregate = CHOOSE f : f = body(f) BY DEF Aggregate
  <2>2. \E f : f = body(f) BY <1>6
  <2> HIDE DEF body
  <2> QED BY <2>1, <2>2
<1>8. \A s \in Structs : GoodAggregate(s, Aggregate[s])
  <2> DEFINE S == {k \in Nat : \A s \in Structs : s =< k => GoodAggregate(s, Aggregate[s])}
  <2>1. 0 \in S BY TypesAssumption DEF Structs
  <2>2. ASSUME NEW k \in S PROVE k + 1 \in S
    <3> SUFFICES ASSUME k + 1 \in Structs PROVE GoodAggregate(k + 1, Aggregate[k + 1])
      BY TypesAssumption DEF Structs
    <3>1. GoodAggregates(k + 1, Aggregate) BY TypesAssumption DEF Structs, GoodAggregates
    <3> HIDE DEF body
    <3> QED BY <1>1, <1>7, <3>1
  <2>3. S = Nat
    <3>1. S \in SUBSET Nat OBVIOUS
    <3> HIDE DEF S
    <3> QED BY <2>1, <2>2, <3>1, SetInduction
  <2> QED BY <2>3, TypesAssumption DEF Structs
<1> QED BY <1>7, <1>8

-----------------------------------------------------------------------------
(* Call interfaces *)

Signature == Seq(Structs \cup {pointer})
All == NumStructs + 1   \* every struct is earlier than this

LEMMA SignatureFacts ==
  /\ All \in 1..(NumStructs + 1)
  /\ 1..(All - 1) = Structs
  /\ \A types \in Signatures :
       types \in Signature /\ types \in Seq(Earlier(All)) /\ DOMAIN types = 1..Len(types)
<1>1. All \in 1..(NumStructs + 1) /\ 1..(All - 1) = Structs
  BY TypesAssumption DEF All, Structs
<1>2. ASSUME NEW types \in Signatures
      PROVE types \in Signature /\ types \in Seq(Earlier(All)) /\ DOMAIN types = 1..Len(types)
  <2>1. PICK n \in 1..MaxTypes : types \in [1..n -> Structs \cup {pointer}]
    BY <1>2 DEF Signatures
  <2>2. n \in Nat BY TypesAssumption
  <2>3. Structs \cup {pointer} \subseteq Earlier(All) BY <1>1 DEF Earlier, Prims
  <2>4. types \in Signature BY <2>1, <2>2 DEF Signature
  <2>5. types \in Seq(Earlier(All)) BY <2>1, <2>2, <2>3
  <2> QED BY <2>4, <2>5 DEF Signature
<1> QED BY <1>1, <1>2

(* Type() for all types of a signature.                                    *)
LEMMA TypeAllGood ==
  ASSUME TypeOK, NEW types \in Signatures
  PROVE  LET made == TypeAll(types) IN
         /\ Grows(ffi_type, made) /\ made.ffi \in Memories /\ WellFormed(made.ffi)
         /\ \A s \in Structs : ffi_type[s] # None => made.ffi[s] = ffi_type[s]
         /\ made.ok => \A i \in 1..Len(types) : types[i] \in Inside(All, made.ffi)
<1> DEFINE made == TypeEach(Make, types, ffi_type)
<1>1. TypeAll(types) = made BY DEF TypeAll
<1>2. Setting /\ ffi_type \in Memories /\ WellFormed(ffi_type) BY DEF TypeOK
<1>3. GoodMakes(All, Make) BY <1>2, MakeFacts, SignatureFacts DEF GoodMakes
<1>4. Grows(ffi_type, made) /\ (made.ok => \A i \in DOMAIN types : Has(types[i], made.ffi))
  BY <1>2, <1>3, SignatureFacts, TypeEachGood
<1> HIDE DEF made
<1>5. made.ffi \in Memories /\ WellFormed(made.ffi) BY <1>2, <1>4 DEF Grows, Outcomes
<1>6. \A s \in Structs : ffi_type[s] # None => made.ffi[s] = ffi_type[s]
  BY <1>4 DEF Grows, Grown
<1>7. ASSUME made.ok, NEW i \in 1..Len(types) PROVE types[i] \in Inside(All, made.ffi)
  <2>1. types[i] \in Structs \cup {pointer} BY SignatureFacts DEF Signature
  <2>2. Has(types[i], made.ffi) BY <1>4, <1>7, SignatureFacts
  <2> QED BY <2>1, <2>2, SignatureFacts DEF Has, Inside, Builtins
<1> QED BY <1>1, <1>4, <1>5, <1>6, <1>7

PrepSteps(types) ==
  [i \in DOMAIN types |-> [r \in Outcomes |->
     IF r.ok THEN Initialize(Aggregate, types[i], r.ffi) ELSE r]]

LEMMA AllAggregates == ASSUME Setting PROVE GoodAggregates(All, Aggregate)
BY AggregateFacts, SignatureFacts DEF GoodAggregates

LEMMA PrepStepKeeps ==
  ASSUME Setting, NEW types \in Signatures, NEW m \in Memories,
         \A i \in 1..Len(types) : types[i] \in Inside(All, m),
         NEW i \in 1..Len(types), NEW r, Keeps(All, m, r), r.ok
  PROVE  LET q == Initialize(Aggregate, types[i], r.ffi) IN
         /\ Keeps(All, r.ffi, q) /\ Keeps(All, m, q)
         /\ q.ok => Size(types[i], q.ffi) # 0
         /\ \A j \in 1..Len(types) : Size(types[j], r.ffi) # 0 => Size(types[j], q.ffi) # 0
<1> DEFINE q == Initialize(Aggregate, types[i], r.ffi)
<1>1. r.ffi \in Memories /\ WellFormed(r.ffi) /\ Kept(All, m, r.ffi) BY DEF Keeps, Outcomes
<1>2. \A j \in 1..Len(types) : types[j] \in Inside(All, r.ffi)
  BY <1>1, KeptInside, SignatureFacts
<1>3. Keeps(All, r.ffi, q) /\ (q.ok => Size(types[i], q.ffi) # 0)
  BY <1>1, <1>2, AllAggregates, InitializeOne, SignatureFacts
<1> HIDE DEF q
<1>4. Keeps(All, m, q) BY <1>1, <1>3, KeptTransitive DEF Keeps
<1>5. ASSUME NEW j \in 1..Len(types), Size(types[j], r.ffi) # 0 PROVE Size(types[j], q.ffi) # 0
  <2>1. CASE types[j] \in Builtins BY <1>5, <2>1 DEF Size
  <2>2. CASE types[j] \notin Builtins
    <3>1. types[j] \in Structs /\ r.ffi[types[j]] # None
      BY <1>2, <2>2, SignatureFacts DEF Inside
    <3>2. q.ffi[types[j]] = r.ffi[types[j]] BY <1>3, <1>5, <2>2, <3>1 DEF Keeps, Kept, Size
    <3> QED BY <1>5, <2>2, <3>2 DEF Size
  <2> QED BY <2>1, <2>2
<1> QED BY <1>3, <1>4, <1>5 DEF q

(* The loop of ffi_prep_cif over them.                                     *)
LEMMA PrepCifKeeps ==
  ASSUME Setting, NEW types \in Signatures, NEW m \in Memories, WellFormed(m),
         \A i \in 1..Len(types) : types[i] \in Inside(All, m)
  PROVE  LET r == PrepCif(types, m)
         IN  Keeps(All, m, r) /\ (r.ok => \A i \in 1..Len(types) : Size(types[i], r.ffi) # 0)
<1> DEFINE n == Len(types)
           step == PrepSteps(types)
           start == [ok |-> TRUE, ffi |-> m]
           P(i, r) == Keeps(All, m, r) /\ (r.ok => \A j \in 1..i : Size(types[j], r.ffi) # 0)
           J == [i \in 0..n |-> {r \in Outcomes : P(i, r)}]
<1>1. n \in Nat /\ DOMAIN types = 1..n BY SignatureFacts DEF Signature
<1>2. start \in J[0]
  <2>1. Keeps(All, m, start) BY KeptRefl DEF Keeps, Outcomes
  <2>2. P(0, start) /\ start \in Outcomes BY <2>1 DEF Keeps
  <2> HIDE DEF P, start
  <2> QED BY <1>1, <2>2
<1>3. ASSUME NEW i \in 1..n, NEW r \in J[i - 1] PROVE step[i][r] \in J[i]
  <2>1. /\ i - 1 \in 0..n /\ i \in 0..n /\ r \in Outcomes /\ Keeps(All, m, r)
        /\ r.ok => \A j \in 1..(i - 1) : Size(types[j], r.ffi) # 0
    BY <1>1
  <2> DEFINE q == Initialize(Aggregate, types[i], r.ffi)
  <2>2. step[i][r] = IF r.ok THEN q ELSE r BY <1>1, <2>1 DEF PrepSteps
  <2>3. CASE ~r.ok
    <3>1. step[i][r] = r BY <2>2, <2>3
    <3> HIDE DEF step
    <3> QED BY <2>1, <2>3, <3>1
  <2>4. CASE r.ok
    <3>1. /\ Keeps(All, m, q) /\ (q.ok => Size(types[i], q.ffi) # 0)
          /\ \A j \in 1..n : Size(types[j], r.ffi) # 0 => Size(types[j], q.ffi) # 0
      BY <2>1, <2>4, PrepStepKeeps
    <3>2. step[i][r] = q BY <2>2, <2>4
    <3> HIDE DEF q, step
    <3>3. q.ok => \A j \in 1..i : Size(types[j], q.ffi) # 0
      <4> SUFFICES ASSUME q.ok, NEW j \in 1..i PROVE Size(types[j], q.ffi) # 0
        OBVIOUS
      <4>1. CASE j = i BY <3>1, <4>1
      <4>2. CASE j \in 1..(i - 1) BY <1>1, <2>1, <2>4, <3>1, <4>2
      <4> QED BY <1>1, <4>1, <4>2
    <3> QED BY <2>1, <3>1, <3>2, <3>3 DEF Keeps
  <2> QED BY <2>3, <2>4
<1>4. Run(n, step, start) \in J[n]
  <2> HIDE DEF n, step, start, J
  <2> QED BY <1>1, <1>2, <1>3, LoopRule
<1>5. PrepCif(types, m) = Run(n, step, start) BY DEF PrepCif, PrepSteps
<1> HIDE DEF step, start
<1>6. P(n, Run(n, step, start))
  <2> HIDE DEF P
  <2> QED BY <1>1, <1>4
<1> QED BY <1>5, <1>6

LEMMA InitTypes == Init => TypeOK
<1> SUFFICES ASSUME Init PROVE TypeOK
  OBVIOUS
<1>1. platform \in Platforms BY DEF Init
<1>2. DOMAIN fields = Structs BY DEF Init
<1>3. ASSUME NEW s \in Structs PROVE fields[s] \in Seq(FieldTypes(s))
  <2>1. fields[s] \in FieldLists(s) BY DEF Init
  <2>2. PICK n \in 0..MaxFields : fields[s] \in [1..n -> FieldTypes(s)] BY <2>1 DEF FieldLists
  <2> QED BY <2>2, TypesAssumption
<1>4. ffi_type = [s \in Structs |-> None] /\ accepted = {} BY DEF Init
<1>5. ffi_type \in Memories /\ WellFormed(ffi_type) BY <1>4 DEF Memories, WellFormed
<1> QED BY <1>1, <1>2, <1>3, <1>4, <1>5 DEF TypeOK, Setting

LEMMA SettingStays == Setting /\ UNCHANGED <<platform, fields>> => Setting'
BY DEF Setting, FieldTypes

(* What ffi_prep_cif is given and does, after Type() for all the types.     *)
LEMMA PrepGood ==
  ASSUME TypeOK, NEW types \in Signatures, TypeAll(types).ok
  PROVE  LET prep == PrepCif(types, TypeAll(types).ffi) IN
         /\ prep.ffi \in Memories /\ WellFormed(prep.ffi)
         /\ \A s \in Structs : ffi_type[s] # None /\ ffi_type[s].size > 0 => prep.ffi[s] = ffi_type[s]
         /\ prep.ok => \A s \in ToSet(types) \cap Structs : prep.ffi[s] # None /\ prep.ffi[s].size > 0
<1> DEFINE made == TypeAll(types)
           prep == PrepCif(types, made.ffi)
<1>1. /\ made.ffi \in Memories /\ WellFormed(made.ffi)
      /\ \A s \in Structs : ffi_type[s] # None => made.ffi[s] = ffi_type[s]
      /\ \A i \in 1..Len(types) : types[i] \in Inside(All, made.ffi)
  BY TypeAllGood
<1> HIDE DEF made
<1>2. Keeps(All, made.ffi, prep) /\ (prep.ok => \A i \in 1..Len(types) : Size(types[i], prep.ffi) # 0)
  BY <1>1, PrepCifKeeps DEF TypeOK
<1> HIDE DEF prep
<1>3. prep.ffi \in Memories /\ WellFormed(prep.ffi) BY <1>2 DEF Keeps, Outcomes
<1>4. ASSUME NEW s \in Structs, ffi_type[s] # None, ffi_type[s].size > 0
      PROVE  prep.ffi[s] = ffi_type[s]
  <2>1. made.ffi[s] = ffi_type[s] BY <1>1, <1>4
  <2>2. ffi_type[s].size # 0 BY <1>4
  <2> QED BY <1>2, <1>4, <2>1, <2>2 DEF Keeps, Kept
<1>5. ASSUME prep.ok, NEW s \in ToSet(types) \cap Structs
      PROVE  prep.ffi[s] # None /\ prep.ffi[s].size > 0
  <2>1. PICK i \in 1..Len(types) : types[i] = s BY <1>5, SignatureFacts DEF ToSet
  <2>2. s \notin Builtins BY NamesAssumption
  <2>3. prep.ffi[s].size # 0 BY <1>2, <1>5, <2>1, <2>2 DEF Size
  <2>4. s \in Inside(All, prep.ffi)
    BY <1>1, <1>2, <2>1, KeptInside, SignatureFacts DEF Keeps
  <2>5. prep.ffi[s] # None BY <2>2, <2>4 DEF Inside
  <2>6. prep.ffi[s].size \in Nat BY <1>3, <2>5 DEF Memories, FfiTypes
  <2> QED BY <2>3, <2>5, <2>6
<1> QED BY <1>3, <1>4, <1>5 DEF made, prep

LEMMA StepTypes == TypeOK /\ [Next]_vars => TypeOK'
<1> SUFFICES ASSUME TypeOK, [Next]_vars PROVE TypeOK'
  OBVIOUS
<1>1. Setting'
  BY SettingStays DEF TypeOK, Next, TypeThrows, BadAbi, BadTypedef, PrepOk, vars
<1>2. \A s \in accepted : s \in Structs /\ ffi_type[s] # None /\ ffi_type[s].size > 0
  BY DEF TypeOK
<1>3. ASSUME NEW types \in Signatures, TypeThrows(types) \/ BadAbi(types) PROVE TypeOK'
  <2>1. ffi_type' = TypeAll(types).ffi /\ accepted' = accepted BY <1>3 DEF TypeThrows, BadAbi
  <2>2. ffi_type' \in Memories /\ WellFormed(ffi_type)' BY <2>1, TypeAllGood DEF WellFormed
  <2>3. \A s \in accepted : ffi_type'[s] = ffi_type[s] BY <1>2, <2>1, TypeAllGood
  <2> QED BY <1>1, <1>2, <2>1, <2>2, <2>3 DEF TypeOK
<1>4. ASSUME NEW types \in Signatures, BadTypedef(types) \/ PrepOk(types) PROVE TypeOK'
  <2> DEFINE prep == PrepCif(types, TypeAll(types).ffi)
  <2>1. /\ TypeAll(types).ok /\ ffi_type' = prep.ffi
        /\ accepted' = accepted \/ (prep.ok /\ accepted' = accepted \cup (ToSet(types) \cap Structs))
    BY <1>4 DEF BadTypedef, PrepOk
  <2>2. /\ prep.ffi \in Memories /\ WellFormed(prep.ffi)
        /\ \A s \in Structs : ffi_type[s] # None /\ ffi_type[s].size > 0 => prep.ffi[s] = ffi_type[s]
        /\ prep.ok => \A s \in ToSet(types) \cap Structs : prep.ffi[s] # None /\ prep.ffi[s].size > 0
    BY <2>1, PrepGood
  <2> HIDE DEF prep
  <2>3. WellFormed(ffi_type)' BY <2>1, <2>2 DEF WellFormed
  <2>4. \A s \in accepted' : s \in Structs /\ ffi_type'[s] # None /\ ffi_type'[s].size > 0
    BY <1>2, <2>1, <2>2
  <2> QED BY <1>1, <2>1, <2>2, <2>3, <2>4 DEF TypeOK
<1>5. CASE UNCHANGED vars
  BY <1>1, <1>5 DEF vars, TypeOK, WellFormed
<1> QED BY <1>3, <1>4, <1>5 DEF Next

(* A cached ffi_type has its cached elements, which are of earlier structs, *)
(* and one in an accepted call interface has a size.                        *)
THEOREM FfiTypes_TypeOK == Spec => []TypeOK
BY InitTypes, StepTypes, PTL DEF Spec

-----------------------------------------------------------------------------
(* The layout in C *)

LEMMA FirstFitFacts ==
  ASSUME NEW n \in Nat, NEW a \in {1, 4, 8}
  PROVE  FirstFit(n, a) = RoundUp(n, a) /\ RoundUp(n, a) \in Nat /\ RoundUp(n, a) >= n
         /\ RoundUp(n, a) % a = 0 /\ RoundUp(n, a) =< n + a - 1
<1>1. /\ RoundUp(n, a) \in Nat /\ RoundUp(n, a) >= n /\ RoundUp(n, a) =< n + a - 1
      /\ RoundUp(n, a) % a = 0
  <2>1. CASE a = 1 BY <2>1 DEF RoundUp
  <2>2. CASE a = 4 BY <2>2 DEF RoundUp
  <2>3. CASE a = 8 BY <2>3 DEF RoundUp
  <2> QED BY <2>1, <2>2, <2>3
<1>2. RoundUp(n, a) \in n..(n + a - 1) BY <1>1
<1>3. FirstFit(n, a) \in n..(n + a - 1) /\ FirstFit(n, a) % a = 0
  BY <1>1, <1>2 DEF FirstFit
<1>4. \A x, y \in n..(n + a - 1) : x % a = 0 /\ y % a = 0 => x = y
  <2>1. CASE a = 1 BY <2>1
  <2>2. CASE a = 4 BY <2>2
  <2>3. CASE a = 8 BY <2>3
  <2> QED BY <2>1, <2>2, <2>3
<1>5. FirstFit(n, a) = RoundUp(n, a) BY <1>1, <1>2, <1>3, <1>4
<1> QED BY <1>1, <1>5

(* Layouts that fit into arrays.                                            *)
GoodLayout(c) == /\ c \in CLayouts /\ c.align \in {1, 4, 8}
                 /\ c.size > 0 /\ c.size % c.align = 0
GoodDeclared(s, declared) == \A u \in 1..(s - 1) : declared[u] = None \/ GoodLayout(declared[u])

LEMMA PrimLayout ==
  ASSUME Setting, NEW n \in Prims
  PROVE  /\ CSize(n) \in {1, 4, 8} /\ AlignOf(CSize(n)) \in {1, 4, 8}
         /\ CSize(n) % AlignOf(CSize(n)) = 0
<1>1. platform \in Platform BY TypesAssumption DEF Setting
<1>2. platform.pointer \in {4, 8} /\ platform.long \in {4, 8} /\ platform.align \in {4, 8}
  BY <1>1 DEF Platform
<1>3. CSize(n) \in {1, 4, 8} BY <1>2, NamesAssumption DEF CSize, Prims
<1>4. AlignOf(CSize(n)) \in {1, 4, 8} /\ CSize(n) % AlignOf(CSize(n)) = 0
  BY <1>2, <1>3 DEF AlignOf
<1> QED BY <1>3, <1>4

LEMMA CTypeGood ==
  ASSUME Setting, NEW s \in Structs, NEW declared, GoodDeclared(s, declared), NEW t \in Earlier(s)
  PROVE  CType(declared, t) = None \/ GoodLayout(CType(declared, t))
<1>0. s \in 1..(NumStructs + 1) BY TypesAssumption DEF Structs
<1>1. CASE t \in Prims
  <2>1. /\ CSize(t) \in {1, 4, 8} /\ AlignOf(CSize(t)) \in {1, 4, 8}
        /\ CSize(t) % AlignOf(CSize(t)) = 0
    BY <1>1, PrimLayout
  <2>2. CType(declared, t) = [size |-> CSize(t), align |-> AlignOf(CSize(t))]
    BY <1>1 DEF CType
  <2> QED BY <2>1, <2>2 DEF GoodLayout, CLayouts
<1>2. CASE t \in 1..(s - 1)
  <2>1. t \in Structs /\ t \notin Prims BY <1>0, <1>2, EarlierStructs
  <2> QED BY <1>2, <2>1 DEF CType, GoodDeclared
<1>3. CASE t = Unknown BY <1>3, NamesAssumption DEF CType
<1> QED BY <1>1, <1>2, <1>3 DEF Earlier

CFieldStep(declared, f, l) ==
  LET e == CType(declared, f.base)
  IN  [size |-> FirstFit(l.size, e.align) + Count(f) * e.size,
       align |-> Larger(l.align, e.align)]
CSteps(declared, s) ==
  [i \in DOMAIN fields[s] |-> [l \in CLayouts |-> CFieldStep(declared, fields[s][i], l)]]
CTrace(declared, s) ==
  Trace(Len(fields[s]), CSteps(declared, s), [size |-> 0, align |-> 1])

LEMMA CFieldGood ==
  ASSUME NEW l \in CLayouts, l.align \in {1, 4, 8}, NEW e, GoodLayout(e), NEW k \in Nat \ {0}
  PROVE  LET r == [size |-> FirstFit(l.size, e.align) + k * e.size, align |-> Larger(l.align, e.align)]
         IN  r \in CLayouts /\ r.align \in {1, 4, 8} /\ r.size > 0
<1>1. l.size \in Nat /\ e.align \in {1, 4, 8} /\ e.size \in Nat /\ e.size > 0
  BY DEF CLayouts, GoodLayout
<1>2. FirstFit(l.size, e.align) \in Nat BY <1>1, FirstFitFacts
<1>3. k * e.size \in Nat /\ k * e.size > 0 BY <1>1
<1>4. Larger(l.align, e.align) \in {1, 4, 8} BY <1>1 DEF Larger
<1> QED BY <1>2, <1>3, <1>4 DEF CLayouts

LEMMA CTraceGood ==
  ASSUME Setting, NEW s \in Structs, NEW declared, GoodDeclared(s, declared), CAccepts(declared, s)
  PROVE  /\ CTrace(declared, s)[0] = [size |-> 0, align |-> 1]
         /\ \A i \in 1..Len(fields[s]) :
              /\ CTrace(declared, s)[i] = CFieldStep(declared, fields[s][i], CTrace(declared, s)[i - 1])
              /\ CTrace(declared, s)[i].size > 0
         /\ \A i \in 0..Len(fields[s]) : /\ CTrace(declared, s)[i] \in CLayouts
                                         /\ CTrace(declared, s)[i].align \in {1, 4, 8}
         /\ \A i \in DOMAIN fields[s] : GoodLayout(CType(declared, fields[s][i].base))
<1> DEFINE n == Len(fields[s])
           step == CSteps(declared, s)
           start == [size |-> 0, align |-> 1]
           J == [i \in 0..n |-> {l \in CLayouts : l.align \in {1, 4, 8} /\ (i > 0 => l.size > 0)}]
           C == CTrace(declared, s)
<1>1. n \in Nat /\ DOMAIN fields[s] = 1..n BY FieldsSeq
<1>2. \A i \in DOMAIN fields[s] : GoodLayout(CType(declared, fields[s][i].base))
  BY CTypeGood, FieldFacts DEF CAccepts
<1>3. start \in J[0] BY <1>1 DEF CLayouts
<1>4. ASSUME NEW i \in 1..n, NEW l \in J[i - 1]
      PROVE  step[i][l] = CFieldStep(declared, fields[s][i], l) /\ step[i][l] \in J[i]
  <2>1. i - 1 \in 0..n /\ i \in 0..n /\ l \in CLayouts /\ l.align \in {1, 4, 8} BY <1>1
  <2>2. step[i][l] = CFieldStep(declared, fields[s][i], l) BY <1>1, <2>1 DEF CSteps
  <2>3. Count(fields[s][i]) \in Nat \ {0} BY <1>1, FieldFacts
  <2> DEFINE r == CFieldStep(declared, fields[s][i], l)
  <2>4. r \in CLayouts /\ r.align \in {1, 4, 8} /\ r.size > 0
    BY <1>1, <1>2, <2>1, <2>3, CFieldGood DEF CFieldStep
  <2> HIDE DEF r, step
  <2> QED BY <2>1, <2>2, <2>4 DEF r
<1>5. \A i \in 0..n : C[i] \in J[i]
  <2>1. C = Trace(n, step, start) BY DEF CTrace
  <2> HIDE DEF n, step, start, J, C
  <2> QED BY <1>1, <1>3, <1>4, <2>1, LoopRule
<1>6. C[0] = start /\ \A i \in 1..n : C[i] = step[i][C[i - 1]]
  <2>1. C = Trace(n, step, start) BY DEF CTrace
  <2> HIDE DEF n, step, start, C
  <2>2. /\ Trace(n, step, start)[0] = start
        /\ \A i \in 1..n : Trace(n, step, start)[i] = step[i][Trace(n, step, start)[i - 1]]
    BY <1>1, TraceFacts
  <2> QED BY <2>1, <2>2
<1>7. \A i \in 1..n : C[i] = CFieldStep(declared, fields[s][i], C[i - 1]) /\ C[i].size > 0
  <2> SUFFICES ASSUME NEW i \in 1..n
               PROVE  C[i] = CFieldStep(declared, fields[s][i], C[i - 1]) /\ C[i].size > 0
    OBVIOUS
  <2>1. C[i - 1] \in J[i - 1] /\ C[i] \in J[i] /\ i \in 0..n
    <3> HIDE DEF C, J, n
    <3>1. i - 1 \in 0..n /\ i \in 0..n BY <1>1
    <3> QED BY <1>5, <3>1
  <2>2. C[i] = CFieldStep(declared, fields[s][i], C[i - 1])
    <3> HIDE DEF step, C, J
    <3> QED BY <1>4, <1>6, <2>1
  <2>3. C[i].size > 0
    <3> HIDE DEF C
    <3> QED BY <2>1
  <2> QED BY <2>2, <2>3
<1>8. \A i \in 0..n : C[i] \in CLayouts /\ C[i].align \in {1, 4, 8}
  <2> HIDE DEF C
  <2> QED BY <1>5
<1> QED BY <1>2, <1>6, <1>7, <1>8

(* C's layout of a struct is good if those inside are.                     *)
LEMMA CStructGood ==
  ASSUME Setting, NEW s \in Structs, NEW declared, GoodDeclared(s, declared), CAccepts(declared, s)
  PROVE  LET all == CTrace(declared, s)[Len(fields[s])] IN
         /\ CStruct(declared, s) = [size |-> FirstFit(all.size, all.align), align |-> all.align]
         /\ GoodLayout(CStruct(declared, s))
<1> DEFINE n == Len(fields[s])
           all == CTrace(declared, s)[n]
<1>1. n \in Nat /\ n > 0 /\ DOMAIN fields[s] = 1..n
  <2>1. fields[s] \in Seq(FieldTypes(s)) BY DEF Setting
  <2> QED BY <2>1 DEF CAccepts
<1>2. all \in CLayouts /\ all.align \in {1, 4, 8} /\ all.size > 0 BY <1>1, CTraceGood
<1>3. all = Run(n, CSteps(declared, s), [size |-> 0, align |-> 1]) BY DEF CTrace, Run
<1>4. CStruct(declared, s) = [all EXCEPT !.size = FirstFit(all.size, all.align)]
  BY <1>3 DEF CStruct, CSteps, CFieldStep
<1> HIDE DEF all
<1>5. CStruct(declared, s) = [size |-> FirstFit(all.size, all.align), align |-> all.align]
  BY <1>2, <1>4 DEF CLayouts
<1>6. all.size \in Nat BY <1>2 DEF CLayouts
<1>7. /\ FirstFit(all.size, all.align) \in Nat /\ FirstFit(all.size, all.align) > 0
      /\ FirstFit(all.size, all.align) % all.align = 0
  <2> DEFINE n0 == all.size
             a0 == all.align
  <2>1. n0 \in Nat /\ n0 > 0 /\ a0 \in {1, 4, 8} BY <1>2, <1>6
  <2> HIDE DEF n0, a0
  <2>2. FirstFit(n0, a0) \in Nat /\ FirstFit(n0, a0) >= n0 /\ FirstFit(n0, a0) % a0 = 0
    BY <2>1, FirstFitFacts
  <2>3. FirstFit(n0, a0) > 0 BY <2>1, <2>2
  <2> QED BY <2>2, <2>3 DEF n0, a0
<1>8. GoodLayout(CStruct(declared, s)) BY <1>2, <1>5, <1>7 DEF GoodLayout, CLayouts
<1> QED BY <1>5, <1>8 DEF all

LEMMA CLayoutDepends ==
  ASSUME Setting, NEW s \in Structs, NEW g, NEW h, \A u \in 1..(s - 1) : g[u] = h[u]
  PROVE  /\ CAccepts(g, s) <=> CAccepts(h, s)
         /\ CStruct(g, s) = CStruct(h, s)
<1>0. s \in 1..(NumStructs + 1) BY TypesAssumption DEF Structs
<1>1. ASSUME NEW i \in DOMAIN fields[s]
      PROVE  CType(g, fields[s][i].base) = CType(h, fields[s][i].base)
  <2>1. fields[s][i].base \in Earlier(s) BY FieldFacts
  <2> QED BY <1>0, <2>1, EarlierStructs, NamesAssumption DEF CType, Earlier
<1>2. CAccepts(g, s) <=> CAccepts(h, s) BY <1>1 DEF CAccepts
<1>3. ASSUME NEW i \in DOMAIN fields[s], NEW l
      PROVE  CFieldStep(g, fields[s][i], l) = CFieldStep(h, fields[s][i], l)
  BY <1>1 DEF CFieldStep
<1>4. CSteps(g, s) = CSteps(h, s) BY <1>3 DEF CSteps
<1>5. \A x : CStruct(x, s) =
        LET all == Run(Len(fields[s]), CSteps(x, s), [size |-> 0, align |-> 1])
        IN  [all EXCEPT !.size = FirstFit(all.size, all.align)]
  BY DEF CStruct, CSteps, CFieldStep
<1>6. CStruct(g, s) = CStruct(h, s) BY <1>4, <1>5
<1> QED BY <1>2, <1>6

(* The reference layout exists.                                            *)
LEMMA CLayoutFacts ==
  ASSUME Setting
  PROVE  \A s \in Structs :
           /\ CLayout[s] = IF CAccepts(CLayout, s) THEN CStruct(CLayout, s) ELSE None
           /\ GoodDeclared(s, CLayout)
           /\ CLayout[s] = None \/ GoodLayout(CLayout[s])
<1> DEFINE V == CLayouts \cup {None}
           G == {g \in [Structs -> V] : \A s \in Structs : g[s] = None \/ GoodLayout(g[s])}
           body(g) == [s \in Structs |-> IF CAccepts(g, s) THEN CStruct(g, s) ELSE None]
           D == [g \in G |-> body(g)]
<1>1. ASSUME NEW g, NEW s \in Structs, GoodDeclared(s, g)
      PROVE  body(g)[s] = None \/ GoodLayout(body(g)[s])
  <2>1. body(g)[s] = IF CAccepts(g, s) THEN CStruct(g, s) ELSE None OBVIOUS
  <2>2. CAccepts(g, s) => GoodLayout(CStruct(g, s)) BY <1>1, CStructGood
  <2> HIDE DEF body
  <2> QED BY <2>1, <2>2
<1>2. ASSUME NEW g, NEW s \in Structs, \A u \in Structs : g[u] = None \/ GoodLayout(g[u])
      PROVE  GoodDeclared(s, g)
  <2>1. s \in 1..(NumStructs + 1) BY TypesAssumption DEF Structs
  <2> QED BY <1>2, <2>1, EarlierStructs DEF GoodDeclared
<1>3. [s \in Structs |-> None] \in G OBVIOUS
<1>4. D \in [G -> G]
  <2> SUFFICES ASSUME NEW g \in G PROVE body(g) \in G
    OBVIOUS
  <2>1. \A s \in Structs : body(g)[s] = None \/ GoodLayout(body(g)[s])
    <3> HIDE DEF body, V
    <3> QED BY <1>1, <1>2
  <2>2. \A s \in Structs : body(g)[s] \in V
    <3> HIDE DEF body
    <3> QED BY <2>1 DEF GoodLayout
  <2>3. body(g) = [s \in Structs |-> body(g)[s]] OBVIOUS
  <2> HIDE DEF body, V
  <2> QED BY <2>1, <2>2, <2>3
<1>5. \A g, h \in G : \A s \in 1..NumStructs :
        (\A u \in 1..(s - 1) : g[u] = h[u]) => D[g][s] = D[h][s]
  <2> SUFFICES ASSUME NEW g \in G, NEW h \in G, NEW s \in Structs, \A u \in 1..(s - 1) : g[u] = h[u]
               PROVE  D[g][s] = D[h][s]
    BY DEF Structs
  <2>1. D[g][s] = IF CAccepts(g, s) THEN CStruct(g, s) ELSE None OBVIOUS
  <2>2. D[h][s] = IF CAccepts(h, s) THEN CStruct(h, s) ELSE None OBVIOUS
  <2>3. (CAccepts(g, s) <=> CAccepts(h, s)) /\ CStruct(g, s) = CStruct(h, s)
    <3> HIDE DEF G, D
    <3> QED BY CLayoutDepends
  <2> HIDE DEF D, G
  <2> QED BY <2>1, <2>2, <2>3
<1>6. \E f \in G : f = D[f]
  <2>1. NumStructs \in Nat /\ G \in SUBSET [1..NumStructs -> V] /\ G # {}
    BY <1>3, TypesAssumption DEF Structs
  <2> HIDE DEF G, D, V
  <2> QED BY <1>4, <1>5, <2>1, RecursionExists
<1>7. CLayout = body(CLayout)
  <2>1. CLayout = CHOOSE f : f = body(f) BY DEF CLayout
  <2>2. \E f : f = body(f) BY <1>6
  <2> HIDE DEF body
  <2> QED BY <2>1, <2>2
<1>8. \A s \in Structs : CLayout[s] = None \/ GoodLayout(CLayout[s])
  <2> DEFINE S == {k \in Nat : \A s \in Structs : s =< k => CLayout[s] = None \/ GoodLayout(CLayout[s])}
  <2>1. 0 \in S BY TypesAssumption DEF Structs
  <2>2. ASSUME NEW k \in S PROVE k + 1 \in S
    <3> SUFFICES ASSUME k + 1 \in Structs PROVE CLayout[k + 1] = None \/ GoodLayout(CLayout[k + 1])
      BY TypesAssumption DEF Structs
    <3>1. GoodDeclared(k + 1, CLayout) BY TypesAssumption DEF Structs, GoodDeclared
    <3> HIDE DEF body
    <3> QED BY <1>1, <1>7, <3>1
  <2>3. S = Nat
    <3>1. S \in SUBSET Nat OBVIOUS
    <3> HIDE DEF S
    <3> QED BY <2>1, <2>2, <3>1, SetInduction
  <2> QED BY <2>3, TypesAssumption DEF Structs
<1>9. \A s \in Structs : CLayout[s] = IF CAccepts(CLayout, s) THEN CStruct(CLayout, s) ELSE None
  BY <1>7
<1> HIDE DEF body
<1> QED BY <1>2, <1>8, <1>9

(* The elements of a struct: Q[i] are those of its first i fields.          *)
ElementSteps(s) ==
  [i \in DOMAIN fields[s] |-> [q \in Seq(Builtins \cup Structs) |->
     q \o [j \in 1..Count(fields[s][i]) |-> Element(fields[s][i])]]]
ElementTrace(s) == Trace(Len(fields[s]), ElementSteps(s), <<>>)

LEMMA ElementTraceFacts ==
  ASSUME Setting, NEW s \in Structs,
         \A i \in DOMAIN fields[s] : ElementType(fields[s][i]) # Unknown
  PROVE  LET Q == ElementTrace(s)
             n == Len(fields[s]) IN
         /\ Q[0] = <<>> /\ Q[n] = Elements(s)
         /\ \A i \in 0..n : Q[i] \in Seq(Builtins \cup Structs)
         /\ \A i \in 1..n :
              Q[i] = Q[i - 1] \o [j \in 1..Count(fields[s][i]) |-> Element(fields[s][i])]
<1> DEFINE n == Len(fields[s])
           Q == ElementTrace(s)
           B == Seq(Builtins \cup Structs)
           J == [i \in 0..n |-> B]
           copies(i) == [j \in 1..Count(fields[s][i]) |-> Element(fields[s][i])]
           step == ElementSteps(s)
<1>1. n \in Nat /\ DOMAIN fields[s] = 1..n BY FieldsSeq
<1>2. ASSUME NEW i \in 1..n PROVE copies(i) \in B
  <2>1. s \in 1..(NumStructs + 1) BY TypesAssumption DEF Structs
  <2>2. Element(fields[s][i]) \in Builtins \cup 1..(s - 1) /\ Count(fields[s][i]) \in Nat
    BY <1>1, FieldFacts
  <2>3. Element(fields[s][i]) \in Builtins \cup Structs BY <2>1, <2>2, EarlierStructs
  <2> QED BY <2>2, <2>3
<1>3. ASSUME NEW i \in 1..n, NEW q \in B PROVE step[i][q] = q \o copies(i)
  BY <1>1 DEF ElementSteps
<1> HIDE DEF copies
<1>4. \A i \in 0..n : Q[i] \in B
  <2>1. <<>> \in J[0] BY <1>1
  <2>2. ASSUME NEW i \in 1..n, NEW q \in J[i - 1] PROVE step[i][q] \in J[i]
    <3>1. i - 1 \in 0..n /\ i \in 0..n BY <1>1
    <3>2. q \in B BY <3>1
    <3>3. q \o copies(i) \in B BY <1>2, <3>2
    <3> QED BY <1>3, <3>1, <3>2, <3>3
  <2>3. \A i \in 0..n : Q[i] \in J[i]
    <3>1. Q = Trace(n, step, <<>>) BY DEF ElementTrace
    <3> HIDE DEF J, n, Q, step
    <3> QED BY <1>1, <2>1, <2>2, <3>1, LoopRule
  <2> QED BY <2>3
<1>5. Q[0] = <<>> /\ \A i \in 1..n : Q[i] = step[i][Q[i - 1]]
  <2>1. Q = Trace(n, step, <<>>) BY DEF ElementTrace
  <2> HIDE DEF n, step, Q
  <2>2. /\ Trace(n, step, <<>>)[0] = <<>>
        /\ \A i \in 1..n : Trace(n, step, <<>>)[i] = step[i][Trace(n, step, <<>>)[i - 1]]
    BY <1>1, TraceFacts
  <2> QED BY <2>1, <2>2
<1>6. ASSUME NEW i \in 1..n PROVE Q[i] = Q[i - 1] \o copies(i)
  <2>1. i - 1 \in 0..n BY <1>1
  <2>2. Q[i - 1] \in B BY <1>4, <2>1
  <2> HIDE DEF step, Q, B
  <2> QED BY <1>3, <1>5, <2>2
<1>7. Q[n] = Elements(s) BY DEF ElementTrace, ElementSteps, Elements, Run
<1> QED BY <1>4, <1>5, <1>6, <1>7 DEF copies


-----------------------------------------------------------------------------
(* The layout that libffi gives a valid struct is that of C *)

(* What has its size in C: FFI_TYPES (src/src/ffi.cc) gives long long the   *)
(* ffi_type of long.                                                        *)
Sound(n) == n = longlong => platform.long = 8

(* The structs that C accepts and that have no long long inside, at any     *)
(* depth, where it does not have its size.                                  *)
Plain(s) ==
  /\ Valid(s)
  /\ \E S \in SUBSET Structs : s \in S /\ \A u \in S : \A i \in DOMAIN fields[u] :
       Sound(fields[u][i].base) /\ (fields[u][i].base \in Structs => fields[u][i].base \in S)

(* The ffi_type of a primitive type has its size in C.                     *)
LEMMA PrimFits ==
  ASSUME Setting, NEW n \in platform.types \cup {pointer}, Sound(n)
  PROVE  n \in Prims /\ BuiltinSize(Builtin(n)) = CSize(n)
<1>1. platform \in Platform BY TypesAssumption DEF Setting
<1>2. /\ platform.pointer \in {4, 8} /\ platform.long \in {4, 8}
      /\ platform.types \subseteq Prims
  BY <1>1 DEF Platform
<1>3. n \in Prims BY <1>2 DEF Prims
<1>4. CASE n = char
  <2>1. CSize(n) = 1 BY <1>4, NamesAssumption DEF CSize
  <2>2. Builtin(n) = sint8
    BY <1>4, NamesAssumption DEF Builtin, Own, Searched, FFI_TYPES
  <2> QED BY <1>3, <2>1, <2>2, NamesAssumption DEF BuiltinSize
<1>5. CASE n = pointer
  <2>1. CSize(n) = platform.pointer BY <1>5, NamesAssumption DEF CSize
  <2>2. Builtin(n) = pointer
    BY <1>5, NamesAssumption DEF Builtin, Own, Searched, FFI_TYPES
  <2> QED BY <1>3, <2>1, <2>2, NamesAssumption DEF BuiltinSize
<1>6. CASE n = longlong
  <2>1. platform.long = 8 BY <1>6 DEF Sound
  <2>2. Builtin(n) = sint64
    BY <1>6, <2>1, NamesAssumption DEF Builtin, Own, Searched, FFI_TYPES, IntType
  <2> QED BY <1>3, <1>6, <2>2, NamesAssumption DEF BuiltinSize, CSize
<1>7. CASE n = long
  <2>1. CSize(n) = platform.long BY <1>7, NamesAssumption DEF CSize
  <2>2. Builtin(n) = IntType(platform.long)
    BY <1>7, <2>1, NamesAssumption DEF Builtin, Own, Searched, FFI_TYPES
  <2> QED BY <1>2, <1>3, <2>1, <2>2, NamesAssumption DEF BuiltinSize, IntType
<1>8. CASE n = size_t
  <2>1. CSize(n) = platform.pointer BY <1>8, NamesAssumption DEF CSize
  <2>2. Builtin(n) \in {pointer, IntType(platform.pointer)}
    BY <1>8, <2>1, NamesAssumption DEF Builtin, Own, Searched, FFI_TYPES
  <2> QED BY <1>2, <1>3, <2>1, <2>2, NamesAssumption DEF BuiltinSize, IntType
<1> QED BY <1>3, <1>4, <1>5, <1>6, <1>7, <1>8 DEF Prims

(* What an element of a valid struct takes.                                 *)
ElementLayout(e) ==
  IF e \in Builtins THEN [size |-> BuiltinSize(e), align |-> AlignOf(BuiltinSize(e))]
  ELSE CLayout[e]

(* The elements of a valid struct take what C gives its fields.            *)
LEMMA PlainFields ==
  ASSUME Setting, NEW s \in Structs, Plain(s)
  PROVE  /\ CAccepts(CLayout, s) /\ CLayout[s] = CStruct(CLayout, s)
         /\ GoodDeclared(s, CLayout) /\ GoodLayout(CLayout[s]) /\ Len(fields[s]) > 0
         /\ \A i \in DOMAIN fields[s] : LET e == Element(fields[s][i]) IN
              /\ ElementType(fields[s][i]) # Unknown
              /\ e \in Builtins \/ (e \in 1..(s - 1) /\ Plain(e))
              /\ ElementLayout(e) = CType(CLayout, fields[s][i].base)
              /\ GoodLayout(ElementLayout(e))
<1>0. s \in 1..(NumStructs + 1) BY TypesAssumption DEF Structs
<1>1. /\ CAccepts(CLayout, s) /\ CLayout[s] = CStruct(CLayout, s)
      /\ GoodDeclared(s, CLayout) /\ GoodLayout(CLayout[s])
  BY CLayoutFacts DEF Plain, Valid
<1>2. Len(fields[s]) > 0
  <2>1. fields[s] \in Seq(FieldTypes(s)) /\ fields[s] # <<>> BY <1>1 DEF Setting, CAccepts
  <2> QED BY <2>1
<1>3. ASSUME NEW i \in DOMAIN fields[s]
      PROVE  LET e == Element(fields[s][i]) IN
             /\ ElementType(fields[s][i]) # Unknown
             /\ e \in Builtins \/ (e \in 1..(s - 1) /\ Plain(e))
             /\ ElementLayout(e) = CType(CLayout, fields[s][i].base)
             /\ GoodLayout(ElementLayout(e))
  <2> DEFINE f == fields[s][i]
  <2>1. /\ f.base \in Earlier(s) /\ (f.base \in Prims => f.base \in platform.types)
    BY FieldFacts
  <2>b. Sound(f.base) /\ (f.base \in Structs /\ Valid(f.base) => Plain(f.base)) BY DEF Plain
  <2>2. CType(CLayout, f.base) # None /\ Len(f.dims) =< 1 BY <1>1 DEF CAccepts
  <2>3. GoodLayout(CType(CLayout, f.base)) BY <1>1, <2>1, <2>2, CTypeGood
  <2>a. ElementType(f) \in Earlier(s) BY FieldFacts
  <2> HIDE DEF f
  <2>4. f.base # Unknown BY <2>2, NamesAssumption DEF CType
  <2>5. ElementType(f) = f.base
    <3>1. ~(Len(f.dims) > 1)
      <4>1. f \in FieldTypes(s)
        <5>1. fields[s] \in Seq(FieldTypes(s)) BY DEF Setting
        <5> QED BY <5>1 DEF f
      <4>2. f.dims \in Dims \/ f.dims = <<>> BY <4>1 DEF FieldTypes
      <4>3. Len(f.dims) \in Nat
        <5>1. CASE f.dims = <<>> BY <5>1
        <5>2. CASE f.dims \in Dims
          <6>1. f.dims \in Seq(Nat \ {0}) BY <5>2, TypesAssumption
          <6> QED BY <6>1
        <5> QED BY <4>2, <5>1, <5>2
      <4> QED BY <2>2, <4>3
    <3> QED BY <3>1 DEF ElementType
  <2>6. CASE f.base \in Prims
    <3>1. Element(f) = Builtin(f.base) BY <2>5, <2>6 DEF Element
    <3>2. Element(f) \in Builtins BY <2>6, <3>1, BuiltinType
    <3>3. BuiltinSize(Element(f)) = CSize(f.base) BY <2>1, <2>6, <2>b, <3>1, PrimFits
    <3>4. ElementLayout(Element(f)) = CType(CLayout, f.base)
      BY <2>6, <3>2, <3>3 DEF ElementLayout, CType
    <3> QED BY <2>3, <2>4, <2>5, <3>2, <3>4 DEF f
  <2>7. CASE f.base \in 1..(s - 1)
    <3>1. f.base \in Structs /\ f.base \notin Prims /\ f.base \notin Builtins
      BY <1>0, <2>7, EarlierStructs, NamesAssumption
    <3>2. Element(f) = f.base BY <2>5, <3>1 DEF Element
    <3>3. CType(CLayout, f.base) = CLayout[f.base] BY <3>1 DEF CType
    <3>4. ElementLayout(Element(f)) = CType(CLayout, f.base)
      BY <3>1, <3>2, <3>3 DEF ElementLayout
    <3>5. Plain(Element(f)) BY <2>2, <2>b, <3>1, <3>2, <3>3 DEF Valid
    <3> QED BY <2>3, <2>4, <2>5, <2>7, <3>2, <3>4, <3>5 DEF f
  <2> QED BY <2>1, <2>4, <2>6, <2>7 DEF Earlier
<1> QED BY <1>1, <1>2, <1>3


LEMMA ConcatFacts ==
  ASSUME NEW S, NEW p \in Seq(S), NEW q \in Seq(S), NEW r, r = p \o q
  PROVE  /\ Len(r) = Len(p) + Len(q)
         /\ \A k \in 1..Len(p) : r[k] = p[k]
         /\ \A j \in 1..Len(q) : r[Len(p) + j] = q[j]
<1>1. Len(p) \in Nat /\ Len(q) \in Nat OBVIOUS
<1>2. /\ Len(r) = Len(p) + Len(q)
      /\ \A i \in 1..Len(p) + Len(q) : r[i] = IF i =< Len(p) THEN p[i] ELSE q[i - Len(p)]
  BY ConcatProperties
<1>3. ASSUME NEW j \in 1..Len(q) PROVE r[Len(p) + j] = q[j]
  <2>1. Len(p) + j \in 1..Len(p) + Len(q) /\ ~(Len(p) + j =< Len(p)) /\ (Len(p) + j) - Len(p) = j
    BY <1>1
  <2> QED BY <1>2, <2>1
<1> QED BY <1>1, <1>2, <1>3

(* The elements of field i are where those of the fields before end.        *)
LEMMA ElementPlaces ==
  ASSUME Setting, NEW s \in Structs,
         \A i \in DOMAIN fields[s] : ElementType(fields[s][i]) # Unknown
  PROVE  LET Q == ElementTrace(s)
             n == Len(fields[s]) IN
         /\ Elements(s) \in Seq(Builtins \cup Structs)
         /\ Len(Q[0]) = 0 /\ Len(Q[n]) = Len(Elements(s))
         /\ \A i \in 0..n : Len(Q[i]) \in 0..Len(Elements(s))
         /\ \A i \in 1..n : /\ Len(Q[i]) = Len(Q[i - 1]) + Count(fields[s][i])
                            /\ \A j \in 1..Count(fields[s][i]) :
                                 Elements(s)[Len(Q[i - 1]) + j] = Element(fields[s][i])
<1> DEFINE Q == ElementTrace(s)
           n == Len(fields[s])
           E == Elements(s)
           B == Builtins \cup Structs
           c(i) == Count(fields[s][i])
           e(i) == Element(fields[s][i])
           copies(i) == [j \in 1..c(i) |-> e(i)]
           S == {d \in Nat : \A i \in 0..n : i + d =< n =>
                   Len(Q[i]) =< Len(Q[i + d]) /\ \A k \in 1..Len(Q[i]) : Q[i + d][k] = Q[i][k]}
<1>1. n \in Nat /\ DOMAIN fields[s] = 1..n BY FieldsSeq
<1>2. /\ Q[0] = <<>> /\ Q[n] = E
      /\ \A i \in 0..n : Q[i] \in Seq(B)
      /\ \A i \in 1..n : Q[i] = Q[i - 1] \o copies(i)
  BY ElementTraceFacts
<1> HIDE DEF Q, n, E, B
<1>3. ASSUME NEW i \in 1..n
      PROVE  /\ Len(Q[i]) = Len(Q[i - 1]) + c(i) /\ Len(Q[i - 1]) \in Nat /\ c(i) \in Nat
             /\ \A k \in 1..Len(Q[i - 1]) : Q[i][k] = Q[i - 1][k]
             /\ \A j \in 1..c(i) : Q[i][Len(Q[i - 1]) + j] = e(i)
  <2>1. c(i) \in Nat BY <1>1, FieldFacts
  <2>2. i - 1 \in 0..n BY <1>1
  <2>3. Q[i - 1] \in Seq(B) /\ Q[i] \in Seq(B) BY <1>1, <1>2, <2>2
  <2>4. Len(copies(i)) = c(i) /\ DOMAIN copies(i) = 1..c(i)
    <3> HIDE DEF c, e
    <3>1. copies(i) \in Seq({e(i)}) /\ DOMAIN copies(i) = 1..c(i) BY <2>1
    <3> HIDE DEF copies
    <3> QED BY <2>1, <3>1, LenProperties
  <2>5. copies(i) \in Seq(B \cup {e(i)}) /\ Q[i - 1] \in Seq(B \cup {e(i)})
    <3> HIDE DEF c, e
    <3> QED BY <2>1, <2>3
  <2>6. Q[i] = Q[i - 1] \o copies(i) BY <1>2
  <2> HIDE DEF copies
  <2>7. /\ Len(Q[i]) = Len(Q[i - 1]) + Len(copies(i))
        /\ \A k \in 1..Len(Q[i - 1]) : Q[i][k] = Q[i - 1][k]
        /\ \A j \in 1..c(i) : Q[i][Len(Q[i - 1]) + j] = copies(i)[j]
    <3> HIDE DEF c, e
    <3> DEFINE T == B \cup {e(i)}
               p == Q[i - 1]
               q == copies(i)
               r == Q[i]
    <3>a. p \in Seq(T) /\ q \in Seq(T) /\ r = p \o q BY <2>5, <2>6
    <3> HIDE DEF T, p, q, r
    <3>b. /\ Len(r) = Len(p) + Len(q)
          /\ \A k \in 1..Len(p) : r[k] = p[k]
          /\ \A j \in 1..Len(q) : r[Len(p) + j] = q[j]
      BY <3>a, ConcatFacts
    <3>1. /\ Len(Q[i]) = Len(Q[i - 1]) + Len(copies(i))
          /\ \A k \in 1..Len(Q[i - 1]) : Q[i][k] = Q[i - 1][k]
          /\ \A j \in 1..Len(copies(i)) : Q[i][Len(Q[i - 1]) + j] = copies(i)[j]
      BY <3>b DEF p, q, r
    <3> QED BY <2>4, <3>1
  <2>8. Len(Q[i - 1]) \in Nat BY <2>3
  <2>9. \A j \in 1..c(i) : copies(i)[j] = e(i) BY DEF copies
  <2> QED BY <2>1, <2>4, <2>7, <2>8, <2>9
<1> HIDE DEF copies, c, e
<1>4. S = Nat
  <2>1. 0 \in S
    <3> SUFFICES ASSUME NEW i \in 0..n
                 PROVE  Len(Q[i]) =< Len(Q[i + 0]) /\ \A k \in 1..Len(Q[i]) : Q[i + 0][k] = Q[i][k]
      OBVIOUS
    <3>1. Len(Q[i]) \in Nat BY <1>2
    <3>2. i + 0 = i BY <1>1
    <3> QED BY <3>1, <3>2
  <2>2. ASSUME NEW d \in S PROVE d + 1 \in S
    <3> SUFFICES ASSUME NEW i \in 0..n, i + (d + 1) =< n
                 PROVE  Len(Q[i]) =< Len(Q[i + (d + 1)])
                        /\ \A k \in 1..Len(Q[i]) : Q[i + (d + 1)][k] = Q[i][k]
      OBVIOUS
    <3>1. i + (d + 1) \in 1..n /\ (i + (d + 1)) - 1 = i + d /\ i + d =< n BY <1>1
    <3>2. /\ Len(Q[i]) =< Len(Q[i + d]) /\ \A k \in 1..Len(Q[i]) : Q[i + d][k] = Q[i][k]
      BY <3>1
    <3>3. /\ Len(Q[i + (d + 1)]) = Len(Q[i + d]) + c(i + (d + 1))
          /\ Len(Q[i + d]) \in Nat /\ c(i + (d + 1)) \in Nat
          /\ \A k \in 1..Len(Q[i + d]) : Q[i + (d + 1)][k] = Q[i + d][k]
      BY <1>3, <3>1
    <3>4. Len(Q[i]) \in Nat BY <1>2
    <3> QED BY <3>2, <3>3, <3>4
  <2>3. S = Nat
    <3>1. S \in SUBSET Nat OBVIOUS
    <3> HIDE DEF S
    <3> QED BY <2>1, <2>2, <3>1, SetInduction
  <2> QED BY <2>3
<1>5. ASSUME NEW i \in 0..n
      PROVE  Len(Q[i]) \in 0..Len(E) /\ \A k \in 1..Len(Q[i]) : E[k] = Q[i][k]
  <2>1. n - i \in Nat /\ i + (n - i) = n BY <1>1
  <2>2. n - i \in S BY <1>4, <2>1
  <2>3. Len(Q[i]) =< Len(Q[n]) /\ \A k \in 1..Len(Q[i]) : Q[n][k] = Q[i][k] BY <2>1, <2>2
  <2>4. Len(Q[i]) \in Nat /\ Len(Q[n]) \in Nat BY <1>1, <1>2
  <2> QED BY <1>2, <2>3, <2>4
<1>6. ASSUME NEW i \in 1..n, NEW j \in 1..c(i) PROVE E[Len(Q[i - 1]) + j] = e(i)
  <2>1. Len(Q[i - 1]) + j \in 1..Len(Q[i]) BY <1>3
  <2>2. i \in 0..n BY <1>1
  <2> QED BY <1>3, <1>5, <2>1, <2>2
<1>7. E \in Seq(B) BY <1>1, <1>2
<1>8. Len(Q[0]) = 0 /\ Len(Q[n]) = Len(E) BY <1>2
<1> QED BY <1>3, <1>5, <1>6, <1>7, <1>8 DEF Q, n, E, B, c, e

(* What libffi makes of them, the layout of each element being right.       *)
Put(l, e) == [size |-> RoundUp(l.size, e.align) + e.size, align |-> Larger(l.align, e.align)]
PlacedSteps(s) ==
  [k \in DOMAIN Elements(s) |-> [l \in CLayouts |-> Put(l, ElementLayout(Elements(s)[k]))]]
Placed(s) == Trace(Len(Elements(s)), PlacedSteps(s), [size |-> 0, align |-> 0])

LEMMA PutFacts ==
  ASSUME NEW l \in CLayouts, l.align \in {0, 1, 4, 8}, NEW e, GoodLayout(e)
  PROVE  /\ Put(l, e) \in CLayouts /\ Put(l, e).align \in {1, 4, 8}
         /\ Put(l, e).align = Larger(l.align, e.align)
         /\ Put(l, e).size = FirstFit(l.size, e.align) + e.size
         /\ Put(l, e).size % e.align = 0
         /\ l.size % e.align = 0 => Put(l, e).size = l.size + e.size
<1> DEFINE a == e.align
           z == e.size
           n == l.size
<1>1. n \in Nat /\ a \in {1, 4, 8} /\ z \in Nat /\ z % a = 0 BY DEF CLayouts, GoodLayout
<1>2. Put(l, e).size = RoundUp(n, a) + z /\ Put(l, e).align = Larger(l.align, a)
      /\ Put(l, e) = [size |-> RoundUp(n, a) + z, align |-> Larger(l.align, a)]
  BY DEF Put
<1> HIDE DEF a, z, n
<1>3. /\ RoundUp(n, a) = FirstFit(n, a) /\ RoundUp(n, a) \in Nat /\ RoundUp(n, a) % a = 0
      /\ RoundUp(n, a) >= n /\ RoundUp(n, a) =< n + a - 1
  BY <1>1, FirstFitFacts
<1>4. Larger(l.align, a) \in {1, 4, 8} BY <1>1 DEF Larger
<1>5. (RoundUp(n, a) + z) % a = 0 /\ (n % a = 0 => RoundUp(n, a) = n)
  <2> DEFINE r == RoundUp(n, a)
  <2>0. r \in Nat /\ r % a = 0 /\ r >= n /\ r =< n + a - 1 BY <1>3
  <2> HIDE DEF r
  <2>a. \A x, y \in Nat :
          /\ (x + y) % 1 = 0
          /\ x % 4 = 0 /\ y % 4 = 0 => (x + y) % 4 = 0
          /\ x % 8 = 0 /\ y % 8 = 0 => (x + y) % 8 = 0
    OBVIOUS
  <2>b. \A x, y \in Nat : x =< y =>
          /\ y =< x + 1 - 1 => y = x
          /\ x % 4 = 0 /\ y % 4 = 0 /\ y =< x + 4 - 1 => y = x
          /\ x % 8 = 0 /\ y % 8 = 0 /\ y =< x + 8 - 1 => y = x
    OBVIOUS
  <2>1. a = 1 => (r + z) % a = 0 /\ (n % a = 0 => r = n) BY <1>1, <2>0, <2>a, <2>b
  <2>2. a = 4 => (r + z) % a = 0 /\ (n % a = 0 => r = n) BY <1>1, <2>0, <2>a, <2>b
  <2>3. a = 8 => (r + z) % a = 0 /\ (n % a = 0 => r = n) BY <1>1, <2>0, <2>a, <2>b
  <2> QED BY <1>1, <2>1, <2>2, <2>3 DEF r
<1> QED BY <1>1, <1>2, <1>3, <1>4, <1>5 DEF CLayouts, a, z, n


(* The trace of their places.                                              *)
LEMMA PlacedFacts ==
  ASSUME Setting, NEW s \in Structs, Plain(s)
  PROVE  LET P == Placed(s)
             n == Len(Elements(s)) IN
         /\ n \in Nat /\ DOMAIN Elements(s) = 1..n
         /\ P[0] = [size |-> 0, align |-> 0]
         /\ \A k \in 0..n : P[k] \in CLayouts /\ P[k].align \in {0, 1, 4, 8}
         /\ \A k \in 1..n : LET e == Elements(s)[k] IN
              /\ e \in Builtins \/ (e \in 1..(s - 1) /\ Plain(e))
              /\ GoodLayout(ElementLayout(e))
              /\ P[k] = Put(P[k - 1], ElementLayout(e))
<1> DEFINE E == Elements(s)
           n == Len(E)
           P == Placed(s)
           step == PlacedSteps(s)
           start == [size |-> 0, align |-> 0]
           J == [k \in 0..n |-> {l \in CLayouts : l.align \in {0, 1, 4, 8}}]
           F == {Element(fields[s][i]) : i \in DOMAIN fields[s]}
<1>1. E \in Seq(F) BY ElementsMade, PlainFields
<1>2. \A e \in F : /\ e \in Builtins \/ (e \in 1..(s - 1) /\ Plain(e))
                   /\ GoodLayout(ElementLayout(e))
  BY PlainFields
<1> HIDE DEF F
<1>3. n \in Nat /\ DOMAIN E = 1..n /\ \A k \in 1..n : E[k] \in F BY <1>1
<1> HIDE DEF E
<1>4. \A k \in 1..n : /\ E[k] \in Builtins \/ (E[k] \in 1..(s - 1) /\ Plain(E[k]))
                      /\ GoodLayout(ElementLayout(E[k]))
  BY <1>2, <1>3
<1>5. ASSUME NEW k \in 1..n, NEW l \in CLayouts, l.align \in {0, 1, 4, 8}
      PROVE  /\ step[k][l] = Put(l, ElementLayout(E[k]))
             /\ step[k][l] \in CLayouts /\ step[k][l].align \in {0, 1, 4, 8}
  <2>1. step[k][l] = Put(l, ElementLayout(E[k])) BY <1>3 DEF PlacedSteps, E
  <2>2. GoodLayout(ElementLayout(E[k])) BY <1>4
  <2> QED BY <1>5, <2>1, <2>2, PutFacts
<1> HIDE DEF step, n
<1>6. \A k \in 0..n : P[k] \in J[k]
  <2>1. start \in J[0] BY <1>3 DEF CLayouts
  <2>2. ASSUME NEW k \in 1..n, NEW l \in J[k - 1] PROVE step[k][l] \in J[k]
    <3>1. k - 1 \in 0..n /\ k \in 0..n BY <1>3
    <3> QED BY <1>5, <3>1
  <2>3. P = Trace(n, step, start) BY DEF Placed, step, n, E
  <2> HIDE DEF J, start, P
  <2> QED BY <1>3, <2>1, <2>2, <2>3, LoopRule
<1>7. P[0] = start /\ \A k \in 1..n : P[k] = step[k][P[k - 1]]
  <2>1. P = Trace(n, step, start) BY DEF Placed, step, n, E
  <2> HIDE DEF start, P
  <2>2. /\ Trace(n, step, start)[0] = start
        /\ \A k \in 1..n : Trace(n, step, start)[k] = step[k][Trace(n, step, start)[k - 1]]
    BY <1>3, TraceFacts
  <2> QED BY <2>1, <2>2
<1>8. \A k \in 0..n : P[k] \in CLayouts /\ P[k].align \in {0, 1, 4, 8}
  <2> HIDE DEF P
  <2> QED BY <1>6
<1>9. ASSUME NEW k \in 1..n PROVE P[k] = Put(P[k - 1], ElementLayout(E[k]))
  <2>1. k - 1 \in 0..n BY <1>3
  <2> HIDE DEF P
  <2> QED BY <1>5, <1>7, <1>8, <2>1
<1> QED BY <1>3, <1>4, <1>7, <1>8, <1>9 DEF E, n

(* Copies of an element one after the other are like an array in C.         *)
LEMMA PlacedArray ==
  ASSUME Setting, NEW s \in Structs, Plain(s),
         NEW i \in 1..Len(fields[s]), NEW j \in Nat, j + 1 =< Count(fields[s][i])
  PROVE  LET k == Len(ElementTrace(s)[i - 1])
             e == CType(CLayout, fields[s][i].base)
             l == Placed(s)[k + (j + 1)] IN
         /\ l.size = FirstFit(Placed(s)[k].size, e.align) + (j + 1) * e.size
         /\ l.align = Larger(Placed(s)[k].align, e.align)
         /\ l.size % e.align = 0 /\ l.align \in {1, 4, 8}
<1> DEFINE c == Count(fields[s][i])
           k == Len(ElementTrace(s)[i - 1])
           e == CType(CLayout, fields[s][i].base)
           P == Placed(s)
           E == Elements(s)
           Good(d) == /\ P[k + (d + 1)].size = FirstFit(P[k].size, e.align) + (d + 1) * e.size
                      /\ P[k + (d + 1)].align = Larger(P[k].align, e.align)
                      /\ P[k + (d + 1)].size % e.align = 0
                      /\ P[k + (d + 1)].align \in {1, 4, 8}
           S == {d \in Nat : d + 1 =< c => Good(d)}
<1>1. Len(fields[s]) \in Nat /\ DOMAIN fields[s] = 1..Len(fields[s]) BY FieldsSeq
<1>2. c \in Nat \ {0} BY <1>1, FieldFacts
<1>3. /\ k \in Nat /\ k + c =< Len(E) /\ Len(E) \in Nat
      /\ \A d \in 1..c : E[k + d] = Element(fields[s][i])
  <2>1. \A d \in DOMAIN fields[s] : ElementType(fields[s][d]) # Unknown BY PlainFields
  <2>2. /\ \A d \in 0..Len(fields[s]) : Len(ElementTrace(s)[d]) \in 0..Len(E)
        /\ Len(ElementTrace(s)[i]) = k + c
        /\ \A d \in 1..c : E[k + d] = Element(fields[s][i])
    BY <2>1, ElementPlaces
  <2>3. i - 1 \in 0..Len(fields[s]) /\ i \in 0..Len(fields[s]) BY <1>1
  <2>4. Len(E) \in Nat BY PlacedFacts
  <2> HIDE DEF k, c, E
  <2>5. k \in Nat BY <2>2, <2>3, <2>4 DEF k
  <2>6. k + c =< Len(E) BY <2>2, <2>3, <2>4
  <2> QED BY <2>2, <2>4, <2>5, <2>6
<1>4. GoodLayout(e) /\ ElementLayout(Element(fields[s][i])) = e BY <1>1, PlainFields
<1>5. /\ \A d \in 0..Len(E) : P[d] \in CLayouts /\ P[d].align \in {0, 1, 4, 8}
      /\ \A d \in 1..Len(E) : P[d] = Put(P[d - 1], ElementLayout(E[d]))
  BY PlacedFacts
<1> HIDE DEF c, k, e, P, E
<1>6. ASSUME NEW d \in 1..c
      PROVE  /\ P[k + d] = Put(P[k + (d - 1)], e)
             /\ P[k + (d - 1)] \in CLayouts /\ P[k + (d - 1)].align \in {0, 1, 4, 8}
  <2>1. k + d \in 1..Len(E) /\ (k + d) - 1 = k + (d - 1) /\ k + (d - 1) \in 0..Len(E)
    BY <1>2, <1>3
  <2>2. ElementLayout(E[k + d]) = e BY <1>3, <1>4
  <2> QED BY <1>5, <2>1, <2>2
<1>7. e.align \in {1, 4, 8} /\ e.size \in Nat BY <1>4 DEF GoodLayout, CLayouts
<1>8. 0 \in S
  <2>1. P[k + 1] = Put(P[k], e) /\ P[k] \in CLayouts /\ P[k].align \in {0, 1, 4, 8}
    <3>1. 1 \in 1..c /\ k + (1 - 1) = k BY <1>2, <1>3
    <3> QED BY <1>6, <3>1
  <2>2. k + (0 + 1) = k + 1 /\ (0 + 1) * e.size = e.size BY <1>3, <1>7
  <2>3. /\ P[k + 1].align \in {1, 4, 8} /\ P[k + 1].align = Larger(P[k].align, e.align)
        /\ P[k + 1].size = FirstFit(P[k].size, e.align) + e.size
        /\ P[k + 1].size % e.align = 0
    BY <1>4, <2>1, PutFacts
  <2> QED BY <2>2, <2>3
<1>9. ASSUME NEW d \in S PROVE d + 1 \in S
  <2> SUFFICES ASSUME (d + 1) + 1 =< c PROVE Good(d + 1)
    OBVIOUS
  <2> DEFINE p == P[k + (d + 1)]
             q == P[k + ((d + 1) + 1)]
             z == FirstFit(P[k].size, e.align)
  <2>0. d \in Nat /\ d + 1 =< c BY <1>2
  <2>1. Good(d) BY <2>0
  <2>2. q = Put(p, e) /\ p \in CLayouts
    <3>1. (d + 1) + 1 \in 1..c /\ ((d + 1) + 1) - 1 = d + 1 BY <1>2, <2>0
    <3> QED BY <1>6, <3>1
  <2>3. p.size = z + (d + 1) * e.size /\ p.size % e.align = 0
        /\ p.align = Larger(P[k].align, e.align) /\ p.align \in {1, 4, 8}
    BY <2>1
  <2>4. z \in Nat
    <3>1. P[k] \in CLayouts
      <4>1. k \in 0..Len(E) BY <1>3, <1>2
      <4> QED BY <1>5, <4>1
    <3>2. P[k].size \in Nat BY <3>1 DEF CLayouts
    <3> QED BY <1>7, <3>2, FirstFitFacts
  <2> HIDE DEF p, q, z
  <2>5. /\ q.align \in {1, 4, 8} /\ q.align = Larger(p.align, e.align)
        /\ q.size = p.size + e.size /\ q.size % e.align = 0
    BY <1>4, <2>2, <2>3, PutFacts
  <2>6. q.size = z + ((d + 1) + 1) * e.size
    <3>1. (d + 1) * e.size \in Nat /\ ((d + 1) + 1) * e.size = (d + 1) * e.size + e.size
      <4>1. \A x, y \in Nat : x * y \in Nat /\ (x + 1) * y = x * y + y OBVIOUS
      <4>2. d + 1 \in Nat /\ e.size \in Nat BY <1>7, <2>0
      <4> QED BY <4>1, <4>2
    <3> QED BY <1>7, <2>3, <2>4, <2>5, <3>1
  <2>7. q.align = Larger(P[k].align, e.align)
    <3>1. P[k].align \in {0, 1, 4, 8}
      <4>1. k \in 0..Len(E) BY <1>3, <1>2
      <4> QED BY <1>5, <4>1
    <3> QED BY <1>7, <2>3, <2>5, <3>1 DEF Larger
  <2> QED BY <2>5, <2>6, <2>7 DEF q, z
<1>10. S = Nat
  <2>1. S \in SUBSET Nat OBVIOUS
  <2> HIDE DEF S
  <2> QED BY <1>8, <1>9, <2>1, SetInduction
<1>11. Good(j) BY <1>10 DEF c
<1> QED BY <1>11 DEF k, e, P


(* So libffi comes to the layout of C.                                      *)
LEMMA PlacedIsC ==
  ASSUME Setting, NEW s \in Structs, Plain(s)
  PROVE  LET l == Placed(s)[Len(Elements(s))]
         IN  RoundUp(l.size, l.align) = CLayout[s].size /\ l.align = CLayout[s].align
<1> DEFINE n == Len(fields[s])
           Q == ElementTrace(s)
           C == CTrace(CLayout, s)
           P == Placed(s)
           Good(i) == /\ P[Len(Q[i])].size = C[i].size
                      /\ Larger(P[Len(Q[i])].align, 1) = C[i].align
                      /\ i > 0 => P[Len(Q[i])].align \in {1, 4, 8}
           S == {i \in Nat : i =< n => Good(i)}
<1>1. n \in Nat /\ n > 0 /\ DOMAIN fields[s] = 1..n BY FieldsSeq, PlainFields
<1>2. /\ C[0] = [size |-> 0, align |-> 1]
      /\ \A i \in 1..n : C[i] = CFieldStep(CLayout, fields[s][i], C[i - 1])
      /\ \A i \in 0..n : C[i] \in CLayouts /\ C[i].align \in {1, 4, 8}
      /\ CStruct(CLayout, s) = [size |-> FirstFit(C[n].size, C[n].align), align |-> C[n].align]
      /\ CLayout[s] = CStruct(CLayout, s)
  <2>1. GoodDeclared(s, CLayout) /\ CAccepts(CLayout, s) /\ CLayout[s] = CStruct(CLayout, s)
    BY PlainFields
  <2> QED BY <2>1, CTraceGood, CStructGood
<1>3. /\ Len(Q[0]) = 0 /\ Len(Q[n]) = Len(Elements(s))
      /\ \A i \in 0..n : Len(Q[i]) \in 0..Len(Elements(s))
      /\ \A i \in 1..n : Len(Q[i]) = Len(Q[i - 1]) + Count(fields[s][i])
  <2>1. \A i \in DOMAIN fields[s] : ElementType(fields[s][i]) # Unknown BY PlainFields
  <2> QED BY <2>1, ElementPlaces
<1>4. /\ P[0] = [size |-> 0, align |-> 0]
      /\ \A k \in 0..Len(Elements(s)) : P[k] \in CLayouts /\ P[k].align \in {0, 1, 4, 8}
  BY PlacedFacts
<1>5. ASSUME NEW i \in 1..n
      PROVE  LET f == fields[s][i]
                 e == CType(CLayout, f.base)
                 k == Len(Q[i - 1])
                 l == P[Len(Q[i])] IN
             /\ l.size = FirstFit(P[k].size, e.align) + Count(f) * e.size
             /\ l.align = Larger(P[k].align, e.align) /\ l.align \in {1, 4, 8}
             /\ GoodLayout(e)
  <2> DEFINE c == Count(fields[s][i])
  <2>1. c \in Nat \ {0} BY <1>1, FieldFacts
  <2> HIDE DEF c
  <2>2. c - 1 \in Nat /\ (c - 1) + 1 = c BY <2>1
  <2>3. Len(Q[i]) = Len(Q[i - 1]) + ((c - 1) + 1) BY <1>3, <2>2 DEF c
  <2>4. (c - 1) + 1 =< Count(fields[s][i]) BY <2>1, <2>2 DEF c
  <2>5. GoodLayout(CType(CLayout, fields[s][i].base)) BY <1>1, PlainFields
  <2> DEFINE e == CType(CLayout, fields[s][i].base)
             k == Len(Q[i - 1])
             l == P[k + ((c - 1) + 1)]
  <2>6. /\ l.size = FirstFit(P[k].size, e.align) + ((c - 1) + 1) * e.size
        /\ l.align = Larger(P[k].align, e.align) /\ l.align \in {1, 4, 8}
    BY <2>2, <2>4, PlacedArray
  <2> HIDE DEF Q, P
  <2> QED BY <2>2, <2>3, <2>5, <2>6 DEF c
<1> HIDE DEF Q, C, P, n
<1>6. 0 \in S BY <1>2, <1>3, <1>4 DEF Larger
<1>7. ASSUME NEW i \in S PROVE i + 1 \in S
  <2> SUFFICES ASSUME i + 1 =< n PROVE Good(i + 1)
    OBVIOUS
  <2>1. i \in Nat /\ i + 1 \in 1..n /\ (i + 1) - 1 = i /\ i \in 0..n /\ i =< n BY <1>1
  <2>2. Good(i) BY <2>1
  <2> DEFINE e == CType(CLayout, fields[s][i + 1].base)
             p == P[Len(Q[i])]
             l == P[Len(Q[i + 1])]
  <2>3. /\ l.size = FirstFit(p.size, e.align) + Count(fields[s][i + 1]) * e.size
        /\ l.align = Larger(p.align, e.align) /\ l.align \in {1, 4, 8} /\ GoodLayout(e)
    BY <1>5, <2>1
  <2>4. C[i + 1] = [size |-> FirstFit(C[i].size, e.align) + Count(fields[s][i + 1]) * e.size,
                    align |-> Larger(C[i].align, e.align)]
    BY <1>2, <2>1 DEF CFieldStep
  <2>5. p.size = C[i].size /\ Larger(p.align, 1) = C[i].align BY <2>2
  <2>6. p.align \in {0, 1, 4, 8} /\ e.align \in {1, 4, 8}
    BY <1>3, <1>4, <2>1, <2>3 DEF GoodLayout
  <2> HIDE DEF e, p, l
  <2>7. l.size = C[i + 1].size BY <2>3, <2>4, <2>5
  <2>8. Larger(l.align, 1) = C[i + 1].align
    <3>1. C[i + 1].align = Larger(C[i].align, e.align) BY <2>4
    <3> QED BY <2>3, <2>5, <2>6, <3>1 DEF Larger
  <2> QED BY <2>1, <2>3, <2>7, <2>8 DEF l
<1>8. S = Nat
  <2>1. S \in SUBSET Nat OBVIOUS
  <2> HIDE DEF S
  <2> QED BY <1>6, <1>7, <2>1, SetInduction
<1>9. Good(n) BY <1>1, <1>8
<1> DEFINE l == P[Len(Q[n])]
<1>10. l.size = C[n].size /\ l.align = C[n].align
  <2>1. l.align \in {1, 4, 8} BY <1>1, <1>9
  <2> QED BY <1>9, <2>1 DEF Larger
<1>11. C[n].size \in Nat /\ C[n].align \in {1, 4, 8} BY <1>1, <1>2 DEF CLayouts
<1> HIDE DEF l
<1>12. FirstFit(C[n].size, C[n].align) = RoundUp(C[n].size, C[n].align)
  BY <1>11, FirstFitFacts
<1> QED BY <1>2, <1>3, <1>10, <1>12 DEF l, P


-----------------------------------------------------------------------------
(* No struct is left half laid out *)

(* The memory of the structs before t: the elements are those Type() made,  *)
(* and a plain struct with a size has its final layout.                     *)
CleanBelow(t, m) == \A u \in Structs : u < t /\ m[u] # None =>
  /\ m[u].elements = Elements(u)
  /\ Plain(u) /\ m[u].size # 0 => m[u].size = CLayout[u].size /\ m[u].alignment = CLayout[u].align

(* initialize_aggregate leaves the memory clean, for the struct s too, and  *)
(* succeeds with a valid one.                                               *)
CleanAggregate(s) == \A m \in Unsized(s) :
  CleanBelow(s, m) /\ m[s].elements = Elements(s) =>
    CleanBelow(s + 1, Aggregate[s][m].ffi) /\ (Plain(s) => Aggregate[s][m].ok)

LEMMA InitializeClean ==
  ASSUME Setting, NEW s \in 1..(NumStructs + 1), \A u \in 1..(s - 1) : CleanAggregate(u),
         NEW m \in Memories, WellFormed(m), CleanBelow(s, m), NEW e \in Inside(s, m)
  PROVE  LET r == Initialize(Aggregate, e, m) IN
         /\ CleanBelow(s, r.ffi)
         /\ e \in Builtins \/ Plain(e) =>
              /\ r.ok
              /\ Size(e, r.ffi) = ElementLayout(e).size /\ Align(e, r.ffi) = ElementLayout(e).align
<1>1. CASE e \in Builtins
  <2>1. Size(e, m) # 0 BY <1>1, SizeFacts
  <2>2. Initialize(Aggregate, e, m) = [ok |-> TRUE, ffi |-> m] BY <2>1 DEF Initialize
  <2> QED BY <1>1, <2>2 DEF Size, Align, ElementLayout
<1>2. CASE e \notin Builtins
  <2>0. e \in 1..(s - 1) /\ m[e] # None /\ e \in Structs /\ e < s
    BY <1>2, EarlierStructs, TypesAssumption DEF Inside
  <2>1. CASE m[e].size # 0
    <3>1. Initialize(Aggregate, e, m) = [ok |-> TRUE, ffi |-> m]
      BY <1>2, <2>1 DEF Initialize, Size
    <3>2. Plain(e) => m[e].size = CLayout[e].size /\ m[e].alignment = CLayout[e].align
      BY <2>0, <2>1 DEF CleanBelow
    <3> QED BY <1>2, <3>1, <3>2 DEF Size, Align, ElementLayout
  <2>2. CASE m[e].size = 0
    <3> DEFINE r == Aggregate[e][m]
    <3>1. m \in Unsized(e) BY <2>0, <2>2 DEF Unsized
    <3>2. CleanBelow(e, m) /\ m[e].elements = Elements(e)
      BY <2>0, TypesAssumption DEF CleanBelow, Structs
    <3>3. CleanBelow(e + 1, r.ffi) /\ (Plain(e) => r.ok) BY <2>0, <3>1, <3>2 DEF CleanAggregate
    <3>4. Keeps(e + 1, m, r) /\ (r.ok => r.ffi[e].size # 0)
      BY <2>0, <3>1, AggregateFacts DEF GoodAggregate
    <3>5. Initialize(Aggregate, e, m) = r BY <1>2, <2>2 DEF Initialize, Size
    <3> HIDE DEF r
    <3>6. CleanBelow(s, r.ffi)
      <4> SUFFICES ASSUME NEW u \in Structs, u < s, r.ffi[u] # None
                   PROVE  /\ r.ffi[u].elements = Elements(u)
                          /\ Plain(u) /\ r.ffi[u].size # 0 =>
                               r.ffi[u].size = CLayout[u].size /\ r.ffi[u].alignment = CLayout[u].align
        BY DEF CleanBelow
      <4>1. CASE u < e + 1 BY <3>3, <4>1 DEF CleanBelow
      <4>2. CASE u >= e + 1
        <5>1. r.ffi[u] = m[u] BY <3>4, <4>2 DEF Keeps, Kept
        <5> QED BY <5>1 DEF CleanBelow
      <4> QED BY <2>0, <4>1, <4>2, TypesAssumption DEF Structs
    <3>7. r.ffi[e] # None BY <2>0, <3>4 DEF Keeps, Kept
    <3>8. Plain(e) => r.ffi[e].size = CLayout[e].size /\ r.ffi[e].alignment = CLayout[e].align
      BY <2>0, <3>3, <3>4, <3>6, <3>7 DEF CleanBelow
    <3> QED BY <1>2, <3>3, <3>5, <3>6, <3>8 DEF Size, Align, ElementLayout
  <2> QED BY <2>1, <2>2
<1> QED BY <1>1, <1>2

(* Place() and the final rounding change s alone.                           *)
LEMMA CleanSame ==
  ASSUME NEW s \in Structs, NEW a, NEW b, CleanBelow(s, a), \A u \in Structs : u # s => b[u] = a[u]
  PROVE  CleanBelow(s, b)
<1>1. \A u \in Structs : u < s => u # s BY TypesAssumption DEF Structs
<1> QED BY <1>1 DEF CleanBelow

(* The loop of initialize_aggregate has gone as Placed says, so far.        *)
PlacedClean(s, r, l) ==
  /\ CleanBelow(s, r.ffi)
  /\ Plain(s) => r.ok /\ r.ffi[s].size = l.size /\ r.ffi[s].alignment = l.align

LEMMA PlaceClean ==
  ASSUME Setting, NEW s \in Structs, \A u \in 1..(s - 1) : CleanAggregate(u),
         NEW m \in Unsized(s), NEW e \in Inside(s, m), NEW r, Keeps(s + 1, m, r),
         NEW l, PlacedClean(s, r, l), Plain(s) => e \in Builtins \/ Plain(e)
  PROVE  PlacedClean(s, PlaceNext(Aggregate, s, e, r), Put(l, ElementLayout(e)))
<1> USE DEF PlacedClean
<1> DEFINE i == Initialize(Aggregate, e, r.ffi)
           p == Place(s, e, i.ffi)
           q == PlaceNext(Aggregate, s, e, r)
<1>0. s \in 1..(NumStructs + 1) /\ s \in Int BY TypesAssumption DEF Structs
<1>1. r \in Outcomes /\ r.ffi \in Memories /\ WellFormed(r.ffi) /\ Kept(s + 1, m, r.ffi)
  BY DEF Keeps, Outcomes
<1>2. e \in Inside(s, r.ffi) BY <1>0, <1>1, KeptInside
<1>3. /\ CleanBelow(s, i.ffi)
      /\ e \in Builtins \/ Plain(e) =>
           i.ok /\ Size(e, i.ffi) = ElementLayout(e).size /\ Align(e, i.ffi) = ElementLayout(e).align
  BY <1>0, <1>1, <1>2, InitializeClean
<1>4. Keeps(s, r.ffi, i)
  <2>1. GoodAggregates(s, Aggregate) BY <1>0, AggregateFacts, EarlierStructs DEF GoodAggregates
  <2> QED BY <1>0, <1>1, <1>2, <2>1, InitializeOne
<1> HIDE DEF i
<1>5. i \in Outcomes /\ i.ffi \in Memories /\ WellFormed(i.ffi) /\ Kept(s, r.ffi, i.ffi)
  BY <1>4 DEF Keeps, Outcomes
<1>6. i.ffi[s] = r.ffi[s] BY <1>0, <1>5 DEF Kept
<1>7. CASE ~r.ok
  <2>1. q = r /\ ~Plain(s) BY <1>7 DEF PlaceNext
  <2> QED BY <2>1
<1>8. CASE r.ok /\ ~i.ok
  <2>1. q = i /\ ~Plain(s) BY <1>3, <1>8 DEF PlaceNext, i
  <2> QED BY <1>3, <2>1
<1>9. CASE r.ok /\ i.ok
  <2>1. q = [i EXCEPT !.ffi = p] BY <1>9 DEF PlaceNext, i
  <2>2. m[s] # None BY DEF Unsized
  <2>3. i.ffi[s] # None BY <1>1, <1>6, <2>2 DEF Kept
  <2>4. e \in Inside(s, i.ffi) BY <1>0, <1>2, <1>5, KeptInside
  <2>5. /\ \A u \in Structs : u # s => p[u] = i.ffi[u]
        /\ p[s].size = RoundUp(i.ffi[s].size, Align(e, i.ffi)) + Size(e, i.ffi)
        /\ p[s].alignment = Larger(i.ffi[s].alignment, Align(e, i.ffi))
    BY <1>5, <2>3, <2>4, PlaceFacts
  <2> HIDE DEF p, q
  <2>6. q.ok = i.ok /\ q.ffi = p BY <1>5, <2>1 DEF Outcomes
  <2>7. CleanBelow(s, p) BY <1>3, <2>5, CleanSame
  <2>8. ASSUME Plain(s)
        PROVE  p[s].size = Put(l, ElementLayout(e)).size /\ p[s].alignment = Put(l, ElementLayout(e)).align
    <3>1. Size(e, i.ffi) = ElementLayout(e).size /\ Align(e, i.ffi) = ElementLayout(e).align
      BY <1>3, <2>8
    <3>2. i.ffi[s].size = l.size /\ i.ffi[s].alignment = l.align BY <1>6, <2>8
    <3> QED BY <2>5, <3>1, <3>2 DEF Put
  <2> QED BY <1>9, <2>6, <2>7, <2>8 DEF q
<1> QED BY <1>7, <1>8, <1>9


(* The loop places the elements as Placed says, failing on invalid structs.*)
LEMMA AggregateClean ==
  ASSUME Setting, NEW s \in Structs, \A u \in 1..(s - 1) : CleanAggregate(u)
  PROVE  CleanAggregate(s)
<1> SUFFICES ASSUME NEW m \in Unsized(s), CleanBelow(s, m), m[s].elements = Elements(s)
             PROVE  /\ CleanBelow(s + 1, Aggregate[s][m].ffi)
                    /\ Plain(s) => Aggregate[s][m].ok
  BY DEF CleanAggregate
<1> DEFINE n == Len(m[s].elements)
           P == Placed(s)
           T == PlaceTrace(Aggregate, s, m)
           Good(k) == PlacedClean(s, T[k], P[k])
           S == {k \in Nat : k =< n => Good(k)}
<1>0. s \in 1..(NumStructs + 1) /\ s \in Nat BY TypesAssumption DEF Structs
<1>1. /\ n \in Nat /\ DOMAIN m[s].elements = 1..n
      /\ \A k \in DOMAIN m[s].elements : m[s].elements[k] \in Inside(s, m)
  BY UnsizedElements
<1>2. /\ \A k \in 0..n : Keeps(s + 1, m, T[k])
      /\ PlaceAll(Aggregate, s, m) = T[n]
  <2>1. GoodAggregates(s, Aggregate) BY <1>0, AggregateFacts, EarlierStructs DEF GoodAggregates
  <2> QED BY <2>1, PlaceTraceKeeps
<1>3. /\ T[0] = [ok |-> TRUE, ffi |-> Cleared(s, m)]
      /\ \A k \in 1..n : T[k] = PlaceSteps(Aggregate, s, m)[k][T[k - 1]]
  <2> DEFINE step == PlaceSteps(Aggregate, s, m)
             start == [ok |-> TRUE, ffi |-> Cleared(s, m)]
  <2>1. T = Trace(n, step, start) BY DEF PlaceTrace
  <2> HIDE DEF n, step, start, T
  <2>2. /\ Trace(n, step, start)[0] = start
        /\ \A k \in 1..n : Trace(n, step, start)[k] = step[k][Trace(n, step, start)[k - 1]]
    BY <1>1, TraceFacts
  <2>3. T[0] = start /\ \A k \in 1..n : T[k] = step[k][T[k - 1]] BY <2>1, <2>2
  <2> QED BY <2>3 DEF step, start
<1>4. ASSUME NEW k \in 1..n
      PROVE  T[k] = PlaceNext(Aggregate, s, m[s].elements[k], T[k - 1])
  <2>1. k - 1 \in 0..n BY <1>1
  <2>2. T[k - 1] \in Outcomes BY <1>2, <2>1 DEF Keeps
  <2> HIDE DEF T, n
  <2>3. PlaceSteps(Aggregate, s, m)[k][T[k - 1]] = PlaceNext(Aggregate, s, m[s].elements[k], T[k - 1])
    BY <1>1, <2>2 DEF PlaceSteps
  <2> QED BY <1>3, <2>3
<1>5. Plain(s) =>
        /\ P[0] = [size |-> 0, align |-> 0]
        /\ \A k \in 1..n : LET e == m[s].elements[k] IN
             /\ e \in Builtins \/ Plain(e)
             /\ P[k] = Put(P[k - 1], ElementLayout(e))
  BY PlacedFacts
<1> HIDE DEF T, n, P
<1>6. 0 \in S
  <2>1. T[0].ffi = Cleared(s, m) /\ T[0].ok BY <1>3
  <2>2. CleanBelow(s, Cleared(s, m))
    <3>1. \A u \in Structs : u # s => Cleared(s, m)[u] = m[u] BY ClearedFacts
    <3> QED BY <3>1, CleanSame
  <2>3. Cleared(s, m)[s].size = 0 /\ Cleared(s, m)[s].alignment = 0 BY ClearedFacts
  <2> QED BY <1>5, <2>1, <2>2, <2>3 DEF PlacedClean
<1>7. ASSUME NEW k \in S PROVE k + 1 \in S
  <2> SUFFICES ASSUME k + 1 =< n PROVE Good(k + 1)
    OBVIOUS
  <2>1. k \in Nat /\ k + 1 \in 1..n /\ (k + 1) - 1 = k /\ k \in 0..n /\ k =< n BY <1>1
  <2>2. Good(k) BY <2>1
  <2> DEFINE e == m[s].elements[k + 1]
  <2>3. T[k + 1] = PlaceNext(Aggregate, s, e, T[k]) BY <1>4, <2>1
  <2>4. Plain(s) => (e \in Builtins \/ Plain(e)) /\ P[k + 1] = Put(P[k], ElementLayout(e))
    BY <1>5, <2>1
  <2>5. e \in Inside(s, m) BY <1>1, <2>1
  <2>6. Keeps(s + 1, m, T[k]) BY <1>2, <2>1
  <2> HIDE DEF e
  <2>7. PlacedClean(s, PlaceNext(Aggregate, s, e, T[k]), Put(P[k], ElementLayout(e)))
    BY <2>2, <2>4, <2>5, <2>6, PlaceClean
  <2> QED BY <2>3, <2>4, <2>7 DEF PlacedClean
<1>8. S = Nat
  <2>1. S \in SUBSET Nat OBVIOUS
  <2> HIDE DEF S
  <2> QED BY <1>6, <1>7, <2>1, SetInduction
<1>9. Good(n) BY <1>1, <1>8
<1> DEFINE all == T[n]
           size == RoundUp(all.ffi[s].size, all.ffi[s].alignment)
           r == Aggregate[s][m]
<1>10. r = IF all.ok THEN [ok |-> size # 0, ffi |-> Sized(s, all.ffi, size)] ELSE all
  <2>1. r = InitializeAggregate(Aggregate, s, m) BY AggregateFacts
  <2> QED BY <1>2, <2>1 DEF InitializeAggregate, Sized
<1>11. /\ Keeps(s + 1, m, all) /\ CleanBelow(s, all.ffi)
       /\ Plain(s) => all.ok /\ all.ffi[s].size = P[n].size /\ all.ffi[s].alignment = P[n].align
  BY <1>1, <1>2, <1>9 DEF PlacedClean
<1>12. Keeps(s + 1, m, r) BY AggregateFacts DEF GoodAggregate
<1> HIDE DEF all, r
<1>13. /\ CleanBelow(s, r.ffi)
       /\ Plain(s) => /\ r.ok
                      /\ r.ffi[s].size = CLayout[s].size /\ r.ffi[s].alignment = CLayout[s].align
  <2>1. CASE ~all.ok BY <1>10, <1>11, <2>1
  <2>2. CASE all.ok
    <3>1. all.ffi \in Memories /\ WellFormed(all.ffi) /\ Kept(s + 1, m, all.ffi)
      BY <1>11 DEF Keeps, Outcomes
    <3>2. all.ffi[s] # None BY <3>1 DEF Kept, Unsized
    <3>3. size \in Nat
      <4>1. all.ffi[s] \in FfiTypes BY <3>1, <3>2 DEF Memories
      <4>2. all.ffi[s].size \in Nat /\ all.ffi[s].alignment \in Nat BY <4>1 DEF FfiTypes
      <4> QED BY <4>2, RoundUpNat
    <3> DEFINE c == Sized(s, all.ffi, size)
    <3>4. Plain(s) => size = CLayout[s].size /\ all.ffi[s].alignment = CLayout[s].align /\ size # 0
      <4>1. Plain(s) => RoundUp(P[n].size, P[n].align) = CLayout[s].size
                        /\ P[n].align = CLayout[s].align
        BY PlacedIsC DEF P, n
      <4>2. Plain(s) => CLayout[s].size > 0 BY CLayoutFacts DEF Plain, Valid, GoodLayout
      <4> QED BY <1>11, <4>1, <4>2
    <3> HIDE DEF size
    <3>5. /\ c[s].size = size /\ c[s].alignment = all.ffi[s].alignment
          /\ \A u \in Structs : u # s => c[u] = all.ffi[u]
      BY <3>1, <3>2, <3>3, SizedFacts
    <3> HIDE DEF c
    <3>6. r = [ok |-> size # 0, ffi |-> c] BY <1>10, <2>2 DEF c
    <3>7. r.ok = (size # 0) /\ r.ffi = c BY <3>6
    <3>8. CleanBelow(s, c) BY <1>11, <3>5, CleanSame
    <3> QED BY <3>4, <3>5, <3>7, <3>8
  <2> QED BY <2>1, <2>2
<1>14. CleanBelow(s + 1, r.ffi)
  <2> SUFFICES ASSUME NEW u \in Structs, u < s + 1, r.ffi[u] # None
               PROVE  /\ r.ffi[u].elements = Elements(u)
                      /\ Plain(u) /\ r.ffi[u].size # 0 =>
                           r.ffi[u].size = CLayout[u].size /\ r.ffi[u].alignment = CLayout[u].align
    BY DEF CleanBelow
  <2>1. CASE u < s BY <1>13, <2>1 DEF CleanBelow
  <2>2. CASE u = s
    <3>1. r.ffi[s].elements = Elements(s) BY <1>12 DEF Keeps, Kept, Unsized
    <3> QED BY <1>13, <2>2, <3>1
  <2> QED BY <1>0, <2>1, <2>2 DEF Structs
<1> QED BY <1>13, <1>14 DEF r

LEMMA AllClean ==
  ASSUME Setting
  PROVE  \A s \in Structs : CleanAggregate(s)
<1> DEFINE S == {k \in Nat : \A s \in Structs : s =< k => CleanAggregate(s)}
<1>1. 0 \in S BY TypesAssumption DEF Structs
<1>2. ASSUME NEW k \in S PROVE k + 1 \in S
  <2> SUFFICES ASSUME k + 1 \in Structs PROVE CleanAggregate(k + 1)
    BY TypesAssumption DEF Structs
  <2>1. \A u \in 1..((k + 1) - 1) : CleanAggregate(u) BY TypesAssumption DEF Structs
  <2> QED BY <2>1, AggregateClean
<1>3. S = Nat
  <2>1. S \in SUBSET Nat OBVIOUS
  <2> HIDE DEF S
  <2> QED BY <1>1, <1>2, <2>1, SetInduction
<1> QED BY <1>3, TypesAssumption DEF Structs


-----------------------------------------------------------------------------
(* The inductive invariant *)

Clean == CleanBelow(All, ffi_type)

(* Type() keeps it: new ffi_types have the right elements and no size.     *)
LEMMA GrownClean ==
  ASSUME NEW m, NEW r, Grown(m, r), CleanBelow(All, m)
  PROVE  CleanBelow(All, r)
<1> SUFFICES ASSUME NEW u \in Structs, u < All, r[u] # None
             PROVE  /\ r[u].elements = Elements(u)
                    /\ Plain(u) /\ r[u].size # 0 =>
                         r[u].size = CLayout[u].size /\ r[u].alignment = CLayout[u].align
  BY DEF CleanBelow
<1>1. CASE r[u] = m[u] BY <1>1 DEF CleanBelow
<1>2. CASE r[u] = NewFfiType(u) BY <1>2 DEF NewFfiType
<1> QED BY <1>1, <1>2 DEF Grown

(* And so does ffi_prep_cif, wherever it stops.                            *)
LEMMA PrepCifClean ==
  ASSUME Setting, NEW types \in Signatures, NEW m \in Memories, WellFormed(m),
         \A i \in 1..Len(types) : types[i] \in Inside(All, m), CleanBelow(All, m)
  PROVE  CleanBelow(All, PrepCif(types, m).ffi)
<1> DEFINE n == Len(types)
           step == PrepSteps(types)
           start == [ok |-> TRUE, ffi |-> m]
           P(r) == Keeps(All, m, r) /\ CleanBelow(All, r.ffi)
           J == [i \in 0..n |-> {r \in Outcomes : P(r)}]
<1>1. n \in Nat /\ DOMAIN types = 1..n BY SignatureFacts DEF Signature
<1>2. start \in J[0]
  <2>1. start \in Outcomes BY DEF Outcomes
  <2>2. P(start) BY <2>1, KeptRefl DEF Keeps
  <2> HIDE DEF P, start
  <2> QED BY <1>1, <2>1, <2>2
<1>3. ASSUME NEW i \in 1..n, NEW r \in J[i - 1] PROVE step[i][r] \in J[i]
  <2>1. /\ i - 1 \in 0..n /\ i \in 0..n /\ r \in Outcomes /\ Keeps(All, m, r)
        /\ CleanBelow(All, r.ffi)
    BY <1>1
  <2> DEFINE q == Initialize(Aggregate, types[i], r.ffi)
  <2>2. step[i][r] = IF r.ok THEN q ELSE r BY <1>1, <2>1 DEF PrepSteps
  <2>3. CASE ~r.ok
    <3>1. step[i][r] = r BY <2>2, <2>3
    <3> HIDE DEF step
    <3> QED BY <2>1, <3>1
  <2>4. CASE r.ok
    <3>1. Keeps(All, m, q) BY <2>1, <2>4, PrepStepKeeps
    <3>2. r.ffi \in Memories /\ WellFormed(r.ffi) /\ types[i] \in Inside(All, r.ffi)
      BY <2>1, KeptInside, SignatureFacts DEF Keeps, Outcomes
    <3>3. CleanBelow(All, q.ffi) BY <2>1, <3>2, AllClean, InitializeClean, SignatureFacts
    <3>4. step[i][r] = q BY <2>2, <2>4
    <3> HIDE DEF q, step
    <3>5. q \in Outcomes BY <3>1 DEF Keeps
    <3> QED BY <2>1, <3>1, <3>3, <3>4, <3>5
  <2> QED BY <2>3, <2>4
<1>4. Run(n, step, start) \in J[n]
  <2> HIDE DEF n, step, start, J
  <2> QED BY <1>1, <1>2, <1>3, LoopRule
<1>5. PrepCif(types, m) = Run(n, step, start) BY DEF PrepCif, PrepSteps
<1> HIDE DEF step, start
<1>6. P(Run(n, step, start))
  <2> HIDE DEF P
  <2> QED BY <1>1, <1>4
<1> QED BY <1>5, <1>6

(* Elements and layouts are functions of what does not change.              *)
LEMMA LayoutsStay ==
  ASSUME UNCHANGED <<platform, fields>>
  PROVE  /\ CLayout' = CLayout
         /\ \A s \in Structs : Elements(s)' = Elements(s)
         /\ \A n : CSize(n)' = CSize(n) /\ Builtin(n)' = Builtin(n)
<1>1. CLayout' = CLayout BY DEF CLayout, CAccepts, CStruct, CType, CSize, AlignOf
<1>2. \A n : Builtin(n)' = Builtin(n)
  BY DEF Builtin, Own, Searched, FFI_TYPES, IntType, CSize
<1>3. \A s \in Structs : Elements(s)' = Elements(s)
  BY <1>2 DEF Elements, Element
<1>4. \A n : CSize(n)' = CSize(n) BY DEF CSize
<1> QED BY <1>1, <1>2, <1>3, <1>4

LEMMA CleanStays ==
  ASSUME UNCHANGED <<platform, fields>>, CleanBelow(All, ffi_type')
  PROVE  Clean'
BY LayoutsStay DEF Clean, CleanBelow, Plain, Sound, Valid

LEMMA InitClean == Init => Clean
BY DEF Init, Clean, CleanBelow

LEMMA StepClean ==
  ASSUME TypeOK, Clean, [Next]_vars
  PROVE  Clean'
<1>1. UNCHANGED <<platform, fields>>
  BY DEF Next, TypeThrows, BadAbi, BadTypedef, PrepOk, vars
<1>2. ASSUME NEW types \in Signatures PROVE CleanBelow(All, TypeAll(types).ffi)
  BY TypeAllGood, GrownClean DEF Grows, Clean
<1>3. ASSUME NEW types \in Signatures, TypeThrows(types) \/ BadAbi(types) PROVE Clean'
  <2>1. ffi_type' = TypeAll(types).ffi BY <1>3 DEF TypeThrows, BadAbi
  <2> QED BY <1>1, <1>2, <2>1, CleanStays
<1>4. ASSUME NEW types \in Signatures, BadTypedef(types) \/ PrepOk(types) PROVE Clean'
  <2> DEFINE made == TypeAll(types)
  <2>1. made.ok /\ ffi_type' = PrepCif(types, made.ffi).ffi BY <1>4 DEF BadTypedef, PrepOk
  <2>2. /\ made.ffi \in Memories /\ WellFormed(made.ffi)
        /\ \A i \in 1..Len(types) : types[i] \in Inside(All, made.ffi)
    BY <2>1, TypeAllGood
  <2>3. CleanBelow(All, made.ffi) BY <1>2
  <2> HIDE DEF made
  <2>4. CleanBelow(All, ffi_type') BY <2>1, <2>2, <2>3, PrepCifClean DEF TypeOK
  <2> QED BY <1>1, <2>4, CleanStays
<1>5. CASE UNCHANGED vars
  <2>1. ffi_type' = ffi_type BY <1>5 DEF vars
  <2> QED BY <1>1, <2>1, CleanStays DEF Clean
<1> QED BY <1>3, <1>4, <1>5 DEF Next

(* What LayoutMatches and NoHalfLayout say of valid structs, of the plain   *)
(* ones: whatever fails halfway, size = 0 means that nothing has been done, *)
(* any other size is C's, and call interfaces have one.                     *)
PlainLayout ==
  /\ \A s \in Structs : ffi_type[s] # None /\ Plain(s) => ffi_type[s].size = 0 \/ LaidOut(s)
  /\ \A s \in accepted : Plain(s) => LaidOut(s)

LEMMA CleanPlain == TypeOK /\ Clean => PlainLayout
<1> SUFFICES ASSUME TypeOK, Clean PROVE PlainLayout
  OBVIOUS
<1>1. \A s \in Structs : s < All BY TypesAssumption DEF Structs, All
<1>2. ASSUME NEW s \in Structs, ffi_type[s] # None, Plain(s), ffi_type[s].size # 0
      PROVE  LaidOut(s)
  BY <1>1, <1>2 DEF Clean, CleanBelow, LaidOut
<1>3. ASSUME NEW s \in accepted PROVE s \in Structs /\ ffi_type[s] # None /\ ffi_type[s].size # 0
  <2>1. s \in Structs /\ ffi_type[s] # None /\ ffi_type[s].size > 0 BY DEF TypeOK
  <2> QED BY <2>1
<1> QED BY <1>2, <1>3 DEF PlainLayout

(* Where long long is used, long has its size.                              *)
LongLongFits == \A p \in Platforms : longlong \in p.types => p.long = 8

LEMMA AllPlain ==
  ASSUME LongLongFits, Setting, NEW s \in Structs, Valid(s)
  PROVE  Plain(s)
<1>1. longlong \in platform.types => platform.long = 8 BY DEF Setting, LongLongFits
<1>2. longlong \in Prims BY DEF Prims
<1>3. ASSUME NEW u \in Structs, NEW i \in DOMAIN fields[u] PROVE Sound(fields[u][i].base)
  BY <1>1, <1>2, FieldFacts DEF Sound
<1> QED BY <1>3 DEF Plain

LEMMA PlainNoHalf ==
  ASSUME LongLongFits, Setting, PlainLayout
  PROVE  NoHalfLayout
BY AllPlain DEF PlainLayout, NoHalfLayout

LEMMA NoHalfMatches == TypeOK /\ NoHalfLayout => LayoutMatches
<1> SUFFICES ASSUME TypeOK, NoHalfLayout, NEW s \in accepted, Valid(s) PROVE LaidOut(s)
  BY DEF LayoutMatches
<1>1. s \in Structs /\ ffi_type[s] # None /\ ffi_type[s].size > 0 BY DEF TypeOK
<1>2. ffi_type[s].size # 0 BY <1>1
<1> QED BY <1>1, <1>2 DEF NoHalfLayout

(* Only what ffi_arg and long come to is left.                             *)
LEMMA MatchesFits ==
  ASSUME LongLongFits, TypeOK, LayoutMatches
  PROVE  ResultFits
<1> SUFFICES ASSUME platform.ffi_arg =< platform.long
             PROVE  /\ \A n \in platform.types :
                         Larger(BuiltinSize(Builtin(n)), platform.ffi_arg) =< ResultSize(CSize(n))
                    /\ \A s \in accepted : Valid(s) => ffi_type[s].size =< ResultSize(CLayout[s].size)
  BY DEF ResultFits
<1>1. Setting BY DEF TypeOK
<1>2. /\ platform.long \in {4, 8} /\ platform.ffi_arg \in {4, 8}
      /\ platform.long = platform.ffi_arg
  <2>1. platform \in Platform BY <1>1, TypesAssumption DEF Setting
  <2> QED BY <2>1 DEF Platform
<1>3. ASSUME NEW n \in platform.types
      PROVE  Larger(BuiltinSize(Builtin(n)), platform.ffi_arg) =< ResultSize(CSize(n))
  <2>1. Sound(n) BY <1>1 DEF Setting, Sound, LongLongFits
  <2>2. BuiltinSize(Builtin(n)) = CSize(n) /\ n \in Prims BY <1>1, <2>1, PrimFits
  <2>3. CSize(n) \in {1, 4, 8} BY <1>1, <2>2, PrimLayout
  <2> QED BY <1>2, <2>2, <2>3 DEF Larger, ResultSize
<1>4. ASSUME NEW s \in accepted, Valid(s) PROVE ffi_type[s].size =< ResultSize(CLayout[s].size)
  <2>1. ffi_type[s].size = CLayout[s].size BY <1>4 DEF LayoutMatches, LaidOut
  <2>2. CLayout[s].size \in Nat
    <3>1. s \in Structs BY DEF TypeOK
    <3> QED BY <1>1, <1>4, <3>1, CLayoutFacts DEF Valid, GoodLayout, CLayouts
  <2> QED BY <1>2, <2>1, <2>2 DEF ResultSize
<1> QED BY <1>3, <1>4

(* On every platform libffi lays plain structs out as C does, whatever      *)
(* types and call interfaces fail before or after.                          *)
THEOREM FfiTypes_PlainLayout == Spec => []PlainLayout
<1>1. TypeOK /\ Clean /\ [Next]_vars => TypeOK' /\ Clean' BY StepTypes, StepClean
<1> QED BY <1>1, InitTypes, InitClean, CleanPlain, PTL DEF Spec

(* Where long long has its size, a failure halfway through a call interface *)
(* never leaves a valid struct half laid out.                               *)
THEOREM FfiTypes_NoHalfLayout ==
  ASSUME LongLongFits
  PROVE  Spec => []NoHalfLayout
<1>1. TypeOK /\ PlainLayout => NoHalfLayout BY PlainNoHalf DEF TypeOK
<1> QED BY <1>1, FfiTypes_TypeOK, FfiTypes_PlainLayout, PTL

(* And call interfaces pass valid structs with C's size and alignment.      *)
THEOREM FfiTypes_LayoutMatches ==
  ASSUME LongLongFits
  PROVE  Spec => []LayoutMatches
BY FfiTypes_TypeOK, FfiTypes_NoHalfLayout, NoHalfMatches, PTL

(* What ffi_call writes fits into the result Buffer, where ffi_arg is no    *)
(* larger than long.                                                        *)
THEOREM FfiTypes_ResultFits ==
  ASSUME LongLongFits
  PROVE  Spec => []ResultFits
<1>1. TypeOK /\ LayoutMatches => ResultFits BY MatchesFits
<1> QED BY <1>1, FfiTypes_TypeOK, FfiTypes_LayoutMatches, PTL
=============================================================================
