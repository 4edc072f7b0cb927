--------------------------- MODULE LibrariesProofs ---------------------------
(***************************************************************************)
(* The invariants of Libraries, for every number of files, objects and     *)
(* symbols, and every depth of linker scripts.                             *)
(***************************************************************************)
EXTENDS Libraries, FiniteSetTheorems, TLAPS

(* What PointersGood and FunctionsGood rest on: nobody closes a library of  *)
(* Library's, and functions on an object come from those.                   *)
PrivateInv ==
  /\ \A d \in private : closes[d] = 0
  /\ \A o \in LibObjects : \A s \in Symbols :
       lib[o][s] # None => lib[o][s] \in private /\ pointers[lib[o][s]] # "none"

LibrariesInv == TypeOK /\ CountExact /\ PointersGood /\ PrivateInv

LEMMA InitInv == Init => LibrariesInv
<1> SUFFICES ASSUME Init PROVE LibrariesInv
  OBVIOUS
<1> USE NamesAssumption, BoundsAssumption DEF Init
<1>1. TypeOK BY DEF TypeOK, Results, Paths
<1>2. CountExact
  <2>1. \A f \in Files : Open(f) = {} BY NamesAssumption DEF Open
  <2> QED BY <2>1, FS_EmptySet DEF CountExact
<1>3. PointersGood /\ PrivateInv BY DEF PointersGood, PrivateInv
<1> QED BY <1>1, <1>2, <1>3 DEF LibrariesInv

(* A failed or unfinished opening leaves all but `opening` and `result`.     *)
LEMMA FailLeaves ==
  DlopenFails \/ ReadScript \/ Idle \/ UNCHANGED vars =>
    UNCHANGED <<content, count, handle, asked, closes, private, pointers, lib>>
<1>1. DlopenFails => UNCHANGED <<content, count, handle, asked, closes, private, pointers, lib>>
  BY DEF DlopenFails, objectVars
<1>2. ReadScript => UNCHANGED <<content, count, handle, asked, closes, private, pointers, lib>>
  BY DEF ReadScript, objectVars
<1>3. Idle \/ UNCHANGED vars => UNCHANGED <<content, count, handle, asked, closes, private, pointers, lib>>
  BY DEF Idle, vars, objectVars
<1> QED BY <1>1, <1>2, <1>3

(* The three outcomes of close().                                           *)
LEMMA CloseCases ==
  ASSUME NEW d \in Dls, Close(d)
  PROVE  \/ handle[d] = Program /\ UNCHANGED <<count, pointers>>
         \/ /\ handle[d] # Program /\ count[handle[d]] > 0
            /\ count' = [count EXCEPT ![handle[d]] = count[handle[d]] - 1]
            /\ pointers' = [e \in Dls |->
                 IF handle[e] = handle[d] /\ count[handle[d]] = 1 /\ pointers[e] = "live"
                   THEN "dangling" ELSE pointers[e]]
         \/ /\ handle[d] # Program /\ count[handle[d]] = 0
            /\ UNCHANGED <<count, pointers>>
BY DEF Close

(* Closing turns live pointers of one file into dangling ones, at most.     *)
LEMMA CloseStales ==
  ASSUME TypeOK, NEW d \in Dls, Close(d)
  PROVE  /\ pointers' \in [Dls -> {"none", "live", "dangling"}]
         /\ \A e \in Dls : pointers[e] = "none" => pointers'[e] = "none"
         /\ \A e \in Dls : pointers'[e] \in {pointers[e], "dangling"}
<1> USE DEF TypeOK
<1>1. \/ pointers' = pointers
      \/ pointers' = [e \in Dls |->
           IF handle[e] = handle[d] /\ count[handle[d]] = 1 /\ pointers[e] = "live"
             THEN "dangling" ELSE pointers[e]]
  BY DEF Close
<1>2. CASE pointers' = pointers BY <1>2
<1>3. CASE pointers' = [e \in Dls |->
           IF handle[e] = handle[d] /\ count[handle[d]] = 1 /\ pointers[e] = "live"
             THEN "dangling" ELSE pointers[e]]
  BY <1>3
<1> QED BY <1>1, <1>2, <1>3

LEMMA TypeStep == TypeOK /\ [Next]_vars => TypeOK'
<1> SUFFICES ASSUME TypeOK, [Next]_vars PROVE TypeOK'
  OBVIOUS
<1> USE NamesAssumption, BoundsAssumption DEF TypeOK, objectVars
<1>1. ASSUME NEW d \in Dls, NEW path \in Paths, NEW object \in LibObjects \cup {None},
             Start(d, path, object)
      PROVE TypeOK'
  <2>1. opening' \in Openings BY <1>1 DEF Start, Openings
  <2> QED BY <1>1, <2>1 DEF Start, Openings
<1>2. CASE DlopenOk
  <2>0. opening \in Openings BY <1>2 DEF DlopenOk
  <2>1. /\ count' \in [Files -> Nat] /\ handle' \in [Dls -> Paths \cup {None}]
        /\ asked' \in [Dls -> Paths \cup {None}] /\ private' \subseteq Dls
    BY <1>2, <2>0 DEF DlopenOk, Openings, Finish, Paths
  <2>2. opening' \in Openings \cup {None} /\ result' \in Results
    BY <1>2, <2>0 DEF DlopenOk, Openings, Finish, Results
  <2>3. \A d \in Dls : handle'[d] = None =>
          closes'[d] = 0 /\ pointers'[d] = "none" /\ d \notin private'
    BY <1>2, <2>0 DEF DlopenOk, Openings, Finish, Paths
  <2>4. opening' # None =>
         /\ opening'.step = "fill" <=> handle'[opening'.dl] # None
         /\ opening'.step = "fill" => opening'.dl \in private' /\ opening'.object # None
         /\ opening'.step = "read" => opening'.path # Program
    BY <1>2, <2>0 DEF DlopenOk, Openings, Finish, Paths
  <2> QED BY <1>2, <2>1, <2>2, <2>3, <2>4 DEF DlopenOk
<1>3. CASE DlopenFails
  <2>0. opening \in Openings BY <1>3 DEF DlopenFails
  <2>1. \A f \in Paths : Faulty(f) \subseteq Files BY DEF Faulty, Paths, Contents
  <2>2. PICK f \in Files : \/ Finish("linking error")
                           \/ /\ opening' = [opening EXCEPT !.path = f, !.step = "read"]
                              /\ result' = result
    BY <1>3, <2>0, <2>1 DEF DlopenFails, Openings
  <2>3. UNCHANGED <<content, count, handle, asked, closes, private, pointers, lib>>
    BY <1>3, FailLeaves
  <2>4. CASE Finish("linking error")
    BY <2>3, <2>4 DEF Finish, Results
  <2>5. CASE opening' = [opening EXCEPT !.path = f, !.step = "read"] /\ result' = result
    <3>1. opening' \in Openings /\ opening'.step = "read" /\ opening'.path = f /\ opening'.dl = opening.dl
      BY <2>0, <2>5 DEF Openings, Paths
    <3>2. handle[opening.dl] = None BY <1>3 DEF DlopenFails
    <3> QED BY <2>3, <2>5, <3>1, <3>2
  <2> QED BY <2>2, <2>4, <2>5
<1>4. CASE ReadScript
  <2>0. opening \in Openings /\ opening.path \in Files
    BY <1>4 DEF ReadScript, Openings, Paths
  <2>1. content[opening.path].file \in Files BY <2>0 DEF Contents
  <2>2. UNCHANGED <<content, count, handle, asked, closes, private, pointers, lib>>
    BY <1>4, FailLeaves
  <2>3. \/ \E how \in {"ENOENT", "RangeError", "linking error"} : Finish(how)
        \/ /\ opening.scripts # MaxScripts
           /\ opening' = [opening EXCEPT !.path = content[opening.path].file,
                                         !.scripts = opening.scripts + 1, !.step = "dlopen"]
           /\ result' = result
    BY <1>4 DEF ReadScript
  <2>4. CASE \E how \in {"ENOENT", "RangeError", "linking error"} : Finish(how)
    BY <2>2, <2>4 DEF Finish, Results
  <2>5. CASE /\ opening.scripts # MaxScripts
             /\ opening' = [opening EXCEPT !.path = content[opening.path].file,
                                           !.scripts = opening.scripts + 1, !.step = "dlopen"]
             /\ result' = result
    <3>1. opening' \in Openings /\ opening'.step = "dlopen" /\ opening'.dl = opening.dl
      <4>1. opening.scripts + 1 \in 0..MaxScripts BY <2>0, <2>5 DEF Openings
      <4> HIDE DEF TypeOK
      <4> QED BY <2>0, <2>1, <2>5, <4>1 DEF Openings, Paths
    <3>2. handle[opening.dl] = None BY <1>4 DEF ReadScript
    <3> QED BY <2>2, <2>5, <3>1, <3>2
  <2> QED BY <2>3, <2>4, <2>5
<1>5. CASE Fill
  <2>0. opening \in Openings BY <1>5 DEF Fill
  <2>1. opening.dl \in private /\ opening.object \in LibObjects /\ handle[opening.dl] # None
    BY <1>5, <2>0 DEF Fill, Openings
  <2>2. lib' \in [LibObjects -> [Symbols -> Dls \cup {None}]]
    <3>1. opening.dl \in Dls BY <2>0 DEF Openings
    <3>2. PICK S \in SUBSET Symbols :
            lib' = [lib EXCEPT ![opening.object] =
                      [s \in Symbols |-> IF s \in S THEN opening.dl ELSE lib[opening.object][s]]]
      BY <1>5 DEF Fill
    <3>3. [s \in Symbols |-> IF s \in S THEN opening.dl ELSE lib[opening.object][s]]
            \in [Symbols -> Dls \cup {None}]
      BY <2>1, <3>1
    <3> QED BY <2>1, <3>2, <3>3
  <2>3. pointers' \in {pointers, [pointers EXCEPT ![opening.dl] = "live"]}
    BY <1>5 DEF Fill
  <2>4. pointers' \in [Dls -> {"none", "live", "dangling"}]
        /\ \A d \in Dls : handle[d] = None => pointers'[d] = "none"
    BY <2>0, <2>1, <2>3 DEF Openings
  <2>5. UNCHANGED <<content, count, handle, asked, closes, private>> BY <1>5 DEF Fill
  <2>6. opening' = None /\ result' \in Results BY <1>5 DEF Fill, Finish, Results
  <2> QED BY <2>2, <2>4, <2>5, <2>6
<1>6. ASSUME NEW d \in Dls, Get(d) PROVE TypeOK'
  <2>1. UNCHANGED <<content, count, handle, asked, closes, private, lib, opening>> /\ opening = None
    BY <1>6 DEF Get, Usable
  <2>2. pointers' = pointers
        \/ pointers' = [pointers EXCEPT ![d] = IF pointers[d] = "none" THEN "live" ELSE pointers[d]]
    BY <1>6 DEF Get
  <2>3. pointers' \in [Dls -> {"none", "live", "dangling"}]
        /\ \A e \in Dls : handle[e] = None => pointers'[e] = "none"
    <3>1. handle[d] # None BY <1>6 DEF Get, Usable
    <3>2. CASE pointers' = pointers BY <3>2
    <3>3. CASE pointers' = [pointers EXCEPT ![d] = IF pointers[d] = "none" THEN "live" ELSE pointers[d]]
      BY <3>1, <3>3
    <3> QED BY <2>2, <3>2, <3>3
  <2>4. result' \in Results BY <1>6 DEF Get, Results
  <2> QED BY <2>1, <2>3, <2>4
<1>7. ASSUME NEW d \in Dls, Close(d) PROVE TypeOK'
  <2>0. /\ handle[d] # None /\ opening = None
        /\ UNCHANGED <<content, handle, asked, private, lib, opening>>
    BY <1>7 DEF Close, Usable
  <2>1. closes' \in [Dls -> Nat] /\ (\A e \in Dls : handle[e] = None => closes'[e] = closes[e])
    <3>1. closes' = [closes EXCEPT ![d] = closes[d] + 1] BY <1>7 DEF Close
    <3> QED BY <2>0, <3>1
  <2>2. count' \in [Files -> Nat]
    <3>1. \/ count' = count
          \/ /\ handle[d] # Program /\ count[handle[d]] > 0
             /\ count' = [count EXCEPT ![handle[d]] = count[handle[d]] - 1]
      BY <1>7 DEF Close
    <3>2. handle[d] # Program => handle[d] \in Files BY <2>0 DEF Paths
    <3> QED BY <3>1, <3>2
  <2>3. pointers' \in [Dls -> {"none", "live", "dangling"}]
        /\ \A e \in Dls : pointers[e] = "none" => pointers'[e] = "none"
    BY <1>7, CloseStales
  <2>4. result' \in Results BY <1>7 DEF Close, Results
  <2> QED BY <2>0, <2>1, <2>2, <2>3, <2>4
<1>8. CASE Idle \/ UNCHANGED vars BY <1>8 DEF Idle, vars
<1> QED BY <1>1, <1>2, <1>3, <1>4, <1>5, <1>6, <1>7, <1>8 DEF Next

LEMMA OpenFinite == \A f \in Files : IsFiniteSet(Open(f)) /\ Cardinality(Open(f)) \in Nat
BY DlsFinite, FS_Subset, FS_CardinalityType DEF Open

(* Closing one library that is open, with none closed twice.                *)
LEMMA CloseCounts ==
  ASSUME TypeOK, CountExact, NEW d \in Dls, Close(d), NoDoubleClose'
  PROVE  /\ NoDoubleClose /\ closes[d] = 0
         /\ handle[d] \in Files =>
              /\ d \in Open(handle[d]) /\ count[handle[d]] > 0
              /\ count[handle[d]] = 1 => Open(handle[d]) = {d}
<1> USE DEF TypeOK
<1>1. closes' = [closes EXCEPT ![d] = closes[d] + 1] BY DEF Close
<1>2. NoDoubleClose /\ closes[d] = 0 BY <1>1 DEF NoDoubleClose
<1>3. ASSUME handle[d] \in Files
      PROVE  /\ d \in Open(handle[d]) /\ count[handle[d]] > 0
             /\ count[handle[d]] = 1 => Open(handle[d]) = {d}
  <2>1. d \in Open(handle[d]) BY <1>2 DEF Open
  <2>2. count[handle[d]] = Cardinality(Open(handle[d])) BY <1>2, <1>3 DEF CountExact
  <2>3. count[handle[d]] # 0 BY <1>3, <2>1, <2>2, OpenFinite, FS_EmptySet
  <2>4. ASSUME count[handle[d]] = 1 PROVE Open(handle[d]) = {d}
    <3>1. PICK x : Open(handle[d]) = {x}
      <4>1. IsFiniteSet(Open(handle[d])) /\ Cardinality(Open(handle[d])) = 1
        BY <1>3, <2>2, <2>4, OpenFinite
      <4> QED BY <4>1, FS_Singleton
    <3> QED BY <2>1, <3>1
  <2> QED BY <1>3, <2>1, <2>3, <2>4
<1> QED BY <1>2, <1>3

LEMMA CountStep == TypeOK /\ CountExact /\ [Next]_vars => CountExact'
<1> SUFFICES ASSUME TypeOK, CountExact, [Next]_vars, NoDoubleClose', NEW f \in Files
             PROVE  count'[f] = Cardinality(Open(f)')
  BY DEF CountExact
<1> USE NamesAssumption DEF TypeOK
<1>1. ASSUME UNCHANGED <<count, handle, closes>>
      PROVE  count'[f] = Cardinality(Open(f)')
  <2>1. NoDoubleClose /\ Open(f)' = Open(f) BY <1>1 DEF NoDoubleClose, Open
  <2> QED BY <1>1, <2>1 DEF CountExact
<1>2. CASE DlopenOk
  <2> DEFINE d == opening.dl
             p == opening.path
  <2>1. /\ d \in Dls /\ handle[d] = None /\ closes[d] = 0 /\ p \in Paths
    BY <1>2 DEF DlopenOk, Openings
  <2>2. /\ handle' = [handle EXCEPT ![d] = p] /\ closes' = closes
        /\ count' = IF p = Program THEN count ELSE [count EXCEPT ![p] = count[p] + 1]
    BY <1>2 DEF DlopenOk, objectVars
  <2> HIDE DEF d, p
  <2>3. NoDoubleClose BY <2>2 DEF NoDoubleClose
  <2>4. count[f] = Cardinality(Open(f)) BY <2>3 DEF CountExact
  <2>5. CASE p = f
    <3>1. Open(f)' = Open(f) \cup {d} BY <2>1, <2>2, <2>5 DEF Open
    <3>2. d \notin Open(f) BY <2>1 DEF Open
    <3>3. Cardinality(Open(f)') = Cardinality(Open(f)) + 1
      <4>1. IsFiniteSet(Open(f)) BY OpenFinite
      <4> QED BY ONLY <3>1, <3>2, <4>1, FS_AddElement
    <3> QED BY <2>2, <2>4, <2>5, <3>3
  <2>6. CASE p # f
    <3>1. Open(f)' = Open(f) BY <2>1, <2>2, <2>6 DEF Open
    <3> QED BY <2>1, <2>2, <2>4, <2>6, <3>1 DEF Paths
  <2> QED BY <2>5, <2>6
<1>3. ASSUME NEW d \in Dls, Close(d) PROVE count'[f] = Cardinality(Open(f)')
  <2>1. /\ NoDoubleClose /\ closes[d] = 0
        /\ handle[d] \in Files => d \in Open(handle[d]) /\ count[handle[d]] > 0
    BY <1>3, CloseCounts
  <2>2. handle' = handle /\ closes' = [closes EXCEPT ![d] = closes[d] + 1]
    BY <1>3 DEF Close
  <2>3. count[f] = Cardinality(Open(f)) BY <2>1 DEF CountExact
  <2>4. CASE handle[d] = f
    <3>1. count' = [count EXCEPT ![f] = count[f] - 1]
      <4>1. f # Program /\ count[f] \in Nat /\ count[f] > 0 BY <2>1, <2>4
      <4> HIDE DEF TypeOK
      <4> QED BY <1>3, <2>4, <4>1, CloseCases
    <3>2. Open(f)' = Open(f) \ {d} BY <2>1, <2>2, <2>4 DEF Open
    <3>3. Cardinality(Open(f)') = Cardinality(Open(f)) - 1
      <4>1. IsFiniteSet(Open(f)) /\ d \in Open(f) BY <2>1, <2>4, OpenFinite
      <4> QED BY ONLY <3>2, <4>1, FS_RemoveElement
    <3> QED BY <2>3, <3>1, <3>3
  <2>5. CASE handle[d] # f
    <3>1. Open(f)' = Open(f) BY <2>1, <2>2, <2>5 DEF Open
    <3>2. count'[f] = count[f] BY <1>3, <2>5 DEF Close
    <3> QED BY <2>3, <3>1, <3>2
  <2> QED BY <2>4, <2>5
<1>4. ASSUME NEW d \in Dls, NEW path \in Paths, NEW object \in LibObjects \cup {None},
             Start(d, path, object)
      PROVE  UNCHANGED <<count, handle, closes>>
  BY <1>4 DEF Start, objectVars
<1>5. CASE DlopenFails \/ ReadScript \/ Fill \/ Idle \/ UNCHANGED vars
  BY <1>1, <1>5 DEF DlopenFails, ReadScript, Fill, Idle, vars, objectVars
<1>6. ASSUME NEW d \in Dls, Get(d) PROVE UNCHANGED <<count, handle, closes>>
  BY <1>6 DEF Get, objectVars
<1> QED BY <1>1, <1>2, <1>3, <1>4, <1>5, <1>6 DEF Next

LEMMA PointersStep ==
  TypeOK /\ CountExact /\ PointersGood /\ [Next]_vars => PointersGood'
<1> SUFFICES ASSUME TypeOK, CountExact, PointersGood, [Next]_vars, NoDoubleClose',
                    NEW e \in Dls, closes'[e] = 0
             PROVE  pointers'[e] # "dangling"
  BY DEF PointersGood
<1> USE DEF TypeOK
<1>1. ASSUME closes' = closes, pointers'[e] \in {pointers[e], "live"}
      PROVE  pointers'[e] # "dangling"
  BY <1>1 DEF PointersGood, NoDoubleClose
<1>2. ASSUME NEW d \in Dls, Close(d) PROVE pointers'[e] # "dangling"
  <2>1. /\ NoDoubleClose /\ closes[d] = 0
        /\ handle[d] \in Files =>
             count[handle[d]] > 0 /\ (count[handle[d]] = 1 => Open(handle[d]) = {d})
    BY <1>2, CloseCounts
  <2>2. closes' = [closes EXCEPT ![d] = closes[d] + 1] BY <1>2 DEF Close
  <2>3. e # d /\ closes[e] = 0 /\ pointers[e] # "dangling"
    BY <2>1, <2>2 DEF PointersGood
  <2>4. CASE handle[d] \in Files
    <3>1. pointers'[e] = IF handle[e] = handle[d] /\ count[handle[d]] = 1 /\ pointers[e] = "live"
                         THEN "dangling" ELSE pointers[e]
      <4>1. handle[d] # Program /\ count[handle[d]] \in Nat /\ count[handle[d]] > 0
        BY <2>1, <2>4, NamesAssumption
      <4>2. pointers' = [x \in Dls |->
              IF handle[x] = handle[d] /\ count[handle[d]] = 1 /\ pointers[x] = "live"
                THEN "dangling" ELSE pointers[x]]
        BY ONLY <1>2, <4>1, CloseCases
      <4> QED BY <4>2
    <3>2. ~(handle[e] = handle[d] /\ count[handle[d]] = 1)
      BY <2>1, <2>3, <2>4 DEF Open
    <3> QED BY <2>3, <3>1, <3>2
  <2>5. CASE handle[d] \notin Files
    <3>1. handle[d] = Program BY <1>2, <2>5 DEF Close, Usable, Paths
    <3> QED BY <1>2, <2>3, <3>1 DEF Close
  <2> QED BY <2>4, <2>5
<1>3. ASSUME NEW d \in Dls, NEW path \in Paths, NEW object \in LibObjects \cup {None},
             Start(d, path, object)
      PROVE  pointers'[e] # "dangling"
  BY <1>1, <1>3 DEF Start, objectVars
<1>4. CASE DlopenOk \/ DlopenFails \/ ReadScript \/ Idle \/ UNCHANGED vars
  BY <1>1, <1>4 DEF DlopenOk, DlopenFails, ReadScript, Idle, vars, objectVars
<1>5. CASE Fill BY <1>1, <1>5 DEF Fill, objectVars
<1>6. ASSUME NEW d \in Dls, Get(d) PROVE pointers'[e] # "dangling"
  BY <1>1, <1>6 DEF Get, objectVars
<1> QED BY <1>2, <1>3, <1>4, <1>5, <1>6 DEF Next

LEMMA PrivateStep == TypeOK /\ PrivateInv /\ [Next]_vars => PrivateInv'
<1> SUFFICES ASSUME TypeOK, PrivateInv, [Next]_vars PROVE PrivateInv'
  OBVIOUS
<1> USE NamesAssumption DEF TypeOK, PrivateInv
<1>1. ASSUME NEW d \in Dls, NEW path \in Paths, NEW object \in LibObjects \cup {None},
             Start(d, path, object)
      PROVE  PrivateInv'
  BY <1>1 DEF Start, objectVars
<1>2. CASE DlopenOk
  <2>1. /\ opening.dl \in Dls /\ closes[opening.dl] = 0 /\ private' \subseteq private \cup {opening.dl}
        /\ private \subseteq private' /\ UNCHANGED <<closes, lib, pointers>>
    BY <1>2 DEF DlopenOk, Openings, Finish
  <2> QED BY <2>1
<1>3. CASE Fill
  <2> DEFINE d == opening.dl
  <2>1. /\ d \in private /\ opening.object \in LibObjects
        /\ UNCHANGED <<closes, private>>
    BY <1>3 DEF Fill, Openings, objectVars
  <2>2. PICK S \in SUBSET Symbols :
          /\ lib' = [lib EXCEPT ![opening.object] = [s \in Symbols |->
                       IF s \in S THEN d ELSE lib[opening.object][s]]]
          /\ pointers' = IF S = {} THEN pointers ELSE [pointers EXCEPT ![d] = "live"]
    BY <1>3 DEF Fill
  <2> HIDE DEF d
  <2>3. ASSUME NEW o \in LibObjects, NEW s \in Symbols, lib'[o][s] # None
        PROVE  lib'[o][s] \in private /\ pointers'[lib'[o][s]] # "none"
    <3>1. CASE o = opening.object /\ s \in S
      <4>1. lib'[o][s] = d BY <2>1, <2>2, <3>1
      <4>2. pointers'[d] = "live" BY <2>1, <2>2, <3>1
      <4> QED BY <2>1, <4>1, <4>2
    <3>2. CASE ~(o = opening.object /\ s \in S)
      <4>1. lib'[o][s] = lib[o][s] BY <2>1, <2>2, <3>2
      <4>2. lib[o][s] \in private /\ pointers[lib[o][s]] # "none" BY <2>3, <4>1
      <4>3. \A x \in Dls : pointers'[x] \in {pointers[x], "live"} BY <2>1, <2>2
      <4> QED BY <4>1, <4>2, <4>3
    <3> QED BY <3>1, <3>2
  <2> QED BY <2>1, <2>3
<1>4. ASSUME NEW d \in Dls, Get(d) PROVE PrivateInv'
  <2>1. UNCHANGED <<closes, private, lib>> BY <1>4 DEF Get, objectVars
  <2>2. \A x \in Dls : pointers'[x] \in {pointers[x], "live"} BY <1>4 DEF Get
  <2> QED BY <2>1, <2>2
<1>5. ASSUME NEW d \in Dls, Close(d) PROVE PrivateInv'
  <2>1. d \notin private /\ UNCHANGED <<private, lib>> BY <1>5 DEF Close, Usable
  <2>2. \A x \in private : closes'[x] = closes[x] BY <1>5, <2>1 DEF Close
  <2>3. \A x \in Dls : pointers'[x] \in {pointers[x], "dangling"} BY <1>5, CloseStales
  <2> QED BY <2>1, <2>2, <2>3
<1>6. CASE DlopenFails \/ ReadScript \/ Idle \/ UNCHANGED vars
  BY <1>6, FailLeaves
<1> QED BY <1>1, <1>2, <1>3, <1>4, <1>5, <1>6 DEF Next

(* The inductive invariant holds for every number of files, objects and     *)
(* symbols.                                                                 *)
THEOREM LibrariesCorrect == Spec => []LibrariesInv
<1>1. LibrariesInv /\ [Next]_vars => LibrariesInv'
  BY TypeStep, CountStep, PointersStep, PrivateStep DEF LibrariesInv
<1> QED BY InitInv, <1>1, PTL DEF Spec

(* Every variable has its type.                                             *)
THEOREM LibraryTypes == Spec => []TypeOK
<1>1. LibrariesInv => TypeOK BY DEF LibrariesInv
<1> QED BY <1>1, LibrariesCorrect, PTL

(* The loader counts every open library once.                               *)
THEOREM CountExactHolds == Spec => []CountExact
<1>1. LibrariesInv => CountExact BY DEF LibrariesInv
<1> QED BY <1>1, LibrariesCorrect, PTL

(* A pointer is good for as long as its library object is open.             *)
THEOREM PointersGoodHolds == Spec => []PointersGood
<1>1. LibrariesInv => PointersGood BY DEF LibrariesInv
<1> QED BY <1>1, LibrariesCorrect, PTL

(* What Library has put on an object can be called for ever.                *)
THEOREM FunctionsGoodHolds == Spec => []FunctionsGood
<1>1. LibrariesInv => FunctionsGood
  <2> SUFFICES ASSUME LibrariesInv, NoDoubleClose,
                      NEW o \in LibObjects, NEW s \in Symbols, lib[o][s] # None
               PROVE  lib[o][s] \in private /\ pointers[lib[o][s]] = "live"
    BY DEF FunctionsGood
  <2> USE DEF LibrariesInv
  <2>1. lib[o][s] \in private /\ pointers[lib[o][s]] # "none" BY DEF PrivateInv
  <2>2. lib[o][s] \in Dls /\ closes[lib[o][s]] = 0 BY <2>1 DEF PrivateInv, TypeOK
  <2>3. pointers[lib[o][s]] # "dangling" BY <2>2 DEF PointersGood
  <2> QED BY <2>1, <2>2, <2>3 DEF TypeOK
<1> QED BY <1>1, LibrariesCorrect, PTL

-----------------------------------------------------------------------------
(* The file that gets opened.  Named is closed under the scripts, and a     *)
(* file that another one needs is looked at only if that one is Named.      *)

LEMMA NamedClosed ==
  ASSUME TypeOK, NEW path \in Files
  PROVE  /\ path \in Named(path)
         /\ \A f \in Named(path) : content[f].kind = "script" => content[f].file \in Named(path)
<1>1. path \in Named(path) BY DEF Named
<1>2. ASSUME NEW f \in Named(path), content[f].kind = "script"
      PROVE  content[f].file \in Named(path)
  <2>1. f \in Files /\ content[f].file \in Files BY DEF Named, TypeOK, Contents
  <2>2. ASSUME NEW S \in SUBSET Files, path \in S,
               \A h \in S : content[h].kind = "script" => content[h].file \in S
        PROVE  content[f].file \in S
    <3>1. f \in S BY <2>2 DEF Named
    <3> QED BY <1>2, <2>2, <3>1
  <2> QED BY <2>1, <2>2 DEF Named
<1> QED BY <1>1, <1>2

(* What dlopen reports is a file of Right, too: the one that was asked for  *)
(* itself, or one it needs.                                                 *)
LEMMA FaultyRight ==
  ASSUME TypeOK, NEW path, NEW f \in Paths, NEW g \in Faulty(f), Right(path, f)
  PROVE  Right(path, g)
<1>1. f \in Files BY DEF Faulty, Paths
<1>2. path \in Files BY <1>1 DEF Right
<1>3. CASE content[f].kind = "needs" BY <1>1, <1>2, <1>3 DEF Right
<1>4. CASE content[f].kind # "needs"
  <2>1. g = f BY <1>1, <1>4, NamesAssumption DEF Faulty
  <2> QED BY <2>1
<1> QED BY <1>3, <1>4

LEMMA ScriptRight ==
  ASSUME TypeOK, NEW path, NEW f \in Files, Right(path, f), content[f].kind = "script"
  PROVE  Right(path, content[f].file)
<1>1. path \in Files BY DEF Right
<1>2. CASE f \in Named(path)
  <2>1. content[f].file \in Named(path) BY <1>1, <1>2, NamedClosed
  <2> QED BY <1>1, <2>1 DEF Right
<1>3. CASE \E h \in Named(path) : content[h].kind = "needs" BY <1>1, <1>3 DEF Right
<1> QED BY <1>2, <1>3 DEF Right

(* The file being tried is right at every step of an opening.               *)
RightOpening == opening # None /\ opening.step # "fill" => Right(opening.asked, opening.path)

RightInv == RightOpening /\ RightLibrary

LEMMA RightStep == TypeOK /\ RightInv /\ [Next]_vars => RightInv'
<1> SUFFICES ASSUME TypeOK, RightInv, [Next]_vars PROVE RightInv'
  OBVIOUS
<1> USE NamesAssumption DEF RightInv, objectVars
<1>0. content' = content
  BY DEF Next, Start, DlopenOk, DlopenFails, ReadScript, Fill, Get, Close, Idle, vars
<1>1. \A path, file : Right(path, file)' <=> Right(path, file)
  BY <1>0 DEF Right, Named
<1>2. opening # None => opening \in Openings BY DEF TypeOK
<1>3. ASSUME NEW d \in Dls, NEW path \in Paths, NEW object \in LibObjects \cup {None},
             Start(d, path, object)
      PROVE RightInv'
  <2>1. Right(path, path) BY NamedClosed DEF Right, Paths
  <2>2. opening'.asked = path /\ opening'.path = path BY <1>3 DEF Start
  <2>3. UNCHANGED <<asked, handle>> BY <1>3 DEF Start
  <2> QED BY <1>1, <2>1, <2>2, <2>3 DEF RightOpening, RightLibrary
<1>4. CASE DlopenOk
  <2>1. Right(opening.asked, opening.path) BY <1>4 DEF DlopenOk, RightOpening
  <2>2. opening \in Openings BY <1>2, <1>4 DEF DlopenOk
  <2>3. /\ handle' = [handle EXCEPT ![opening.dl] = opening.path]
        /\ asked' = [asked EXCEPT ![opening.dl] = opening.asked]
    BY <1>4 DEF DlopenOk
  <2>4. \A d \in Dls : Right(asked'[d], handle'[d])
    BY <2>1, <2>3 DEF RightLibrary, TypeOK
  <2>5. opening' = None \/ opening'.step = "fill"
    BY <1>4, <2>2 DEF DlopenOk, Finish, Openings
  <2> QED BY <1>1, <2>4, <2>5 DEF RightOpening, RightLibrary
<1>5. CASE DlopenFails
  <2>1. opening \in Openings /\ Right(opening.asked, opening.path)
    BY <1>2, <1>5 DEF DlopenFails, RightOpening
  <2>2. UNCHANGED <<asked, handle>> BY <1>5, FailLeaves
  <2>3. PICK f \in Faulty(opening.path) :
          \/ opening' = None
          \/ opening' = [opening EXCEPT !.path = f, !.step = "read"]
    BY <1>5 DEF DlopenFails, Finish
  <2>4. Right(opening.asked, f) BY <2>1, FaultyRight DEF Openings
  <2>5. opening' # None => Right(opening'.asked, opening'.path) BY <2>1, <2>3, <2>4 DEF Openings
  <2> QED BY <1>1, <2>2, <2>5 DEF RightOpening, RightLibrary
<1>6. CASE ReadScript
  <2>1. opening \in Openings /\ opening.path \in Files /\ Right(opening.asked, opening.path)
    BY <1>2, <1>6 DEF ReadScript, RightOpening, TypeOK, Openings, Paths
  <2>2. UNCHANGED <<asked, handle>> BY <1>6, FailLeaves
  <2>3. \/ opening' = None
        \/ /\ content[opening.path].kind = "script"
           /\ opening' = [opening EXCEPT !.path = content[opening.path].file,
                                         !.scripts = opening.scripts + 1, !.step = "dlopen"]
    BY <1>6 DEF ReadScript, Finish
  <2>4. opening' # None => Right(opening'.asked, opening'.path)
    BY <2>1, <2>3, ScriptRight DEF Openings
  <2> QED BY <1>1, <2>2, <2>4 DEF RightOpening, RightLibrary
<1>7. CASE Fill
  <2>1. UNCHANGED <<asked, handle>> /\ opening' = None BY <1>7 DEF Fill, Finish
  <2> QED BY <1>1, <2>1 DEF RightOpening, RightLibrary
<1>8. ASSUME NEW d \in Dls, Get(d) \/ Close(d) PROVE RightInv'
  <2>1. UNCHANGED <<asked, handle, opening>> BY <1>8 DEF Get, Close
  <2> QED BY <1>1, <2>1 DEF RightOpening, RightLibrary
<1>9. CASE Idle \/ UNCHANGED vars
  <2>1. UNCHANGED <<asked, handle, opening>> BY <1>9 DEF Idle, vars
  <2> QED BY <1>1, <2>1 DEF RightOpening, RightLibrary
<1> QED BY <1>3, <1>4, <1>5, <1>6, <1>7, <1>8, <1>9 DEF Next

(* What gets opened is the file that was asked for or one its linker        *)
(* scripts name, unless a library among these needs yet another file.       *)
THEOREM RightLibraryHolds == Spec => []RightLibrary
<1>1. Init => RightInv
  BY NamesAssumption DEF Init, RightInv, RightOpening, RightLibrary, Right
<1>2. RightInv => RightLibrary BY DEF RightInv
<1> QED BY <1>1, <1>2, RightStep, LibraryTypes, PTL DEF Spec
=============================================================================
