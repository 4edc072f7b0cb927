-------------------------- MODULE ForeignCallProofs --------------------------
(* Proofs about ForeignCall, for every set of callbacks and every depth.    *)
EXTENDS ForeignCall, SequenceTheorems, TLAPS

Alternates(s) == \A i \in DOMAIN s : s[i].kind = IF i % 2 = 1 THEN "js" ELSE "c"

Owes(f) == f.kind = "c" /\ f.result = "owed"

LEMMA Frames ==
  /\ JsFrame \in Frame
  /\ \A K \in SUBSET Callbacks : CFrame(K) \in Frame
  /\ \A f \in Frame, r \in Results : [f EXCEPT !.result = r] \in Frame
BY DEF Frame, JsFrame, CFrame, Results

LEMMA OneFrame ==
  ASSUME NEW f \in Frame
  PROVE  <<f>> \in Seq(Frame) /\ Len(<<f>>) = 1 /\ DOMAIN <<f>> = {1} /\ <<f>>[1] = f
<1>1. <<f>> \in Seq(Frame) /\ Len(<<f>>) = 1 /\ <<f>>[1] = f OBVIOUS
<1>2. DOMAIN <<f>> = 1 .. 1 BY <1>1, LenProperties
<1> QED BY <1>1, <1>2

LEMMA NoFrame == <<>> \in Seq(Frame) /\ DOMAIN <<>> = {}
<1>1. <<>> \in Seq(Frame) /\ Len(<<>>) = 0 BY EmptySeq
<1>2. DOMAIN <<>> = 1 .. 0 BY <1>1, LenProperties
<1> QED BY <1>1, <1>2

(* What Front leaves of a stack. *)
LEMMA Popped ==
  ASSUME NEW s \in Seq(Frame), s # <<>>
  PROVE  /\ Len(s) \in Nat \ {0} /\ DOMAIN s = 1 .. Len(s) /\ Last(s) \in Frame
         /\ Front(s) \in Seq(Frame)
         /\ Len(Front(s)) = Len(s) - 1 /\ DOMAIN Front(s) = 1 .. Len(s) - 1
         /\ \A i \in DOMAIN Front(s) : Front(s)[i] = s[i]
<1>1. Len(s) \in Nat \ {0} /\ DOMAIN s = 1 .. Len(s) BY EmptySeq, LenProperties
<1>2. \A i \in 1 .. Len(s) : s[i] \in Frame BY ElementOfSeq
<1>3. /\ Front(s) \in Seq(Frame) /\ Len(Front(s)) = Len(s) - 1
      /\ \A i \in 1 .. Len(s) - 1 : Front(s)[i] = s[i]
  <2>1. /\ SubSeq(s, 1, Len(s) - 1) \in Seq(Frame)
        /\ Len(SubSeq(s, 1, Len(s) - 1)) =
             IF 1 <= Len(s) - 1 THEN Len(s) - 1 - 1 + 1 ELSE 0
        /\ \A i \in 1 .. Len(s) - 1 - 1 + 1 : SubSeq(s, 1, Len(s) - 1)[i] = s[1 + i - 1]
    <3> DEFINE n == Len(s) - 1
    <3>1. n \in Int /\ \A i \in 1 .. n : s[i] \in Frame BY <1>1, <1>2
    <3> HIDE DEF n
    <3>2. /\ SubSeq(s, 1, n) \in Seq(Frame)
          /\ Len(SubSeq(s, 1, n)) = IF 1 <= n THEN n - 1 + 1 ELSE 0
          /\ \A i \in 1 .. n - 1 + 1 : SubSeq(s, 1, n)[i] = s[1 + i - 1]
      BY <3>1, SubSeqProperties
    <3> QED BY <3>2 DEF n
  <2> QED BY <1>1, <2>1 DEF Front
<1>4. DOMAIN Front(s) = 1 .. Len(s) - 1 BY <1>3, LenProperties
<1>5. Last(s) \in Frame BY <1>1, <1>2 DEF Last
<1> QED BY <1>1, <1>3, <1>4, <1>5

LEMMA Pushed ==
  ASSUME NEW s \in Seq(Frame), NEW f \in Frame
  PROVE  /\ Append(s, f) \in Seq(Frame)
         /\ Len(s) \in Nat /\ DOMAIN s = 1 .. Len(s)
         /\ DOMAIN Append(s, f) = 1 .. Len(s) + 1
         /\ \A i \in DOMAIN s : Append(s, f)[i] = s[i]
         /\ Append(s, f)[Len(s) + 1] = f
<1>1. Append(s, f) \in Seq(Frame) /\ Len(Append(s, f)) = Len(s) + 1 BY AppendProperties
<1>2. DOMAIN Append(s, f) = 1 .. Len(s) + 1 BY <1>1, LenProperties
<1> QED BY <1>1, <1>2, AppendProperties, LenProperties

(* s2 is s but for the results of its frames. *)
SameCalls(s, s2) ==
  /\ s2 \in Seq(Frame) /\ Len(s2) = Len(s) /\ DOMAIN s2 = DOMAIN s
  /\ \A i \in DOMAIN s : s2[i].kind = s[i].kind /\ s2[i].args = s[i].args

LEMMA FrameByFrame ==
  ASSUME NEW s \in Seq(Frame), NEW s2 \in [DOMAIN s -> Frame],
         \A i \in DOMAIN s : s2[i].kind = s[i].kind /\ s2[i].args = s[i].args
  PROVE  SameCalls(s, s2)
<1>1. Len(s) \in Nat /\ DOMAIN s = 1 .. Len(s) BY LenProperties
<1>2. s2 \in Seq(Frame) BY <1>1, SeqDef
<1>3. Len(s2) = Len(s) BY <1>1, <1>2, LenProperties
<1> QED BY <1>2, <1>3 DEF SameCalls

LEMMA Marked ==
  ASSUME NEW s \in Seq(Frame), NEW n, NEW r \in Results
  PROVE  /\ SameCalls(s, Mark(s, n, r))
         /\ \A i \in DOMAIN s : Mark(s, n, r)[i].result = IF i = n THEN r ELSE s[i].result
<1>1. \A i \in DOMAIN s : s[i] \in Frame BY ElementOfSeq, LenProperties
<1>2. ASSUME NEW i \in DOMAIN s
      PROVE  /\ Mark(s, n, r)[i] \in Frame
             /\ Mark(s, n, r)[i].kind = s[i].kind /\ Mark(s, n, r)[i].args = s[i].args
             /\ Mark(s, n, r)[i].result = IF i = n THEN r ELSE s[i].result
  BY <1>1 DEF Mark, Frame
<1>3. Mark(s, n, r) \in [DOMAIN s -> Frame]
  <2>1. Mark(s, n, r) = [i \in DOMAIN s |-> Mark(s, n, r)[i]] BY DEF Mark
  <2> QED BY <1>2, <2>1
<1> QED BY <1>2, <1>3, FrameByFrame

LEMMA Told ==
  ASSUME NEW s \in Seq(Frame)
  PROVE  /\ SameCalls(s, Tell(s))
         /\ \A i \in DOMAIN s :
              Tell(s)[i].result = IF i = scheduled THEN "told"
                                  ELSE IF s[i].result = "replaced" THEN "lost"
                                  ELSE s[i].result
<1>1. \A i \in DOMAIN s : s[i] \in Frame BY ElementOfSeq, LenProperties
<1>2. ASSUME NEW i \in DOMAIN s
      PROVE  /\ Tell(s)[i] \in Frame
             /\ Tell(s)[i].kind = s[i].kind /\ Tell(s)[i].args = s[i].args
             /\ Tell(s)[i].result = IF i = scheduled THEN "told"
                                    ELSE IF s[i].result = "replaced" THEN "lost"
                                    ELSE s[i].result
  BY <1>1 DEF Tell, Frame, Results
<1>3. Tell(s) \in [DOMAIN s -> Frame]
  <2>1. Tell(s) = [i \in DOMAIN s |-> Tell(s)[i]] BY DEF Tell
  <2> QED BY <1>2, <2>1
<1> QED BY <1>2, <1>3, FrameByFrame

(* The callback of the innermost C function has failed. *)
LEMMA Failed ==
  ASSUME NEW s \in Seq(Frame), NEW r \in Results
  PROVE  /\ SameCalls(s, Fails(s, r))
         /\ \A i \in DOMAIN s :
              Fails(s, r)[i].result = IF i = Len(s) THEN r ELSE s[i].result
BY Marked DEF Fails

(* ... and its error is scheduled. *)
LEMMA Scheduled ==
  ASSUME NEW s \in Seq(Frame), Schedule(s)
  PROVE  /\ SameCalls(s, stack') /\ scheduled' = Len(s) /\ scheduled' \in Nat
         /\ \A i \in DOMAIN s :
              stack'[i].result = IF i = Len(s) THEN "owed"
                                 ELSE IF i = scheduled THEN "replaced"
                                 ELSE s[i].result
<1> DEFINE s1 == Mark(s, scheduled, "replaced")
<1>1. /\ SameCalls(s, s1)
      /\ \A i \in DOMAIN s : s1[i].result = IF i = scheduled THEN "replaced" ELSE s[i].result
  BY Marked DEF Results
<1>2. stack' = Fails(s1, "owed") /\ scheduled' = Len(s) BY DEF Schedule
<1>3. s1 \in Seq(Frame) /\ Len(s1) = Len(s) BY <1>1 DEF SameCalls
<1> HIDE DEF s1
<1>4. /\ SameCalls(s1, stack')
      /\ \A i \in DOMAIN s1 : stack'[i].result = IF i = Len(s) THEN "owed" ELSE s1[i].result
  BY <1>2, <1>3, Failed DEF Results
<1> QED BY <1>1, <1>2, <1>4, LenProperties DEF SameCalls

-----------------------------------------------------------------------------
(* Types *)

LEMMA Parity == /\ 1 % 2 = 1
                /\ \A n \in Nat : (n + 1) % 2 = 1 <=> n % 2 # 1
OBVIOUS

LEMMA PushAlternates ==
  ASSUME NEW s \in Seq(Frame), NEW f \in Frame, Alternates(s),
         IF s = <<>> THEN f.kind = "js" ELSE Last(s).kind # f.kind
  PROVE  Alternates(Append(s, f))
<1>1. CASE s = <<>>
  <2>1. Len(s) = 0 BY <1>1, EmptySeq
  <2> QED BY <1>1, <2>1, Pushed, Parity DEF Alternates
<1>2. CASE s # <<>>
  <2>1. Len(s) \in DOMAIN s /\ Len(s) \in Nat BY <1>2, Popped
  <2>2. s[Len(s)].kind = IF Len(s) % 2 = 1 THEN "js" ELSE "c" BY <2>1 DEF Alternates
  <2>3. f.kind \in {"js", "c"} BY DEF Frame
  <2>4. f.kind = IF (Len(s) + 1) % 2 = 1 THEN "js" ELSE "c"
    BY <1>2, <2>1, <2>2, <2>3, Parity DEF Last
  <2> QED BY <2>4, Pushed DEF Alternates
<1> QED BY <1>1, <1>2

LEMMA PopAlternates ==
  ASSUME NEW s \in Seq(Frame), s # <<>>, Alternates(s)
  PROVE  Alternates(Front(s))
BY Popped DEF Alternates

LEMMA SameAlternates ==
  ASSUME NEW s, NEW s2, SameCalls(s, s2), Alternates(s)
  PROVE  s2 \in Seq(Frame) /\ Alternates(s2)
BY DEF SameCalls, Alternates

LEMMA TypeStep == TypeOK /\ [Next]_vars => TypeOK'
<1> SUFFICES ASSUME TypeOK, [Next]_vars PROVE TypeOK'
  OBVIOUS
<1>0. stack \in Seq(Frame) /\ Alternates(stack) BY DEF TypeOK, Alternates
<1>a. /\ scheduled \in Nat
      /\ live \subseteq Callbacks /\ pinned \subseteq Callbacks BY DEF TypeOK
<1> SUFFICES /\ stack' \in Seq(Frame) /\ Alternates(stack')
             /\ scheduled' \in Nat
             /\ live' \subseteq Callbacks /\ pinned' \subseteq Callbacks
  BY DEF TypeOK, Alternates
<1>1. CASE RunTask
  <2>1. <<JsFrame>>[1].kind = "js" BY DEF JsFrame
  <2>2. Alternates(<<JsFrame>>) BY <2>1, Frames, OneFrame, Parity DEF Alternates
  <2> QED BY <1>1, <1>a, <2>2, Frames, OneFrame DEF RunTask
<1>2. CASE TaskEnds
  BY <1>0, <1>2, <1>a, NoFrame DEF TaskEnds, Alternates
<1>3. CASE FFICallThrows
  BY <1>0, <1>3, <1>a, Popped, PopAlternates, Told, SameAlternates DEF FFICallThrows, Running
<1>4. CASE FFICallReturns \/ CallbackReturns
  BY <1>0, <1>4, <1>a, Popped, PopAlternates
  DEF FFICallReturns, CallbackReturns, InCallback, Running
<1>5. CASE Invoke
  <2>1. stack # <<>> /\ Last(stack).kind # JsFrame.kind BY <1>5 DEF Invoke, Running, JsFrame
  <2> QED BY <1>0, <1>5, <1>a, <2>1, Frames, Pushed, PushAlternates DEF Invoke
<1>6. CASE InvokeCollected
  BY <1>0, <1>6, <1>a, Scheduled, SameAlternates DEF InvokeCollected
<1>7. CASE CallbackFails \/ CallbackThrowsUndefined
  <2>1. stack # <<>> BY <1>7
          DEF CallbackFails, CallbackThrowsUndefined, InCallback, Running
  <2>2. Front(stack) \in Seq(Frame) /\ Alternates(Front(stack))
    BY <1>0, <2>1, Popped, PopAlternates
  <2>3. CASE CallbackFails
    BY <1>a, <2>2, <2>3, Scheduled, SameAlternates DEF CallbackFails
  <2>4. CASE CallbackThrowsUndefined
    <3>1. SameCalls(Front(stack), Fails(Front(stack), "silent"))
      BY <2>2, Failed DEF Results
    <3> QED BY <1>a, <2>2, <2>4, <3>1, SameAlternates DEF CallbackThrowsUndefined
  <2> QED BY <1>7, <2>3, <2>4
<1>8. CASE Surface
  BY <1>0, <1>8, <1>a, Told, SameAlternates DEF Surface
<1>9. ASSUME NEW K \in SUBSET Callbacks,
             ProxyThrows(K) \/ Proxy(K) \/ ProxyAsync(K) \/ AsyncEnds(K)
      PROVE  /\ stack' \in Seq(Frame) /\ Alternates(stack')
             /\ scheduled' \in Nat
             /\ live' \subseteq Callbacks /\ pinned' \subseteq Callbacks
  <2>1. CASE Proxy(K)
    <3>1. stack # <<>> /\ Last(stack).kind # CFrame(K).kind
      BY <2>1 DEF Proxy, MakeCallbacks, Running, CFrame
    <3> QED BY <1>0, <1>a, <2>1, <3>1, Frames, Pushed, PushAlternates DEF Proxy, MakeCallbacks
  <2> QED BY <1>0, <1>9, <1>a, <2>1 DEF ProxyThrows, ProxyAsync, AsyncEnds, MakeCallbacks
<1>10. CASE \E k \in Callbacks : Collect(k) BY <1>0, <1>10, <1>a DEF Collect
<1>11. CASE UNCHANGED vars BY <1>0, <1>11, <1>a DEF vars
<1> QED BY <1>1, <1>2, <1>3, <1>4, <1>5, <1>6, <1>7, <1>8, <1>9, <1>10, <1>11 DEF Next

(* The stack alternates between frames of JavaScript and C, every variable  *)
(* has its type.                                                            *)
THEOREM TypeCorrect == Spec => []TypeOK
<1>1. Init => TypeOK BY NoFrame DEF Init, TypeOK
<1> QED BY <1>1, TypeStep, PTL DEF Spec

-----------------------------------------------------------------------------
(* The scheduled exception *)

(* ExceptionInv, of any stack and owner of the exception. *)
Accounted(s, n) ==
  /\ n # 0 => n \in DOMAIN s
  /\ \A i \in DOMAIN s : /\ Owes(s[i]) <=> n = i
                         /\ s[i].result = "replaced" => i < n

LEMMA PushAccounted ==
  ASSUME NEW s \in Seq(Frame), NEW f \in Frame, f.result = "good",
         NEW n, Accounted(s, n)
  PROVE  Accounted(Append(s, f), n)
<1>1. Len(s) \in Nat /\ DOMAIN s = 1 .. Len(s) /\ n # Len(s) + 1
  <2>1. Len(s) \in Nat /\ DOMAIN s = 1 .. Len(s) BY Pushed
  <2> QED BY <2>1 DEF Accounted
<1>2. DOMAIN Append(s, f) = DOMAIN s \cup {Len(s) + 1}
  <2>1. DOMAIN Append(s, f) = 1 .. Len(s) + 1 BY Pushed
  <2> QED BY <1>1, <2>1
<1>3. /\ \A i \in DOMAIN s : Append(s, f)[i] = s[i]
      /\ Append(s, f)[Len(s) + 1] = f
  BY Pushed
<1> QED BY <1>1, <1>2, <1>3 DEF Accounted, Owes

(* Only a frame that owes takes its debt with it. *)
LEMMA PopAccounted ==
  ASSUME NEW s \in Seq(Frame), s # <<>>, ~Owes(Last(s)), NEW n, Accounted(s, n)
  PROVE  Accounted(Front(s), n)
<1>1. \A i : i \in DOMAIN s <=> i \in DOMAIN Front(s) \/ i = Len(s)
  <2>1. /\ Len(s) \in Nat \ {0}
        /\ DOMAIN s = 1 .. Len(s) /\ DOMAIN Front(s) = 1 .. Len(s) - 1 BY Popped
  <2> QED BY <2>1
<1>2. n # Len(s) BY <1>1 DEF Accounted, Last
<1> QED BY <1>1, <1>2, Popped DEF Accounted

(* When JavaScript is told, nobody owes an exception any more. *)
LEMMA TellAccounted ==
  ASSUME NEW s \in Seq(Frame), \A i \in DOMAIN s : Owes(s[i]) <=> scheduled = i
  PROVE  Accounted(Tell(s), 0)
<1>1. \A i \in DOMAIN s : i # 0 BY LenProperties
<1> QED BY <1>1, Told DEF Accounted, SameCalls, Owes

LEMMA ScheduleAccounted ==
  ASSUME NEW s \in Seq(Frame), s # <<>>, Last(s).kind = "c",
         Accounted(s, scheduled), Schedule(s)
  PROVE  Accounted(stack', scheduled')
<1>1. Len(s) \in Nat \ {0} /\ DOMAIN s = 1 .. Len(s) BY Popped
<1>2. Len(s) \in DOMAIN s /\ s[Len(s)].kind = "c" BY <1>1 DEF Last
<1>3. /\ DOMAIN stack' = DOMAIN s /\ scheduled' = Len(s)
      /\ \A i \in DOMAIN s : stack'[i].kind = s[i].kind
  BY Scheduled DEF SameCalls
<1>4. ASSUME NEW i \in DOMAIN s
      PROVE  /\ Owes(stack'[i]) <=> scheduled' = i
             /\ stack'[i].result = "replaced" => i < scheduled'
  <2>1. i \in Nat /\ i <= Len(s) BY <1>1
  <2>2. stack'[i].result = IF i = Len(s) THEN "owed"
                           ELSE IF i = scheduled THEN "replaced" ELSE s[i].result
    BY Scheduled
  <2>3. (i # Len(s) /\ i # scheduled) => ~Owes(stack'[i])
    BY <1>3, <2>2 DEF Accounted, Owes
  <2>4. (i # Len(s) /\ i = scheduled) => ~Owes(stack'[i]) BY <2>2 DEF Owes
  <2>5. i = Len(s) => Owes(stack'[i]) /\ stack'[i].result # "replaced"
    BY <1>2, <1>3, <2>2 DEF Owes
  <2> QED BY <1>3, <2>1, <2>3, <2>4, <2>5
<1> QED BY <1>2, <1>3, <1>4 DEF Accounted

(* Under a callback on top of the stack is the C function that called it.   *)
LEMMA Below ==
  ASSUME TypeOK, InCallback
  PROVE  /\ stack # <<>> /\ ~Owes(Last(stack))
         /\ Front(stack) \in Seq(Frame) /\ Front(stack) # <<>>
         /\ Last(Front(stack)).kind = "c"
<1>1. stack \in Seq(Frame) /\ stack # <<>> /\ Len(stack) > 1 /\ Last(stack).kind = "js"
  BY DEF TypeOK, InCallback, Running
<1> DEFINE n == Len(stack) - 1
<1>2. n \in Nat /\ n \in DOMAIN stack /\ n + 1 = Len(stack) /\ n + 1 \in DOMAIN stack
  BY <1>1, Popped
<1>3. stack[n + 1].kind = "js" BY <1>1, <1>2 DEF Last
<1>4. n % 2 # 1 BY <1>2, <1>3, Parity DEF TypeOK
<1>5. stack[n].kind = "c" BY <1>2, <1>4 DEF TypeOK
<1>6. Front(stack) \in Seq(Frame) /\ Len(Front(stack)) = n /\ Front(stack)[n] = stack[n]
  <2>1. n \in 1 .. n /\ DOMAIN Front(stack) = 1 .. Len(stack) - 1 BY <1>1, <1>2, Popped
  <2>2. n \in DOMAIN Front(stack) BY <2>1
  <2> QED BY <1>1, <2>2, Popped
<1> HIDE DEF n
<1>7. Front(stack) # <<>> BY <1>1, <1>2, <1>6, EmptySeq DEF n
<1> QED BY <1>1, <1>5, <1>6, <1>7 DEF Last, Owes

LEMMA ExceptionStep == TypeOK /\ ExceptionInv /\ [Next]_vars => ExceptionInv'
<1> SUFFICES ASSUME TypeOK, ExceptionInv, [Next]_vars PROVE Accounted(stack', scheduled')
  BY DEF ExceptionInv, Accounted, Owes
<1>0. stack \in Seq(Frame) /\ Accounted(stack, scheduled)
  BY DEF TypeOK, ExceptionInv, Accounted, Owes
<1>1. CASE RunTask
  <2>1. Accounted(<<JsFrame>>, 0) BY Frames, OneFrame DEF Accounted, Owes, JsFrame
  <2>2. scheduled = 0 BY <1>0, <1>1, NoFrame DEF RunTask, Accounted
  <2> QED BY <1>1, <2>1, <2>2 DEF RunTask
<1>2. CASE TaskEnds
  <2>1. Accounted(<<>>, 0) BY NoFrame DEF Accounted
  <2>2. stack # <<>> /\ DOMAIN stack = {1} /\ stack[1].kind = "js"
    BY <1>0, <1>2, Popped DEF TaskEnds, Running, Last
  <2>3. scheduled = 0 BY <1>0, <2>2 DEF Accounted, Owes
  <2> QED BY <1>2, <2>1, <2>3 DEF TaskEnds
<1>3. CASE FFICallThrows
  <2>1. /\ stack # <<>> /\ Front(stack) \in Seq(Frame)
        /\ \A i \in DOMAIN Front(stack) : Front(stack)[i] = stack[i]
        /\ DOMAIN Front(stack) \subseteq DOMAIN stack
    <3>1. stack # <<>> BY <1>3 DEF FFICallThrows, Running
    <3>2. /\ Len(stack) \in Nat \ {0} /\ DOMAIN stack = 1 .. Len(stack)
          /\ DOMAIN Front(stack) = 1 .. Len(stack) - 1 BY <1>0, <3>1, Popped
    <3>3. DOMAIN Front(stack) \subseteq DOMAIN stack BY <3>2
    <3> QED BY <1>0, <3>1, <3>3, Popped
  <2>2. Accounted(Tell(Front(stack)), 0) BY <1>0, <2>1, TellAccounted DEF Accounted
  <2> QED BY <1>3, <2>2 DEF FFICallThrows
<1>4. CASE FFICallReturns
  <2>1. stack # <<>> /\ scheduled = 0 /\ scheduled' = 0 /\ stack' = Front(stack)
    BY <1>4 DEF FFICallReturns, Running
  <2>2. ~Owes(Last(stack))
    <3>1. Len(stack) \in DOMAIN stack /\ Len(stack) # 0 BY <1>0, <2>1, Popped
    <3> QED BY <1>0, <2>1, <3>1 DEF Accounted, Last
  <2> QED BY <1>0, <2>1, <2>2, PopAccounted
<1>5. CASE Invoke
  <2>1. JsFrame.result = "good" BY DEF JsFrame
  <2> QED BY <1>0, <1>5, <2>1, Frames, PushAccounted DEF Invoke
<1>6. CASE InvokeCollected
  BY <1>0, <1>6, ScheduleAccounted DEF InvokeCollected, Running
<1>7. CASE CallbackReturns
  BY <1>0, <1>7, Below, PopAccounted DEF CallbackReturns
<1>8. CASE CallbackFails
  BY <1>0, <1>8, Below, PopAccounted, ScheduleAccounted DEF CallbackFails
<1>9. CASE CallbackThrowsUndefined
  <2> DEFINE below == Front(stack)
  <2>1. /\ below \in Seq(Frame) /\ below # <<>> /\ Last(below).kind = "c"
        /\ stack' = IF Last(below).result = "owed" THEN below ELSE Fails(below, "silent")
        /\ scheduled' = scheduled
    BY <1>9, Below DEF CallbackThrowsUndefined
  <2>2. Accounted(below, scheduled)
    BY <1>0, <1>9, Below, PopAccounted DEF CallbackThrowsUndefined
  <2> HIDE DEF below
  <2>3. CASE Last(below).result = "owed" BY <2>1, <2>2, <2>3
  <2>4. CASE Last(below).result # "owed"
    <3>1. stack' = Fails(below, "silent") BY <2>1, <2>4
    <3>2. /\ SameCalls(below, stack')
          /\ \A i \in DOMAIN below :
               stack'[i].result = IF i = Len(below) THEN "silent" ELSE below[i].result
      BY <2>1, <3>1, Failed DEF Results
    <3>3. ~Owes(below[Len(below)]) BY <2>4 DEF Owes, Last
    <3>4. Accounted(stack', scheduled) BY <2>2, <3>2, <3>3 DEF Accounted, SameCalls, Owes
    <3> QED BY <2>1, <3>4
  <2> QED BY <2>3, <2>4
<1>10. CASE Surface
  <2>1. Accounted(Tell(stack), 0) BY <1>0, TellAccounted DEF Accounted
  <2> QED BY <1>10, <2>1 DEF Surface
<1>11. ASSUME NEW K \in SUBSET Callbacks,
              ProxyThrows(K) \/ Proxy(K) \/ ProxyAsync(K) \/ AsyncEnds(K)
       PROVE  Accounted(stack', scheduled')
  <2>1. CASE Proxy(K)
    <3>1. CFrame(K).result = "good" BY DEF CFrame
    <3> QED BY <1>0, <2>1, <3>1, Frames, PushAccounted DEF Proxy
  <2> QED BY <1>0, <1>11, <2>1 DEF ProxyThrows, ProxyAsync, AsyncEnds
<1>12. CASE \E k \in Callbacks : Collect(k) BY <1>0, <1>12 DEF Collect
<1>13. CASE UNCHANGED vars BY <1>0, <1>13 DEF vars
<1> QED BY <1>1, <1>2, <1>3, <1>4, <1>5, <1>6, <1>7, <1>8, <1>9, <1>10, <1>11, <1>12, <1>13
        DEF Next

LEMMA ExceptionInvariant == Spec => []ExceptionInv
<1>1. Init => ExceptionInv BY NoFrame DEF Init, ExceptionInv
<1> QED BY <1>1, ExceptionStep, TypeCorrect, PTL DEF Spec

(* A scheduled exception belongs to the C function on the stack that owes   *)
(* one, and there is at most one such function.                             *)
THEOREM ExceptionMatched == Spec => []ExceptionInv
BY ExceptionInvariant

LEMMA ErrorsStep ==
  TypeOK /\ ExceptionInv =>
    (FFICallReturns => Last(stack).result \notin {"owed", "replaced"})
<1> SUFFICES ASSUME TypeOK, ExceptionInv, FFICallReturns
             PROVE  Last(stack).result \notin {"owed", "replaced"}
  OBVIOUS
<1>1. stack \in Seq(Frame) /\ stack # <<>> /\ Last(stack).kind = "c" /\ scheduled = 0
  BY DEF TypeOK, FFICallReturns, Running
<1>2. Len(stack) \in DOMAIN stack /\ Len(stack) \in Nat \ {0} BY <1>1, Popped
<1>3. ~(Len(stack) < scheduled) /\ Len(stack) # scheduled BY <1>1, <1>2
<1> QED BY <1>1, <1>2, <1>3 DEF ExceptionInv, Last

(* A foreign call does not return a value that a failed callback has left   *)
(* unwritten before JavaScript has been told of the error, or of the one    *)
(* that replaced it.                                                        *)
THEOREM ErrorsAreSurfaced == Spec => ErrorsSurface
BY ErrorsStep, TypeCorrect, ExceptionInvariant, PTL DEF ErrorsSurface, Spec

-----------------------------------------------------------------------------
(* The callbacks of arguments *)

Kept(s) == UNION {s[i].args : i \in DOMAIN s}

LEMMA PushKeeps ==
  ASSUME NEW s \in Seq(Frame), NEW f \in Frame
  PROVE  Kept(Append(s, f)) = Kept(s) \cup f.args
<1>1. /\ DOMAIN Append(s, f) = DOMAIN s \cup {Len(s) + 1}
      /\ \A i \in DOMAIN s : Append(s, f)[i].args = s[i].args
      /\ Append(s, f)[Len(s) + 1] = f
  BY Pushed
<1> QED BY <1>1 DEF Kept

LEMMA PopKeeps ==
  ASSUME NEW s \in Seq(Frame), s # <<>>
  PROVE  Kept(Front(s)) \subseteq Kept(s)
<1>1. DOMAIN Front(s) \subseteq DOMAIN s /\ \A i \in DOMAIN Front(s) : Front(s)[i] = s[i]
  <2>1. /\ Len(s) \in Nat \ {0}
        /\ DOMAIN s = 1 .. Len(s) /\ DOMAIN Front(s) = 1 .. Len(s) - 1 BY Popped
  <2>2. DOMAIN Front(s) \subseteq DOMAIN s BY <2>1
  <2> QED BY <2>2, Popped
<1> QED BY <1>1 DEF Kept

LEMMA SameKept ==
  ASSUME NEW s, NEW s2, SameCalls(s, s2)
  PROVE  Kept(s2) = Kept(s)
BY DEF SameCalls, Kept

LEMMA NothingKept == Kept(<<>>) = {}
BY NoFrame DEF Kept

LEMMA AliveStep == TypeOK /\ ArgumentsAlive /\ [Next]_vars => ArgumentsAlive'
<1> SUFFICES ASSUME TypeOK, ArgumentsAlive, [Next]_vars
             PROVE  pinned' \subseteq live' /\ Kept(stack') \subseteq live'
  BY DEF ArgumentsAlive, Kept
<1>0. stack \in Seq(Frame) BY DEF TypeOK
<1>a. pinned \subseteq live /\ Kept(stack) \subseteq live
  BY DEF ArgumentsAlive, Kept
<1>1. CASE RunTask
  <2>1. Kept(<<JsFrame>>) = {} BY Frames, OneFrame DEF Kept, JsFrame
  <2> QED BY <1>1, <1>a, <2>1 DEF RunTask
<1>2. CASE TaskEnds BY <1>2, <1>a, NothingKept DEF TaskEnds
<1>3. CASE FFICallThrows
  <2>1. stack # <<>> BY <1>3 DEF FFICallThrows, Running
  <2>2. Kept(Tell(Front(stack))) \subseteq Kept(stack)
    BY <1>0, <2>1, Popped, PopKeeps, Told, SameKept
  <2> QED BY <1>3, <1>a, <2>2 DEF FFICallThrows
<1>4. CASE FFICallReturns \/ CallbackReturns
  BY <1>0, <1>4, <1>a, PopKeeps DEF FFICallReturns, CallbackReturns, InCallback, Running
<1>5. CASE Invoke
  BY <1>0, <1>5, <1>a, Frames, PushKeeps DEF Invoke, JsFrame
<1>6. CASE InvokeCollected
  BY <1>0, <1>6, <1>a, Scheduled, SameKept DEF InvokeCollected
<1>7. CASE CallbackFails \/ CallbackThrowsUndefined
  <2>1. InCallback BY <1>7 DEF CallbackFails, CallbackThrowsUndefined
  <2>2. Front(stack) \in Seq(Frame) /\ Kept(Front(stack)) \subseteq Kept(stack)
    BY <1>0, <2>1, Below, PopKeeps
  <2>3. CASE CallbackFails
    BY <1>a, <2>2, <2>3, Scheduled, SameKept DEF CallbackFails
  <2>4. CASE CallbackThrowsUndefined
    <3>1. Kept(Fails(Front(stack), "silent")) = Kept(Front(stack))
      BY <2>2, Failed, SameKept DEF Results
    <3> QED BY <1>a, <2>2, <2>4, <3>1 DEF CallbackThrowsUndefined
  <2> QED BY <1>7, <2>3, <2>4
<1>8. CASE Surface BY <1>0, <1>8, <1>a, Told, SameKept DEF Surface
<1>9. ASSUME NEW K \in SUBSET Callbacks,
             ProxyThrows(K) \/ Proxy(K) \/ ProxyAsync(K) \/ AsyncEnds(K)
      PROVE  pinned' \subseteq live' /\ Kept(stack') \subseteq live'
  <2>1. CASE Proxy(K)
    <3>1. Kept(stack') = Kept(stack) \cup K
      BY <1>0, <2>1, Frames, PushKeeps DEF Proxy, CFrame
    <3> QED BY <1>a, <2>1, <3>1 DEF Proxy, MakeCallbacks
  <2> QED BY <1>9, <1>a, <2>1 DEF ProxyThrows, ProxyAsync, AsyncEnds, MakeCallbacks
<1>10. CASE \E k \in Callbacks : Collect(k)
  BY <1>10, <1>a DEF Collect, Reachable, Kept
<1>11. CASE UNCHANGED vars BY <1>11, <1>a DEF vars
<1> QED BY <1>1, <1>2, <1>3, <1>4, <1>5, <1>6, <1>7, <1>8, <1>9, <1>10, <1>11 DEF Next

(* The callbacks made for the arguments of a call are there until the call  *)
(* is over, on the stack or on the pool.                                    *)
THEOREM ArgumentsStayAlive == Spec => []ArgumentsAlive
<1>1. Init => ArgumentsAlive BY NothingKept DEF Init, ArgumentsAlive, Kept
<1> QED BY <1>1, AliveStep, TypeCorrect, PTL DEF Spec
=============================================================================
