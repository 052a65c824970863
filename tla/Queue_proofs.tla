--------------------------- MODULE Queue_proofs ---------------------------
(***************************************************************************)
(* Proofs about Queue, for any finite number of producers and consumers    *)
(* and any limit: the notifications suffice, and the condition-variable    *)
(* protocol implements BoundedBuffer.                                      *)
(***************************************************************************)
EXTENDS Queue, FiniteSetTheorems, TLAPS

(* The threads the two invariants count. *)
Signalling == {p \in Producers : ppc[p] = "notify"}
AwakePushes == {p \in Producers : ppc[p] = "in"} \ not_full
AwakePops == {c \in Consumers : cpc[c] = "in"} \ not_empty

-----------------------------------------------------------------------------
(* Types. *)

LEMMA InitType == Init => TypeOK
BY LengthAssumption DEF Init, TypeOK

(* Pop takes the first element. *)
LEMMA TakeType ==
    ASSUME TypeOK, NEW c \in Consumers, Take(c)
    PROVE  /\ queue' \in Seq(Elements)
           /\ Len(queue') <= Len(queue)
           /\ cpc' \in [Consumers -> {"out", "in"}]
           /\ result' \in [Consumers -> Elements \cup {NoElement}]
           /\ not_full' \subseteq not_full
<1>1. /\ queue' \in Seq(Elements) /\ Head(queue) \in Elements
      /\ Len(queue') <= Len(queue)
  BY DEF TypeOK, Take
<1>2. not_full' \subseteq not_full
  BY DEF Take, NotifyNotFull, NotifyOne
<1> QED
  BY <1>1, <1>2 DEF TypeOK, Take

(* The type invariant is inductive. *)
LEMMA NextType == TypeOK /\ [Next]_vars => TypeOK'
<1> SUFFICES ASSUME TypeOK, [Next]_vars PROVE TypeOK'
  OBVIOUS
<1>1. ASSUME NEW p \in Producers, NEW e \in Elements, PushCall(p, e) PROVE TypeOK'
  BY <1>1, LengthAssumption DEF TypeOK, PushCall
<1>2. ASSUME NEW p \in Producers, Push(p) PROVE TypeOK'
  <2>1. CASE IsFull /\ not_full' = not_full \cup {p} /\ UNCHANGED <<queue, ppc>>
    BY <1>2, <2>1 DEF TypeOK, Push
  <2>2. CASE /\ ~IsFull
             /\ queue' = Append(queue, element[p])
             /\ ppc' = [ppc EXCEPT ![p] = "notify"]
             /\ UNCHANGED not_full
    <3>1. MaxLength # 0 => Len(queue') <= MaxLength
      BY <2>2, LengthAssumption DEF TypeOK, IsFull
    <3> QED
      BY <1>2, <2>2, <3>1 DEF TypeOK, Push
  <2> QED
    BY <1>2, <2>1, <2>2 DEF Push
<1>3. ASSUME NEW p \in Producers, PushNotify(p) PROVE TypeOK'
  <2>1. not_empty' \subseteq not_empty
    BY <1>3 DEF PushNotify, NotifyNotEmpty, NotifyOne
  <2> QED
    BY <1>3, <2>1 DEF TypeOK, PushNotify
<1>4. ASSUME NEW c \in Consumers, PopCall(c) PROVE TypeOK'
  BY <1>4 DEF TypeOK, PopCall
<1>5. ASSUME NEW c \in Consumers, PopTimed(c) PROVE TypeOK'
  <2>1. CASE not_empty' = not_empty \cup {c} /\ UNCHANGED <<queue, cpc, result, not_full>>
    BY <1>5, <2>1 DEF TypeOK, PopTimed
  <2>2. CASE Take(c) /\ UNCHANGED not_empty
    <3>1. MaxLength # 0 => Len(queue') <= MaxLength
      BY <2>2, TakeType, LengthAssumption DEF TypeOK
    <3> QED
      BY <1>5, <2>2, <3>1, TakeType DEF TypeOK, PopTimed, Take
  <2> QED
    BY <1>5, <2>1, <2>2 DEF PopTimed
<1>6. ASSUME NEW c \in Consumers, PopTimeout(c) PROVE TypeOK'
  <2>1. CASE Take(c)
    <3>1. MaxLength # 0 => Len(queue') <= MaxLength
      BY <2>1, TakeType, LengthAssumption DEF TypeOK
    <3> QED
      BY <1>6, <2>1, <3>1, TakeType DEF TypeOK, PopTimeout, Take
  <2>2. CASE /\ cpc' = [cpc EXCEPT ![c] = "out"]
             /\ result' = [result EXCEPT ![c] = NoElement]
             /\ UNCHANGED <<queue, not_full>>
    BY <1>6, <2>2 DEF TypeOK, PopTimeout
  <2> QED
    BY <1>6, <2>1, <2>2 DEF PopTimeout
<1>7. CASE SpuriousWakeup
  BY <1>7 DEF TypeOK, SpuriousWakeup
<1>8. CASE UNCHANGED vars
  BY <1>8 DEF TypeOK, vars
<1> QED
  BY <1>1, <1>2, <1>3, <1>4, <1>5, <1>6, <1>7, <1>8 DEF Next

(* The members of Queue<T> always hold values of their types, queue_ never   *)
(* exceeds max_length_, and only a thread that is inside Push() or           *)
(* PopTimed() sleeps (lines 31-95).                                          *)
THEOREM TypeCorrect == Spec => []TypeOK
<1> QED
  BY InitType, NextType, PTL DEF Spec

-----------------------------------------------------------------------------
(* Counting threads. *)

LEMMA CountType ==
    /\ IsFiniteSet(Signalling) /\ Cardinality(Signalling) \in Nat
    /\ IsFiniteSet(AwakePushes) /\ Cardinality(AwakePushes) \in Nat
    /\ IsFiniteSet(AwakePops) /\ Cardinality(AwakePops) \in Nat
<1>1. IsFiniteSet(Signalling) /\ IsFiniteSet(AwakePushes) /\ IsFiniteSet(AwakePops)
  <2>1. /\ Signalling \subseteq Producers /\ AwakePushes \subseteq Producers
        /\ AwakePops \subseteq Consumers
    BY DEF Signalling, AwakePushes, AwakePops
  <2> QED
    BY <2>1, SidesAssumption, FS_Subset
<1> QED
  BY <1>1, FS_CardinalityType

(* One more thread is about to signal or to look. *)
LEMMA OneMore ==
    ASSUME NEW S, IsFiniteSet(S), NEW x, x \notin S
    PROVE  Cardinality(S \cup {x}) = Cardinality(S) + 1
BY FS_AddElement

(* One less is. *)
LEMMA OneLess ==
    ASSUME NEW S, IsFiniteSet(S), NEW x \in S
    PROVE  Cardinality(S \ {x}) = Cardinality(S) - 1
BY FS_RemoveElement

-----------------------------------------------------------------------------
(* While a consumer sleeps, every element has someone on the way to take it. *)

LEMMA ElementsStep == TypeOK /\ NoSleepOnElements /\ [Next]_vars => NoSleepOnElements'
<1> SUFFICES ASSUME TypeOK, NoSleepOnElements, [Next]_vars, not_empty' # {}
             PROVE  Len(queue') <= Cardinality(Signalling') + Cardinality(AwakePops')
  BY DEF NoSleepOnElements, Signalling, AwakePops
<1> DEFINE n == Cardinality(Signalling)
           a == Cardinality(AwakePops)
<1>a. n \in Nat /\ a \in Nat /\ IsFiniteSet(Signalling) /\ IsFiniteSet(AwakePops)
  BY CountType
<1>b. Len(queue) \in Nat /\ (not_empty # {} => Len(queue) <= n + a)
  BY DEF TypeOK, NoSleepOnElements, Signalling, AwakePops
<1>1. ASSUME NEW p \in Producers, NEW e \in Elements, PushCall(p, e)
      PROVE  Len(queue') <= Cardinality(Signalling') + Cardinality(AwakePops')
  <2>1. Signalling' = Signalling /\ AwakePops' = AwakePops
    BY <1>1 DEF TypeOK, PushCall, Signalling, AwakePops
  <2> QED
    BY <1>1, <1>b, <2>1 DEF PushCall
<1>2. ASSUME NEW p \in Producers, Push(p)
      PROVE  Len(queue') <= Cardinality(Signalling') + Cardinality(AwakePops')
  <2>1. AwakePops' = AwakePops /\ not_empty' = not_empty
    BY <1>2 DEF Push, AwakePops
  <2>2. CASE UNCHANGED <<queue, ppc>>
    BY <1>b, <2>1, <2>2 DEF Signalling
  <2>3. CASE queue' = Append(queue, element[p]) /\ ppc' = [ppc EXCEPT ![p] = "notify"]
    <3>1. p \notin Signalling /\ Signalling' = Signalling \cup {p}
      BY <1>2, <2>3 DEF TypeOK, Push, Signalling
    <3>2. Len(queue') = Len(queue) + 1
      BY <2>3 DEF TypeOK
    <3>3. Cardinality(Signalling') = n + 1
      BY <1>a, <3>1, OneMore
    <3> QED
      BY <1>a, <1>b, <2>1, <3>2, <3>3
  <2> QED
    BY <1>2, <2>2, <2>3 DEF Push
<1>3. ASSUME NEW p \in Producers, PushNotify(p)
      PROVE  Len(queue') <= Cardinality(Signalling') + Cardinality(AwakePops')
  <2>1. p \in Signalling /\ Signalling' = Signalling \ {p} /\ queue' = queue
    BY <1>3 DEF TypeOK, PushNotify, Signalling
  <2>2. PICK s \in not_empty : not_empty' = not_empty \ {s}
    BY <1>3 DEF PushNotify, NotifyNotEmpty, NotifyOne
  <2>3. s \notin AwakePops /\ AwakePops' = AwakePops \cup {s}
    BY <1>3, <2>2 DEF TypeOK, PushNotify, AwakePops
  <2>4. Cardinality(Signalling') = n - 1 /\ Cardinality(AwakePops') = a + 1
    BY <1>a, <2>1, <2>3, OneMore, OneLess
  <2> QED
    BY <1>a, <1>b, <2>1, <2>2, <2>4
<1>4. ASSUME NEW c \in Consumers, PopCall(c)
      PROVE  Len(queue') <= Cardinality(Signalling') + Cardinality(AwakePops')
  <2>1. Signalling' = Signalling /\ queue' = queue /\ not_empty' = not_empty
    BY <1>4 DEF PopCall, Signalling
  <2>2. c \notin AwakePops /\ AwakePops' = AwakePops \cup {c}
    BY <1>4 DEF TypeOK, PopCall, AwakePops
  <2>3. Cardinality(AwakePops') = a + 1
    BY <1>a, <2>2, OneMore
  <2> QED
    BY <1>a, <1>b, <2>1, <2>3
<1>c. ASSUME NEW c \in Consumers, Take(c), cpc[c] = "in", not_empty' = not_empty \ {c},
             UNCHANGED <<ppc, element, pushes>>
      PROVE  Len(queue') <= Cardinality(Signalling') + Cardinality(AwakePops')
  <2>1. Signalling' = Signalling /\ Len(queue') = Len(queue) - 1
    BY <1>c DEF TypeOK, Take, Signalling
  <2>2. CASE c \in not_empty
    <3>1. AwakePops' = AwakePops
      BY <1>c, <2>2 DEF TypeOK, Take, AwakePops
    <3> QED
      BY <1>a, <1>b, <2>1, <2>2, <3>1
  <2>3. CASE c \notin not_empty
    <3>1. c \in AwakePops /\ AwakePops' = AwakePops \ {c}
      BY <1>c, <2>3 DEF TypeOK, Take, AwakePops
    <3>2. Cardinality(AwakePops') = a - 1
      BY <1>a, <3>1, OneLess
    <3> QED
      BY <1>a, <1>b, <1>c, <2>1, <3>2
  <2> QED
    BY <2>2, <2>3
<1>d. ASSUME queue' = <<>>
      PROVE  Len(queue') <= Cardinality(Signalling') + Cardinality(AwakePops')
  <2>1. Signalling' \in SUBSET Producers /\ AwakePops' \in SUBSET Consumers
    BY DEF Signalling, AwakePops
  <2>2. Cardinality(Signalling') \in Nat /\ Cardinality(AwakePops') \in Nat
    BY <2>1, SidesAssumption, FS_Subset, FS_CardinalityType
  <2> QED
    BY <1>d, <2>2
<1>5. ASSUME NEW c \in Consumers, PopTimed(c)
      PROVE  Len(queue') <= Cardinality(Signalling') + Cardinality(AwakePops')
  <2>1. CASE Take(c) /\ UNCHANGED not_empty
    BY <1>5, <1>c, <2>1 DEF PopTimed
  <2>2. CASE queue = <<>> /\ UNCHANGED queue
    BY <1>d, <2>2
  <2> QED
    BY <1>5, <2>1, <2>2 DEF PopTimed
<1>6. ASSUME NEW c \in Consumers, PopTimeout(c)
      PROVE  Len(queue') <= Cardinality(Signalling') + Cardinality(AwakePops')
  <2>1. CASE Take(c)
    BY <1>6, <1>c, <2>1 DEF PopTimeout
  <2>2. CASE queue = <<>> /\ UNCHANGED queue
    BY <1>d, <2>2
  <2> QED
    BY <1>6, <2>1, <2>2 DEF PopTimeout, MayFail
<1>7. ASSUME SpuriousWakeup
      PROVE  Len(queue') <= Cardinality(Signalling') + Cardinality(AwakePops')
  <2>1. Signalling' = Signalling /\ queue' = queue /\ cpc' = cpc
    BY <1>7 DEF SpuriousWakeup, Signalling
  <2>2. CASE \E s \in not_empty : not_empty' = not_empty \ {s}
    <3>1. PICK s \in not_empty : not_empty' = not_empty \ {s}
      BY <2>2
    <3>2. s \notin AwakePops /\ AwakePops' = AwakePops \cup {s}
      BY <2>1, <3>1 DEF TypeOK, AwakePops
    <3>3. Cardinality(AwakePops') = a + 1
      BY <1>a, <3>2, OneMore
    <3> QED
      BY <1>a, <1>b, <2>1, <3>1, <3>3
  <2>3. CASE UNCHANGED not_empty
    BY <1>b, <2>1, <2>3 DEF AwakePops
  <2> QED
    BY <1>7, <2>2, <2>3 DEF SpuriousWakeup
<1>8. CASE UNCHANGED vars
  BY <1>8, <1>b DEF vars, Signalling, AwakePops
<1> QED
  BY <1>1, <1>2, <1>3, <1>4, <1>5, <1>6, <1>7, <1>8 DEF Next

-----------------------------------------------------------------------------
(* While a producer sleeps, every free place has a producer awake to fill it. *)

LEMMA RoomStep == TypeOK /\ NoSleepOnRoom /\ [Next]_vars => NoSleepOnRoom'
<1> SUFFICES ASSUME TypeOK, NoSleepOnRoom, [Next]_vars, not_full' # {}
             PROVE  MaxLength - Len(queue') <= Cardinality(AwakePushes')
  BY DEF NoSleepOnRoom, AwakePushes
<1> DEFINE b == Cardinality(AwakePushes)
<1>a. b \in Nat /\ IsFiniteSet(AwakePushes) /\ MaxLength \in Nat
  BY CountType, LengthAssumption
<1>b. Len(queue) \in Nat /\ (not_full # {} => MaxLength - Len(queue) <= b)
  BY DEF TypeOK, NoSleepOnRoom, AwakePushes
<1>1. ASSUME NEW p \in Producers, NEW e \in Elements, PushCall(p, e)
      PROVE  MaxLength - Len(queue') <= Cardinality(AwakePushes')
  <2>1. p \notin AwakePushes /\ AwakePushes' = AwakePushes \cup {p}
    BY <1>1 DEF TypeOK, PushCall, AwakePushes
  <2>2. Cardinality(AwakePushes') = b + 1
    BY <1>a, <2>1, OneMore
  <2> QED
    BY <1>1, <1>a, <1>b, <2>2 DEF PushCall
<1>2. ASSUME NEW p \in Producers, Push(p)
      PROVE  MaxLength - Len(queue') <= Cardinality(AwakePushes')
  <2>1. CASE IsFull /\ UNCHANGED queue
    <3>1. AwakePushes' \in SUBSET Producers
      BY DEF AwakePushes
    <3>2. Cardinality(AwakePushes') \in Nat
      BY <3>1, SidesAssumption, FS_Subset, FS_CardinalityType
    <3> QED
      BY <1>a, <1>b, <2>1, <3>2 DEF IsFull
  <2>2. CASE /\ queue' = Append(queue, element[p]) /\ ppc' = [ppc EXCEPT ![p] = "notify"]
             /\ UNCHANGED not_full
    <3>1. p \in AwakePushes /\ AwakePushes' = AwakePushes \ {p}
      BY <1>2, <2>2 DEF TypeOK, Push, AwakePushes
    <3>2. Len(queue') = Len(queue) + 1
      BY <2>2 DEF TypeOK
    <3>3. Cardinality(AwakePushes') = b - 1
      BY <1>a, <3>1, OneLess
    <3> QED
      BY <1>a, <1>b, <2>2, <3>2, <3>3
  <2> QED
    BY <1>2, <2>1, <2>2 DEF Push
<1>3. ASSUME UNCHANGED <<queue, ppc, not_full>>
      PROVE  MaxLength - Len(queue') <= Cardinality(AwakePushes')
  BY <1>3, <1>b DEF AwakePushes
<1>4. ASSUME NEW p \in Producers, PushNotify(p)
      PROVE  MaxLength - Len(queue') <= Cardinality(AwakePushes')
  <2>1. AwakePushes' = AwakePushes
    BY <1>4 DEF TypeOK, PushNotify, AwakePushes
  <2> QED
    BY <1>4, <1>b, <2>1 DEF PushNotify
<1>c. ASSUME NEW c \in Consumers, Take(c), UNCHANGED ppc
      PROVE  MaxLength - Len(queue') <= Cardinality(AwakePushes')
  <2>1. Len(queue') = Len(queue) - 1
    BY <1>c DEF TypeOK, Take
  <2>2. PICK s \in not_full : not_full' = not_full \ {s}
    BY <1>c DEF Take, NotifyNotFull, NotifyOne
  <2>3. s \notin AwakePushes /\ AwakePushes' = AwakePushes \cup {s}
    BY <1>c, <2>2 DEF TypeOK, AwakePushes
  <2>4. Cardinality(AwakePushes') = b + 1
    BY <1>a, <2>3, OneMore
  <2> QED
    BY <1>a, <1>b, <2>1, <2>2, <2>4
<1>5. ASSUME NEW c \in Consumers, PopTimed(c) \/ PopTimeout(c)
      PROVE  MaxLength - Len(queue') <= Cardinality(AwakePushes')
  <2>1. UNCHANGED ppc /\ (Take(c) \/ UNCHANGED <<queue, not_full>>)
    BY <1>5 DEF PopTimed, PopTimeout
  <2> QED
    BY <1>3, <1>c, <2>1
<1>6. ASSUME SpuriousWakeup
      PROVE  MaxLength - Len(queue') <= Cardinality(AwakePushes')
  <2>1. queue' = queue /\ ppc' = ppc
    BY <1>6 DEF SpuriousWakeup
  <2>2. CASE \E s \in not_full : not_full' = not_full \ {s}
    <3>1. PICK s \in not_full : not_full' = not_full \ {s}
      BY <2>2
    <3>2. s \notin AwakePushes /\ AwakePushes' = AwakePushes \cup {s}
      BY <2>1, <3>1 DEF TypeOK, AwakePushes
    <3>3. Cardinality(AwakePushes') = b + 1
      BY <1>a, <3>2, OneMore
    <3> QED
      BY <1>a, <1>b, <2>1, <3>1, <3>3
  <2>3. CASE UNCHANGED not_full
    BY <1>3, <2>1, <2>3
  <2> QED
    BY <1>6, <2>2, <2>3 DEF SpuriousWakeup
<1>7. CASE \E c \in Consumers : PopCall(c)
  BY <1>7, <1>3 DEF PopCall
<1>8. CASE UNCHANGED vars
  BY <1>8, <1>3 DEF vars
<1> QED
  BY <1>1, <1>2, <1>4, <1>5, <1>6, <1>7, <1>8 DEF Next

(* Nobody sleeps on a queue that has what he waits for and nobody awake to   *)
(* take or fill it, whatever the number of threads, the limit, the timeouts  *)
(* and the spurious wakeups (lines 47, 79-84 and 92).                        *)
THEOREM NotificationsSufficeHolds == Spec => []NotificationsSuffice
<1>1. Init => NotificationsSuffice
  BY DEF Init, NotificationsSuffice, NoSleepOnElements, NoSleepOnRoom
<1>2. TypeOK /\ NotificationsSuffice /\ [Next]_vars => NotificationsSuffice'
  BY ElementsStep, RoomStep DEF NotificationsSuffice
<1> QED
  BY <1>1, <1>2, TypeCorrect, PTL DEF Spec

-----------------------------------------------------------------------------
(* The refinement. *)

(* A step that only changes who sleeps is invisible in the buffer. *)
LEMMA InvisibleStep ==
    ASSUME UNCHANGED <<queue, ppc, element, cpc, result>>
    PROVE  UNCHANGED Buffer!vars
BY DEF Buffer!vars

(* Take is that of the buffer. *)
LEMMA TakeRefines ==
    ASSUME TypeOK, NEW c \in Consumers, cpc[c] = "in", Take(c), UNCHANGED <<ppc, element>>
    PROVE  Buffer!Take(c)
BY DEF Take, Buffer!Take

(* Every step is one of the buffer or leaves it alone. *)
LEMMA RefinementStep == TypeOK /\ [Next]_vars => [Buffer!Next]_(Buffer!vars)
<1> SUFFICES ASSUME TypeOK, [Next]_vars PROVE Buffer!Next \/ UNCHANGED Buffer!vars
  OBVIOUS
<1>1. ASSUME NEW p \in Producers, NEW e \in Elements, PushCall(p, e)
      PROVE  Buffer!CallPush(p, e)
  BY <1>1 DEF TypeOK, PushCall, Buffer!CallPush
<1>2. ASSUME NEW p \in Producers, Push(p), ~UNCHANGED queue PROVE Buffer!Put(p)
  <2>1. /\ ~IsFull /\ ppc[p] = "in"
        /\ queue' = Append(queue, element[p]) /\ ppc' = [ppc EXCEPT ![p] = "notify"]
        /\ UNCHANGED <<element, cpc, result>>
    BY <1>2 DEF Push
  <2>2. Buffer!HasRoom
    BY <2>1, LengthAssumption DEF TypeOK, IsFull, Buffer!HasRoom
  <2> QED
    BY <2>1, <2>2 DEF TypeOK, Buffer!Put
<1>3. ASSUME NEW p \in Producers, Push(p), UNCHANGED queue PROVE UNCHANGED Buffer!vars
  <2>1. queue # Append(queue, element[p])
    BY DEF TypeOK
  <2> QED
    BY <1>3, <2>1, InvisibleStep DEF Push
<1>4. ASSUME NEW p \in Producers, PushNotify(p) PROVE Buffer!ReturnPush(p)
  BY <1>4 DEF TypeOK, PushNotify, Buffer!ReturnPush
<1>5. ASSUME NEW c \in Consumers, PopCall(c) PROVE Buffer!CallPop(c)
  BY <1>5 DEF PopCall, Buffer!CallPop
<1>6. ASSUME NEW c \in Consumers, PopTimed(c)
      PROVE  Buffer!Take(c) \/ UNCHANGED Buffer!vars
  BY <1>6, TakeRefines, InvisibleStep DEF PopTimed
<1>7. ASSUME NEW c \in Consumers, PopTimeout(c) PROVE Buffer!Take(c) \/ Buffer!Fail(c)
  <2>1. CASE Take(c)
    BY <1>7, <2>1, TakeRefines DEF PopTimeout
  <2>2. CASE ~Take(c)
    BY <1>7, <2>2 DEF PopTimeout, MayFail, Buffer!Fail
  <2> QED
    BY <2>1, <2>2
<1>8. CASE SpuriousWakeup \/ UNCHANGED vars
  BY <1>8, InvisibleStep DEF SpuriousWakeup, vars
<1> QED
  BY <1>1, <1>2, <1>3, <1>4, <1>5, <1>6, <1>7, <1>8 DEF Next, Buffer!Next

(* Queue<T> implements BoundedBuffer for any number of threads and any       *)
(* limit: every element pushed is taken at most once and in order, a push    *)
(* never exceeds the limit, and a pop fails only on an empty queue           *)
(* (lines 31-95).                                                            *)
THEOREM BufferImplemented == Spec => ImplementsBuffer
<1>1. Init => Buffer!Init
  BY DEF Init, Buffer!Init
<1> QED
  BY <1>1, TypeCorrect, RefinementStep, PTL DEF Spec, ImplementsBuffer, Buffer!Spec
=============================================================================
