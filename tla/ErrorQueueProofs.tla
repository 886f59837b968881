-------------------------- MODULE ErrorQueueProofs --------------------------
(***************************************************************************)
(* Theorems about the error queue, for a ring of any depth: type           *)
(* correctness, what a caller may expect of a descriptor that was handed   *)
(* out, that no message text is lost, and that the ring implements the     *)
(* bounded queue of ErrorQueueAbs.                                         *)
(***************************************************************************)
EXTENDS ErrorQueue, FiniteSetTheorems, SequenceTheorems, TLAPS

-----------------------------------------------------------------------------
\* Indices into the ring: those within its depth stand for themselves, those
\* of the next turn wrap around.
LEMMA ModWithin ==
  ASSUME NEW N \in Nat \ {0}, NEW a \in 0 .. N - 1 PROVE a % N = a
BY SMT

LEMMA ModWraps ==
  ASSUME NEW N \in Nat \ {0}, NEW a \in N .. 2 * N - 1 PROVE a % N = a - N
BY SMT

LEMMA ModRange ==
  ASSUME NEW N \in Nat \ {0}, NEW a \in Int PROVE a % N \in 0 .. N - 1
BY SMT

LEMMA ModSum ==
  ASSUME NEW N \in Nat \ {0}, NEW a \in 0 .. N - 1, NEW b \in 0 .. N
  PROVE  (a + b) % N = IF a + b < N THEN a + b ELSE a + b - N
<1>1. CASE a + b < N
  BY <1>1, ModWithin
<1>2. CASE ~(a + b < N)
  BY <1>2, ModWraps
<1> QED BY <1>1, <1>2

\* A slot is reached by wrapping at most once.
LEMMA SlotAtWraps ==
  ASSUME first \in Slots, NEW n \in 0 .. MaxDepth
  PROVE  SlotAt(n) = IF first + n < MaxDepth THEN first + n ELSE first + n - MaxDepth
BY ModSum, MaxDepthAssumption DEF SlotAt, Slots

LEMMA SlotAtInSlots ==
  ASSUME first \in Slots, NEW n \in 0 .. MaxDepth PROVE SlotAt(n) \in Slots
BY MaxDepthAssumption, ModRange DEF SlotAt, Slots

\* Different places of the window are different slots.
LEMMA SlotAtInjective ==
  ASSUME first \in Slots, NEW m \in 0 .. MaxDepth - 1, NEW n \in 0 .. MaxDepth - 1, m # n
  PROVE  SlotAt(m) # SlotAt(n)
BY SlotAtWraps, MaxDepthAssumption DEF Slots

LEMMA LastSlotIsSlotAt ==
  ASSUME first \in Slots, count \in 1 .. MaxDepth
  PROVE  LastSlot = SlotAt(count - 1)
BY MaxDepthAssumption DEF LastSlot, SlotAt, Slots

\* Advancing `first` by one shifts the window by one place.
LEMMA SlotAtShift ==
  ASSUME TypeOK, first' = SlotAt(1), NEW n \in 0 .. MaxDepth - 1
  PROVE  SlotAt(n)' = SlotAt(n + 1)
<1> USE MaxDepthAssumption
<1>1. first \in Slots /\ n + 1 \in 0 .. MaxDepth /\ 1 \in 0 .. MaxDepth
  BY DEF TypeOK
<1>2. SlotAt(n)' = (first' + n) % MaxDepth
  BY DEF SlotAt
<1>3. first' = IF first + 1 < MaxDepth THEN first + 1 ELSE first + 1 - MaxDepth
  BY <1>1, SlotAtWraps
<1>4. SlotAt(n + 1) = IF first + (n + 1) < MaxDepth
                        THEN first + (n + 1) ELSE first + (n + 1) - MaxDepth
  BY <1>1, SlotAtWraps
<1>5. first' \in 0 .. MaxDepth - 1
  BY <1>1, <1>3 DEF Slots
<1>6. (first' + n) % MaxDepth
        = IF first' + n < MaxDepth THEN first' + n ELSE first' + n - MaxDepth
  <2>1. \A a \in 0 .. MaxDepth - 1 :
          (a + n) % MaxDepth = IF a + n < MaxDepth THEN a + n ELSE a + n - MaxDepth
    <3>1. n \in 0 .. MaxDepth
      OBVIOUS
    <3> QED BY <3>1, ModSum
  <2> QED BY <1>5, <2>1
<1> QED BY <1>1, <1>2, <1>3, <1>4, <1>5, <1>6 DEF Slots

LEMMA TextsInType ==
  ASSUME NEW S, S \subseteq Slots
  PROVE  TextsIn(S) \in Nat
<1>1. IsFiniteSet(Slots)
  BY FS_Interval, MaxDepthAssumption DEF Slots
<1>2. {i \in S : errors[i].message = Text} \subseteq Slots
  OBVIOUS
<1> QED BY <1>1, <1>2, FS_Subset, FS_CardinalityType DEF TextsIn

LEMMA SlotGetType ==
  ASSUME TypeOK
  PROVE  /\ SlotGet.slot \in Slots
         /\ SlotGet.first \in Slots
         /\ SlotGet.count \in 1 .. MaxDepth
BY SlotAtInSlots, MaxDepthAssumption DEF SlotGet, TypeOK, Slots

-----------------------------------------------------------------------------
LEMMA Typing == TypeOK /\ [Next]_vars => TypeOK'
<1> SUFFICES ASSUME TypeOK, [Next]_vars PROVE TypeOK'
  OBVIOUS
<1> USE MaxDepthAssumption
<1>1. ASSUME NEW r \in Reasons, NEW m \in {Text, NoText}, Raise(r, m) PROVE TypeOK'
  <2> DEFINE taken == SlotGet
  <2>1. taken.slot \in Slots /\ taken.first \in Slots /\ taken.count \in 1 .. MaxDepth
    BY SlotGetType
  <2>2. errors' \in [Slots -> Descriptors \cup {EmptySlot}]
    BY <1>1, <2>1 DEF Raise, TypeOK, Descriptors
  <2>3. messages' \in Int
    BY <1>1, <2>1, TextsInType DEF Raise, TypeOK
  <2>4. first' \in Slots /\ count' \in 0 .. MaxDepth /\ handed' = {}
    BY <1>1, <2>1 DEF Raise
  <2> QED BY <2>2, <2>3, <2>4 DEF TypeOK, Slots
<1>2. CASE GetFirst
  BY <1>2, SlotAtInSlots DEF GetFirst, TypeOK, Slots
<1>3. CASE GetLast
  <2>1. LastSlot \in Slots
    BY <1>3, ModRange DEF GetLast, LastSlot, TypeOK, Slots
  <2> QED BY <1>3, <2>1 DEF GetLast, TypeOK, Slots
<1>4. CASE Clear
  BY <1>4, TextsInType DEF Clear, TypeOK, Slots
<1>5. CASE UNCHANGED vars
  BY <1>5 DEF TypeOK, vars, Slots
<1> QED BY <1>1, <1>2, <1>3, <1>4, <1>5 DEF Next

\* The queue is well formed in every state, for a ring of any depth.
THEOREM TypeCorrect == Spec => []TypeOK
<1>1. Init => TypeOK
  BY MaxDepthAssumption DEF Init, TypeOK, Slots
<1> QED BY <1>1, Typing, PTL DEF Spec

-----------------------------------------------------------------------------
\* Descriptors that were handed out stay apart from the pending ones, which is
\* why nothing but a raise can touch them: the two parts go together.

LEMMA HandedOutStep == TypeOK /\ HandedOut /\ [Next]_vars => HandedOut'
<1> SUFFICES ASSUME TypeOK, HandedOut, [Next]_vars PROVE HandedOut'
  OBVIOUS
<1> USE MaxDepthAssumption
<1>1. ASSUME NEW r \in Reasons, NEW m \in {Text, NoText}, Raise(r, m) PROVE HandedOut'
  BY <1>1 DEF Raise, HandedOut, HandedOutIntact, HandedOutNotPending
<1>2. CASE GetFirst
  <2>1. HandedOutIntact'
    BY <1>2 DEF GetFirst, HandedOut, HandedOutIntact
  <2>2. SUFFICES ASSUME NEW h \in handed', NEW n \in 0 .. count' - 1
                 PROVE  h.slot # SlotAt(n)'
    BY <2>1 DEF HandedOut, HandedOutNotPending
  <2>3. /\ n + 1 \in 1 .. count - 1 /\ count \in 1 .. MaxDepth
        /\ first \in Slots /\ first' = SlotAt(1) /\ SlotAt(1) \in Slots
    BY <1>2, SlotAtInSlots DEF GetFirst, TypeOK
  <2>4. SlotAt(n)' = SlotAt(n + 1)
    BY <1>2, <2>3, SlotAtShift
  <2>5. first = SlotAt(0)
    BY <2>3, ModWithin DEF SlotAt, Slots
  <2>6. CASE h \in handed
    BY <2>3, <2>4, <2>6 DEF HandedOut, HandedOutNotPending
  <2>7. CASE h.slot = first
    BY <2>3, <2>4, <2>5, <2>7, SlotAtInjective
  <2> QED BY <1>2, <2>6, <2>7 DEF GetFirst
<1>3. CASE GetLast
  <2>1. HandedOutIntact'
    BY <1>3 DEF GetLast, HandedOut, HandedOutIntact
  <2>2. SUFFICES ASSUME NEW h \in handed', NEW n \in 0 .. count' - 1
                 PROVE  h.slot # SlotAt(n)'
    BY <2>1 DEF HandedOut, HandedOutNotPending
  <2>3. /\ n \in 0 .. count - 2 /\ count \in 1 .. MaxDepth /\ first \in Slots
        /\ SlotAt(n)' = SlotAt(n)
    BY <1>3 DEF GetLast, TypeOK, SlotAt
  <2>4. CASE h \in handed
    BY <2>3, <2>4 DEF HandedOut, HandedOutNotPending
  <2>5. CASE h.slot = LastSlot
    BY <2>3, <2>5, LastSlotIsSlotAt, SlotAtInjective
  <2> QED BY <1>3, <2>4, <2>5 DEF GetLast
<1>4. CASE Clear
  BY <1>4 DEF Clear, HandedOut, HandedOutIntact, HandedOutNotPending
<1>5. CASE UNCHANGED vars
  BY <1>5 DEF vars, HandedOut, HandedOutIntact, HandedOutNotPending, SlotAt
<1> QED BY <1>1, <1>2, <1>3, <1>4, <1>5 DEF Next

\* A descriptor that dmi_error_get_first or dmi_error_get_last handed out keeps
\* its contents until the next raise or clear and is never handed out twice, for
\* a ring of any depth.
THEOREM HandedOutStaysIntact == Spec => []HandedOut
<1>1. Init => HandedOut
  BY DEF Init, HandedOut, HandedOutIntact, HandedOutNotPending
<1> QED BY <1>1, HandedOutStep, TypeCorrect, PTL DEF Spec

-----------------------------------------------------------------------------
\* The slots that hold a text, after one of them has been filled anew.
LEMMA TextsAfterFill ==
  ASSUME TypeOK, NEW t \in Slots, NEW r \in Reasons, NEW m \in {Text, NoText},
         errors' = [errors EXCEPT ![t] = [reason |-> r, message |-> m]]
  PROVE  TextsIn(Slots)' = TextsIn(Slots) - TextsIn({t}) + (IF m = Text THEN 1 ELSE 0)
<1> DEFINE Old == {i \in Slots : errors[i].message = Text}
           New == {i \in Slots : errors'[i].message = Text}
           Kept == Old \ {t}
<1>1. IsFiniteSet(Slots) /\ IsFiniteSet(Old) /\ IsFiniteSet(Kept)
  <2>1. IsFiniteSet(Slots)
    BY FS_Interval, MaxDepthAssumption DEF Slots
  <2>2. Old \subseteq Slots /\ Kept \subseteq Slots
    OBVIOUS
  <2> QED BY <2>1, <2>2, FS_Subset
<1>2. Cardinality(Kept) = Cardinality(Old) - (IF t \in Old THEN 1 ELSE 0)
  <2>0. Cardinality(Old) \in Nat
    BY <1>1, FS_CardinalityType
  <2> HIDE DEF Old
  <2>1. CASE t \in Old
    BY <1>1, <2>1, FS_RemoveElement
  <2>2. CASE t \notin Old
    <3>1. Kept = Old
      BY <2>2
    <3> HIDE DEF Kept
    <3> QED BY <2>0, <2>2, <3>1
  <2> QED BY <2>1, <2>2
<1>3. TextsIn({t}) = IF t \in Old THEN 1 ELSE 0
  <2>1. CASE t \in Old
    <3>1. {i \in {t} : errors[i].message = Text} = {t}
      BY <2>1
    <3> QED BY <2>1, <3>1, FS_Singleton DEF TextsIn
  <2>2. CASE t \notin Old
    <3>1. {i \in {t} : errors[i].message = Text} = {}
      BY <2>2
    <3> QED BY <2>2, <3>1, FS_EmptySet DEF TextsIn
  <2> QED BY <2>1, <2>2
<1>4. \A i \in Slots : errors'[i].message = IF i = t THEN m ELSE errors[i].message
  BY DEF TypeOK
<1>5. Cardinality(New) = Cardinality(Kept) + (IF m = Text THEN 1 ELSE 0)
  <2>1. CASE m = Text
    <3>1. New = Kept \cup {t}
      BY <1>4, <2>1
    <3> QED BY <1>1, <2>1, <3>1, FS_AddElement
  <2>2. CASE m # Text
    <3>1. New = Kept
      BY <1>4, <2>2
    <3>2. Cardinality(Kept) \in Nat
      BY <1>1, FS_CardinalityType
    <3> HIDE DEF New, Kept
    <3> QED BY <2>2, <3>1, <3>2
  <2> QED BY <2>1, <2>2
<1>6. TextsIn(Slots) = Cardinality(Old) /\ TextsIn(Slots)' = Cardinality(New)
  BY DEF TextsIn, Slots
<1>7. Cardinality(Old) \in Nat /\ Cardinality(Kept) \in Nat
  BY <1>1, FS_CardinalityType
<1> HIDE DEF Old, New, Kept
<1> QED BY <1>2, <1>3, <1>5, <1>6, <1>7

LEMMA NoTextsInEmptySlots ==
  ASSUME errors = [i \in Slots |-> EmptySlot]
  PROVE  TextsIn(Slots) = 0
<1>1. {i \in Slots : errors[i].message = Text} = {}
  BY ReasonAssumption DEF EmptySlot
<1> QED BY <1>1, FS_EmptySet DEF TextsIn

LEMMA NoMessageLeakStep == TypeOK /\ NoMessageLeak /\ [Next]_vars => NoMessageLeak'
<1> SUFFICES ASSUME TypeOK, NoMessageLeak, [Next]_vars PROVE NoMessageLeak'
  OBVIOUS
<1>1. ASSUME NEW r \in Reasons, NEW m \in {Text, NoText}, Raise(r, m)
      PROVE  NoMessageLeak'
  <2>1. SlotGet.slot \in Slots
    BY SlotGetType
  <2> QED BY <1>1, <2>1, TextsAfterFill, SlotGetType DEF Raise, NoMessageLeak
<1>2. CASE GetFirst \/ GetLast \/ UNCHANGED vars
  <2>1. errors' = errors /\ messages' = messages
    BY <1>2 DEF GetFirst, GetLast, vars
  <2> QED BY <2>1 DEF NoMessageLeak, TextsIn, Slots
<1>3. CASE Clear
  <2>1. TextsIn(Slots)' = 0
    <3>1. {i \in Slots : errors'[i].message = Text} = {}
      BY <1>3, ReasonAssumption DEF Clear, EmptySlot
    <3> QED BY <3>1, FS_EmptySet DEF TextsIn, Slots
  <2>2. TextsIn(Slots) \in Nat
    BY TextsInType
  <2> QED BY <1>3, <2>1, <2>2 DEF Clear, NoMessageLeak
<1> QED BY <1>1, <1>2, <1>3 DEF Next

\* Every message text that is allocated belongs to exactly one slot of the
\* ring, so overwriting the oldest error and clearing the queue lose none.
THEOREM NoMessageIsLost == Spec => []NoMessageLeak
<1>1. Init => NoMessageLeak
  BY NoTextsInEmptySlots DEF Init, NoMessageLeak
<1> QED BY <1>1, NoMessageLeakStep, TypeCorrect, PTL DEF Spec

-----------------------------------------------------------------------------
\* The window of the ring as a sequence.
PendingFacts == /\ Pending \in Seq(Descriptors \cup {EmptySlot})
                /\ Len(Pending) = count
                /\ \A i \in 1 .. count : Pending[i] = errors[SlotAt(i - 1)]

LEMMA PendingIsSeq == TypeOK => PendingFacts
<1> SUFFICES ASSUME TypeOK PROVE PendingFacts
  OBVIOUS
<1>1. \A i \in 1 .. count : SlotAt(i - 1) \in Slots
  BY SlotAtInSlots, MaxDepthAssumption DEF TypeOK
<1>2. Pending \in [1 .. count -> Descriptors \cup {EmptySlot}]
  BY <1>1 DEF TypeOK, Pending
<1> QED BY <1>2, MaxDepthAssumption DEF TypeOK, Pending, PendingFacts

\* Before and after a step.
LEMMA PendingIsSeqStep == TypeOK /\ [Next]_vars => PendingFacts /\ PendingFacts'
BY PendingIsSeq, Typing, PTL

LEMMA RaiseImplements ==
  ASSUME TypeOK, NEW r \in Reasons, NEW m \in {Text, NoText}, Raise(r, m)
  PROVE  Abs!Raise
<1> DEFINE V == Descriptors \cup {EmptySlot}
           e == [reason |-> r, message |-> m]
<1> USE MaxDepthAssumption
<1>1. e \in Descriptors /\ e \in V
  BY DEF Descriptors
<1>2. Pending \in Seq(V) /\ Len(Pending) = count /\ first \in Slots
  BY PendingIsSeq DEF PendingFacts, TypeOK
<1>3. \A i \in 1 .. count : Pending[i] = errors[SlotAt(i - 1)]
  BY PendingIsSeq DEF PendingFacts
<1>4. /\ Pending' \in Seq(V) /\ Len(Pending') = count'
      /\ \A i \in 1 .. count' : Pending'[i] = errors'[SlotAt(i - 1)']
  BY PendingIsSeqStep DEF PendingFacts, Next
<1>5. CASE count = MaxDepth
  <2>1. /\ errors' = [errors EXCEPT ![first] = e]
        /\ first' = SlotAt(1) /\ count' = MaxDepth
    BY <1>5 DEF Raise, SlotGet
  <2>2. Pending # <<>> /\ Tail(Pending) \in Seq(V) /\ Len(Tail(Pending)) = MaxDepth - 1
    BY <1>2, <1>5
  <2>3. \A i \in 1 .. MaxDepth - 1 : Tail(Pending)[i] = errors[SlotAt(i)]
    BY <1>2, <1>3, <1>5, <2>2
  <2>4. \A i \in 1 .. MaxDepth - 1 : Pending'[i] = Tail(Pending)[i]
    <3> SUFFICES ASSUME NEW i \in 1 .. MaxDepth - 1
                 PROVE  Pending'[i] = Tail(Pending)[i]
      OBVIOUS
    <3>1. SlotAt(i - 1)' = SlotAt(i)
      BY <2>1, SlotAtShift
    <3>2. SlotAt(i) \in Slots /\ SlotAt(i) # SlotAt(0) /\ SlotAt(0) = first
      <4>1. SlotAt(0) = first
        BY <1>2, ModWithin DEF SlotAt, Slots
      <4>2. SlotAt(i) \in Slots
        BY <1>2, SlotAtInSlots
      <4> QED BY <1>2, <4>1, <4>2, SlotAtInjective
    <3>3. errors'[SlotAt(i)] = errors[SlotAt(i)]
      BY <2>1, <3>2 DEF TypeOK
    <3>4. Pending'[i] = errors'[SlotAt(i - 1)']
      BY <1>4, <2>1
    <3>5. Tail(Pending)[i] = errors[SlotAt(i)]
      BY <2>3
    <3> QED BY <3>1, <3>3, <3>4, <3>5
  <2>5. Pending'[MaxDepth] = e
    <3>1. SlotAt(MaxDepth - 1)' = first
      BY <1>2, <2>1, SlotAtShift, SlotAtWraps DEF Slots
    <3> QED BY <1>2, <1>4, <2>1, <3>1 DEF TypeOK
  <2>6. Pending' = Append(Tail(Pending), e)
    BY <1>1, <1>4, <2>1, <2>2, <2>4, <2>5
  <2> QED BY <1>1, <1>2, <1>5, <2>6 DEF Abs!Raise
<1>6. CASE count # MaxDepth
  <2>1. /\ errors' = [errors EXCEPT ![SlotAt(count)] = e]
        /\ first' = first /\ count' = count + 1
        /\ count \in 0 .. MaxDepth - 1
    BY <1>6 DEF Raise, SlotGet, TypeOK
  <2>2. \A n \in 0 .. MaxDepth : SlotAt(n)' = SlotAt(n)
    BY <2>1 DEF SlotAt
  <2>3. \A i \in 1 .. count : Pending'[i] = Pending[i]
    <3> SUFFICES ASSUME NEW i \in 1 .. count PROVE Pending'[i] = Pending[i]
      OBVIOUS
    <3>1. SlotAt(i - 1) \in Slots /\ SlotAt(i - 1) # SlotAt(count)
      BY <1>2, <2>1, SlotAtInSlots, SlotAtInjective
    <3>2. errors'[SlotAt(i - 1)] = errors[SlotAt(i - 1)]
      BY <2>1, <3>1 DEF TypeOK
    <3> QED BY <1>3, <1>4, <2>1, <2>2, <3>2
  <2>4. Pending'[count + 1] = e
    <3>1. SlotAt(count) \in Slots
      BY <1>2, <2>1, SlotAtInSlots
    <3> QED BY <1>4, <2>1, <2>2, <3>1 DEF TypeOK
  <2>5. Pending' = Append(Pending, e)
    BY <1>1, <1>2, <1>4, <2>1, <2>3, <2>4
  <2> QED BY <1>1, <1>2, <1>6, <2>5 DEF Abs!Raise
<1> QED BY <1>5, <1>6

LEMMA GetFirstImplements == ASSUME TypeOK, GetFirst PROVE Abs!GetFirst
<1> DEFINE V == Descriptors \cup {EmptySlot}
<1> USE MaxDepthAssumption
<1>1. /\ Pending \in Seq(V) /\ Len(Pending) = count
      /\ \A i \in 1 .. count : Pending[i] = errors[SlotAt(i - 1)]
  BY PendingIsSeq DEF PendingFacts
<1>2. /\ Pending' \in Seq(V) /\ Len(Pending') = count'
      /\ \A i \in 1 .. count' : Pending'[i] = errors'[SlotAt(i - 1)']
  BY PendingIsSeqStep DEF PendingFacts, Next
<1>3. /\ count \in 1 .. MaxDepth /\ count' = count - 1
      /\ errors' = errors /\ first' = SlotAt(1)
  BY DEF GetFirst, TypeOK
<1>4. Pending # <<>> /\ Tail(Pending) \in Seq(V) /\ Len(Tail(Pending)) = count - 1
  BY <1>1, <1>3
<1>5. \A i \in 1 .. count - 1 : Pending'[i] = Tail(Pending)[i]
  <2> SUFFICES ASSUME NEW i \in 1 .. count - 1 PROVE Pending'[i] = Tail(Pending)[i]
    OBVIOUS
  <2>1. SlotAt(i - 1)' = SlotAt(i)
    BY <1>3, SlotAtShift
  <2>2. Tail(Pending)[i] = errors[SlotAt(i)]
    BY <1>1, <1>3, <1>4
  <2> QED BY <1>2, <1>3, <2>1, <2>2
<1>6. Pending' = Tail(Pending)
  BY <1>2, <1>3, <1>4, <1>5, SeqEqual
<1> QED BY <1>4, <1>6 DEF Abs!GetFirst

LEMMA GetLastImplements == ASSUME TypeOK, GetLast PROVE Abs!GetLast
<1> DEFINE V == Descriptors \cup {EmptySlot}
<1> USE MaxDepthAssumption
<1>1. /\ Pending \in Seq(V) /\ Len(Pending) = count
      /\ \A i \in 1 .. count : Pending[i] = errors[SlotAt(i - 1)]
  BY PendingIsSeq DEF PendingFacts
<1>2. /\ Pending' \in Seq(V) /\ Len(Pending') = count'
      /\ \A i \in 1 .. count' : Pending'[i] = errors'[SlotAt(i - 1)']
  BY PendingIsSeqStep DEF PendingFacts, Next
<1>3. /\ count \in 1 .. MaxDepth /\ count' = count - 1
      /\ errors' = errors /\ first' = first
  BY DEF GetLast, TypeOK
<1>4. \A i \in 1 .. count - 1 : Pending'[i] = Pending[i]
  <2> SUFFICES ASSUME NEW i \in 1 .. count - 1 PROVE Pending'[i] = Pending[i]
    OBVIOUS
  <2>1. SlotAt(i - 1)' = SlotAt(i - 1)
    BY <1>3 DEF SlotAt
  <2> QED BY <1>1, <1>2, <1>3, <2>1
<1>5. Pending' = SubSeq(Pending, 1, Len(Pending) - 1)
  <2>1. /\ SubSeq(Pending, 1, count - 1) \in Seq(V)
        /\ Len(SubSeq(Pending, 1, count - 1)) = count - 1
        /\ \A i \in 1 .. count - 1 : SubSeq(Pending, 1, count - 1)[i] = Pending[i]
    BY <1>1, <1>3, SubSeqProperties
  <2> QED BY <1>1, <1>2, <1>3, <1>4, <2>1, SeqEqual
<1>6. Pending # <<>>
  BY <1>1, <1>3
<1> QED BY <1>5, <1>6 DEF Abs!GetLast

\* The ring implements the bounded queue: every operation of error.c is an
\* operation of ErrorQueueAbs on the errors that are pending.
THEOREM RingImplementsQueue == Spec => Implements
<1>1. Init => Abs!Init
  BY DEF Init, Abs!Init, Pending
<1>2. TypeOK /\ [Next]_vars => [Abs!Next]_Pending
  <2> SUFFICES ASSUME TypeOK, [Next]_vars PROVE [Abs!Next]_Pending
    OBVIOUS
  <2>1. ASSUME NEW r \in Reasons, NEW m \in {Text, NoText}, Raise(r, m)
        PROVE  Abs!Next
    BY <2>1, RaiseImplements DEF Abs!Next
  <2>2. CASE GetFirst
    BY <2>2, GetFirstImplements DEF Abs!Next
  <2>3. CASE GetLast
    BY <2>3, GetLastImplements DEF Abs!Next
  <2>4. CASE Clear
    BY <2>4 DEF Clear, Pending, Abs!Clear, Abs!Next
  <2>5. CASE UNCHANGED vars
    BY <2>5 DEF vars, Pending, SlotAt
  <2> QED BY <2>1, <2>2, <2>3, <2>4, <2>5 DEF Next
<1> QED BY <1>1, <1>2, TypeCorrect, PTL DEF Spec, Implements, Abs!Spec
=============================================================================
