--------------------------- MODULE KeyQueueProofs ---------------------------
(***************************************************************************)
(* Proofs about the ring buffer for every capacity and every set of keys.  *)
(***************************************************************************)
EXTENDS KeyQueue, SequenceTheorems, TLAPS

N == KEYPAD_EFI_KEY_MAX_COUNT

\* The modulo of the source is a wrap of the last slot onto slot 0.
LEMMA SlotAfterWraps ==
    ASSUME NEW s \in Slots
    PROVE  /\ SlotAfter(s) = IF s = N - 1 THEN 0 ELSE s + 1
           /\ SlotAfter(s) \in Slots
<1> USE SizeAssumption
<1>1. CASE s = N - 1
    BY <1>1 DEF SlotAfter, Slots, N
<1>2. CASE s # N - 1
    BY <1>2 DEF SlotAfter, Slots, N
<1>3. QED
    BY <1>1, <1>2

Values == Keys \cup {ZeroKey}

LEMMA ContentIsSeq ==
    ASSUME TypeOK
    PROVE  /\ Count \in 0 .. N - 1
           /\ \A i \in 1 .. Count : Slot(i) \in Slots
           /\ Content \in Seq(Values)
           /\ Len(Content) = Count
           /\ \A i \in 1 .. Count : Content[i] = buffer[Slot(i)]
<1> USE SizeAssumption
<1>1. Count \in 0 .. N - 1
    BY DEF TypeOK, Count, Slots, N
<1>2. \A i \in 1 .. Count : Slot(i) \in Slots
    BY DEF TypeOK, Count, Slot, Slots, N
<1>3. \A i \in 1 .. Count : buffer[Slot(i)] \in Values
    BY <1>2 DEF TypeOK, Values
<1>4. Content \in Seq(Values) /\ Len(Content) = Count
    BY <1>1, <1>3 DEF Content
<1>5. \A i \in 1 .. Count : Content[i] = buffer[Slot(i)]
    BY DEF Content
<1>6. QED
    BY <1>1, <1>2, <1>4, <1>5

\* The ring is full exactly when it holds one key less than it has slots.
LEMMA FullIsCapacity ==
    ASSUME TypeOK
    PROVE  /\ IsEfikeyBufFull <=> Count = N - 1
           /\ IsEfikeyBufEmpty <=> Count = 0
<1> USE SizeAssumption
<1>1. SlotAfter(tail) = IF tail = N - 1 THEN 0 ELSE tail + 1
    BY SlotAfterWraps DEF TypeOK
<1>2. QED
    BY <1>1 DEF TypeOK, IsEfikeyBufFull, IsEfikeyBufEmpty, Count, Slots, N

\* The invariant: types, and pending slots that were all written.
IInv == TypeOK /\ PendingArePushed

LEMMA InitIInv == Init => IInv
BY SizeAssumption DEF Init, IInv, TypeOK, PendingArePushed, Slots, Count

-----------------------------------------------------------------------------
\* How each operation changes the pending keys.
LEMMA PopContent ==
    ASSUME IInv, ~ IsEfikeyBufEmpty, PopEfikeyBufHead
    PROVE  /\ Count' = Count - 1
           /\ \A i \in 1 .. Count' : Slot(i)' = Slot(i + 1)
           /\ popped' = buffer[Slot(1)]
           /\ TypeOK'
<1> USE SizeAssumption DEF IInv
<1>1. head' = (IF head = N - 1 THEN 0 ELSE head + 1) /\ head' \in Slots
    BY SlotAfterWraps DEF TypeOK, PopEfikeyBufHead
<1>2. Count' = Count - 1
    BY <1>1 DEF TypeOK, PopEfikeyBufHead, IsEfikeyBufEmpty, Count, Slots, N
<1>3. \A i \in 1 .. Count' : Slot(i)' = Slot(i + 1)
    BY <1>1, <1>2, ContentIsSeq DEF TypeOK, Slot, Slots, N
<1>4. Slot(1) = head /\ popped' = buffer[Slot(1)]
    BY DEF TypeOK, PopEfikeyBufHead, Slot, Slots
<1>5. popped' \in Keys
    BY <1>4, FullIsCapacity, ContentIsSeq DEF PendingArePushed
<1>6. TypeOK'
    BY <1>1, <1>5 DEF TypeOK, PopEfikeyBufHead
<1>7. QED
    BY <1>2, <1>3, <1>4, <1>6

LEMMA PushContent ==
    ASSUME IInv, NEW k \in Keys, PushEfikeyBufTail(k)
    PROVE  LET lost == IF Count = N - 1 THEN 1 ELSE 0
           IN  /\ Count' = Count + 1 - lost
               /\ \A i \in 1 .. Count' - 1 : /\ Slot(i)' = Slot(i + lost)
                                             /\ Slot(i)' # tail
               /\ Slot(Count)' = tail
               /\ TypeOK'
<1> USE SizeAssumption DEF IInv
<1> DEFINE lost == IF Count = N - 1 THEN 1 ELSE 0
<1>1. tail' = (IF tail = N - 1 THEN 0 ELSE tail + 1) /\ tail' \in Slots
    BY SlotAfterWraps DEF TypeOK, PushEfikeyBufTail
<1>2. IsEfikeyBufFull <=> Count = N - 1
    BY FullIsCapacity
<1>3. /\ head' = IF Count # N - 1 THEN head
                 ELSE IF head = N - 1 THEN 0 ELSE head + 1
      /\ head' \in Slots
    BY <1>2, SlotAfterWraps DEF TypeOK, PushEfikeyBufTail
<1>4. Count' = Count + 1 - lost
    BY <1>1, <1>3 DEF TypeOK, Count, Slots, N
<1>5. \A i \in 1 .. Count' - 1 : Slot(i)' = Slot(i + lost) /\ Slot(i)' # tail
    BY <1>1, <1>3, <1>4 DEF TypeOK, Slot, Count, Slots, N
<1>6. Slot(Count)' = tail
    BY <1>1, <1>3, <1>4 DEF TypeOK, Slot, Count, Slots, N
<1>7. TypeOK'
    BY <1>1, <1>3 DEF TypeOK, PushEfikeyBufTail
<1>8. QED
    BY <1>4, <1>5, <1>6, <1>7

LEMMA StepIInv == IInv /\ [Next]_vars => IInv'
<1> SUFFICES ASSUME IInv, [Next]_vars
             PROVE  IInv'
    OBVIOUS
<1> USE SizeAssumption DEF IInv
<1>1. ASSUME NEW k \in Keys, PushEfikeyBufTail(k)
      PROVE  IInv'
    <2> DEFINE lost == IF Count = N - 1 THEN 1 ELSE 0
    <2>1. buffer' = [buffer EXCEPT ![tail] = k] /\ tail \in Slots
        BY <1>1 DEF PushEfikeyBufTail, TypeOK
    <2>2. Count \in 0 .. N - 1 /\ \A i \in 1 .. Count : Slot(i) \in Slots
        BY ContentIsSeq
    <2>3. /\ Count' = Count + 1 - lost
          /\ \A i \in 1 .. Count' - 1 : Slot(i)' = Slot(i + lost) /\ Slot(i)' # tail
          /\ Slot(Count)' = tail
          /\ TypeOK'
        BY <1>1, PushContent
    <2>4. ASSUME NEW i \in 1 .. Count' - 1
          PROVE  buffer'[Slot(i)'] \in Keys
        <3>1. i + lost \in 1 .. Count
            BY <2>2, <2>3 DEF N
        <3>2. buffer'[Slot(i)'] = buffer[Slot(i + lost)]
            BY <2>1, <2>2, <2>3, <3>1 DEF TypeOK
        <3>3. QED
            BY <3>1, <3>2 DEF PendingArePushed
    <2>5. buffer'[Slot(Count)'] \in Keys
        BY <2>1, <2>3 DEF TypeOK
    <2>6. PendingArePushed'
        BY <2>2, <2>3, <2>4, <2>5 DEF PendingArePushed, N
    <2>7. QED
        BY <2>3, <2>6
<1>2. CASE PopEfikeyBufHead /\ ~ IsEfikeyBufEmpty
    <2>1. \A i \in 1 .. Count' : buffer'[Slot(i)'] \in Keys
        BY <1>2, PopContent, ContentIsSeq DEF PendingArePushed, PopEfikeyBufHead, N
    <2>2. QED
        BY <1>2, <2>1, PopContent DEF PendingArePushed
<1>3. CASE PopEfikeyBufHead /\ IsEfikeyBufEmpty
    BY <1>3 DEF PopEfikeyBufHead, TypeOK, PendingArePushed, Count, Slot
<1>4. CASE ClearQueue
    BY <1>4 DEF ClearQueue, TypeOK, PendingArePushed, Count, Slots
<1>5. CASE UNCHANGED vars
    BY <1>5 DEF vars, TypeOK, PendingArePushed, Count, Slot
<1>6. QED
    BY <1>1, <1>2, <1>3, <1>4, <1>5 DEF Next

\* The ring's indices stay inside the buffer and every removal returns a
\* pushed key or EFI_NOT_READY, for every capacity (KeypadTextIn.c:26-73).
THEOREM TypeCorrect == Spec => []TypeOK
<1>1. IInv => TypeOK
    BY DEF IInv
<1>2. QED
    BY <1>1, InitIInv, StepIInv, PTL DEF Spec

\* No slot that was never written is ever pending, for every capacity.
THEOREM PendingCorrect == Spec => []PendingArePushed
<1>1. IInv => PendingArePushed
    BY DEF IInv
<1>2. QED
    BY <1>1, InitIInv, StepIInv, PTL DEF Spec
-----------------------------------------------------------------------------
\* The ring, seen through Content, takes the steps of the bounded queue.
LEMMA InitImplements == Init => Fifo!FifoInit
<1> SUFFICES ASSUME Init PROVE Fifo!FifoInit
    OBVIOUS
<1>1. IInv /\ Count = 0
    BY InitIInv DEF Init, Count
<1>2. Content = <<>>
    BY <1>1, ContentIsSeq DEF Content
<1>3. QED
    BY <1>2 DEF Init, Fifo!FifoInit

LEMMA PushImplements ==
    ASSUME IInv, NEW k \in Keys, PushEfikeyBufTail(k)
    PROVE  Fifo!FifoPush(k)
<1> USE SizeAssumption DEF IInv
<1> DEFINE lost == IF Count = N - 1 THEN 1 ELSE 0
           kept == IF Len(Content) = N - 1 THEN Tail(Content) ELSE Content
<1>1. /\ Count' = Count + 1 - lost
      /\ \A i \in 1 .. Count' - 1 : Slot(i)' = Slot(i + lost) /\ Slot(i)' # tail
      /\ Slot(Count)' = tail
      /\ TypeOK'
    BY PushContent
<1>2. buffer' = [buffer EXCEPT ![tail] = k] /\ tail \in Slots
    BY DEF PushEfikeyBufTail, TypeOK
<1>3. /\ Count \in 0 .. N - 1
      /\ \A i \in 1 .. Count : Slot(i) \in Slots
      /\ Content \in Seq(Values)
      /\ Len(Content) = Count
      /\ \A i \in 1 .. Count : Content[i] = buffer[Slot(i)]
    BY ContentIsSeq
<1>4. Content' = [i \in 1 .. Count' |-> buffer'[Slot(i)']]
    BY DEF Content
<1>5. /\ kept \in Seq(Values)
      /\ Len(kept) = Count - lost
      /\ \A i \in 1 .. Count - lost : kept[i] = Content[i + lost]
    <2>1. CASE Count = N - 1
        BY <2>1, <1>3, HeadTailProperties, EmptySeq DEF N
    <2>2. CASE Count # N - 1
        BY <2>2, <1>3
    <2>3. QED
        BY <2>1, <2>2
<1>6. \A i \in 1 .. Count' - 1 : buffer'[Slot(i)'] = kept[i]
    <2> SUFFICES ASSUME NEW i \in 1 .. Count' - 1
                 PROVE  buffer'[Slot(i)'] = kept[i]
        OBVIOUS
    <2>1. i + lost \in 1 .. Count /\ i \in 1 .. Count - lost
        BY <1>1, <1>3 DEF N
    <2>2. buffer'[Slot(i)'] = buffer[Slot(i + lost)]
        BY <1>1, <1>2, <1>3, <2>1 DEF TypeOK
    <2>3. QED
        BY <1>3, <1>5, <2>1, <2>2
<1>7. buffer'[Slot(Count)'] = k
    BY <1>1, <1>2 DEF TypeOK
<1>8. Content' = Append(kept, k)
    <2>1. Count' \in Nat /\ Count' = Len(kept) + 1
        BY <1>1, <1>3, <1>5 DEF N
    <2>2. Append(kept, k) = [i \in 1 .. Len(kept) + 1 |->
                                IF i = Len(kept) + 1 THEN k ELSE kept[i]]
        BY <1>5, AppendProperties DEF Values
    <2>3. \A i \in 1 .. Count' :
             buffer'[Slot(i)'] = IF i = Len(kept) + 1 THEN k ELSE kept[i]
        BY <1>6, <1>7, <2>1
    <2>4. QED
        BY <1>4, <2>1, <2>2, <2>3
<1>9. QED
    BY <1>8, <1>3 DEF Fifo!FifoPush, Fifo!Pushed, PushEfikeyBufTail, N

LEMMA PopImplements ==
    ASSUME IInv, PopEfikeyBufHead
    PROVE  Fifo!FifoPop
<1> USE SizeAssumption DEF IInv
<1>1. /\ Count \in 0 .. N - 1
      /\ Content \in Seq(Values)
      /\ Len(Content) = Count
      /\ \A i \in 1 .. Count : Content[i] = buffer[Slot(i)]
    BY ContentIsSeq
<1>2. CASE IsEfikeyBufEmpty
    <2>1. Content = <<>>
        BY <1>1, <1>2, FullIsCapacity
    <2>2. UNCHANGED Content
        BY <1>2 DEF PopEfikeyBufHead, Content, Count, Slot
    <2>3. QED
        BY <1>2, <2>1, <2>2 DEF Fifo!FifoPop, PopEfikeyBufHead
<1>3. CASE ~ IsEfikeyBufEmpty
    <2>1. /\ Count' = Count - 1
          /\ \A i \in 1 .. Count' : Slot(i)' = Slot(i + 1)
          /\ popped' = buffer[Slot(1)]
          /\ TypeOK'
        BY <1>3, PopContent
    <2>2. Count \in 1 .. N - 1 /\ Content # <<>>
        BY <1>1, <1>3, FullIsCapacity
    <2>3. Content' = [i \in 1 .. Count' |-> buffer'[Slot(i)']]
        BY DEF Content
    <2>4. \A i \in 1 .. Count' : buffer'[Slot(i)'] = Content[i + 1]
        BY <1>1, <2>1, <2>2 DEF PopEfikeyBufHead, N
    <2>5. /\ Tail(Content) \in Seq(Values)
          /\ Len(Tail(Content)) = Count'
          /\ \A i \in 1 .. Count' : Tail(Content)[i] = Content[i + 1]
        BY <1>1, <2>1, <2>2, HeadTailProperties
    <2>6. Content' = Tail(Content)
        <3>1. /\ Content' \in Seq(Values)
              /\ Len(Content') = Count'
              /\ \A i \in 1 .. Count' : Content'[i] = Content[i + 1]
            BY <1>1, <2>1, <2>2, <2>3, <2>4
        <3>2. QED
            BY <2>5, <3>1, SeqEqual
    <2>7. popped' = Head(Content)
        BY <1>1, <2>1, <2>2
    <2>8. QED
        BY <2>2, <2>6, <2>7 DEF Fifo!FifoPop, PopEfikeyBufHead
<1>4. QED
    BY <1>2, <1>3

\* The ring buffer is a FIFO that forgets its oldest key when full, for every
\* capacity and every set of keys (KeypadTextIn.c:26-73).
THEOREM Implements == Spec => ImplementsKeyFifo
<1>1. IInv /\ [Next]_vars => [Fifo!FifoNext]_(Fifo!fifoVars)
    <2> SUFFICES ASSUME IInv, [Next]_vars
                 PROVE  [Fifo!FifoNext]_(Fifo!fifoVars)
        OBVIOUS
    <2>1. ASSUME NEW k \in Keys, PushEfikeyBufTail(k)
          PROVE  Fifo!FifoNext
        BY <2>1, PushImplements DEF Fifo!FifoNext
    <2>2. CASE PopEfikeyBufHead
        BY <2>2, PopImplements DEF Fifo!FifoNext
    <2>3. CASE ClearQueue
        <3>1. Count' = 0
            BY <2>3 DEF ClearQueue, Count
        <3>2. Content' = <<>>
            BY <3>1 DEF Content
        <3>3. QED
            BY <2>3, <3>2 DEF ClearQueue, Fifo!FifoNext, Fifo!FifoClear
    <2>4. CASE UNCHANGED vars
        BY <2>4 DEF vars, Fifo!fifoVars, Content, Count, Slot
    <2>5. QED
        BY <2>1, <2>2, <2>3, <2>4 DEF Next
<1>2. QED
    BY <1>1, InitIInv, StepIInv, InitImplements, PTL
       DEF Spec, ImplementsKeyFifo, Fifo!FifoSpec
=============================================================================
