------------------------------ MODULE KeyQueue ------------------------------
(***************************************************************************)
(* The ring buffer EFI_KEY_QUEUE of the keypad console driver: head is the *)
(* slot of the oldest key, tail the slot of the next one, and head = tail  *)
(* means empty, so that one of the KEYPAD_EFI_KEY_MAX_COUNT slots is never *)
(* in use.                                                                 *)
(***************************************************************************)
EXTENDS Integers, Sequences

CONSTANTS Keys,      \* the EFI_KEY_DATA values that are pushed
          ZeroKey,   \* the EFI_KEY_DATA of all zeros, in a fresh buffer
          NotReady,  \* the status EFI_NOT_READY of a removal
          KEYPAD_EFI_KEY_MAX_COUNT

ASSUME SizeAssumption == KEYPAD_EFI_KEY_MAX_COUNT \in Nat /\ KEYPAD_EFI_KEY_MAX_COUNT >= 2
ASSUME StatusAssumption == NotReady \notin Keys \cup {ZeroKey}

VARIABLES buffer, head, tail,
          call,      \* the last operation called
          popped     \* what the last PopEfikeyBufHead returned

vars == <<buffer, head, tail, call, popped>>

Slots == 0 .. KEYPAD_EFI_KEY_MAX_COUNT - 1
SlotAfter(s) == (s + 1) % KEYPAD_EFI_KEY_MAX_COUNT

\* The device is allocated by AllocateZeroPool.
Init ==
    /\ buffer = [s \in Slots |-> ZeroKey]
    /\ head = 0 /\ tail = 0
    /\ call = "none" /\ popped = NotReady

IsEfikeyBufEmpty == head = tail
IsEfikeyBufFull  == SlotAfter(tail) = head

PopEfikeyBufHead ==
    /\ IF IsEfikeyBufEmpty
         THEN popped' = NotReady /\ UNCHANGED head
         ELSE popped' = buffer[head] /\ head' = SlotAfter(head)
    /\ call' = "pop"
    /\ UNCHANGED <<buffer, tail>>

\* Mutant: a full ring is not noticed.
PushWithoutDrop(k) ==
    /\ buffer' = [buffer EXCEPT ![tail] = k]
    /\ tail' = SlotAfter(tail)
    /\ call' = "push"
    /\ UNCHANGED <<head, popped>>

PushEfikeyBufTail(k) ==
    /\ head' = IF IsEfikeyBufFull THEN SlotAfter(head) ELSE head
    /\ buffer' = [buffer EXCEPT ![tail] = k]
    /\ tail' = SlotAfter(tail)
    /\ call' = "push"
    /\ UNCHANGED popped

\* Mutant: the head is not reset.
ClearTailOnly == tail' = 0 /\ call' = "clear" /\ UNCHANGED <<buffer, head, popped>>

\* InitKeypad empties the queue by its indices alone; old keys stay in buffer.
ClearQueue ==
    /\ head' = 0 /\ tail' = 0
    /\ call' = "clear"
    /\ UNCHANGED <<buffer, popped>>

Next == (\E k \in Keys : PushEfikeyBufTail(k)) \/ PopEfikeyBufHead \/ ClearQueue

Spec == Init /\ [][Next]_vars
-----------------------------------------------------------------------------
TypeOK ==
    /\ buffer \in [Slots -> Keys \cup {ZeroKey}]
    /\ head \in Slots /\ tail \in Slots
    /\ call \in {"none", "push", "pop", "clear"}
    /\ popped \in Keys \cup {NotReady}

\* The pending keys, oldest first: the slots from head up to tail.
Count == IF tail >= head THEN tail - head
                           ELSE tail - head + KEYPAD_EFI_KEY_MAX_COUNT
Slot(i) == IF head + i - 1 < KEYPAD_EFI_KEY_MAX_COUNT
             THEN head + i - 1
             ELSE head + i - 1 - KEYPAD_EFI_KEY_MAX_COUNT
Content == [i \in 1 .. Count |-> buffer[Slot(i)]]

\* Between head and tail there are only keys that were pushed, never the
\* zeros of a slot that was not written (KeypadTextIn.c:63-73).
PendingArePushed == \A i \in 1 .. Count : buffer[Slot(i)] \in Keys

Fifo == INSTANCE KeyFifo WITH Capacity <- KEYPAD_EFI_KEY_MAX_COUNT - 1,
                              fifo <- Content

\* The ring implements the bounded queue that forgets its oldest key: keys
\* come out in the order they went in, across the wrap of both indices and
\* after a reset, and a push into a full ring costs exactly the oldest key
\* (KeypadTextIn.c:41-73, KeypadController.c:99-102).
ImplementsKeyFifo == Fifo!FifoSpec
=============================================================================
