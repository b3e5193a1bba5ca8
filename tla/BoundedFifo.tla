---------------------------- MODULE BoundedFifo ----------------------------
(***************************************************************************)
(* What the keypad driver promises of its key buffers: a first-in          *)
(* first-out queue of at most Capacity keys which, when it is full, makes  *)
(* room for a new key by forgetting the oldest one.  The ring buffer of    *)
(* KeyQueue implements KeyFifo, and the driver of Keypad uses these        *)
(* operators in place of the ring.                                         *)
(***************************************************************************)
EXTENDS Integers, Sequences

CONSTANT Capacity

ASSUME CapacityAssumption == Capacity \in Nat \ {0}

\* Mutant: a push that never makes room.
PushedBeyondCapacity(q, k) == Append(q, k)

\* The queue after PushEfikeyBufTail: the oldest key is dropped when full.
Pushed(q, k) == Append(IF Len(q) = Capacity THEN Tail(q) ELSE q, k)

\* The queue after pushing the keys of ks one by one, first to last, with
\* sizes small enough that what is kept is a suffix of q \o ks.
PushedAll(q, ks) ==
    LET all  == q \o ks
        lost == IF Len(all) > Capacity THEN Len(all) - Capacity ELSE 0
    IN  SubSeq(all, lost + 1, Len(all))
=============================================================================
