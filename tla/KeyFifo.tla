------------------------------ MODULE KeyFifo ------------------------------
(***************************************************************************)
(* The abstract key buffer as a state machine: fifo holds the pending      *)
(* keys, oldest first, call is the last operation, and popped is what the  *)
(* last removal returned.                                                  *)
(***************************************************************************)
EXTENDS BoundedFifo

CONSTANTS Keys, NotReady

VARIABLES fifo, call, popped

fifoVars == <<fifo, call, popped>>

FifoInit == fifo = <<>> /\ call = "none" /\ popped = NotReady

FifoPush(k) == call' = "push" /\ fifo' = Pushed(fifo, k) /\ UNCHANGED popped

FifoPop ==
    /\ call' = "pop"
    /\ \/ fifo = <<>> /\ popped' = NotReady /\ UNCHANGED fifo
       \/ fifo # <<>> /\ popped' = Head(fifo) /\ fifo' = Tail(fifo)

FifoClear == call' = "clear" /\ fifo' = <<>> /\ UNCHANGED popped

FifoNext == (\E k \in Keys : FifoPush(k)) \/ FifoPop \/ FifoClear

FifoSpec == FifoInit /\ [][FifoNext]_fifoVars
=============================================================================
