----------------------------- MODULE MCKeyQueue -----------------------------
(* A ring of four slots and three keys: it fills, wraps and drops. *)
EXTENDS KeyQueue
=============================================================================
