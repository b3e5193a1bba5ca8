--------------------------- MODULE MCKeypadBinding ---------------------------
(* Two registrations at once: the list is empty, has one entry, or several. *)
EXTENDS KeypadBinding
=============================================================================
