--------------------------- MODULE MCKeypadDevice ---------------------------
(* Debounce, repeat and long press at one, two and three units; a poll comes *)
(* at once, after one unit, or too late for a whole long press.              *)
EXTENDS KeypadDevice
=============================================================================
