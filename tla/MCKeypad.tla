------------------------------ MODULE MCKeypad ------------------------------
(* One whole key, and the registration of it. *)
EXTENDS Keypad

Key(code, shift) == [code |-> code, shift |-> shift, toggle |-> 0]
KeyInputs == {Key("a", 0)}
KeyRegistrable == {Key("a", 0)}
=============================================================================
