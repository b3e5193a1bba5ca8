-------------------------- MODULE MCKeypadClients --------------------------
(* A whole key and the partial key are pressed.  Clients register the key    *)
(* and another one that is never pressed.                                    *)
EXTENDS KeypadClients, TLC

Key(code, shift) == [code |-> code, shift |-> shift, toggle |-> 0]
KeyInputs == {Key("a", 0)}
AllInputs == {Key("a", 0), Key("NULL", 0)}
DistinctKeys == {Key("a", 0), Key("b", 0)}
Symmetric == Permutations(Nodes) \cup Permutations(Functions)
=============================================================================
