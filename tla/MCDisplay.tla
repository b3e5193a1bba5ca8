------------------------------ MODULE MCDisplay ------------------------------
(* The consoles on the smallest screen they can do with: two columns, and two *)
(* lines of which the last is not at the end of the page.                     *)
EXTENDS Display, TLC

SmallestScreen == {[width |-> 24, height |-> 61]}
Symmetric == Permutations(Modules)
=============================================================================
