----------------------------- MODULE MCTestClass -----------------------------
(* Instances of TestClass for TLC. *)
EXTENDS TestClass

(* With MPS = 2 and BUFFER = 4: an empty message, one full packet, a
   full and a short one, the whole buffer. *)
MessageLengths == [e \in Eps |-> IF e = BULK THEN {0, 2, 3, 4} ELSE {0, 2}]
=============================================================================
