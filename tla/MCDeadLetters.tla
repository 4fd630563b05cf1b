---------------------------- MODULE MCDeadLetters ----------------------------
(* An instance of DeadLetters for TLC: more letters than the list holds, and  *)
(* time for the list to expire and fill again.                               *)
EXTENDS DeadLetters, TLC

CONSTANTS l1, l2, l3, l4

AnyLetter == Permutations(Letters)
=============================================================================
