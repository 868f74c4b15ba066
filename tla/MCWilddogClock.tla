--------------------------- MODULE MCWilddogClock ---------------------------
(***************************************************************************)
(* Instances of WilddogClock for TLC: a counter that counts to 32, a wait  *)
(* of five, and steps that pass over the comparisons.                      *)
(***************************************************************************)
EXTENDS WilddogClock

OneOrThree == {1, 3}

FiveOrTwo == {5, 2}
===============================================================================
