--------------------------- MODULE MCCoapObserve ---------------------------
(***************************************************************************)
(* Instances of CoapObserve for TLC: a counter of three bits, which starts *)
(* low, and comes to its half, or high, and wraps.                         *)
(***************************************************************************)
EXTENDS CoapObserve

LowAndHigh == {0, 6}
===============================================================================
