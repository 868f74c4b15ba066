---------------------------- MODULE MCWilddogConn ----------------------------
(***************************************************************************)
(* Instances of WilddogConn for TLC.  Paths are interchangeable.           *)
(***************************************************************************)
EXTENDS WilddogConn, TLC

Paths == Permutations(Urls)
===============================================================================
