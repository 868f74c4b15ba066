---------------------------- MODULE MCWilddogCbor ----------------------------
(***************************************************************************)
(* Instances of WilddogCbor for TLC: bytes of two bits, so that numbers    *)
(* have eight; a map of unknown length has two entries at most; trees of   *)
(* three levels and up to three children.                                  *)
(***************************************************************************)
EXTENDS WilddogCbor, FiniteSets

\* All numbers that four bytes hold, and some that they do not.
S32       == -(WORD \div 2)..(WORD \div 2 - 1)
Numbers64 == S32 \cup {WORD \div 2, WORD - 1, WORD, 2 * WORD, -WORD}

Scalars(nums) ==
  {Node("num", n) : n \in nums}
    \cup {Node("float", f) : f \in {-1, 1}}
    \cup {Node(t, 0) : t \in {"true", "null", "string"}}

\* The objects with the children in S, by up to n of the keys.
ObjectsOf(S, n) ==
  UNION {{Object([i \in DOMAIN k |-> Child(k[i], f[i])]) :
            k \in {s \in [1..m -> {"a", "b", "c"}] : IsInjective(s)}, f \in [1..m -> S]} : m \in 0..n}

Few(num) == {Node("num", num), Node("float", -1), Node("string", 0)}

Deep(num) == ObjectsOf(Few(num) \cup ObjectsOf({Node("true", 0)}, 3), 2)

OurTrees   == Scalars(S32) \cup ObjectsOf(Few(-6), 3) \cup Deep(5)
TheirTrees == Scalars(Numbers64) \cup ObjectsOf(Few(WORD), 3) \cup Deep(-WORD \div 2)
===============================================================================
