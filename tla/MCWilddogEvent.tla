--------------------------- MODULE MCWilddogEvent ---------------------------
(***************************************************************************)
(* Instances of WilddogEvent for TLC: a chain of three paths and a sibling *)
(* of the second, with or without a path that only begins with the name of *)
(* the first.                                                              *)
(***************************************************************************)
EXTENDS WilddogEvent

a == 1
b == 2

A     == <<Slash, a>>
AB    == <<Slash, a, b>>         \* named "ab", not below A
A_a   == <<Slash, a, Slash, a>>
A_b   == <<Slash, a, Slash, b>>
A_a_a == <<Slash, a, Slash, a, Slash, a>>

AllInOrder  == <<A, A_a, A_a_a, A_b, AB>>
TreeInOrder == <<A, A_a, A_a_a, A_b>>

\* Room for a few commands, or for all.
FewOrAll == 0..2 \cup {2 * Len(AllInOrder)}

\* Where there is trouble: in the middle of the chain, or nowhere.
Middle  == {A_a}
Nowhere == {}
===============================================================================
