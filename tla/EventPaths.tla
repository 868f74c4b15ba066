----------------------------- MODULE EventPaths -----------------------------
(***************************************************************************)
(* Paths as src/wilddog_event.c compares them: strings, character by       *)
(* character.  A path is the sequence of its characters; 0 is the slash.   *)
(***************************************************************************)
EXTENDS Integers, SequencesExt

Slash == 0

\* The relations of _wilddog_event_pathContain.
Within(q, p) == IsPrefix(p, q)
Below(q, p)  == IsStrictPrefix(p, q)

\* The order of the list of listeners: lexicographic.
Before(p, q) ==
  \/ Below(q, p)
  \/ \E i \in DOMAIN p \cap DOMAIN q :
       SubSeq(p, 1, i - 1) = SubSeq(q, 1, i - 1) /\ p[i] < q[i]
===============================================================================
