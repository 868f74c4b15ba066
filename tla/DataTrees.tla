------------------------------ MODULE DataTrees ------------------------------
(***************************************************************************)
(* What the node tree (src/wilddog_node.c) promises: trees of data, each   *)
(* held by its root.  The data of a tree is a function from the paths in   *)
(* it, sequences of keys, to what is there: a value, "null" or "object".   *)
(* The order of children, which nobody is promised, is left out.           *)
(***************************************************************************)
EXTENDS SequencesExt

CONSTANTS Handles,  \* what the application holds a tree by
          Keys, NoKey, Values,
          Chains    \* the paths a tree is created with

VARIABLE trees  \* the trees there are: their key and data, by handle

Contents == Values \cup {"null", "object"}

\* The paths of d, or those that are not at or below p.
Outside(d, p) == {q \in DOMAIN d : ~IsPrefix(p, q)}
Inside(d, p)  == {q \in DOMAIN d : IsPrefix(p, q)}

Subtree(d, p) == [q \in {SubSeq(r, Len(p) + 1, Len(r)) : r \in Inside(d, p)}
                    |-> d[p \o q]]

\* d with the data c at p, whatever was there.
Grafted(d, p, c) ==
  LET under == {p \o q : q \in DOMAIN c}
  IN  [q \in Outside(d, p) \cup under |->
         IF q \in under THEN c[SubSeq(q, Len(p) + 1, Len(q))] ELSE d[q]]

\* The key of a node: the last on its path, or the root's own.
KeyAt(t, p) == IF p = <<>> THEN t.key ELSE Last(p)
-------------------------------------------------------------------------------
\* A new tree: a node, or the chain of nodes that the path s leads through.
New(r, k, s, c) ==
  LET d == [q \in {SubSeq(s, 1, n) : n \in 0..Len(s)} |-> IF q = s THEN c ELSE "object"]
  IN  trees' = [t \in DOMAIN trees \cup {r} |->
                  IF t = r THEN [key |-> k, data |-> d] ELSE trees[t]]

\* The tree u becomes the child of the node at p, in place of the one that has
\* its key.  The value at p is lost.
Add(r, p, u) ==
  LET d == [trees[r].data EXCEPT ![p] = "object"]
  IN  /\ r # u /\ trees[u].key # NoKey
      /\ trees' = [s \in DOMAIN trees \ {u} |->
                     IF s = r
                     THEN [trees[r] EXCEPT !.data =
                             Grafted(d, Append(p, trees[u].key), trees[u].data)]
                     ELSE trees[s]]

\* The node at p is deleted, with all below it.
Delete(r, p) ==
  trees' = IF p = <<>> THEN Restrict(trees, DOMAIN trees \ {r})
           ELSE [trees EXCEPT ![r].data = Restrict(@, Outside(@, p))]

\* The tree u is a copy of the node at p.
Clone(r, p, u) ==
  /\ u \notin DOMAIN trees
  /\ trees' = [s \in DOMAIN trees \cup {u} |->
                 IF s = u THEN [key |-> KeyAt(trees[r], p), data |-> Subtree(trees[r].data, p)]
                 ELSE trees[s]]

SetKey(r, k) == trees' = [trees EXCEPT ![r].key = k]

\* Only a value is replaced.
SetValue(r, p, v) ==
  trees[r].data[p] \in Values /\ trees' = [trees EXCEPT ![r].data[p] = v]

Init == trees = [r \in {} |-> {}]

Next ==
  \/ \E r \in Handles \ DOMAIN trees, c \in Contents :
       \/ New(r, NoKey, <<>>, c)
       \/ \E s \in Chains : New(r, Head(s), Tail(s), c)
  \/ \E r \in DOMAIN trees :
       \/ \E k \in Keys \cup {NoKey} : SetKey(r, k)
       \/ \E p \in DOMAIN trees[r].data :
            \/ Delete(r, p)
            \/ \E u \in DOMAIN trees : Add(r, p, u)
            \/ \E u \in Handles : Clone(r, p, u)
            \/ \E v \in Values : SetValue(r, p, v)

Spec == Init /\ [][Next]_trees
===============================================================================
