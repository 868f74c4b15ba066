--------------------------- MODULE WilddogNodeTrees ---------------------------
(***************************************************************************)
(* The nodes of WilddogNode as the trees of data that an application reads  *)
(* from them, which DataTrees is about.                                     *)
(***************************************************************************)
EXTENDS WilddogNode

\* The nodes of the tree r, each with its path.
Placed(h, r) ==
  LET at[i \in 0..Cardinality(Nodes)] ==
        IF i = 0 THEN {<<<<>>, r>>}
        ELSE UNION {{<<Append(x[1], h[m].key), m>> : m \in Kids(h, x[2])} : x \in at[i - 1]}
  IN  UNION {at[i] : i \in 0..Cardinality(Nodes)}

\* The trees of DataTrees that the nodes are, read from their roots.
TreesOf(h) ==
  [r \in Roots(h) |->
     [key |-> h[r].key,
      data |-> LET placed == Placed(h, r)
               IN  [p \in {x[1] : x \in placed} |->
                      h[(CHOOSE x \in placed : x[1] = p)[2]].val]]]

\* The trees that the nodes are, kept in a variable: a refinement mapping that
\* TLC computes once for each state.
VARIABLE trees

TreesInit == Init /\ trees = TreesOf(heap)

TreesNext == Next /\ trees' = TreesOf(heap')

TreesSpec == TreesInit /\ [][TreesNext]_<<vars, trees>>

Promise == INSTANCE DataTrees WITH Handles <- Nodes

\* Every call does to the trees of nodes what DataTrees promises of it: nothing
\* is lost, copied or left over but what the call is about.
TreesKept == Promise!Spec
===============================================================================
