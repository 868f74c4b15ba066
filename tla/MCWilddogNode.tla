--------------------------- MODULE MCWilddogNode ---------------------------
(***************************************************************************)
(* Instances of WilddogNode for TLC: two keys, one the beginning of the    *)
(* other, in trees of up to four nodes, deep or broad.  (With CAREFUL =    *)
(* FALSE, or with the listeners Two, and the keys and chains apart, TLC    *)
(* finds what README.md says of brothers.)                                 *)
(***************************************************************************)
EXTENDS WilddogNodeTrees

a  == <<1>>
ab == <<1, 2>>
b  == <<2>>

Names      == {a, ab}
NamesApart == {a, b}

OneOrTwo == {<<a>>, <<ab>>, <<a, ab>>}
Singles  == {<<a>>, <<b>>}

\* The listeners of a trigger: one, as the path of the observer or below it; or
\* two.
Alone == {<<<<>>>>, <<<<a>>>>, <<<<ab>>>>, <<<<a, ab>>>>, <<<<ab, ab>>>>}
Two   == {<<<<a>>, <<b>>>>}
None  == {}

NodePermutations == Permutations(Nodes)
===============================================================================
