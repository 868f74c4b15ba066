--------------------------- MODULE MCWilddogClient ---------------------------
(***************************************************************************)
(* Instances of WilddogClient for TLC: two hosts, and of each the paths    *)
(* "/" and ".info/connected" (other paths are references like the first).  *)
(***************************************************************************)
EXTENDS WilddogClient, TLC

CONSTANTS h1, h2, t, r1, r2, r3

TwoHosts  == {h1, h2}
NoKey     == {}
OneToken  == {t}
ThreeRefs == {r1, r2, r3}

\* Hosts, tokens and references are told apart by nothing but their names.
HostsTokensRefs ==
  Permutations(Hosts) \cup Permutations(Tokens) \cup Permutations(Refs)
===============================================================================
