-------------------------- MODULE WilddogConnClaims --------------------------
(***************************************************************************)
(* What the manual says of the connection layer and the code does not      *)
(* keep; README.md tells the story of the counterexample.                  *)
(***************************************************************************)
EXTENDS WilddogConn

\* Manual, wilddog_removeObserver: it cancels the observer of this path.
ObserversOf(c, url) == {m \in Observers(c) : req[m].url = url}

OffRemovesItsObserver ==
  [][\A m \in Mid :
       req[m] = NoReq /\ req'[m].kind = "off" /\ req'[m].ret = "NOERR"
         => \A k \in ObserversOf(conn, req'[m].url) : ~conn'.pkt[k].on]_vars
===============================================================================
