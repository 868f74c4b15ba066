------------------------------- MODULE Requests -------------------------------
(***************************************************************************)
(* What the connection layer promises the application about its requests,  *)
(* with no session, packet or timer in it.  An accepted request waits and  *)
(* is done, once and for good; an accepted observer is subscribing until   *)
(* the server acknowledges it, falls back to subscribing when the session  *)
(* is established anew, and ends with an error or when it is removed.      *)
(***************************************************************************)
CONSTANT Req

VARIABLE life

Lives == {"idle", "refused", "waiting", "done", "subscribing", "subscribed", "ended"}

Init == life = [r \in Req |-> "idle"]

\* The application asks: the request is refused, waits, or subscribes.  Asking
\* to unsubscribe (a request that waits) may end one observer.
Ask(r) ==
  /\ life[r] = "idle"
  /\ \/ \E l \in {"refused", "waiting", "subscribing"} :
          life' = [life EXCEPT ![r] = l]
     \/ \E o \in Req :
          /\ life[o] \in {"subscribing", "subscribed"}
          /\ life' = [life EXCEPT ![r] = "waiting", ![o] = "ended"]

\* What one trySync may do to a request.
Moves == {<<"waiting", "done">>,
          <<"subscribing", "subscribed">>, <<"subscribed", "subscribing">>,
          <<"subscribing", "ended">>, <<"subscribed", "ended">>}

\* One trySync completes, acknowledges or gives up any number of them.
Sync ==
  /\ life' \in [Req -> Lives]
  /\ \A r \in Req : life'[r] = life[r] \/ <<life[r], life'[r]>> \in Moves

Next == Sync \/ \E r \in Req : Ask(r)

\* Every request that waits is done sooner or later, and every observer is
\* acknowledged or ended.
Ends == \A r \in Req : /\ life[r] = "waiting" ~> life[r] = "done"
                       /\ life[r] = "subscribing" ~> life[r] # "subscribing"

Spec == Init /\ [][Next]_life
LiveSpec == Spec /\ Ends
===============================================================================
