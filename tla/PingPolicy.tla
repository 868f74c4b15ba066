------------------------------ MODULE PingPolicy ------------------------------
(***************************************************************************)
(* The adaptive keep-alive of the connection layer (src/wilddog_conn.c,    *)
(* "Ping policy").  A client that has a session probes, ping after ping,   *)
(* how long the path to the server stays open when it is idle: each 200    *)
(* lengthens the interval by delta, each 401/406 takes the last increment  *)
(* back and halves delta, and when delta has reached zero the interval is  *)
(* stable until the next failure.                                          *)
(*                                                                         *)
(* The policy is a record, the ping fields of Wilddog_Conn_Sys_T:          *)
(*   interval, delta   d_curr_ping_interval, d_ping_delta                  *)
(*   type              d_ping_type                                         *)
(*   set, left         d_ping_next_send_time: set is FALSE when it is 0    *)
(*                     ("have not initialized"), left is the time from now *)
(*                     until it, -1 standing for every time in the past.   *)
(* The operators map a policy to a policy; WilddogPing runs them alone and *)
(* WilddogConn runs them inside the connection.                            *)
(***************************************************************************)
EXTENDS Integers

CONSTANTS
  PING_INTERVAL,      \* WILDDOG_DEFAULT_PING_INTERVAL
  PING_DELTA,         \* WILDDOG_DEFAULT_PING_DELTA
  MAX_PING_INTERVAL   \* WILDDOG_MAX_PING_INTERVAL

ASSUME PingAssumption ==
  /\ PING_INTERVAL \in Nat /\ PING_DELTA \in Nat /\ MAX_PING_INTERVAL \in Nat
  /\ 2 * PING_DELTA < PING_INTERVAL
  /\ PING_INTERVAL <= MAX_PING_INTERVAL

PingTypes == {"SHORT", "LONG"}

PingPolicies == [interval : Int, delta : Nat, type : PingTypes,
                 set : BOOLEAN, left : Int]

\* What an answer to a ping, or its timeout, can tell the policy.
PingCodes == {"OK", "BAD_REQUEST", "UNAUTHORIZED", "PRECONDITION_FAIL",
              "RECVTIMEOUT", "OTHER"}

\* The fields as _wilddog_conn_init leaves them (the structure is zeroed).
InitialPing == [interval |-> PING_INTERVAL, delta |-> PING_DELTA,
                type |-> "SHORT", set |-> FALSE, left |-> -1]

\* Mutant of PingDue: a next send time of 0 is not recognised as unset.
PingDueIfSet(p) == p.set /\ p.left < 0

PingDue(p) == ~p.set \/ p.left < 0

\* Mutant of OnPingSend: the long ping is taken for sent and done.
OnPingSendOnce(p) ==
  IF p.set THEN [p EXCEPT !.type = "SHORT"]
  ELSE [InitialPing EXCEPT !.set = TRUE, !.left = PING_INTERVAL]

\* What _wilddog_conn_pingHandler does to the policy when it sends a ping: it
\* fills in the defaults if the next send time is still unset, and otherwise
\* leaves the (past) next send time alone.
OnPingSend(p) ==
  IF p.set THEN p
  ELSE [interval |-> PING_INTERVAL, delta |-> PING_DELTA, type |-> "SHORT",
        set |-> TRUE, left |-> PING_INTERVAL]

\* Mutant of PingGrow: the maximum is not looked at.
PingGrowOn(p) ==
  LET next == p.interval + p.delta
  IN  [interval |-> next, delta |-> p.delta, type |-> "SHORT", set |-> TRUE, left |-> next]

PingGrow(p) ==
  LET stable == MAX_PING_INTERVAL <= p.interval
      next   == IF stable THEN MAX_PING_INTERVAL ELSE p.interval + p.delta
  IN  [interval |-> next, delta |-> IF stable THEN 0 ELSE p.delta,
       type |-> "SHORT", set |-> TRUE, left |-> next]

\* Mutant of PingShrink: delta is not halved.
PingShrinkAll(p) ==
  [p EXCEPT !.interval = p.interval - p.delta, !.type = "LONG", !.set = TRUE, !.left = 0]

PingShrink(p) ==
  [interval |-> IF p.delta = 0 THEN PING_INTERVAL ELSE p.interval - p.delta,
   delta    |-> IF p.delta = 0 THEN PING_DELTA ELSE p.delta \div 2,
   type |-> "LONG", set |-> TRUE, left |-> 0]

\* _wilddog_conn_ping_callback: 406 takes the same branch as 401, and codes
\* without a branch of their own change nothing.
OnPingAnswer(p, code) ==
  CASE code = "OK"           -> PingGrow(p)
    [] code = "BAD_REQUEST"  -> InitialPing
    [] code = "UNAUTHORIZED" -> PingShrink(p)
    [] OTHER                 -> p

Statuses == {"INIT", "NOTAUTHED", "AUTHING", "AUTHED"}

\* _wilddog_conn_ping_callback with the session: a 400 and a 412 lose it, but
\* a 400 leaves INIT alone.
StatusAfterPing(s, code) ==
  CASE code = "BAD_REQUEST" /\ s # "INIT" -> "NOTAUTHED"
    [] code = "PRECONDITION_FAIL"         -> "NOTAUTHED"
    [] OTHER                              -> s

\* One unit of time: the next send time comes closer, down to "in the past".
PingTick(p) ==
  [p EXCEPT !.left = IF p.set /\ p.left >= 0 THEN p.left - 1 ELSE p.left]
===============================================================================
