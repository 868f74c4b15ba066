----------------------------- MODULE WilddogPing -----------------------------
(***************************************************************************)
(* The keep-alive of one connection, with the session around it reduced to *)
(* what the ping handler reads: whether the session is authenticated.  The *)
(* session comes and goes by itself here (WilddogConn says when); the ping *)
(* packet and the policy survive it, as p_ping and d_conn_sys do.          *)
(***************************************************************************)
EXTENDS PingPolicy

VARIABLES
  status,   \* d_session_status
  p_ping,   \* TRUE while a ping is outstanding (p_ping # NULL)
  ping      \* the policy

vars == <<status, p_ping, ping>>

Init == status = "AUTHING" /\ p_ping = FALSE /\ ping = InitialPing

\* The session's own handlers.  They never touch the ping fields.
SessionChange ==
  /\ \E s \in Statuses \ {status} : status' = s
  /\ UNCHANGED <<p_ping, ping>>

\* Time passes.
Tick ==
  /\ ping.set /\ ping.left >= 0
  /\ ping' = PingTick(ping)
  /\ UNCHANGED <<status, p_ping>>

\* _wilddog_conn_pingHandler.
SendPing ==
  /\ status = "AUTHED" /\ ~p_ping /\ PingDue(ping)
  /\ ping' = OnPingSend(ping)
  /\ p_ping' = TRUE
  /\ UNCHANGED status

\* A ping is answered, or given up by the retransmission handler, which
\* reports a timeout, or a 400 when the session is INIT.
PingDone(code) ==
  /\ p_ping
  /\ ping' = OnPingAnswer(ping, code)
  /\ status' = StatusAfterPing(status, code)
  /\ p_ping' = FALSE

Next == SessionChange \/ Tick \/ SendPing \/ \E code \in PingCodes : PingDone(code)

\* The handler runs at every wilddog_trySync and time does not stop.  Nothing
\* is assumed of the server, but a ping never stays outstanding forever.
Spec == Init /\ [][Next]_vars
FairSpec == /\ Spec
            /\ WF_vars(Tick) /\ WF_vars(SendPing)
            /\ WF_vars(\E code \in PingCodes : PingDone(code))
-------------------------------------------------------------------------------
TypeOK == /\ status \in Statuses
          /\ p_ping \in BOOLEAN
          /\ ping \in PingPolicies

(* Halving delta after every failure takes back at most twice the default  *)
(* delta in all, so the interval never gets to zero, where the client would *)
(* ping at every trySync, and it never exceeds the maximum by a full delta. *)
IntervalFloor == ping.interval >= PING_INTERVAL - 2 * PING_DELTA + 2 * ping.delta
DeltaBounded  == ping.delta <= PING_DELTA
IntervalCeil  == \/ ping.interval <= MAX_PING_INTERVAL
                 \/ ping.interval < MAX_PING_INTERVAL + PING_DELTA

PingInv == TypeOK /\ IntervalFloor /\ DeltaBounded /\ IntervalCeil

\* The interval stays positive and bounded whatever sequence of answers,
\* timeouts and new sessions the ping callback sees, so the next keep-alive is
\* never further away than the longest interval.
IntervalBounded ==
  /\ ping.interval \in 1 .. MAX_PING_INTERVAL + PING_DELTA
  /\ ping.left <= MAX_PING_INTERVAL + PING_DELTA

\* While the session is up the keep-alive never dies: time and again a ping is
\* sent, unless the session is lost time and again.
KeepsPinging == []<>(p_ping \/ status # "AUTHED")

\* A long ping (the policy's recovery after a 401) is never replaced by a
\* short one before an answer arrived: only an answered ping, or a policy that
\* was reset, goes back to short pings.
LongUntilAnswered ==
  [][ping.type = "LONG" /\ ping'.type = "SHORT" => p_ping /\ ~p_ping']_vars
===============================================================================
