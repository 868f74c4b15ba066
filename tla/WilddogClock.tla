---------------------------- MODULE WilddogClock ----------------------------
(***************************************************************************)
(* The millisecond counter (src/wilddog_common.c) and the times the        *)
(* connection layer compares with it: when a packet is too old or is sent  *)
(* again, when a lost session is established again, when a ping is sent.   *)
(* WilddogConn has timers that tell the time passed; here is what the      *)
(* comparisons of the counter make of it, which has W bits and wraps.      *)
(*                                                                         *)
(* A behaviour follows one of them: a request, an observer, the session or *)
(* the keep-alive.  Of the session the others see its status, and that it  *)
(* is established again.  Between two calls of trySync one of Steps        *)
(* passes, the time it waits to receive and what the user adds.            *)
(***************************************************************************)
EXTENDS Integers

CONSTANTS
  W,               \* bits of the counter: 32 in the code
  SHIFT,           \* bits of the int that is shifted: 32 in the code
  Steps,           \* what passes from one trySync to the next
  TIMEOUT,         \* WILDDOG_RETRANSMITE_TIME
  INTERVAL,        \* WILDDOG_RETRANSMIT_DEFAULT_INTERVAL
  RETRY_MAX,       \* WILDDOG_SESSION_MAX_RETRY_TIME_INTERVAL
  OFFLINE_TIMES,   \* WILDDOG_SESSION_OFFLINE_TIMES
  FAR,             \* 0xfffffff, the next time of an observer that is registered
  PING,            \* WILDDOG_DEFAULT_PING_INTERVAL
  Intervals        \* the intervals the ping policy may come to (see WilddogPing)

ASSUME ClockAssumption ==
  /\ {W, SHIFT, TIMEOUT, INTERVAL, RETRY_MAX, OFFLINE_TIMES, PING} \subseteq Nat \ {0}
  /\ Steps \subseteq Nat \ {0}
  /\ Intervals \subseteq Nat \ {0}
  /\ FAR \in Nat /\ FAR < 2^W
  /\ \A n \in {RETRY_MAX, TIMEOUT, PING} \cup Steps \cup Intervals : 4 * n < 2^W

VARIABLES
  now,      \* l_wilddog_currTime
  wrapped,  \* history: the counter has wrapped
  timer     \* what is followed

vars == <<now, wrapped, timer>>

RANGE == 2^W

Lesser(a, b) == IF a < b THEN a ELSE b

Packets == {"request", "observer"}

Kinds == Packets \cup {"session", "keepalive"}

\* A packet on its queue: d_register_time, d_next_send_time, d_count (kept to SHIFT)
\* and whether it never times out.  The session: whether p_auth is on its way and
\* since when, d_auth_fail_count, d_offline_time and d_online_retry_count.  (p_auth is
\* sent again like a request, whatever the status: that is left out.)  The
\* keep-alive: whether p_ping is on its way, and d_ping_next_send_time.  The others
\* take a session that is being authenticated for one that is not.
\*
\* The rest is history: that a 412 came since the session was established
\* (overrun); the time since from and since next was set (age, since), and since the
\* session went offline or was last tried again (away); what next was set for, to send
\* at once, to send again after an interval, or as the observer was registered (last);
\* the interval of the next ping (wait).
NewTimer(k) ==
  [kind |-> k, on |-> k = "session", from |-> 0, next |-> 0, count |-> 0, never |-> FALSE,
   off |-> 0, fails |-> 0, status |-> IF k = "session" THEN "AUTHING" ELSE "NOTAUTHED",
   overrun |-> FALSE, age |-> 0, since |-> 0, away |-> 0, last |-> "new", wait |-> 0]
-------------------------------------------------------------------------------
\* Mutant of IsTimeout: the counter is taken never to wrap.
IsTimeoutPlain(src, dst, timeout) == src - dst > timeout

\* _wilddog_conn_isTimeout
IsTimeout(src, dst, timeout) ==
  IF src >= dst THEN src - dst > timeout
                ELSE src + (RANGE - 1 - dst) > timeout

TooOld(t) == IsTimeout(now, t.from, TIMEOUT) /\ ~t.never

\* 1 << n, which is undefined from SHIFT on: no bit is left, or any.
Bit[n \in Nat] == IF n = 0 THEN 1 ELSE 2 * Bit[n - 1]

Shifted(n) == IF n < SHIFT THEN {Bit[n]} ELSE {0} \cup {Bit[k] : k \in 0 .. SHIFT - 1}

Counted(n) == Lesser(n + 1, SHIFT)

\* _wilddog_conn_getNextSendTime, where the shift gave s
Interval(s) == (INTERVAL * s) % RANGE

NextSendTime(s) == (now + Interval(s)) % RANGE

SendDue(t) == now >= t.next

\* The comparison of _wilddog_conn_sessionRetry, of unsigned numbers.
RetryDue(t, s) == ~((now - Lesser(s, RETRY_MAX)) % RANGE < t.off)

\* _wilddog_conn_pingHandler
PingDue(t) == t.next = 0 \/ t.next < now
-------------------------------------------------------------------------------
(* What is written into a packet, the session, the keep-alive.               *)

Registered(t) == [t EXCEPT !.on = TRUE, !.from = now, !.age = 0]

Freed(t) == [t EXCEPT !.on = FALSE, !.from = 0, !.age = 0]

Gone(t) == [NewTimer(t.kind) EXCEPT !.status = t.status]

\* A packet is sent.
Sent(t) ==
  {[t EXCEPT !.count = Counted(@), !.next = NextSendTime(s), !.since = 0, !.last = "sent"] :
     s \in Shifted(Counted(t.count))}

\* Mutant of Requeued: what is queued waits for its time.
RequeuedKept(t) == [t EXCEPT !.since = 0, !.last = "new"]

\* The session is established: what is queued is to be sent at once, an observer as
\* if it were new.
Requeued(t) == [t EXCEPT !.next = now, !.since = 0, !.last = "new"]

Relisted(t) ==
  LET d == IF t.never THEN Registered(t) ELSE t
  IN  [Requeued(d) EXCEPT !.never = FALSE, !.count = 0]

\* The next ping is after w.
NextPing(t, w) ==
  [t EXCEPT !.next = (now + w) % RANGE, !.since = 0, !.last = "sent", !.wait = w]

NoPing(t) == [t EXCEPT !.next = 0, !.since = 0, !.last = "new", !.wait = 0]

\* _wilddog_conn_auth
NewAuth(t) == [Registered(t) EXCEPT !.status = "AUTHING"]

Tried(t) == [t EXCEPT !.count = Counted(@), !.away = 0]
-------------------------------------------------------------------------------
(* What trySync does with each.                                              *)

\* _wilddog_conn_retransmitPkt
PacketSync(t) ==
  CASE t.on /\ TooOld(t) -> {Gone(t)}
    [] t.on /\ ~TooOld(t) /\ SendDue(t) /\ t.status = "AUTHED" -> Sent(t)
    [] OTHER -> {t}

\* _wilddog_conn_retransmitHandler for p_auth that is too old ...
AuthTimedOut(t) ==
  LET lost == [Freed(t) EXCEPT !.status = "NOTAUTHED",
                               !.fails = Lesser(@ + 1, OFFLINE_TIMES)]
  IN  CASE ~(t.on /\ TooOld(t)) -> t
        [] t.on /\ TooOld(t) /\ lost.fails = OFFLINE_TIMES /\ t.off = 0 ->
             [lost EXCEPT !.off = now, !.count = 0, !.away = 0]
        [] OTHER -> lost

\* Mutant of Retried: the time of the retry is not kept.
RetriedUnstamped(t, s) ==
  IF t.status # "NOTAUTHED" \/ t.on \/ ~(t.off = 0 \/ RetryDue(t, s)) THEN t
  ELSE NewAuth(IF t.off = 0 THEN t ELSE Tried(t))

\* ... and _wilddog_conn_sessionRetry.
Retried(t, s) ==
  CASE t.status = "NOTAUTHED" /\ ~t.on /\ t.off = 0 -> NewAuth(t)
    [] t.status = "NOTAUTHED" /\ ~t.on /\ t.off # 0 /\ RetryDue(t, s) ->
         NewAuth([Tried(t) EXCEPT !.off = now])
    [] OTHER -> t

SessionSync(t) ==
  {Retried(d, s) : d \in {AuthTimedOut(t)}, s \in Shifted(AuthTimedOut(t).count)}

\* A ping that is too old goes (where the repo is not known, as one that is answered
\* 400), and the next one is sent at once if it is due.
PingTimedOut(t) ==
  CASE ~(t.on /\ TooOld(t)) -> t
    [] t.on /\ TooOld(t) /\ t.status = "INIT" -> NoPing(Freed(t))
    [] OTHER -> Freed(t)

KeepaliveSync(t) ==
  LET d == PingTimedOut(t)
  IN  IF d.status = "AUTHED" /\ ~d.on /\ PingDue(d)
      THEN Registered(IF d.next = 0 THEN NextPing(d, PING) ELSE d)
      ELSE d

Synced(t) ==
  CASE t.kind \in Packets    -> PacketSync(t)
    [] t.kind = "session"   -> SessionSync(t)
    [] t.kind = "keepalive" -> {KeepaliveSync(t)}

\* Time passes.  (The history of it is kept to the range of the counter.)
Aged(t, n) ==
  [t EXCEPT !.age   = IF t.on /\ ~t.never THEN Lesser(@ + n, RANGE) ELSE @,
            !.since = IF t.last = "sent" THEN Lesser(@ + n, RANGE) ELSE @,
            !.away  = IF t.off # 0 THEN Lesser(@ + n, RANGE) ELSE @]

\* trySync, and then _wilddog_syncTime and wilddog_increaseTime.
Cycle(n) ==
  /\ timer' \in {Aged(t, n) : t \in Synced(timer)}
  /\ now' = (now + n) % RANGE
  /\ wrapped' = (wrapped \/ now + n >= RANGE)
-------------------------------------------------------------------------------
(* What changes them and takes no time.                                      *)

Instantly(t) == timer' = t /\ UNCHANGED <<now, wrapped>>

\* A request or an observer is queued; in a session it is sent.
Send ==
  /\ timer.kind \in Packets /\ ~timer.on
  /\ \/ timer.status = "AUTHED" /\ \E t \in Sent(Registered(timer)) : Instantly(t)
     \/ timer.status # "AUTHED" /\ Instantly(Registered(timer))

\* It is answered and goes; an observer also with an error, or as the user asks.
Answer ==
  /\ timer.kind \in Packets /\ timer.on
  /\ Instantly(Gone(timer))

\* An observer is registered, or is told of a change.
Notified ==
  /\ timer.kind = "observer" /\ timer.on
  /\ Instantly([timer EXCEPT !.never = TRUE, !.age = 0, !.next = FAR, !.since = 0,
                             !.last = "acked"])

\* The ping is answered.
Pong ==
  /\ timer.kind = "keepalive" /\ timer.on
  /\ LET t == Freed(timer)
         lost == IF t.status = "INIT" THEN "INIT" ELSE "NOTAUTHED"
     IN  \/ \E w \in Intervals : Instantly(NextPing(t, w))         \* 200
         \/ Instantly([NoPing(t) EXCEPT !.status = lost])          \* 400
         \/ Instantly(NextPing(t, 0))                              \* 401, 406
         \/ Instantly([t EXCEPT !.status = "NOTAUTHED"])           \* 412
         \/ Instantly(t)                                           \* any other

\* The authentication is answered: the session is established ...
Established ==
  \/ /\ timer.kind = "session" /\ timer.on
     /\ Instantly([NewTimer("session") EXCEPT !.on = FALSE, !.status = "AUTHED"])
  \/ /\ timer.kind # "session" /\ timer.status = "NOTAUTHED"
     /\ LET t == [timer EXCEPT !.status = "AUTHED"]
        IN  \/ timer.kind = "request" /\ timer.on /\ Instantly(Requeued(t))
            \/ timer.kind = "observer" /\ timer.on /\ Instantly(Relisted(t))
            \/ (timer.kind = "keepalive" \/ ~timer.on) /\ Instantly(t)

\* ... the repo is not known (400), the server has too many sessions (412) ...
Refused ==
  \/ /\ timer.kind = "session" /\ timer.on
     /\ Instantly([Freed(timer) EXCEPT !.status = "INIT"])
  \/ /\ timer.kind # "session" /\ timer.status = "NOTAUTHED"
     /\ Instantly([timer EXCEPT !.status = "INIT"])

Overrun ==
  /\ timer.kind = "session" /\ timer.on
  /\ Instantly([Tried(Freed(timer)) EXCEPT !.off = now, !.status = "INIT",
                                           !.fails = Lesser(@ + 1, OFFLINE_TIMES),
                                           !.overrun = TRUE])

\* ... or it fails.
Denied ==
  /\ timer.kind = "session" /\ timer.on
  /\ Instantly([Freed(timer) EXCEPT !.status = "NOTAUTHED"])

\* The session is lost, as a 401 or a fourth timeout in a row says, also while p_auth
\* is on its way, or after a 400; wilddog_auth is called.
Lost ==
  /\ timer.status # "NOTAUTHED"
  /\ Instantly([timer EXCEPT !.status = "NOTAUTHED"])

Auth ==
  /\ timer.kind = "session"
  /\ Instantly(NewAuth(timer))

Init ==
  /\ now = 0 /\ wrapped = FALSE
  /\ timer \in {NewTimer(k) : k \in Kinds}

Next ==
  \/ \E n \in Steps : Cycle(n)
  \/ Send \/ Answer \/ Notified \/ Pong
  \/ Established \/ Refused \/ Overrun \/ Denied \/ Lost \/ Auth

Spec == Init /\ [][Next]_vars
-------------------------------------------------------------------------------
\* _wilddog_conn_isTimeout handles the wrap of the counter: a packet counts as
\* too old when it is, wherever the counter stands, or one unit later.
TimeoutAgrees ==
  timer.on /\ ~timer.never =>
    /\ IsTimeout(now, timer.from, TIMEOUT) => timer.age > TIMEOUT
    /\ timer.age > TIMEOUT + 1 => IsTimeout(now, timer.from, TIMEOUT)

\* How long what was sent waits for the next time.
Wait(t) == IF t.kind = "keepalive" THEN t.wait ELSE Interval(Bit[t.count])

\* Before the counter wraps, a packet that was sent is due again when its back-off
\* is over, however often the session was lost and established in the meantime, one
\* that was not sent in this session is due at once, and an observer that is
\* registered is left alone until FAR; a ping is due after the interval that was
\* chosen with the last answer.  (When the sum wraps they are due at once, again and
\* again; when the counter wraps before it is read, the ping waits for a whole range;
\* and where the shift overflows there is no back-off.)
DueAgrees ==
  ~wrapped /\ timer.count < SHIFT /\ now - timer.since + Wait(timer) < RANGE =>
    /\ timer.kind \in Packets /\ timer.on =>
         (SendDue(timer) <=> \/ timer.last = "new"
                             \/ timer.last = "sent" /\ timer.since >= Wait(timer)
                             \/ timer.last = "acked" /\ now >= FAR)
    /\ timer.kind = "keepalive" /\ timer.next # 0 =>
         (PingDue(timer) <=> timer.since > Wait(timer))

\* Comment in _wilddog_conn_sessionRetry: the time that is left may be negative,
\* "but it is unsigned, also bigger than offline time, so it works".  Before the
\* counter wraps it does: a retry is due when its wait is over, however early in
\* the uptime.  (Unless the server refused with 412, which may make the next wait
\* longer than the uptime, or the shift overflows.)
RetryAgrees ==
  timer.off # 0 /\ ~wrapped /\ ~timer.overrun /\ timer.count < SHIFT =>
    (RetryDue(timer, Bit[timer.count])
       <=> timer.away >= Lesser(Bit[timer.count], RETRY_MAX))
===============================================================================
