----------------------------- MODULE WilddogConn -----------------------------
(***************************************************************************)
(* The connection layer of one repo (src/wilddog_conn.c): the session and  *)
(* its authentication, the queues of requests and observers, and what one  *)
(* call of trySync does to them.                                           *)
(*                                                                         *)
(* The SDK is single threaded: the application calls an operation or       *)
(* trySync, and each runs to its end.  So each is one action, and the      *)
(* interleavings are those of the application's calls, the passing of time *)
(* and the packets that arrive, in any order, late, twice or never.        *)
(*                                                                         *)
(* conn is Wilddog_Conn_T.  The code's functions are operators from a conn *)
(* to a conn, and an action composes the ones its handler calls, in their  *)
(* order.  The absolute times of the code are timers here: what is left    *)
(* until a next send time, what has passed since a register time.          *)
(***************************************************************************)
EXTENDS PingPolicy, FiniteSets

CONSTANTS
  NUM_REQ,                  \* bound: requests submitted in a behaviour
  NUM_AUTH,                 \* bound: calls of wilddog_auth and wilddog_goOnline
  MAX_COUNT,                \* bound: transmissions of a packet told apart
  Kinds,                    \* the kinds of requests submitted
  Urls,                     \* the paths requests are about
  REENTRANT,                \* may the auth callback call wilddog_auth?
  LONG_UPTIME,              \* may the client run for more than 0xfffffff ms?
  AuthAnswers, PingAnswers, \* bounds: the answers to an authentication, a ping
  RETRANSMIT_INTERVAL,      \* WILDDOG_RETRANSMIT_DEFAULT_INTERVAL
  RETRANSMITE_TIME,         \* WILDDOG_RETRANSMITE_TIME
  SESSION_OFFLINE_TIMES,    \* WILDDOG_SESSION_OFFLINE_TIMES
  MAX_RETRY_TIME_INTERVAL,  \* WILDDOG_SESSION_MAX_RETRY_TIME_INTERVAL
  REQ_QUEUE_NUM,            \* WILDDOG_REQ_QUEUE_NUM
  TIMEOUT_LIMIT             \* the 3 of _wilddog_conn_retransmitHandler

\* set stands for every request that only waits for its answer: set, push,
\* remove, their onDisconnect variants and cancelDisconnect.
AllKinds == {"get", "set", "on", "off", "offline"}

\* What an answer to an authentication can be, as far as the callback tells it
\* apart, and the two that it leaves to the retransmission.
AuthKept  == {"SERVER_ERR", "BAD_PAYLOAD"}
AuthCodes == {"OK", "BAD_REQUEST", "PRECONDITION_FAIL", "OTHER"} \cup AuthKept

ASSUME ConnAssumption ==
  /\ NUM_REQ \in Nat /\ NUM_AUTH \in Nat /\ MAX_COUNT \in Nat \ {0}
  /\ Kinds \subseteq AllKinds /\ Urls # {} /\ REENTRANT \in BOOLEAN
  /\ LONG_UPTIME \in BOOLEAN
  /\ RETRANSMIT_INTERVAL \in Nat \ {0} /\ RETRANSMITE_TIME \in Nat
  /\ SESSION_OFFLINE_TIMES \in Nat \ {0} /\ MAX_RETRY_TIME_INTERVAL \in Nat
  /\ REQ_QUEUE_NUM \in Nat /\ TIMEOUT_LIMIT \in Nat
  /\ \A n \in 1 .. MAX_COUNT : RETRANSMIT_INTERVAL * 2^n \in Nat
  /\ AuthAnswers \subseteq AuthCodes /\ PingAnswers \subseteq PingCodes \ {"RECVTIMEOUT"}

VARIABLES
  conn,       \* the connection
  req,        \* what the application asked: kind, url and the call's result
  past_far    \* is the uptime beyond 0xfffffff ms?

vars == <<conn, req, past_far>>

Mid   == 1 .. NUM_REQ
FAR   == -1
UNSET == -1

Lesser(a, b) == IF a <= b THEN a ELSE b
-------------------------------------------------------------------------------
(***************************************************************************)
(* Packets.                                                                *)
(***************************************************************************)

\* Wilddog_Conn_Pkt_T: age is the time since d_register_time, wait the time
\* until d_next_send_time, FAR when that is 0xfffffff, never the flag
\* NEVERTIMEOUT.  While the flag is set nothing reads the register time.
Packets == [on : BOOLEAN, age : Nat, wait : Nat \cup {FAR}, count : Nat,
            never : BOOLEAN]

NoPacket == [on |-> FALSE, age |-> 0, wait |-> 0, count |-> 0, never |-> FALSE]
StoredPacket == [NoPacket EXCEPT !.on = TRUE]

NextSendTime(count) == RETRANSMIT_INTERVAL * 2^count

Transmit(p) ==
  LET n == Lesser(p.count + 1, MAX_COUNT)
  IN  [p EXCEPT !.count = n, !.wait = NextSendTime(n)]

SentPacket == Transmit(StoredPacket)

IsTimeout(p) == p.on /\ ~p.never /\ p.age > RETRANSMITE_TIME
SendDue(p)   == p.on /\ (p.wait = 0 \/ (p.wait = FAR /\ past_far))

\* Mutant of PacketTick: the time left wraps below zero.
PacketTickWraps(p) ==
  [p EXCEPT !.age = Lesser(p.age + 1, RETRANSMITE_TIME + 1), !.wait = p.wait - 1]

PacketTick(p) ==
  IF ~p.on THEN p
  ELSE [p EXCEPT !.age  = IF p.never THEN 0 ELSE Lesser(p.age + 1, RETRANSMITE_TIME + 1),
                 !.wait = IF p.wait > 0 THEN p.wait - 1 ELSE p.wait]
-------------------------------------------------------------------------------
(***************************************************************************)
(* The connection.  p_auth_user tells whether p_auth carries a user        *)
(* callback; pkt holds both lists, an observer being a packet whose        *)
(* request is "on"; offline is the time since d_offline_time, UNSET when   *)
(* that is 0.  Three fields are history: calls, how often the user         *)
(* callback of a request ran, dropped, the observers removeObserver has    *)
(* deleted, and auths, the number of wilddog_auth calls.                   *)
(***************************************************************************)
Conns == [status : Statuses, p_auth : Packets, p_auth_user : BOOLEAN,
          p_ping : Packets, ping : PingPolicies, pkt : [Mid -> Packets],
          d_count : Int, timeouts : Nat, authFails : Nat,
          offline : Nat \cup {UNSET}, retry : Nat,
          calls : [Mid -> Nat], dropped : SUBSET Mid, auths : Nat]

Queued(c)      == {m \in Mid : c.pkt[m].on}
IsObserver(m)  == req[m].kind = "on"
Observers(c)   == {m \in Queued(c) : IsObserver(m)}
Rest(c)        == {m \in Queued(c) : ~IsObserver(m)}

\* The user is told, and the requests leave their list: freed, and no longer
\* counted.  Of the callbacks, those of get and set are counted here: an
\* observer's runs many times, off and offline are given none.
HasCallback(kind) == kind \in {"get", "set"}

\* Mutant of Complete: the packets are freed and not counted out.
CompleteUncounted(c, M) ==
  [c EXCEPT !.calls = [m \in Mid |-> IF m \in M /\ HasCallback(req[m].kind)
                                     THEN c.calls[m] + 1 ELSE c.calls[m]],
            !.pkt = [m \in Mid |-> IF m \in M THEN NoPacket ELSE c.pkt[m]]]

\* Mutant of Complete: the packets stay in their list.
CompleteKept(c, M) ==
  [c EXCEPT !.calls = [m \in Mid |-> IF m \in M /\ HasCallback(req[m].kind)
                                     THEN c.calls[m] + 1 ELSE c.calls[m]]]

Complete(c, M) ==
  [c EXCEPT !.calls = [m \in Mid |-> IF m \in M /\ HasCallback(req[m].kind)
                                     THEN c.calls[m] + 1 ELSE c.calls[m]],
            !.pkt = [m \in Mid |-> IF m \in M THEN NoPacket ELSE c.pkt[m]],
            !.d_count = @ - Cardinality(M)]

\* _wilddog_conn_sessionInit and _wilddog_conn_auth: a new authentication
\* replaces the one in progress, whose callback then never runs.
NewAuth(c, user) ==
  [c EXCEPT !.p_auth = SentPacket, !.p_auth_user = user, !.status = "AUTHING"]

\* Mutant of Established: the offline time is left from the failures before.
EstablishedOffline(c) == [c EXCEPT !.status = "AUTHED", !.authFails = 0]

\* The session is up: every observer registers again and every stored packet
\* is due at once.
Established(c) ==
  [c EXCEPT !.status = "AUTHED", !.authFails = 0, !.offline = UNSET, !.retry = 0,
            !.pkt = [m \in Mid |->
               IF m \in Observers(c)
               THEN [StoredPacket EXCEPT !.age = IF c.pkt[m].never THEN 0 ELSE c.pkt[m].age]
               ELSE [c.pkt[m] EXCEPT !.wait = 0]]]

\* Resources overrun: stop, but note when and how often.
Overrun(c) ==
  [c EXCEPT !.status = "INIT", !.authFails = Lesser(@ + 1, SESSION_OFFLINE_TIMES),
            !.offline = 0, !.retry = Lesser(@ + 1, MAX_RETRY_TIME_INTERVAL)]

\* Mutant of AuthVerdict: an unknown error leaves the session as it is.
AuthVerdictIgnores(c, code) ==
  CASE code = "OK"                -> Established(c)
    [] code = "PRECONDITION_FAIL" -> Overrun(c)
    [] code = "BAD_REQUEST"       -> [c EXCEPT !.status = "INIT"]
    [] OTHER                      -> c

\* _wilddog_conn_auth_callback.  A 500 and an answer without both tokens leave
\* everything to the retransmission.  If the user callback calls wilddog_auth
\* (again), the packet freed at the end is the new one.
AuthVerdict(c, code) ==
  CASE code = "OK"                -> Established(c)
    [] code = "PRECONDITION_FAIL" -> Overrun(c)
    [] code = "BAD_REQUEST"       -> [c EXCEPT !.status = "INIT"]
    [] OTHER                      -> [c EXCEPT !.status = "NOTAUTHED"]

AuthCallback(c, code, again) ==
  LET d == AuthVerdict(c, code)
  IN  IF code \in AuthKept THEN c
      ELSE [d EXCEPT !.p_auth = NoPacket, !.p_auth_user = FALSE,
                     !.status = IF again THEN "AUTHING" ELSE d.status,
                     !.auths = IF again THEN c.auths + 1 ELSE c.auths]

\* _wilddog_conn_ping_callback.
PingCallback(c, code) ==
  [c EXCEPT !.status = StatusAfterPing(c.status, code),
            !.ping = OnPingAnswer(c.ping, code), !.p_ping = NoPacket]

\* The callbacks of the requests and observers, without the user callback's
\* arguments.  A 401 keeps the packet for the next session; a get or an
\* observer whose payload cannot be decoded is kept until it times out; an
\* observer stays after a 200 and goes after any error; a negative result of
\* the protocol layer ("IGNORED", a stale notification) reaches no callback.
DataCodes == {"OK", "UNAUTHORIZED", "ERROR", "BAD_PAYLOAD", "IGNORED"}

\* Mutant of Acked: the flag NEVERTIMEOUT is not set.
AckedUnflagged(c, m) ==
  [c EXCEPT !.pkt = [c.pkt EXCEPT ![m] = [c.pkt[m] EXCEPT !.wait = FAR]]]

\* Mutant of Acked: the next send time is left as it is.
AckedSoon(c, m) ==
  [c EXCEPT !.pkt = [c.pkt EXCEPT ![m] = [c.pkt[m] EXCEPT !.never = TRUE, !.age = 0]]]

Acked(c, m) ==
  [c EXCEPT !.pkt = [c.pkt EXCEPT ![m] =
     [c.pkt[m] EXCEPT !.never = TRUE, !.age = 0, !.wait = FAR]]]

Completes(m, code) ==
  \/ code = "ERROR"
  \/ code = "OK" /\ ~IsObserver(m)

DataCallback(c, m, code) ==
  CASE Completes(m, code)           -> Complete(c, {m})
    [] code = "OK" /\ IsObserver(m) -> Acked(c, m)
    [] code = "UNAUTHORIZED"        -> [c EXCEPT !.status = "NOTAUTHED"]
    [] OTHER                        -> c
-------------------------------------------------------------------------------
(***************************************************************************)
(* trySync.                                                                *)
(***************************************************************************)

\* Mutant of AuthTimeout: the failures are compared one too late.
AuthTimeoutLate(c, again) ==
  LET late == c.authFails = SESSION_OFFLINE_TIMES
  IN  [AuthCallback(c, "OTHER", again) EXCEPT
         !.timeouts  = c.timeouts + 1,
         !.authFails = Lesser(c.authFails + 1, SESSION_OFFLINE_TIMES),
         !.offline   = IF late /\ c.offline = UNSET THEN 0 ELSE c.offline]

\* The authentication in progress: given up when it is too old, else sent
\* again when it is due.
AuthTimeout(c, again) ==
  LET d     == AuthCallback(c, "OTHER", again)
      fails == Lesser(c.authFails + 1, SESSION_OFFLINE_TIMES)
      first == fails = SESSION_OFFLINE_TIMES /\ c.offline = UNSET
  IN  [d EXCEPT !.timeouts = c.timeouts + 1, !.authFails = fails,
                !.offline = IF first THEN 0 ELSE c.offline,
                !.retry = IF first THEN 0 ELSE c.retry]

RetransmitAuth(c, again) ==
  CASE c.status = "AUTHED"  -> [c EXCEPT !.p_auth = NoPacket, !.p_auth_user = FALSE]
    [] c.status # "AUTHED" /\ IsTimeout(c.p_auth) -> AuthTimeout(c, again)
    [] c.status # "AUTHED" /\ ~IsTimeout(c.p_auth) /\ SendDue(c.p_auth) ->
         [c EXCEPT !.p_auth = Transmit(c.p_auth)]
    [] OTHER -> c

\* _wilddog_conn_retransmitPkt, for the ping and for all observers and
\* requests: what is too old is completed with a timeout, or with a 400 when
\* the session is INIT, and what is due is sent again if there is a session.
RetransmitPing(c) ==
  CASE IsTimeout(c.p_ping) ->
         [PingCallback(c, IF c.status = "INIT" THEN "BAD_REQUEST" ELSE "RECVTIMEOUT")
            EXCEPT !.timeouts = c.timeouts + 1]
    [] ~IsTimeout(c.p_ping) /\ SendDue(c.p_ping) /\ c.status = "AUTHED" ->
         [c EXCEPT !.p_ping = Transmit(c.p_ping)]
    [] OTHER -> c

\* Mutant of RetransmitQueues: nothing times out without a session.
RetransmitQueuesInSession(c) ==
  LET late == {m \in Mid : c.status = "AUTHED" /\ IsTimeout(c.pkt[m])}
      due  == {m \in Mid \ late : c.status = "AUTHED" /\ SendDue(c.pkt[m])}
      sent == [c EXCEPT !.pkt = [m \in Mid |-> IF m \in due THEN Transmit(c.pkt[m])
                                               ELSE c.pkt[m]]]
  IN  [Complete(sent, late) EXCEPT !.timeouts = c.timeouts + Cardinality(late)]

RetransmitQueues(c) ==
  LET late == {m \in Mid : IsTimeout(c.pkt[m])}
      due  == {m \in Mid \ late : c.status = "AUTHED" /\ SendDue(c.pkt[m])}
  IN  [Complete(c, late) EXCEPT
         !.pkt = [m \in Mid |-> CASE m \in late -> NoPacket
                                  [] m \in due  -> Transmit(c.pkt[m])
                                  [] OTHER      -> c.pkt[m]],
         !.timeouts = c.timeouts + Cardinality(late)]

\* The end of _wilddog_conn_retransmitHandler, from the count of timeouts before
\* it: with more than TIMEOUT_LIMIT of them since the last packet received,
\* whatever the session was, it is to be established anew.
LoseSession(before, c) ==
  [c EXCEPT !.status = IF c.timeouts > before /\ c.timeouts > TIMEOUT_LIMIT
                       THEN "NOTAUTHED" ELSE c.status,
            !.timeouts = Lesser(c.timeouts, TIMEOUT_LIMIT + 1)]

\* While offline, retries back off exponentially.
Backoff(retry) == Lesser(2^retry, MAX_RETRY_TIME_INTERVAL)

\* Mutant of SessionRetry: no retry once the session counts as offline.
SessionRetryOnline(c) ==
  IF c.status = "NOTAUTHED" /\ ~c.p_auth.on /\ c.offline = UNSET
  THEN NewAuth(c, FALSE) ELSE c

SessionRetry(c) ==
  CASE c.status # "NOTAUTHED" \/ c.p_auth.on -> c
    [] c.status = "NOTAUTHED" /\ ~c.p_auth.on /\ c.offline = UNSET -> NewAuth(c, FALSE)
    [] /\ c.status = "NOTAUTHED" /\ ~c.p_auth.on
       /\ c.offline # UNSET /\ c.offline >= Backoff(c.retry) ->
         NewAuth([c EXCEPT !.retry = Lesser(@ + 1, MAX_RETRY_TIME_INTERVAL),
                           !.offline = 0], FALSE)
    [] OTHER -> c

PingHandler(c) ==
  IF c.status = "AUTHED" /\ ~c.p_ping.on /\ PingDue(c.ping)
  THEN [c EXCEPT !.p_ping = SentPacket, !.ping = OnPingSend(c.ping)]
  ELSE c

\* What trySync does to c after the packet, if any, is handled: the steps of
\* _wilddog_conn_retransmitHandler, the session, the ping.  (Each result is
\* bound once, for TLC to evaluate it once.)
Maintain(handled, again) ==
  \E c \in {handled} : \E a \in {RetransmitAuth(c, again)} :
    \E p \in {RetransmitPing(a)} : \E q \in {RetransmitQueues(p)} :
      \E h \in {LoseSession(c.timeouts, q)} : \E s \in {SessionRetry(h)} :
        conn' = PingHandler(s)

\* Whether an auth callback that runs now calls wilddog_auth.
Again == IF REENTRANT /\ conn.p_auth_user /\ conn.auths < NUM_AUTH
         THEN BOOLEAN ELSE {FALSE}

\* Nothing arrived in time.
SyncIdle ==
  /\ \E again \in Again : Maintain(conn, again)
  /\ UNCHANGED <<req, past_far>>

\* A packet arrived.  (A receive that fails otherwise changes nothing.)
Received == [conn EXCEPT !.timeouts = 0]

\* It matches no packet that waits: trySync returns at once.
SyncUnmatched ==
  /\ conn' = Received
  /\ UNCHANGED <<req, past_far>>

SyncAuth(code) ==
  /\ conn.p_auth.on
  /\ \E again \in Again :
       Maintain(AuthCallback(Received, code, again), again)
  /\ UNCHANGED <<req, past_far>>

SyncPing(code) ==
  /\ conn.p_ping.on
  /\ \E again \in Again : Maintain(PingCallback(Received, code), again)
  /\ UNCHANGED <<req, past_far>>

\* Only a packet that has been sent is answered, which a count of zero rules
\* out: a new session sends the observers whose count it resets in the same
\* trySync.
SyncData(m, code) ==
  /\ conn.pkt[m].on /\ conn.pkt[m].count > 0
  /\ code = "IGNORED" => IsObserver(m)
  /\ code = "BAD_PAYLOAD" => req[m].kind \in {"get", "on"}
  /\ \E again \in Again : Maintain(DataCallback(Received, m, code), again)
  /\ UNCHANGED <<req, past_far>>
-------------------------------------------------------------------------------
(***************************************************************************)
(* The application's calls.                                                *)
(***************************************************************************)

NoReq == [kind |-> "none", url |-> "none", ret |-> "none"]

\* A path matters to observers only.
UrlsOf(kind) == IF kind \in {"on", "off"} THEN Urls ELSE {"any"}

\* Message ids are taken in order, so the lists are in the order of the mids.
NextMid(m) ==
  /\ req[m] = NoReq
  /\ \A k \in 1 .. m - 1 : req[k] # NoReq

\* Mutant of DropObserver: the list of requests is searched.
DropRequest(c, url) ==
  LET first == {m \in Rest(c) : \A k \in Rest(c) : m <= k}
  IN  [c EXCEPT !.pkt = [m \in Mid |-> IF m \in first THEN NoPacket ELSE c.pkt[m]],
                !.dropped = @ \cup first]

\* The end of _wilddog_conn_removeObserver: the first observer for which
\* _wilddog_url_diff is TRUE is deleted, and d_count stays.
DropObserver(c, url) ==
  LET different == {m \in Observers(c) : req[m].url # url}
      first     == {m \in different : \A k \in different : m <= k}
  IN  [c EXCEPT !.pkt = [m \in Mid |-> IF m \in first THEN NoPacket ELSE c.pkt[m]],
                !.dropped = @ \cup first]

\* The operations: the packet is queued, and sent at once if there is a
\* session.  When sending fails the call reports it, wilddog_ct.c runs the user
\* callback with the error, and the packet stays queued.
Submit(m, kind, url, ret) ==
  LET sending == conn.status = "AUTHED"
      failed  == ret = "SENDERR" /\ HasCallback(kind)
      c == [conn EXCEPT
              !.pkt = [conn.pkt EXCEPT ![m] = IF sending THEN SentPacket ELSE StoredPacket],
              !.calls = [conn.calls EXCEPT ![m] = IF failed THEN 1 ELSE 0],
              !.d_count = @ + 1]
  IN  /\ NextMid(m)
      /\ conn.d_count <= REQ_QUEUE_NUM
      /\ ret = "SENDERR" => sending
      /\ conn' = IF kind = "off" THEN DropObserver(c, url) ELSE c
      /\ req' = [req EXCEPT ![m] = [kind |-> kind, url |-> url, ret |-> ret]]
      /\ UNCHANGED past_far

\* Too many requests: nothing is queued, and the user callback gets the error.
Refuse(m, kind, url) ==
  /\ NextMid(m)
  /\ conn.d_count > REQ_QUEUE_NUM
  /\ req' = [req EXCEPT ![m] = [kind |-> kind, url |-> url, ret |-> "QUEUEFULL"]]
  /\ conn' = [conn EXCEPT !.calls = [conn.calls EXCEPT ![m] =
                                        IF HasCallback(kind) THEN 1 ELSE 0]]
  /\ UNCHANGED past_far

\* wilddog_auth and wilddog_goOnline.  Whether there is a user callback is told
\* apart only if it may call wilddog_auth again.
Auth ==
  /\ conn.auths < NUM_AUTH
  /\ conn' = NewAuth([conn EXCEPT !.auths = @ + 1], REENTRANT)
  /\ UNCHANGED <<req, past_far>>

\* Time passes.
Tick ==
  /\ conn' = [conn EXCEPT
       !.p_auth = PacketTick(@), !.p_ping = PacketTick(@), !.ping = PingTick(@),
       !.pkt = [m \in Mid |-> PacketTick(conn.pkt[m])],
       !.offline = IF @ = UNSET THEN UNSET ELSE Lesser(@ + 1, MAX_RETRY_TIME_INTERVAL)]
  /\ past_far' \in {past_far, past_far \/ LONG_UPTIME}
  /\ UNCHANGED req

\* _wilddog_conn_init: a zeroed structure, and the first authentication.
Init ==
  /\ conn = [status |-> "AUTHING", p_auth |-> SentPacket, p_auth_user |-> FALSE,
             p_ping |-> NoPacket, ping |-> InitialPing,
             pkt |-> [m \in Mid |-> NoPacket], d_count |-> 0, timeouts |-> 0,
             authFails |-> 0, offline |-> UNSET, retry |-> 0,
             calls |-> [m \in Mid |-> 0], dropped |-> {}, auths |-> 0]
  /\ req = [m \in Mid |-> NoReq]
  /\ past_far = FALSE

Operation ==
  \E m \in Mid, kind \in Kinds : \E url \in UrlsOf(kind) :
    \/ \E ret \in {"NOERR", "SENDERR"} : Submit(m, kind, url, ret)
    \/ Refuse(m, kind, url)

TrySync ==
  \/ SyncIdle
  \/ SyncUnmatched
  \/ \E code \in AuthAnswers : SyncAuth(code)
  \/ \E code \in PingAnswers : SyncPing(code)
  \/ \E m \in Mid, code \in DataCodes : SyncData(m, code)

Next == Operation \/ Auth \/ TrySync \/ Tick

Spec == Init /\ [][Next]_vars

\* The application calls trySync again and again, and again and again nothing
\* has arrived; time passes.  Nothing is assumed of the server or the network.
FairSpec == Spec /\ WF_vars(SyncIdle) /\ WF_vars(Tick)
-------------------------------------------------------------------------------
Requests == [kind : AllKinds \cup {"none"}, url : Urls \cup {"any", "none"},
             ret : {"none", "NOERR", "SENDERR", "QUEUEFULL"}]

TypeOK == conn \in Conns /\ req \in [Mid -> Requests] /\ past_far \in BOOLEAN

\* An authentication is in progress exactly while the session is AUTHING, and
\* an established session has none: the handlers of answers, timeouts, retries
\* and wilddog_auth replace, free and create p_auth in step with the status,
\* else nothing would ever answer or time out the session.
SessionConsistent ==
  /\ conn.status = "AUTHING" => conn.p_auth.on
  /\ conn.status = "AUTHED" => ~conn.p_auth.on

\* Backing off ends with the session it was for: an established session has no
\* failure, offline time or retry left over that would delay its successor.
AuthedIsOnline ==
  conn.status = "AUTHED" =>
    conn.authFails = 0 /\ conn.offline = UNSET /\ conn.retry = 0

\* Retries back off only after enough failures in a row, or after the server
\* is overrun, and then always: d_auth_fail_count, d_offline_time and
\* d_online_retry_count are written by four different handlers.
BackoffConsistent ==
  /\ conn.authFails >= SESSION_OFFLINE_TIMES => conn.offline # UNSET
  /\ conn.offline # UNSET => conn.authFails > 0
  /\ conn.retry > 0 => conn.offline # UNSET

\* d_count is the number of packets in the two lists, plus the observers that
\* removeObserver deleted without counting them.
CountBookkeeping ==
  conn.d_count = Cardinality(Queued(conn)) + Cardinality(conn.dropped)

\* The user callback of a get or set runs once: never while the request is
\* queued, and not twice however late or often it is answered, unless the call
\* itself reported a failure to send (then it ran already).
CalledOnce ==
  \A m \in Mid :
    HasCallback(req[m].kind) =>
      conn.calls[m] = (IF req[m].ret # "NOERR" THEN 1 ELSE 0)
                      + (IF req[m].ret # "QUEUEFULL" /\ ~conn.pkt[m].on THEN 1 ELSE 0)

\* No packet is forgotten in its list: one that is never sent again, or never
\* times out, is an observer the server has acknowledged since the session was
\* established, and one that was stored for want of a session is due at once.
NothingForgotten ==
  \A m \in Queued(conn) :
    LET p == conn.pkt[m] IN
    /\ p.wait = FAR => p.never
    /\ p.never => IsObserver(m) /\ p.count > 0
    /\ p.count = 0 => p.wait = 0 /\ conn.status # "AUTHED"

\* A session that is lost is not given up: again and again an authentication is
\* under way, unless the session is up or the server refused it.  Timeouts,
\* retries that back off and answers in between all have to leave a next try.
KeepsTrying == []<>(conn.status \in {"AUTHED", "INIT"} \/ conn.p_auth.on)

\* Comment in the observer callback: "change pkt to never timeout, next send time
\* to maximum".  In one session an acknowledged observer is not sent again, as
\* long as the uptime has not passed that maximum.
AcknowledgedIsQuiet ==
  [][\A m \in Mid :
       ~past_far' /\ conn.pkt[m].never /\ conn'.pkt[m].never /\ conn'.pkt[m].on
         => conn'.pkt[m].count = conn.pkt[m].count]_vars

\* Requests: the promise this layer implements (Requests.tla).
Life(m) ==
  CASE req[m].kind = "none" -> "idle"
    [] req[m].kind # "none" /\ req[m].ret = "QUEUEFULL" -> "refused"
    [] req[m].ret \in {"NOERR", "SENDERR"} /\ IsObserver(m) ->
         IF ~conn.pkt[m].on THEN "ended"
         ELSE IF conn.pkt[m].never THEN "subscribed" ELSE "subscribing"
    [] OTHER -> IF conn.pkt[m].on THEN "waiting" ELSE "done"

Promise == INSTANCE Requests WITH Req <- Mid, life <- [m \in Mid |-> Life(m)]

\* The connection implements the promise: no step of it revives, loses or
\* finishes a request in another way than Requests allows.
RequestsKept == Promise!Spec

\* And it keeps the promise that every request ends: whatever the server and
\* the network do, a request is completed and an observer acknowledged or ended.
RequestsEnd == Promise!Ends
===============================================================================
