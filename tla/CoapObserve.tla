----------------------------- MODULE CoapObserve -----------------------------
(***************************************************************************)
(* One observed path, from the connection layer through the CoAP adapter   *)
(* (src/networking/coap/wilddog_protocol_coap.c) to the server and back:   *)
(* registering the observer in each session, matching notifications by     *)
(* token, and telling new ones from old by the observe counter.            *)
(*                                                                         *)
(* The network loses, repeats and reorders messages.  The server is not    *)
(* part of the code: it keeps the subscriptions of its sessions, sends the *)
(* newest version of the data to each until that is acknowledged, and      *)
(* forgets sessions at will.  A version is told by its number; the observe *)
(* counter that goes with it starts anywhere in each session and wraps.    *)
(* One retransmission interval is one Retransmit, and the time an observer *)
(* may stay unanswered one Timeout.                                        *)
(***************************************************************************)
EXTENDS Integers, FiniteSets

CONSTANTS
  HALF,        \* half of what the observe counter counts to: 2^23 in the code
  Bases,       \* where the counter may start in a session
  MAX_SESS, MAX_TOKEN, MAX_VER,  \* bounds: sessions, observers, versions
  NET,         \* bound: messages on their way
  FAILURES     \* sending fails, payloads do not decode, the server refuses?

ASSUME ObserveAssumption ==
  /\ HALF \in Nat \ {0} /\ Bases \subseteq 0 .. 2 * HALF - 1
  /\ {MAX_SESS, MAX_TOKEN, MAX_VER, NET} \subseteq Nat \ {0}
  /\ FAILURES \in BOOLEAN

VARIABLES
  conn,  \* d_session: whether AUTHED, and the number of the session
  obs,   \* the packet in p_observer_list
  net,   \* the messages on their way
  srv    \* external: the server

vars == <<conn, obs, net, srv>>

\* The counter is three bytes.
RANGE == 2 * HALF

\* What is compared has to be less than half the counter apart: a message does
\* not arrive, nor does the listener fall behind, by more versions.
LAG == HALF - 1

\* The packet: its token, p_proto_data (whether allocated, and last_index) and
\* NEVERTIMEOUT.  History variables: told, the version the listener was told last;
\* kept, the one that last_index came with; stale, since the session was
\* established the packet was answered from an older one; missed, a notification was acknowledged that could not be decoded or not
\* be compared, or one with the counter 0 told an older version.
NoObs == [on |-> FALSE, tok |-> 0, data |-> FALSE, last |-> 0, acked |-> FALSE,
          told |-> 0, kept |-> 0, stale |-> FALSE, missed |-> FALSE]
-------------------------------------------------------------------------------
(* The server.  A subscription is a token and session; acked tells whether   *)
(* the newest version was acknowledged.                                      *)

Index(s, v) == (srv.base[s] + v) % RANGE

Note(t, s, code) ==
  [kind |-> "note", tok |-> t, sess |-> s, code |-> code, ver |-> srv.ver,
   idx |-> IF code = "ok" THEN Index(s, srv.ver) ELSE 0]

Send(m) == Cardinality(net \cup {m}) <= NET /\ net' = net \cup {m}

\* A registration arrives; it stays on the network to arrive again.
Register(m) ==
  /\ m.kind = "reg"
  /\ IF m.sess \in srv.live
     THEN \/ /\ Send(Note(m.tok, m.sess, "ok"))
             /\ srv' = [srv EXCEPT !.subs = @ \cup {<<m.tok, m.sess>>},
                                   !.acked = @ \ {<<m.tok, m.sess>>}]
          \/ FAILURES /\ Send(Note(m.tok, m.sess, "err")) /\ UNCHANGED srv
     ELSE Send(Note(m.tok, m.sess, "unauthorized")) /\ UNCHANGED srv
  /\ UNCHANGED <<conn, obs>>

Notify(sub) ==
  /\ sub \in srv.subs \ srv.acked
  /\ Send(Note(sub[1], sub[2], "ok"))
  /\ UNCHANGED <<conn, obs, srv>>

\* The data changes.
Change ==
  /\ srv.ver < MAX_VER
  /\ \A m \in net : m.kind = "note" => srv.ver - m.ver < LAG
  /\ obs.on /\ obs.last # 0 => srv.ver - obs.kept < LAG
  /\ srv' = [srv EXCEPT !.ver = @ + 1, !.acked = {}]
  /\ UNCHANGED <<conn, obs, net>>

\* The server drops a session, which the client may not know.
Expire(s) ==
  /\ s \in srv.live
  /\ srv' = [srv EXCEPT !.live = @ \ {s}, !.subs = {u \in @ : u[2] # s}]
  /\ UNCHANGED <<conn, obs, net>>

Lose(m) == net' = net \ {m} /\ UNCHANGED <<conn, obs, srv>>
-------------------------------------------------------------------------------
(* The client.                                                               *)

Reg == [kind |-> "reg", tok |-> obs'.tok, sess |-> conn.sess]

\* _wilddog_coap_send_addObserver: the observer's data is kept only when the
\* packet was sent, or stored without a session.
On ==
  /\ ~obs.on /\ obs.tok < MAX_TOKEN
  /\ \E sent \in IF FAILURES /\ conn.authed THEN BOOLEAN ELSE {TRUE} :
       /\ obs' = [NoObs EXCEPT !.on = TRUE, !.tok = obs.tok + 1, !.data = sent]
       /\ IF sent /\ conn.authed THEN Send(Reg) ELSE UNCHANGED net
  /\ UNCHANGED <<conn, srv>>

\* Mutant of Reset: it is kept.
ResetNot(o) == o

\* _wilddog_coap_send_retransmit forgets the last index.
Reset(o) == IF o.data THEN [o EXCEPT !.last = 0, !.kept = 0] ELSE o

\* The packet is sent again, for the session there is now.
Retransmit ==
  /\ obs.on /\ ~obs.acked /\ conn.authed
  /\ obs' = Reset(obs)
  /\ Send(Reg)
  /\ UNCHANGED <<conn, srv>>

\* Unanswered for too long: the callback gets the error and the packet goes.
Remove(o) == [NoObs EXCEPT !.tok = o.tok]

Timeout ==
  /\ obs.on /\ ~obs.acked
  /\ obs' = Remove(obs)
  /\ UNCHANGED <<conn, net, srv>>

\* Mutant of Anew: it stays acknowledged.
AnewAcked(o) == [o EXCEPT !.stale = FALSE, !.missed = FALSE]

\* A session established: the observer has to be registered again.
Anew(o) == [o EXCEPT !.acked = FALSE, !.stale = FALSE, !.missed = FALSE]

Established ==
  /\ ~conn.authed /\ conn.sess < MAX_SESS
  /\ conn' = [authed |-> TRUE, sess |-> conn.sess + 1]
  /\ obs' = Anew(obs)
  /\ \E b \in Bases :
       srv' = [srv EXCEPT !.live = @ \cup {conn'.sess}, !.base[conn'.sess] = b]
  /\ UNCHANGED net

\* Pings or timeouts end the session on the client's side.
LoseSession ==
  /\ conn.authed /\ conn' = [conn EXCEPT !.authed = FALSE]
  /\ UNCHANGED <<obs, net, srv>>

\* Mutant of IsObserveNew: any index that is greater.
IsObserveGreater(old, new) == old < new

\* _wilddog_coap_isObserveNew
IsObserveNew(old, new) ==
  \/ old < new /\ new - old < HALF
  \/ old > new /\ old - new > HALF

\* _wilddog_coap_recv_handlePkt: whether the notification is handed on.  One
\* without a counter, or with 0, always is.
Taken(o, m) == m.idx = 0 \/ (o.data /\ IsObserveNew(o.last, m.idx))

\* _wilddog_conn_addObserver_callback for a notification that is handed on.
Answered(o, m) ==
  LET seen == [o EXCEPT !.last = IF m.idx = 0 THEN @ ELSE m.idx,
                        !.kept = IF m.idx = 0 THEN @ ELSE m.ver,
                        !.stale = @ \/ m.sess # conn.sess \/ ~conn.authed]
  IN  CASE m.code = "ok" ->
             {[seen EXCEPT !.acked = TRUE, !.told = m.ver,
                           !.missed = @ \/ (m.idx = 0 /\ m.ver < o.told)]}
             \cup IF FAILURES THEN {[seen EXCEPT !.missed = TRUE]} ELSE {}
        [] m.code = "unauthorized" -> {seen}
        [] m.code = "err" -> {Remove(o)}

\* A notification arrives, and may arrive again.  Its acknowledgement, whether
\* it was handed on or not, or the reset of one for nobody, may be lost.
Recv(m) ==
  LET sub   == <<m.tok, m.sess>>
      match == obs.on /\ m.tok = obs.tok
      reply == IF ~match THEN [srv EXCEPT !.subs = @ \ {sub}]
               ELSE IF m.ver = srv.ver THEN [srv EXCEPT !.acked = @ \cup {sub}]
               ELSE srv
  IN  /\ m.kind = "note"
      /\ IF match /\ Taken(obs, m)
         THEN /\ obs' \in Answered(obs, m)
              /\ conn' = IF m.code = "unauthorized" THEN [conn EXCEPT !.authed = FALSE] ELSE conn
         ELSE /\ obs' = IF match /\ (obs.last = 0 \/ ~obs.data)
                        THEN [obs EXCEPT !.missed = TRUE] ELSE obs
              /\ UNCHANGED conn
      /\ net' \in {net, net \ {m}}
      /\ srv' \in {srv, reply}

Init ==
  /\ conn = [authed |-> FALSE, sess |-> 0]
  /\ obs = NoObs
  /\ net = {}
  /\ srv = [ver |-> 1, base |-> [s \in 1..MAX_SESS |-> 0], live |-> {}, subs |-> {}, acked |-> {}]

Next ==
  \/ On \/ Retransmit \/ Timeout \/ Established \/ LoseSession \/ Change
  \/ \E m \in net : Register(m) \/ Recv(m) \/ Lose(m)
  \/ \E u \in srv.subs : Notify(u)
  \/ \E s \in srv.live : Expire(s)

\* The newest version of the session, acknowledged.
Delivery ==
  \E m \in net :
    /\ m.kind = "note" /\ m.sess = conn.sess /\ m.ver = srv.ver
    /\ Recv(m) /\ srv'.acked # srv.acked

\* trySync is called again and again, and what the server sends arrives if it is
\* sent often enough.  A network that stays full is emptied.
Fairness ==
  /\ WF_vars(Timeout) /\ WF_vars(Established)
  /\ WF_vars(Cardinality(net) = NET /\ \E m \in net : Lose(m))
  /\ SF_vars(Notify(<<obs.tok, conn.sess>>)) /\ SF_vars(Delivery)

Spec == Init /\ [][Next]_vars /\ Fairness
-------------------------------------------------------------------------------
\* Comment in _wilddog_conn_auth_callback: a session established, the observer
\* has to be registered again.  An observer that is acknowledged, and so is not
\* sent again, is subscribed in the session.
RegisteredAnew ==
  obs.on /\ obs.acked /\ conn.authed /\ conn.sess \in srv.live
    => <<obs.tok, conn.sess>> \in srv.subs

\* It is, unless the packet was answered from an older session meanwhile.
AckedMeansSubscribed == obs.stale \/ RegisteredAnew

\* A listener is not told an older version after a newer one while the session it
\* was registered in answers: whatever the network repeats and reorders, and when
\* the counter wraps.  (What it was told is compared only when its counter was
\* kept: not if that was 0, and not across a retransmission, which forgets it.)
NeverBackwards ==
  [][\A m \in net :
       /\ Recv(m) /\ m.idx # 0 /\ obs'.on /\ ~obs'.stale
       /\ obs.last # 0 /\ obs.told <= obs.kept
       => obs'.told >= obs.told]_vars

\* An observer of a session that lasts is told the newest version in the end, or
\* that it failed: no notification is taken for an old one for ever.  (Unless one
\* was acknowledged and lost that had no payload to decode, or a counter in the
\* upper half when the last one was forgotten.)
CatchesUp ==
  <>[](/\ obs.on /\ ~obs.stale /\ ~obs.missed /\ conn.authed /\ conn.sess \in srv.live
       => obs.told = srv.ver)
===============================================================================
