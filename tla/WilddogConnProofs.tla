-------------------------- MODULE WilddogConnProofs --------------------------
(***************************************************************************)
(* The connection's invariants, for every queue length, retransmission and *)
(* retry time, number of requests and set of answers.                      *)
(*                                                                         *)
(* An operation or a trySync is a pipeline of operators from a conn to a   *)
(* conn, and most of them break no part of the invariant that the next one *)
(* needs.  So the invariant is a predicate on a conn, Sound, with one lemma *)
(* for each operator, and the proof that a step keeps it follows the       *)
(* pipeline.                                                               *)
(***************************************************************************)
EXTENDS WilddogConn, FiniteSetTheorems, TLAPS

-----------------------------------------------------------------------------
(* The operators of the ping policy keep what is true of its record.           *)

\* Halving rounds down: twice the half is at most the whole.
LEMMA Halving ==
  ASSUME NEW n \in Nat
  PROVE  n \div 2 \in Nat /\ 2 * (n \div 2) <= n
  OBVIOUS

\* The part of the invariant that is about the policy record alone.
PolicyInv(p) ==
  /\ p \in PingPolicies
  /\ p.interval >= PING_INTERVAL - 2 * PING_DELTA + 2 * p.delta
  /\ p.delta <= PING_DELTA
  /\ p.interval <= MAX_PING_INTERVAL \/ p.interval < MAX_PING_INTERVAL + PING_DELTA
  /\ p.left <= MAX_PING_INTERVAL + PING_DELTA
  /\ p.type = "LONG" => p.set

LEMMA InitialPolicy == PolicyInv(InitialPing)
  BY PingAssumption DEF PolicyInv, InitialPing, PingPolicies, PingTypes

LEMMA GrowKeepsPolicy ==
  ASSUME NEW p, PolicyInv(p)
  PROVE  PolicyInv(PingGrow(p))
  BY PingAssumption DEF PolicyInv, PingGrow, PingPolicies, PingTypes

LEMMA ShrinkKeepsPolicy ==
  ASSUME NEW p, PolicyInv(p)
  PROVE  PolicyInv(PingShrink(p))
<1> DEFINE q == PingShrink(p)
<1>0. /\ PING_INTERVAL \in Nat /\ PING_DELTA \in Nat /\ MAX_PING_INTERVAL \in Nat
      /\ 2 * PING_DELTA < PING_INTERVAL /\ PING_INTERVAL <= MAX_PING_INTERVAL
  BY PingAssumption
<1>1. p.interval \in Int /\ p.delta \in Nat
  BY DEF PolicyInv, PingPolicies
<1>2. CASE p.delta = 0
  <2>1. q = [interval |-> PING_INTERVAL, delta |-> PING_DELTA,
             type |-> "LONG", set |-> TRUE, left |-> 0]
    BY <1>2 DEF PingShrink
  <2>2. QED
    BY <1>0, <2>1 DEF PolicyInv, PingPolicies, PingTypes
<1>3. CASE p.delta # 0
  <2>1. q = [interval |-> p.interval - p.delta, delta |-> p.delta \div 2,
             type |-> "LONG", set |-> TRUE, left |-> 0]
    BY <1>3 DEF PingShrink
  <2>2. p.delta \div 2 \in Nat /\ 2 * (p.delta \div 2) <= p.delta
    BY <1>1, Halving
  <2>3. QED
    BY <1>0, <1>1, <1>3, <2>1, <2>2 DEF PolicyInv, PingPolicies, PingTypes
<1>4. QED
  BY <1>2, <1>3

LEMMA AnswerKeepsPolicy ==
  ASSUME NEW p, NEW code, PolicyInv(p)
  PROVE  PolicyInv(OnPingAnswer(p, code))
  BY InitialPolicy, GrowKeepsPolicy, ShrinkKeepsPolicy DEF OnPingAnswer

LEMMA SendKeepsPolicy ==
  ASSUME NEW p, PolicyInv(p)
  PROVE  PolicyInv(OnPingSend(p))
  BY PingAssumption DEF PolicyInv, OnPingSend, PingPolicies, PingTypes

LEMMA TickKeepsPolicy ==
  ASSUME NEW p, PolicyInv(p)
  PROVE  PolicyInv(PingTick(p))
  BY PingAssumption DEF PolicyInv, PingTick, PingPolicies, PingTypes

-----------------------------------------------------------------------------
(* The connection.                                                            *)

\* The session's part of the invariant.  Only an auth callback that calls
\* wilddog_auth can leave the session AUTHING without an authentication.
Session(c) ==
  /\ ~REENTRANT => (c.status = "AUTHING" => c.p_auth.on)
  /\ c.status = "AUTHED" => /\ ~c.p_auth.on
                            /\ c.authFails = 0 /\ c.offline = UNSET /\ c.retry = 0

BackingOff(c) ==
  /\ c.authFails >= SESSION_OFFLINE_TIMES => c.offline # UNSET
  /\ c.offline # UNSET => c.authFails > 0
  /\ c.retry > 0 => c.offline # UNSET

Sound(c) == c \in Conns /\ PolicyInv(c.ping) /\ Session(c) /\ BackingOff(c)

LEMMA PacketTypes ==
  /\ NoPacket \in Packets /\ ~NoPacket.on
  /\ StoredPacket \in Packets /\ SentPacket \in Packets /\ SentPacket.on
  /\ \A p \in Packets : /\ Transmit(p) \in Packets /\ Transmit(p).on = p.on
                        /\ PacketTick(p) \in Packets /\ PacketTick(p).on = p.on
<1>1. NoPacket \in Packets /\ ~NoPacket.on
  BY DEF NoPacket, Packets
<1>2. StoredPacket \in Packets /\ StoredPacket.on
  BY <1>1 DEF StoredPacket, Packets
<1>3. ASSUME NEW p \in Packets
      PROVE  Transmit(p) \in Packets /\ Transmit(p).on = p.on
  <2> DEFINE n == Lesser(p.count + 1, MAX_COUNT)
  <2>1. n \in 1 .. MAX_COUNT
    BY ConnAssumption DEF Lesser, Packets
  <2>2. n \in Nat /\ NextSendTime(n) \in Nat
    BY <2>1, ConnAssumption DEF NextSendTime
  <2>3. QED
    BY <2>2 DEF Transmit, Packets
<1>4. ASSUME NEW p \in Packets
      PROVE  PacketTick(p) \in Packets /\ PacketTick(p).on = p.on
  <2>1. CASE ~p.on
    BY <2>1 DEF PacketTick
  <2>2. CASE p.on
    <3> DEFINE age  == IF p.never THEN 0 ELSE Lesser(p.age + 1, RETRANSMITE_TIME + 1)
               wait == IF p.wait > 0 THEN p.wait - 1 ELSE p.wait
    <3>1. PacketTick(p) = [p EXCEPT !.age = age, !.wait = wait]
      BY <2>2 DEF PacketTick
    <3>2. age \in Nat
      BY ConnAssumption DEF Lesser, Packets
    <3>3. wait \in Nat \cup {FAR}
      BY DEF Packets, FAR
    <3> HIDE DEF age, wait
    <3>4. QED
      BY <3>1, <3>2, <3>3 DEF Packets
  <2>3. QED
    BY <2>1, <2>2
<1>5. QED
  BY <1>1, <1>2, <1>3, <1>4 DEF SentPacket

LEMMA SubsetsOfMid ==
  ASSUME NEW M \in SUBSET Mid
  PROVE  IsFiniteSet(M) /\ Cardinality(M) \in Nat
<1>1. IsFiniteSet(Mid)
  BY ConnAssumption, FS_Interval, 1 \in Int, NUM_REQ \in Int DEF Mid
<1>2. QED
  BY <1>1, FS_Subset, FS_CardinalityType

LEMMA NewAuthSound ==
  ASSUME NEW c, Sound(c), NEW user \in BOOLEAN
  PROVE  Sound(NewAuth(c, user))
  BY PacketTypes DEF Sound, NewAuth, Conns, Session, BackingOff, Statuses

\* What an answer to the authentication leaves, p_auth apart.
Settled(c) ==
  /\ c \in Conns /\ PolicyInv(c.ping) /\ BackingOff(c)
  /\ c.status # "AUTHING"
  /\ c.status = "AUTHED" => c.authFails = 0 /\ c.offline = UNSET /\ c.retry = 0

LEMMA EstablishedSettled ==
  ASSUME NEW c, Sound(c)
  PROVE  Settled(Established(c))
<1> DEFINE registered(m) ==
             [StoredPacket EXCEPT !.age = IF c.pkt[m].never THEN 0 ELSE c.pkt[m].age]
           P == [m \in Mid |-> IF m \in Observers(c) THEN registered(m)
                                ELSE [c.pkt[m] EXCEPT !.wait = 0]]
           e == Established(c)
<1>1. ASSUME NEW m \in Mid
      PROVE  registered(m) \in Packets /\ [c.pkt[m] EXCEPT !.wait = 0] \in Packets
  <2>1. c.pkt[m] \in Packets
    BY DEF Sound, Conns
  <2>2. QED
    BY <2>1, PacketTypes DEF Packets
<1>2. P \in [Mid -> Packets]
  BY <1>1
<1>3. e = [c EXCEPT !.status = "AUTHED", !.authFails = 0, !.offline = UNSET,
                    !.retry = 0, !.pkt = P]
  BY DEF Established, Sound, Conns
<1> HIDE DEF P, e
<1>4. e \in Conns /\ e.ping = c.ping
  BY <1>2, <1>3 DEF Sound, Conns, Statuses
<1>5. e.status = "AUTHED" /\ e.authFails = 0 /\ e.offline = UNSET /\ e.retry = 0
  BY <1>3 DEF Sound, Conns
<1>6. Settled(e)
  BY <1>4, <1>5, ConnAssumption DEF Sound, Settled, BackingOff
<1>7. QED
  BY <1>6 DEF e

\* What the session's part of the invariant is about is not touched.
LEMMA SameSession ==
  ASSUME NEW c, Sound(c), NEW d \in Conns,
         d.status \in {c.status, "NOTAUTHED"}, d.p_auth.on = c.p_auth.on,
         PolicyInv(d.ping), d.authFails = c.authFails,
         d.offline = c.offline, d.retry = c.retry
  PROVE  Sound(d)
  BY DEF Sound, Session, BackingOff

LEMMA OverrunSound ==
  ASSUME NEW c, Sound(c)
  PROVE  Sound(Overrun(c)) /\ Overrun(c).status = "INIT"
<1> DEFINE f == Lesser(c.authFails + 1, SESSION_OFFLINE_TIMES)
           r == Lesser(c.retry + 1, MAX_RETRY_TIME_INTERVAL)
           d == Overrun(c)
<1>1. f \in Nat /\ f > 0 /\ r \in Nat
  BY ConnAssumption DEF Sound, Conns, Lesser
<1>2. d = [c EXCEPT !.status = "INIT", !.authFails = f, !.offline = 0, !.retry = r]
  BY DEF Overrun, Sound, Conns
<1> HIDE DEF f, r, d
<1>3. d \in Conns /\ d.ping = c.ping
  BY <1>1, <1>2 DEF Sound, Conns, Statuses
<1>4. d.status = "INIT" /\ d.authFails = f /\ d.offline = 0
  BY <1>2 DEF Sound, Conns
<1>5. Sound(d) /\ d.status = "INIT"
  BY <1>1, <1>3, <1>4 DEF Sound, Session, BackingOff, UNSET
<1>6. QED
  BY <1>5 DEF d

LEMMA AuthVerdictSettled ==
  ASSUME NEW c, Sound(c), NEW code
  PROVE  Settled(AuthVerdict(c, code)) /\ AuthVerdict(c, code).auths = c.auths
<1> DEFINE v == AuthVerdict(c, code)
<1>1. CASE code = "OK"
  <2>1. v = Established(c)
    BY <1>1 DEF AuthVerdict
  <2>2. v.auths = c.auths
    BY <2>1 DEF Established, Sound, Conns
  <2>3. QED
    BY <2>1, <2>2, EstablishedSettled
<1>2. CASE code = "PRECONDITION_FAIL"
  <2>1. v = Overrun(c)
    BY <1>2 DEF AuthVerdict
  <2>2. v.auths = c.auths
    BY <2>1 DEF Overrun, Sound, Conns
  <2>3. QED
    BY <2>1, <2>2, OverrunSound DEF Settled, Sound
<1>3. CASE code # "OK" /\ code # "PRECONDITION_FAIL"
  <2>1. PICK s \in {"INIT", "NOTAUTHED"} : v = [c EXCEPT !.status = s]
    BY <1>3 DEF AuthVerdict
  <2> HIDE DEF v
  <2>2. v \in Conns /\ v.status = s /\ v.auths = c.auths
    BY <2>1 DEF Sound, Conns, Statuses
  <2>3. v.ping = c.ping /\ v.authFails = c.authFails /\ v.offline = c.offline
        /\ v.retry = c.retry
    BY <2>1 DEF Sound, Conns
  <2>4. Settled(v) /\ v.auths = c.auths
    BY <2>2, <2>3 DEF Sound, Settled, BackingOff
  <2>5. QED
    BY <2>4 DEF v
<1>4. QED
  BY <1>1, <1>2, <1>3

LEMMA AuthCallbackSound ==
  ASSUME NEW c, Sound(c), NEW code, NEW again \in BOOLEAN, again => REENTRANT
  PROVE  Sound(AuthCallback(c, code, again))
<1> DEFINE v      == AuthVerdict(c, code)
           status == IF again THEN "AUTHING" ELSE v.status
           auths  == IF again THEN c.auths + 1 ELSE c.auths
           d      == AuthCallback(c, code, again)
<1>1. CASE code \in AuthKept
  BY <1>1 DEF AuthCallback
<1>2. CASE code \notin AuthKept
  <2>1. Settled(v)
    BY AuthVerdictSettled
  <2>2. d = [v EXCEPT !.p_auth = NoPacket, !.p_auth_user = FALSE,
                      !.status = status, !.auths = auths]
    BY <1>2 DEF AuthCallback
  <2> HIDE DEF v
  <2>3. auths \in Nat /\ status \in Statuses
    BY <2>1 DEF Settled, Sound, Conns, Statuses
  <2>4. status = "AUTHING" => REENTRANT
    BY <2>1 DEF Settled
  <2>5. status = "AUTHED" => v.status = "AUTHED"
    OBVIOUS
  <2> HIDE DEF d, status, auths
  <2>6. d \in Conns
    BY <2>1, <2>2, <2>3, PacketTypes DEF Settled, Conns
  <2>7. /\ d.status = status /\ ~d.p_auth.on /\ d.ping = v.ping
        /\ d.authFails = v.authFails /\ d.offline = v.offline /\ d.retry = v.retry
    BY <2>1, <2>2, PacketTypes DEF Settled, Conns
  <2>8. Sound(d)
    BY <2>1, <2>4, <2>5, <2>6, <2>7 DEF Settled, Sound, Session, BackingOff
  <2>9. QED
    BY <2>8 DEF d
<1>3. QED
  BY <1>1, <1>2

LEMMA PingCallbackSound ==
  ASSUME NEW c, Sound(c), NEW code
  PROVE  Sound(PingCallback(c, code))
<1> DEFINE s == StatusAfterPing(c.status, code)
           p == OnPingAnswer(c.ping, code)
           d == PingCallback(c, code)
<1>1. s \in {c.status, "NOTAUTHED"}
  BY DEF StatusAfterPing
<1>2. PolicyInv(p) /\ p \in PingPolicies
  BY AnswerKeepsPolicy DEF Sound, PolicyInv
<1>3. d = [c EXCEPT !.status = s, !.ping = p, !.p_ping = NoPacket]
  BY DEF PingCallback
<1> HIDE DEF s, p, d
<1>4. d \in Conns
  BY <1>1, <1>2, <1>3, PacketTypes DEF Sound, Conns, Statuses
<1>5. d.status = s /\ d.p_auth = c.p_auth /\ d.ping = p /\ d.authFails = c.authFails
      /\ d.offline = c.offline /\ d.retry = c.retry
  BY <1>3 DEF Sound, Conns
<1>6. Sound(d)
  BY <1>1, <1>2, <1>4, <1>5, SameSession
<1>7. QED
  BY <1>6 DEF d

\* Nor is it, whatever happens to the requests and observers.
LEMMA PacketsSound ==
  ASSUME NEW c, Sound(c), NEW d \in Conns,
         d.status = c.status, d.p_auth = c.p_auth, d.ping = c.ping,
         d.authFails = c.authFails, d.offline = c.offline, d.retry = c.retry
  PROVE  Sound(d)
  BY SameSession DEF Sound

LEMMA CompleteSound ==
  ASSUME NEW c, Sound(c), NEW M \in SUBSET Mid
  PROVE  Sound(Complete(c, M))
<1> DEFINE calls == [m \in Mid |-> IF m \in M /\ HasCallback(req[m].kind)
                                   THEN c.calls[m] + 1 ELSE c.calls[m]]
           pkt   == [m \in Mid |-> IF m \in M THEN NoPacket ELSE c.pkt[m]]
           n     == c.d_count - Cardinality(M)
<1>1. calls \in [Mid -> Nat]
  BY DEF Sound, Conns
<1>2. pkt \in [Mid -> Packets]
  BY PacketTypes DEF Sound, Conns
<1>3. n \in Int
  BY SubsetsOfMid DEF Sound, Conns
<1> DEFINE d == Complete(c, M)
<1>4. d = [c EXCEPT !.calls = calls, !.pkt = pkt, !.d_count = n]
  BY DEF Complete
<1> HIDE DEF calls, pkt, n, d
<1>5. d \in Conns
  BY <1>1, <1>2, <1>3, <1>4 DEF Sound, Conns
<1>6. d.status = c.status /\ d.p_auth = c.p_auth /\ d.ping = c.ping
      /\ d.authFails = c.authFails /\ d.offline = c.offline /\ d.retry = c.retry
  BY <1>4 DEF Sound, Conns
<1>7. Sound(d)
  BY <1>5, <1>6, PacketsSound
<1>8. QED
  BY <1>7 DEF d

LEMMA DataCallbackSound ==
  ASSUME NEW c, Sound(c), NEW m \in Mid, NEW code
  PROVE  Sound(DataCallback(c, m, code))
<1>1. Sound(Complete(c, {m}))
  BY CompleteSound
<1>2. Sound(Acked(c, m))
  <2> DEFINE p   == [c.pkt[m] EXCEPT !.never = TRUE, !.age = 0, !.wait = FAR]
             pkt == [c.pkt EXCEPT ![m] = p]
  <2>1. p \in Packets
    BY DEF Sound, Conns, Packets
  <2> HIDE DEF p
  <2>2. pkt \in [Mid -> Packets]
    BY <2>1 DEF Sound, Conns
  <2> DEFINE d == Acked(c, m)
  <2>3. d = [c EXCEPT !.pkt = pkt]
    BY DEF Acked, p
  <2> HIDE DEF pkt, d
  <2>4. d \in Conns
    BY <2>2, <2>3 DEF Sound, Conns
  <2>5. d.status = c.status /\ d.p_auth = c.p_auth /\ d.ping = c.ping
        /\ d.authFails = c.authFails /\ d.offline = c.offline /\ d.retry = c.retry
    BY <2>3 DEF Sound, Conns
  <2>6. Sound(d)
    BY <2>4, <2>5, PacketsSound
  <2>7. QED
    BY <2>6 DEF d
<1>3. Sound([c EXCEPT !.status = "NOTAUTHED"])
  <2> DEFINE d == [c EXCEPT !.status = "NOTAUTHED"]
  <2>1. d \in Conns /\ d.status = "NOTAUTHED" /\ d.p_auth = c.p_auth /\ d.ping = c.ping
        /\ d.authFails = c.authFails /\ d.offline = c.offline /\ d.retry = c.retry
    BY DEF Sound, Conns, Statuses
  <2> HIDE DEF d
  <2>2. Sound(d)
    BY <2>1, SameSession DEF Sound
  <2>3. QED
    BY <2>2 DEF d
<1>4. QED
  BY <1>1, <1>2, <1>3 DEF DataCallback

LEMMA AuthTimeoutSound ==
  ASSUME NEW c, Sound(c), c.status # "AUTHED",
         NEW again \in BOOLEAN, again => REENTRANT
  PROVE  Sound(AuthTimeout(c, again))
<1> DEFINE d       == AuthCallback(c, "OTHER", again)
           fails   == Lesser(c.authFails + 1, SESSION_OFFLINE_TIMES)
           first   == fails = SESSION_OFFLINE_TIMES /\ c.offline = UNSET
           offline == IF first THEN 0 ELSE c.offline
           retry   == IF first THEN 0 ELSE c.retry
           n       == c.timeouts + 1
           e       == AuthTimeout(c, again)
<1>1. Sound(d) /\ d.status # "AUTHED"
  <2>1. "OTHER" \notin AuthKept
    BY DEF AuthKept
  <2>2. AuthVerdict(c, "OTHER") = [c EXCEPT !.status = "NOTAUTHED"]
    BY DEF AuthVerdict
  <2>3. d.status # "AUTHED"
    BY <2>1, <2>2 DEF AuthCallback, Sound, Conns
  <2>4. QED
    BY <2>3, AuthCallbackSound
<1>2. fails \in Nat /\ fails > 0 /\ n \in Nat /\ retry \in Nat
      /\ offline \in Nat \cup {UNSET}
  BY ConnAssumption DEF Sound, Conns, Lesser
<1>3. /\ fails >= SESSION_OFFLINE_TIMES => offline # UNSET
      /\ offline # UNSET => fails > 0
      /\ retry > 0 => offline # UNSET
  BY <1>2, ConnAssumption DEF Sound, BackingOff, Conns, Lesser, UNSET
<1>4. e = [d EXCEPT !.timeouts = n, !.authFails = fails,
                    !.offline = offline, !.retry = retry]
  BY DEF AuthTimeout
<1> HIDE DEF d, fails, offline, retry, n, e
<1>5. e \in Conns
  BY <1>1, <1>2, <1>4 DEF Sound, Conns
<1>6. e.status = d.status /\ e.p_auth = d.p_auth /\ e.ping = d.ping
      /\ e.authFails = fails /\ e.offline = offline /\ e.retry = retry
  BY <1>1, <1>4 DEF Sound, Conns
<1>7. Sound(e)
  BY <1>1, <1>3, <1>5, <1>6 DEF Sound, Session, BackingOff
<1>8. QED
  BY <1>7 DEF e

LEMMA RetransmitAuthSound ==
  ASSUME NEW c, Sound(c), NEW again \in BOOLEAN, again => REENTRANT
  PROVE  Sound(RetransmitAuth(c, again))
<1> DEFINE d == [c EXCEPT !.p_auth = NoPacket, !.p_auth_user = FALSE]
           e == [c EXCEPT !.p_auth = Transmit(c.p_auth)]
<1>1. CASE c.status = "AUTHED"
  <2>1. RetransmitAuth(c, again) = d
    BY <1>1 DEF RetransmitAuth
  <2>2. d \in Conns /\ ~d.p_auth.on /\ ~c.p_auth.on
    BY <1>1, PacketTypes DEF Sound, Session, Conns
  <2>3. d.status = c.status /\ d.ping = c.ping
        /\ d.authFails = c.authFails /\ d.offline = c.offline /\ d.retry = c.retry
    BY DEF Sound, Conns
  <2> HIDE DEF d
  <2>4. d.p_auth.on = c.p_auth.on
    <3>1. d.p_auth.on \in BOOLEAN /\ c.p_auth.on \in BOOLEAN
      BY <2>2 DEF Sound, Conns, Packets
    <3>2. QED
      BY <3>1, <2>2
  <2>5. Sound(d)
    BY <2>2, <2>3, <2>4, SameSession DEF Sound
  <2>6. QED
    BY <2>1, <2>5
<1>2. CASE c.status # "AUTHED" /\ IsTimeout(c.p_auth)
  BY <1>2, AuthTimeoutSound DEF RetransmitAuth
<1>3. CASE c.status # "AUTHED" /\ ~IsTimeout(c.p_auth) /\ SendDue(c.p_auth)
  <2>1. RetransmitAuth(c, again) = e
    BY <1>3 DEF RetransmitAuth
  <2>2. Transmit(c.p_auth) \in Packets /\ Transmit(c.p_auth).on = c.p_auth.on
    BY PacketTypes DEF Sound, Conns
  <2>3. e \in Conns /\ e.p_auth.on = c.p_auth.on
    BY <2>2 DEF Sound, Conns
  <2>4. e.status = c.status /\ e.ping = c.ping
        /\ e.authFails = c.authFails /\ e.offline = c.offline /\ e.retry = c.retry
    BY DEF Sound, Conns
  <2> HIDE DEF e
  <2>5. Sound(e)
    BY <2>3, <2>4, SameSession DEF Sound
  <2>6. QED
    BY <2>1, <2>5
<1>4. CASE c.status # "AUTHED" /\ ~IsTimeout(c.p_auth) /\ ~SendDue(c.p_auth)
  BY <1>4 DEF RetransmitAuth
<1>5. QED
  BY <1>1, <1>2, <1>3, <1>4

LEMMA RetransmitPingSound ==
  ASSUME NEW c, Sound(c)
  PROVE  Sound(RetransmitPing(c))
<1> DEFINE code == IF c.status = "INIT" THEN "BAD_REQUEST" ELSE "RECVTIMEOUT"
           d    == PingCallback(c, code)
           n    == c.timeouts + 1
           e    == [d EXCEPT !.timeouts = n]
           f    == [c EXCEPT !.p_ping = Transmit(c.p_ping)]
<1>1. Sound(d) /\ n \in Nat
  BY PingCallbackSound DEF Sound, Conns
<1>2. CASE IsTimeout(c.p_ping)
  <2>1. n = c.timeouts + 1 /\ RetransmitPing(c) = e
    BY <1>2 DEF RetransmitPing
  <2> HIDE DEF d, n
  <2>2. e \in Conns /\ e.status = d.status /\ e.p_auth = d.p_auth /\ e.ping = d.ping
        /\ e.authFails = d.authFails /\ e.offline = d.offline /\ e.retry = d.retry
    BY <1>1 DEF Sound, Conns
  <2> HIDE DEF e
  <2>3. Sound(e)
    BY <1>1, <2>2, PacketsSound
  <2>4. QED
    BY <2>1, <2>3
<1>3. CASE ~IsTimeout(c.p_ping) /\ SendDue(c.p_ping) /\ c.status = "AUTHED"
  <2>1. RetransmitPing(c) = f
    BY <1>3 DEF RetransmitPing
  <2>2. Transmit(c.p_ping) \in Packets
    BY PacketTypes DEF Sound, Conns
  <2>3. f \in Conns /\ f.status = c.status /\ f.p_auth = c.p_auth /\ f.ping = c.ping
        /\ f.authFails = c.authFails /\ f.offline = c.offline /\ f.retry = c.retry
    BY <2>2 DEF Sound, Conns
  <2> HIDE DEF f
  <2>4. Sound(f)
    BY <2>3, PacketsSound
  <2>5. QED
    BY <2>1, <2>4
<1>4. QED
  BY <1>2, <1>3 DEF RetransmitPing

LEMMA RetransmitQueuesSound ==
  ASSUME NEW c, Sound(c)
  PROVE  Sound(RetransmitQueues(c))
<1> DEFINE late == {m \in Mid : IsTimeout(c.pkt[m])}
           due  == {m \in Mid \ late : c.status = "AUTHED" /\ SendDue(c.pkt[m])}
           pkt  == [m \in Mid |-> CASE m \in late -> NoPacket
                                    [] m \in due  -> Transmit(c.pkt[m])
                                    [] OTHER      -> c.pkt[m]]
           n    == c.timeouts + Cardinality(late)
           d    == Complete(c, late)
           e    == RetransmitQueues(c)
<1>1. pkt \in [Mid -> Packets]
  BY PacketTypes DEF Sound, Conns
<1>2. n \in Nat
  BY SubsetsOfMid DEF Sound, Conns
<1>3. Sound(d) /\ d.status = c.status /\ d.ping = c.ping
  BY CompleteSound DEF Complete, Sound, Conns
<1>4. e = [d EXCEPT !.pkt = pkt, !.timeouts = n]
  BY DEF RetransmitQueues
<1> HIDE DEF pkt, n, d, e
<1>5. e \in Conns
  BY <1>1, <1>2, <1>3, <1>4 DEF Sound, Conns
<1>6. e.status = d.status /\ e.p_auth = d.p_auth /\ e.ping = d.ping
      /\ e.authFails = d.authFails /\ e.offline = d.offline /\ e.retry = d.retry
  BY <1>3, <1>4 DEF Sound, Conns
<1>7. Sound(e)
  BY <1>3, <1>5, <1>6, PacketsSound
<1>8. QED
  BY <1>7 DEF e

LEMMA LoseSessionSound ==
  ASSUME NEW c, Sound(c), NEW before
  PROVE  Sound(LoseSession(before, c))
<1> DEFINE status == IF c.timeouts > before /\ c.timeouts > TIMEOUT_LIMIT
                     THEN "NOTAUTHED" ELSE c.status
           n == Lesser(c.timeouts, TIMEOUT_LIMIT + 1)
           d == LoseSession(before, c)
<1>1. status \in {c.status, "NOTAUTHED"}
  OBVIOUS
<1>2. n \in Nat
  BY ConnAssumption DEF Sound, Conns, Lesser
<1>3. d = [c EXCEPT !.status = status, !.timeouts = n]
  BY DEF LoseSession
<1> HIDE DEF status, n, d
<1>4. d \in Conns
  BY <1>1, <1>2, <1>3 DEF Sound, Conns, Statuses
<1>5. d.status = status /\ d.p_auth = c.p_auth /\ d.ping = c.ping
      /\ d.authFails = c.authFails /\ d.offline = c.offline /\ d.retry = c.retry
  BY <1>3 DEF Sound, Conns
<1>6. Sound(d)
  BY <1>1, <1>4, <1>5, SameSession DEF Sound
<1>7. QED
  BY <1>6 DEF d

LEMMA SessionRetrySound ==
  ASSUME NEW c, Sound(c)
  PROVE  Sound(SessionRetry(c))
<1> DEFINE r == Lesser(c.retry + 1, MAX_RETRY_TIME_INTERVAL)
           d == [c EXCEPT !.retry = r, !.offline = 0]
<1>1. CASE c.status = "NOTAUTHED" /\ ~c.p_auth.on /\ c.offline = UNSET
  <2>1. Sound(NewAuth(c, FALSE))
    BY NewAuthSound
  <2>2. SessionRetry(c) = NewAuth(c, FALSE)
    BY <1>1 DEF SessionRetry
  <2>3. QED
    BY <2>1, <2>2
<1>2. CASE c.status = "NOTAUTHED" /\ ~c.p_auth.on /\ c.offline # UNSET
  <2>1. r \in Nat
    BY ConnAssumption DEF Sound, Conns, Lesser
  <2>2. d = [c EXCEPT !.retry = r, !.offline = 0]
    OBVIOUS
  <2>3. SessionRetry(c) \in {c, NewAuth(d, FALSE)}
    BY <1>2 DEF SessionRetry
  <2> HIDE DEF r, d
  <2>4. d \in Conns /\ d.status = c.status /\ d.p_auth = c.p_auth /\ d.ping = c.ping
        /\ d.authFails = c.authFails /\ d.offline = 0 /\ d.retry = r
    BY <2>1, <2>2 DEF Sound, Conns
  <2>5. c.authFails > 0
    BY <1>2 DEF Sound, BackingOff
  <2>6. Sound(d)
    BY <1>2, <2>4, <2>5 DEF Sound, Session, BackingOff, UNSET
  <2>7. QED
    BY <2>3, <2>6, NewAuthSound
<1>3. CASE c.status # "NOTAUTHED" \/ c.p_auth.on
  BY <1>3 DEF SessionRetry
<1>4. QED
  BY <1>1, <1>2, <1>3

LEMMA PingHandlerSound ==
  ASSUME NEW c, Sound(c)
  PROVE  Sound(PingHandler(c))
<1> DEFINE p == OnPingSend(c.ping)
           d == [c EXCEPT !.p_ping = SentPacket, !.ping = p]
<1>1. PolicyInv(p) /\ p \in PingPolicies
  BY SendKeepsPolicy DEF Sound, PolicyInv
<1>2. PingHandler(c) \in {c, d}
  BY DEF PingHandler
<1> HIDE DEF p
<1>3. d \in Conns
  BY <1>1, PacketTypes DEF Sound, Conns
<1>4. d.status = c.status /\ d.p_auth = c.p_auth /\ d.ping = p
      /\ d.authFails = c.authFails /\ d.offline = c.offline /\ d.retry = c.retry
  BY DEF Sound, Conns
<1> HIDE DEF d
<1>5. Sound(d)
  BY <1>1, <1>3, <1>4, SameSession
<1>6. QED
  BY <1>2, <1>5

LEMMA MaintainSound ==
  ASSUME NEW c, Sound(c), NEW again \in Again, Maintain(c, again)
  PROVE  Sound(conn')
<1>1. again \in BOOLEAN /\ (again => REENTRANT)
  BY DEF Again
<1>2. Sound(RetransmitAuth(c, again))
  BY <1>1, RetransmitAuthSound
<1>3. Sound(RetransmitPing(RetransmitAuth(c, again)))
  BY <1>2, RetransmitPingSound
<1>4. Sound(RetransmitQueues(RetransmitPing(RetransmitAuth(c, again))))
  BY <1>3, RetransmitQueuesSound
<1> DEFINE q == RetransmitQueues(RetransmitPing(RetransmitAuth(c, again)))
<1> HIDE DEF q
<1>5. Sound(LoseSession(c.timeouts, q))
  BY <1>4, LoseSessionSound DEF q
<1>6. Sound(PingHandler(SessionRetry(LoseSession(c.timeouts, q))))
  BY <1>5, SessionRetrySound, PingHandlerSound
<1>7. conn' = PingHandler(SessionRetry(LoseSession(c.timeouts, q)))
  BY DEF Maintain, q
<1>8. QED
  BY <1>6, <1>7

LEMMA InitSound ==
  ASSUME Init
  PROVE  TypeOK /\ Sound(conn)
<1>1. conn \in Conns
  BY Init, PacketTypes, InitialPolicy DEF Init, Conns, Statuses, PolicyInv
<1>2. conn.status = "AUTHING" /\ conn.p_auth.on /\ conn.ping = InitialPing
      /\ conn.authFails = 0 /\ conn.offline = UNSET /\ conn.retry = 0
  BY PacketTypes DEF Init
<1>3. Sound(conn)
  BY <1>1, <1>2, InitialPolicy, ConnAssumption DEF Sound, Session, BackingOff
<1>4. req \in [Mid -> Requests] /\ past_far \in BOOLEAN
  BY DEF Init, NoReq, Requests
<1>5. QED
  BY <1>1, <1>3, <1>4 DEF TypeOK

LEMMA RequestTypes ==
  ASSUME NEW kind \in Kinds, NEW url \in UrlsOf(kind),
         NEW ret \in {"NOERR", "SENDERR", "QUEUEFULL"}
  PROVE  [kind |-> kind, url |-> url, ret |-> ret] \in Requests
  BY ConnAssumption DEF Requests, UrlsOf

LEMMA SubmitSound ==
  ASSUME TypeOK, Sound(conn), NEW m \in Mid, NEW kind \in Kinds,
         NEW url \in UrlsOf(kind), NEW ret \in {"NOERR", "SENDERR"},
         Submit(m, kind, url, ret)
  PROVE  TypeOK' /\ Sound(conn)'
<1> DEFINE p     == IF conn.status = "AUTHED" THEN SentPacket ELSE StoredPacket
           pkt   == [conn.pkt EXCEPT ![m] = p]
           n     == IF ret = "SENDERR" /\ HasCallback(kind) THEN 1 ELSE 0
           calls == [conn.calls EXCEPT ![m] = n]
           c     == [conn EXCEPT !.pkt = pkt, !.calls = calls, !.d_count = @ + 1]
<1>1. p \in Packets /\ n \in Nat
  BY PacketTypes
<1> HIDE DEF p, n
<1>2. pkt \in [Mid -> Packets] /\ calls \in [Mid -> Nat]
  BY <1>1 DEF Sound, Conns
<1>3. conn' = IF kind = "off" THEN DropObserver(c, url) ELSE c
  BY DEF Submit, p, n
<1> HIDE DEF pkt, calls
<1>4. Sound(c)
  <2>1. conn.d_count + 1 \in Int
    BY DEF Sound, Conns
  <2>2. c \in Conns
    BY <1>2, <2>1 DEF Sound, Conns
  <2>3. c.status = conn.status /\ c.p_auth = conn.p_auth
        /\ c.ping = conn.ping /\ c.authFails = conn.authFails
        /\ c.offline = conn.offline /\ c.retry = conn.retry
    BY DEF Sound, Conns
  <2> HIDE DEF c
  <2>4. QED
    BY <2>2, <2>3, PacketsSound
<1> HIDE DEF c
<1>5. Sound(DropObserver(c, url))
  <2> DEFINE different == {k \in Observers(c) : req[k].url # url}
             first     == {k \in different : \A j \in different : k <= j}
             left      == [k \in Mid |-> IF k \in first THEN NoPacket ELSE c.pkt[k]]
             dropped   == c.dropped \cup first
             d         == DropObserver(c, url)
  <2>1. left \in [Mid -> Packets]
    BY <1>4, PacketTypes DEF Sound, Conns
  <2>2. dropped \in SUBSET Mid
    BY <1>4 DEF Observers, Queued, Sound, Conns
  <2>3. d = [c EXCEPT !.pkt = left, !.dropped = dropped]
    BY DEF DropObserver
  <2> HIDE DEF left, dropped, d
  <2>4. d \in Conns
    BY <1>4, <2>1, <2>2, <2>3 DEF Sound, Conns
  <2>5. d.status = c.status /\ d.p_auth = c.p_auth /\ d.ping = c.ping
        /\ d.authFails = c.authFails /\ d.offline = c.offline /\ d.retry = c.retry
    BY <1>4, <2>3 DEF Sound, Conns
  <2>6. Sound(d)
    BY <1>4, <2>4, <2>5, PacketsSound
  <2>7. QED
    BY <2>6 DEF d
<1>6. Sound(conn')
  BY <1>3, <1>4, <1>5
<1>7. req' \in [Mid -> Requests] /\ past_far' \in BOOLEAN
  BY RequestTypes DEF TypeOK, Submit
<1>8. QED
  BY <1>6, <1>7 DEF TypeOK, Sound

LEMMA RefuseSound ==
  ASSUME TypeOK, Sound(conn), NEW m \in Mid, NEW kind \in Kinds,
         NEW url \in UrlsOf(kind), Refuse(m, kind, url)
  PROVE  TypeOK' /\ Sound(conn)'
<1> DEFINE n     == IF HasCallback(kind) THEN 1 ELSE 0
           calls == [conn.calls EXCEPT ![m] = n]
<1>1. calls \in [Mid -> Nat]
  BY DEF Sound, Conns
<1>2. conn' = [conn EXCEPT !.calls = calls]
  BY DEF Refuse
<1> HIDE DEF calls
<1>3. conn' \in Conns
  BY <1>1, <1>2 DEF Sound, Conns
<1>4. conn'.status = conn.status /\ conn'.p_auth = conn.p_auth
      /\ conn'.ping = conn.ping /\ conn'.authFails = conn.authFails
      /\ conn'.offline = conn.offline /\ conn'.retry = conn.retry
  BY <1>2 DEF Sound, Conns
<1>5. Sound(conn')
  BY <1>3, <1>4, PacketsSound
<1>6. req' \in [Mid -> Requests] /\ past_far' \in BOOLEAN
  BY RequestTypes DEF TypeOK, Refuse
<1>7. QED
  BY <1>5, <1>6 DEF TypeOK, Sound

LEMMA AuthSound ==
  ASSUME TypeOK, Sound(conn), Auth
  PROVE  TypeOK' /\ Sound(conn)'
<1> DEFINE c == [conn EXCEPT !.auths = @ + 1]
<1>1. c \in Conns /\ c.status = conn.status /\ c.p_auth = conn.p_auth
      /\ c.ping = conn.ping /\ c.authFails = conn.authFails
      /\ c.offline = conn.offline /\ c.retry = conn.retry
  BY DEF Sound, Conns
<1>2. conn' = NewAuth(c, REENTRANT) /\ REENTRANT \in BOOLEAN
  BY ConnAssumption DEF Auth
<1> HIDE DEF c
<1>3. Sound(c)
  BY <1>1, PacketsSound
<1>4. Sound(conn')
  BY <1>2, <1>3, NewAuthSound
<1>5. QED
  BY <1>4 DEF TypeOK, Auth, Sound

LEMMA TickSound ==
  ASSUME TypeOK, Sound(conn), Tick
  PROVE  TypeOK' /\ Sound(conn)'
<1> DEFINE auth    == PacketTick(conn.p_auth)
           aping   == PacketTick(conn.p_ping)
           policy  == PingTick(conn.ping)
           pkt     == [m \in Mid |-> PacketTick(conn.pkt[m])]
           offline == IF conn.offline = UNSET THEN UNSET
                      ELSE Lesser(conn.offline + 1, MAX_RETRY_TIME_INTERVAL)
<1>1. auth \in Packets /\ auth.on = conn.p_auth.on /\ aping \in Packets
      /\ pkt \in [Mid -> Packets]
  BY PacketTypes DEF Sound, Conns
<1>2. PolicyInv(policy) /\ policy \in PingPolicies
  BY TickKeepsPolicy DEF Sound, PolicyInv
<1>3. /\ offline \in Nat \cup {UNSET}
      /\ offline = UNSET <=> conn.offline = UNSET
  BY ConnAssumption DEF Sound, Conns, Lesser, UNSET
<1>4. conn' = [conn EXCEPT !.p_auth = auth, !.p_ping = aping, !.ping = policy,
                          !.pkt = pkt, !.offline = offline]
  BY DEF Tick, Sound, Conns
<1> HIDE DEF auth, aping, policy, pkt, offline
<1>5. conn' \in Conns
  BY <1>1, <1>2, <1>3, <1>4 DEF Sound, Conns
<1>6. conn'.status = conn.status /\ conn'.p_auth.on = conn.p_auth.on
      /\ conn'.ping = policy /\ conn'.authFails = conn.authFails
      /\ conn'.offline = offline /\ conn'.retry = conn.retry
  BY <1>1, <1>4 DEF Sound, Conns
<1>7. Sound(conn')
  BY <1>2, <1>3, <1>5, <1>6 DEF Sound, Session, BackingOff
<1>8. req' \in [Mid -> Requests] /\ past_far' \in BOOLEAN
  BY ConnAssumption DEF Tick, TypeOK
<1>9. QED
  BY <1>7, <1>8 DEF TypeOK, Sound
-------------------------------------------------------------------------------

\* The strengthened invariant: the session's part needs the types and the ping
\* policy's part, because every handler writes several of these fields.
IInv == TypeOK /\ Sound(conn)

LEMMA ReceivedSound ==
  ASSUME Sound(conn)
  PROVE  Sound(Received)
<1> DEFINE d == Received
<1>1. d \in Conns /\ d.status = conn.status /\ d.p_auth = conn.p_auth
      /\ d.ping = conn.ping /\ d.authFails = conn.authFails
      /\ d.offline = conn.offline /\ d.retry = conn.retry
  BY DEF Received, Sound, Conns
<1> HIDE DEF d
<1>2. Sound(d)
  BY <1>1, PacketsSound
<1>3. QED
  BY <1>2 DEF d

LEMMA TrySyncSound ==
  ASSUME IInv, TrySync
  PROVE  IInv'
<1>1. Sound(conn')
  <2>1. ASSUME NEW c, Sound(c), NEW again \in Again, Maintain(c, again)
        PROVE  Sound(conn')
    BY <2>1, MaintainSound
  <2>2. CASE SyncIdle
    BY <2>2, <2>1 DEF SyncIdle, IInv
  <2>3. CASE SyncUnmatched
    BY <2>3, ReceivedSound DEF SyncUnmatched, IInv
  <2>4. ASSUME NEW code \in AuthAnswers, SyncAuth(code)
        PROVE  Sound(conn')
    <3>1. PICK again \in Again : Maintain(AuthCallback(Received, code, again), again)
      BY <2>4 DEF SyncAuth
    <3>2. Sound(AuthCallback(Received, code, again))
      BY ReceivedSound, AuthCallbackSound DEF IInv, Again
    <3>3. QED
      BY <3>1, <3>2, <2>1
  <2>5. ASSUME NEW code \in PingAnswers, SyncPing(code)
        PROVE  Sound(conn')
    <3>1. PICK again \in Again : Maintain(PingCallback(Received, code), again)
      BY <2>5 DEF SyncPing
    <3>2. Sound(PingCallback(Received, code))
      BY ReceivedSound, PingCallbackSound DEF IInv
    <3>3. QED
      BY <3>1, <3>2, <2>1
  <2>6. ASSUME NEW m \in Mid, NEW code \in DataCodes, SyncData(m, code)
        PROVE  Sound(conn')
    <3>1. PICK again \in Again : Maintain(DataCallback(Received, m, code), again)
      BY <2>6 DEF SyncData
    <3>2. Sound(DataCallback(Received, m, code))
      BY ReceivedSound, DataCallbackSound DEF IInv
    <3>3. QED
      BY <3>1, <3>2, <2>1
  <2>7. QED
    BY <2>2, <2>3, <2>4, <2>5, <2>6 DEF TrySync
<1>2. UNCHANGED <<req, past_far>>
  BY DEF TrySync, SyncIdle, SyncUnmatched, SyncAuth, SyncPing, SyncData
<1>3. QED
  BY <1>1, <1>2 DEF IInv, TypeOK, Sound

\* Every step keeps the types of all fields, the bounds of the ping policy, the
\* agreement of p_auth with the status and of the three fields of the back-off:
\* for every number of requests and every setting of the library.
THEOREM Invariance == Spec => []IInv
<1>1. Init => IInv
  BY InitSound DEF IInv
<1>2. IInv /\ [Next]_vars => IInv'
  <2> SUFFICES ASSUME IInv, [Next]_vars
               PROVE  IInv'
    OBVIOUS
  <2>1. ASSUME NEW m \in Mid, NEW kind \in Kinds, NEW url \in UrlsOf(kind),
               NEW ret \in {"NOERR", "SENDERR"}, Submit(m, kind, url, ret)
        PROVE  IInv'
    BY <2>1, SubmitSound DEF IInv
  <2>2. ASSUME NEW m \in Mid, NEW kind \in Kinds, NEW url \in UrlsOf(kind),
               Refuse(m, kind, url)
        PROVE  IInv'
    BY <2>2, RefuseSound DEF IInv
  <2>3. CASE Auth
    BY <2>3, AuthSound DEF IInv
  <2>4. CASE TrySync
    BY <2>4, TrySyncSound
  <2>5. CASE Tick
    BY <2>5, TickSound DEF IInv
  <2>6. CASE UNCHANGED vars
    BY <2>6 DEF IInv, TypeOK, Sound, Session, BackingOff, vars
  <2>7. QED
    BY <2>1, <2>2, <2>3, <2>4, <2>5, <2>6 DEF Next, Operation
<1>3. QED
  BY <1>1, <1>2, PTL DEF Spec

\* The state of a connection keeps its type, d_count and the timers included.
THEOREM TypeCorrect == Spec => []TypeOK
<1>1. IInv => TypeOK
  BY DEF IInv
<1>2. QED
  BY <1>1, Invariance, PTL

\* An authentication is in progress exactly while the session is AUTHING, as
\* long as the auth callback does not call wilddog_auth.
THEOREM ConsistentSession == ~REENTRANT => (Spec => []SessionConsistent)
<1>1. SUFFICES ASSUME ~REENTRANT
               PROVE  Spec => []SessionConsistent
  OBVIOUS
<1>2. IInv => SessionConsistent
  BY <1>1 DEF IInv, Sound, Session, SessionConsistent
<1>3. QED
  BY <1>2, Invariance, PTL

\* An established session has nothing left of an earlier back-off.
THEOREM EstablishedIsOnline == Spec => []AuthedIsOnline
<1>1. IInv => AuthedIsOnline
  BY DEF IInv, Sound, Session, AuthedIsOnline
<1>2. QED
  BY <1>1, Invariance, PTL

\* Retries back off exactly when enough authentications have failed or the
\* server is overrun.
THEOREM ConsistentBackoff == Spec => []BackoffConsistent
<1>1. IInv => BackoffConsistent
  BY DEF IInv, Sound, BackingOff, BackoffConsistent
<1>2. QED
  BY <1>1, Invariance, PTL
-------------------------------------------------------------------------------
(***************************************************************************)
(* The requests.  Of the pipeline only the callbacks and                   *)
(* _wilddog_conn_retransmitPkt touch a request, and what they may do to one *)
(* is again a predicate on a conn and a relation of two.                   *)
(***************************************************************************)

\* A queued packet, and why it is in its list.
PacketKept(p, m) ==
  /\ req[m].kind # "none" /\ req[m].ret \in {"NOERR", "SENDERR"}
  /\ p.wait = FAR => p.never
  /\ p.never => IsObserver(m) /\ p.count > 0
  /\ p.count = 0 => p.wait = 0
  /\ ~past_far /\ p.never => p.wait = FAR

CallKept(c, m) ==
  HasCallback(req[m].kind) =>
    c.calls[m] = (IF req[m].ret # "NOERR" THEN 1 ELSE 0)
                 + (IF req[m].ret # "QUEUEFULL" /\ ~c.pkt[m].on THEN 1 ELSE 0)

\* The observers removeObserver has deleted are not in their list, so that each is
\* counted once too often and for good.
Booked(c) ==
  /\ \A m \in Mid : CallKept(c, m) /\ (c.pkt[m].on => PacketKept(c.pkt[m], m))
  /\ \A m \in c.dropped : req[m].kind # "none" /\ ~c.pkt[m].on
  /\ c.d_count = Cardinality(Queued(c)) + Cardinality(c.dropped)

AllSent(c) == \A m \in Queued(c) : c.pkt[m].count > 0

\* Nothing that a request is about differs in d.
SameRequests(c, d) ==
  d.pkt = c.pkt /\ d.calls = c.calls /\ d.dropped = c.dropped /\ d.d_count = c.d_count

\* What a callback may do to the packets, and what the retransmission may.
Follows(c, d) ==
  \A m \in Mid : d.pkt[m].on =>
    /\ c.pkt[m].on
    /\ c.pkt[m].never /\ d.pkt[m].never => d.pkt[m].count = c.pkt[m].count

Resent(c, d) ==
  \A m \in Mid : d.pkt[m].on =>
    /\ c.pkt[m].on /\ d.pkt[m].never = c.pkt[m].never
    /\ c.pkt[m].never /\ ~past_far => d.pkt[m].count = c.pkt[m].count

LEMMA PacketFields ==
  /\ StoredPacket.on /\ StoredPacket.count = 0 /\ StoredPacket.wait = 0 /\ ~StoredPacket.never
  /\ SentPacket.on /\ SentPacket.count > 0 /\ SentPacket.wait # FAR /\ ~SentPacket.never
  /\ \A p \in Packets :
       /\ Transmit(p).count > 0 /\ Transmit(p).wait # FAR /\ Transmit(p).never = p.never
       /\ PacketTick(p).count = p.count /\ PacketTick(p).never = p.never
       /\ PacketTick(p).wait = FAR <=> p.wait = FAR
       /\ p.wait = 0 => PacketTick(p).wait = 0
<1>1. StoredPacket.on /\ StoredPacket.count = 0 /\ StoredPacket.wait = 0 /\ ~StoredPacket.never
  BY DEF StoredPacket, NoPacket
<1>2. ASSUME NEW p \in Packets
      PROVE  Transmit(p).count > 0 /\ Transmit(p).wait # FAR /\ Transmit(p).never = p.never
  <2> DEFINE n == Lesser(p.count + 1, MAX_COUNT)
  <2>1. n \in 1 .. MAX_COUNT /\ n > 0
    BY ConnAssumption DEF Lesser, Packets
  <2>2. NextSendTime(n) \in Nat
    BY <2>1, ConnAssumption DEF NextSendTime
  <2>3. Transmit(p) = [p EXCEPT !.count = n, !.wait = NextSendTime(n)]
    BY DEF Transmit
  <2> HIDE DEF n
  <2>4. QED
    BY <2>1, <2>2, <2>3 DEF Packets, FAR
<1>3. ASSUME NEW p \in Packets
      PROVE  /\ PacketTick(p).count = p.count /\ PacketTick(p).never = p.never
             /\ PacketTick(p).wait = FAR <=> p.wait = FAR
             /\ p.wait = 0 => PacketTick(p).wait = 0
  <2> DEFINE age  == IF p.never THEN 0 ELSE Lesser(p.age + 1, RETRANSMITE_TIME + 1)
             wait == IF p.wait > 0 THEN p.wait - 1 ELSE p.wait
  <2>1. PacketTick(p) = IF ~p.on THEN p ELSE [p EXCEPT !.age = age, !.wait = wait]
    BY DEF PacketTick
  <2>2. (wait = FAR <=> p.wait = FAR) /\ (p.wait = 0 => wait = 0)
    BY DEF Packets, FAR
  <2> HIDE DEF age, wait
  <2>3. QED
    BY <2>1, <2>2 DEF Packets
<1>4. SentPacket.count > 0 /\ SentPacket.wait # FAR /\ SentPacket.never = StoredPacket.never
  BY <1>2, PacketTypes DEF SentPacket
<1>5. QED
  BY <1>1, <1>2, <1>3, <1>4, PacketTypes

LEMMA BookedSame ==
  ASSUME NEW c, Booked(c), NEW d, SameRequests(c, d)
  PROVE  Booked(d) /\ Follows(c, d)
  BY DEF Booked, SameRequests, CallKept, Queued, Follows

\* The packets change, and each stays in its list.
LEMMA BookedPackets ==
  ASSUME NEW c \in Conns, Booked(c), NEW d \in Conns,
         d.calls = c.calls, d.dropped = c.dropped, d.d_count = c.d_count,
         \A m \in Mid : /\ d.pkt[m].on = c.pkt[m].on
                        /\ d.pkt[m].on => PacketKept(d.pkt[m], m)
  PROVE  Booked(d)
<1>1. Queued(d) = Queued(c)
  BY DEF Queued
<1>2. \A m \in Mid : CallKept(d, m)
  BY DEF Booked, CallKept
<1>3. \A m \in d.dropped : req[m].kind # "none" /\ ~d.pkt[m].on
  BY DEF Booked, Conns
<1>4. QED
  BY <1>1, <1>2, <1>3 DEF Booked

LEMMA EstablishedBooked ==
  ASSUME NEW c, Sound(c), Booked(c)
  PROVE  Booked(Established(c)) /\ Follows(c, Established(c))
<1> DEFINE e == Established(c)
           registered(m) ==
             [StoredPacket EXCEPT !.age = IF c.pkt[m].never THEN 0 ELSE c.pkt[m].age]
<1>1. c \in Conns /\ e \in Conns
  BY EstablishedSettled DEF Sound, Settled
<1>2. e.calls = c.calls /\ e.dropped = c.dropped /\ e.d_count = c.d_count
  BY <1>1 DEF Established, Conns
<1>3. ASSUME NEW m \in Mid
      PROVE  /\ e.pkt[m].on = c.pkt[m].on
             /\ e.pkt[m].on => PacketKept(e.pkt[m], m) /\ ~e.pkt[m].never
  <2>1. e.pkt[m] = IF m \in Observers(c) THEN registered(m) ELSE [c.pkt[m] EXCEPT !.wait = 0]
    BY <1>1 DEF Established, Conns
  <2>2. c.pkt[m] \in Packets
    BY <1>1 DEF Conns
  <2>3. CASE m \in Observers(c)
    <3>1. /\ registered(m).on /\ registered(m).count = 0 /\ registered(m).wait = 0
          /\ ~registered(m).never
      BY PacketFields, PacketTypes DEF Packets
    <3>2. c.pkt[m].on /\ PacketKept(c.pkt[m], m)
      BY <2>3 DEF Observers, Queued, Booked
    <3>3. e.pkt[m] = registered(m)
      BY <2>1, <2>3
    <3> HIDE DEF e, registered
    <3>4. e.pkt[m].on \in BOOLEAN /\ c.pkt[m].on \in BOOLEAN
      BY <1>1, <2>2 DEF Conns, Packets
    <3>5. e.pkt[m].on /\ e.pkt[m].count = 0 /\ e.pkt[m].wait = 0 /\ ~e.pkt[m].never
      BY <3>1, <3>3
    <3>6. e.pkt[m].on = c.pkt[m].on
      BY <3>2, <3>4, <3>5
    <3>7. PacketKept(e.pkt[m], m)
      BY <3>2, <3>5 DEF PacketKept, FAR
    <3>8. QED
      BY <3>5, <3>6, <3>7
  <2>4. CASE m \notin Observers(c)
    <3>1. e.pkt[m] = [c.pkt[m] EXCEPT !.wait = 0]
      BY <2>1, <2>4
    <3>2. /\ e.pkt[m].on = c.pkt[m].on /\ e.pkt[m].count = c.pkt[m].count
          /\ e.pkt[m].wait = 0 /\ e.pkt[m].never = c.pkt[m].never
      BY <2>2, <3>1 DEF Packets
    <3>3. c.pkt[m].on => PacketKept(c.pkt[m], m) /\ ~IsObserver(m)
      BY <2>4 DEF Observers, Queued, Booked
    <3> HIDE DEF e
    <3>4. c.pkt[m].on \in BOOLEAN /\ c.pkt[m].never \in BOOLEAN
      BY <2>2 DEF Packets
    <3>5. PacketKept(c.pkt[m], m) /\ ~IsObserver(m)
            => PacketKept(e.pkt[m], m) /\ ~e.pkt[m].never
      BY <3>2, <3>4 DEF PacketKept, FAR
    <3>6. QED
      BY <3>2, <3>3, <3>4, <3>5
  <2>5. QED
    BY <2>3, <2>4
<1> HIDE DEF e
<1>4. Booked(e)
  BY <1>1, <1>2, <1>3, BookedPackets
<1>5. Follows(c, e)
  BY <1>3 DEF Follows
<1>6. QED
  BY <1>4, <1>5 DEF e

\* The packets of M leave their lists, the others stay.
LEMMA BookedWithout ==
  ASSUME NEW c \in Conns, Booked(c), NEW M \in SUBSET Queued(c), NEW d \in Conns,
         d.calls = [m \in Mid |-> IF m \in M /\ HasCallback(req[m].kind)
                                  THEN c.calls[m] + 1 ELSE c.calls[m]],
         d.dropped = c.dropped, d.d_count = c.d_count - Cardinality(M),
         \A m \in M : ~d.pkt[m].on,
         \A m \in Mid \ M : /\ d.pkt[m].on = c.pkt[m].on
                            /\ d.pkt[m].on => PacketKept(d.pkt[m], m)
  PROVE  Booked(d)
<1>1. Queued(d) = Queued(c) \ M
  BY DEF Queued
<1>2. d.d_count = Cardinality(Queued(d)) + Cardinality(d.dropped)
  <2>1. IsFiniteSet(Queued(c)) /\ Cardinality(Queued(c)) \in Nat /\ Cardinality(M) \in Nat
    BY SubsetsOfMid DEF Queued
  <2>2. Cardinality(Queued(c) \ M) = Cardinality(Queued(c)) - Cardinality(Queued(c) \cap M)
    BY <2>1, FS_Difference
  <2>3. Queued(c) \cap M = M
    OBVIOUS
  <2>4. Cardinality(c.dropped) \in Nat
    BY SubsetsOfMid DEF Conns
  <2>5. c.d_count = Cardinality(Queued(c)) + Cardinality(c.dropped)
    BY DEF Booked
  <2>6. Cardinality(Queued(d)) = Cardinality(Queued(c)) - Cardinality(M)
    BY <1>1, <2>2, <2>3
  <2>7. d.d_count = c.d_count - Cardinality(M)
        /\ Cardinality(d.dropped) = Cardinality(c.dropped)
    OBVIOUS
  <2>8. QED
    BY <2>1, <2>4, <2>5, <2>6, <2>7
<1>3. ASSUME NEW m \in Mid
      PROVE  CallKept(d, m)
  <2> SUFFICES ASSUME HasCallback(req[m].kind)
               PROVE  d.calls[m] = (IF req[m].ret # "NOERR" THEN 1 ELSE 0)
                           + (IF req[m].ret # "QUEUEFULL" /\ ~d.pkt[m].on THEN 1 ELSE 0)
    BY DEF CallKept
  <2>1. c.calls[m] = (IF req[m].ret # "NOERR" THEN 1 ELSE 0)
                     + (IF req[m].ret # "QUEUEFULL" /\ ~c.pkt[m].on THEN 1 ELSE 0)
    BY DEF Booked, CallKept
  <2>2. CASE m \in M
    <3>1. c.pkt[m].on /\ req[m].ret # "QUEUEFULL"
      BY <2>2 DEF Queued, Booked, PacketKept
    <3>2. d.calls[m] = c.calls[m] + 1 /\ ~d.pkt[m].on
      BY <2>2
    <3>3. QED
      BY <2>1, <3>1, <3>2
  <2>3. CASE m \notin M
    BY <2>1, <2>3
  <2>4. QED
    BY <2>2, <2>3
<1>4. \A m \in Mid : d.pkt[m].on => PacketKept(d.pkt[m], m)
  OBVIOUS
<1>5. \A m \in d.dropped : req[m].kind # "none" /\ ~d.pkt[m].on
  BY DEF Booked, Conns
<1>6. QED
  BY <1>2, <1>3, <1>4, <1>5 DEF Booked

LEMMA CompleteBooked ==
  ASSUME NEW c, Sound(c), Booked(c), NEW M \in SUBSET Queued(c)
  PROVE  Booked(Complete(c, M)) /\ Follows(c, Complete(c, M))
<1> DEFINE d == Complete(c, M)
<1>1. c \in Conns /\ d \in Conns
  <2>1. M \in SUBSET Mid
    BY DEF Queued
  <2>2. QED
    BY <2>1, CompleteSound DEF Sound
<1>2. /\ d.calls = [m \in Mid |-> IF m \in M /\ HasCallback(req[m].kind)
                                  THEN c.calls[m] + 1 ELSE c.calls[m]]
      /\ d.dropped = c.dropped /\ d.d_count = c.d_count - Cardinality(M)
      /\ d.pkt = [m \in Mid |-> IF m \in M THEN NoPacket ELSE c.pkt[m]]
  BY <1>1 DEF Complete, Conns
<1> HIDE DEF d
<1>3. \A m \in M : m \in Mid /\ ~d.pkt[m].on
  BY <1>2, PacketTypes DEF Queued
<1>4. \A m \in Mid \ M : d.pkt[m] = c.pkt[m]
  BY <1>2
<1>5. \A m \in Mid \ M : d.pkt[m].on => PacketKept(d.pkt[m], m)
  BY <1>4 DEF Booked
<1>6. Booked(d)
  BY <1>1, <1>2, <1>3, <1>4, <1>5, BookedWithout
<1>7. Follows(c, d)
  BY <1>3, <1>4 DEF Follows
<1>8. QED
  BY <1>6, <1>7 DEF d

\* A packet that is acknowledged has been sent, and so is not sent again.
LEMMA AckedBooked ==
  ASSUME NEW c, Sound(c), Booked(c), NEW m \in Mid,
         c.pkt[m].on, c.pkt[m].count > 0, IsObserver(m)
  PROVE  Booked(Acked(c, m)) /\ Follows(c, Acked(c, m))
<1> DEFINE d == Acked(c, m)
           p == [c.pkt[m] EXCEPT !.never = TRUE, !.age = 0, !.wait = FAR]
<1>1. c \in Conns /\ c.pkt[m] \in Packets
  BY DEF Sound, Conns
<1>2. p \in Packets /\ p.on = c.pkt[m].on /\ p.never /\ p.wait = FAR /\ p.count = c.pkt[m].count
  BY <1>1 DEF Packets
<1> HIDE DEF p
<1>3. d = [c EXCEPT !.pkt = [c.pkt EXCEPT ![m] = p]]
  BY DEF Acked, p
<1> HIDE DEF d
<1>4. /\ d \in Conns /\ d.calls = c.calls /\ d.dropped = c.dropped /\ d.d_count = c.d_count
      /\ d.pkt = [c.pkt EXCEPT ![m] = p]
  BY <1>1, <1>2, <1>3 DEF Conns
<1>5. ASSUME NEW k \in Mid
      PROVE  /\ d.pkt[k].on = c.pkt[k].on /\ d.pkt[k].count = c.pkt[k].count
             /\ d.pkt[k].on => PacketKept(d.pkt[k], k)
  <2>1. CASE k = m
    <3>1. d.pkt[k] = p
      BY <1>1, <1>4, <2>1 DEF Conns
    <3>2. PacketKept(c.pkt[k], k)
      BY <2>1 DEF Booked
    <3>3. PacketKept(p, k)
      BY <1>2, <2>1, <3>2 DEF PacketKept, FAR
    <3>4. QED
      BY <1>2, <2>1, <3>1, <3>3
  <2>2. CASE k # m
    <3>1. d.pkt[k] = c.pkt[k]
      BY <1>1, <1>4, <2>2 DEF Conns
    <3>2. QED
      BY <3>1 DEF Booked
  <2>3. QED
    BY <2>1, <2>2
<1>6. Booked(d)
  BY <1>1, <1>4, <1>5, BookedPackets
<1>7. Follows(c, d)
  BY <1>5 DEF Follows
<1>8. QED
  BY <1>6, <1>7 DEF d

LEMMA DataCallbackBooked ==
  ASSUME NEW c, Sound(c), Booked(c), NEW m \in Mid, NEW code \in DataCodes,
         c.pkt[m].on, c.pkt[m].count > 0
  PROVE  Booked(DataCallback(c, m, code)) /\ Follows(c, DataCallback(c, m, code))
<1> DEFINE d == DataCallback(c, m, code)
<1>1. CASE Completes(m, code)
  <2>1. {m} \in SUBSET Queued(c)
    BY DEF Queued
  <2>2. d = Complete(c, {m})
    BY <1>1 DEF DataCallback, Completes
  <2>3. QED
    BY <2>1, <2>2, CompleteBooked
<1>2. CASE code = "OK" /\ IsObserver(m)
  <2>1. ~Completes(m, code)
    BY <1>2 DEF Completes
  <2>2. d = Acked(c, m)
    BY <1>2, <2>1 DEF DataCallback
  <2>3. QED
    BY <1>2, <2>2, AckedBooked
<1>3. CASE ~Completes(m, code) /\ ~(code = "OK" /\ IsObserver(m))
  <2>1. d \in {c, [c EXCEPT !.status = "NOTAUTHED"]}
    BY <1>3 DEF DataCallback
  <2>2. SameRequests(c, d)
    BY <2>1 DEF SameRequests, Sound, Conns
  <2> HIDE DEF d
  <2>3. Booked(d) /\ Follows(c, d)
    BY <2>2, BookedSame
  <2>4. QED
    BY <2>3 DEF d
<1>4. QED
  BY <1>1, <1>2, <1>3

LEMMA AuthCallbackBooked ==
  ASSUME NEW c, Sound(c), Booked(c), NEW code, NEW again \in BOOLEAN
  PROVE  /\ Booked(AuthCallback(c, code, again)) /\ Follows(c, AuthCallback(c, code, again))
         /\ code # "OK" => SameRequests(c, AuthCallback(c, code, again))
<1> DEFINE v == AuthVerdict(c, code)
           d == AuthCallback(c, code, again)
<1>1. code # "OK" => SameRequests(c, v)
  BY DEF AuthVerdict, Overrun, SameRequests, Sound, Conns
<1>2. Booked(v) /\ Follows(c, v)
  <2>1. CASE code = "OK"
    BY <2>1, EstablishedBooked DEF AuthVerdict
  <2>2. CASE code # "OK"
    BY <1>1, <2>2, BookedSame
  <2>3. QED
    BY <2>1, <2>2
<1>3. v \in Conns
  BY AuthVerdictSettled DEF Settled
<1>4. d = c \/ SameRequests(v, d)
  <2> HIDE DEF v
  <2>1. CASE code \in AuthKept
    BY <2>1 DEF AuthCallback
  <2>2. CASE code \notin AuthKept
    <3> DEFINE status == IF again THEN "AUTHING" ELSE v.status
               auths  == IF again THEN c.auths + 1 ELSE c.auths
    <3>1. d = [v EXCEPT !.p_auth = NoPacket, !.p_auth_user = FALSE,
                        !.status = status, !.auths = auths]
      BY <2>2 DEF AuthCallback, v
    <3> HIDE DEF d, status, auths
    <3>2. QED
      BY <1>3, <3>1 DEF SameRequests, Conns
  <2>3. QED
    BY <2>1, <2>2
<1> HIDE DEF v, d
<1>5. SameRequests(c, c)
  BY DEF SameRequests
<1>6. Booked(d) /\ Follows(c, d)
  <2>1. CASE d = c
    BY <1>5, <2>1, BookedSame
  <2>2. CASE SameRequests(v, d)
    BY <1>2, <2>2, BookedSame DEF Follows, SameRequests
  <2>3. QED
    BY <1>4, <2>1, <2>2
<1>7. code # "OK" => SameRequests(c, d)
  BY <1>1, <1>4, <1>5 DEF SameRequests
<1>8. QED
  BY <1>6, <1>7 DEF d

\* Before and after the queues, Maintain leaves the requests alone.
LEMMA ProloguesSame ==
  ASSUME NEW c, Sound(c), Booked(c), NEW again \in BOOLEAN, NEW code
  PROVE  /\ SameRequests(c, PingCallback(c, code))
         /\ SameRequests(c, RetransmitAuth(c, again))
         /\ SameRequests(c, RetransmitPing(c))
<1>1. c \in Conns
  BY DEF Sound
<1>2. \A k : SameRequests(c, PingCallback(c, k)) /\ PingCallback(c, k) \in Conns
  BY <1>1, PingCallbackSound DEF PingCallback, SameRequests, Sound, Conns
<1>3. SameRequests(c, RetransmitAuth(c, again))
  <2> DEFINE a == AuthCallback(c, "OTHER", again)
  <2>1. SameRequests(c, a) /\ AuthVerdict(c, "OTHER") \in Conns
    BY AuthCallbackBooked, AuthVerdictSettled DEF Settled
  <2>2. SameRequests(c, AuthTimeout(c, again))
    <3>1. a \in Conns
      <4>1. "OTHER" \notin AuthKept
        BY DEF AuthKept
      <4>2. AuthVerdict(c, "OTHER") = [c EXCEPT !.status = "NOTAUTHED"]
        BY DEF AuthVerdict
      <4> DEFINE status == IF again THEN "AUTHING" ELSE "NOTAUTHED"
                 auths  == IF again THEN c.auths + 1 ELSE c.auths
      <4>3. a = [c EXCEPT !.p_auth = NoPacket, !.p_auth_user = FALSE,
                          !.status = status, !.auths = auths]
        BY <1>1, <4>1, <4>2 DEF AuthCallback, Conns
      <4>4. status \in Statuses /\ auths \in Nat
        BY <1>1 DEF Statuses, Conns
      <4> HIDE DEF a, status, auths
      <4>5. QED
        BY <1>1, <4>3, <4>4, PacketTypes DEF Conns
    <3> HIDE DEF a
    <3>2. \E t, f, o, r : AuthTimeout(c, again) =
            [a EXCEPT !.timeouts = t, !.authFails = f, !.offline = o, !.retry = r]
      BY DEF AuthTimeout, a
    <3>3. QED
      BY <2>1, <3>1, <3>2 DEF SameRequests, Conns
  <2>3. QED
    BY <1>1, <2>2 DEF RetransmitAuth, SameRequests, Conns
<1>4. SameRequests(c, RetransmitPing(c))
  <2>1. ASSUME NEW k
        PROVE  SameRequests(c, [PingCallback(c, k) EXCEPT !.timeouts = c.timeouts + 1])
    <3>1. PICK d \in Conns : d = PingCallback(c, k) /\ SameRequests(c, d)
      BY <1>2
    <3>2. SameRequests(c, [d EXCEPT !.timeouts = c.timeouts + 1])
      BY <3>1 DEF SameRequests, Conns
    <3>3. QED
      BY <3>1, <3>2
  <2>2. QED
    BY <1>1, <2>1 DEF RetransmitPing, SameRequests, Conns
<1>5. QED
  BY <1>2, <1>3, <1>4

LEMMA EpiloguesSame ==
  ASSUME NEW c, Sound(c), NEW before
  PROVE  /\ SameRequests(c, LoseSession(before, c))
         /\ SameRequests(c, SessionRetry(c))
         /\ SameRequests(c, PingHandler(c))
         /\ LoseSession(before, c).status = "AUTHED" => c.status = "AUTHED"
         /\ SessionRetry(c).status = "AUTHED" => c.status = "AUTHED"
         /\ PingHandler(c).status = c.status
<1>1. c \in Conns
  BY DEF Sound
<1>2. /\ SameRequests(c, LoseSession(before, c))
      /\ LoseSession(before, c).status = "AUTHED" => c.status = "AUTHED"
  BY <1>1 DEF LoseSession, SameRequests, Conns
<1>3. /\ SameRequests(c, SessionRetry(c))
      /\ SessionRetry(c).status = "AUTHED" => c.status = "AUTHED"
  <2> DEFINE d == [c EXCEPT !.retry = Lesser(c.retry + 1, MAX_RETRY_TIME_INTERVAL),
                            !.offline = 0]
  <2>1. SessionRetry(c) \in {c, NewAuth(c, FALSE), NewAuth(d, FALSE)}
    BY DEF SessionRetry
  <2>2. /\ SameRequests(c, NewAuth(c, FALSE)) /\ NewAuth(c, FALSE).status = "AUTHING"
        /\ SameRequests(c, NewAuth(d, FALSE)) /\ NewAuth(d, FALSE).status = "AUTHING"
    BY <1>1 DEF NewAuth, SameRequests, Conns
  <2>3. SameRequests(c, c)
    BY DEF SameRequests
  <2> HIDE DEF d
  <2>4. QED
    BY <2>1, <2>2, <2>3
<1>4. SameRequests(c, PingHandler(c)) /\ PingHandler(c).status = c.status
  BY <1>1 DEF PingHandler, SameRequests, Conns
<1>5. QED
  BY <1>2, <1>3, <1>4

\* In a session everything that is due is sent, what waits for its first
\* transmission included.  What never times out is due when the uptime has passed
\* 0xfffffff.
LEMMA RetransmitQueuesBooked ==
  ASSUME NEW c, Sound(c), Booked(c), past_far \in BOOLEAN
  PROVE  LET d == RetransmitQueues(c)
         IN  /\ Booked(d) /\ Resent(c, d) /\ d.status = c.status
             /\ c.status = "AUTHED" => AllSent(d)
<1> DEFINE late == {m \in Mid : IsTimeout(c.pkt[m])}
           due  == {m \in Mid \ late : c.status = "AUTHED" /\ SendDue(c.pkt[m])}
           d    == RetransmitQueues(c)
<1>1. c \in Conns /\ d \in Conns
  BY RetransmitQueuesSound DEF Sound
<1>2. late \in SUBSET Queued(c)
  BY DEF Queued, IsTimeout
<1>3. /\ d.calls = [m \in Mid |-> IF m \in late /\ HasCallback(req[m].kind)
                                  THEN c.calls[m] + 1 ELSE c.calls[m]]
      /\ d.dropped = c.dropped /\ d.d_count = c.d_count - Cardinality(late)
      /\ d.pkt = [m \in Mid |-> CASE m \in late -> NoPacket
                                  [] m \in due  -> Transmit(c.pkt[m])
                                  [] OTHER      -> c.pkt[m]]
      /\ d.status = c.status
  BY <1>1 DEF RetransmitQueues, Complete, Conns
<1>4. \A m \in Mid : c.pkt[m] \in Packets
  BY <1>1 DEF Conns
<1>5. \A m \in due : SendDue(c.pkt[m]) /\ m \notin late
  OBVIOUS
<1>6. ASSUME NEW m \in Mid, m \notin late, m \notin due, c.status = "AUTHED"
      PROVE  ~SendDue(c.pkt[m])
  BY <1>6
<1> HIDE DEF late, due, d
<1>7. ASSUME NEW m \in late
      PROVE  ~d.pkt[m].on
  <2>1. m \in Mid
    BY <1>2 DEF Queued
  <2>2. d.pkt[m] = NoPacket
    BY <1>3, <1>5, <2>1
  <2>3. QED
    BY <2>2, PacketTypes
<1>8. ASSUME NEW m \in Mid \ late
      PROVE  d.pkt[m] = IF m \in due THEN Transmit(c.pkt[m]) ELSE c.pkt[m]
  BY <1>3
<1>9. ASSUME NEW m \in Mid \ late
      PROVE  /\ d.pkt[m].on = c.pkt[m].on /\ d.pkt[m].never = c.pkt[m].never
             /\ d.pkt[m].on => PacketKept(d.pkt[m], m)
             /\ d.pkt[m].on /\ c.status = "AUTHED" => d.pkt[m].count > 0
             /\ d.pkt[m].on /\ c.pkt[m].never /\ ~past_far
                  => d.pkt[m].count = c.pkt[m].count
  <2>1. c.pkt[m].on => PacketKept(c.pkt[m], m)
    BY DEF Booked
  <2> DEFINE p == c.pkt[m]
             q == Transmit(p)
  <2>2. p \in Packets
    BY <1>4
  <2> HIDE DEF p, q
  <2>3. CASE m \in due
    <3>1. q.on = p.on /\ q.count > 0 /\ q.wait # FAR /\ q.never = p.never
      BY <2>2, PacketFields, PacketTypes DEF q
    <3>2. d.pkt[m] = q
      BY <1>8, <2>3 DEF p, q
    <3>3. p.on /\ (p.wait = 0 \/ (p.wait = FAR /\ past_far))
      BY <1>5, <2>3 DEF SendDue, p
    <3>4. PacketKept(p, m)
      BY <2>1, <3>3 DEF p
    <3>5. ~past_far => ~p.never
      BY <3>3, <3>4 DEF PacketKept, FAR
    <3>6. PacketKept(q, m)
      BY <2>2, <3>1, <3>4, <3>5 DEF PacketKept, Packets
    <3>7. QED
      BY <3>1, <3>2, <3>5, <3>6 DEF p
  <2>4. CASE m \notin due
    <3>1. d.pkt[m] = p
      BY <1>8, <2>4 DEF p
    <3>2. ASSUME p.on, c.status = "AUTHED"
          PROVE  p.count > 0
      <4>1. ~SendDue(p)
        BY <1>6, <2>4, <3>2 DEF p
      <4>2. p.wait # 0
        BY <3>2, <4>1 DEF SendDue
      <4>3. QED
        BY <2>1, <2>2, <3>2, <4>2 DEF PacketKept, Packets, p
    <3>3. QED
      BY <2>1, <3>1, <3>2 DEF p
  <2>5. QED
    BY <2>3, <2>4
<1>10. Booked(d)
  BY <1>1, <1>2, <1>3, <1>7, <1>9, BookedWithout
<1>11. \A m \in Mid : d.pkt[m].on => m \notin late
  BY <1>7
<1>12. Resent(c, d)
  <2> SUFFICES ASSUME NEW m \in Mid, d.pkt[m].on
               PROVE  /\ c.pkt[m].on /\ d.pkt[m].never = c.pkt[m].never
                      /\ c.pkt[m].never /\ ~past_far => d.pkt[m].count = c.pkt[m].count
    BY DEF Resent
  <2>1. m \notin late
    BY <1>11
  <2>2. QED
    BY <1>9, <2>1
<1>13. c.status = "AUTHED" => AllSent(d)
  BY <1>9, <1>11 DEF AllSent, Queued
<1>14. QED
  BY <1>3, <1>10, <1>12, <1>13 DEF d

LEMMA MaintainBooked ==
  ASSUME NEW c, Sound(c), Booked(c), past_far \in BOOLEAN, NEW again \in Again,
         Maintain(c, again)
  PROVE  /\ Booked(conn') /\ Resent(c, conn')
         /\ conn'.status = "AUTHED" => AllSent(conn')
<1>1. again \in BOOLEAN /\ (again => REENTRANT)
  BY DEF Again
<1> DEFINE a == RetransmitAuth(c, again)
           p == RetransmitPing(a)
           q == RetransmitQueues(p)
           h == LoseSession(c.timeouts, q)
           s == SessionRetry(h)
<1>2. conn' = PingHandler(s)
  BY DEF Maintain
<1>3. Sound(a) /\ Booked(a) /\ SameRequests(c, a)
  BY <1>1, RetransmitAuthSound, ProloguesSame, BookedSame
<1> HIDE DEF a
<1>4. Sound(p) /\ Booked(p) /\ SameRequests(a, p)
  BY <1>1, <1>3, RetransmitPingSound, ProloguesSame, BookedSame
<1> HIDE DEF p
<1>5. /\ Sound(q) /\ Booked(q) /\ Resent(p, q) /\ q.status = p.status
      /\ p.status = "AUTHED" => AllSent(q)
  BY <1>4, RetransmitQueuesSound, RetransmitQueuesBooked
<1> HIDE DEF q
<1>6. Sound(h) /\ SameRequests(q, h) /\ (h.status = "AUTHED" => q.status = "AUTHED")
  BY <1>5, LoseSessionSound, EpiloguesSame
<1> HIDE DEF h
<1>7. Sound(s) /\ SameRequests(h, s) /\ (s.status = "AUTHED" => h.status = "AUTHED")
  BY <1>6, SessionRetrySound, EpiloguesSame
<1> HIDE DEF s
<1>8. SameRequests(s, conn') /\ conn'.status = s.status
  BY <1>2, <1>7, EpiloguesSame
<1>9. SameRequests(q, conn')
  BY <1>6, <1>7, <1>8 DEF SameRequests
<1>10. Booked(conn')
  BY <1>5, <1>9, BookedSame
<1>11. Resent(c, conn')
  BY <1>3, <1>4, <1>5, <1>9 DEF Resent, SameRequests
<1>12. conn'.status = "AUTHED" => AllSent(conn')
  BY <1>5, <1>6, <1>7, <1>8, <1>9 DEF AllSent, SameRequests, Queued
<1>13. QED
  BY <1>10, <1>11, <1>12
-------------------------------------------------------------------------------

\* The strengthened invariant of the requests: each packet's flags, its request's
\* callback and the count of the queue go together, and in a session no packet is
\* left unsent.
RequestsInv ==
  /\ IInv /\ Booked(conn)
  /\ conn.status = "AUTHED" => AllSent(conn)

\* What a step makes of a packet that stays in its list.
Carried ==
  \A m \in Mid : conn'.pkt[m].on =>
    /\ conn.pkt[m].on
    /\ conn.pkt[m].never /\ conn'.pkt[m].never /\ ~past_far
         => conn'.pkt[m].count = conn.pkt[m].count

LEMMA SameNext ==
  ASSUME Booked(conn'), conn'.status = "AUTHED" => AllSent(conn'), IInv',
         UNCHANGED <<req, past_far>>
  PROVE  RequestsInv'
<1>1. Booked(conn)'
  BY DEF Booked, CallKept, PacketKept, IsObserver, Queued
<1>2. (conn.status = "AUTHED" => AllSent(conn))'
  BY DEF AllSent, Queued
<1>3. QED
  BY <1>1, <1>2 DEF RequestsInv

LEMMA ReceivedSame ==
  ASSUME Sound(conn)
  PROVE  SameRequests(conn, Received) /\ Received.status = conn.status
  BY DEF SameRequests, Received, Sound, Conns

LEMMA TrySyncBooked ==
  ASSUME RequestsInv, TrySync
  PROVE  RequestsInv' /\ Carried
<1>1. IInv' /\ UNCHANGED <<req, past_far>>
  BY TrySyncSound DEF RequestsInv, TrySync, SyncIdle, SyncUnmatched, SyncAuth, SyncPing, SyncData
<1>2. /\ Sound(conn) /\ Booked(conn) /\ past_far \in BOOLEAN
      /\ Sound(Received) /\ Booked(Received) /\ SameRequests(conn, Received)
  BY ReceivedSound, ReceivedSame, BookedSame DEF RequestsInv, IInv, TypeOK
<1>3. ASSUME NEW c, Sound(c), Booked(c), Follows(Received, c),
             NEW again \in Again, Maintain(c, again)
      PROVE  /\ Booked(conn') /\ (conn'.status = "AUTHED" => AllSent(conn'))
             /\ Carried
  <2>1. Booked(conn') /\ Resent(c, conn') /\ (conn'.status = "AUTHED" => AllSent(conn'))
    BY <1>2, <1>3, MaintainBooked
  <2>2. Follows(conn, c)
    BY <1>2, <1>3 DEF Follows, SameRequests
  <2>3. Carried
    BY <2>1, <2>2 DEF Carried, Follows, Resent
  <2>4. QED
    BY <2>1, <2>3
<1>4. Booked(conn') /\ (conn'.status = "AUTHED" => AllSent(conn')) /\ Carried
  <2>1. CASE SyncIdle
    <3>1. Follows(Received, conn)
      BY <1>2 DEF Follows, SameRequests
    <3>2. QED
      BY <1>2, <1>3, <2>1, <3>1 DEF SyncIdle
  <2>2. CASE SyncUnmatched
    <3>1. conn' = Received
      BY <2>2 DEF SyncUnmatched
    <3>2. Carried
      BY <1>2, <3>1 DEF Carried, SameRequests
    <3>3. conn'.status = "AUTHED" => AllSent(conn')
      BY <1>2, <3>1, ReceivedSame DEF RequestsInv, AllSent, Queued, SameRequests
    <3>4. QED
      BY <1>2, <3>1, <3>2, <3>3
  <2>3. ASSUME NEW code \in AuthAnswers, SyncAuth(code)
        PROVE  Booked(conn') /\ (conn'.status = "AUTHED" => AllSent(conn')) /\ Carried
    <3>1. PICK again \in Again : Maintain(AuthCallback(Received, code, again), again)
      BY <2>3 DEF SyncAuth
    <3> DEFINE c == AuthCallback(Received, code, again)
    <3>2. Sound(c) /\ Booked(c) /\ Follows(Received, c)
      BY <1>2, AuthCallbackSound, AuthCallbackBooked DEF Again
    <3> HIDE DEF c
    <3>3. QED
      BY <1>3, <3>1, <3>2 DEF c
  <2>4. ASSUME NEW code \in PingAnswers, SyncPing(code)
        PROVE  Booked(conn') /\ (conn'.status = "AUTHED" => AllSent(conn')) /\ Carried
    <3>1. PICK again \in Again : Maintain(PingCallback(Received, code), again)
      BY <2>4 DEF SyncPing
    <3> DEFINE c == PingCallback(Received, code)
    <3>2. Sound(c) /\ SameRequests(Received, c)
      BY <1>2, PingCallbackSound, ProloguesSame
    <3>3. Booked(c) /\ Follows(Received, c)
      BY <1>2, <3>2, BookedSame
    <3> HIDE DEF c
    <3>4. QED
      BY <1>3, <3>1, <3>2, <3>3 DEF c
  <2>5. ASSUME NEW m \in Mid, NEW code \in DataCodes, SyncData(m, code)
        PROVE  Booked(conn') /\ (conn'.status = "AUTHED" => AllSent(conn')) /\ Carried
    <3>1. PICK again \in Again : Maintain(DataCallback(Received, m, code), again)
      BY <2>5 DEF SyncData
    <3> DEFINE c == DataCallback(Received, m, code)
    <3>2. Received.pkt[m].on /\ Received.pkt[m].count > 0
      BY <1>2, <2>5 DEF SyncData, SameRequests
    <3>3. Sound(c) /\ Booked(c) /\ Follows(Received, c)
      BY <1>2, <3>2, DataCallbackSound, DataCallbackBooked
    <3> HIDE DEF c
    <3>4. QED
      BY <1>3, <3>1, <3>3 DEF c
  <2>6. QED
    BY <2>1, <2>2, <2>3, <2>4, <2>5 DEF TrySync
<1>5. QED
  BY <1>1, <1>4, SameNext

LEMMA AuthBooked ==
  ASSUME RequestsInv, Auth
  PROVE  RequestsInv' /\ Carried
<1>1. IInv' /\ UNCHANGED <<req, past_far>>
  BY AuthSound DEF RequestsInv, IInv, Auth
<1>2. conn \in Conns
  BY DEF RequestsInv, IInv, Sound
<1>3. SameRequests(conn, conn') /\ conn'.status = "AUTHING"
  BY <1>2 DEF Auth, NewAuth, SameRequests, Conns
<1>4. Booked(conn')
  BY <1>3, BookedSame DEF RequestsInv
<1>5. Carried
  BY <1>3 DEF Carried, SameRequests
<1>6. QED
  BY <1>1, <1>3, <1>4, <1>5, SameNext

LEMMA TickBooked ==
  ASSUME RequestsInv, Tick
  PROVE  RequestsInv' /\ Carried
<1>1. IInv' /\ conn \in Conns /\ conn' \in Conns /\ req' = req
      /\ past_far \in BOOLEAN /\ (past_far => past_far')
  BY TickSound DEF RequestsInv, IInv, Sound, TypeOK, Tick
<1>2. /\ conn'.calls = conn.calls /\ conn'.dropped = conn.dropped
      /\ conn'.d_count = conn.d_count /\ conn'.status = conn.status
      /\ conn'.pkt = [m \in Mid |-> PacketTick(conn.pkt[m])]
  BY <1>1 DEF Tick, Conns
<1>3. ASSUME NEW m \in Mid
      PROVE  LET p == conn.pkt[m]  q == conn'.pkt[m] IN
             /\ p \in Packets /\ q.on = p.on /\ q.count = p.count /\ q.never = p.never
             /\ (q.wait = FAR <=> p.wait = FAR) /\ (p.wait = 0 => q.wait = 0)
  <2>1. conn.pkt[m] \in Packets /\ conn'.pkt[m] = PacketTick(conn.pkt[m])
    BY <1>1, <1>2 DEF Conns
  <2>2. QED
    BY <2>1, PacketTypes, PacketFields
<1>4. Carried
  BY <1>3 DEF Carried
<1>5. Queued(conn') = Queued(conn)
  BY <1>3 DEF Queued
<1>6. \A m \in Mid : CallKept(conn, m)' /\ (conn'.pkt[m].on => PacketKept(conn'.pkt[m], m))
  <2> SUFFICES ASSUME NEW m \in Mid
               PROVE  CallKept(conn, m)' /\ (conn'.pkt[m].on => PacketKept(conn'.pkt[m], m))
    OBVIOUS
  <2>1. CallKept(conn, m) /\ (conn.pkt[m].on => PacketKept(conn.pkt[m], m))
    BY DEF RequestsInv, Booked
  <2>2. CallKept(conn, m)'
    BY <1>1, <1>2, <1>3, <2>1 DEF CallKept
  <2>3. conn'.pkt[m].on => PacketKept(conn'.pkt[m], m)
    BY <1>3, <2>1 DEF PacketKept
  <2>4. QED
    BY <2>2, <2>3
<1>7. Booked(conn)'
  <2>1. \A m \in Mid : (conn.pkt[m].on => PacketKept(conn.pkt[m], m))'
    BY <1>1, <1>6 DEF PacketKept, IsObserver
  <2>2. (\A m \in conn.dropped : req[m].kind # "none" /\ ~conn.pkt[m].on)'
    <3>1. \A m \in conn.dropped : m \in Mid /\ req[m].kind # "none" /\ ~conn.pkt[m].on
      BY <1>1 DEF RequestsInv, Booked, Conns
    <3>2. QED
      BY <1>1, <1>2, <1>3, <3>1
  <2>3. (conn.d_count = Cardinality(Queued(conn)) + Cardinality(conn.dropped))'
    BY <1>2, <1>5 DEF RequestsInv, Booked
  <2>4. QED
    BY <1>6, <2>1, <2>2, <2>3 DEF Booked
<1>8. (conn.status = "AUTHED" => AllSent(conn))'
  BY <1>2, <1>3, <1>5 DEF RequestsInv, AllSent, Queued
<1>9. QED
  BY <1>1, <1>4, <1>7, <1>8 DEF RequestsInv

\* A call queues a packet of a new request m, and may delete the observer that
\* gone holds, if any.
Queues(m, kind, url, ret, gone) ==
  /\ req[m].kind = "none" /\ req' = [req EXCEPT ![m] = [kind |-> kind, url |-> url, ret |-> ret]]
  /\ gone \in SUBSET Observers(conn) /\ m \notin gone
  /\ \A j, k \in gone : j = k
  /\ kind # "off" => gone = {}
  /\ conn'.status = conn.status /\ conn'.d_count = conn.d_count + 1
  /\ conn'.dropped = conn.dropped \cup gone
  /\ conn'.calls = [conn.calls EXCEPT ![m] = IF ret = "SENDERR" /\ HasCallback(kind)
                                             THEN 1 ELSE 0]
  /\ conn'.pkt[m] = IF conn.status = "AUTHED" THEN SentPacket ELSE StoredPacket
  /\ \A k \in Mid \ {m} : conn'.pkt[k] = IF k \in gone THEN NoPacket ELSE conn.pkt[k]
  /\ UNCHANGED past_far

LEMMA SubmitQueues ==
  ASSUME RequestsInv, NEW m \in Mid, NEW kind \in Kinds,
         NEW url \in UrlsOf(kind), NEW ret \in {"NOERR", "SENDERR"},
         Submit(m, kind, url, ret)
  PROVE  \E gone : Queues(m, kind, url, ret, gone)
<1> DEFINE p     == IF conn.status = "AUTHED" THEN SentPacket ELSE StoredPacket
           n     == IF ret = "SENDERR" /\ HasCallback(kind) THEN 1 ELSE 0
           c     == [conn EXCEPT !.pkt = [conn.pkt EXCEPT ![m] = p],
                                 !.calls = [conn.calls EXCEPT ![m] = n],
                                 !.d_count = @ + 1]
           different == {k \in Observers(c) : req[k].url # url}
           first     == {k \in different : \A j \in different : k <= j}
<1>1. conn \in Conns
  BY DEF RequestsInv, IInv, Sound
<1>2. /\ conn' = IF kind = "off" THEN DropObserver(c, url) ELSE c
      /\ req' = [req EXCEPT ![m] = [kind |-> kind, url |-> url, ret |-> ret]]
      /\ past_far' = past_far /\ req[m].kind = "none"
  BY DEF Submit, NextMid, NoReq
<1> HIDE DEF p, n
<1>3. /\ c.status = conn.status /\ c.d_count = conn.d_count + 1 /\ c.dropped = conn.dropped
      /\ c.calls = [conn.calls EXCEPT ![m] = n] /\ c.pkt = [conn.pkt EXCEPT ![m] = p]
  BY <1>1 DEF Conns
<1>4. DropObserver(c, url) = [c EXCEPT !.pkt = [k \in Mid |-> IF k \in first THEN NoPacket
                                                              ELSE c.pkt[k]],
                                       !.dropped = @ \cup first]
  BY DEF DropObserver
<1>5. DOMAIN c = DOMAIN conn
  OBVIOUS
<1>6. {"pkt", "dropped", "status", "d_count", "calls"} \subseteq DOMAIN c
  BY <1>1, <1>5 DEF Conns
<1> HIDE DEF c
<1>7. c.pkt[m] = p /\ \A k \in Mid \ {m} : c.pkt[k] = conn.pkt[k]
  BY <1>1, <1>3 DEF Conns
<1>8. first \in SUBSET Observers(conn) /\ m \notin first /\ \A j, k \in first : j = k
  <2>1. \A k \in Observers(c) : k \in Mid /\ IsObserver(k) /\ c.pkt[k].on
    BY DEF Observers, Queued
  <2>2. ~IsObserver(m)
    BY <1>2 DEF IsObserver
  <2>3. \A k \in Observers(c) : k # m /\ k \in Observers(conn)
    BY <1>7, <2>1, <2>2 DEF Observers, Queued
  <2>4. first \subseteq different /\ different \subseteq Observers(c)
    OBVIOUS
  <2>5. ASSUME NEW j \in first, NEW k \in first
        PROVE  j = k
    <3>1. j <= k /\ k <= j /\ j \in Mid /\ k \in Mid
      BY <2>1, <2>4
    <3>2. j \in Int /\ k \in Int
      BY <3>1 DEF Mid
    <3>3. QED
      BY <3>1, <3>2
  <2>6. QED
    BY <2>3, <2>4, <2>5
<1> HIDE DEF first
<1>9. CASE kind = "off"
  <2>1. conn' = [c EXCEPT !.pkt = [k \in Mid |-> IF k \in first THEN NoPacket ELSE c.pkt[k]],
                          !.dropped = @ \cup first]
    BY <1>2, <1>4, <1>9
  <2>2. /\ conn'.status = c.status /\ conn'.d_count = c.d_count /\ conn'.calls = c.calls
        /\ conn'.dropped = c.dropped \cup first
        /\ conn'.pkt = [k \in Mid |-> IF k \in first THEN NoPacket ELSE c.pkt[k]]
    BY <1>6, <2>1
  <2>3. /\ conn'.pkt[m] = p
        /\ \A k \in Mid \ {m} : conn'.pkt[k] = IF k \in first THEN NoPacket ELSE conn.pkt[k]
    BY <1>7, <1>8, <2>2
  <2>4. Queues(m, kind, url, ret, first)
    BY <1>2, <1>3, <1>8, <1>9, <2>2, <2>3 DEF Queues, p, n
  <2>5. QED
    BY <2>4
<1>10. CASE kind # "off"
  <2>1. conn' = c
    BY <1>2, <1>10
  <2>2. \A k \in Mid \ {m} : conn'.pkt[k] = IF k \in {} THEN NoPacket ELSE conn.pkt[k]
    BY <1>7, <2>1
  <2>3. conn'.dropped = conn.dropped \cup {}
    BY <1>3, <2>1
  <2>4. Queues(m, kind, url, ret, {})
    BY <1>2, <1>3, <1>7, <2>1, <2>2, <2>3 DEF Queues, p, n
  <2>5. QED
    BY <2>4
<1>11. QED
  BY <1>9, <1>10

LEMMA QueuesBooked ==
  ASSUME RequestsInv, IInv', NEW m \in Mid, NEW kind \in Kinds, NEW url,
         NEW ret \in {"NOERR", "SENDERR"}, NEW gone, Queues(m, kind, url, ret, gone)
  PROVE  RequestsInv'
<1>1. /\ conn \in Conns /\ conn' \in Conns /\ req \in [Mid -> Requests]
      /\ Booked(conn) /\ (conn.status = "AUTHED" => AllSent(conn))
  BY DEF RequestsInv, IInv, Sound, TypeOK
<1>2. req'[m] = [kind |-> kind, url |-> url, ret |-> ret]
      /\ \A k \in Mid \ {m} : req'[k] = req[k]
  BY <1>1 DEF Queues
<1>3. ~conn.pkt[m].on /\ m \notin conn.dropped
  BY <1>1 DEF Booked, PacketKept, Queues
<1>4. kind # "none"
  BY ConnAssumption DEF AllKinds
<1>5. \A k \in gone : /\ k \in Mid \ {m} /\ conn.pkt[k].on /\ req[k].kind = "on"
                      /\ ~conn'.pkt[k].on
  BY PacketTypes DEF Queues, Observers, Queued, IsObserver
<1>6. conn'.pkt[m].on
      /\ \A k \in Mid \ ({m} \cup gone) : conn'.pkt[k] = conn.pkt[k]
  BY PacketFields DEF Queues
<1>7. ASSUME NEW k \in Mid
      PROVE  CallKept(conn, k)'
  <2>1. CASE k = m
    <3>1. conn'.calls[k] = IF ret = "SENDERR" /\ HasCallback(kind) THEN 1 ELSE 0
      BY <1>1, <2>1 DEF Queues, Conns
    <3>2. QED
      BY <1>2, <1>6, <2>1, <3>1 DEF CallKept
  <2>2. CASE k \in gone
    BY <1>2, <1>5, <2>2 DEF CallKept, HasCallback
  <2>3. CASE k \notin {m} \cup gone
    <3>1. conn'.calls[k] = conn.calls[k]
      BY <1>1, <2>3 DEF Queues, Conns
    <3>2. CallKept(conn, k)
      BY <1>1 DEF Booked
    <3>3. QED
      BY <1>2, <1>6, <2>3, <3>1, <3>2 DEF CallKept
  <2>4. QED
    BY <2>1, <2>2, <2>3
<1>8. ASSUME NEW k \in Mid, conn'.pkt[k].on
      PROVE  PacketKept(conn.pkt[k], k)'
  <2>1. CASE k = m
    <3>1. conn'.pkt[k] \in {SentPacket, StoredPacket}
      BY <2>1 DEF Queues
    <3>2. /\ conn'.pkt[k].wait # FAR /\ ~conn'.pkt[k].never
          /\ conn'.pkt[k].count = 0 => conn'.pkt[k].wait = 0
      <4>1. CASE conn'.pkt[k] = SentPacket
        <5>1. SentPacket.count > 0 /\ SentPacket.count # 0
          BY PacketFields, PacketTypes DEF Packets
        <5>2. QED
          BY <4>1, <5>1, PacketFields
      <4>2. CASE conn'.pkt[k] = StoredPacket
        <5>1. 0 # FAR
          BY DEF FAR
        <5>2. QED
          BY <4>2, <5>1, PacketFields
      <4>3. QED
        BY <3>1, <4>1, <4>2
    <3>3. req'[k].kind # "none" /\ req'[k].ret \in {"NOERR", "SENDERR"}
      BY <1>2, <1>4, <2>1
    <3>4. QED
      BY <3>2, <3>3 DEF PacketKept
  <2>2. CASE k \notin {m} \cup gone
    <3>1. PacketKept(conn.pkt[k], k)
      BY <1>1, <1>6, <1>8, <2>2 DEF Booked
    <3>2. QED
      BY <1>2, <1>6, <2>2, <3>1 DEF PacketKept, IsObserver, Queues
  <2>3. QED
    BY <1>5, <1>8, <2>1, <2>2
<1>9. ASSUME NEW k \in conn'.dropped
      PROVE  req'[k].kind # "none" /\ ~conn'.pkt[k].on
  <2>1. CASE k \in gone
    BY <1>2, <1>5, <2>1
  <2>2. CASE k \in conn.dropped /\ k \notin gone
    <3>1. k \in Mid \ ({m} \cup gone)
      BY <1>1, <1>3, <2>2 DEF Conns
    <3>2. QED
      BY <1>1, <1>2, <1>6, <2>2, <3>1 DEF Booked
  <2>3. QED
    BY <2>1, <2>2 DEF Queues
<1>10. conn'.d_count = Cardinality(Queued(conn')) + Cardinality(conn'.dropped)
  <2> DEFINE Q == Queued(conn) \cup {m}
  <2>1. Queued(conn') = Q \ gone
    BY <1>3, <1>5, <1>6 DEF Queued
  <2>2. IsFiniteSet(Queued(conn)) /\ Cardinality(Queued(conn)) \in Nat
    BY SubsetsOfMid DEF Queued
  <2>3. IsFiniteSet(conn.dropped) /\ Cardinality(conn.dropped) \in Nat
    BY <1>1, SubsetsOfMid DEF Conns
  <2>4. IsFiniteSet(gone) /\ Cardinality(gone) \in Nat
    BY <1>5, SubsetsOfMid
  <2>5. IsFiniteSet(Q) /\ Cardinality(Q) = Cardinality(Queued(conn)) + 1
    BY <1>3, <2>2, FS_AddElement DEF Queued
  <2>6. gone \subseteq Q /\ conn.dropped \cap gone = {}
    BY <1>1, <1>5 DEF Queued, Booked
  <2> HIDE DEF Q
  <2>7. Cardinality(Q \ gone) = Cardinality(Q) - Cardinality(gone)
    <3>1. Cardinality(Q \ gone) = Cardinality(Q) - Cardinality(Q \cap gone)
      BY <2>5, FS_Difference
    <3>2. Q \cap gone = gone
      BY <2>6
    <3>3. QED
      BY <3>1, <3>2
  <2>8. Cardinality(conn.dropped \cup gone) = Cardinality(conn.dropped) + Cardinality(gone)
    <3>1. Cardinality(conn.dropped \cup gone)
            = Cardinality(conn.dropped) + Cardinality(gone) - Cardinality(conn.dropped \cap gone)
      BY <2>3, <2>4, FS_Union
    <3>2. Cardinality(conn.dropped \cap gone) = 0
      BY <2>6, FS_EmptySet
    <3>3. QED
      BY <2>3, <2>4, <3>1, <3>2
  <2>9. /\ conn'.d_count = conn.d_count + 1 /\ conn'.dropped = conn.dropped \cup gone
        /\ conn.d_count = Cardinality(Queued(conn)) + Cardinality(conn.dropped)
    BY <1>1 DEF Queues, Booked
  <2>10. Cardinality(Queued(conn')) = Cardinality(Queued(conn)) + 1 - Cardinality(gone)
    <3>1. Cardinality(Queued(conn')) = Cardinality(Q \ gone)
      BY <2>1
    <3>2. QED
      BY <2>2, <2>4, <2>5, <2>7, <3>1
  <2>11. Cardinality(conn'.dropped) = Cardinality(conn.dropped) + Cardinality(gone)
    BY <2>8, <2>9
  <2>12. QED
    BY <2>2, <2>3, <2>4, <2>9, <2>10, <2>11
<1>11. Booked(conn)'
  BY <1>7, <1>8, <1>9, <1>10 DEF Booked
<1>12. (conn.status = "AUTHED" => AllSent(conn))'
  <2> SUFFICES ASSUME conn.status = "AUTHED", NEW k \in Mid, conn'.pkt[k].on
               PROVE  conn'.pkt[k].count > 0
    BY DEF AllSent, Queued, Queues
  <2>1. CASE k = m
    BY <2>1, PacketFields DEF Queues
  <2>2. CASE k # m
    BY <1>1, <1>5, <1>6, <2>2 DEF AllSent, Queued
  <2>3. QED
    BY <2>1, <2>2
<1>13. QED
  BY <1>11, <1>12 DEF RequestsInv

LEMMA RefuseBooked ==
  ASSUME RequestsInv, NEW m \in Mid, NEW kind \in Kinds, NEW url \in UrlsOf(kind),
         Refuse(m, kind, url)
  PROVE  /\ RequestsInv' /\ Carried
         /\ req[m].kind = "none" /\ conn'.pkt = conn.pkt
         /\ req' = [req EXCEPT ![m] = [kind |-> kind, url |-> url, ret |-> "QUEUEFULL"]]
<1> DEFINE n == IF HasCallback(kind) THEN 1 ELSE 0
<1>1. /\ IInv' /\ conn \in Conns /\ conn' \in Conns /\ req \in [Mid -> Requests]
      /\ Booked(conn) /\ (conn.status = "AUTHED" => AllSent(conn))
  BY RefuseSound DEF RequestsInv, IInv, Sound, TypeOK
<1>2. /\ req[m].kind = "none" /\ past_far' = past_far
      /\ req' = [req EXCEPT ![m] = [kind |-> kind, url |-> url, ret |-> "QUEUEFULL"]]
  BY DEF Refuse, NextMid, NoReq
<1>3. conn' = [conn EXCEPT !.calls = [conn.calls EXCEPT ![m] = n]]
  BY DEF Refuse
<1> HIDE DEF n
<1>4. /\ conn'.pkt = conn.pkt /\ conn'.dropped = conn.dropped /\ conn'.d_count = conn.d_count
      /\ conn'.status = conn.status /\ conn'.calls = [conn.calls EXCEPT ![m] = n]
  BY <1>1, <1>3 DEF Conns
<1>5. /\ req'[m] = [kind |-> kind, url |-> url, ret |-> "QUEUEFULL"]
      /\ \A k \in Mid \ {m} : req'[k] = req[k]
  BY <1>1, <1>2
<1>6. ~conn.pkt[m].on /\ m \notin conn.dropped
  BY <1>1, <1>2 DEF Booked, PacketKept
<1>7. ASSUME NEW k \in Mid
      PROVE  CallKept(conn, k)'
  <2>1. CASE k = m
    <3>1. conn'.calls[k] = n
      BY <1>1, <1>4, <2>1 DEF Conns
    <3>2. QED
      BY <1>5, <2>1, <3>1 DEF CallKept, n
  <2>2. CASE k # m
    <3>1. conn'.calls[k] = conn.calls[k] /\ CallKept(conn, k)
      BY <1>1, <1>4, <2>2 DEF Conns, Booked
    <3>2. QED
      BY <1>4, <1>5, <2>2, <3>1 DEF CallKept
  <2>3. QED
    BY <2>1, <2>2
<1>8. ASSUME NEW k \in Mid, conn'.pkt[k].on
      PROVE  PacketKept(conn.pkt[k], k)'
  <2>1. k # m /\ PacketKept(conn.pkt[k], k)
    BY <1>1, <1>4, <1>6, <1>8 DEF Booked
  <2>2. QED
    BY <1>2, <1>4, <1>5, <2>1 DEF PacketKept, IsObserver
<1>9. ASSUME NEW k \in conn'.dropped
      PROVE  req'[k].kind # "none" /\ ~conn'.pkt[k].on
  BY <1>1, <1>4, <1>5, <1>6 DEF Booked, Conns
<1>10. Booked(conn)'
  <2>1. Queued(conn') = Queued(conn)
    BY <1>4 DEF Queued
  <2>2. conn.d_count = Cardinality(Queued(conn)) + Cardinality(conn.dropped)
    BY <1>1 DEF Booked
  <2>3. conn'.d_count = Cardinality(Queued(conn')) + Cardinality(conn'.dropped)
    BY <1>4, <2>1, <2>2
  <2>4. QED
    BY <1>7, <1>8, <1>9, <2>3 DEF Booked
<1>11. (conn.status = "AUTHED" => AllSent(conn))'
  BY <1>1, <1>4 DEF AllSent, Queued
<1>12. Carried
  BY <1>4 DEF Carried
<1>13. QED
  BY <1>1, <1>2, <1>4, <1>10, <1>11, <1>12 DEF RequestsInv

LEMMA InitBooked ==
  ASSUME Init
  PROVE  RequestsInv
<1>1. IInv
  BY InitSound DEF IInv
<1>2. \A m \in Mid : ~conn.pkt[m].on
  BY PacketTypes DEF Init
<1>3. Queued(conn) = {}
  BY <1>2 DEF Queued
<1>4. conn.dropped = {} /\ conn.d_count = 0 /\ conn.status = "AUTHING"
  BY DEF Init
<1>5. \A m \in Mid : CallKept(conn, m)
  BY DEF Init, CallKept, HasCallback, NoReq
<1>6. conn.d_count = Cardinality(Queued(conn)) + Cardinality(conn.dropped)
  BY <1>3, <1>4, FS_EmptySet
<1>7. Booked(conn)
  BY <1>2, <1>4, <1>5, <1>6 DEF Booked
<1>8. QED
  BY <1>1, <1>4, <1>7 DEF RequestsInv

\* What Submit leaves of the packets that stay.
LEMMA QueuesCarried ==
  ASSUME NEW m \in Mid, NEW kind, NEW url, NEW ret, NEW gone,
         Queues(m, kind, url, ret, gone), NEW k \in Mid \ {m}, conn'.pkt[k].on
  PROVE  conn'.pkt[k] = conn.pkt[k]
  BY PacketTypes DEF Queues

\* Each step is for the requests a call that is accepted, one that is refused, or
\* Carried.
Accepted ==
  \E m \in Mid, kind \in Kinds, ret \in {"NOERR", "SENDERR"} : \E url \in UrlsOf(kind) :
    \E gone \in SUBSET Mid : Queues(m, kind, url, ret, gone)

Refused ==
  \E m \in Mid, kind \in Kinds : \E url \in UrlsOf(kind) :
    /\ req[m].kind = "none" /\ conn'.pkt = conn.pkt
    /\ req' = [req EXCEPT ![m] = [kind |-> kind, url |-> url, ret |-> "QUEUEFULL"]]

LEMMA RequestsStep ==
  ASSUME RequestsInv, [Next]_vars
  PROVE  RequestsInv' /\ (Accepted \/ Refused \/ (Carried /\ req' = req))
<1>1. ASSUME NEW m \in Mid, NEW kind \in Kinds, NEW url \in UrlsOf(kind),
             NEW ret \in {"NOERR", "SENDERR"}, Submit(m, kind, url, ret)
      PROVE  RequestsInv' /\ Accepted
  <2>1. IInv'
    BY <1>1, SubmitSound DEF RequestsInv, IInv
  <2>2. PICK gone : Queues(m, kind, url, ret, gone)
    BY <1>1, SubmitQueues
  <2>3. gone \in SUBSET Mid
    BY <2>2 DEF Queues, Observers, Queued
  <2>4. Accepted
    BY <2>2, <2>3 DEF Accepted
  <2>5. QED
    BY <2>1, <2>2, <2>4, QueuesBooked
<1>2. ASSUME NEW m \in Mid, NEW kind \in Kinds, NEW url \in UrlsOf(kind),
             Refuse(m, kind, url)
      PROVE  RequestsInv' /\ Refused
  <2>1. /\ RequestsInv' /\ req[m].kind = "none" /\ conn'.pkt = conn.pkt
        /\ req' = [req EXCEPT ![m] = [kind |-> kind, url |-> url, ret |-> "QUEUEFULL"]]
    BY <1>2, RefuseBooked
  <2>2. QED
    BY <2>1 DEF Refused
<1>3. ASSUME Auth
      PROVE  RequestsInv' /\ Carried /\ req' = req
  BY <1>3, AuthBooked DEF Auth
<1>4. ASSUME TrySync
      PROVE  RequestsInv' /\ Carried /\ req' = req
  BY <1>4, TrySyncBooked DEF TrySync, SyncIdle, SyncUnmatched, SyncAuth, SyncPing, SyncData
<1>5. ASSUME Tick
      PROVE  RequestsInv' /\ Carried /\ req' = req
  BY <1>5, TickBooked DEF Tick
<1>6. ASSUME UNCHANGED vars
      PROVE  RequestsInv' /\ Carried /\ req' = req
  <2>1. conn' = conn /\ req' = req /\ past_far' = past_far
    BY <1>6 DEF vars
  <2>2. IInv'
    BY <2>1 DEF RequestsInv, IInv, TypeOK, Sound, Session, BackingOff
  <2>3. Booked(conn')
    BY <2>1 DEF RequestsInv
  <2>4. conn'.status = "AUTHED" => AllSent(conn')
    BY <2>1 DEF RequestsInv
  <2>5. Carried
    BY <2>1 DEF Carried
  <2>6. QED
    BY <2>1, <2>2, <2>3, <2>4, <2>5, SameNext
<1>7. QED
  BY <1>1, <1>2, <1>3, <1>4, <1>5, <1>6 DEF Next, Operation

\* Every step keeps the account of the requests, whatever is submitted, answered
\* and lost, and however often the session is established anew.
THEOREM RequestsInvariance == Spec => []RequestsInv
<1>1. Init => RequestsInv
  BY InitBooked
<1>2. RequestsInv /\ [Next]_vars => RequestsInv'
  BY RequestsStep
<1>3. QED
  BY <1>1, <1>2, PTL DEF Spec

\* d_count exceeds the queue by the observers removeObserver has deleted, and by
\* nothing else.
THEOREM CountIsQueue == Spec => []CountBookkeeping
<1>1. RequestsInv => CountBookkeeping
  BY DEF RequestsInv, Booked, CountBookkeeping
<1>2. QED
  BY <1>1, RequestsInvariance, PTL

\* The user callback of a get or set runs once, when its request has left the
\* queue or could not be queued.
THEOREM OneCall == Spec => []CalledOnce
<1>1. RequestsInv => CalledOnce
  BY DEF RequestsInv, Booked, CallKept, CalledOnce
<1>2. QED
  BY <1>1, RequestsInvariance, PTL

\* No packet stays in its list that is neither sent again nor timed out, unless
\* the server has acknowledged it.
THEOREM NoneForgotten == Spec => []NothingForgotten
<1>1. ASSUME RequestsInv PROVE NothingForgotten
  <2> SUFFICES ASSUME NEW m \in Queued(conn)
               PROVE  LET p == conn.pkt[m] IN
                      /\ p.wait = FAR => p.never
                      /\ p.never => IsObserver(m) /\ p.count > 0
                      /\ p.count = 0 => p.wait = 0 /\ conn.status # "AUTHED"
    BY DEF NothingForgotten
  <2>1. PacketKept(conn.pkt[m], m)
    BY <1>1 DEF RequestsInv, Booked, Queued
  <2>2. conn.status = "AUTHED" => conn.pkt[m].count > 0
    BY <1>1 DEF RequestsInv, AllSent
  <2>3. conn.pkt[m].count = 0 => ~(conn.pkt[m].count > 0)
    OBVIOUS
  <2>4. QED
    BY <2>1, <2>2, <2>3 DEF PacketKept
<1>2. QED
  BY <1>1, RequestsInvariance, PTL

\* In one session an observer that the server has acknowledged is not sent again,
\* until the uptime passes 0xfffffff.
THEOREM AcknowledgedStaysQuiet == Spec => AcknowledgedIsQuiet
<1>1. ASSUME RequestsInv, [Next]_vars, NEW m \in Mid, ~past_far',
             conn.pkt[m].never, conn'.pkt[m].never, conn'.pkt[m].on
      PROVE  conn'.pkt[m].count = conn.pkt[m].count
  <2>1. past_far \in BOOLEAN /\ LONG_UPTIME \in BOOLEAN
    BY <1>1, ConnAssumption DEF RequestsInv, IInv, TypeOK
  <2>2. ~past_far
    BY <1>1, <2>1 DEF Next, Operation, Submit, Refuse, Auth, Tick, TrySync, SyncIdle,
         SyncUnmatched, SyncAuth, SyncPing, SyncData, vars
  <2>3. CASE Accepted
    <3>1. PICK k \in Mid, kind \in Kinds, ret \in {"NOERR", "SENDERR"} :
            \E url \in UrlsOf(kind) : \E gone \in SUBSET Mid : Queues(k, kind, url, ret, gone)
      BY <2>3 DEF Accepted
    <3>2. PICK url \in UrlsOf(kind), gone \in SUBSET Mid : Queues(k, kind, url, ret, gone)
      BY <3>1
    <3>3. m # k
      BY <1>1, <3>2, PacketFields DEF Queues
    <3>4. conn'.pkt[m] = conn.pkt[m]
      BY <1>1, <3>2, <3>3, QueuesCarried
    <3>5. QED
      BY <3>4
  <2>4. CASE Refused
    BY <2>4 DEF Refused
  <2>5. CASE Carried
    BY <1>1, <2>2, <2>5 DEF Carried
  <2>6. QED
    BY <1>1, <2>3, <2>4, <2>5, RequestsStep
<1>2. RequestsInv /\ [Next]_vars
        => [\A m \in Mid :
              ~past_far' /\ conn.pkt[m].never /\ conn'.pkt[m].never /\ conn'.pkt[m].on
                => conn'.pkt[m].count = conn.pkt[m].count]_vars
  BY <1>1
<1>3. QED
  BY <1>2, RequestsInvariance, PTL DEF Spec, AcknowledgedIsQuiet
-------------------------------------------------------------------------------
(***************************************************************************)
(* The promise.                                                            *)
(***************************************************************************)

Lives == Promise!Lives

\* The life of a request of the given kind and result, from its packet.
LEMMA LifeOf ==
  ASSUME RequestsInv, NEW m \in Mid
  PROVE  /\ Life(m) \in Lives
         /\ req[m].kind = "none" => Life(m) = "idle"
         /\ req[m].kind # "none" /\ req[m].ret = "QUEUEFULL" => Life(m) = "refused"
         /\ conn.pkt[m].on => Life(m) = IF ~IsObserver(m) THEN "waiting"
                                       ELSE IF conn.pkt[m].never THEN "subscribed"
                                                                 ELSE "subscribing"
<1>1. req[m].kind = "none" => Life(m) = "idle"
  BY DEF Life, IsObserver
<1>2. req[m].kind # "none" /\ req[m].ret = "QUEUEFULL" => Life(m) = "refused"
  BY DEF Life, IsObserver
<1>3. conn.pkt[m].on => req[m].kind # "none" /\ req[m].ret \in {"NOERR", "SENDERR"}
  BY DEF RequestsInv, Booked, PacketKept
<1>4. conn.pkt[m].on => Life(m) = IF ~IsObserver(m) THEN "waiting"
                                  ELSE IF conn.pkt[m].never THEN "subscribed"
                                                            ELSE "subscribing"
  BY <1>3 DEF Life
<1>5. Life(m) \in Lives
  BY DEF Life, Lives, Promise!Lives
<1>6. QED
  BY <1>1, <1>2, <1>4, <1>5

LEMMA CarriedMoves ==
  ASSUME RequestsInv, RequestsInv', Carried, req' = req, NEW m \in Mid
  PROVE  Life(m)' = Life(m) \/ <<Life(m), Life(m)'>> \in Promise!Moves
<1>1. CASE conn.pkt[m].on
  <2>1. Life(m) = IF ~IsObserver(m) THEN "waiting"
                  ELSE IF conn.pkt[m].never THEN "subscribed" ELSE "subscribing"
    BY <1>1, LifeOf
  <2>2. req[m].kind # "none" /\ req[m].ret \in {"NOERR", "SENDERR"}
    BY <1>1 DEF RequestsInv, Booked, PacketKept
  <2>3. Life(m)' = IF ~IsObserver(m) THEN (IF conn'.pkt[m].on THEN "waiting" ELSE "done")
                   ELSE IF ~conn'.pkt[m].on THEN "ended"
                   ELSE IF conn'.pkt[m].never THEN "subscribed" ELSE "subscribing"
    BY <2>2 DEF Life, IsObserver
  <2>4. QED
    BY <2>1, <2>3 DEF Promise!Moves
<1>2. CASE ~conn.pkt[m].on
  <2>1. ~conn'.pkt[m].on
    BY <1>2 DEF Carried
  <2>2. Life(m)' = Life(m)
    BY <1>2, <2>1 DEF Life, IsObserver
  <2>3. QED
    BY <2>2
<1>3. QED
  BY <1>1, <1>2

\* The other lives stay when a call is made.
LEMMA OthersLive ==
  ASSUME NEW m \in Mid, req'[m] = req[m], conn'.pkt[m] = conn.pkt[m]
  PROVE  Life(m)' = Life(m)
  BY DEF Life, IsObserver

LEMMA AcceptedAsks ==
  ASSUME RequestsInv, RequestsInv', Accepted
  PROVE  \E m \in Mid : Promise!Ask(m)
<1> DEFINE life == [m \in Mid |-> Life(m)]
<1>1. PICK m \in Mid, kind \in Kinds, ret \in {"NOERR", "SENDERR"} :
        \E url \in UrlsOf(kind) : \E gone \in SUBSET Mid : Queues(m, kind, url, ret, gone)
  BY DEF Accepted
<1>2. PICK url \in UrlsOf(kind), gone \in SUBSET Mid : Queues(m, kind, url, ret, gone)
  BY <1>1
<1>3. req \in [Mid -> Requests] /\ kind # "none"
  BY ConnAssumption DEF RequestsInv, IInv, TypeOK, AllKinds
<1>4. req'[m] = [kind |-> kind, url |-> url, ret |-> ret]
      /\ \A k \in Mid \ {m} : req'[k] = req[k]
  BY <1>2, <1>3 DEF Queues
<1>5. Life(m) = "idle"
  BY <1>2, LifeOf DEF Queues
<1>6. conn'.pkt[m].on /\ ~conn'.pkt[m].never
  BY <1>2, PacketFields DEF Queues
<1>7. Life(m)' = IF kind = "on" THEN "subscribing" ELSE "waiting"
  BY <1>3, <1>4, <1>6 DEF Life, IsObserver
<1>8. \A k \in Mid \ ({m} \cup gone) : Life(k)' = Life(k)
  BY <1>2, <1>4, OthersLive DEF Queues
<1>9. CASE gone = {}
  <2>1. life' = [life EXCEPT ![m] = IF kind = "on" THEN "subscribing" ELSE "waiting"]
    BY <1>7, <1>8, <1>9
  <2>2. life[m] = "idle"
    BY <1>5
  <2>3. Promise!Ask(m)
    BY <2>1, <2>2 DEF Promise!Ask
  <2>4. QED
    BY <2>3
<1>10. CASE gone # {}
  <2>1. PICK o \in gone : gone = {o}
    BY <1>2, <1>10 DEF Queues
  <2>2. o \in Mid /\ o # m /\ conn.pkt[o].on /\ IsObserver(o) /\ ~conn'.pkt[o].on
        /\ kind = "off"
    BY <1>2, <2>1, PacketTypes DEF Queues, Observers, Queued
  <2>3. Life(o) \in {"subscribing", "subscribed"}
    BY <2>2, LifeOf
  <2>4. Life(o)' = "ended"
    <3>1. req[o].kind = "on" /\ req[o].ret \in {"NOERR", "SENDERR"}
      BY <2>2 DEF RequestsInv, Booked, PacketKept, IsObserver
    <3>2. QED
      BY <1>4, <2>2, <3>1 DEF Life, IsObserver
  <2>5. life' = [life EXCEPT ![m] = "waiting", ![o] = "ended"]
    BY <1>7, <1>8, <2>1, <2>2, <2>4
  <2>6. life[m] = "idle" /\ life[o] \in {"subscribing", "subscribed"}
    BY <1>5, <2>2, <2>3
  <2>7. Promise!Ask(m)
    BY <2>2, <2>5, <2>6 DEF Promise!Ask
  <2>8. QED
    BY <2>7
<1>11. QED
  BY <1>9, <1>10

LEMMA RefusedAsks ==
  ASSUME RequestsInv, RequestsInv', Refused
  PROVE  \E m \in Mid : Promise!Ask(m)
<1> DEFINE life == [m \in Mid |-> Life(m)]
<1>1. PICK m \in Mid, kind \in Kinds : \E url \in UrlsOf(kind) :
        /\ req[m].kind = "none" /\ conn'.pkt = conn.pkt
        /\ req' = [req EXCEPT ![m] = [kind |-> kind, url |-> url, ret |-> "QUEUEFULL"]]
  BY DEF Refused
<1>2. req \in [Mid -> Requests] /\ kind # "none"
  BY ConnAssumption DEF RequestsInv, IInv, TypeOK, AllKinds
<1>3. /\ req'[m].kind # "none" /\ req'[m].ret = "QUEUEFULL"
      /\ \A k \in Mid \ {m} : req'[k] = req[k]
  BY <1>1, <1>2
<1>4. Life(m) = "idle"
  BY <1>1, LifeOf
<1>5. Life(m)' = "refused"
  BY <1>3 DEF Life, IsObserver
<1>6. \A k \in Mid \ {m} : Life(k)' = Life(k)
  BY <1>1, <1>3, OthersLive
<1>7. life' = [life EXCEPT ![m] = "refused"]
  BY <1>5, <1>6
<1>8. life[m] = "idle"
  BY <1>4
<1>9. Promise!Ask(m)
  BY <1>7, <1>8 DEF Promise!Ask
<1>10. QED
  BY <1>9

LEMMA CarriedSyncs ==
  ASSUME RequestsInv, RequestsInv', Carried, req' = req
  PROVE  Promise!Sync
<1>1. \A m \in Mid : Life(m)' \in Lives
  <2>1. \A m \in Mid : Life(m)' \in Promise!Lives
    BY DEF Life, Promise!Lives
  <2>2. QED
    BY <2>1 DEF Lives
<1>2. \A m \in Mid : Life(m)' = Life(m) \/ <<Life(m), Life(m)'>> \in Promise!Moves
  BY CarriedMoves
<1>3. [m \in Mid |-> Life(m)]' \in [Mid -> Promise!Lives]
  BY <1>1 DEF Lives
<1>4. QED
  BY <1>2, <1>3 DEF Promise!Sync

\* The connection implements the promise: a request that is refused, done or ended
\* stays so, no request is lost, and only a call queues one.
THEOREM Implementation == Spec => RequestsKept
<1>1. Init => Promise!Init
  <2> SUFFICES ASSUME Init PROVE Promise!Init
    OBVIOUS
  <2>1. \A m \in Mid : Life(m) = "idle"
    BY InitBooked, LifeOf DEF Init, NoReq
  <2>2. QED
    BY <2>1 DEF Promise!Init
<1>2. ASSUME RequestsInv, [Next]_vars
      PROVE  Promise!Next
  <2>1. RequestsInv' /\ (Accepted \/ Refused \/ (Carried /\ req' = req))
    BY <1>2, RequestsStep
  <2>2. QED
    BY <1>2, <2>1, AcceptedAsks, RefusedAsks, CarriedSyncs DEF Promise!Next
<1>3. RequestsInv /\ [Next]_vars => [Promise!Next]_([m \in Mid |-> Life(m)])
  BY <1>2
<1>4. QED
  BY <1>1, <1>3, RequestsInvariance, PTL DEF Spec, RequestsKept, Promise!Spec
===============================================================================
