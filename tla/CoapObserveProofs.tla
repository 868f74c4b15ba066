-------------------------- MODULE CoapObserveProofs --------------------------
(***************************************************************************)
(* What holds of an observer whatever the network does, for every range of *)
(* the observe counter, wherever it starts and whatever fails.             *)
(***************************************************************************)
EXTENDS CoapObserve, TLAPS

Codes == {"ok", "err", "unauthorized"}

Regs    == [kind : {"reg"}, tok : Nat, sess : Nat]
Notices == [kind : {"note"}, tok : Nat, sess : Nat, code : Codes, ver : Nat, idx : Nat]

Typed ==
  /\ conn \in [authed : BOOLEAN, sess : 0 .. MAX_SESS]
  /\ obs \in [on : BOOLEAN, tok : Nat, data : BOOLEAN, last : Nat, acked : BOOLEAN,
              told : Nat, kept : Nat, stale : BOOLEAN, missed : BOOLEAN]
  /\ net \subseteq Regs \cup Notices
  /\ srv \in [ver : Nat, base : [1 .. MAX_SESS -> Nat], live : SUBSET Nat,
              subs : SUBSET (Nat \X Nat), acked : SUBSET (Nat \X Nat)]

\* Nothing on its way, and nothing at the server, is of a session or an observer
\* still to come.
Past ==
  /\ conn.authed => conn.sess # 0
  /\ \A m \in net : m.tok <= obs.tok /\ m.sess \in 1 .. conn.sess
  /\ \A u \in srv.subs : u[1] <= obs.tok /\ u[2] \in 1 .. conn.sess
  /\ \A s \in srv.live : s <= conn.sess

\* The notifications on their way carry the version they were sent with and its
\* counter, or that they are none.
Numbered ==
  \A m \in net : m.kind = "note" =>
    /\ m.ver <= srv.ver /\ srv.ver - m.ver <= LAG
    /\ m.idx = IF m.code = "ok" THEN Index(m.sess, m.ver) ELSE 0

\* What a live session answered, it has a subscription for: nobody sends a reset
\* for the observer there is.
Subscribed ==
  \A m \in net :
    /\ m.kind = "note" /\ m.code = "ok" /\ m.sess \in srv.live
    /\ obs.on /\ m.tok = obs.tok
    => <<m.tok, m.sess>> \in srv.subs

\* Something of the observer and the newest session is around.
Around ==
  \/ <<obs.tok, conn.sess>> \in srv.subs
  \/ \E m \in net : m.tok = obs.tok /\ m.sess = conn.sess

\* The counter kept is that of a version not too far back.  It is of the newest
\* session as soon as anything is around of that: a new session begins with a
\* retransmission, which forgets the counter.
Keeping ==
  /\ ~obs.data => obs.last = 0
  /\ obs.on /\ obs.last # 0 =>
       /\ obs.kept <= srv.ver /\ srv.ver - obs.kept <= LAG
       /\ ~obs.stale /\ Around => obs.last = Index(conn.sess, obs.kept)

IInv == Typed /\ Past /\ Numbered /\ Subscribed /\ AckedMeansSubscribed /\ Keeping
-----------------------------------------------------------------------------
(* The counter.                                                              *)

LEMMA Settings ==
  /\ HALF \in Nat /\ HALF > 0 /\ RANGE \in Nat /\ RANGE = 2 * HALF /\ LAG = HALF - 1
  /\ MAX_SESS \in Nat /\ MAX_TOKEN \in Nat /\ Bases \subseteq Nat
BY ObserveAssumption DEF RANGE, LAG

LEMMA Division ==
  ASSUME NEW r \in Nat, r > 0, NEW a \in Nat
  PROVE  \E q \in Int : a = r * q + (a % r) /\ a % r \in 0 .. r - 1
<1>1. a = r * (a \div r) + (a % r) /\ a \div r \in Int /\ a % r \in 0 .. r - 1
  OBVIOUS
<1>2. QED
  BY <1>1

LEMMA Remainder ==
  ASSUME NEW r \in Nat, r > 0, NEW a \in Nat, NEW d \in 0 .. r - 1
  PROVE  /\ a % r \in 0 .. r - 1
         /\ (a + d) % r = IF (a % r) + d < r THEN (a % r) + d ELSE (a % r) + d - r
<1> DEFINE x == a % r
           y == (a + d) % r
<1>1. a + d \in Nat
  OBVIOUS
<1>2. PICK q \in Int : a = r * q + x /\ x \in 0 .. r - 1
  BY Division
<1>3. PICK p \in Int : a + d = r * p + y /\ y \in 0 .. r - 1
  BY <1>1, Division
<1> HIDE DEF x, y
<1> DEFINE k == p - q
<1>4. k \in Int /\ r * k = x + d - y
  BY <1>2, <1>3
<1>5. r * k < 2 * r /\ r * k > -r
  BY <1>2, <1>3, <1>4
<1> HIDE DEF k
<1>6. ~(k >= 2)
  <2>1. ASSUME k >= 2
        PROVE  r * k >= r * 2
    BY <1>4, <2>1
  <2>2. QED
    BY <1>4, <1>5, <2>1
<1>7. ~(k <= -1)
  <2>1. ASSUME k <= -1
        PROVE  r * k <= r * (-1)
    BY <1>4, <2>1
  <2>2. QED
    BY <1>4, <1>5, <2>1
<1>8. k = 0 \/ k = 1
  BY <1>4, <1>6, <1>7
<1>9. y = x + d \/ y = x + d - r
  BY <1>2, <1>3, <1>4, <1>8
<1>10. y = IF x + d < r THEN x + d ELSE x + d - r
  BY <1>2, <1>3, <1>9
<1>11. QED
  BY <1>2, <1>10 DEF x, y

\* Of two versions that are less than half the counter apart, the one whose counter
\* is taken for new is the newer.
LEMMA Newer ==
  ASSUME NEW b \in Nat, NEW v \in Nat, NEW w \in Nat, v - w <= LAG,
         IsObserveNew((b + v) % RANGE, (b + w) % RANGE)
  PROVE  v < w
<1>1. HALF \in Nat /\ HALF > 0 /\ RANGE \in Nat /\ RANGE = 2 * HALF /\ LAG = HALF - 1
  BY Settings
<1>2. SUFFICES ASSUME w <= v
               PROVE  FALSE
  OBVIOUS
<1> DEFINE x == (b + w) % RANGE
           y == (b + v) % RANGE
           d == v - w
<1>3. b + w \in Nat /\ d \in 0 .. HALF - 1 /\ b + v = (b + w) + d
  BY <1>1, <1>2
<1>4. /\ x \in 0 .. RANGE - 1
      /\ y = IF x + d < RANGE THEN x + d ELSE x + d - RANGE
  <2> HIDE DEF d
  <2>1. d \in 0 .. RANGE - 1 /\ RANGE > 0
    BY <1>1, <1>3
  <2>2. y = ((b + w) + d) % RANGE
    BY <1>3
  <2> DEFINE a == b + w
  <2>3. a \in Nat
    BY <1>3
  <2> HIDE DEF a
  <2>4. /\ a % RANGE \in 0 .. RANGE - 1
        /\ (a + d) % RANGE = IF (a % RANGE) + d < RANGE THEN (a % RANGE) + d
                             ELSE (a % RANGE) + d - RANGE
    BY <1>1, <2>1, <2>3, Remainder
  <2>5. QED
    BY <2>2, <2>4 DEF a
<1>5. \/ y < x /\ x - y < HALF
      \/ y > x /\ y - x > HALF
  BY DEF IsObserveNew
<1> HIDE DEF x, y, d
<1>6. QED
  BY <1>1, <1>3, <1>4, <1>5
-----------------------------------------------------------------------------
(* The server.                                                               *)

LEMMA Server ==
  ASSUME Typed
  PROVE  /\ srv.ver \in Nat /\ srv.base \in [1 .. MAX_SESS -> Nat] /\ srv.live \subseteq Nat
         /\ srv.subs \subseteq Nat \X Nat /\ srv.acked \subseteq Nat \X Nat
         /\ conn.authed \in BOOLEAN /\ conn.sess \in 0 .. MAX_SESS /\ obs.tok \in Nat
BY DEF Typed

LEMMA IndexType ==
  ASSUME Typed, NEW s \in 1 .. MAX_SESS, NEW v \in Nat
  PROVE  Index(s, v) \in 0 .. RANGE - 1
<1> DEFINE a == srv.base[s] + v
<1>1. a \in Nat
  <2>1. srv.base \in [1 .. MAX_SESS -> Nat]
    BY Server
  <2>2. srv.base[s] \in Nat
    BY <2>1
  <2>3. QED
    BY <2>2
<1>2. RANGE \in Nat /\ RANGE > 0 /\ 0 \in 0 .. RANGE - 1
  BY Settings
<1> HIDE DEF a
<1>3. a % RANGE \in 0 .. RANGE - 1
  BY <1>1, <1>2, Remainder
<1>4. QED
  BY <1>3 DEF a, Index

\* Whoever sends a notification for something that is around.
LEMMA Sending ==
  ASSUME IInv, NEW t \in Nat, NEW s \in Nat, NEW code \in Codes, UNCHANGED <<conn, obs>>,
         \/ <<t, s>> \in srv.subs
         \/ \E m \in net : m.tok = t /\ m.sess = s,
         net' = net \cup {Note(t, s, code)},
         srv' \in [ver : Nat, base : [1 .. MAX_SESS -> Nat], live : SUBSET Nat,
                   subs : SUBSET (Nat \X Nat), acked : SUBSET (Nat \X Nat)],
         srv'.ver = srv.ver, srv'.base = srv.base, srv'.live = srv.live,
         srv.subs \subseteq srv'.subs, srv'.subs \subseteq srv.subs \cup {<<t, s>>},
         code = "ok" => <<t, s>> \in srv'.subs
  PROVE  IInv'
<1> DEFINE n == Note(t, s, code)
<1>1. t <= obs.tok /\ s \in 1 .. conn.sess /\ s \in 1 .. MAX_SESS
  <2>1. t <= obs.tok /\ s \in 1 .. conn.sess
    BY DEF IInv, Past
  <2>2. QED
    BY <2>1, Server, Settings DEF IInv
<1>2. Index(s, srv.ver) \in Nat
  <2>1. Typed /\ srv.ver \in Nat
    BY Server DEF IInv
  <2>2. Index(s, srv.ver) \in 0 .. RANGE - 1
    BY <1>1, <2>1, IndexType
  <2>3. QED
    BY <2>2, Settings
<1>3. /\ n \in Notices /\ n.kind = "note" /\ n.tok = t /\ n.sess = s /\ n.code = code
      /\ n.ver = srv.ver /\ n.idx = IF code = "ok" THEN Index(s, srv.ver) ELSE 0
  BY <1>2, Server DEF IInv, Note, Notices
<1> HIDE DEF n
<1>4. net' = net \cup {n}
  BY DEF n
<1>5. Typed'
  BY <1>3, <1>4 DEF IInv, Typed
<1>6. Past'
  BY <1>1, <1>3, <1>4 DEF IInv, Past
<1>7. Numbered'
  <2>1. srv.ver - srv.ver <= LAG
    BY Server, Settings DEF IInv
  <2>2. QED
    BY <2>1, <1>3, <1>4, Server DEF IInv, Numbered, Index
<1>8. Subscribed'
  BY <1>3, <1>4 DEF IInv, Subscribed
<1>9. AckedMeansSubscribed'
  BY DEF IInv, AckedMeansSubscribed, RegisteredAnew
<1>10. Keeping'
  <2>1. Around' => Around
    BY <1>3, <1>4 DEF Around
  <2>2. QED
    BY <2>1 DEF IInv, Keeping, Index
<1>11. QED
  BY <1>5, <1>6, <1>7, <1>8, <1>9, <1>10 DEF IInv

LEMMA Members ==
  ASSUME Typed, NEW m \in net
  PROVE  /\ m.tok \in Nat /\ m.sess \in Nat
         /\ m.kind = "note" =>
              m \in Notices /\ m.code \in Codes /\ m.ver \in Nat /\ m.idx \in Nat
BY DEF Typed, Regs, Notices

LEMMA RegisterStep ==
  ASSUME IInv, NEW m \in net, Register(m)
  PROVE  IInv'
<1>1. m.tok \in Nat /\ m.sess \in Nat /\ UNCHANGED <<conn, obs>>
  BY Members DEF IInv, Register
<1>2. CASE /\ Send(Note(m.tok, m.sess, "ok"))
           /\ srv' = [srv EXCEPT !.subs = @ \cup {<<m.tok, m.sess>>},
                                 !.acked = @ \ {<<m.tok, m.sess>>}]
  <2>1. /\ srv' \in [ver : Nat, base : [1 .. MAX_SESS -> Nat], live : SUBSET Nat,
                     subs : SUBSET (Nat \X Nat), acked : SUBSET (Nat \X Nat)]
        /\ srv'.ver = srv.ver /\ srv'.base = srv.base /\ srv'.live = srv.live
        /\ srv'.subs = srv.subs \cup {<<m.tok, m.sess>>}
    <3> DEFINE S == srv.subs \cup {<<m.tok, m.sess>>}
               A == srv.acked \ {<<m.tok, m.sess>>}
    <3>1. S \in SUBSET (Nat \X Nat) /\ A \in SUBSET (Nat \X Nat)
      BY <1>1, Server DEF IInv
    <3>2. srv' = [srv EXCEPT !.subs = S, !.acked = A]
      BY <1>2
    <3> HIDE DEF S, A
    <3>3. /\ srv' \in [ver : Nat, base : [1 .. MAX_SESS -> Nat], live : SUBSET Nat,
                       subs : SUBSET (Nat \X Nat), acked : SUBSET (Nat \X Nat)]
          /\ srv'.ver = srv.ver /\ srv'.base = srv.base /\ srv'.live = srv.live
          /\ srv'.subs = S
      BY <3>1, <3>2 DEF IInv, Typed
    <3>4. QED
      BY <3>3 DEF S
  <2>2. QED
    BY <1>1, <1>2, <2>1, Sending DEF Send, Codes
<1>3. ASSUME NEW code \in Codes, code # "ok", Send(Note(m.tok, m.sess, code)), UNCHANGED srv
      PROVE  IInv'
  <2>1. /\ srv' \in [ver : Nat, base : [1 .. MAX_SESS -> Nat], live : SUBSET Nat,
                     subs : SUBSET (Nat \X Nat), acked : SUBSET (Nat \X Nat)]
    BY <1>3 DEF IInv, Typed
  <2>2. QED
    BY <1>1, <1>3, <2>1, Sending DEF Send
<1>4. QED
  BY <1>2, <1>3 DEF Register, Codes

LEMMA NotifyStep ==
  ASSUME IInv, NEW u \in srv.subs, Notify(u)
  PROVE  IInv'
<1>1. u[1] \in Nat /\ u[2] \in Nat /\ u = <<u[1], u[2]>>
  BY Server DEF IInv
<1>2. /\ srv' \in [ver : Nat, base : [1 .. MAX_SESS -> Nat], live : SUBSET Nat,
                   subs : SUBSET (Nat \X Nat), acked : SUBSET (Nat \X Nat)]
  BY DEF IInv, Typed, Notify
<1>3. QED
  BY <1>1, <1>2, Sending DEF Notify, Send, Codes

LEMMA ChangeStep ==
  ASSUME IInv, Change
  PROVE  IInv'
<1>1. /\ UNCHANGED <<conn, obs, net>>
      /\ srv'.ver = srv.ver + 1 /\ srv'.base = srv.base /\ srv'.live = srv.live
      /\ srv'.subs = srv.subs
      /\ \A m \in net : m.kind = "note" => srv.ver - m.ver < LAG
      /\ obs.on /\ obs.last # 0 => srv.ver - obs.kept < LAG
  BY DEF IInv, Typed, Change
<1>2. Typed'
  <2>1. srv.ver + 1 \in Nat /\ {} \in SUBSET (Nat \X Nat)
    BY Server DEF IInv
  <2>2. srv' \in [ver : Nat, base : [1 .. MAX_SESS -> Nat], live : SUBSET Nat,
                  subs : SUBSET (Nat \X Nat), acked : SUBSET (Nat \X Nat)]
    BY <2>1 DEF IInv, Typed, Change
  <2>3. QED
    BY <1>1, <2>2 DEF IInv, Typed
<1>3. Past'
  BY <1>1 DEF IInv, Past
<1>4. Numbered'
  BY <1>1, Members, Server, Settings DEF IInv, Numbered, Index
<1>5. Subscribed' /\ AckedMeansSubscribed'
  BY <1>1 DEF IInv, Subscribed, AckedMeansSubscribed, RegisteredAnew
<1>6. Keeping'
  <2>1. obs.kept \in Nat
    BY DEF IInv, Typed
  <2>2. Around' <=> Around
    BY <1>1 DEF Around
  <2>3. QED
    BY <1>1, <2>1, <2>2, Server, Settings DEF IInv, Keeping, Index
<1>7. QED
  BY <1>2, <1>3, <1>4, <1>5, <1>6 DEF IInv

LEMMA ExpireStep ==
  ASSUME IInv, NEW s \in srv.live, Expire(s)
  PROVE  IInv'
<1>1. /\ UNCHANGED <<conn, obs, net>>
      /\ srv'.ver = srv.ver /\ srv'.base = srv.base /\ srv'.live = srv.live \ {s}
      /\ srv'.subs = {u \in srv.subs : u[2] # s}
  BY DEF IInv, Typed, Expire
<1>2. Typed'
  BY DEF IInv, Typed, Expire
<1>3. Past'
  BY <1>1 DEF IInv, Past
<1>4. Numbered'
  BY <1>1 DEF IInv, Numbered, Index
<1>5. Subscribed' /\ AckedMeansSubscribed'
  BY <1>1 DEF IInv, Subscribed, AckedMeansSubscribed, RegisteredAnew
<1>6. Keeping'
  <2>1. Around' => Around
    BY <1>1 DEF Around
  <2>2. QED
    BY <1>1, <2>1 DEF IInv, Keeping, Index
<1>7. QED
  BY <1>2, <1>3, <1>4, <1>5, <1>6 DEF IInv

LEMMA LoseStep ==
  ASSUME IInv, NEW m \in net, Lose(m)
  PROVE  IInv'
<1>1. UNCHANGED <<conn, obs, srv>> /\ net' \subseteq net
  BY DEF Lose
<1>2. Typed' /\ Past' /\ Numbered' /\ Subscribed' /\ AckedMeansSubscribed'
  BY <1>1 DEF IInv, Typed, Past, Numbered, Subscribed, AckedMeansSubscribed,
              RegisteredAnew, Index
<1>3. Keeping'
  <2>1. Around' => Around
    BY <1>1 DEF Around
  <2>2. QED
    BY <1>1, <2>1 DEF IInv, Keeping, Index
<1>4. QED
  BY <1>2, <1>3 DEF IInv
-----------------------------------------------------------------------------
(* The client.                                                               *)

Packets == [on : BOOLEAN, tok : Nat, data : BOOLEAN, last : Nat, acked : BOOLEAN,
            told : Nat, kept : Nat, stale : BOOLEAN, missed : BOOLEAN]

LEMMA OnStep ==
  ASSUME IInv, On
  PROVE  IInv'
<1>1. UNCHANGED <<conn, srv>> /\ obs.tok \in Nat
  BY Server DEF IInv, On
<1>2. PICK sent \in BOOLEAN :
        /\ obs' = [NoObs EXCEPT !.on = TRUE, !.tok = obs.tok + 1, !.data = sent]
        /\ IF sent /\ conn.authed THEN Send(Reg) ELSE UNCHANGED net
  BY DEF On
<1>3. /\ obs' \in Packets /\ obs'.tok = obs.tok + 1 /\ obs'.last = 0 /\ ~obs'.acked
      /\ ~obs'.stale
  <2> DEFINE t == obs.tok + 1
  <2>1. t \in Nat /\ 0 \in Nat /\ sent \in BOOLEAN
    BY <1>1
  <2>2. obs' = [NoObs EXCEPT !.on = TRUE, !.tok = t, !.data = sent]
    BY <1>2
  <2> HIDE DEF t
  <2>3. obs' = [on |-> TRUE, tok |-> t, data |-> sent, last |-> 0, acked |-> FALSE,
                told |-> 0, kept |-> 0, stale |-> FALSE, missed |-> FALSE]
    BY <2>2 DEF NoObs
  <2>4. obs' \in Packets
    BY <2>1, <2>3 DEF Packets
  <2>5. obs'.tok = t /\ obs'.last = 0 /\ ~obs'.acked /\ ~obs'.stale
    BY <2>3
  <2>6. QED
    BY <2>4, <2>5 DEF t
<1>4. /\ net' \subseteq net \cup {Reg}
      /\ net' # net => conn.authed
  BY <1>2 DEF Send
<1>5. Reg \in Regs /\ Reg.tok = obs'.tok /\ Reg.sess = conn.sess /\ Reg.kind = "reg"
  BY <1>1, <1>3, Server DEF IInv, Reg, Regs
<1> HIDE DEF Reg
<1>6. Typed'
  BY <1>1, <1>3, <1>4, <1>5 DEF IInv, Typed, Packets
<1>7. Past'
  <2>1. ASSUME NEW m \in net'
        PROVE  m.tok <= obs'.tok /\ m.sess \in 1 .. conn.sess
    <3>1. CASE m \in net
      BY <1>1, <1>3, <3>1, Members DEF IInv, Past
    <3>2. CASE m \notin net
      <4>1. m = Reg /\ conn.sess # 0
        BY <1>4, <2>1, <3>2 DEF IInv, Past
      <4>2. QED
        BY <1>1, <1>3, <1>5, <4>1, Server DEF IInv
    <3>3. QED
      BY <3>1, <3>2
  <2>2. ASSUME NEW u \in srv.subs
        PROVE  u[1] <= obs'.tok /\ u[2] \in 1 .. conn.sess
    <3>1. u[1] \in Nat /\ u[1] <= obs.tok
      BY Server DEF IInv, Past
    <3>2. QED
      BY <1>1, <1>3, <3>1 DEF IInv, Past
  <2>3. QED
    BY <1>1, <2>1, <2>2 DEF IInv, Past
<1>8. Numbered'
  BY <1>1, <1>4, <1>5 DEF IInv, Numbered, Index
<1>9. Subscribed'
  <2>1. ASSUME NEW m \in net', m.kind = "note", m.tok = obs'.tok
        PROVE  FALSE
    <3>1. m \in net
      BY <1>4, <1>5, <2>1
    <3>2. m.tok <= obs.tok /\ m.tok \in Nat
      BY <3>1, Members DEF IInv, Past
    <3>3. QED
      BY <1>1, <1>3, <2>1, <3>2
  <2>2. QED
    BY <2>1 DEF Subscribed
<1>10. AckedMeansSubscribed' /\ Keeping'
  BY <1>3 DEF AckedMeansSubscribed, RegisteredAnew, Keeping
<1>11. QED
  BY <1>6, <1>7, <1>8, <1>9, <1>10 DEF IInv

LEMMA RetransmitStep ==
  ASSUME IInv, Retransmit
  PROVE  IInv'
<1>1. /\ UNCHANGED <<conn, srv>> /\ conn.authed /\ obs.on /\ ~obs.acked
      /\ net' = net \cup {Reg}
  BY DEF Retransmit, Send
<1>2. obs \in Packets
  BY DEF IInv, Typed, Packets
<1>3. /\ obs' \in Packets /\ obs'.tok = obs.tok /\ obs'.on /\ ~obs'.acked
      /\ obs'.last = 0 /\ obs'.stale = obs.stale
  BY <1>1, <1>2 DEF IInv, Keeping, Retransmit, Reset, Packets
<1>4. Reg \in Regs /\ Reg.tok = obs.tok /\ Reg.sess = conn.sess /\ Reg.kind = "reg"
  BY <1>3, Server DEF IInv, Reg, Regs
<1> HIDE DEF Reg
<1>5. Typed'
  BY <1>1, <1>3, <1>4 DEF IInv, Typed, Packets
<1>6. Past'
  <2>1. obs.tok <= obs.tok /\ conn.sess \in 1 .. conn.sess
    BY <1>1, Server DEF IInv, Past
  <2>2. QED
    BY <1>1, <1>3, <1>4, <2>1 DEF IInv, Past
<1>7. Numbered'
  BY <1>1, <1>4 DEF IInv, Numbered, Index
<1>8. Subscribed'
  BY <1>1, <1>3, <1>4 DEF IInv, Subscribed
<1>9. AckedMeansSubscribed' /\ Keeping'
  BY <1>3 DEF AckedMeansSubscribed, RegisteredAnew, Keeping
<1>10. QED
  BY <1>5, <1>6, <1>7, <1>8, <1>9 DEF IInv

LEMMA TimeoutStep ==
  ASSUME IInv, Timeout
  PROVE  IInv'
<1>1. UNCHANGED <<conn, net, srv>>
  BY DEF Timeout
<1>2. obs' \in Packets /\ obs'.tok = obs.tok /\ ~obs'.on /\ obs'.last = 0
  BY Server DEF IInv, Timeout, Remove, NoObs, Packets
<1>3. Typed'
  BY <1>1, <1>2 DEF IInv, Typed, Packets
<1>4. Past' /\ Numbered' /\ Subscribed' /\ AckedMeansSubscribed' /\ Keeping'
  BY <1>1, <1>2 DEF IInv, Past, Numbered, Subscribed, AckedMeansSubscribed, RegisteredAnew,
                    Keeping, Index
<1>5. QED
  BY <1>3, <1>4 DEF IInv

LEMMA EstablishedStep ==
  ASSUME IInv, Established
  PROVE  IInv'
<1> DEFINE s == conn.sess + 1
<1>1. /\ UNCHANGED net /\ conn' = [authed |-> TRUE, sess |-> s]
      /\ obs' = [obs EXCEPT !.acked = FALSE, !.stale = FALSE, !.missed = FALSE]
      /\ s \in 1 .. MAX_SESS /\ conn.sess \in Nat
  BY Server, Settings DEF IInv, Established, Anew
<1>2. conn'.authed /\ conn'.sess = s
  BY <1>1
<1>3. PICK b \in Bases : srv' = [srv EXCEPT !.live = @ \cup {s}, !.base[s] = b]
  BY <1>2 DEF Established
<1> HIDE DEF s
<1>4. obs \in Packets
  BY DEF IInv, Typed, Packets
<1>5. /\ obs' \in Packets /\ obs'.on = obs.on /\ obs'.tok = obs.tok /\ obs'.data = obs.data
      /\ obs'.last = obs.last /\ obs'.kept = obs.kept /\ ~obs'.acked
  BY <1>1, <1>4 DEF Packets
<1> DEFINE base == [srv.base EXCEPT ![s] = b]
           live == srv.live \cup {s}
<1>6. base \in [1 .. MAX_SESS -> Nat] /\ live \in SUBSET Nat
  BY <1>1, <1>3, Server, Settings DEF IInv
<1>7. \A r \in 1 .. conn.sess : r # s /\ base[r] = srv.base[r]
  BY <1>1, Server DEF IInv, s
<1>8. srv' = [srv EXCEPT !.live = live, !.base = base]
  BY <1>3
<1> HIDE DEF base, live
<1>9. /\ srv' \in [ver : Nat, base : [1 .. MAX_SESS -> Nat], live : SUBSET Nat,
                   subs : SUBSET (Nat \X Nat), acked : SUBSET (Nat \X Nat)]
      /\ srv'.ver = srv.ver /\ srv'.base = base /\ srv'.live = live /\ srv'.subs = srv.subs
  BY <1>6, <1>8 DEF IInv, Typed
<1>10. Typed'
  <2>1. conn' \in [authed : BOOLEAN, sess : 0 .. MAX_SESS]
    BY <1>1
  <2>2. QED
    BY <1>1, <1>5, <1>9, <2>1 DEF IInv, Typed, Packets
<1>11. Past'
  <2>1. \A n \in Nat : n <= conn.sess => n <= s
    BY <1>1 DEF s
  <2>2. \A n \in 1 .. conn.sess : n \in 1 .. s
    BY <1>1 DEF s
  <2>3. \A r \in srv'.live : r <= s
    <3>1. s <= s /\ \A r \in srv.live : r <= s
      BY <1>1, <2>1, Server DEF IInv, Past
    <3>2. QED
      BY <1>9, <3>1 DEF live
  <2>4. s # 0
    BY <1>1
  <2>5. QED
    BY <1>1, <1>2, <1>5, <1>9, <2>2, <2>3, <2>4 DEF IInv, Past
<1>12. \A m \in net, v \in Nat : Index(m.sess, v)' = Index(m.sess, v)
  <2>1. \A m \in net : m.sess \in 1 .. conn.sess
    BY DEF IInv, Past
  <2>2. QED
    BY <1>7, <1>9, <2>1 DEF Index
<1>13. Numbered'
  BY <1>1, <1>9, <1>12, Members DEF IInv, Numbered
<1>14. Subscribed'
  <2>1. \A m \in net : m.sess # s
    BY <1>7 DEF IInv, Past
  <2>2. QED
    BY <1>1, <1>5, <1>9, <2>1 DEF IInv, Subscribed, live
<1>15. AckedMeansSubscribed'
  BY <1>5 DEF AckedMeansSubscribed, RegisteredAnew
<1>16. Keeping'
  <2>1. ~Around'
    BY <1>1, <1>2, <1>5, <1>7, <1>9 DEF IInv, Past, Around
  <2>2. QED
    BY <1>5, <1>9, <2>1 DEF IInv, Keeping
<1>17. QED
  BY <1>10, <1>11, <1>13, <1>14, <1>15, <1>16 DEF IInv

LEMMA LoseSessionStep ==
  ASSUME IInv, LoseSession
  PROVE  IInv'
<1>1. /\ UNCHANGED <<obs, net, srv>> /\ conn'.sess = conn.sess /\ ~conn'.authed
      /\ conn' \in [authed : BOOLEAN, sess : 0 .. MAX_SESS]
  BY DEF IInv, Typed, LoseSession
<1>2. QED
  BY <1>1 DEF IInv, Typed, Past, Numbered, Subscribed, AckedMeansSubscribed, RegisteredAnew,
              Keeping, Around, Index

\* A notification arrives that is not handed on, or for nobody.
LEMMA NotTaken ==
  ASSUME IInv, NEW m \in net, Recv(m), ~(obs.on /\ m.tok = obs.tok /\ Taken(obs, m))
  PROVE  /\ UNCHANGED conn
         /\ obs' \in {obs, [obs EXCEPT !.missed = TRUE]}
BY DEF Recv

\* What a notification that is handed on leaves: nothing, or the packet with the
\* counter and the version of the notification, the packet's own if it was 0.
Handed(m) ==
  /\ obs'.on /\ obs'.data = obs.data /\ m.code # "err"
  /\ obs'.last = (IF m.idx = 0 THEN obs.last ELSE m.idx)
  /\ obs'.kept = (IF m.idx = 0 THEN obs.kept ELSE m.ver)
  /\ obs'.stale <=> obs.stale \/ m.sess # conn.sess \/ ~conn.authed
  /\ obs'.told = obs.told \/ (m.code = "ok" /\ obs'.told = m.ver)
  /\ obs'.acked => obs.acked \/ m.code = "ok"

LEMMA Removed ==
  ASSUME NEW o, o.tok \in Nat
  PROVE  Remove(o) \in Packets /\ Remove(o).tok = o.tok /\ ~Remove(o).on /\ Remove(o).last = 0
<1> DEFINE t == o.tok
<1>1. Remove(o) = [NoObs EXCEPT !.tok = t]
  BY DEF Remove
<1>2. t \in Nat
  OBVIOUS
<1> HIDE DEF t
<1>3. Remove(o) = [on |-> FALSE, tok |-> t, data |-> FALSE, last |-> 0, acked |-> FALSE,
                   told |-> 0, kept |-> 0, stale |-> FALSE, missed |-> FALSE]
  BY <1>1 DEF NoObs
<1>4. QED
  BY <1>2, <1>3 DEF Packets, t

LEMMA IsTaken ==
  ASSUME IInv, NEW m \in net, Recv(m), obs.on, m.tok = obs.tok, Taken(obs, m)
  PROVE  /\ obs' \in Packets /\ obs'.tok = obs.tok
         /\ conn' \in [authed : BOOLEAN, sess : 0 .. MAX_SESS] /\ conn'.sess = conn.sess
         /\ conn'.authed => conn.authed
         /\ obs'.on => Handed(m)
         /\ ~obs'.on => obs'.last = 0
<1>1. obs' \in Answered(obs, m) /\ m \in Notices /\ m.ver \in Nat /\ m.idx \in Nat
      /\ m.kind = "note" /\ m.code \in Codes
  BY Members DEF Recv, IInv
<1>2. /\ conn' \in [authed : BOOLEAN, sess : 0 .. MAX_SESS] /\ conn'.sess = conn.sess
      /\ conn'.authed => conn.authed
  BY DEF Recv, IInv, Typed
<1> DEFINE last == IF m.idx = 0 THEN obs.last ELSE m.idx
           kept == IF m.idx = 0 THEN obs.kept ELSE m.ver
           stale == obs.stale \/ m.sess # conn.sess \/ ~conn.authed
           seen == [obs EXCEPT !.last = last, !.kept = kept, !.stale = stale]
           missed == obs.missed \/ (m.idx = 0 /\ m.ver < obs.told)
<1>3. /\ obs.on \in BOOLEAN /\ obs.tok \in Nat /\ obs.data \in BOOLEAN /\ obs.last \in Nat
      /\ obs.acked \in BOOLEAN /\ obs.told \in Nat /\ obs.kept \in Nat
      /\ obs.stale \in BOOLEAN /\ obs.missed \in BOOLEAN /\ obs \in Packets
  BY DEF IInv, Typed, Packets
<1>4. last \in Nat /\ kept \in Nat /\ stale \in BOOLEAN /\ missed \in BOOLEAN
  BY <1>1, <1>3
<1>5. \/ m.code = "err" /\ obs' = Remove(obs)
      \/ m.code = "unauthorized" /\ obs' = seen
      \/ m.code = "ok" /\ obs' = [seen EXCEPT !.missed = TRUE]
      \/ m.code = "ok" /\ obs' = [seen EXCEPT !.acked = TRUE, !.told = m.ver, !.missed = missed]
  BY <1>1 DEF Answered, Codes
<1>6. obs' = Remove(obs) => obs' \in Packets /\ obs'.tok = obs.tok /\ ~obs'.on /\ obs'.last = 0
  BY <1>3, Removed
<1> HIDE DEF last, kept, stale, missed
<1>7. ASSUME m.code # "err"
      PROVE  /\ obs' \in Packets /\ obs'.tok = obs.tok /\ obs'.on = obs.on
             /\ obs'.data = obs.data /\ obs'.last = last /\ obs'.kept = kept
             /\ obs'.stale = stale
             /\ obs'.told = obs.told \/ (m.code = "ok" /\ obs'.told = m.ver)
             /\ obs'.acked => obs.acked \/ m.code = "ok"
  <2>1. CASE m.code = "unauthorized" /\ obs' = seen
    BY <1>3, <1>4, <2>1 DEF Packets
  <2>2. CASE m.code = "ok" /\ obs' = [seen EXCEPT !.missed = TRUE]
    BY <1>3, <1>4, <2>2 DEF Packets
  <2>3. CASE m.code = "ok" /\ obs' = [seen EXCEPT !.acked = TRUE, !.told = m.ver,
                                                  !.missed = missed]
    BY <1>1, <1>3, <1>4, <2>3 DEF Packets
  <2>4. QED
    BY <1>5, <1>7, <2>1, <2>2, <2>3
<1>8. CASE m.code = "err"
  BY <1>2, <1>5, <1>6, <1>8
<1>9. CASE m.code # "err"
  BY <1>2, <1>7, <1>9 DEF Handed, last, kept, stale
<1>10. QED
  BY <1>8, <1>9

\* What the server makes of it.  Nobody sends a reset for the observer there is.
LEMMA Replied ==
  ASSUME IInv, NEW m \in net, Recv(m)
  PROVE  /\ srv' \in [ver : Nat, base : [1 .. MAX_SESS -> Nat], live : SUBSET Nat,
                      subs : SUBSET (Nat \X Nat), acked : SUBSET (Nat \X Nat)]
         /\ srv'.ver = srv.ver /\ srv'.base = srv.base /\ srv'.live = srv.live
         /\ srv'.subs \subseteq srv.subs
         /\ \A s \in Nat : obs.on /\ <<obs.tok, s>> \in srv.subs => <<obs.tok, s>> \in srv'.subs
         /\ net' \subseteq net
<1> DEFINE sub == <<m.tok, m.sess>>
           S == srv.subs \ {sub}
           A == srv.acked \cup {sub}
<1>1. sub \in Nat \X Nat /\ S \in SUBSET (Nat \X Nat) /\ A \in SUBSET (Nat \X Nat)
  BY Members, Server DEF IInv
<1>2. \/ srv' = srv
      \/ ~(obs.on /\ m.tok = obs.tok) /\ srv' = [srv EXCEPT !.subs = S]
      \/ srv' = [srv EXCEPT !.acked = A]
  BY DEF Recv
<1>3. \A s : obs.tok # m.tok => <<obs.tok, s>> # sub
  OBVIOUS
<1>4. \A u : u \in srv.subs /\ u # sub => u \in S
  OBVIOUS
<1>5. S \subseteq srv.subs /\ net' \subseteq net
  BY DEF Recv
<1> HIDE DEF sub, S, A
<1>6. CASE srv' = srv
  BY <1>5, <1>6 DEF IInv, Typed
<1>7. CASE ~(obs.on /\ m.tok = obs.tok) /\ srv' = [srv EXCEPT !.subs = S]
  BY <1>1, <1>3, <1>4, <1>5, <1>7 DEF IInv, Typed
<1>8. CASE srv' = [srv EXCEPT !.acked = A]
  BY <1>1, <1>5, <1>8 DEF IInv, Typed
<1>9. QED
  BY <1>2, <1>6, <1>7, <1>8

LEMMA RecvStep ==
  ASSUME IInv, NEW m \in net, Recv(m)
  PROVE  IInv'
<1> DEFINE taken == obs.on /\ m.tok = obs.tok /\ Taken(obs, m)
<1>1. /\ srv' \in [ver : Nat, base : [1 .. MAX_SESS -> Nat], live : SUBSET Nat,
                   subs : SUBSET (Nat \X Nat), acked : SUBSET (Nat \X Nat)]
      /\ srv'.ver = srv.ver /\ srv'.base = srv.base /\ srv'.live = srv.live
      /\ srv'.subs \subseteq srv.subs
      /\ \A s \in Nat : obs.on /\ <<obs.tok, s>> \in srv.subs => <<obs.tok, s>> \in srv'.subs
      /\ net' \subseteq net
  BY Replied
<1>2. m.kind = "note" /\ m \in Notices /\ m.ver \in Nat /\ m.idx \in Nat
  BY Members DEF IInv, Recv
<1>3. CASE ~taken
  <2>1. UNCHANGED conn /\ obs \in Packets
        /\ (obs' = obs \/ obs' = [obs EXCEPT !.missed = TRUE])
    BY <1>3, NotTaken DEF IInv, Typed, Packets
  <2>2. /\ obs' \in Packets /\ obs'.on = obs.on /\ obs'.tok = obs.tok /\ obs'.data = obs.data
        /\ obs'.last = obs.last /\ obs'.kept = obs.kept /\ obs'.acked = obs.acked
        /\ obs'.stale = obs.stale
    BY <2>1 DEF Packets
  <2> HIDE DEF taken
  <2>3. Typed' /\ Past' /\ Numbered'
    BY <1>1, <2>1, <2>2 DEF IInv, Typed, Packets, Past, Numbered, Index
  <2>4. Subscribed'
    BY <1>1, <2>2, Members DEF IInv, Subscribed
  <2>5. AckedMeansSubscribed'
    BY <1>1, <2>1, <2>2, Server DEF IInv, AckedMeansSubscribed, RegisteredAnew
  <2>6. Around' => Around
    BY <1>1, <2>1, <2>2 DEF Around
  <2>7. Keeping'
    BY <1>1, <2>1, <2>2, <2>6 DEF IInv, Keeping, Index
  <2>8. QED
    BY <2>3, <2>4, <2>5, <2>7 DEF IInv
<1>4. CASE taken
  <2>1. /\ obs' \in Packets /\ obs'.tok = obs.tok
        /\ conn' \in [authed : BOOLEAN, sess : 0 .. MAX_SESS] /\ conn'.sess = conn.sess
        /\ conn'.authed => conn.authed
        /\ obs'.on => Handed(m)
        /\ ~obs'.on => obs'.last = 0
    BY <1>4, IsTaken
  <2>2. obs.on /\ m.tok = obs.tok /\ (m.idx # 0 => obs.data)
    BY <1>4 DEF Taken
  <2> HIDE DEF taken
  <2>3. Typed' /\ Past' /\ Numbered'
    BY <1>1, <2>1 DEF IInv, Typed, Packets, Past, Numbered, Index
  <2>4. Subscribed'
    BY <1>1, <2>1, <2>2, Members DEF IInv, Subscribed
  <2>5. AckedMeansSubscribed'
    <3>1. SUFFICES ASSUME ~obs'.stale, obs'.on, obs'.acked, conn'.authed,
                          conn'.sess \in srv'.live
                   PROVE  <<obs'.tok, conn'.sess>> \in srv'.subs
      BY DEF AckedMeansSubscribed, RegisteredAnew
    <3>2. ~obs.stale /\ m.sess = conn.sess /\ conn.authed /\ (obs.acked \/ m.code = "ok")
      BY <2>1, <3>1 DEF Handed
    <3>3. <<obs.tok, conn.sess>> \in srv.subs
      BY <1>1, <1>2, <2>1, <2>2, <3>1, <3>2 DEF IInv, Subscribed, AckedMeansSubscribed,
                                                RegisteredAnew
    <3>4. QED
      BY <1>1, <2>1, <2>2, <3>3, Server DEF IInv
  <2>6. Around' => Around
    BY <1>1, <2>1 DEF Around
  <2>7. Keeping'
    <3>1. CASE ~obs'.on
      BY <2>1, <3>1 DEF Keeping
    <3>2. CASE obs'.on /\ m.idx = 0
      BY <1>1, <2>1, <2>2, <2>6, <3>2 DEF IInv, Handed, Keeping, Index
    <3>3. CASE obs'.on /\ m.idx # 0
      <4>1. /\ obs'.last = m.idx /\ obs'.kept = m.ver /\ obs'.data
            /\ ~obs'.stale => m.sess = conn.sess
        BY <2>1, <2>2, <3>3 DEF Handed
      <4>2. m.ver <= srv.ver /\ srv.ver - m.ver <= LAG /\ m.idx = Index(m.sess, m.ver)
        BY <1>2, <3>3 DEF IInv, Numbered
      <4>3. QED
        BY <1>1, <2>1, <4>1, <4>2 DEF Keeping, Index
    <3>4. QED
      BY <3>1, <3>2, <3>3
  <2>8. QED
    BY <2>3, <2>4, <2>5, <2>7 DEF IInv
<1>5. QED
  BY <1>3, <1>4
-----------------------------------------------------------------------------
(* The theorems.                                                             *)

LEMMA Start == Init => IInv
<1>1. SUFFICES ASSUME Init
               PROVE  IInv
  OBVIOUS
<1>2. /\ conn = [authed |-> FALSE, sess |-> 0] /\ net = {}
      /\ srv = [ver |-> 1, base |-> [s \in 1 .. MAX_SESS |-> 0], live |-> {}, subs |-> {},
                acked |-> {}]
      /\ obs = [on |-> FALSE, tok |-> 0, data |-> FALSE, last |-> 0, acked |-> FALSE,
                told |-> 0, kept |-> 0, stale |-> FALSE, missed |-> FALSE]
  BY <1>1 DEF Init, NoObs
<1>3. Typed
  <2>1. [s \in 1 .. MAX_SESS |-> 0] \in [1 .. MAX_SESS -> Nat] /\ 0 \in 0 .. MAX_SESS
    BY Settings
  <2>2. QED
    BY <1>2, <2>1 DEF Typed
<1>4. Past /\ Numbered /\ Subscribed /\ AckedMeansSubscribed /\ Keeping
  BY <1>2 DEF Past, Numbered, Subscribed, AckedMeansSubscribed, RegisteredAnew, Keeping
<1>5. QED
  BY <1>3, <1>4 DEF IInv

LEMMA Step == IInv /\ [Next]_vars => IInv'
<1>1. SUFFICES ASSUME IInv, [Next]_vars
               PROVE  IInv'
  OBVIOUS
<1>2. CASE UNCHANGED vars
  BY <1>1, <1>2 DEF vars, IInv, Typed, Past, Numbered, Subscribed, AckedMeansSubscribed,
                    RegisteredAnew, Keeping, Around, Index
<1>3. CASE Next
  BY <1>1, <1>3, OnStep, RetransmitStep, TimeoutStep, EstablishedStep, LoseSessionStep,
     ChangeStep, RegisterStep, RecvStep, LoseStep, NotifyStep, ExpireStep DEF Next
<1>4. QED
  BY <1>1, <1>2, <1>3

\* Whatever the network loses, repeats and reorders and whatever fails, what is on
\* its way is numbered as it was sent and the counter kept is of a version that
\* can be compared.
THEOREM Invariance == Spec => []IInv
BY Start, Step, PTL DEF Spec

\* An observer that is acknowledged, and so is not sent again, is subscribed in the
\* session, unless it was answered from an older one meanwhile.
THEOREM AckedIsSubscribed == Spec => []AckedMeansSubscribed
<1>1. IInv => AckedMeansSubscribed
  BY DEF IInv
<1>2. QED
  BY <1>1, Invariance, PTL

LEMMA Forwards ==
  ASSUME IInv, NEW m \in net, Recv(m), m.idx # 0, obs'.on, ~obs'.stale,
         obs.last # 0, obs.told <= obs.kept
  PROVE  obs'.told >= obs.told
<1>1. obs.told \in Nat /\ obs.kept \in Nat /\ obs \in Packets /\ obs.on \in BOOLEAN
  BY DEF IInv, Typed, Packets
<1>2. m.kind = "note" /\ m.ver \in Nat /\ m.sess \in Nat
  BY Members DEF IInv, Recv
<1>3. CASE ~(obs.on /\ m.tok = obs.tok /\ Taken(obs, m))
  <2>1. obs' = obs \/ obs' = [obs EXCEPT !.missed = TRUE]
    BY <1>3, NotTaken
  <2>2. obs'.told = obs.told
    BY <1>1, <2>1 DEF Packets
  <2>3. QED
    BY <1>1, <2>2
<1>4. CASE obs.on /\ m.tok = obs.tok /\ Taken(obs, m)
  <2>1. ~obs.stale /\ m.sess = conn.sess /\ (obs'.told = obs.told \/ obs'.told = m.ver)
    BY <1>4, IsTaken DEF Handed
  <2>2. Around
    BY <1>4, <2>1 DEF Around
  <2>3. obs.last = Index(conn.sess, obs.kept) /\ obs.kept <= srv.ver
    BY <1>4, <2>1, <2>2 DEF IInv, Keeping
  <2>4. m.idx = Index(conn.sess, m.ver) /\ srv.ver - m.ver <= LAG
    BY <1>2, <2>1 DEF IInv, Numbered
  <2>5. IsObserveNew(Index(conn.sess, obs.kept), Index(conn.sess, m.ver))
    BY <1>4, <2>3, <2>4 DEF Taken
  <2> DEFINE b == srv.base[conn.sess]
  <2>6. b \in Nat
    <3>1. srv.base \in [1 .. MAX_SESS -> Nat] /\ conn.sess \in 1 .. MAX_SESS
      BY <2>1, Server, Settings DEF IInv, Past
    <3>2. QED
      BY <3>1
  <2>7. IsObserveNew((b + obs.kept) % RANGE, (b + m.ver) % RANGE)
    BY <2>5 DEF Index
  <2>8. obs.kept - m.ver <= LAG
    BY <1>1, <1>2, <2>3, <2>4, Server, Settings DEF IInv
  <2> HIDE DEF b
  <2>9. obs.kept < m.ver
    BY <1>1, <1>2, <2>6, <2>7, <2>8, Newer
  <2>10. QED
    BY <1>1, <1>2, <2>1, <2>9
<1>5. QED
  BY <1>3, <1>4

\* A listener is not told an older version after a newer one whose counter was
\* kept: wherever the counter starts, and as often as it wraps.
THEOREM ForwardsOnly == Spec => NeverBackwards
<1>1. IInv /\ [Next]_vars =>
        [\A m \in net :
           /\ Recv(m) /\ m.idx # 0 /\ obs'.on /\ ~obs'.stale
           /\ obs.last # 0 /\ obs.told <= obs.kept
           => obs'.told >= obs.told]_vars
  BY Forwards
<1>2. QED
  BY <1>1, Invariance, PTL DEF Spec, NeverBackwards
=============================================================================
