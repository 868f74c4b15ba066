-------------------------- MODULE WilddogPingProofs --------------------------
(***************************************************************************)
(* The bounds of the keep-alive interval, for every default interval,      *)
(* delta and maximum.                                                      *)
(***************************************************************************)
EXTENDS WilddogPing, TLAPS

-----------------------------------------------------------------------------
(* The operators of the ping policy keep what is true of its record.           *)

\* Halving rounds down: twice the half is at most the whole.
LEMMA Halving ==
  ASSUME NEW n \in Nat
  PROVE  n \div 2 \in Nat /\ 2 * (n \div 2) <= n
  OBVIOUS

\* The part of the invariant that is about the policy record alone.
PolicyInv(p) ==
  /\ p \in PingPolicies
  /\ p.interval >= PING_INTERVAL - 2 * PING_DELTA + 2 * p.delta
  /\ p.delta <= PING_DELTA
  /\ p.interval <= MAX_PING_INTERVAL \/ p.interval < MAX_PING_INTERVAL + PING_DELTA
  /\ p.left <= MAX_PING_INTERVAL + PING_DELTA
  /\ p.type = "LONG" => p.set

LEMMA InitialPolicy == PolicyInv(InitialPing)
  BY PingAssumption DEF PolicyInv, InitialPing, PingPolicies, PingTypes

LEMMA GrowKeepsPolicy ==
  ASSUME NEW p, PolicyInv(p)
  PROVE  PolicyInv(PingGrow(p))
  BY PingAssumption DEF PolicyInv, PingGrow, PingPolicies, PingTypes

LEMMA ShrinkKeepsPolicy ==
  ASSUME NEW p, PolicyInv(p)
  PROVE  PolicyInv(PingShrink(p))
<1> DEFINE q == PingShrink(p)
<1>0. /\ PING_INTERVAL \in Nat /\ PING_DELTA \in Nat /\ MAX_PING_INTERVAL \in Nat
      /\ 2 * PING_DELTA < PING_INTERVAL /\ PING_INTERVAL <= MAX_PING_INTERVAL
  BY PingAssumption
<1>1. p.interval \in Int /\ p.delta \in Nat
  BY DEF PolicyInv, PingPolicies
<1>2. CASE p.delta = 0
  <2>1. q = [interval |-> PING_INTERVAL, delta |-> PING_DELTA,
             type |-> "LONG", set |-> TRUE, left |-> 0]
    BY <1>2 DEF PingShrink
  <2>2. QED
    BY <1>0, <2>1 DEF PolicyInv, PingPolicies, PingTypes
<1>3. CASE p.delta # 0
  <2>1. q = [interval |-> p.interval - p.delta, delta |-> p.delta \div 2,
             type |-> "LONG", set |-> TRUE, left |-> 0]
    BY <1>3 DEF PingShrink
  <2>2. p.delta \div 2 \in Nat /\ 2 * (p.delta \div 2) <= p.delta
    BY <1>1, Halving
  <2>3. QED
    BY <1>0, <1>1, <1>3, <2>1, <2>2 DEF PolicyInv, PingPolicies, PingTypes
<1>4. QED
  BY <1>2, <1>3

LEMMA AnswerKeepsPolicy ==
  ASSUME NEW p, NEW code, PolicyInv(p)
  PROVE  PolicyInv(OnPingAnswer(p, code))
  BY InitialPolicy, GrowKeepsPolicy, ShrinkKeepsPolicy DEF OnPingAnswer

LEMMA SendKeepsPolicy ==
  ASSUME NEW p, PolicyInv(p)
  PROVE  PolicyInv(OnPingSend(p))
  BY PingAssumption DEF PolicyInv, OnPingSend, PingPolicies, PingTypes

LEMMA TickKeepsPolicy ==
  ASSUME NEW p, PolicyInv(p)
  PROVE  PolicyInv(PingTick(p))
  BY PingAssumption DEF PolicyInv, PingTick, PingPolicies, PingTypes

-----------------------------------------------------------------------------
(* The keep-alive.                                                            *)

IInv == status \in Statuses /\ p_ping \in BOOLEAN /\ PolicyInv(ping)

\* The strengthened invariant: every step of the keep-alive, whatever the
\* server answers, applies one of the policy's operators.
THEOREM PolicyInvariant == Spec => []IInv
<1>1. Init => IInv
  BY InitialPolicy DEF Init, IInv, Statuses
<1>2. IInv /\ [Next]_vars => IInv'
  <2> SUFFICES ASSUME IInv, [Next]_vars
               PROVE  IInv'
    OBVIOUS
  <2>1. CASE SessionChange
    BY <2>1 DEF IInv, SessionChange
  <2>2. CASE Tick
    BY <2>2, TickKeepsPolicy DEF IInv, Tick
  <2>3. CASE SendPing
    BY <2>3, SendKeepsPolicy DEF IInv, SendPing
  <2>4. ASSUME NEW code \in PingCodes, PingDone(code)
        PROVE  IInv'
    <3>1. PolicyInv(ping')
      BY <2>4, AnswerKeepsPolicy DEF IInv, PingDone
    <3>2. status' \in Statuses /\ p_ping' \in BOOLEAN
      BY <2>4 DEF IInv, PingDone, StatusAfterPing, Statuses
    <3>3. QED
      BY <3>1, <3>2 DEF IInv
  <2>5. CASE UNCHANGED vars
    BY <2>5 DEF IInv, vars
  <2>6. QED
    BY <2>1, <2>2, <2>3, <2>4, <2>5 DEF Next
<1>3. QED
  BY <1>1, <1>2, PTL DEF Spec

\* The interval never reaches zero and never exceeds the maximum by a full
\* delta, and the next ping is never scheduled further away than that.
THEOREM BoundedInterval == Spec => []IntervalBounded
<1>1. IInv => IntervalBounded
  BY PingAssumption DEF IInv, PolicyInv, PingPolicies, IntervalBounded
<1>2. QED
  BY <1>1, PolicyInvariant, PTL

\* The parts of that invariant a reader cares about, each by itself: the floor
\* that halving delta leaves, the bound of delta, and the ceiling.
THEOREM FloorAndCeiling == Spec => []PingInv
<1>1. IInv => PingInv
  BY DEF IInv, PolicyInv, PingInv, TypeOK, IntervalFloor, DeltaBounded, IntervalCeil
<1>2. QED
  BY <1>1, PolicyInvariant, PTL

\* A long ping goes back to a short one only when a ping on its way ends.
THEOREM LongPingLasts == Spec => LongUntilAnswered
<1>1. IInv /\ [Next]_vars
        => [ping.type = "LONG" /\ ping'.type = "SHORT" => p_ping /\ ~p_ping']_vars
  <2> SUFFICES ASSUME IInv, [Next]_vars, ping.type = "LONG", ping'.type = "SHORT"
               PROVE  p_ping /\ ~p_ping'
    OBVIOUS
  <2>1. ping' # ping /\ ping \in PingPolicies /\ ping.set
    BY DEF IInv, PolicyInv
  <2>2. ~SessionChange /\ vars' # vars
    BY <2>1 DEF SessionChange, vars
  <2>3. ~Tick
    BY <2>1 DEF Tick, PingTick, PingPolicies
  <2>4. ~SendPing
    BY <2>1 DEF SendPing, OnPingSend
  <2>5. PICK code \in PingCodes : PingDone(code)
    BY <2>2, <2>3, <2>4 DEF Next
  <2>6. QED
    BY <2>5 DEF PingDone
<1>2. QED
  BY <1>1, PolicyInvariant, PTL DEF Spec, LongUntilAnswered
===============================================================================
