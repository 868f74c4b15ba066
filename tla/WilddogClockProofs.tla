------------------------- MODULE WilddogClockProofs -------------------------
(***************************************************************************)
(* What the comparisons of the millisecond counter say, for every width of *)
(* the counter and of the shifted int and for every setting that leaves    *)
(* the counter four times as far as any of its intervals.                  *)
(***************************************************************************)
EXTENDS WilddogClock, SetInduction

Timers ==
  [kind : Kinds, on : BOOLEAN, from : 0 .. RANGE - 1, next : 0 .. RANGE - 1, count : Nat,
   never : BOOLEAN, off : 0 .. RANGE - 1, fails : Nat,
   status : {"INIT", "NOTAUTHED", "AUTHING", "AUTHED"}, overrun : BOOLEAN,
   age : Nat, since : Nat, away : Nat, last : {"new", "sent", "acked"}, wait : 0 .. RANGE - 1]

\* A timer t when the counter is at c: its age is how far the counter has come since
\* from, once around at most.
AgeIs(t, c) ==
  t.on /\ ~t.never => t.age = IF c >= t.from THEN c - t.from ELSE c - t.from + RANGE

\* When the counter has not wrapped, next was set in the past: to that time, to a wait
\* after it, or to FAR.
Scheduled(t, c) ==
  /\ t.last = "new" /\ t.kind # "session" =>
       t.next <= c /\ (t.kind = "keepalive" => t.next = 0)
  /\ t.last = "sent" /\ t.kind # "session" /\ t.count < SHIFT =>
       t.since <= c /\ t.next = (c - t.since + Wait(t)) % RANGE
  /\ t.last = "acked" => t.kind = "observer" /\ t.next = FAR

\* d_offline_time is a time in the past, and so late in the uptime that the wait
\* for the next retry is not longer than the uptime.
Stamped(t, c) ==
  t.off # 0 =>
    /\ t.kind = "session" /\ t.off <= c /\ t.away = c - t.off
    /\ ~t.overrun /\ t.count < SHIFT => t.off >= Lesser(Bit[t.count], RETRY_MAX)

Agree(t, c, w) ==
  /\ t \in Timers /\ AgeIs(t, c)
  /\ ~w => Scheduled(t, c) /\ Stamped(t, c)

\* A timer that may time out is at most m halves old.
Within(t, m) == t.on /\ ~t.never => 2 * t.age <= m

Fit(t, m) == Agree(t, now, wrapped) /\ Within(t, m)

Counter == now \in 0 .. RANGE - 1 /\ wrapped \in BOOLEAN

\* trySync lets no packet grow older than the retransmission time and one unit,
\* and the next call comes before the counter is around.
IInv == Counter /\ Fit(timer, RANGE + 1)
-----------------------------------------------------------------------------
(* Arithmetic.                                                               *)

LEMMA Settings ==
  /\ RANGE \in Nat /\ RANGE > 4
  /\ TIMEOUT \in Nat /\ TIMEOUT > 0 /\ 4 * TIMEOUT < RANGE
  /\ RETRY_MAX \in Nat /\ RETRY_MAX > 0 /\ 4 * RETRY_MAX < RANGE
  /\ PING \in Nat /\ PING > 0 /\ 4 * PING < RANGE
  /\ FAR \in 0 .. RANGE - 1
  /\ SHIFT \in Nat /\ SHIFT > 0
  /\ INTERVAL \in Nat /\ OFFLINE_TIMES \in Nat
  /\ \A n \in Steps \cup Intervals : n \in Nat /\ n > 0 /\ 4 * n < RANGE
<1>1. /\ W \in Nat /\ TIMEOUT \in Nat \ {0} /\ RETRY_MAX \in Nat \ {0} /\ PING \in Nat \ {0}
      /\ SHIFT \in Nat \ {0} /\ INTERVAL \in Nat \ {0} /\ OFFLINE_TIMES \in Nat \ {0}
      /\ Steps \subseteq Nat \ {0} /\ Intervals \subseteq Nat \ {0}
      /\ FAR \in Nat
  BY ClockAssumption
<1>2. RANGE \in Int
  BY <1>1 DEF RANGE
<1>3. 4 * TIMEOUT < RANGE /\ 4 * RETRY_MAX < RANGE /\ 4 * PING < RANGE
      /\ FAR < RANGE /\ \A n \in Steps \cup Intervals : 4 * n < RANGE
  BY ClockAssumption DEF RANGE
<1>4. QED
  BY <1>1, <1>2, <1>3

LEMMA Doubling ==
  /\ Bit[0] = 1
  /\ \A n \in Nat : Bit[n] \in Nat /\ Bit[n] > 0 /\ Bit[n + 1] = 2 * Bit[n]
<1> DEFINE V    == Nat \ {0}
           step == [n \in Nat |-> [v \in V |-> 2 * v]]
           Is(f) == f = [n \in Nat |-> IF n = 0 THEN 1 ELSE 2 * f[n - 1]]
<1>1. step \in Steppers(V) /\ 1 \in V
  BY DEF Steppers
<1>2. PICK f \in [Nat -> V] : f[0] = 1 /\ \A n \in Nat : f[n + 1] = step[n][f[n]]
  <2> HIDE DEF V, step
  <2>1. \E f \in [Nat -> V] : Repeats(f, 1, step)
    BY <1>1, NatRecursion
  <2>2. QED
    BY <2>1 DEF Repeats
<1>3. Is(f)
  <2>1. ASSUME NEW n \in Nat
        PROVE  f[n] = IF n = 0 THEN 1 ELSE 2 * f[n - 1]
    <3>1. CASE n = 0
      BY <1>2, <3>1
    <3>2. CASE n # 0
      <4>1. n - 1 \in Nat /\ (n - 1) + 1 = n
        BY <3>2
      <4>2. f[(n - 1) + 1] = 2 * f[n - 1]
        BY <1>2, <4>1
      <4>3. QED
        BY <3>2, <4>1, <4>2
    <3>3. QED
      BY <3>1, <3>2
  <2>2. QED
    BY <2>1
<1>4. Is(Bit)
  <2>1. Bit = CHOOSE g : Is(g)
    BY DEF Bit
  <2> HIDE DEF Is
  <2>2. QED
    BY <1>3, <2>1
<1>5. Bit[0] = 1
  BY <1>4
<1>6. \A n \in Nat : Bit[n + 1] = 2 * Bit[n]
  BY <1>4
<1>7. {n \in Nat : Bit[n] \in V} = Nat
  <2> DEFINE S == {n \in Nat : Bit[n] \in V}
  <2>1. 0 \in S /\ \A n \in S : n + 1 \in S
    BY <1>5, <1>6
  <2>2. S \subseteq Nat
    OBVIOUS
  <2> HIDE DEF S
  <2>3. S = Nat
    BY <2>1, <2>2, NatSetInduction
  <2>4. QED
    BY <2>3 DEF S
<1>8. \A n \in Nat : Bit[n] \in Nat /\ Bit[n] > 0
  BY <1>7
<1>9. QED
  BY <1>5, <1>6, <1>8

LEMMA Remainder ==
  ASSUME NEW x \in Int
  PROVE  /\ x % RANGE \in 0 .. RANGE - 1
         /\ 0 <= x /\ x < RANGE => x % RANGE = x
         /\ RANGE <= x /\ x < 2 * RANGE => x % RANGE = x - RANGE
         /\ -RANGE <= x /\ x < 0 => x % RANGE = x + RANGE
<1>1. RANGE \in Nat /\ RANGE > 4
  BY Settings
<1> HIDE DEF RANGE
<1>2. QED
  BY <1>1

LEMMA IntervalType ==
  ASSUME NEW s \in Nat
  PROVE  Interval(s) \in 0 .. RANGE - 1
<1>1. INTERVAL * s \in Int
  BY Settings
<1>2. QED
  BY <1>1, Remainder DEF Interval

\* What the shift gives is a number, and 1 << n where it does not overflow.
LEMMA ShiftedType ==
  ASSUME NEW n \in Nat, NEW s \in Shifted(n)
  PROVE  s \in Nat /\ (n < SHIFT => s = Bit[n])
<1>1. \A k \in Nat : Bit[k] \in Nat
  BY Doubling
<1>2. SHIFT \in Nat
  BY Settings
<1>3. CASE n < SHIFT
  BY <1>1, <1>3 DEF Shifted
<1>4. CASE ~(n < SHIFT)
  <2>1. s \in {0} \cup {Bit[k] : k \in 0 .. SHIFT - 1}
    BY <1>4 DEF Shifted
  <2>2. QED
    BY <1>1, <1>2, <1>4, <2>1
<1>5. QED
  BY <1>3, <1>4

LEMMA CountedType ==
  ASSUME NEW n \in Nat
  PROVE  Counted(n) \in Nat /\ (Counted(n) < SHIFT => Counted(n) = n + 1)
<1>1. QED
  BY Settings DEF Counted, Lesser
-----------------------------------------------------------------------------
(* Time passes.                                                              *)

\* From one trySync to the next everything that is followed stays true.
LEMMA TimePasses ==
  ASSUME Counter, NEW t, Fit(t, 2 * TIMEOUT + 2), NEW n \in Steps
  PROVE  LET d == Aged(t, n)
             c == (now + n) % RANGE
         IN  /\ Agree(d, c, wrapped \/ now + n >= RANGE)
             /\ Within(d, RANGE + 1)
             /\ c \in 0 .. RANGE - 1
<1> DEFINE c == (now + n) % RANGE
           v == wrapped \/ now + n >= RANGE
           age == IF t.on /\ ~t.never THEN Lesser(t.age + n, RANGE) ELSE t.age
           since == IF t.last = "sent" THEN Lesser(t.since + n, RANGE) ELSE t.since
           away == IF t.off # 0 THEN Lesser(t.away + n, RANGE) ELSE t.away
           d == [t EXCEPT !.age = age, !.since = since, !.away = away]
<1>0. /\ RANGE \in Nat /\ RANGE > 4 /\ TIMEOUT \in Nat /\ 4 * TIMEOUT < RANGE
      /\ n \in Nat /\ n > 0 /\ 4 * n < RANGE
      /\ now \in 0 .. RANGE - 1 /\ wrapped \in BOOLEAN
  BY Settings DEF Counter
<1> HIDE DEF RANGE
<1>1. /\ t \in Timers
      /\ t.from \in 0 .. RANGE - 1 /\ t.next \in 0 .. RANGE - 1 /\ t.off \in 0 .. RANGE - 1
      /\ t.age \in Nat /\ t.since \in Nat /\ t.away \in Nat
  BY DEF Fit, Agree, Timers
<1>2. /\ c \in 0 .. RANGE - 1
      /\ now + n < RANGE => c = now + n
      /\ now + n >= RANGE => c = now + n - RANGE
  <2>1. PICK x \in Int : x = now + n
    BY <1>0
  <2>2. c = x % RANGE /\ 0 <= x /\ x < 2 * RANGE
    BY <1>0, <2>1
  <2> HIDE DEF c
  <2>3. QED
    BY <1>0, <2>1, <2>2, Remainder
<1>3. age \in Nat /\ since \in Nat /\ away \in Nat
  BY <1>0, <1>1 DEF Lesser
<1>4. Aged(t, n) = d
  BY DEF Aged
<1> HIDE DEF c, age, since, away
<1>5. /\ d.kind = t.kind /\ d.on = t.on /\ d.from = t.from /\ d.next = t.next
      /\ d.count = t.count /\ d.never = t.never /\ d.off = t.off /\ d.overrun = t.overrun
      /\ d.last = t.last /\ d.wait = t.wait
      /\ d.age = age /\ d.since = since /\ d.away = away
  BY <1>1 DEF Timers
<1>6. d \in Timers
  BY <1>1, <1>3 DEF Timers
<1> HIDE DEF d
<1>7. ASSUME t.on, ~t.never
      PROVE  /\ d.age = t.age + n /\ 2 * d.age <= RANGE + 1
             /\ d.age = IF c >= t.from THEN c - t.from ELSE c - t.from + RANGE
  <2>1. 2 * t.age <= 2 * TIMEOUT + 2
    BY <1>7 DEF Fit, Within
  <2>2. t.age = IF now >= t.from THEN now - t.from ELSE now - t.from + RANGE
    BY <1>7 DEF Fit, Agree, AgeIs
  <2>3. d.age = t.age + n
    BY <1>0, <1>1, <1>5, <1>7, <2>1 DEF Lesser, age
  <2>4. QED
    BY <1>0, <1>1, <1>2, <2>1, <2>2, <2>3
<1>8. ASSUME ~v
      PROVE  Scheduled(d, c) /\ Stamped(d, c)
  <2>1. c = now + n /\ now + n < RANGE /\ Scheduled(t, now) /\ Stamped(t, now)
    BY <1>0, <1>2, <1>8 DEF Fit, Agree
  <2>2. Wait(d) = Wait(t)
    BY <1>5 DEF Wait
  <2>3. d.last = "new" /\ d.kind # "session" => d.next <= c /\ (d.kind = "keepalive" => d.next = 0)
    BY <1>0, <1>1, <1>5, <2>1 DEF Scheduled
  <2>4. ASSUME d.last = "sent", d.kind # "session", d.count < SHIFT
        PROVE  d.since <= c /\ d.next = (c - d.since + Wait(d)) % RANGE
    <3>1. t.since <= now /\ t.next = (now - t.since + Wait(t)) % RANGE
      BY <1>5, <2>1, <2>4 DEF Scheduled
    <3>2. d.since = t.since + n
      BY <1>0, <1>1, <1>5, <2>1, <2>4, <3>1 DEF Lesser, since
    <3>3. c - d.since = now - t.since /\ d.since <= c
      BY <1>0, <1>1, <2>1, <3>1, <3>2
    <3>4. QED
      BY <1>5, <2>2, <3>1, <3>3
  <2>5. d.last = "acked" => d.kind = "observer" /\ d.next = FAR
    BY <1>5, <2>1 DEF Scheduled
  <2>6. ASSUME d.off # 0
        PROVE  d.off <= c /\ d.away = c - d.off
    <3>1. t.off <= now /\ t.away = now - t.off
      BY <1>5, <2>1, <2>6 DEF Stamped
    <3>2. d.away = t.away + n
      BY <1>0, <1>1, <1>5, <2>1, <2>6, <3>1 DEF Lesser, away
    <3>3. QED
      BY <1>0, <1>1, <1>5, <2>1, <3>1, <3>2
  <2>7. Stamped(d, c)
    BY <1>5, <2>1, <2>6 DEF Stamped
  <2>8. QED
    BY <2>3, <2>4, <2>5, <2>7 DEF Scheduled
<1>9. Agree(d, c, v) /\ Within(d, RANGE + 1)
  BY <1>5, <1>6, <1>7, <1>8 DEF Agree, AgeIs, Within
<1>10. QED
  BY <1>2, <1>4, <1>9 DEF c
-----------------------------------------------------------------------------
(* What is written into a timer keeps it true.                               *)

\* The age of a timer agrees where it is one that did, or is registered now.
LEMMA Aging ==
  ASSUME Counter, NEW t, NEW m \in Nat, Fit(t, m), NEW d,
         d.on /\ ~d.never => \/ t.on /\ ~t.never /\ d.from = t.from /\ d.age = t.age
                             \/ d.from = now /\ d.age = 0
  PROVE  AgeIs(d, now) /\ Within(d, m)
<1> SUFFICES ASSUME d.on, ~d.never
             PROVE  /\ d.age = IF now >= d.from THEN now - d.from ELSE now - d.from + RANGE
                    /\ 2 * d.age <= m
  BY DEF AgeIs, Within
<1>1. now \in Int
  BY DEF Counter
<1>2. CASE t.on /\ ~t.never /\ d.from = t.from /\ d.age = t.age
  BY <1>2 DEF Fit, Agree, AgeIs, Within
<1>3. CASE d.from = now /\ d.age = 0
  BY <1>1, <1>3
<1>4. QED
  BY <1>2, <1>3

\* So does what is written into it of the same times,
LEMMA Alike ==
  ASSUME Counter, NEW t, NEW m \in Nat, Fit(t, m), NEW d \in Timers,
         d.kind = t.kind, d.next = t.next, d.count = t.count, d.off = t.off,
         d.overrun = t.overrun, d.since = t.since, d.away = t.away,
         d.last = t.last, d.wait = t.wait,
         d.on /\ ~d.never => \/ t.on /\ ~t.never /\ d.from = t.from /\ d.age = t.age
                             \/ d.from = now /\ d.age = 0
  PROVE  Fit(d, m)
<1>1. Wait(d) = Wait(t)
  BY DEF Wait
<1>2. AgeIs(d, now) /\ Within(d, m)
  BY Aging
<1>3. ~wrapped => Scheduled(d, now)
  BY <1>1 DEF Fit, Agree, Scheduled
<1>4. ~wrapped => Stamped(d, now)
  BY DEF Fit, Agree, Stamped
<1>5. QED
  BY <1>2, <1>3, <1>4 DEF Fit, Agree

\* and what is not the session's and sets the next time.
LEMMA Rescheduled ==
  ASSUME Counter, NEW t, NEW m \in Nat, Fit(t, m), t.kind # "session", NEW d \in Timers,
         d.off = t.off,
         d.on /\ ~d.never => \/ t.on /\ ~t.never /\ d.from = t.from /\ d.age = t.age
                             \/ d.from = now /\ d.age = 0,
         ~wrapped => Scheduled(d, now)
  PROVE  Fit(d, m)
<1>1. AgeIs(d, now) /\ Within(d, m)
  BY Aging
<1>2. ~wrapped => Stamped(d, now)
  BY DEF Fit, Agree, Stamped
<1>3. QED
  BY <1>1, <1>2 DEF Fit, Agree

LEMMA RegisteredFits ==
  ASSUME Counter, NEW t, NEW m \in Nat, Fit(t, m)
  PROVE  Fit(Registered(t), m)
<1> DEFINE d == [t EXCEPT !.on = TRUE, !.from = now, !.age = 0]
<1>1. t \in Timers
  BY DEF Fit, Agree
<1>2. /\ d.kind = t.kind /\ d.next = t.next /\ d.count = t.count /\ d.off = t.off
      /\ d.overrun = t.overrun /\ d.since = t.since /\ d.away = t.away
      /\ d.last = t.last /\ d.wait = t.wait /\ d.from = now /\ d.age = 0
  BY <1>1 DEF Timers
<1>3. d \in Timers
  BY <1>1 DEF Timers, Counter
<1> HIDE DEF d
<1>4. Fit(d, m)
  BY <1>2, <1>3, Alike
<1>5. QED
  BY <1>4 DEF d, Registered

LEMMA FreedFits ==
  ASSUME Counter, NEW t, NEW m \in Nat, Fit(t, m), NEW k \in Nat
  PROVE  Fit(Freed(t), k)
<1> DEFINE d == [t EXCEPT !.on = FALSE, !.from = 0, !.age = 0]
<1>1. t \in Timers /\ 0 \in 0 .. RANGE - 1
  BY Settings DEF Fit, Agree
<1>2. /\ d.kind = t.kind /\ d.next = t.next /\ d.count = t.count /\ d.off = t.off
      /\ d.overrun = t.overrun /\ d.since = t.since /\ d.away = t.away
      /\ d.last = t.last /\ d.wait = t.wait /\ ~d.on
  BY <1>1 DEF Timers
<1>3. d \in Timers
  BY <1>1 DEF Timers
<1> HIDE DEF d
<1>4. Fit(d, m)
  BY <1>2, <1>3, Alike
<1>5. Within(d, k)
  BY <1>2 DEF Within
<1>6. QED
  BY <1>4, <1>5 DEF d, Freed, Fit

LEMMA StatusFits ==
  ASSUME Counter, NEW t, NEW m \in Nat, Fit(t, m),
         NEW s \in {"INIT", "NOTAUTHED", "AUTHING", "AUTHED"}
  PROVE  Fit([t EXCEPT !.status = s], m)
<1> DEFINE d == [t EXCEPT !.status = s]
<1>1. t \in Timers
  BY DEF Fit, Agree
<1>2. /\ d.kind = t.kind /\ d.next = t.next /\ d.count = t.count /\ d.off = t.off
      /\ d.overrun = t.overrun /\ d.since = t.since /\ d.away = t.away
      /\ d.last = t.last /\ d.wait = t.wait
      /\ d.on = t.on /\ d.never = t.never /\ d.from = t.from /\ d.age = t.age
  BY <1>1 DEF Timers
<1>3. d \in Timers
  BY <1>1 DEF Timers
<1> HIDE DEF d
<1>4. Fit(d, m)
  BY <1>2, <1>3, Alike
<1>5. QED
  BY <1>4 DEF d

LEMMA NewAuthFits ==
  ASSUME Counter, NEW t, NEW m \in Nat, Fit(t, m)
  PROVE  Fit(NewAuth(t), m)
<1>1. Fit(Registered(t), m)
  BY RegisteredFits
<1> DEFINE d == Registered(t)
<1> HIDE DEF d
<1>2. Fit([d EXCEPT !.status = "AUTHING"], m)
  BY <1>1, StatusFits DEF d
<1>3. QED
  BY <1>2 DEF d, NewAuth

LEMMA NewTimerFits ==
  ASSUME Counter, NEW k \in Kinds, NEW m \in Nat
  PROVE  /\ NewTimer(k) \in Timers
         /\ k # "session" => Fit(NewTimer(k), m)
<1> DEFINE on == k = "session"
           status == IF k = "session" THEN "AUTHING" ELSE "NOTAUTHED"
           d == NewTimer(k)
<1>0. RANGE \in Nat /\ RANGE > 4 /\ now \in 0 .. RANGE - 1
  BY Settings DEF Counter
<1> HIDE DEF RANGE
<1>1. on \in BOOLEAN /\ status \in {"INIT", "NOTAUTHED", "AUTHING", "AUTHED"}
  OBVIOUS
<1>2. d = [kind |-> k, on |-> on, from |-> 0, next |-> 0, count |-> 0, never |-> FALSE,
           off |-> 0, fails |-> 0, status |-> status, overrun |-> FALSE,
           age |-> 0, since |-> 0, away |-> 0, last |-> "new", wait |-> 0]
  BY DEF NewTimer
<1> HIDE DEF on, status, d
<1>3. d \in Timers
  BY <1>0, <1>1, <1>2 DEF Timers
<1>4. d.on = on /\ d.next = 0 /\ d.last = "new" /\ d.off = 0
  BY <1>2
<1>5. ASSUME k # "session"
      PROVE  Fit(d, m)
  <2>1. ~d.on
    BY <1>4, <1>5 DEF on
  <2>2. Scheduled(d, now) /\ Stamped(d, now)
    BY <1>0, <1>4 DEF Scheduled, Stamped
  <2>3. QED
    BY <1>3, <2>1, <2>2 DEF Fit, Agree, AgeIs, Within
<1>6. QED
  BY <1>3, <1>5 DEF d

LEMMA GoneFits ==
  ASSUME Counter, NEW t, NEW m \in Nat, Fit(t, m), t.kind # "session", NEW k \in Nat
  PROVE  Fit(Gone(t), k)
<1>1. t.kind \in Kinds /\ t.status \in {"INIT", "NOTAUTHED", "AUTHING", "AUTHED"}
  BY DEF Fit, Agree, Timers
<1> DEFINE d == NewTimer(t.kind)
<1>2. Fit(d, k)
  BY <1>1, NewTimerFits
<1> HIDE DEF d
<1>3. Fit([d EXCEPT !.status = t.status], k)
  BY <1>1, <1>2, StatusFits
<1>4. QED
  BY <1>3 DEF d, Gone

LEMMA SumType ==
  ASSUME Counter, NEW w \in 0 .. RANGE - 1
  PROVE  (now + w) % RANGE \in 0 .. RANGE - 1
<1>1. now + w \in Int
  BY Settings DEF Counter
<1>2. QED
  BY <1>1, Remainder

LEMMA SentFits ==
  ASSUME Counter, NEW t, NEW m \in Nat, Fit(t, m), t.kind \in Packets, NEW d \in Sent(t)
  PROVE  Fit(d, m)
<1>1. t \in Timers /\ t.count \in Nat /\ t.kind # "session" /\ t.kind # "keepalive"
  BY DEF Fit, Agree, Timers, Packets
<1> DEFINE count == Counted(t.count)
<1>2. count \in Nat
  BY <1>1, CountedType
<1>3. PICK s \in Shifted(count) :
        d = [t EXCEPT !.count = count, !.next = NextSendTime(s), !.since = 0, !.last = "sent"]
  BY DEF Sent
<1> HIDE DEF count
<1>4. s \in Nat /\ (count < SHIFT => s = Bit[count])
  BY <1>2, ShiftedType
<1> DEFINE next == NextSendTime(s)
<1>5. next = (now + Interval(s)) % RANGE /\ next \in 0 .. RANGE - 1
  BY <1>4, IntervalType, SumType DEF NextSendTime
<1> HIDE DEF next
<1>6. d = [t EXCEPT !.count = count, !.next = next, !.since = 0, !.last = "sent"]
  BY <1>3 DEF next
<1>7. /\ d.kind = t.kind /\ d.next = next /\ d.count = count /\ d.off = t.off
      /\ d.since = 0 /\ d.last = "sent"
      /\ d.on = t.on /\ d.never = t.never /\ d.from = t.from /\ d.age = t.age
  BY <1>1, <1>6 DEF Timers
<1>8. d \in Timers
  BY <1>1, <1>2, <1>5, <1>6 DEF Timers
<1>9. Scheduled(d, now)
  <2>1. now \in Nat /\ now - 0 = now
    BY Settings DEF Counter
  <2>2. d.count < SHIFT => Wait(d) = Interval(s)
    BY <1>1, <1>4, <1>7 DEF Wait
  <2>3. d.count < SHIFT => d.next = (now - d.since + Wait(d)) % RANGE
    BY <1>5, <1>7, <2>1, <2>2
  <2>4. QED
    BY <1>7, <2>1, <2>3 DEF Scheduled
<1>10. QED
  BY <1>1, <1>7, <1>8, <1>9, Rescheduled

LEMMA RequeuedFits ==
  ASSUME Counter, NEW t, NEW m \in Nat, Fit(t, m), t.kind \in Packets
  PROVE  Fit(Requeued(t), m)
<1> DEFINE d == [t EXCEPT !.next = now, !.since = 0, !.last = "new"]
<1>1. t \in Timers /\ t.kind # "session" /\ t.kind # "keepalive" /\ now \in 0 .. RANGE - 1
  BY DEF Fit, Agree, Packets, Counter
<1>2. /\ d.kind = t.kind /\ d.next = now /\ d.off = t.off /\ d.last = "new"
      /\ d.on = t.on /\ d.never = t.never /\ d.from = t.from /\ d.age = t.age
  BY <1>1 DEF Timers
<1>3. d \in Timers
  BY <1>1 DEF Timers
<1> HIDE DEF d
<1>4. Scheduled(d, now)
  BY <1>1, <1>2, Settings DEF Scheduled
<1>5. Fit(d, m)
  BY <1>1, <1>2, <1>3, <1>4, Rescheduled
<1>6. QED
  BY <1>5 DEF d, Requeued

LEMMA RelistedFits ==
  ASSUME Counter, NEW t, NEW m \in Nat, Fit(t, m), t.kind \in Packets
  PROVE  Fit(Relisted(t), m)
<1> DEFINE u == IF t.never THEN Registered(t) ELSE t
           v == Requeued(u)
           d == [v EXCEPT !.never = FALSE, !.count = 0]
<1>1. t \in Timers /\ t.kind # "session" /\ t.kind # "keepalive" /\ now \in 0 .. RANGE - 1
  BY DEF Fit, Agree, Packets, Counter
<1>2. Fit(u, m)
  BY RegisteredFits
<1>3. u.kind = t.kind /\ (t.never => u.from = now /\ u.age = 0) /\ (~t.never => u = t)
  BY <1>1 DEF Registered, Timers
<1> HIDE DEF u
<1>4. Fit(v, m)
  BY <1>2, <1>3, RequeuedFits
<1>5. u \in Timers /\ v \in Timers
  BY <1>2, <1>4 DEF Fit, Agree
<1>6. /\ v.kind = t.kind /\ v.next = now /\ v.last = "new"
      /\ v.on = u.on /\ v.from = u.from /\ v.age = u.age
  BY <1>3, <1>5 DEF Requeued, Timers
<1> HIDE DEF v
<1>7. /\ d.kind = t.kind /\ d.next = now /\ d.off = v.off /\ d.last = "new"
      /\ d.on = v.on /\ d.from = v.from /\ d.age = v.age /\ ~d.never
  BY <1>5, <1>6 DEF Timers
<1>8. d \in Timers
  BY <1>5 DEF Timers
<1> HIDE DEF d
<1>9. Scheduled(d, now)
  BY <1>1, <1>7, Settings DEF Scheduled
<1>10. \/ v.on /\ ~v.never /\ d.from = v.from /\ d.age = v.age
       \/ d.from = now /\ d.age = 0
       \/ ~d.on
  <2>1. CASE t.never
    BY <1>3, <1>6, <1>7, <2>1
  <2>2. CASE ~t.never
    <3>1. v.never = t.never
      BY <1>3, <1>5, <2>2 DEF v, Requeued, Timers
    <3>2. QED
      BY <1>7, <2>2, <3>1
  <2>3. QED
    BY <2>1, <2>2
<1>11. Fit(d, m)
  BY <1>1, <1>4, <1>6, <1>7, <1>8, <1>9, <1>10, Rescheduled
<1>12. QED
  BY <1>11 DEF d, v, u, Relisted

LEMMA NotifiedFits ==
  ASSUME Counter, NEW t, NEW m \in Nat, Fit(t, m), t.kind = "observer"
  PROVE  Fit([t EXCEPT !.never = TRUE, !.age = 0, !.next = FAR, !.since = 0,
                       !.last = "acked"], m)
<1> DEFINE d == [t EXCEPT !.never = TRUE, !.age = 0, !.next = FAR, !.since = 0,
                          !.last = "acked"]
<1>1. t \in Timers /\ FAR \in 0 .. RANGE - 1
  BY Settings DEF Fit, Agree
<1>2. d.kind = "observer" /\ d.next = FAR /\ d.off = t.off /\ d.last = "acked" /\ d.never
  BY <1>1 DEF Timers
<1>3. d \in Timers
  BY <1>1 DEF Timers
<1> HIDE DEF d
<1>4. Scheduled(d, now)
  BY <1>2 DEF Scheduled
<1>5. Fit(d, m)
  BY <1>2, <1>3, <1>4, Rescheduled
<1>6. QED
  BY <1>5 DEF d

LEMMA NextPingFits ==
  ASSUME Counter, NEW t, NEW m \in Nat, Fit(t, m), t.kind = "keepalive",
         NEW w \in 0 .. RANGE - 1
  PROVE  Fit(NextPing(t, w), m)
<1> DEFINE next == (now + w) % RANGE
           d == [t EXCEPT !.next = next, !.since = 0, !.last = "sent", !.wait = w]
<1>1. t \in Timers /\ next \in 0 .. RANGE - 1
  BY SumType DEF Fit, Agree
<1> HIDE DEF next
<1>2. /\ d.kind = t.kind /\ d.next = next /\ d.off = t.off /\ d.last = "sent"
      /\ d.since = 0 /\ d.wait = w
      /\ d.on = t.on /\ d.never = t.never /\ d.from = t.from /\ d.age = t.age
  BY <1>1 DEF Timers
<1>3. d \in Timers
  BY <1>1, Settings DEF Timers
<1>4. NextPing(t, w) = d
  BY DEF NextPing, next
<1> HIDE DEF d
<1>5. Scheduled(d, now)
  <2>1. now \in Nat /\ now - 0 = now
    BY Settings DEF Counter
  <2>2. d.next = (now - d.since + Wait(d)) % RANGE
    BY <1>2, <2>1 DEF Wait, next
  <2>3. QED
    BY <1>2, <2>1, <2>2 DEF Scheduled
<1>6. Fit(d, m)
  BY <1>2, <1>3, <1>5, Rescheduled
<1>7. QED
  BY <1>4, <1>6

LEMMA NoPingFits ==
  ASSUME Counter, NEW t, NEW m \in Nat, Fit(t, m), t.kind = "keepalive"
  PROVE  Fit(NoPing(t), m)
<1> DEFINE d == [t EXCEPT !.next = 0, !.since = 0, !.last = "new", !.wait = 0]
<1>1. t \in Timers /\ 0 \in 0 .. RANGE - 1 /\ now \in 0 .. RANGE - 1
  BY Settings DEF Fit, Agree, Counter
<1>2. /\ d.kind = t.kind /\ d.next = 0 /\ d.off = t.off /\ d.last = "new"
      /\ d.on = t.on /\ d.never = t.never /\ d.from = t.from /\ d.age = t.age
  BY <1>1 DEF Timers
<1>3. d \in Timers
  BY <1>1 DEF Timers
<1> HIDE DEF d
<1>4. Scheduled(d, now)
  BY <1>1, <1>2 DEF Scheduled
<1>5. Fit(d, m)
  BY <1>2, <1>3, <1>4, Rescheduled
<1>6. QED
  BY <1>5 DEF d, NoPing
-----------------------------------------------------------------------------
(* What trySync does.                                                        *)

\* _wilddog_conn_isTimeout tells the age, one unit late at most.
LEMMA AgeTold ==
  ASSUME Counter, NEW t, NEW m, Fit(t, m), t.on, ~t.never
  PROVE  /\ IsTimeout(now, t.from, TIMEOUT) => t.age > TIMEOUT
         /\ t.age > TIMEOUT + 1 => IsTimeout(now, t.from, TIMEOUT)
<1>1. /\ RANGE \in Nat /\ TIMEOUT \in Nat /\ now \in 0 .. RANGE - 1
      /\ t.from \in 0 .. RANGE - 1 /\ t.age \in Nat
  BY Settings DEF Counter, Fit, Agree, Timers
<1>2. t.age = IF now >= t.from THEN now - t.from ELSE now - t.from + RANGE
  BY DEF Fit, Agree, AgeIs
<1> HIDE DEF RANGE
<1>3. QED
  BY <1>1, <1>2 DEF IsTimeout

\* How old what trySync leaves is at most, in halves.
OLD == 2 * TIMEOUT + 2

LEMMA Young ==
  ASSUME Counter, NEW t, NEW m, Fit(t, m), ~(t.on /\ TooOld(t))
  PROVE  Fit(t, OLD)
<1>1. ASSUME t.on, ~t.never
      PROVE  2 * t.age <= OLD
  <2>1. ~IsTimeout(now, t.from, TIMEOUT)
    BY <1>1 DEF TooOld
  <2>2. t.age \in Nat /\ TIMEOUT \in Nat
    BY Settings DEF Fit, Agree, Timers
  <2>3. QED
    BY <1>1, <2>1, <2>2, AgeTold DEF OLD
<1>2. QED
  BY <1>1 DEF Fit, Within

LEMMA Bounds == OLD \in Nat /\ RANGE + 1 \in Nat
<1>1. RANGE \in Nat /\ TIMEOUT \in Nat
  BY Settings
<1> HIDE DEF RANGE
<1>2. QED
  BY <1>1 DEF OLD

LEMMA PacketSyncFits ==
  ASSUME Counter, NEW t, NEW m \in Nat, Fit(t, m), t.kind \in Packets,
         NEW d \in PacketSync(t)
  PROVE  Fit(d, OLD)
<1>1. t.kind # "session" /\ OLD \in Nat
  BY Bounds DEF Packets
<1>2. CASE t.on /\ TooOld(t)
  <2>1. d = Gone(t)
    BY <1>2 DEF PacketSync
  <2>2. QED
    BY <1>1, <2>1, GoneFits
<1>3. CASE ~(t.on /\ TooOld(t))
  <2>1. Fit(t, OLD)
    BY <1>3, Young
  <2>2. d \in Sent(t) \cup {t}
    BY <1>3 DEF PacketSync
  <2>3. QED
    BY <1>1, <2>1, <2>2, SentFits
<1>4. QED
  BY <1>2, <1>3

LEMMA KeepaliveSyncFits ==
  ASSUME Counter, NEW t, NEW m \in Nat, Fit(t, m), t.kind = "keepalive"
  PROVE  Fit(KeepaliveSync(t), OLD)
<1> DEFINE u == PingTimedOut(t)
<1>1. OLD \in Nat /\ t \in Timers
  BY Bounds DEF Fit, Agree
<1>2. Fit(u, OLD) /\ u.kind = "keepalive"
  <2>1. CASE ~(t.on /\ TooOld(t))
    <3>1. u = t
      BY <2>1 DEF PingTimedOut
    <3>2. QED
      BY <2>1, <3>1, Young
  <2>2. CASE t.on /\ TooOld(t)
    <3>1. Fit(Freed(t), OLD) /\ Freed(t).kind = "keepalive"
      BY <1>1, FreedFits DEF Freed, Timers
    <3>2. Freed(t) \in Timers
      BY <3>1 DEF Fit, Agree
    <3>3. Fit(NoPing(Freed(t)), OLD)
      BY <1>1, <3>1, NoPingFits
    <3>4. NoPing(Freed(t)).kind = "keepalive"
      BY <3>1, <3>2 DEF NoPing, Timers
    <3>5. u \in {Freed(t), NoPing(Freed(t))}
      BY <2>2 DEF PingTimedOut
    <3>6. QED
      BY <3>1, <3>3, <3>4, <3>5
  <2>3. QED
    BY <2>1, <2>2
<1> HIDE DEF u
<1>3. PING \in 0 .. RANGE - 1
  <2>1. PING \in Nat /\ 4 * PING < RANGE /\ RANGE \in Nat
    BY Settings
  <2> HIDE DEF RANGE
  <2>2. QED
    BY <2>1
<1> DEFINE v == IF u.next = 0 THEN NextPing(u, PING) ELSE u
<1>4. Fit(v, OLD)
  BY <1>1, <1>2, <1>3, NextPingFits
<1> HIDE DEF v
<1>5. Fit(Registered(v), OLD)
  BY <1>1, <1>4, RegisteredFits
<1>6. KeepaliveSync(t) \in {Registered(v), u}
  BY DEF KeepaliveSync, u, v
<1>7. QED
  BY <1>2, <1>5, <1>6

\* An authentication that timed out.
LEMMA AuthTimedOutFits ==
  ASSUME Counter, NEW t, NEW m \in Nat, Fit(t, m), t.kind = "session"
  PROVE  LET d == AuthTimedOut(t)
         IN  Fit(d, OLD) /\ d.kind = "session"
<1> DEFINE fails == Lesser(t.fails + 1, OFFLINE_TIMES)
           u == Freed(t)
           lost == [u EXCEPT !.status = "NOTAUTHED", !.fails = fails]
           first == [lost EXCEPT !.off = now, !.count = 0, !.away = 0]
<1>1. /\ OLD \in Nat /\ t \in Timers /\ fails \in Nat /\ RETRY_MAX \in Nat /\ RETRY_MAX > 0
      /\ now \in 0 .. RANGE - 1
  BY Bounds, Settings DEF Fit, Agree, Timers, Lesser, Counter
<1>2. Fit(u, OLD) /\ u.kind = "session" /\ ~u.on /\ u.fails = t.fails
  BY <1>1, FreedFits DEF Freed, Timers
<1>a. t.on /\ TooOld(t) => AuthTimedOut(t) \in {lost, first}
  <2>1. Lesser(u.fails + 1, OFFLINE_TIMES) = fails
    BY <1>2
  <2> HIDE DEF fails
  <2>2. [Freed(t) EXCEPT !.status = "NOTAUTHED",
                         !.fails = Lesser(Freed(t).fails + 1, OFFLINE_TIMES)] = lost
    BY <2>1
  <2>3. QED
    BY <2>2 DEF AuthTimedOut
<1> HIDE DEF u, fails
<1>3. u \in Timers
  BY <1>2 DEF Fit, Agree
<1>4. /\ lost.kind = u.kind /\ lost.next = u.next /\ lost.count = u.count
      /\ lost.off = u.off /\ lost.overrun = u.overrun /\ lost.since = u.since
      /\ lost.away = u.away /\ lost.last = u.last /\ lost.wait = u.wait /\ ~lost.on
  BY <1>2, <1>3 DEF Timers
<1>5. lost \in Timers
  BY <1>1, <1>3 DEF Timers
<1> HIDE DEF lost
<1>6. Fit(lost, OLD)
  BY <1>1, <1>2, <1>4, <1>5, Alike
<1>7. /\ first.kind = "session" /\ ~first.on /\ first.off = now /\ first.count = 0
      /\ first.away = 0 /\ first.last = lost.last
  BY <1>2, <1>4, <1>5 DEF Timers
<1>8. first \in Timers
  BY <1>1, <1>5 DEF Timers
<1> HIDE DEF first
<1>9. Scheduled(first, now) \/ wrapped
  BY <1>2, <1>4, <1>6, <1>7 DEF Scheduled, Fit, Agree, Counter
<1>10. Stamped(first, now)
  <2>1. now <= now /\ 0 = now - now
    BY <1>1, Settings
  <2>2. first.off # 0 => now >= Lesser(Bit[0], RETRY_MAX)
    BY <1>1, <1>7, Doubling, Settings DEF Lesser
  <2>3. QED
    BY <1>7, <2>1, <2>2 DEF Stamped
<1>11. Fit(first, OLD)
  BY <1>7, <1>8, <1>9, <1>10 DEF Fit, Agree, AgeIs, Within
<1>12. CASE t.on /\ TooOld(t)
  <2>1. AuthTimedOut(t) \in {lost, first}
    BY <1>a, <1>12 DEF lost, first
  <2>2. QED
    BY <1>2, <1>4, <1>6, <1>7, <1>11, <2>1
<1>13. CASE ~(t.on /\ TooOld(t))
  <2>1. AuthTimedOut(t) = t
    BY <1>13 DEF AuthTimedOut
  <2>2. QED
    BY <1>13, <2>1, Young
<1>14. QED
  BY <1>12, <1>13

\* The session is tried again when the wait of the last retry is over: the next one is
\* at most twice as long.
LEMMA RetriedFits ==
  ASSUME Counter, NEW t, NEW m \in Nat, Fit(t, m), t.kind = "session",
         NEW s \in Shifted(t.count)
  PROVE  Fit(Retried(t, s), m)
<1> DEFINE count == Counted(t.count)
           u == [t EXCEPT !.count = count, !.away = 0, !.off = now]
<1>1. /\ t \in Timers /\ t.count \in Nat /\ t.off \in 0 .. RANGE - 1
      /\ now \in 0 .. RANGE - 1 /\ RETRY_MAX \in Nat /\ RETRY_MAX > 0
      /\ RANGE \in Nat /\ SHIFT \in Nat /\ SHIFT > 0
  BY Settings DEF Fit, Agree, Timers, Counter
<1> HIDE DEF RANGE
<1>2. count \in Nat /\ (count < SHIFT => count = t.count + 1)
  BY <1>1, CountedType
<1> HIDE DEF count
<1>3. /\ u.kind = "session" /\ u.count = count /\ u.off = now /\ u.away = 0
      /\ u.overrun = t.overrun /\ u.last = t.last
      /\ u.on = t.on /\ u.never = t.never /\ u.from = t.from /\ u.age = t.age
  BY <1>1 DEF Timers
<1>4. u \in Timers
  BY <1>1, <1>2 DEF Timers
<1>5. [Tried(t) EXCEPT !.off = now] = u
  BY <1>1 DEF Tried, count, Timers
<1> HIDE DEF u
<1>6. ASSUME t.off # 0, RetryDue(t, s)
      PROVE  Fit(u, m)
  <2>1. AgeIs(u, now) /\ Within(u, m)
    BY <1>3, Aging
  <2>2. ~wrapped => Scheduled(u, now)
    BY <1>3 DEF Fit, Agree, Scheduled
  <2>3. ASSUME ~wrapped, ~t.overrun, count < SHIFT
        PROVE  now >= Lesser(Bit[count], RETRY_MAX)
    <3>1. t.count < SHIFT /\ count = t.count + 1
      BY <1>1, <1>2, <2>3
    <3>2. s = Bit[t.count]
      BY <3>1 DEF Shifted
    <3>3. Bit[t.count] \in Nat /\ Bit[t.count] > 0 /\ Bit[count] = 2 * Bit[t.count]
      BY <1>1, <3>1, Doubling
    <3> DEFINE wait == Lesser(Bit[t.count], RETRY_MAX)
    <3>4. wait \in Nat /\ t.off >= wait /\ t.off <= now
      <4>1. t.off >= wait /\ t.off <= now
        BY <1>6, <2>3, <3>1 DEF Fit, Agree, Stamped
      <4>2. QED
        BY <1>1, <3>3, <4>1 DEF Lesser
    <3>5. (now - wait) % RANGE = now - wait
      <4> HIDE DEF wait
      <4>1. PICK x \in Int : x = now - wait
        BY <1>1, <3>4
      <4>2. 0 <= x /\ x < RANGE
        BY <1>1, <3>4, <4>1
      <4>3. x % RANGE = x
        BY <4>2, Remainder
      <4>4. QED
        BY <4>1, <4>3
    <3>6. now - wait >= t.off
      <4>1. ~((now - wait) % RANGE < t.off)
        BY <1>6, <3>2 DEF RetryDue
      <4> HIDE DEF wait
      <4>2. QED
        BY <1>1, <3>4, <3>5, <4>1
    <3>7. QED
      BY <1>1, <3>3, <3>4, <3>6 DEF Lesser
  <2>4. ~wrapped => Stamped(u, now)
    <3>1. now <= now /\ 0 = now - now
      BY <1>1
    <3>2. QED
      BY <1>3, <2>3, <3>1 DEF Stamped
  <2>5. QED
    BY <1>4, <2>1, <2>2, <2>4 DEF Fit, Agree
<1>7. CASE t.status = "NOTAUTHED" /\ ~t.on /\ t.off = 0
  <2>1. Retried(t, s) = NewAuth(t)
    BY <1>7 DEF Retried
  <2>2. QED
    BY <2>1, NewAuthFits
<1>8. CASE t.status = "NOTAUTHED" /\ ~t.on /\ t.off # 0 /\ RetryDue(t, s)
  <2>1. Retried(t, s) = NewAuth(u)
    BY <1>5, <1>8 DEF Retried
  <2>2. QED
    BY <1>6, <1>8, <2>1, NewAuthFits
<1>9. CASE ~(t.status = "NOTAUTHED" /\ ~t.on /\ (t.off = 0 \/ RetryDue(t, s)))
  <2>1. Retried(t, s) = t
    BY <1>9 DEF Retried
  <2>2. QED
    BY <2>1
<1>10. QED
  BY <1>7, <1>8, <1>9

LEMMA SyncedFits ==
  ASSUME Counter, NEW t, NEW m \in Nat, Fit(t, m), NEW d \in Synced(t)
  PROVE  Fit(d, OLD)
<1>1. t.kind \in Kinds /\ OLD \in Nat
  BY Bounds DEF Fit, Agree, Timers
<1>2. CASE t.kind \in Packets
  <2>1. d \in PacketSync(t)
    BY <1>2 DEF Synced, Packets
  <2>2. QED
    BY <1>2, <2>1, PacketSyncFits
<1>3. CASE t.kind = "session"
  <2>1. d \in SessionSync(t)
    BY <1>3 DEF Synced, Packets
  <2> DEFINE u == AuthTimedOut(t)
  <2>2. PICK s \in Shifted(u.count) : d = Retried(u, s)
    BY <2>1 DEF SessionSync
  <2>3. Fit(u, OLD) /\ u.kind = "session"
    BY <1>3, AuthTimedOutFits
  <2> HIDE DEF u
  <2>4. QED
    BY <1>1, <2>2, <2>3, RetriedFits
<1>4. CASE t.kind = "keepalive"
  <2>1. d = KeepaliveSync(t)
    BY <1>4 DEF Synced, Packets
  <2>2. QED
    BY <1>4, <2>1, KeepaliveSyncFits
<1>5. QED
  BY <1>1, <1>2, <1>3, <1>4 DEF Kinds
-----------------------------------------------------------------------------
LEMMA Start == Init => IInv
<1> SUFFICES ASSUME Init PROVE IInv
  OBVIOUS
<1>1. PICK k \in Kinds : timer = NewTimer(k)
  BY DEF Init
<1>2. /\ timer.kind = k /\ timer.from = 0 /\ timer.next = 0 /\ timer.last = "new"
      /\ timer.off = 0 /\ timer.age = 0
  BY <1>1 DEF NewTimer
<1>3. now = 0 /\ wrapped = FALSE /\ RANGE \in Nat /\ RANGE > 4
  BY Settings DEF Init
<1> HIDE DEF RANGE
<1>4. Counter
  <2>1. 0 \in 0 .. RANGE - 1 /\ FALSE \in BOOLEAN
    BY <1>3
  <2>2. QED
    BY <1>3, <2>1 DEF Counter
<1>5. timer \in Timers
  BY <1>1, <1>4, NewTimerFits
<1>6. AgeIs(timer, now) /\ Within(timer, RANGE + 1)
  <2>1. 0 >= 0 /\ 0 - 0 = 0 /\ 2 * 0 <= RANGE + 1
    BY <1>3
  <2>2. QED
    BY <1>2, <1>3, <2>1 DEF AgeIs, Within
<1>7. Scheduled(timer, now) /\ Stamped(timer, now)
  BY <1>2, <1>3 DEF Scheduled, Stamped
<1>8. QED
  BY <1>4, <1>5, <1>6, <1>7 DEF IInv, Fit, Agree

LEMMA CycleKeeps ==
  ASSUME IInv, NEW n \in Steps, Cycle(n)
  PROVE  IInv'
<1>1. RANGE + 1 \in Nat /\ Counter /\ Fit(timer, RANGE + 1)
  BY Bounds DEF IInv
<1>2. PICK t \in Synced(timer) : timer' = Aged(t, n)
  BY DEF Cycle
<1>3. Fit(t, OLD)
  BY <1>1, SyncedFits
<1> DEFINE d == Aged(t, n)
           c == (now + n) % RANGE
           v == wrapped \/ now + n >= RANGE
<1>4. Agree(d, c, v) /\ Within(d, RANGE + 1) /\ c \in 0 .. RANGE - 1
  BY <1>1, <1>3, TimePasses DEF OLD
<1>5. timer' = d /\ now' = c /\ wrapped' = v
  BY <1>2 DEF Cycle
<1>6. v \in BOOLEAN
  BY <1>1 DEF Counter
<1> HIDE DEF d, c, v
<1>7. Agree(timer, now, wrapped)' /\ Within(timer, RANGE + 1)'
  BY <1>4, <1>5
<1>8. Counter'
  BY <1>4, <1>5, <1>6 DEF Counter
<1>9. QED
  BY <1>7, <1>8 DEF IInv, Fit

LEMMA InstantKeeps ==
  ASSUME IInv, NEW d, Fit(d, RANGE + 1), Instantly(d)
  PROVE  IInv'
<1>1. timer' = d /\ now' = now /\ wrapped' = wrapped
  BY DEF Instantly
<1>2. Agree(timer, now, wrapped)' /\ Within(timer, RANGE + 1)' /\ Counter'
  BY <1>1 DEF IInv, Fit, Counter
<1>3. QED
  BY <1>2 DEF IInv, Fit

LEMMA SessionAnswered ==
  ASSUME IInv, timer.kind = "session"
  PROVE  /\ Fit([NewTimer("session") EXCEPT !.on = FALSE, !.status = "AUTHED"], RANGE + 1)
         /\ Fit([Tried(Freed(timer)) EXCEPT !.off = now, !.status = "INIT",
                                            !.fails = Lesser(@ + 1, OFFLINE_TIMES),
                                            !.overrun = TRUE], RANGE + 1)
<1>1. RANGE + 1 \in Nat /\ Counter /\ Fit(timer, RANGE + 1)
  BY Bounds DEF IInv
<1>2. Fit([NewTimer("session") EXCEPT !.on = FALSE, !.status = "AUTHED"], RANGE + 1)
  <2> DEFINE t == NewTimer("session")
             d == [t EXCEPT !.on = FALSE, !.status = "AUTHED"]
  <2>1. t \in Timers /\ t.off = 0 /\ t.last = "new" /\ t.kind = "session"
    BY <1>1, NewTimerFits DEF Kinds, NewTimer
  <2> HIDE DEF t
  <2>2. /\ d.kind = "session" /\ ~d.on /\ d.off = 0 /\ d.last = "new" /\ d \in Timers
    BY <2>1 DEF Timers
  <2> HIDE DEF d
  <2>3. Fit(d, RANGE + 1)
    BY <2>2 DEF Fit, Agree, AgeIs, Within, Scheduled, Stamped
  <2>4. QED
    BY <2>3 DEF d, t
<1>3. Fit([Tried(Freed(timer)) EXCEPT !.off = now, !.status = "INIT",
                                      !.fails = Lesser(@ + 1, OFFLINE_TIMES),
                                      !.overrun = TRUE], RANGE + 1)
  <2> DEFINE t == Freed(timer)
             u == Tried(t)
             fails == Lesser(u.fails + 1, OFFLINE_TIMES)
             d == [u EXCEPT !.off = now, !.status = "INIT", !.fails = fails,
                            !.overrun = TRUE]
  <2>1. Fit(t, RANGE + 1)
    BY <1>1, FreedFits
  <2>2. t \in Timers /\ t.kind = "session" /\ ~t.on
    BY <1>1, <2>1 DEF Fit, Agree, Freed, Timers
  <2> HIDE DEF t
  <2>3. Counted(t.count) \in Nat
    BY <2>2, CountedType DEF Timers
  <2>4. u \in Timers /\ u.kind = "session" /\ ~u.on /\ u.away = 0 /\ u.last = t.last
    BY <2>2, <2>3 DEF Tried, Timers
  <2> HIDE DEF u
  <2>5. fails \in Nat /\ now \in 0 .. RANGE - 1
    BY <1>1, <2>4, Settings DEF Lesser, Timers, Counter
  <2> HIDE DEF fails
  <2>6. /\ d.kind = "session" /\ ~d.on /\ d.off = now /\ d.away = 0 /\ d.last = u.last
        /\ d.overrun
    BY <2>4 DEF Timers
  <2>7. d \in Timers
    BY <2>4, <2>5 DEF Timers
  <2> HIDE DEF d
  <2>8. ~wrapped => Scheduled(d, now)
    BY <2>1, <2>4, <2>6, <2>2 DEF Scheduled, Fit, Agree
  <2>9. Stamped(d, now)
    <3>1. now <= now /\ 0 = now - now
      BY <2>5, Settings
    <3>2. QED
      BY <2>6, <3>1 DEF Stamped
  <2>10. Fit(d, RANGE + 1)
    BY <2>6, <2>7, <2>8, <2>9 DEF Fit, Agree, AgeIs, Within
  <2>11. QED
    BY <2>10 DEF d, fails, u, t
<1>4. QED
  BY <1>2, <1>3

LEMMA PongKeeps ==
  ASSUME IInv, Pong
  PROVE  IInv'
<1> DEFINE t == Freed(timer)
           lost == IF t.status = "INIT" THEN "INIT" ELSE "NOTAUTHED"
<1>1. RANGE + 1 \in Nat /\ Counter /\ Fit(timer, RANGE + 1) /\ timer.kind = "keepalive"
  BY Bounds DEF IInv, Pong
<1>2. Fit(t, RANGE + 1) /\ t.kind = "keepalive"
  BY <1>1, FreedFits DEF Fit, Agree, Freed, Timers
<1>3. \/ \E w \in Intervals : Instantly(NextPing(t, w))
      \/ Instantly([NoPing(t) EXCEPT !.status = lost])
      \/ Instantly(NextPing(t, 0))
      \/ Instantly([t EXCEPT !.status = "NOTAUTHED"])
      \/ Instantly(t)
  BY DEF Pong
<1> HIDE DEF t
<1>4. \A w \in Intervals \cup {0} : w \in 0 .. RANGE - 1
  <2>1. RANGE \in Nat /\ RANGE > 4
        /\ \A w \in Intervals : w \in Nat /\ w > 0 /\ 4 * w < RANGE
    BY Settings
  <2> HIDE DEF RANGE
  <2>2. QED
    BY <2>1
<1>5. \A w \in Intervals \cup {0} : Fit(NextPing(t, w), RANGE + 1)
  BY <1>1, <1>2, <1>4, NextPingFits
<1>6. Fit([NoPing(t) EXCEPT !.status = lost], RANGE + 1)
  <2>1. Fit(NoPing(t), RANGE + 1)
    BY <1>1, <1>2, NoPingFits
  <2>2. lost \in {"INIT", "NOTAUTHED", "AUTHING", "AUTHED"}
    OBVIOUS
  <2> HIDE DEF lost
  <2>3. QED
    BY <1>1, <2>1, <2>2, StatusFits
<1>7. Fit([t EXCEPT !.status = "NOTAUTHED"], RANGE + 1)
  BY <1>1, <1>2, StatusFits
<1>8. QED
  BY <1>2, <1>3, <1>5, <1>6, <1>7, InstantKeeps

LEMMA EstablishedKeeps ==
  ASSUME IInv, Established
  PROVE  IInv'
<1>1. RANGE + 1 \in Nat /\ Counter /\ Fit(timer, RANGE + 1)
  BY Bounds DEF IInv
<1>2. CASE timer.kind = "session"
  BY <1>2, SessionAnswered, InstantKeeps DEF Established
<1>3. CASE timer.kind # "session"
  <2> DEFINE t == [timer EXCEPT !.status = "AUTHED"]
  <2>1. Fit(t, RANGE + 1) /\ t.kind = timer.kind
    BY <1>1, StatusFits DEF Fit, Agree, Timers
  <2>2. \/ timer.kind = "request" /\ Instantly(Requeued(t))
        \/ timer.kind = "observer" /\ Instantly(Relisted(t))
        \/ Instantly(t)
    BY <1>3 DEF Established
  <2> HIDE DEF t
  <2>3. t.kind = "request" => Fit(Requeued(t), RANGE + 1)
    BY <1>1, <2>1, RequeuedFits DEF Packets
  <2>4. t.kind = "observer" => Fit(Relisted(t), RANGE + 1)
    BY <1>1, <2>1, RelistedFits DEF Packets
  <2>5. QED
    BY <2>1, <2>2, <2>3, <2>4, InstantKeeps
<1>4. QED
  BY <1>2, <1>3

LEMMA Step == IInv /\ [Next]_vars => IInv'
<1> SUFFICES ASSUME IInv, [Next]_vars PROVE IInv'
  OBVIOUS
<1>0. RANGE + 1 \in Nat /\ Counter /\ Fit(timer, RANGE + 1)
  BY Bounds DEF IInv
<1>1. ASSUME NEW n \in Steps, Cycle(n)
      PROVE  IInv'
  BY <1>1, CycleKeeps
<1>2. CASE Send
  <2> DEFINE t == Registered(timer)
  <2>1. Fit(t, RANGE + 1) /\ t.kind = timer.kind /\ timer.kind \in Packets
    BY <1>0, <1>2, RegisteredFits DEF Send, Registered, Fit, Agree, Timers
  <2>2. Instantly(t) \/ \E d \in Sent(t) : Instantly(d)
    BY <1>2 DEF Send
  <2> HIDE DEF t
  <2>3. \A d \in Sent(t) : Fit(d, RANGE + 1)
    BY <1>0, <2>1, SentFits
  <2>4. QED
    BY <2>1, <2>2, <2>3, InstantKeeps
<1>3. CASE Answer
  <2>1. Fit(Gone(timer), RANGE + 1)
    BY <1>0, <1>3, GoneFits DEF Answer, Packets
  <2>2. QED
    BY <1>3, <2>1, InstantKeeps DEF Answer
<1>4. CASE Notified
  BY <1>0, <1>4, NotifiedFits, InstantKeeps DEF Notified
<1>5. CASE Pong
  BY <1>5, PongKeeps
<1>6. CASE Established
  BY <1>6, EstablishedKeeps
<1>7. CASE Refused
  <2>1. Fit([timer EXCEPT !.status = "INIT"], RANGE + 1)
    BY <1>0, StatusFits
  <2>2. Fit([Freed(timer) EXCEPT !.status = "INIT"], RANGE + 1)
    BY <1>0, FreedFits, StatusFits
  <2>3. QED
    BY <1>7, <2>1, <2>2, InstantKeeps DEF Refused
<1>8. CASE Overrun
  BY <1>8, SessionAnswered, InstantKeeps DEF Overrun
<1>9. CASE Denied
  <2>1. Fit([Freed(timer) EXCEPT !.status = "NOTAUTHED"], RANGE + 1)
    BY <1>0, FreedFits, StatusFits
  <2>2. QED
    BY <1>9, <2>1, InstantKeeps DEF Denied
<1>10. CASE Lost
  <2>1. Fit([timer EXCEPT !.status = "NOTAUTHED"], RANGE + 1)
    BY <1>0, StatusFits
  <2>2. QED
    BY <1>10, <2>1, InstantKeeps DEF Lost
<1>11. CASE Auth
  BY <1>0, <1>11, NewAuthFits, InstantKeeps DEF Auth
<1>12. CASE UNCHANGED vars
  <2>1. Instantly(timer)
    BY <1>12 DEF vars, Instantly
  <2>2. QED
    BY <1>0, <2>1, InstantKeeps
<1>13. QED
  BY <1>1, <1>2, <1>3, <1>4, <1>5, <1>6, <1>7, <1>8, <1>9, <1>10, <1>11, <1>12 DEF Next

\* The history agrees with the counter, whatever trySync and the answers do, as the
\* session is lost and established again.
THEOREM Invariance == Spec => []IInv
<1>1. QED
  BY Start, Step, PTL DEF Spec

\* _wilddog_conn_isTimeout tells the age of a packet across the wrap of the
\* counter, one unit late at most.
THEOREM TimeoutIsAge == Spec => []TimeoutAgrees
<1>1. IInv => TimeoutAgrees
  BY AgeTold DEF TimeoutAgrees, IInv
<1>2. QED
  BY <1>1, Invariance, PTL

LEMMA WaitType ==
  ASSUME NEW t \in Timers
  PROVE  Wait(t) \in 0 .. RANGE - 1
<1>1. t.wait \in 0 .. RANGE - 1 /\ t.count \in Nat
  BY DEF Timers
<1>2. Interval(Bit[t.count]) \in 0 .. RANGE - 1
  BY <1>1, Doubling, IntervalType
<1>3. QED
  BY <1>1, <1>2 DEF Wait

\* Before the counter wraps, _wilddog_conn_retransmitPkt and _wilddog_conn_pingHandler
\* send at the time that the last send, answer or session set.
THEOREM DueOnTime == Spec => []DueAgrees
<1>1. ASSUME IInv PROVE DueAgrees
  <2> DEFINE wait == Wait(timer)
  <2>1. /\ timer \in Timers /\ timer.kind \in Kinds /\ timer.since \in Nat
        /\ timer.next \in 0 .. RANGE - 1 /\ timer.last \in {"new", "sent", "acked"}
        /\ now \in 0 .. RANGE - 1 /\ RANGE \in Nat /\ wait \in 0 .. RANGE - 1
        /\ ~wrapped => Scheduled(timer, now)
    BY <1>1, Settings, WaitType DEF IInv, Fit, Agree, Counter, Timers
  <2> HIDE DEF wait
  <2> SUFFICES ASSUME ~wrapped, timer.count < SHIFT, now - timer.since + wait < RANGE
               PROVE  /\ timer.kind \in Packets /\ timer.on =>
                           (SendDue(timer) <=>
                              \/ timer.last = "new"
                              \/ timer.last = "sent" /\ timer.since >= wait
                              \/ timer.last = "acked" /\ now >= FAR)
                      /\ timer.kind = "keepalive" /\ timer.next # 0 =>
                           (PingDue(timer) <=> timer.since > wait)
    BY DEF DueAgrees, wait
  <2>2. Scheduled(timer, now)
    BY <2>1
  <2>3. ASSUME timer.last = "sent", timer.kind # "session"
        PROVE  timer.since <= now /\ timer.next = now - timer.since + wait
    <3>1. timer.since <= now /\ timer.next = (now - timer.since + wait) % RANGE
      BY <2>2, <2>3 DEF Scheduled, wait
    <3> HIDE DEF RANGE
    <3>2. PICK x \in Int : x = now - timer.since + wait
      BY <2>1
    <3>3. 0 <= x /\ x < RANGE
      BY <2>1, <3>1, <3>2
    <3>4. x % RANGE = x
      BY <3>3, Remainder
    <3>5. QED
      BY <3>1, <3>2, <3>4
  <2>4. ASSUME timer.kind \in Packets
        PROVE  SendDue(timer) <=> \/ timer.last = "new"
                                  \/ timer.last = "sent" /\ timer.since >= wait
                                  \/ timer.last = "acked" /\ now >= FAR
    <3>1. timer.kind # "session"
      BY <2>4 DEF Packets
    <3>2. CASE timer.last = "new"
      BY <2>2, <3>1, <3>2 DEF Scheduled, SendDue
    <3>3. CASE timer.last = "sent"
      <4>1. now >= timer.next <=> timer.since >= wait
        BY <2>1, <2>3, <3>1, <3>3
      <4>2. QED
        BY <3>3, <4>1 DEF SendDue
    <3>4. CASE timer.last = "acked"
      BY <2>2, <3>4 DEF Scheduled, SendDue
    <3>5. QED
      BY <2>1, <3>2, <3>3, <3>4
  <2>5. ASSUME timer.kind = "keepalive", timer.next # 0
        PROVE  PingDue(timer) <=> timer.since > wait
    <3>1. timer.last = "sent"
      BY <2>1, <2>2, <2>5 DEF Scheduled
    <3>2. timer.next < now <=> timer.since > wait
      BY <2>1, <2>3, <2>5, <3>1
    <3>3. QED
      BY <2>5, <3>2 DEF PingDue
  <2>6. QED
    BY <2>4, <2>5
<1>2. QED
  BY <1>1, Invariance, PTL

\* The unsigned comparison of _wilddog_conn_sessionRetry works before the counter
\* wraps, as its comment says: no subtraction in it goes below zero.
THEOREM RetryOnTime == Spec => []RetryAgrees
<1>1. ASSUME IInv PROVE RetryAgrees
  <2> SUFFICES ASSUME timer.off # 0, ~wrapped, ~timer.overrun, timer.count < SHIFT
               PROVE  RetryDue(timer, Bit[timer.count])
                        <=> timer.away >= Lesser(Bit[timer.count], RETRY_MAX)
    BY DEF RetryAgrees
  <2> DEFINE wait == Lesser(Bit[timer.count], RETRY_MAX)
  <2>1. /\ now \in 0 .. RANGE - 1 /\ RANGE \in Nat /\ timer.off \in 0 .. RANGE - 1
        /\ timer.count \in Nat /\ RETRY_MAX \in Nat
        /\ timer.off <= now /\ timer.away = now - timer.off /\ timer.off >= wait
    BY <1>1, Settings DEF IInv, Fit, Agree, Stamped, Counter, Timers
  <2>2. wait \in Nat
    BY <2>1, Doubling DEF Lesser
  <2>3. RetryDue(timer, Bit[timer.count]) <=> ~((now - wait) % RANGE < timer.off)
    BY DEF RetryDue
  <2> HIDE DEF RANGE, wait
  <2>4. PICK x \in Int : x = now - wait
    BY <2>1, <2>2
  <2>5. x % RANGE = x
    <3>1. 0 <= x /\ x < RANGE
      BY <2>1, <2>2, <2>4
    <3>2. QED
      BY <3>1, Remainder
  <2>6. RetryDue(timer, Bit[timer.count]) <=> timer.away >= wait
    BY <2>1, <2>2, <2>3, <2>4, <2>5
  <2>7. QED
    BY <2>6 DEF wait
<1>2. QED
  BY <1>1, Invariance, PTL
=============================================================================
