-------------------------- MODULE RateControlProofs --------------------------
(***************************************************************************)
(* Theorems about RateControl, for any number of workers, any rates and    *)
(* any interleaving.                                                       *)
(***************************************************************************)
EXTENDS RateControl, TLAPS

(* Arithmetic.                                                             *)

\* What Most and Least return, and how they bound it.
LEMMA MostLeast ==
    ASSUME NEW a \in Int, NEW b \in Int
    PROVE  /\ Most(a, b) \in Int /\ Most(a, b) >= a /\ Most(a, b) >= b
           /\ Least(a, b) \in Int /\ Least(a, b) <= a /\ Least(a, b) <= b
           /\ Most(a, b) \in {a, b} /\ Least(a, b) \in {a, b}
BY DEF Most, Least

\* The parameters are natural numbers.
LEMMA ConstantTypes ==
    TopRate \in Nat /\ Burst \in Nat /\ Weight \in Nat /\ TTL \in Nat
BY RatesAssumption, ExpiryAssumption DEF TopRate, Most

\* The rate of a refill is positive and never above the fastest.
LEMMA EffectiveBound ==
    ASSUME NEW rate \in Int
    PROVE  /\ Effective(rate) \in Nat /\ Effective(rate) > 0
           /\ Effective(rate) <= TopRate
BY RatesAssumption DEF Effective, TopRate, Most, Least

\* Products of naturals grow with either factor.
LEMMA ProductMonotone ==
    ASSUME NEW d \in Nat, NEW e \in Nat, NEW c \in Nat, e <= c
    PROVE  d * e \in Nat /\ d * e <= d * c
<1>1. PICK k \in Nat : c = e + k
  <2>1. c - e \in Nat /\ c = e + (c - e)
    OBVIOUS
  <2> QED  BY <2>1
<1>2. d * c = d * e + d * k
  BY <1>1
<1>3. d * e \in Nat /\ d * k \in Nat
  BY <1>1
<1> QED  BY <1>2, <1>3

\* The bookkeeping of one script: n sends leave f - n * w of the f tokens a
\* refill made, at an instant t that lies up after m or down before it.
LEMMA ChargeArithmetic ==
    ASSUME NEW g \in Nat, NEW s \in Nat, NEW m \in Nat, NEW tok \in Nat,
           NEW f \in Nat, NEW t \in Nat, NEW up \in Nat, NEW down \in Nat,
           NEW top \in Nat, NEW w \in Nat, NEW b \in Nat, NEW n \in Nat,
           t + down = m + up,
           g * w + tok <= b + top * (m + s),
           f <= tok + top * up
    PROVE  (g + n) * w + (f - n * w) <= b + top * (t + (s + down))
<1>1. (g + n) * w + (f - n * w) = g * w + f
  OBVIOUS
<1>2. t + (s + down) = (m + s) + up
  OBVIOUS
<1>3. top * ((m + s) + up) = top * (m + s) + top * up
  OBVIOUS
<1>4. g * w \in Nat /\ top * (m + s) \in Nat /\ top * up \in Nat
  OBVIOUS
<1> QED  BY <1>1, <1>2, <1>3, <1>4

\* The wait a denial is told is a number of ticks.
LEMMA WaitType ==
    ASSUME NEW missing \in Nat, NEW rate \in Nat, rate > 0
    PROVE  Wait(missing, rate) \in Nat
BY DEF Wait

-----------------------------------------------------------------------------
(* Type correctness.                                                       *)

\* What a refill leaves.
LEMMA RefilledType ==
    ASSUME NEW b \in Bucket, NEW t \in Nat
    PROVE  Refilled(b, t) \in Nat
<1>1. CASE b.last = NoTime
  BY <1>1 DEF Refilled, Bucket
<1>2. CASE b.last # NoTime
  <2>1. Most(t - b.last, 0) \in Nat
    BY <1>2 DEF Most, Bucket
  <2>2. Most(t - b.last, 0) * Effective(b.rate) \in Nat
    BY <2>1, EffectiveBound DEF Bucket
  <2>3. b.tokens + Most(t - b.last, 0) * Effective(b.rate) \in Nat
    BY <2>2 DEF Bucket
  <2> QED  BY <1>2, <2>3, ConstantTypes DEF Refilled, Least
<1> QED  BY <1>1, <1>2

\* The length of a backoff.
LEMMA ExponentialType ==
    ASSUME NEW level \in Nat
    PROVE  Exponential(level) \in Int
<1>1. Most(level - 1, 0) \in Nat
  BY DEF Most
<1>2. 2 ^ Most(level - 1, 0) \in Int
  BY <1>1, SMT
<1> QED  BY <1>2, TimesAssumption DEF Exponential, Least

\* What a report writes.
LEMMA ReportTypes ==
    ASSUME NEW seen \in Bucket, NEW outcome, NEW retry \in Nat, NEW t \in Nat
    PROVE  /\ Effective(NewRate(seen.rate, outcome)) \in Nat
           /\ NewLevel(seen.level, outcome) \in Nat
           /\ NewUntil(seen, outcome, retry, t) \in Nat
<1>1. NewRate(seen.rate, outcome) \in Int
  BY RatesAssumption DEF NewRate, Most, Least, Bucket
<1>2. NewLevel(seen.level, outcome) \in Nat
  BY TimesAssumption DEF NewLevel, Most, Least, Bucket
<1>3. Exponential(NewLevel(seen.level, outcome)) \in Int
  BY <1>2, ExponentialType
<1>4. NewUntil(seen, outcome, retry, t) \in Nat
  BY <1>3, TimesAssumption DEF NewUntil, Most, Bucket
<1> QED  BY <1>1, <1>2, <1>4, EffectiveBound

\* The initial values have their types.
LEMMA InitTypeOK == Init => TypeOK
BY RatesAssumption DEF Init, TypeOK, Bucket, FreshBucket, Worker, Idle, Ledger

\* The defaults of the hash, and an idle worker, have their types.
LEMMA FreshTypes == FreshBucket \in Bucket /\ Idle \in Worker
BY RatesAssumption DEF Bucket, FreshBucket, Worker, Idle

\* Every step keeps the types.
LEMMA NextTypeOK == TypeOK /\ [Next]_vars => TypeOK'
<1> SUFFICES ASSUME TypeOK, [Next]_vars  PROVE TypeOK'
  OBVIOUS
<1>1. ASSUME NEW t \in Nat, NEW n \in {0, 1}, Recount(t, n)
      PROVE  ledger' \in Ledger
  <2>1. ledger \in Ledger /\ Most(ledger.mark - t, 0) \in Nat
    BY DEF TypeOK, Ledger, Most
  <2>2. /\ ledger.granted + n \in Nat
        /\ ledger.slipped + Most(ledger.mark - t, 0) \in Nat
    BY <2>1 DEF Ledger
  <2> QED  BY <1>1, <2>1, <2>2 DEF Recount, Ledger
<1>w. ASSUME NEW w \in Workers, NEW q \in Worker, Becomes(w, q)
      PROVE  worker' \in [Workers -> Worker]
  BY <1>w DEF Becomes, TypeOK
<1>q. \A w \in Workers : worker[w] \in Worker
  BY DEF TypeOK
<1>2. ASSUME NEW w \in Workers, ReserveGranted(w)  PROVE TypeOK'
  <2>1. /\ worker[w].stamp \in Nat /\ bucket \in Bucket
        /\ Refilled(bucket, worker[w].stamp) - Weight \in Nat
    BY <1>2, <1>q, RefilledType, ConstantTypes DEF ReserveGranted, TypeOK, Worker
  <2>2. ledger' \in Ledger
    BY <1>1, <1>2, <2>1 DEF ReserveGranted
  <2>3. [worker[w] EXCEPT !.pc = "sending"] \in Worker
    BY <1>q DEF Worker
  <2>4. worker' \in [Workers -> Worker]
    BY <1>2, <1>w, <2>3 DEF ReserveGranted
  <2>5. bucket' \in Bucket
    BY <1>2, <2>1 DEF ReserveGranted, Bucket
  <2> QED  BY <1>2, <2>2, <2>4, <2>5 DEF ReserveGranted, TypeOK
<1>3. ASSUME NEW w \in Workers, ReserveShort(w)  PROVE TypeOK'
  <2> DEFINE missing == Weight - Refilled(bucket, worker[w].stamp)
             wait == Wait(missing, Effective(bucket.rate))
  <2>1. /\ worker[w].stamp \in Nat /\ bucket \in Bucket
        /\ Refilled(bucket, worker[w].stamp) \in Nat /\ missing \in Nat
    BY <1>3, <1>q, RefilledType, ConstantTypes DEF ReserveShort, TypeOK, Worker
  <2>2. wait \in Nat
    BY <2>1, EffectiveBound, WaitType DEF Bucket
  <2>3. ledger' \in Ledger
    BY <1>1, <1>3, <2>1 DEF ReserveShort
  <2>4. [worker[w] EXCEPT !.pc = "denied", !.retry = wait] \in Worker
    <3> HIDE DEF wait
    <3> QED  BY <1>q, <2>2 DEF Worker
  <2>5. worker' \in [Workers -> Worker]
    BY <1>3, <1>w, <2>4 DEF ReserveShort
  <2>6. bucket' \in Bucket
    BY <1>3, <2>1 DEF ReserveShort, Bucket
  <2> QED  BY <1>3, <2>3, <2>5, <2>6 DEF ReserveShort, TypeOK
<1>4. ASSUME NEW w \in Workers, ReserveBackedOff(w)  PROVE TypeOK'
  <2> DEFINE retry == bucket.until - worker[w].stamp
  <2>1. retry \in Nat
    BY <1>4, <1>q DEF ReserveBackedOff, BackedOff, TypeOK, Bucket, Worker
  <2>2. [worker[w] EXCEPT !.pc = "denied", !.retry = retry] \in Worker
    BY <1>q, <2>1 DEF Worker
  <2>3. worker' \in [Workers -> Worker]
    BY <1>4, <1>w, <2>2 DEF ReserveBackedOff
  <2> QED  BY <1>4, <2>3 DEF ReserveBackedOff, TypeOK
<1>5. ASSUME NEW w \in Workers, ReportWrite(w)  PROVE TypeOK'
  <2> DEFINE q == worker[w]
             until == NewUntil(q.seen, q.outcome, q.retry, q.stamp)
  <2>1. /\ Effective(NewRate(q.seen.rate, q.outcome)) \in Nat
        /\ NewLevel(q.seen.level, q.outcome) \in Nat
        /\ until \in Nat
    BY <1>q, ReportTypes DEF Worker
  <2>2. bucket' \in Bucket
    BY <1>5, <2>1 DEF ReportWrite, TypeOK, Bucket
  <2>3. ledger' \in Ledger
    BY <1>5, <2>1 DEF ReportWrite, TypeOK, Ledger, Most
  <2>4. worker' \in [Workers -> Worker]
    BY <1>5, <1>w, FreshTypes DEF ReportWrite
  <2> QED  BY <1>5, <2>2, <2>3, <2>4 DEF ReportWrite, TypeOK
<1>6. ASSUME NEW w \in Workers, ReportRead(w)  PROVE TypeOK'
  <2>1. [worker[w] EXCEPT !.pc = "read", !.seen = bucket] \in Worker
    BY <1>q DEF TypeOK, Worker
  <2>2. worker' \in [Workers -> Worker]
    BY <1>6, <1>w, <2>1 DEF ReportRead
  <2> QED  BY <1>6, <2>2 DEF ReportRead, TypeOK
<1>7. ASSUME NEW w \in Workers,
             Begin(w) \/ ReserveOpen(w) \/ ReportDenial(w)
      PROVE  TypeOK'
  <2>1. /\ [worker[w] EXCEPT !.pc = "stamped", !.stamp = now] \in Worker
        /\ [worker[w] EXCEPT !.pc = "sending"] \in Worker
        /\ [worker[w] EXCEPT !.pc = "answered", !.stamp = now,
                             !.outcome = "rate_limited"] \in Worker
    BY <1>q DEF TypeOK, Worker, Outcomes
  <2>2. worker' \in [Workers -> Worker]
    BY <1>7, <1>w, <2>1 DEF Begin, ReserveOpen, ReportDenial
  <2> QED  BY <1>7, <2>2 DEF Begin, ReserveOpen, ReportDenial, TypeOK
<1>8. ASSUME NEW w \in Workers, Answer(w)  PROVE TypeOK'
  <2>1. \A outcome \in Outcomes, retry \in RetryAfters \cup {0} :
          [worker[w] EXCEPT !.pc = "answered", !.stamp = now,
                            !.outcome = outcome, !.retry = retry] \in Worker
    <3> SUFFICES ASSUME NEW outcome \in Outcomes,
                        NEW retry \in RetryAfters \cup {0}
                 PROVE  [worker[w] EXCEPT !.pc = "answered", !.stamp = now,
                           !.outcome = outcome, !.retry = retry] \in Worker
      OBVIOUS
    <3>1. retry \in Nat
      BY TimesAssumption
    <3> QED  BY <1>q, <3>1 DEF TypeOK, Worker
  <2>2. worker' \in [Workers -> Worker]
    BY <1>8, <1>w, <2>1 DEF Answer
  <2> QED  BY <1>8, <2>2 DEF Answer, TypeOK
<1>9. ASSUME NEW w \in Workers, ReportLost(w)  PROVE TypeOK'
  BY <1>9, <1>w, FreshTypes DEF ReportLost, TypeOK
<1>10. CASE Expire
  BY <1>10, FreshTypes DEF Expire, TypeOK, Ledger
<1>11. CASE Tick
  BY <1>11 DEF Tick, TypeOK
<1>12. CASE UNCHANGED vars
  BY <1>12 DEF vars, TypeOK
<1> QED
  BY <1>2, <1>3, <1>4, <1>5, <1>6, <1>7, <1>8, <1>9, <1>10, <1>11, <1>12
     DEF Next

\* The variables of RateControl have their declared types in every
\* reachable state; the level and the end of a backoff never turn negative.
THEOREM TypeCorrect == Spec => []TypeOK
BY InitTypeOK, NextTypeOK, PTL DEF Spec

-----------------------------------------------------------------------------
(* What the bucket grants is paid for.                                     *)

\* The inductive invariant: the bucket never holds more than a burst, the
\* instant it refills from is the ledger's mark, and no clock reading lies
\* in the future.
Accounts ==
    /\ touched <= now /\ ledger.mark <= touched
    /\ bucket.tokens <= Burst
    /\ bucket.last \in {NoTime, ledger.mark}
    /\ \A w \in Workers : worker[w].stamp <= now
    /\ GrantsArePaid

\* A refill at instant t leaves at most a burst, and adds no more than the
\* fastest rate would have added since the mark.
LEMMA RefillBound ==
    ASSUME TypeOK, Accounts, NEW t \in Nat
    PROVE  /\ Refilled(bucket, t) <= Burst
           /\ Refilled(bucket, t)
                <= bucket.tokens + TopRate * Most(t - ledger.mark, 0)
<1> DEFINE d == Most(t - ledger.mark, 0)
           e == Effective(bucket.rate)
<1>1. /\ d \in Nat /\ e \in Nat /\ e <= TopRate /\ TopRate \in Nat
      /\ Burst \in Nat /\ bucket.tokens \in Nat /\ bucket.tokens <= Burst
  BY EffectiveBound, ConstantTypes DEF Accounts, TypeOK, Bucket, Ledger, Most
<1>2. d * e \in Nat /\ d * e <= TopRate * d
  <2>1. d * e \in Nat /\ d * e <= d * TopRate
    BY <1>1, ProductMonotone
  <2>2. d * TopRate = TopRate * d
    BY <1>1
  <2> QED  BY <2>1, <2>2
<1>3. CASE bucket.last = NoTime
  BY <1>1, <1>2, <1>3 DEF Refilled
<1>4. CASE bucket.last = ledger.mark /\ bucket.last # NoTime
  <2>1. Refilled(bucket, t) = Least(Burst, bucket.tokens + d * e)
    BY <1>4 DEF Refilled
  <2>2. bucket.tokens + d * e \in Nat
    BY <1>1, <1>2
  <2>3. /\ Refilled(bucket, t) <= Burst
        /\ Refilled(bucket, t) <= bucket.tokens + d * e
    BY <1>1, <2>1, <2>2 DEF Least
  <2>4. TopRate * d \in Nat /\ Refilled(bucket, t) \in Nat
    BY <1>1, RefilledType DEF TypeOK
  <2> QED  BY <1>1, <1>2, <2>3, <2>4
<1> QED  BY <1>3, <1>4 DEF Accounts

\* The script charges the sends it grants, whichever way the clock goes.
LEMMA RecountBound ==
    ASSUME TypeOK, Accounts, NEW t \in Nat, NEW n \in {0, 1}, Recount(t, n),
           bucket'.tokens = Refilled(bucket, t) - n * Weight
    PROVE  GrantsArePaid' /\ ledger'.mark = t
<1> DEFINE g == ledger.granted
           s == ledger.slipped
           m == ledger.mark
           tok == bucket.tokens
           f == Refilled(bucket, t)
           up == Most(t - m, 0)
           down == Most(m - t, 0)
<1>1. /\ g \in Nat /\ s \in Nat /\ m \in Nat /\ tok \in Nat /\ f \in Nat
      /\ up \in Nat /\ down \in Nat /\ t + down = m + up
      /\ TopRate \in Nat /\ Weight \in Nat /\ Burst \in Nat /\ n \in Nat
  BY RefilledType, ConstantTypes DEF TypeOK, Bucket, Ledger, Most
<1>2. /\ ledger'.granted = g + n /\ ledger'.slipped = s + down
      /\ ledger'.mark = t
  BY DEF Recount, TypeOK, Ledger
<1>3. g * Weight + tok <= Burst + TopRate * (m + s)
  BY DEF Accounts, GrantsArePaid
<1>4. f <= tok + TopRate * up
  BY RefillBound
<1>5. (g + n) * Weight + (f - n * Weight)
        <= Burst + TopRate * (t + (s + down))
  BY <1>1, <1>3, <1>4, ChargeArithmetic
<1> QED  BY <1>2, <1>5 DEF GrantsArePaid

\* A full bucket has granted nothing.
LEMMA InitAccounts == Init => Accounts
BY ConstantTypes DEF Init, Accounts, GrantsArePaid, FreshBucket, Idle

\* A hash that expires was due to be full.
LEMMA ExpireAccounts ==
    ASSUME TypeOK, Accounts, Expire
    PROVE  GrantsArePaid'
<1> DEFINE g == ledger.granted * Weight
           s == ledger.slipped
           m == ledger.mark
           later == now - (m + TTL)
<1>1. /\ g \in Nat /\ s \in Nat /\ m \in Nat /\ bucket.tokens \in Nat
      /\ TopRate \in Nat /\ Burst \in Nat /\ TTL \in Nat /\ now \in Nat
  BY ConstantTypes DEF TypeOK, Bucket, Ledger
<1>2. later \in Nat
  BY <1>1 DEF Expire, Accounts, TypeOK
<1>3. g + bucket.tokens <= Burst + TopRate * (m + s)
  BY DEF Accounts, GrantsArePaid
<1>4. TopRate * (now + s)
        = TopRate * (m + s) + TopRate * TTL + TopRate * later
  <2>1. now + s = (m + s) + TTL + later
    BY <1>1, <1>2
  <2>2. TopRate * ((m + s) + TTL + later)
          = TopRate * (m + s) + TopRate * TTL + TopRate * later
    BY <1>1, <1>2
  <2> QED  BY <2>1, <2>2
<1>5. /\ TopRate * later \in Nat /\ TopRate * (m + s) \in Nat
      /\ TopRate * TTL \in Nat /\ TopRate * TTL >= Burst
  BY <1>1, <1>2, ExpiryAssumption
<1>6. g + Burst <= Burst + TopRate * (now + s)
  BY <1>1, <1>3, <1>4, <1>5
<1>7. /\ bucket'.tokens = Burst /\ ledger'.granted = ledger.granted
      /\ ledger'.mark = now /\ ledger'.slipped = s
  BY DEF Expire, FreshBucket, TypeOK, Ledger
<1> QED  BY <1>6, <1>7 DEF GrantsArePaid

\* Every step keeps the account of what was granted.
LEMMA NextAccounts ==
    ASSUME TypeOK, Accounts, [Next]_vars
    PROVE  Accounts'
<1>0. /\ now \in Nat /\ touched \in Nat /\ ledger \in Ledger /\ bucket \in Bucket
      /\ \A w \in Workers : worker[w].stamp \in Nat /\ worker[w] \in Worker
  BY DEF TypeOK, Worker
<1>1. ASSUME NEW w \in Workers, ReserveGranted(w)  PROVE Accounts'
  <2> DEFINE t == worker[w].stamp
  <2>1. /\ bucket'.tokens = Refilled(bucket, t) - 1 * Weight /\ bucket'.last = t
        /\ Recount(t, 1) /\ now' = now /\ touched' = now
        /\ \A v \in Workers : worker'[v].stamp = worker[v].stamp
    BY <1>0, <1>1, ConstantTypes, RefilledType DEF ReserveGranted, Becomes, TypeOK, Bucket, Worker
  <2>2. GrantsArePaid' /\ ledger'.mark = t
    BY <1>0, <2>1, RecountBound
  <2>3. bucket'.tokens <= Burst
    BY <1>0, <2>1, RefillBound, RefilledType, ConstantTypes
  <2> QED  BY <1>0, <2>1, <2>2, <2>3 DEF Accounts
<1>2. ASSUME NEW w \in Workers, ReserveShort(w)  PROVE Accounts'
  <2> DEFINE t == worker[w].stamp
  <2>1. /\ bucket'.tokens = Refilled(bucket, t) - 0 * Weight /\ bucket'.last = t
        /\ Recount(t, 0) /\ now' = now /\ touched' = now
        /\ \A v \in Workers : worker'[v].stamp = worker[v].stamp
    BY <1>0, <1>2, ConstantTypes, RefilledType DEF ReserveShort, Becomes, TypeOK, Bucket, Worker
  <2>2. GrantsArePaid' /\ ledger'.mark = t
    BY <1>0, <2>1, RecountBound
  <2>3. bucket'.tokens <= Burst
    BY <1>0, <2>1, RefillBound, RefilledType, ConstantTypes
  <2> QED  BY <1>0, <2>1, <2>2, <2>3 DEF Accounts
<1>3. ASSUME bucket'.tokens = bucket.tokens, bucket'.last = bucket.last,
             ledger'.granted = ledger.granted, ledger'.mark = ledger.mark,
             ledger'.slipped = ledger.slipped, now' \in Nat, now <= now',
             touched' \in {touched, now},
             \A v \in Workers : worker'[v].stamp \in {worker[v].stamp, 0, now}
      PROVE  Accounts'
  BY <1>0, <1>3 DEF Accounts, GrantsArePaid, Ledger
<1>4. ASSUME NEW w \in Workers,
             Begin(w) \/ ReserveBackedOff(w) \/ ReserveOpen(w)
               \/ ReportDenial(w) \/ Answer(w) \/ ReportRead(w) \/ ReportLost(w)
      PROVE  Accounts'
  <2>1. /\ bucket' = bucket /\ ledger' = ledger /\ now' = now
        /\ touched' \in {touched, now}
    BY <1>4 DEF Begin, ReserveBackedOff, ReserveOpen, ReportDenial, Answer,
                ReportRead, ReportLost
  <2>2. ASSUME NEW q, Becomes(w, q), q.stamp \in {worker[w].stamp, 0, now}
        PROVE  Accounts'
    <3>1. \A v \in Workers : worker'[v].stamp \in {worker[v].stamp, 0, now}
      BY <2>2 DEF Becomes, TypeOK
    <3> QED  BY <1>0, <1>3, <2>1, <3>1
  <2>3. CASE Begin(w)
    <3>1. [worker[w] EXCEPT !.pc = "stamped", !.stamp = now].stamp = now
      BY <1>0 DEF Worker
    <3> QED  BY <2>2, <2>3, <3>1 DEF Begin
  <2>4. CASE ReserveBackedOff(w)
    <3>1. [worker[w] EXCEPT !.pc = "denied",
             !.retry = bucket.until - worker[w].stamp].stamp = worker[w].stamp
      BY <1>0 DEF Worker
    <3> QED  BY <2>2, <2>4, <3>1 DEF ReserveBackedOff
  <2>5. CASE ReserveOpen(w)
    <3>1. [worker[w] EXCEPT !.pc = "sending"].stamp = worker[w].stamp
      BY <1>0 DEF Worker
    <3> QED  BY <2>2, <2>5, <3>1 DEF ReserveOpen
  <2>6. CASE ReportDenial(w)
    <3>1. [worker[w] EXCEPT !.pc = "answered", !.stamp = now,
             !.outcome = "rate_limited"].stamp = now
      BY <1>0 DEF Worker
    <3> QED  BY <2>2, <2>6, <3>1 DEF ReportDenial
  <2>7. CASE Answer(w)
    <3>1. \A outcome, retry :
            [worker[w] EXCEPT !.pc = "answered", !.stamp = now,
               !.outcome = outcome, !.retry = retry].stamp = now
      BY <1>0 DEF Worker
    <3> QED  BY <2>2, <2>7, <3>1 DEF Answer
  <2>8. CASE ReportRead(w)
    <3>1. [worker[w] EXCEPT !.pc = "read", !.seen = bucket].stamp
            = worker[w].stamp
      BY <1>0 DEF Worker
    <3> QED  BY <2>2, <2>8, <3>1 DEF ReportRead
  <2>9. CASE ReportLost(w)
    BY <2>2, <2>9 DEF ReportLost, Idle
  <2> QED  BY <1>4, <2>3, <2>4, <2>5, <2>6, <2>7, <2>8, <2>9
<1>5. ASSUME NEW w \in Workers, ReportWrite(w)  PROVE Accounts'
  <2>1. /\ bucket'.tokens = bucket.tokens /\ bucket'.last = bucket.last
        /\ ledger'.granted = ledger.granted /\ ledger'.mark = ledger.mark
        /\ ledger'.slipped = ledger.slipped /\ now' = now /\ touched' = now
    BY <1>0, <1>5 DEF ReportWrite, Bucket, Ledger
  <2>2. \A v \in Workers : worker'[v].stamp \in {worker[v].stamp, 0, now}
    BY <1>5 DEF ReportWrite, Becomes, TypeOK, Idle
  <2> QED  BY <1>0, <1>3, <2>1, <2>2
<1>6. CASE Expire
  <2>1. GrantsArePaid'
    BY <1>6, ExpireAccounts
  <2>2. /\ bucket'.tokens = Burst /\ bucket'.last = NoTime /\ now' = now
        /\ ledger'.mark = now /\ touched' = now /\ worker' = worker
    BY <1>0, <1>6 DEF Expire, FreshBucket, Ledger
  <2> QED  BY <1>0, <2>1, <2>2, ConstantTypes DEF Accounts
<1>7. CASE Tick \/ UNCHANGED vars
  BY <1>0, <1>3, <1>7 DEF Tick, vars
<1> QED  BY <1>1, <1>2, <1>4, <1>5, <1>6, <1>7 DEF Next

\* Whatever the number of workers and however late their scripts run, the
\* bucket grants no send that burst, time or a turned-back clock does not
\* pay for.
THEOREM BucketIsPaid == Spec => []GrantsArePaid
<1>1. TypeOK /\ Accounts /\ [Next]_vars => Accounts'
  BY NextAccounts
<1>2. Accounts => GrantsArePaid
  BY DEF Accounts
<1> QED  BY <1>1, <1>2, InitAccounts, TypeCorrect, PTL DEF Spec

-----------------------------------------------------------------------------
(* Backoffs.                                                               *)

\* A report never shortens the backoff it read.
LEMMA UntilGrows ==
    ASSUME NEW seen \in Bucket, NEW outcome, NEW retry \in Nat, NEW t \in Nat
    PROVE  /\ NewUntil(seen, outcome, retry, t) \in Nat
           /\ NewUntil(seen, outcome, retry, t) >= seen.until
<1>1. seen.until \in Nat
  BY DEF Bucket
<1>2. \A a \in Int : Most(seen.until, a) >= seen.until
  BY <1>1 DEF Most
<1>3. Exponential(NewLevel(seen.level, outcome)) \in Int
  BY ExponentialType, ReportTypes
<1>4. CASE outcome = "rate_limited"
  <2>1. PICK wait \in Int :
          NewUntil(seen, outcome, retry, t) = Most(seen.until, t + wait)
    BY <1>3, <1>4 DEF NewUntil
  <2> QED  BY <1>2, <2>1, ReportTypes
<1>5. CASE outcome = "transient_error"
  <2>1. NewUntil(seen, outcome, retry, t) = Most(seen.until, t + Cooldown)
    BY <1>5 DEF NewUntil
  <2> QED  BY <1>2, <2>1, ReportTypes, TimesAssumption
<1>6. CASE outcome \notin {"rate_limited", "transient_error"}
  BY <1>1, <1>6 DEF NewUntil
<1> QED  BY <1>4, <1>5, <1>6

\* Every backoff asked for so far is over, for each worker about to reserve.
Served == /\ ledger.demanded <= now
          /\ \A w \in Workers : worker[w].pc = "stamped" =>
                                    worker[w].stamp >= ledger.demanded

\* The inductive invariant: until a backoff may be lost, the hash holds the
\* latest backoff anybody asked for, or that backoff is over.
BackoffKept == ~ledger.torn => bucket.until >= ledger.demanded \/ Served

\* Every step keeps the latest backoff in the hash, unless it tears it.
LEMMA NextBackoffKept == TypeOK /\ BackoffKept /\ [Next]_vars => BackoffKept'
<1> SUFFICES ASSUME TypeOK, BackoffKept, [Next]_vars  PROVE BackoffKept'
  OBVIOUS
<1>0. /\ bucket \in Bucket /\ ledger \in Ledger /\ now \in Nat
      /\ bucket.until \in Nat /\ ledger.demanded \in Nat
      /\ \A w \in Workers : worker[w] \in Worker
  BY DEF TypeOK, Bucket, Ledger
\* Who begins to reserve reads the clock; nobody else takes its stamp.
<1>1. ASSUME bucket'.until = bucket.until, ledger'.demanded = ledger.demanded,
             ledger'.torn = ledger.torn, now' \in Nat, now <= now',
             \A v \in Workers : worker'[v].pc = "stamped" =>
                \/ worker[v].pc = "stamped" /\ worker'[v].stamp = worker[v].stamp
                \/ worker'[v].stamp = now
      PROVE  BackoffKept'
  BY <1>0, <1>1 DEF BackoffKept, Served
<1>2. ASSUME NEW w \in Workers, NEW q, Becomes(w, q),
             q.pc = "stamped" => q.stamp = now
      PROVE  \A v \in Workers : worker'[v].pc = "stamped" =>
                \/ worker[v].pc = "stamped" /\ worker'[v].stamp = worker[v].stamp
                \/ worker'[v].stamp = now
  BY <1>2 DEF Becomes, TypeOK
<1>3. ASSUME NEW w \in Workers, ReportWrite(w)  PROVE BackoffKept'
  <2>1. PICK until : until = NewUntil(worker[w].seen, worker[w].outcome,
                                      worker[w].retry, worker[w].stamp)
    OBVIOUS
  <2>2. /\ bucket'.until = until /\ now' = now
        /\ ledger'.demanded = Most(ledger.demanded, until)
        /\ ledger'.torn = (ledger.torn \/ worker[w].seen.until # bucket.until)
    BY <1>0, <1>3, <2>1 DEF ReportWrite, Bucket, Ledger
  <2>3. until \in Nat /\ until >= worker[w].seen.until
    <3>1. /\ worker[w].seen \in Bucket /\ worker[w].retry \in Nat
          /\ worker[w].stamp \in Nat
      BY <1>0 DEF Worker
    <3> QED  BY <2>1, <3>1, UntilGrows
  <2>4. \A v \in Workers : worker'[v].pc = "stamped" =>
           worker[v].pc = "stamped" /\ worker'[v].stamp = worker[v].stamp
    BY <1>3 DEF ReportWrite, Becomes, Idle, TypeOK
  <2>5. CASE until >= ledger.demanded
    BY <1>0, <2>2, <2>3, <2>5 DEF BackoffKept, Most
  <2>6. CASE until < ledger.demanded
    <3>1. ledger'.demanded = ledger.demanded
      BY <1>0, <2>2, <2>3, <2>6 DEF Most
    <3>2. ASSUME ~ledger'.torn
          PROVE  ~ledger.torn /\ worker[w].seen.until = bucket.until
      BY <2>2, <3>2, Zenon
    <3>3. ASSUME ~ledger'.torn  PROVE Served
      BY <1>0, <2>3, <2>6, <3>2, <3>3 DEF BackoffKept
    <3>4. Served => Served'
      BY <2>2, <2>4, <3>1 DEF Served
    <3> QED  BY <3>3, <3>4 DEF BackoffKept
  <2> QED  BY <1>0, <2>3, <2>5, <2>6
<1>4. ASSUME NEW w \in Workers, ReserveGranted(w) \/ ReserveShort(w)
      PROVE  BackoffKept'
  <2>1. bucket'.until = bucket.until /\ now' = now
    BY <1>0, <1>4 DEF ReserveGranted, ReserveShort, Bucket
  <2>2. ledger'.demanded = ledger.demanded /\ ledger'.torn = ledger.torn
    BY <1>0, <1>4 DEF ReserveGranted, ReserveShort, Recount, Ledger
  <2>3. \A retry : /\ [worker[w] EXCEPT !.pc = "sending"].pc = "sending"
                   /\ [worker[w] EXCEPT !.pc = "denied",
                                        !.retry = retry].pc = "denied"
    BY <1>0 DEF Worker
  <2>4. \A v \in Workers : worker'[v].pc = "stamped" =>
                \/ worker[v].pc = "stamped" /\ worker'[v].stamp = worker[v].stamp
                \/ worker'[v].stamp = now
    BY <1>2, <1>4, <2>3 DEF ReserveGranted, ReserveShort
  <2> QED  BY <1>0, <1>1, <2>1, <2>2, <2>4
<1>5. ASSUME NEW w \in Workers,
             Begin(w) \/ ReserveBackedOff(w) \/ ReserveOpen(w)
               \/ ReportDenial(w) \/ Answer(w) \/ ReportRead(w) \/ ReportLost(w)
      PROVE  BackoffKept'
  <2>1. bucket' = bucket /\ ledger' = ledger /\ now' = now
    BY <1>5 DEF Begin, ReserveBackedOff, ReserveOpen, ReportDenial, Answer,
                ReportRead, ReportLost
  <2>2. ASSUME NEW q, Becomes(w, q), q.pc = "stamped" => q.stamp = now
        PROVE  BackoffKept'
    BY <1>0, <1>1, <1>2, <2>1, <2>2
  <2>3. CASE Begin(w)
    <3>1. [worker[w] EXCEPT !.pc = "stamped", !.stamp = now].stamp = now
      BY <1>0 DEF Worker
    <3> QED  BY <2>2, <2>3, <3>1 DEF Begin
  <2>4. CASE ReserveBackedOff(w)
    <3>1. [worker[w] EXCEPT !.pc = "denied",
             !.retry = bucket.until - worker[w].stamp].pc = "denied"
      BY <1>0 DEF Worker
    <3> QED  BY <2>2, <2>4, <3>1 DEF ReserveBackedOff
  <2>5. CASE ReserveOpen(w)
    <3>1. [worker[w] EXCEPT !.pc = "sending"].pc = "sending"
      BY <1>0 DEF Worker
    <3> QED  BY <2>2, <2>5, <3>1 DEF ReserveOpen
  <2>6. CASE ReportDenial(w)
    <3>1. [worker[w] EXCEPT !.pc = "answered", !.stamp = now,
             !.outcome = "rate_limited"].pc = "answered"
      BY <1>0 DEF Worker
    <3> QED  BY <2>2, <2>6, <3>1 DEF ReportDenial
  <2>7. CASE Answer(w)
    <3>1. \A outcome, retry :
            [worker[w] EXCEPT !.pc = "answered", !.stamp = now,
               !.outcome = outcome, !.retry = retry].pc = "answered"
      BY <1>0 DEF Worker
    <3> QED  BY <2>2, <2>7, <3>1 DEF Answer
  <2>8. CASE ReportRead(w)
    <3>1. [worker[w] EXCEPT !.pc = "read", !.seen = bucket].pc = "read"
      BY <1>0 DEF Worker
    <3> QED  BY <2>2, <2>8, <3>1 DEF ReportRead
  <2>9. CASE ReportLost(w)
    BY <2>2, <2>9 DEF ReportLost, Idle
  <2> QED  BY <1>5, <2>3, <2>4, <2>5, <2>6, <2>7, <2>8, <2>9
<1>6. CASE Expire
  <2>1. /\ ledger'.demanded = ledger.demanded
        /\ ledger'.torn = (ledger.torn \/ bucket.until > now)
        /\ now' = now /\ worker' = worker
        /\ \A w \in Workers : worker[w].pc # "stamped"
    BY <1>0, <1>6 DEF Expire, Ledger
  <2>2. ASSUME ~ledger'.torn  PROVE ~ledger.torn /\ ~(bucket.until > now)
    BY <2>1, <2>2, Zenon
  <2>3. ASSUME ~ledger'.torn  PROVE Served'
    BY <1>0, <2>1, <2>2, <2>3 DEF BackoffKept, Served
  <2> QED  BY <2>3 DEF BackoffKept
<1>7. CASE Tick \/ UNCHANGED vars
  BY <1>0, <1>1, <1>7 DEF Tick, vars
<1> QED  BY <1>3, <1>4, <1>5, <1>6, <1>7 DEF Next

\* Only the script's grant lets a stamped worker send when Redis answers.
LEMMA GrantStep ==
    ASSUME TypeOK, [Next]_vars, NEW w \in Workers, worker[w].pc = "stamped",
           worker'[w].pc = "sending", faults' = faults
    PROVE  ReserveGranted(w)
<1>0. faults \in Nat /\ worker[w] \in Worker /\ worker \in [Workers -> Worker]
  BY DEF TypeOK
<1>1. PICK v \in Workers :
        \/ Begin(v) \/ ReserveBackedOff(v) \/ ReserveGranted(v)
        \/ ReserveShort(v) \/ ReserveOpen(v) \/ ReportDenial(v)
        \/ Answer(v) \/ ReportRead(v) \/ ReportWrite(v) \/ ReportLost(v)
  BY <1>0 DEF Next, Tick, Expire, vars
<1>2. PICK q : Becomes(v, q)
  BY <1>1 DEF Begin, ReserveBackedOff, ReserveGranted, ReserveShort,
              ReserveOpen, ReportDenial, Answer, ReportRead, ReportWrite,
              ReportLost
<1>3. v = w
  BY <1>0, <1>2 DEF Becomes
<1>4. ~ReserveOpen(w)
  BY <1>0 DEF ReserveOpen
<1>5. ~ReserveBackedOff(w) /\ ~ReserveShort(w)
  <2>1. \A retry : [worker[w] EXCEPT !.pc = "denied", !.retry = retry].pc = "denied"
    BY <1>0 DEF Worker
  <2> QED  BY <1>0, <2>1 DEF ReserveBackedOff, ReserveShort, Becomes
<1> QED  BY <1>1, <1>3, <1>4, <1>5 DEF Begin, ReportDenial, Answer, ReportRead,
                                       ReportWrite, ReportLost

\* However many workers reserve and report, a granted send lies after every
\* backoff asked for, until a report overwrites one it has not read.
THEOREM BackoffIsHonoured == Spec => BackoffHonoured
<1>1. Init => BackoffKept
  BY DEF Init, BackoffKept, FreshBucket
<1>2. TypeOK /\ BackoffKept /\ [Next]_vars =>
        [\A w \in Workers :
           (worker[w].pc = "stamped" /\ worker'[w].pc = "sending"
              /\ faults' = faults /\ ~ledger.torn)
             => worker[w].stamp >= ledger.demanded]_vars
  <2> SUFFICES ASSUME TypeOK, BackoffKept, [Next]_vars,
                      NEW w \in Workers, worker[w].pc = "stamped",
                      worker'[w].pc = "sending", faults' = faults, ~ledger.torn
               PROVE  worker[w].stamp >= ledger.demanded
    OBVIOUS
  <2>1. ~(worker[w].stamp < bucket.until)
    BY GrantStep DEF ReserveGranted, BackedOff
  <2>2. /\ worker[w].stamp \in Nat /\ bucket.until \in Nat
        /\ ledger.demanded \in Nat
    BY DEF TypeOK, Worker, Bucket, Ledger
  <2> QED  BY <2>1, <2>2 DEF BackoffKept, Served
<1> QED  BY <1>1, <1>2, NextBackoffKept, TypeCorrect, PTL DEF Spec, BackoffHonoured

=============================================================================
