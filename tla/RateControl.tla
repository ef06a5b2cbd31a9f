----------------------------- MODULE RateControl -----------------------------
(***************************************************************************)
(* The adaptive rate control of one channel identity: a token bucket and a *)
(* backoff in one Redis hash, shared by all workers.                       *)
(*                                                                         *)
(* reserve reads the clock of its worker and then runs one atomic script;  *)
(* report reads the hash, thinks, and writes part of it back.  Between any *)
(* two of these steps other workers take theirs and time passes.           *)
(*                                                                         *)
(* Instants are ticks.  Tokens and rates are counted in a unit of which a  *)
(* send costs Weight and a refill at rate n adds n per tick; rates that    *)
(* the code multiplies by a fraction are rounded down.                     *)
(***************************************************************************)
EXTENDS Integers

CONSTANTS
    Workers,      \* tasks that send for this identity
    Weight,       \* cost of one send
    Burst,        \* BURST_MAX: capacity of the bucket
    StartRate,    \* START_RPS
    MinRate,      \* RPS_MIN
    MaxRate,      \* RPS_MAX
    CapRate,      \* CAP_RPS
    DripRate,     \* DRIP_RPS
    Step,         \* AI_STEP
    BackoffBase,  \* BACKOFF_BASE
    BackoffMax,   \* BACKOFF_MAX
    LevelMax,     \* BACKOFF_LEVEL_MAX
    Cooldown,     \* the pause after a transient error
    TTL,          \* STATE_TTL_SECONDS
    RetryAfters,  \* what a vendor's 429 may ask for; 0 when it does not say
    MaxTime,      \* bound: the clock stops here
    MaxFaults,    \* bound: Redis errors and workers that die
    NoTime        \* last_refill_ms is not set

Least(a, b) == IF a < b THEN a ELSE b
Most(a, b) == IF a > b THEN a ELSE b

\* The fastest the bucket ever refills.
TopRate == Most(CapRate, DripRate)

ASSUME RatesAssumption ==
    /\ {StartRate, MinRate, MaxRate, CapRate, DripRate, Step} \subseteq Nat
    /\ Weight \in Nat \ {0} /\ Burst \in Nat /\ DripRate > 0
ASSUME TimesAssumption ==
    /\ {BackoffBase, BackoffMax, LevelMax, Cooldown, MaxTime, MaxFaults}
         \subseteq Nat
    /\ RetryAfters \subseteq Nat /\ NoTime \notin Int

\* A hash that nobody touched for TTL would have been full anyway.
ASSUME ExpiryAssumption == TTL \in Nat /\ TopRate * TTL >= Burst

VARIABLES
    now,      \* the clock all workers read
    bucket,   \* the Redis hash, absent fields at their defaults
    touched,  \* the instant its time to live was last reset
    worker,   \* what each worker is doing
    faults,   \* Redis errors and deaths so far
    ledger    \* history: what was granted, and what was asked of the bucket

vars == <<now, bucket, touched, worker, faults, ledger>>

-----------------------------------------------------------------------------
(* The hash.                                                               *)

Bucket == [tokens : Nat, rate : Nat, last : Nat \cup {NoTime},
           until : Nat, level : Nat]

FreshBucket == [tokens |-> Burst, rate |-> StartRate, last |-> NoTime,
                until |-> 0, level |-> 0]

\* The rate a refill uses, and the one a report stores: at most the assumed
\* limit of the vendor, at least a drip.
Effective(rate) == Most(Least(rate, CapRate), DripRate)

Refilled(b, t) ==
    IF b.last = NoTime THEN b.tokens
    ELSE Least(Burst, b.tokens + Most(t - b.last, 0) * Effective(b.rate))

\* Mutant of BackedOff: a first backoff is not yet honoured.
BackedOffLater(b, t) == t < b.until /\ b.level > 1

BackedOff(b, t) == t < b.until

\* Ticks until the missing tokens are there, rounded up.
Wait(missing, rate) == (missing + rate - 1) \div rate

-----------------------------------------------------------------------------
(* What report makes of the fields it read at instant t.                   *)

Outcomes == {"success", "rate_limited", "transient_error", "permanent_error"}

NewRate(rate, outcome) ==
    CASE outcome = "success"         -> Least(rate + Step, MaxRate)
      [] outcome = "rate_limited"    -> Most(rate \div 2, MinRate)
      [] outcome = "transient_error" -> Most((rate * 4) \div 5, MinRate)
      [] OTHER                       -> rate

\* Mutant of NewLevel: the level may fall below zero.
NewLevelUnbounded(level, outcome) ==
    CASE outcome = "success"      -> level - 1
      [] outcome = "rate_limited" -> Least(level + 1, LevelMax)
      [] OTHER                    -> level

NewLevel(level, outcome) ==
    CASE outcome = "success"      -> Most(level - 1, 0)
      [] outcome = "rate_limited" -> Least(level + 1, LevelMax)
      [] OTHER                    -> level

Exponential(level) == Least(BackoffMax, BackoffBase * 2 ^ Most(level - 1, 0))

NewUntil(seen, outcome, retry, t) ==
    CASE outcome = "rate_limited" ->
           Most(seen.until, t + IF retry > 0 THEN retry
                                ELSE Exponential(NewLevel(seen.level, outcome)))
      [] outcome = "transient_error" -> Most(seen.until, t + Cooldown)
      [] OTHER                       -> seen.until

-----------------------------------------------------------------------------
(* Workers.                                                                *)

Idle == [pc |-> "idle", stamp |-> 0, outcome |-> "none", retry |-> 0,
         seen |-> FreshBucket]

Worker == [pc      : {"idle", "stamped", "denied", "sending", "answered", "read"},
           stamp   : Nat,
           outcome : Outcomes \cup {"none"},
           retry   : Nat,
           seen    : Bucket]

\* granted counts the sends the bucket let through; mark is the instant up
\* to which it was refilled, slipped how far that instant went backwards in
\* all; demanded is the latest backoff any report has asked for; torn tells
\* that a report wrote over a backoff it had not read, or that the hash
\* expired within one.
Ledger == [granted : Nat, mark : Nat, slipped : Nat, demanded : Nat,
           torn : BOOLEAN]

Init ==
    /\ now = 0
    /\ bucket = FreshBucket
    /\ touched = 0
    /\ worker = [w \in Workers |-> Idle]
    /\ faults = 0
    /\ ledger = [granted |-> 0, mark |-> 0, slipped |-> 0, demanded |-> 0,
                 torn |-> FALSE]

Becomes(w, q) == worker' = [worker EXCEPT ![w] = q]

\* reserve reads the clock.
Begin(w) ==
    /\ worker[w].pc = "idle"
    /\ Becomes(w, [worker[w] EXCEPT !.pc = "stamped", !.stamp = now])
    /\ UNCHANGED <<now, bucket, touched, faults, ledger>>

\* The script, in a backoff: no token is touched.
ReserveBackedOff(w) ==
    LET t == worker[w].stamp IN
    /\ worker[w].pc = "stamped" /\ BackedOff(bucket, t)
    /\ Becomes(w, [worker[w] EXCEPT !.pc = "denied", !.retry = bucket.until - t])
    /\ touched' = now
    /\ UNCHANGED <<now, bucket, faults, ledger>>

\* The refill moves the instant it counts from to t, forwards or back.
Recount(t, grants) ==
    ledger' = [ledger EXCEPT !.granted = @ + grants,
                             !.slipped = @ + Most(ledger.mark - t, 0),
                             !.mark = t]

\* Mutant of ReserveGranted: the same time is refilled again.
ReserveGrantedTwice(w) ==
    LET t == worker[w].stamp IN
    /\ worker[w].pc = "stamped" /\ ~BackedOff(bucket, t)
    /\ Refilled(bucket, t) >= Weight
    /\ bucket' = [bucket EXCEPT !.tokens = Refilled(bucket, t) - Weight,
                                !.last = IF @ = NoTime THEN t ELSE @]
    /\ Becomes(w, [worker[w] EXCEPT !.pc = "sending"])
    /\ touched' = now
    /\ Recount(t, 1)
    /\ UNCHANGED <<now, faults>>

\* The script, with enough tokens.
ReserveGranted(w) ==
    LET t == worker[w].stamp IN
    /\ worker[w].pc = "stamped" /\ ~BackedOff(bucket, t)
    /\ Refilled(bucket, t) >= Weight
    /\ bucket' = [bucket EXCEPT !.tokens = Refilled(bucket, t) - Weight,
                                !.last = t]
    /\ Becomes(w, [worker[w] EXCEPT !.pc = "sending"])
    /\ touched' = now
    /\ Recount(t, 1)
    /\ UNCHANGED <<now, faults>>

\* The script, with too few.
ReserveShort(w) ==
    LET t == worker[w].stamp
        missing == Weight - Refilled(bucket, t)
    IN
    /\ worker[w].pc = "stamped" /\ ~BackedOff(bucket, t)
    /\ missing > 0
    /\ bucket' = [bucket EXCEPT !.tokens = Refilled(bucket, t), !.last = t]
    /\ Becomes(w, [worker[w] EXCEPT !.pc = "denied",
                     !.retry = Wait(missing, Effective(bucket.rate))])
    /\ touched' = now
    /\ Recount(t, 0)
    /\ UNCHANGED <<now, faults>>

\* Redis fails: the send is made without asking.
ReserveOpen(w) ==
    /\ worker[w].pc = "stamped" /\ faults < MaxFaults
    /\ faults' = faults + 1
    /\ Becomes(w, [worker[w] EXCEPT !.pc = "sending"])
    /\ UNCHANGED <<now, bucket, touched, ledger>>

\* The sender reports its own denial as if it were the vendor's.
ReportDenial(w) ==
    /\ worker[w].pc = "denied"
    /\ Becomes(w, [worker[w] EXCEPT !.pc = "answered", !.stamp = now,
                     !.outcome = "rate_limited"])
    /\ UNCHANGED <<now, bucket, touched, faults, ledger>>

\* The vendor answers, or does not; report reads the clock.
Answer(w) ==
    /\ worker[w].pc = "sending"
    /\ \E outcome \in Outcomes, retry \in RetryAfters \cup {0} :
         /\ outcome # "rate_limited" => retry = 0
         /\ Becomes(w, [worker[w] EXCEPT !.pc = "answered", !.stamp = now,
                          !.outcome = outcome, !.retry = retry])
    /\ UNCHANGED <<now, bucket, touched, faults, ledger>>

ReportRead(w) ==
    /\ worker[w].pc = "answered"
    /\ Becomes(w, [worker[w] EXCEPT !.pc = "read", !.seen = bucket])
    /\ UNCHANGED <<now, bucket, touched, faults, ledger>>

ReportWrite(w) ==
    LET q == worker[w]
        until == NewUntil(q.seen, q.outcome, q.retry, q.stamp)
    IN
    /\ q.pc = "read"
    /\ bucket' = [bucket EXCEPT
                    !.rate = Effective(NewRate(q.seen.rate, q.outcome)),
                    !.until = until,
                    !.level = NewLevel(q.seen.level, q.outcome)]
    /\ ledger' = [ledger EXCEPT !.demanded = Most(@, until),
                                !.torn = @ \/ q.seen.until # bucket.until]
    /\ Becomes(w, Idle)
    /\ touched' = now
    /\ UNCHANGED <<now, faults>>

\* A Redis error or a killed worker: the report is never written.
ReportLost(w) ==
    /\ worker[w].pc \in {"denied", "sending", "answered", "read"}
    /\ faults < MaxFaults
    /\ faults' = faults + 1
    /\ Becomes(w, Idle)
    /\ UNCHANGED <<now, bucket, touched, ledger>>

\* Redis drops the hash: the bucket is full and knows no rate.  A day passes
\* without a call before it does, and no call takes that long.
Expire ==
    /\ bucket # FreshBucket /\ now >= touched + TTL
    /\ \A w \in Workers : worker[w].pc = "idle"
    /\ bucket' = FreshBucket
    /\ touched' = now
    /\ ledger' = [ledger EXCEPT !.mark = now, !.torn = @ \/ bucket.until > now]
    /\ UNCHANGED <<now, worker, faults>>

Tick ==
    /\ now < MaxTime
    /\ now' = now + 1
    /\ UNCHANGED <<bucket, touched, worker, faults, ledger>>

Next ==
    \/ Tick \/ Expire
    \/ \E w \in Workers :
         \/ Begin(w) \/ ReserveBackedOff(w) \/ ReserveGranted(w)
         \/ ReserveShort(w) \/ ReserveOpen(w) \/ ReportDenial(w)
         \/ Answer(w) \/ ReportRead(w) \/ ReportWrite(w) \/ ReportLost(w)

Spec == Init /\ [][Next]_vars

-----------------------------------------------------------------------------
(* Properties.                                                             *)

\* Every variable has the type its declaration says.
TypeOK ==
    /\ now \in Nat /\ touched \in Nat /\ faults \in Nat
    /\ bucket \in Bucket
    /\ worker \in [Workers -> Worker]
    /\ ledger \in Ledger

\* Every send the bucket grants was paid for: by the burst, by time at the
\* fastest rate allowed, or by the script of a worker with an older clock
\* reading having turned the refill clock back.
GrantsArePaid ==
    ledger.granted * Weight + bucket.tokens
        <= Burst + TopRate * (ledger.mark + ledger.slipped)

\* A send is never granted before the end of a backoff that any report has
\* asked for, unless a report was written over one it had not read or the
\* hash expired within the backoff.
BackoffHonoured ==
    [][\A w \in Workers :
         (worker[w].pc = "stamped" /\ worker'[w].pc = "sending"
            /\ faults' = faults /\ ~ledger.torn)
           => worker[w].stamp >= ledger.demanded]_vars

=============================================================================
