--------------------------- MODULE CheckLifecycle ---------------------------
(***************************************************************************)
(* The life of a health check: the row of table checks, the HTTP requests  *)
(* that read it, change it and write it back, and the scheduler scan that  *)
(* marks overdue and long-running checks down.                             *)
(*                                                                         *)
(* Every request and every scan works in a database session of its own: it *)
(* LOADS the row, changes its copy, and COMMITS later.  The commit writes  *)
(* only the columns whose value differs from the value that was loaded     *)
(* (SQLAlchemy's unit of work), so two sessions that overlap MERGE their   *)
(* writes column by column.  What a session decides (is this a recovery?   *)
(* is the check already down?) it decides from the copy it loaded.         *)
(*                                                                         *)
(* Time is a small natural number.  NoTime stands for NULL.                *)
(***************************************************************************)
EXTENDS Integers, FiniteSets

CONSTANTS
    Checks,       \* ids of the checks; an id is never used twice
    Requests,     \* HTTP requests that may be in flight together
    Scanners,     \* scheduler tasks that may run together
    Ops,          \* the kinds of request clients send
    Allowances,   \* possible values of interval_seconds + grace_seconds
    MaxRuntime,   \* max_runtime_seconds of the checks
    NotifyAfter,  \* notify_after_failures, 0 when it is not set
    NotifyOnUp,   \* notify_on_up
    Isolated,     \* TRUE: sessions never overlap (one small, idle deployment)
    MaxTime,      \* bound: the clock stops here
    FailCap,      \* bound: failure_count saturates here, above NotifyAfter
    MaxDeaths,    \* bound: sessions that die before they are through
    NoTime,       \* NULL in a timestamp column
    NoCheck       \* no check at all

OpKinds == {"ping", "start", "fail", "pause", "update", "delete"}

ASSUME OpsAssumption == Ops \subseteq OpKinds
ASSUME BoundsAssumption ==
    /\ Allowances \subseteq Nat /\ MaxRuntime \in Nat /\ NotifyAfter \in Nat
    /\ MaxTime \in Nat /\ FailCap \in Nat /\ FailCap > NotifyAfter
    /\ MaxDeaths \in Nat
ASSUME FlagsAssumption == NotifyOnUp \in BOOLEAN /\ Isolated \in BOOLEAN
ASSUME NullAssumption == NoTime \notin Int /\ NoCheck \notin Checks

VARIABLES
    now,      \* the clock all processes read
    db,       \* table checks
    req,      \* the session of each request
    scan,     \* the session of each scheduler task
    alert,    \* history: what the owner of each check was last told
    deaths    \* how many sessions have died so far

vars == <<now, db, req, scan, alert, deaths>>

-----------------------------------------------------------------------------
(* The rows.  status "none" is a check that is not created yet, "gone" one *)
(* that was deleted.                                                       *)

Stamp == Nat \cup {NoTime}

Row == [status    : {"none", "new", "up", "down", "gone"},
        created   : Nat,
        allow     : Nat,
        deadline  : Stamp,
        lastPing  : Stamp,
        lastStart : Stamp,
        fails     : Nat,
        paused    : BOOLEAN]

Blank == [status |-> "none", created |-> 0, allow |-> 0, deadline |-> NoTime,
          lastPing |-> NoTime, lastStart |-> NoTime, fails |-> 0,
          paused |-> FALSE]

Live(row) == row.status \notin {"none", "gone"}

\* The instant the deadline counts from: the last ping, else the creation.
Reference(row) == IF row.lastPing = NoTime THEN row.created ELSE row.lastPing

\* The schedule of an interval check.
NextDeadline(allow, from) == from + allow

Overdue(row, t) ==
    /\ Live(row) /\ ~row.paused
    /\ row.deadline # NoTime /\ row.deadline < t

\* Started, not finished, and for longer than max_runtime_seconds.
LongRunning(row, t) ==
    /\ row.lastStart # NoTime
    /\ t - row.lastStart > MaxRuntime
    /\ row.status # "down"

-----------------------------------------------------------------------------
(* What each operation does to the copy of the row it loaded.              *)

NewCheck(allow, t) ==
    [Blank EXCEPT !.status = "new", !.created = t, !.allow = allow,
                  !.deadline = NextDeadline(allow, t)]

\* Mutants of Pinged: the deadline is computed before last_ping is set; the
\* status of a paused check is left alone.
PingedStaleDeadline(row, t) ==
    [row EXCEPT !.status = "up", !.lastPing = t, !.lastStart = NoTime,
                !.fails = 0,
                !.deadline = NextDeadline(row.allow, Reference(row))]

PingedUnlessPaused(row, t) ==
    [row EXCEPT !.status = IF row.paused THEN row.status ELSE "up",
                !.lastPing = t, !.lastStart = NoTime, !.fails = 0,
                !.deadline = NextDeadline(row.allow, t)]

Pinged(row, t) ==
    [row EXCEPT !.status = "up", !.lastPing = t, !.lastStart = NoTime,
                !.fails = 0, !.deadline = NextDeadline(row.allow, t)]

\* Mutant of OneMore: counts the failures left, downwards.
OneLess(n) == n - 1

OneMore(n) == IF n < FailCap THEN n + 1 ELSE FailCap

Failed(row) ==
    [row EXCEPT !.status = "down", !.lastStart = NoTime,
                !.fails = OneMore(row.fails)]

\* Mutant of Started: a run in progress has no result yet.
StartedAnew(row, t) == [row EXCEPT !.lastStart = t, !.status = "new"]

Started(row, t) == [row EXCEPT !.lastStart = t]

PauseToggled(row) == [row EXCEPT !.paused = ~row.paused]

\* Mutants of Updated: the new schedule counts from the edit; an edited check
\* is up as long as it is not late.
UpdatedFromNow(row, allow, t) ==
    [row EXCEPT !.allow = allow, !.deadline = NextDeadline(allow, t),
                !.status = IF row.lastPing # NoTime THEN "up" ELSE "new"]

UpdatedUp(row, allow, t) ==
    LET due == NextDeadline(allow, Reference(row)) IN
    [row EXCEPT !.allow = allow, !.deadline = due,
                !.status = IF t > due THEN "down" ELSE "up"]

Updated(row, allow, t) ==
    LET due == NextDeadline(allow, Reference(row)) IN
    [row EXCEPT !.allow = allow, !.deadline = due,
                !.status = CASE t > due                -> "down"
                             [] row.lastPing # NoTime  -> "up"
                             [] OTHER                  -> "new"]

\* A request of kind op, its copy of the row after its handler ran, and the
\* kind it ends as: a ping whose content is rejected is handled as a failure.
Outcomes(op, row, t) ==
    CASE op = "ping"   -> {[op |-> "ping", row |-> Pinged(row, t)],
                           [op |-> "fail", row |-> Failed(row)]}
      [] op = "start"  -> {[op |-> op, row |-> Started(row, t)]}
      [] op = "fail"   -> {[op |-> op, row |-> Failed(row)]}
      [] op = "pause"  -> {[op |-> op, row |-> PauseToggled(row)]}
      [] op = "update" -> {[op |-> op, row |-> Updated(row, a, t)]
                              : a \in Allowances}
      [] OTHER         -> {[op |-> op, row |-> row]}

\* A flush writes a column when its value changed since it was loaded.  A
\* clock reading is never equal to an older one, and a count that goes up
\* never to itself, however coarse the clock and the count are here.
Fresh(op) ==
    CASE op = "ping"  -> {"lastPing", "deadline"}
      [] op = "start" -> {"lastStart"}
      [] op = "fail"  -> {"fails"}
      [] OTHER        -> {}

Column(stored, loaded, value, fresh) ==
    IF fresh \/ value # loaded THEN value ELSE stored

\* The stored row after a session that loaded old commits new.
Flush(stored, old, new, op) ==
    [status    |-> Column(stored.status, old.status, new.status, FALSE),
     created   |-> stored.created,
     allow     |-> Column(stored.allow, old.allow, new.allow, FALSE),
     deadline  |-> Column(stored.deadline, old.deadline, new.deadline,
                          "deadline" \in Fresh(op)),
     lastPing  |-> Column(stored.lastPing, old.lastPing, new.lastPing,
                          "lastPing" \in Fresh(op)),
     lastStart |-> Column(stored.lastStart, old.lastStart, new.lastStart,
                          "lastStart" \in Fresh(op)),
     fails     |-> Column(stored.fails, old.fails, new.fails,
                          "fails" \in Fresh(op)),
     paused    |-> Column(stored.paused, old.paused, new.paused, FALSE)]

-----------------------------------------------------------------------------
(* Alerts.  The decision uses the status that was LOADED and the row as it *)
(* is read back after the commit; a row that is gone by then raises.       *)

\* Mutants of TellsDown: alerts on every failure; is off by one.
TellsEveryFailure(loaded, row) == NotifyAfter > 0 => row.fails >= NotifyAfter

TellsAboveThreshold(loaded, row) ==
    /\ loaded.status # "down"
    /\ NotifyAfter > 0 => row.fails > NotifyAfter

TellsDown(loaded, row) ==
    /\ loaded.status # "down"
    /\ NotifyAfter > 0 => row.fails >= NotifyAfter

TellsUp(loaded) == loaded.status = "down" /\ NotifyOnUp

\* An owner learns of an outage from an alert, or from the reply to an edit.
LastAlert == [kind : {"none", "down", "up"}, again : BOOLEAN]

\* again tells an alert of what the owner knew.
SendAlert(c, kind) ==
    alert' = [alert EXCEPT ![c] = [kind  |-> kind,
                                   again |-> alert[c].kind = kind]]

\* update_check_fail and update_check_ping, after their commit.
TellFailure(c, loaded) ==
    IF Live(db[c]) /\ TellsDown(loaded, db[c])
    THEN SendAlert(c, "down") ELSE UNCHANGED alert

TellRecovery(c, loaded) ==
    IF Live(db[c]) /\ TellsUp(loaded)
    THEN SendAlert(c, "up") ELSE UNCHANGED alert

\* update_check returns the row as it reads it back.
ShowEdit(c) ==
    IF Live(db[c])
    THEN alert' = [alert EXCEPT ![c] =
                     [kind  |-> IF db[c].status = "down" THEN "down" ELSE "up",
                      again |-> FALSE]]
    ELSE UNCHANGED alert

-----------------------------------------------------------------------------
(* Sessions.                                                               *)

Session == [pc     : {"idle", "loaded", "changed", "committed"},
            op     : OpKinds \cup {"none"},
            check  : Checks \cup {NoCheck},
            loaded : Row,
            row    : Row]

IdleReq == [pc |-> "idle", op |-> "none", check |-> NoCheck,
            loaded |-> Blank, row |-> Blank]

\* A scan keeps the rows it has loaded (the identity map of its session),
\* the checks it still has to mark and the one it marked last.
ScanSession == [pc    : {"idle", "overdue", "runtime"},
                stamp : Nat,
                todo  : SUBSET Checks,
                cur   : Checks \cup {NoCheck},
                seen  : [Checks -> Row]]

IdleScan == [pc |-> "idle", stamp |-> 0, todo |-> {}, cur |-> NoCheck,
             seen |-> [c \in Checks |-> Blank]]

Quiet == /\ \A r \in Requests : req[r] = IdleReq
         /\ \A s \in Scanners : scan[s] = IdleScan

MayBegin == Isolated => Quiet

Init ==
    /\ now = 0
    /\ db = [c \in Checks |-> Blank]
    /\ req = [r \in Requests |-> IdleReq]
    /\ scan = [s \in Scanners |-> IdleScan]
    /\ alert = [c \in Checks |-> [kind |-> "none", again |-> FALSE]]
    /\ deaths = 0

-----------------------------------------------------------------------------
(* Requests.                                                               *)

CreateCheck(c) ==
    /\ db[c].status = "none"
    /\ \E a \in Allowances : db' = [db EXCEPT ![c] = NewCheck(a, now)]
    /\ UNCHANGED <<now, req, scan, alert, deaths>>

RequestLoad(r, c, op) ==
    /\ req[r].pc = "idle" /\ MayBegin
    /\ Live(db[c])
    /\ req' = [req EXCEPT ![r] = [pc |-> "loaded", op |-> op, check |-> c,
                                  loaded |-> db[c], row |-> db[c]]]
    /\ UNCHANGED <<now, db, scan, alert, deaths>>

\* The handler reads the clock and changes its copy.
RequestApply(r) ==
    /\ req[r].pc = "loaded"
    /\ \E e \in Outcomes(req[r].op, req[r].loaded, now) :
         req' = [req EXCEPT ![r].pc = "changed", ![r].op = e.op,
                            ![r].row = e.row]
    /\ UNCHANGED <<now, db, scan, alert, deaths>>

\* Only these have something to tell after the commit.
Answered == {"ping", "fail", "update"}

RequestCommit(r) ==
    LET q == req[r] IN
    /\ q.pc = "changed" /\ q.op # "delete"
    /\ Live(db[q.check])
    /\ db' = [db EXCEPT ![q.check] = Flush(@, q.loaded, q.row, q.op)]
    /\ req' = [req EXCEPT ![r] = IF q.op \in Answered
                                 THEN [q EXCEPT !.pc = "committed",
                                                !.row = Blank]
                                 ELSE IdleReq]
    /\ UNCHANGED <<now, scan, alert, deaths>>

\* The UPDATE of a row that is gone matches nothing: StaleDataError.
RequestStale(r) ==
    /\ req[r].pc = "changed" /\ req[r].op # "delete"
    /\ ~Live(db[req[r].check])
    /\ req' = [req EXCEPT ![r] = IdleReq]
    /\ UNCHANGED <<now, db, scan, alert, deaths>>

\* The DELETE of a row that is gone already only warns.
RequestDelete(r) ==
    LET q == req[r] IN
    /\ q.pc = "changed" /\ q.op = "delete"
    /\ db' = [db EXCEPT ![q.check] = [Blank EXCEPT !.status = "gone"]]
    /\ req' = [req EXCEPT ![r] = IdleReq]
    /\ UNCHANGED <<now, scan, alert, deaths>>

\* Refresh, then alert or reply.
RequestNotify(r) ==
    LET q == req[r] IN
    /\ q.pc = "committed"
    /\ \/ q.op = "ping" /\ TellRecovery(q.check, q.loaded)
       \/ q.op = "fail" /\ TellFailure(q.check, q.loaded)
       \/ q.op = "update" /\ ShowEdit(q.check)
    /\ req' = [req EXCEPT ![r] = IdleReq]
    /\ UNCHANGED <<now, db, scan, deaths>>

\* A database error, a cancelled request, a killed process: the session is
\* rolled back and what it had not done yet is never done.
RequestDies(r) ==
    /\ deaths < MaxDeaths /\ req[r].pc # "idle"
    /\ deaths' = deaths + 1
    /\ req' = [req EXCEPT ![r] = IdleReq]
    /\ UNCHANGED <<now, db, scan, alert>>

RequestStep(r) ==
    \/ RequestApply(r) \/ RequestCommit(r) \/ RequestStale(r)
    \/ RequestDelete(r) \/ RequestNotify(r)

-----------------------------------------------------------------------------
(* The scheduler task, started by beat every few seconds.                  *)

\* Mutant of ScanBegin: only checks that are up can become overdue.
ScanBeginUp(s) ==
    LET overdue == {c \in Checks : Overdue(db[c], now) /\ db[c].status = "up"}
    IN
    /\ scan[s].pc = "idle" /\ MayBegin
    /\ scan' = [scan EXCEPT ![s] =
                  [pc |-> "overdue", stamp |-> now, todo |-> overdue,
                   cur |-> NoCheck,
                   seen |-> [c \in Checks |-> IF c \in overdue THEN db[c]
                                                               ELSE Blank]]]
    /\ UNCHANGED <<now, db, req, alert, deaths>>

ScanBegin(s) ==
    LET overdue == {c \in Checks : Overdue(db[c], now)} IN
    /\ scan[s].pc = "idle" /\ MayBegin
    /\ scan' = [scan EXCEPT ![s] =
                  [pc |-> "overdue", stamp |-> now, todo |-> overdue,
                   cur |-> NoCheck,
                   seen |-> [c \in Checks |-> IF c \in overdue THEN db[c]
                                                               ELSE Blank]]]
    /\ UNCHANGED <<now, db, req, alert, deaths>>

\* Mutant of ScanMark: marks a row that a delete has removed meanwhile.
ScanMarkAnyway(s, c) ==
    LET old == scan[s].seen[c] IN
    /\ scan[s].cur = NoCheck /\ c \in scan[s].todo
    /\ db' = [db EXCEPT ![c] = Flush(@, old, Failed(old), "fail")]
    /\ scan' = [scan EXCEPT ![s].cur = c]
    /\ UNCHANGED <<now, req, alert, deaths>>

\* update_check_fail up to its commit, for one check of either list.
ScanMark(s, c) ==
    LET old == scan[s].seen[c] IN
    /\ scan[s].cur = NoCheck /\ c \in scan[s].todo
    /\ Live(db[c])
    /\ db' = [db EXCEPT ![c] = Flush(@, old, Failed(old), "fail")]
    /\ scan' = [scan EXCEPT ![s].cur = c]
    /\ UNCHANGED <<now, req, alert, deaths>>

\* The row is gone: the flush fails, nobody rolls the session back, and the
\* next use of the session ends the whole scan.
ScanAborts(s, c) ==
    /\ scan[s].cur = NoCheck /\ c \in scan[s].todo
    /\ ~Live(db[c])
    /\ scan' = [scan EXCEPT ![s] = IdleScan]
    /\ UNCHANGED <<now, db, req, alert, deaths>>

\* update_check_fail after its commit: refresh, then alert.
ScanNotify(s) ==
    LET c == scan[s].cur IN
    /\ c # NoCheck
    /\ TellFailure(c, scan[s].seen[c])
    /\ scan' = [scan EXCEPT ![s].cur = NoCheck, ![s].todo = @ \ {c},
                            ![s].seen[c] = db[c]]
    /\ UNCHANGED <<now, db, req, deaths>>

\* Mutant of ScanRuntimes: the stale copies say which checks are paused, and
\* checks the first query did not load are taken for paused.
ScanRuntimesStale(s) ==
    LET late == {c \in Checks : /\ Live(db[c])
                                /\ Live(scan[s].seen[c])
                                /\ ~scan[s].seen[c].paused
                                /\ LongRunning(scan[s].seen[c], scan[s].stamp)}
    IN
    /\ scan[s].pc = "overdue" /\ scan[s].todo = {} /\ scan[s].cur = NoCheck
    /\ scan' = [scan EXCEPT ![s].pc = "runtime", ![s].todo = late,
                            ![s].seen = [c \in Checks |->
                                IF c \in late THEN scan[s].seen[c] ELSE Blank]]
    /\ UNCHANGED <<now, db, req, alert, deaths>>

\* The second query.  The rows of the first are in the identity map of the
\* session, which keeps the values it has; the others are loaded.
ScanRuntimes(s) ==
    LET view == [c \in Checks |-> IF scan[s].seen[c].status = "none"
                                  THEN db[c] ELSE scan[s].seen[c]]
        late == {c \in Checks : /\ Live(db[c]) /\ ~db[c].paused
                                /\ LongRunning(view[c], scan[s].stamp)}
    IN
    /\ scan[s].pc = "overdue" /\ scan[s].todo = {} /\ scan[s].cur = NoCheck
    /\ scan' = [scan EXCEPT ![s].pc = "runtime", ![s].todo = late,
                            ![s].seen = [c \in Checks |->
                                IF c \in late THEN view[c] ELSE Blank]]
    /\ UNCHANGED <<now, db, req, alert, deaths>>

ScanEnd(s) ==
    /\ scan[s].pc = "runtime" /\ scan[s].todo = {} /\ scan[s].cur = NoCheck
    /\ scan' = [scan EXCEPT ![s] = IdleScan]
    /\ UNCHANGED <<now, db, req, alert, deaths>>

\* The worker process is killed or loses the database.
ScanDies(s) ==
    /\ deaths < MaxDeaths /\ scan[s].pc # "idle"
    /\ deaths' = deaths + 1
    /\ scan' = [scan EXCEPT ![s] = IdleScan]
    /\ UNCHANGED <<now, db, req, alert>>

ScanStep(s) ==
    \/ ScanBegin(s) \/ ScanNotify(s) \/ ScanRuntimes(s) \/ ScanEnd(s)
    \/ \E c \in Checks : ScanMark(s, c) \/ ScanAborts(s, c)

-----------------------------------------------------------------------------

Tick ==
    /\ now < MaxTime
    /\ now' = now + 1
    /\ UNCHANGED <<db, req, scan, alert, deaths>>

Next ==
    \/ Tick
    \/ \E c \in Checks : CreateCheck(c)
    \/ \E r \in Requests : \/ \E c \in Checks, op \in Ops : RequestLoad(r, c, op)
                           \/ RequestStep(r)
                           \/ RequestDies(r)
    \/ \E s \in Scanners : ScanStep(s) \/ ScanDies(s)

Spec == Init /\ [][Next]_vars

\* Beat keeps starting scans and a started scan keeps running; clients owe
\* nothing.
FairSpec == Spec /\ \A s \in Scanners : WF_vars(ScanStep(s))

-----------------------------------------------------------------------------
(* Properties.                                                             *)

\* Every variable has the type its declaration says.
TypeOK ==
    /\ now \in Nat
    /\ db \in [Checks -> Row]
    /\ req \in [Requests -> Session]
    /\ scan \in [Scanners -> ScanSession]
    /\ alert \in [Checks -> LastAlert]
    /\ deaths \in Nat

\* The stored deadline of a check is always the one its last ping (or its
\* creation) gives, however requests and scans overlap: no interleaving of
\* pings, failures, starts, pauses, scans and deletes leaves the deadline of
\* one ping beside the time of another.
DeadlineTracksPing ==
    \A c \in Checks : Live(db[c]) =>
        db[c].deadline = NextDeadline(db[c].allow, Reference(db[c]))

\* A check is up only if it was pinged, and once it was pinged it is never
\* new again: the writes of overlapping sessions merge column by column and
\* still never pair the status of one history with the last ping of another.
StatusMatchesPing ==
    \A c \in Checks : /\ db[c].status = "up"  => db[c].lastPing # NoTime
                      /\ db[c].status = "new" => db[c].lastPing = NoTime

\* A deleted check stays deleted: no session that loaded it before the
\* delete brings the row back when it commits.
DeletedForever ==
    [][\A c \in Checks : db[c].status = "gone" => db'[c].status = "gone"]_vars

\* A check that is overdue, not paused and not down is marked down by some
\* scan, unless it is pinged, edited, paused or deleted first.  A scan that
\* a deleted row aborts, or that dies, is made good by a later one.
OverdueIsDetected ==
    \A c \in Checks :
        (Overdue(db[c], now) /\ db[c].status # "down")
            ~> (db[c].status = "down" \/ ~Overdue(db[c], now))

\* A run that exceeds max_runtime_seconds is marked down as well, unless
\* it ends, restarts or is paused or deleted first.
LongRunIsDetected ==
    \A c \in Checks :
        (Live(db[c]) /\ ~db[c].paused /\ LongRunning(db[c], now))
            ~> ~(Live(db[c]) /\ ~db[c].paused /\ LongRunning(db[c], now))

\* Between sessions, a check is down exactly when its owner was last told
\* so, by an alert or by the reply to an edit: every outage and every recovery
\* is told, and nothing else is.
AlertMatchesStatus ==
    Quiet => \A c \in Checks : Live(db[c]) =>
                 (db[c].status = "down" <=> alert[c].kind = "down")

\* No alert tells of an outage or a recovery that the owner knows of.
AlertsAlternate == \A c \in Checks : ~alert[c].again

\* A check that has failed notify_after_failures times in a row, and is
\* still down, has been reported ("Notify after N failures").
ThresholdIsTold ==
    Quiet => \A c \in Checks :
        (db[c].status = "down" /\ NotifyAfter > 0 /\ db[c].fails >= NotifyAfter)
            => alert[c].kind = "down"

\* The commit of an accepted ping leaves the stored check up.
PingLeavesUp ==
    [][\A r \in Requests :
         (req[r].pc = "changed" /\ req[r].op = "ping"
            /\ req'[r].pc = "committed")
           => db'[req[r].check].status = "up"]_vars

\* The clock of PingClock that a stored row shows.
ClockOf(row) ==
    [state |-> IF Live(row) THEN "live" ELSE row.status,
     ref   |-> IF Live(row) THEN Reference(row) ELSE 0,
     due   |-> IF Live(row) THEN row.deadline ELSE 0]

Clock == INSTANCE PingClock WITH clock <- [c \in Checks |-> ClockOf(db[c])]

\* Without edits, the stored rows move as PingClock allows: a check's last
\* ping and its deadline change only together, only by a ping, and keep the
\* distance they had when the check was created.
ImplementsClock == Clock!Spec

-----------------------------------------------------------------------------
(* The invariant the proofs of CheckLifecycleProofs induct on: it says of  *)
(* the copies that sessions hold what the properties above say of the      *)
(* stored rows, and how far a copy may lag behind its row.                 *)

SoundRow(row) ==
    Live(row) =>
        /\ row.created <= now
        /\ row.lastPing # NoTime => row.lastPing <= now
        /\ row.deadline = NextDeadline(row.allow, Reference(row))
        /\ row.status = "up"  => row.lastPing # NoTime
        /\ row.status = "new" => row.lastPing = NoTime

\* later is the row that earlier became.
Follows(later, earlier) ==
    /\ later.status # "none"
    /\ Live(later) =>
        /\ Live(earlier)
        /\ later.allow = earlier.allow /\ later.created = earlier.created
        /\ earlier.lastPing # NoTime => later.lastPing # NoTime

SoundCopy(row, c) == Live(row) /\ SoundRow(row) /\ Follows(db[c], row)

\* The copy a handler is about to commit is what its operation makes of the
\* copy it loaded, at an instant that has passed.
Made(q) ==
    \E t \in 0..now : [op |-> q.op, row |-> q.row] \in Outcomes(q.op, q.loaded, t)

SoundRequest(q) ==
    q.pc # "idle" =>
        /\ q.check \in Checks /\ q.op \in OpKinds \ {"update"}
        /\ SoundCopy(q.loaded, q.check)
        /\ q.pc = "changed" => Made(q)

SoundScan(z) ==
    /\ \A c \in z.todo : Live(z.seen[c])
    /\ z.cur # NoCheck => z.cur \in z.todo
    /\ \A c \in Checks :
         /\ Live(z.seen[c]) => SoundCopy(z.seen[c], c)
         /\ z.seen[c].status = "gone" => db[c].status = "gone"

\* What a session holds is a sound copy of a row it may lag behind; with it,
\* DeadlineTracksPing and StatusMatchesPing survive every step.
SessionsSound ==
    /\ \A c \in Checks : SoundRow(db[c])
    /\ \A r \in Requests : SoundRequest(req[r])
    /\ \A s \in Scanners : SoundScan(scan[s])

=============================================================================
