# ttr.rip in TLA+

ttr.rip is a dead man's switch: jobs ping a URL, and a check whose ping is late,
whose run takes too long or that reports a failure is marked down and alerts its
owner.  It is a FastAPI application (`src/app/main.py`, `crud.py`, `api/`,
`web/`), a PostgreSQL database reached through async SQLAlchemy sessions, a
Redis server, and Celery workers fed by beat (`src/app/worker.py`).

This directory holds TLA+ modules for the parts of it that are hard to test, the
TLC configurations that check them on small instances, and proofs that TLAPS
checks.  `PROJECT.json` maps every definition to the lines it models.

## 1. The system

| Component | State it keeps | Operations | What is hard |
|---|---|---|---|
| Check lifecycle (`crud.py`, `main.py`, `db/`) | table `checks`: status, last_ping, last_start, deadline, failure_count, paused | ping, start, fail, toggle pause, create, edit, delete | each request loads, changes and commits a copy; commits merge by column |
| Scheduler (`worker.py:332-405`) | nothing of its own: one session per task | every 5 s: mark overdue and long-running checks | tasks overlap requests and each other; the identity map; an aborted task |
| Alert decision (`crud.py:816-830, 928-946`) | none: the status that was loaded | alert on the first failure and on the recovery | decided from stale copies; lost when a process dies after its commit |
| Notification tasks (`notifications.py`, `worker.py:160-329`) | Celery queue, per-user counter in Redis, last status on the check | enqueue, send, retry (12 times), drop | retries reorder; the counter is decremented per attempt |
| Rate control (`rate_control.py`) | Redis hash per channel identity: tokens, rate, backoff | `reserve` (one Lua script), `report` (read, then write) | several workers; the clock is read before the script runs; lost updates |
| Flapping (`alerting.py`) | Redis lists and flags per check | record a transition, suppress, rate-limit | `can_send_alert` has no caller |
| Buffered counters (`crud.py:30-95, 208-223, 856-914, 1376-1414`, `metrics.py:158-211`) | a dictionary per process, Redis hashes with a time to live | add, flush every second, flush at the end, seed at a start | a flush clears more than it sent, or sends what another sends; a crash; rows that go uncounted |
| Worker heartbeats (`worker.py:56-104`, `main.py:133-169`) | a Redis set and a key with a TTL per worker | register, refresh, unregister, collect | the collectors act on what they saw; a worker they took out is not added again |
| Queue statistics (`queue_stats.py`) | a cached snapshot | refresh | stale reads |
| Cleanup (`tasks/cleanup.py`) | the rows of checks, their hashes in Redis | delete stale checks and users | reads columns and keys nothing writes; rows go first, hashes later |
| Keys (`encryption.py`, `crud.py:327-371, 1215-1327`, `scripts/rotate_master_key.py`) | secrets encrypted under the key of their owner | save, rotate | a rotation that fails half-way, or overlaps a save |
| Users and slugs (`crud.py:282-313, 373-415`, `web/routes.py`) | table `users` | create on first use, rename, log in | two first requests race |
| Pagination (`crud.py:959-1052`) | opaque cursors, kept by the client | next, previous | rows that tie, rows without a key, rows that change between pages |
| List versions (`crud.py:315-325`, `checks.py:84-172`, `dashboard.js:595-620`) | `users.checks_version`, the tag a dashboard holds | bump, compare with an ETag | the bump runs after the commit it belongs to, and may be lost; the tag is made after the rows |
| Ping log (`main.py:357-405`) | a JSON list of 3 in Redis | push | read, change, write |
| Status pages, tags, import and export | tables | edits by their owner | little |
| Redis pool, metrics, GeoIP, templates, static files, migrations | | | I/O and presentation |

What makes each correct is stated as properties in its module.  `PROJECT.json`
lists the hazards by line.

## 2. Plan

Order, the most important behaviour first.  Done, with their proofs:

1. `CheckLifecycle`, with the abstract `PingClock` it implements;
2. `RateControl`: the token bucket and the backoff;
3. `NotificationQueue`: delivery, retries, drops and the counter of the queue;
4. `AccountKeys`: accounts, their keys and the secrets stored under them;
5. `CheckCounters`: the buffer of increments and the counters of checks;
6. `WorkerFleet`: registrations, heartbeats and collectors;
7. `CheckLists`: cursors, pages and ETags;
8. `Retention`: the ping log, the removal of checks and the cleanup.

Left, in this order: the composition of the alerts of 1 with 2 and 3 (a session
that overlaps another would need the state of both, beyond a run of minutes);
cron and OnCalendar schedules as functions from an instant to the next; slugs and
the remaining logins; status pages and tags; the rest of the import; the pool of
Redis connections.

Every safety property that a run checks is proved, those of the two runs that end
in a violation excepted.  Theorems worth proving next: the properties of the
composition above, and abstract specifications of `CheckCounters` and
`NotificationQueue` that these two implement as `CheckLifecycle` does `PingClock`.

## 3. The modules

### CheckLifecycle, PingClock

Every operation on a check goes through an SQLAlchemy session of its own.
`get_db` (`db/base.py:23`) opens it with `autoflush=False` and
`expire_on_commit=False`; a commit writes the columns whose value differs from
the loaded one.  So a request is three steps here, and so is the code:

| Step | Code | Action |
|---|---|---|
| load the row | the SELECT of the route (`main.py:349-355`) | `RequestLoad` |
| change the copy | `update_check_ping`, `_start`, `_fail`, `toggle_check_pause`, `update_check` | `RequestApply`, by `Pinged`, `Started`, `Failed`, `PauseToggled`, `Updated` |
| commit | `await db.commit()` | `RequestCommit` (`Flush` merges column by column), `RequestStale`, `RequestDelete` |
| refresh, then alert or reply | `crud.py:816-838, 928-946, 1172-1193` | `RequestNotify` |

A scheduler task is `ScanBegin` (its first query), `ScanMark` and `ScanNotify`
for each overdue check, `ScanRuntimes` (the second query, which returns the
objects the identity map already holds with the values they had),
`ScanMark`/`ScanNotify` again, and `ScanEnd`.  A row deleted under a scan makes
its flush fail; nobody rolls back, and `ScanAborts` ends the scan.

`db` is the table, `req` and `scan` the sessions.  `alert` is history: what the
owner of a check was last told.  `Isolated` restricts behaviours to sessions that
never overlap, the deployment in which the code's decisions from loaded copies
are exact.

Time is a small number; a clock reading is a copy of it.  Two readings of the
real clock are never equal, those of the model may be: `Fresh` names the columns
that a commit therefore writes even when the model's values happen to agree.

`PingClock` is what remains of a check when everything but time is forgotten: a
reference instant and a due instant that move together, by a ping only.
`CheckLifecycle` implements it (`ImplementsClock`) under the mapping `ClockOf`.

Left out: cron and OnCalendar schedules (`NextDeadline` is the interval
schedule) and the settings of the channels.  The counters a pause moves are those of
`CheckCounters`.

### RateControl

One Redis hash, `bucket`, and the workers that share it.  `reserve` reads the
clock (`Begin`) and then runs one script (`ReserveBackedOff`, `ReserveGranted`,
`ReserveShort`, or, when Redis fails, `ReserveOpen`, which lets the send pass).
`report` reads the hash (`ReportRead`) and writes it back (`ReportWrite`); reports
of other workers come between.  `ReportDenial` is what the senders do with a
refusal of `reserve` itself: they report it like a 429 of the vendor
(`notifications.py:55-58`).  Because the clock is read before the script runs, the
refill clock of the hash may go backwards; `ledger.slipped` adds up by how much.

Rates and tokens are counted in a unit of which a send costs `Weight`; the code's
factors 0.5 and 0.8 are rounded down.  The hash is modelled to expire only when
no worker is between two of its calls, since no call takes a day.

### NotificationQueue

The tasks of one owner.  `Count` and `Enqueue` are `_schedule_notification`;
`Load`, `CountOff`, `Send`, `Commit` are `_send_notification` with a sender;
`Drop`, `Retry`, `GiveUp` are the rest of the task.  The four channels behave
alike but for details the properties do not see, and are modelled as one per
check; `Answers` lists the ways a send ends.  The delay before a retry is left
open: a retry may come at any time.  `Lose` is Celery's early acknowledgement: a
worker that is killed loses what it was doing.

`queued` is the counter `user_stats:queued_notifications`; `shown` the status on
the check; `again` is history.

### AccountKeys

A request is authenticated (`Authenticate`, `security.py:84-189`), opens the
account of its key if there is none (`OpenAccount`, and `OpenClashes` with
`Refetch` when another request was faster), and then creates or imports a check,
saves a secret, rotates the key or deletes the account.  `RotateGather` and
`RotateCommit` are the two ends of `update_user_auth_key`, with an await between
them; `DeleteGather` and `DeleteCommit` those of `delete_user_and_data`.  `Revoke`
is the blacklist in Redis, which `RevocationExpires` ends after a day.
`RotateMaster` is `scripts/rotate_master_key.py` and the restart with the new key.
It asks for an application that is offline, hence `Quiet`.

A ciphertext is the pair of keys it was made with, which is all that decides
whether it can be read.  A key is drawn afresh by a rotation, so `RotateGather`
takes one that nobody knows.  `held`, `raced` and the `by` of a check are history.

Left out: slugs, the Telegram and administrator logins (an administrator's token
cannot reach the endpoints that save secrets), IP and origin restrictions.

### CheckCounters

What Redis counts of the checks per state, and the rows it counts.  Two requests of
the modelled web process change both, and do it in two steps; four other things
change one of the two:

| Step | Code | Action |
|---|---|---|
| load the row | the SELECT of the route | `Load` |
| pause: a script moves the counters, then the commit | `toggle_check_pause`, `crud.py:856-914` | `ToggleMove`, then `ToggleCommit` or `ToggleAbort` |
| delete: commit, then three increments in a row | `delete_check`, `crud.py:1376-1414` | `DeleteCommit`, then `Count` |
| the buffer and its flush tasks | `_buffer_hincrby`, `_flush_incr_buffer_async`, `crud.py:30-95` | `Count` starts tasks; `BeginFlush`, `SkipFlush`, `ApplyBatch`, `EndFlush`, `FailFlush` run them |
| the end of the process | the lifespan, `main.py:118-128` | `Stop`, `ApplyBatch`, `Exit`; or `Kill` |
| the hash ends, 30 days after the last batch | `crud.py:84-87` | `Expire` |
| an account is deleted, or the cleanup runs: rows go, nothing is counted | `crud.py:1343-1354`, `cleanup.py:86-88` | `RemoveRows` |
| a process starts and cannot read the counter: it counts the rows, then sets it | `metrics.py:158-211`, called at `main.py:50` | `SeedRead`, `SeedWrite` |

A flush copies the buffer, waits for Redis, and clears the buffer whole, an error
included.  So an increment may be lost (it came while a flush waited) or applied
twice (two flushes copied it); the properties say that these, errors and kills are
the only ways.  `_BUFFER_OPS_SINCE_FLUSH` is reset in a local variable only
(`crud.py:94`); `ops` therefore never falls, and from `MaxOps` on every increment
starts a task.  Checks are not counted when they are created, so the counters
begin at zero and go down.

The buffer holds the deletes whose increments it sums: the sum is the same, and a
delete can be followed.

So the counter of paused checks is not the number of paused rows, and no property
says that it is.  `PausedBalanced` is a ledger: it names every cause by which the
two part, and says that together they account for the difference exactly.  Deletes
that were lost or applied twice are counted by what Redis applied of them
(`Applications`), paused rows that went uncounted by `history.removed`, what an
expiry or a seed overwrote by `history.shift`.  It holds while no two requests, and no
removal and a request, are on one check at once (`raced`), and no pause or delete did
only half of its work (`parted`).

Left out are the requests of other web processes (`uvicorn --workers 2`): each has a
buffer of its own and adds to rows and counter what one alone adds, so their
ledgers add up; starts of theirs are here, since `SeedRead` and `SeedWrite` may come
while this process works.  The counters per owner are wiped by every start
(`main.py:65-80`) and go with the account.  Nothing is said of them.

### WorkerFleet

`Ready`, `RegisterAdd`, `RegisterBeat` and `RegisterFail` are `_worker_register`;
`Beat` and `MissBeat` the loop of `_worker_heartbeat`, which runs beside it;
`Shutdown`, `UnregisterErase` and `UnregisterRemove` are `_worker_unregister`; `Die`
is a process that is killed, for which no code runs.
`BeginPass`, `LookUp`, `Remove`, `EndPass` and `FailPass` are one round of
`collect_metrics_periodically`, with a step for each call of Redis; every web
process runs one.  A tick takes one from the life of every key and brings every
beat closer.  A beat that is due comes before the next tick or counts as missed:
the delay within an interval is part of the tick, `2 * Interval < TTL` is what
`_HEARTBEAT_TTL` and `_HEARTBEAT_INTERVAL` say with room for it.

`excused` is history: the workers a collector found without a heartbeat for a
reason.  Nothing adds such a worker again, so it stays uncounted as long as it
runs; the model has that, and `OmittedHasCause` says when it can come to it.

### CheckLists

`Beyond`, `Order`, `Limited`, `Forward` and `Backward` are `get_checks_by_owner`
(`crud.py:959-1052`), as a function from the rows to the set of pages the database
may return: rows that tie have no order.  `Change` is any commit that moves a row,
with the bump that a session makes after an earlier commit, if it is not rolled back.

The client is `dashboard.js`.  A click, or a reload, is `fetchChecks`, which calls
`/checks` and sends no tag (`Reload`, `ClickNext`, `ClickPrev`, then `Read` and `Show`).
The timer refreshes through `fetchDashboardAggregate`, which calls
`/checks/aggregate` for the first page (`Refresh`):

| Step | Code | Action |
|---|---|---|
| the user, with the version, is loaded | `security.py:175-189` | `LoadUser` |
| a first comparison with the tag | `checks.py:101-108` | `Precheck` |
| the rows | `checks.py:110-119` | `Read` |
| a new tag, a second comparison | `checks.py:164-172` | `Answer` |
| the client stores the tag, then awaits the body | `dashboard.js:612-620` | `TakeTag` |
| it renders rows and cursors | `dashboard.js:620-758` | `Show` |
| it is told of no change, or something failed | `dashboard.js:609-615` | `Keep` |

The new tag names the interval of two seconds in which it is made, after the rows
were read: the rows may be older than the interval says.  It names the version
that was loaded before them, since nothing loads the user again.  This is what a
conditional refresh rests on, and `BumpsAreShown` states it: an answer that nothing
has changed never passes over a committed bump.  The mutant `SentVersionLate`
reads the version again for the tag, and breaks it.

Nothing is claimed of what the dashboard shows.  A refresh that has stored a tag may
fail before it renders, or be rendered after another answer, and a click replaces
the page and leaves the tag; in the model as in the code the next refresh may
then be told of no change.  The browser may answer a click from its cache for five
seconds (`max-age=5`), which is left out.  So are the tags of `read_checks`: the
one script that sends them back, `admin_dashboard.js`, has no `X-Auth-Key` and is
answered 401.

Reading `get_checks_by_owner` backwards, the order and the comparison are both
turned round, so that a previous page holds the far end of the list rather than the
rows just before the one shown.  No document says otherwise, so neither has a
property: those here are about paging forward and about versions.  The tags of the
data of status pages (`routes.py:317-409`) are not modelled.

### Retention

A check is a row and a hash.  `LoadCheck`, `ReadLog`, `WriteLog` and `WriteContent`
are a ping (`main.py:357-427`); the log is read, changed and written in two calls.
`DeleteCheck` and `DeleteUser` are the deletes, `Sweep` the cleanup of
`tasks/cleanup.py`, which every web process runs; each commits the removal of rows
(`CommitRemoval`, `AbortRemoval`) and then unlinks hashes (`Unlink`, `FailUnlink`).
A ping that was under way writes the hash again, and hashes never expire.

`quiet` and `age` count ticks up to `Old`.  The cleanup of users compares a column
that `User` does not have and raises before it changes anything: it has no action.

### How they compose

`CheckLifecycle` decides that an alert is sent; `NotificationQueue` begins where
`schedule_all_notifications` is called; its `Send` hides what `RateControl` says
(a denial is one of the `Answers`).  `AccountKeys` says when a secret can be read;
in `NotificationQueue` one that cannot is the answer `silent`.  A pause and a delete
are requests of `CheckLifecycle`; what they do to counters is `CheckCounters`, what
a delete does to the hash of its check is `Retention`.  `CheckLists` reads the rows
that all of these change (`Change`).  Of a killed process, `CheckCounters` and
`Retention` say what it leaves behind; `WorkerFleet` says who still counts it.

## 4. What the runs check

Every run ends; none of its bounds is reached in a way that hides an action: between
them the passing runs take every action.

| Run | Instance | Shows |
|---|---|---|
| `lifecycle_overlap` | 1 check, 2 requests (ping, start, delete) and 2 scans, any two of which overlap | merged commits never tear the deadline from the ping, nor the status; a deleted check stays deleted; `PingClock` is implemented; the inductive invariant of the proofs holds |
| `lifecycle_detect` | 2 checks, 1 scanner, 1 request (start, delete), 1 death | every overdue and every long-running check is noticed |
| `lifecycle_isolated` | 1 check, all operations, no overlap | edits recompute deadline and status; outages and recoveries are told once; a ping leaves the check up |
| `lifecycle_threshold` | 1 check, threshold 2 | **violated**: `ThresholdIsTold` |
| `rate_workers` | 2 workers, 1 fault | grants are paid for; backoffs are honoured until a report overwrites one unread |
| `queue_attempts` | 2 tasks of 1 check, 1 retry, 1 fault, a delete | nothing confirmed is sent again; "ok" is earned; how the counter drifts; every task ends |
| `accounts_overlap` | 2 accounts, 1 check, 3 keys, 2 channels, 2 overlapping requests, 1 fault, 1 master rotation | secrets, checks and keys stay with their account; no orphans; secrets stay readable without overlap |
| `counters_flush` | 2 checks, 3 requests, 2 flushes beside the final one, 1 fault, any number of expiries and removals | which deletes Redis may miss or count twice; every cause by which the counter of paused checks and the rows part |
| `fleet_counts` | 1 worker, 2 collectors, 3 errors or missed beats | a worker is left out only for a cause; one that is down is forgotten |
| `lists_pages` | 3 checks, pages of 1, a click beside a refresh, 1 change, 2 intervals of a tag | what paging forward may lose; that it repeats nothing; that no committed bump is passed over |
| `retention_hashes` | 2 checks, 3 pings, 1 delete, 1 cleanup, 1 fault | what may leave a hash behind; what may lose an entry of the log |
| `retention_active` | 2 checks, 2 pings, 1 cleanup | **violated**: `ActiveChecksKept` |

Why the bounds are enough: a lost update takes two sessions on one row, and the
model lets both be any pair of operations at any of their steps; a second check
matters only where one scan handles several (`lifecycle_detect`) or where
secrets could cross accounts, which takes a second account, not a second check.
`lifecycle_overlap` lets two sessions be open at once (`PairsOfSessions`), and two
*requests* only before the last instant, where nothing could come after; three at
once are covered by the proofs, as are the pauses that overlap scans.
Clocks run to 2, 3 or 4: a deadline at 1 or 2 is missed, pinged and missed again.
Failure counts saturate one above the threshold.  Two workers suffice for a lost
report; a third adds another, and the proofs below hold for any number.
A lost increment takes a delete between the two ends of a flush, a doubled one two
flushes: three deletes and two flushes do both at once, and the second delete
reaches `MaxOps`.  The fault is an error, a kill, or the failed read that makes a start
seed the counter; two of these meet in the proofs only.  In `fleet_counts` a key outlives two missed beats
and not three,
and three faults are there to miss them; workers do not act on each other, so one
is enough.  In `lists_pages` a page of one row has a successor that has one
too, keys may tie or be null, and the order is either; a tag made by one refresh is
sent by the next, with the change and the end of the interval anywhere between;
refreshes that overlap each other are covered by the proofs.  In `retention_hashes` a log
of two takes a
third ping.

Fairness.  `lifecycle_detect` assumes that each scanner keeps taking steps
(`WF_vars(ScanStep(s))`): beat starts a task every 5 seconds (`worker.py:36-44`),
and a task that runs goes on or dies.  Nothing is assumed of clients.
`queue_attempts` assumes that the application enqueues what it has counted and
that workers keep taking tasks and carrying them out.  Nothing is assumed of time.
`fleet_counts` assumes that time passes, that a worker whose beat is due makes it
or misses it (its loop sleeps and beats, whatever happens, `worker.py:69-78`), and that
the collectors go on, as their loop does after any error.

### What the violations tell

* **Thresholds never alert** (`crud.py:942`).  The alert asks for a status that was
  not down and for a count that reached the threshold.  The first failure is
  below any threshold above 1, all later ones load "down".
* **The cleanup deletes active checks** (`cleanup.py:59`).  It asks the hash of a
  check for `last_ping`, which nothing writes there; every check created before the
  limit counts as never pinged.  `cleanup.py:18` promises "Checks that haven't been
  pinged in X days".

Disagreements met while modelling that have no run of their own; the models contain
each of these steps, and the properties that hold are stated with them:

* A ping of a row loaded as up changes no status, so its commit leaves the column
  alone; a scan that marked the check down in between wins (`crud.py:806`).
  `PingLeavesUp` holds of isolated sessions only.
* Of two reports that read and then write, the later one restores the backoff it
  had read (`rate_control.py:239`).  `BackoffHonoured` excuses a torn backoff.
* Each attempt counts its task off, only the first was counted, so the limit on
  queued notifications does not limit (`worker.py:182`).  `CountDriftsByRetries`
  says by how much.
* Three of four kinds of secret do not survive a rotation of the master key
  (`rotate_master_key.py:43`).  Of them,
  `ReadableUnlessRaced` speaks only while they are stored under the present key.
* An edit that overlaps a ping (`crud.py:1167`) leaves the deadline of the one
  beside the last ping or the interval of the other.  `lifecycle_overlap` with
  `"update"` among its operations and `TwoAllowances` makes TLC show it; the
  theorems about overlap exclude edits for this reason.
* `toggle_check_pause` raises after its commit (`crud.py:909`): the row and the
  counters changed, the client is told of an error (`ToggleCommit`).
* A bump of `checks_version` is made after the commit it belongs to and committed only
  if its session commits again (`crud.py:1103`), so the list may be called unmodified
  until the interval of its tag ends.  `BumpsAreShown` is about bumps that are
  committed.
* The counter of paused checks forgets: its hash expires while paused rows remain
  (`crud.py:87`), and account deletion and cleanup remove paused rows without
  counting them (`crud.py:1343-1354`, `cleanup.py:86-88`).  `PausedBalanced` says by how
  much.

## 5. What is proved

Eight modules hold the proofs, each for every value of the constants that meets
the named assumptions.  No bound of a run enters as more than a natural number.

**CheckLifecycleProofs.**  `DeadlineTracksPing` is not inductive: what a commit
writes depends on what its session loaded long ago.  `SessionsSound` adds that
every stored row and every copy is sound, that a copy in the state "changed" is
what its operation makes of the copy it loaded at some past instant, and how far a
row may have moved on since it was copied (`Follows`).  From it: a commit of a ping
writes last ping and deadline together; all others write neither; so any merge
is sound again (`CopiesStaySound`).  `DeadlineFollowsPing`, `StatusFollowsPing` and
`LifecycleImplementsClock` follow, all under `"update" \notin Ops`.
`TypeCorrect` and `DeletedStaysDeleted` need no such restriction.

When sessions never overlap (`Isolated`) edits are covered as well.  `OneSession` is
the invariant for that: nothing is open, or one request or one scan is, and what it
loaded is the stored row, so its commit stores its copy whole (`FlushUnchanged`).
With `RowsSound`, which says of stored rows what `SessionsSound` says, it gives
`IsolatedDeadlines`, `IsolatedStatus` and `IsolatedPings`.  `Told` is about the
owner: between sessions everybody was told what the row says, and within one
everybody but the owner of the check in hand, who was told what the session loaded.
From it follow `AlertsMatch` and `AlertsTakeTurns`, for a threshold of at most 1, a
check that reports recoveries, and sessions that do not die between their commit and
their alert (`NotifyAfter <= 1`, `NotifyOnUp`, `MaxDeaths = 0`): the instance of
`lifecycle_isolated`, with any number of checks and sessions.

**RateControlProofs.**  `Accounts` strengthens `GrantsArePaid` with what bounds the
tokens and ties the refill clock to `ledger.mark`; each script adds at most the
fastest rate times the advance of the clock, or adds to `slipped` what the clock
went back.  `ExpiryAssumption` (a day of refill fills the bucket) is needed for
`Expire` only.  `BackoffKept` says that unless a report tore it, the hash holds
the latest backoff asked for, or that backoff is over for every worker with a
clock reading.

**NotificationQueueProofs.**  `Sound` counts, for each task and each point of an
attempt, how many sends the vendor accepted, how many of its answers were
lost, and how many retries there were; `Honest` adds that a copy of a status that
a commit may still write is earned too.  `Drift` carries `CountDriftsByRetries`: a
step takes one task into those not counted off, takes one out, or leaves them, and
moves the counter with them; they are finitely many since they come one at a time.

**AccountKeysProofs.**  `SessionsSound` says that whatever a session holds, however
old, concerns its own account: the key it was authenticated with is one its
account has had, the check it loaded belongs to it if it still exists, the secrets
a rotation loaded are those of the account, and a key a rotation drew is known to
nobody and drawn by no other.  Ids are never used twice, which is what makes
"if it still exists" stable.  `Lone` carries `ReadableUnlessRaced`: while no requests
overlapped, at most one session is open, what it knows of its account is up to
date, and no secret is ahead of the master key.  So a rotation encrypts all that can
be read, and what it cannot read could not be read before.

**CheckCountersProofs.**  A delete that is done is in the buffer, in a batch or
applied, and nothing else is there (`OnlyDone`).  While a flush is in flight, what is
still in the buffer is in its batch or came late (`BatchesCover`): so clearing the
buffer loses only late ones.  A delete that no two flushes carry together is
carried by one, and by that one as long as it is in the buffer (`Singles`): so it
is applied once.  The requests are assumed finite, since flushes count them.
`Balance` carries `PausedBalanced`: what is buffered or applied is a delete
(`Sorted`), a request that raced no other is alone on its check (`Alone`) and sees
the row as it is (`SeesRow`), and a row that was removed is gone (`RemovedGone`).  So a
step that changes the paused rows, the toggles in flight, the deletes of paused rows,
what was applied of them or the rows removed changes one of these sets by one
member, by a batch or by the rows of one removal, and the counter, or another of the
sets, by as much (`RemoveBalances`, `ShiftBalances`).  The
applications of deletes are counted as pairs of a delete and a number, which makes
a delete that is applied twice two of them, and the sum a cardinality.

**WorkerFleetProofs.**  `KeysCoverSilence` ties what is left of a key to the silence
of its worker (the intervals it missed and the part of the present one): a key that is gone
means a silence as long as the `TTL`, which is the excuse.  `RemovalHasCause` says
that a collector about to remove a worker found it so, and `ListedOrExcused` that a
worker that is registered stays in the set otherwise.

**CheckListsProofs.**  `BumpsAreShown` looks at one answer; `TagsCovered` says of
every tag, held, sent or on its way, that the rows which came with it were read at its
version or a later one.  It rests on the version being loaded before the rows are
read and never falling.  `PagesAdvance` says that what was shown of the rows that did
not change lies up to the next cursor, and what a request forward brings lies behind
it.  Both hold for any list, any size of a page, any interval and any number of
requests.
`ForwardIsComplete` is about what is missing.  A page that leaves a row of its
query behind was cut: it has a last row, its next cursor is the key of that row,
and the rows it left do not sort before it (`ForwardLeaves`; that there is a last row
is well-foundedness, in `Least`).  Of the rows on the trail that were not shown,
`Missed` says that each is excused by a tie or a null, or still lies beyond the
next cursor; `LeavingOf` says of a page under way that it keeps this so.  The checks
are assumed finite, as the rows of a table are.

**RetentionProofs.**  `GoneForGood` says that a hash nobody will unlink, and not known
to be left behind, is gone with its check, and no ping is about to write it;
`CopiesAreFresh` that of a log that is not mixed at most one ping holds a copy,
which is the log.

Only model-checked: liveness (`OverdueIsDetected`, `LongRunIsDetected`,
`EveryTaskEnds`, `DownIsForgotten`), which the prover cannot do under fairness; and
that the two violated properties are violated, which takes a behaviour, not a proof.

## 6. What is not modelled

The components marked "not modelled" in `PROJECT.json`.  Flapping is recorded, but
`can_send_alert`, which would act on it, has no caller.  The statistics of the queue
are a snapshot for the dashboard on which nothing depends.  Status pages, tags and
export are edits of single rows by their owner; that deleting an account fails when
a check has a tag (`crud.py:1346`) is listed as a hazard without a property.  The pool
of Redis connections appears as the faults of each call.  Metrics but for the count
of workers, GeoIP, configuration, migrations, templates and static
files are I/O and presentation.  SQLAlchemy, Celery and Redis are modelled from how
the code uses them (`Flush`, `Column`, `Fresh`, `Lose`, `Fault`): a commit is
atomic, a script is atomic, the identity map keeps what it has.  Debug mode, in
which most of the code is switched off, is not modelled.
