---------------------------- MODULE CheckCounters ----------------------------
(***************************************************************************)
(* The counters of checks per state that Redis keeps, as one web process   *)
(* moves them.                                                             *)
(*                                                                         *)
(* Deleting a check counts it off in a buffer of the process, which flush  *)
(* tasks send to Redis and clear; pausing one moves the counters at once,  *)
(* before its commit.  Coroutines interleave wherever the code awaits the  *)
(* database or Redis.                                                      *)
(*                                                                         *)
(* The rows change elsewhere too: deleting an account and the cleanup take *)
(* checks away and count nothing.  And the counters move by other means:   *)
(* every batch gives their hash thirty days to live, after which it is     *)
(* gone, and a process that cannot read them when it starts sets the       *)
(* paused ones to a number it has read from the database.                  *)
(*                                                                         *)
(* The deletes and pauses of other web processes are left out.  Theirs add *)
(* to the rows and to the counter what this process's add, from a buffer   *)
(* of their own.  The counters per owner are left out as well: a start     *)
(* wipes them, and so does deleting the account.                           *)
(***************************************************************************)
EXTENDS Integers, FiniteSets

CONSTANTS
    Checks,
    Requests,  \* requests to delete or to pause a check
    Flushes,   \* bound: flush tasks that wait for Redis at once
    Final,     \* the flush of a process that stops
    MaxOps,    \* INCR_BUFFER_MAX_OPS
    MaxFaults, \* bound: errors of Redis or of the database, and kills
    NoCheck

ASSUME CountersAssumption ==
    /\ MaxOps \in Nat \ {0} /\ MaxFaults \in Nat
    /\ IsFiniteSet(Requests) /\ IsFiniteSet(Checks)
    /\ NoCheck \notin Checks /\ Final \notin Flushes

VARIABLES
    row,      \* the committed row of each check
    paused,   \* the global counter of paused checks in Redis
    mortal,   \* the hash with that counter has a time to live
    seed,     \* the paused rows that a starting process has counted
    applied,  \* how often Redis counted off the delete of a request
    req,      \* what each request is doing
    buffer,   \* _INCR_BUFFER: the deletes that are in it
    ops,      \* _BUFFER_OPS_SINCE_FLUSH, up to MaxOps
    stale,    \* _LAST_FLUSH_TS is an interval old
    waiting,  \* flush tasks that have not run yet
    flush,    \* the flush tasks that wait for Redis
    stopping, \* the process runs its final flush
    faults,   \* errors and kills so far
    history   \* what may excuse a drift of the counters

vars == <<row, paused, mortal, seed, applied, req, buffer, ops, stale,
          waiting, flush, stopping, faults, history>>

process == <<buffer, ops, stale, waiting, flush, stopping>>

hash == <<paused, mortal>>

-----------------------------------------------------------------------------
(* Types.                                                                  *)

Active == {"loaded", "moved", "committed"}

Request == [pc : Active \cup {"idle", "done", "aborted"},
            op : {"delete", "toggle"}, check : Checks \cup {NoCheck},
            paused : BOOLEAN]

NoRequest == [pc |-> "idle", op |-> "delete", check |-> NoCheck,
              paused |-> FALSE]

Slots == Flushes \cup {Final}

Flush == [pc : {"none", "sent", "answered"}, batch : SUBSET Requests]

NoFlush == [pc |-> "none", batch |-> {}]

NoSeed == -1

\* raced: checks that two requests worked on at once, or that were taken away
\* from under a request; parted: a pause or a delete that did only one of its
\* two, to count and to commit; removed: paused checks taken away uncounted;
\* shift: by how much expiry and seeds have moved the counter; late: deletes
\* buffered while a flush waited for Redis; failed: deletes in a batch or a
\* buffer that an error or a kill took; doubled: deletes that two flushes
\* carried at once.
History == [raced : SUBSET Checks, parted : BOOLEAN,
            removed : SUBSET Checks, shift : Int, late : SUBSET Requests,
            failed : SUBSET Requests, doubled : SUBSET Requests]

\* New checks are not counted in Redis, so every counter begins at zero.
Init ==
    /\ row = [c \in Checks |-> "active"]
    /\ paused = 0 /\ mortal = FALSE /\ seed = NoSeed
    /\ applied = [r \in Requests |-> 0]
    /\ req = [r \in Requests |-> NoRequest]
    /\ buffer = {} /\ ops = 0 /\ stale = TRUE /\ waiting = 0
    /\ flush = [f \in Slots |-> NoFlush]
    /\ stopping = FALSE /\ faults = 0
    /\ history = [raced |-> {}, parted |-> FALSE, removed |-> {},
                  shift |-> 0, late |-> {}, failed |-> {}, doubled |-> {}]

Becomes(r, q) == req' = [req EXCEPT ![r] = q]

Fault == faults < MaxFaults /\ faults' = faults + 1

-----------------------------------------------------------------------------
(* The requests.                                                           *)

\* A request that finds no row answers 404.
Load(r, op, c) ==
    /\ ~stopping /\ req[r].pc = "idle" /\ row[c] # "gone"
    /\ Becomes(r, [pc |-> "loaded", op |-> op, check |-> c,
                   paused |-> row[c] = "paused"])
    /\ history' = IF \E s \in Requests : /\ req[s].check = c
                                         /\ req[s].pc \in Active
                  THEN [history EXCEPT !.raced = @ \cup {c}] ELSE history
    /\ UNCHANGED <<row, hash, seed, applied, process, faults>>

\* Mutant of MovePaused: the direction is taken from the row as it will be.
MovePausedBack(q) == IF q.paused THEN paused + 1 ELSE paused - 1

MovePaused(q) == IF q.paused THEN paused - 1 ELSE paused + 1

\* The script that moves the counters; its errors are logged and the pause
\* goes on.
ToggleMove(r) ==
    /\ req[r].pc = "loaded" /\ req[r].op = "toggle"
    /\ Becomes(r, [req[r] EXCEPT !.pc = "moved"])
    /\ \/ paused' = MovePaused(req[r]) /\ UNCHANGED <<faults, history>>
       \/ /\ Fault /\ history' = [history EXCEPT !.parted = TRUE]
          /\ UNCHANGED paused
    /\ UNCHANGED <<row, mortal, seed, applied, process>>

\* What comes after the commit raises, and changes nothing.
ToggleCommit(r) ==
    LET q == req[r] IN
    /\ q.pc = "moved" /\ row[q.check] # "gone"
    /\ Becomes(r, [q EXCEPT !.pc = "done"])
    /\ row' = [row EXCEPT ![q.check] = IF q.paused THEN "active" ELSE "paused"]
    /\ UNCHANGED <<hash, seed, applied, process, faults, history>>

\* The UPDATE of a row that is gone fails, and the database may.
ToggleAbort(r) ==
    LET q == req[r] IN
    /\ q.pc = "moved"
    /\ Becomes(r, [q EXCEPT !.pc = "aborted"])
    /\ IF row[q.check] = "gone" THEN UNCHANGED faults ELSE Fault
    /\ history' = [history EXCEPT !.parted = TRUE]
    /\ UNCHANGED <<row, hash, seed, applied, process>>

\* Deleting a row that is gone by now is only warned about.
DeleteCommit(r) ==
    /\ req[r].pc = "loaded" /\ req[r].op = "delete"
    /\ \/ /\ row' = [row EXCEPT ![req[r].check] = "gone"]
          /\ Becomes(r, [req[r] EXCEPT !.pc = "committed"])
          /\ UNCHANGED faults
       \/ /\ Becomes(r, [req[r] EXCEPT !.pc = "aborted"])
          /\ Fault /\ UNCHANGED row
    /\ UNCHANGED <<hash, seed, applied, process, history>>

\* A delete makes three increments in one go: in the state and in the total
\* of its owner, and in the state of all.  Each starts a flush task when the
\* last flush is old or the operations have reached their maximum, which
\* nothing ever resets.
Adds == 1..3

Starters == {i \in Adds : stale \/ ops + i >= MaxOps}

InFlight == {f \in Slots : flush[f].pc # "none"}

Count(r) ==
    /\ req[r].pc = "committed"
    /\ Becomes(r, [req[r] EXCEPT !.pc = "done"])
    /\ buffer' = buffer \cup {r}
    /\ ops' = IF ops + 3 >= MaxOps THEN MaxOps ELSE ops + 3
    /\ waiting' = waiting + Cardinality(Starters)
    /\ history' = IF InFlight = {} THEN history
                                   ELSE [history EXCEPT !.late = @ \cup {r}]
    /\ UNCHANGED <<row, hash, seed, applied, stale, flush, stopping, faults>>

-----------------------------------------------------------------------------
(* The flush tasks.                                                        *)

\* Mutant of Snapshot: only positive increments are sent.
SnapshotPositive == {}

Snapshot == buffer

\* A flush copies the buffer and leaves it as it is until Redis has answered.
SendBatch(f) ==
    /\ flush[f].pc = "none" /\ buffer # {}
    /\ flush' = [flush EXCEPT ![f] = [pc |-> "sent", batch |-> Snapshot]]
    /\ history' = [history EXCEPT !.doubled =
                     @ \cup {r \in Snapshot : \E g \in InFlight :
                                                r \in flush[g].batch}]

\* Mutant of Due: a flush runs without a task.
DueAlways == waiting >= 0

Due == waiting > 0

BeginFlush(f) ==
    /\ Due /\ waiting' = waiting - 1
    /\ SendBatch(f)
    /\ UNCHANGED <<row, hash, seed, applied, req, buffer, ops, stale,
                   stopping, faults>>

\* With nothing to send, only the time of the last flush is renewed.
SkipFlush ==
    /\ Due /\ buffer = {}
    /\ waiting' = waiting - 1 /\ stale' = FALSE
    /\ UNCHANGED <<row, hash, seed, applied, req, buffer, ops, flush,
                   stopping, faults, history>>

\* Redis runs the batch as one transaction, and gives the hash a new time to
\* live: every delete touches it.
ApplyBatch(f) ==
    LET batch == flush[f].batch IN
    /\ flush[f].pc = "sent"
    /\ flush' = [flush EXCEPT ![f].pc = "answered"]
    /\ applied' = [r \in Requests |-> IF r \in batch THEN applied[r] + 1
                                                     ELSE applied[r]]
    /\ paused' = paused - Cardinality({r \in batch : req[r].paused})
    /\ mortal' = TRUE
    /\ UNCHANGED <<row, seed, req, buffer, ops, stale, waiting, stopping,
                   faults, history>>

\* Mutant of AfterFlush: what the next flush finds is not cleared.
AfterFlushKept == buffer

\* The buffer is cleared whole, whatever was added since the copy.
AfterFlush == {}

EndFlush(f) ==
    /\ f # Final /\ flush[f].pc = "answered"
    /\ flush' = [flush EXCEPT ![f] = NoFlush]
    /\ buffer' = AfterFlush /\ stale' = FALSE
    /\ UNCHANGED <<row, hash, seed, applied, req, ops, waiting, stopping,
                   faults, history>>

\* An error of Redis is logged, and the buffer is cleared all the same.
FailFlush(f) ==
    /\ f # Final /\ flush[f].pc = "sent" /\ Fault
    /\ flush' = [flush EXCEPT ![f] = NoFlush]
    /\ buffer' = AfterFlush /\ stale' = FALSE
    /\ history' = [history EXCEPT !.failed = @ \cup buffer \cup flush[f].batch]
    /\ UNCHANGED <<row, hash, seed, applied, req, ops, waiting, stopping>>

\* FLUSH_INTERVAL passes.
Age ==
    /\ ~stale /\ stale' = TRUE
    /\ UNCHANGED <<row, hash, seed, applied, req, buffer, ops, waiting, flush,
                   stopping, faults, history>>

-----------------------------------------------------------------------------
(* What moves the rows and the counter besides.                            *)

\* Thirty days pass without a batch.  A pause does not renew the time.
Expire ==
    /\ mortal /\ mortal' = FALSE
    /\ paused' = 0
    /\ history' = [history EXCEPT !.shift = @ - paused]
    /\ UNCHANGED <<row, seed, applied, req, process, faults>>

\* Deleting an account, or the cleanup, takes checks away in one commit.
RemoveRows(S) ==
    /\ S # {} /\ \A c \in S : row[c] # "gone"
    /\ row' = [c \in Checks |-> IF c \in S THEN "gone" ELSE row[c]]
    /\ history' = [history EXCEPT
         !.removed = @ \cup {c \in S : row[c] = "paused"},
         !.raced = @ \cup {c \in S : \E r \in Requests :
                             req[r].check = c /\ req[r].pc \in Active}]
    /\ UNCHANGED <<hash, seed, applied, req, process, faults>>

\* A process that starts and cannot read the counters counts the rows, ...
SeedRead ==
    /\ seed = NoSeed /\ Fault
    /\ seed' = Cardinality({c \in Checks : row[c] = "paused"})
    /\ UNCHANGED <<row, hash, applied, req, process, history>>

\* ... and sets the counter to what it has counted.
SeedWrite ==
    /\ seed # NoSeed /\ seed' = NoSeed
    /\ paused' = seed
    /\ history' = [history EXCEPT !.shift = @ + seed - paused]
    /\ UNCHANGED <<row, mortal, applied, req, process, faults>>

-----------------------------------------------------------------------------
(* The process stops, is killed, and starts again with an empty buffer.    *)

Fresh ==
    /\ buffer' = {} /\ ops' = 0 /\ stale' = TRUE /\ waiting' = 0
    /\ flush' = [f \in Slots |-> NoFlush]
    /\ stopping' = FALSE

\* A shutdown waits for the requests and sends the buffer a last time, if
\* there is anything in it; flush tasks that were started before go on until
\* that is done.
Stop ==
    /\ ~stopping /\ \A r \in Requests : req[r].pc \notin Active
    /\ \/ /\ SendBatch(Final) /\ stopping' = TRUE
          /\ UNCHANGED <<buffer, ops, stale, waiting>>
       \/ /\ buffer = {} /\ Fresh
          /\ UNCHANGED history
    /\ UNCHANGED <<row, hash, seed, applied, req, faults>>

Exit ==
    /\ flush[Final].pc = "answered"
    /\ Fresh
    /\ UNCHANGED <<row, hash, seed, applied, req, faults, history>>

\* What a kill, or an error of the final flush, takes with it.
Lost == buffer \cup UNION {flush[f].batch : f \in Slots}

Kill ==
    /\ Fault /\ Fresh
    /\ req' = [r \in Requests |-> IF req[r].pc \in Active
                                  THEN [req[r] EXCEPT !.pc = "aborted"]
                                  ELSE req[r]]
    /\ history' = [history EXCEPT
         !.failed = @ \cup Lost,
         !.parted = @ \/ \E r \in Requests : req[r].pc \in {"moved", "committed"}]
    /\ UNCHANGED <<row, hash, seed, applied>>

Next ==
    \/ \E r \in Requests :
         \/ \E op \in {"delete", "toggle"}, c \in Checks : Load(r, op, c)
         \/ ToggleMove(r) \/ ToggleCommit(r) \/ ToggleAbort(r)
         \/ DeleteCommit(r) \/ Count(r)
    \/ \E f \in Flushes : BeginFlush(f)
    \/ \E f \in Slots : ApplyBatch(f) \/ EndFlush(f) \/ FailFlush(f)
    \/ SkipFlush \/ Age \/ Stop \/ Exit \/ Kill
    \/ \E S \in SUBSET Checks : RemoveRows(S)
    \/ Expire \/ SeedRead \/ SeedWrite

Spec == Init /\ [][Next]_vars

-----------------------------------------------------------------------------
(* Properties.                                                             *)

\* Every variable has the type its declaration says; the counter of paused
\* checks may fall below zero.
TypeOK ==
    /\ row \in [Checks -> {"active", "paused", "gone"}]
    /\ paused \in Int /\ mortal \in BOOLEAN /\ seed \in Nat \cup {NoSeed}
    /\ applied \in [Requests -> Nat]
    /\ req \in [Requests -> Request]
    /\ buffer \subseteq Requests /\ ops \in 0..MaxOps /\ stale \in BOOLEAN
    /\ waiting \in Nat /\ stopping \in BOOLEAN
    /\ flush \in [Slots -> Flush]
    /\ faults \in Nat
    /\ history \in History

Counted(r) == req[r].pc = "done" /\ req[r].op = "delete"

\* A counted delete that Redis was never sent is still in the buffer, unless
\* it was added while a flush waited for Redis or an error or a kill took
\* it.  A process that stops in good order loses nothing more.
LostHasCause ==
    \A r \in Requests :
        Counted(r) /\ applied[r] = 0 /\ r \notin buffer =>
            r \in history.late \cup history.failed

\* A delete that Redis counted off more than once was carried by two flushes
\* that were in flight together.
TwiceHasCause ==
    \A r \in Requests : applied[r] > 1 => r \in history.doubled

PausedRows == {c \in Checks : row[c] = "paused"}

\* The toggles that were counted and not committed yet.
Pausing  == {r \in Requests : req[r].pc = "moved" /\ ~req[r].paused}
Resuming == {r \in Requests : req[r].pc = "moved" /\ req[r].paused}

PausedDeletes ==
    {r \in Requests : /\ req[r].pc \in {"committed", "done"}
                      /\ req[r].op = "delete" /\ req[r].paused}

\* The times Redis counted them off.
Applications == UNION {{r} \X (1..applied[r]) : r \in PausedDeletes}

\* While no two worked on one check and no pause or delete did only half of
\* its work, the counter is the number of paused rows, plus the pauses on
\* their way to their commit, off by exactly the deletes of paused checks
\* that were not applied once, the paused checks that were taken away
\* uncounted, and what expiry and seeds have moved it by.
PausedBalanced ==
    history.raced = {} /\ ~history.parted =>
        paused = Cardinality(PausedRows)
                 + Cardinality(Pausing) - Cardinality(Resuming)
                 + Cardinality(PausedDeletes) - Cardinality(Applications)
                 + Cardinality(history.removed) + history.shift

=============================================================================
