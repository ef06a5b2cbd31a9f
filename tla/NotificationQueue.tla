--------------------------- MODULE NotificationQueue ---------------------------
(***************************************************************************)
(* The notification tasks of one owner: scheduled by the application,      *)
(* carried out by Celery workers, retried, dropped or given up.            *)
(*                                                                         *)
(* A task belongs to one check and one channel of it.  An attempt loads    *)
(* the check, takes one off the counter of queued notifications, sends,    *)
(* commits the status of the channel and, when the send failed for now,    *)
(* decides whether to try again.  Attempts of several tasks interleave at  *)
(* each of these steps; delays between attempts are left open.             *)
(*                                                                         *)
(* Celery acknowledges a task when it starts: what a killed worker was     *)
(* doing is lost.                                                          *)
(***************************************************************************)
EXTENDS Integers, FiniteSets

CONSTANTS
    Tasks,       \* notifications that may be scheduled
    Checks,      \* checks of the owner, each with the one channel modelled
    MaxRetries,  \* max_retries
    Limit,       \* queued notifications above which no task is retried
    MaxFaults,   \* bound: Redis errors, broker errors and killed workers
    NoCheck      \* no check at all

ASSUME LimitsAssumption ==
    /\ MaxRetries \in Nat /\ Limit \in Nat /\ MaxFaults \in Nat
    /\ NoCheck \notin Checks

VARIABLES
    queued,  \* user_stats:queued_notifications of the owner
    task,    \* the tasks
    shown,   \* the last notification status of each check
    again,   \* history: attempts that repeated a task
    faults   \* faults so far

vars == <<queued, task, shown, again, faults>>

-----------------------------------------------------------------------------

Statuses == {"none", "ok", "error", "gone"}

Ends == {"delivered", "refused", "silent", "missing", "dropped",
         "exhausted", "lost"}

\* result is how the send ended; seen and status are the status of the check
\* as the attempt loaded it and as it leaves it; accepted counts how often
\* the vendor took the message, unheard how often its answer was lost.
Task == [pc       : {"none", "counted", "queued", "loaded", "sending",
                     "answered", "deciding", "waiting"} \cup Ends,
         check    : Checks \cup {NoCheck},
         retries  : Nat,
         old      : BOOLEAN,
         result   : {"none", "limited", "transient"} \cup Ends,
         seen     : Statuses,
         status   : Statuses,
         accepted : Nat,
         unheard  : Nat]

NoTask == [pc |-> "none", check |-> NoCheck, retries |-> 0, old |-> FALSE,
           result |-> "none", seen |-> "none", status |-> "none",
           accepted |-> 0, unheard |-> 0]

Ended(n) == task[n].pc \in Ends

Init ==
    /\ queued = 0
    /\ task = [n \in Tasks |-> NoTask]
    /\ shown = [c \in Checks |-> "none"]
    /\ again = 0
    /\ faults = 0

Becomes(n, q) == task' = [task EXCEPT ![n] = q]

Fault == faults < MaxFaults /\ faults' = faults + 1

-----------------------------------------------------------------------------
(* The application schedules a notification.                               *)

\* Redis may be out of reach: then the notification goes out uncounted.
Count(n, c) ==
    /\ task[n].pc = "none" /\ shown[c] # "gone"
    /\ Becomes(n, [task[n] EXCEPT !.pc = "counted", !.check = c])
    /\ \/ queued' = queued + 1 /\ UNCHANGED faults
       \/ Fault /\ UNCHANGED queued
    /\ UNCHANGED <<shown, again>>

Enqueue(n) ==
    /\ task[n].pc = "counted"
    /\ Becomes(n, [task[n] EXCEPT !.pc = "queued"])
    /\ UNCHANGED <<queued, shown, again, faults>>

-----------------------------------------------------------------------------
(* A worker attempts it.                                                   *)

\* Mutant of Load: a task that finds no check is counted off as well.
LoadCounted(n) ==
    LET q == task[n] IN
    /\ q.pc \in {"queued", "waiting"}
    /\ IF shown[q.check] = "gone"
       THEN Becomes(n, [q EXCEPT !.pc = "missing"]) /\ queued' = queued - 1
       ELSE /\ Becomes(n, [q EXCEPT !.pc = "loaded", !.seen = shown[q.check],
                                    !.status = shown[q.check]])
            /\ UNCHANGED queued
    /\ UNCHANGED <<shown, again, faults>>

\* A check that is gone ends its task, which nobody counts off.
Load(n) ==
    LET q == task[n] IN
    /\ q.pc \in {"queued", "waiting"}
    /\ Becomes(n, IF shown[q.check] = "gone"
                  THEN [q EXCEPT !.pc = "missing"]
                  ELSE [q EXCEPT !.pc = "loaded", !.seen = shown[q.check],
                                 !.status = shown[q.check]])
    /\ UNCHANGED <<queued, shown, again, faults>>

\* Every attempt counts the task off, the repeated ones too.
CountOff(n) ==
    LET q == task[n] IN
    /\ q.pc = "loaded"
    /\ Becomes(n, [q EXCEPT !.pc = "sending"])
    /\ \/ /\ queued' = queued - 1 /\ UNCHANGED faults
          /\ again' = IF q.retries > 0 THEN again + 1 ELSE again
       \/ Fault /\ UNCHANGED <<queued, again>>
    /\ UNCHANGED shown

\* The ways a send ends: what the attempt notes as its result, what it leaves
\* as the status, whether the vendor took the message and whether its answer
\* was lost.
Answer(result, status, accepted, unheard) ==
    [result |-> result, status |-> status, accepted |-> accepted,
     unheard |-> unheard]

\* Mutant of Answers: a read timeout counts as delivered.
AnswersOptimistic(status) ==
    {Answer("delivered", "ok", 1, 0), Answer("refused", "error", 0, 0),
     Answer("silent", status, 0, 0), Answer("limited", status, 0, 0),
     Answer("limited", "error", 0, 0), Answer("transient", "error", 0, 0),
     Answer("transient", "ok", 0, 0), Answer("transient", "error", 1, 1)}

\* In turn: accepted; refused for good; the channel is off or its secret
\* cannot be read; denied by the rate control; refused for now (429); failed
\* for now (5xx, no connection); accepted, but the answer timed out.
Answers(status) ==
    {Answer("delivered", "ok", 1, 0), Answer("refused", "error", 0, 0),
     Answer("silent", status, 0, 0), Answer("limited", status, 0, 0),
     Answer("limited", "error", 0, 0), Answer("transient", "error", 0, 0),
     Answer("transient", "error", 1, 1)}

Send(n) ==
    LET q == task[n] IN
    /\ q.pc = "sending"
    /\ \E a \in Answers(q.status) :
         Becomes(n, [q EXCEPT !.pc = "answered", !.result = a.result,
                              !.status = a.status,
                              !.accepted = @ + a.accepted,
                              !.unheard = @ + a.unheard])
    /\ UNCHANGED <<queued, shown, again, faults>>

Temporary == {"limited", "transient"}

\* Mutant of Commit: every status "error" is worth another try, and so is a
\* commit that changes nothing.
CommitRetriesAll(n) ==
    LET q == task[n] IN
    /\ q.pc = "answered"
    /\ shown' = IF shown[q.check] # "gone" /\ q.status # q.seen
                THEN [shown EXCEPT ![q.check] = q.status] ELSE shown
    /\ Becomes(n, [q EXCEPT !.pc = IF q.status = "error" \/ q.status = q.seen
                                   THEN "deciding" ELSE q.result,
                            !.result = "none",
                            !.seen = "none", !.status = "none"])
    /\ UNCHANGED <<queued, again, faults>>

\* The status is written when it changed since it was loaded; a check that
\* is gone by now makes the commit fail, which is only logged.
Commit(n) ==
    LET q == task[n] IN
    /\ q.pc = "answered"
    /\ shown' = IF shown[q.check] # "gone" /\ q.status # q.seen
                THEN [shown EXCEPT ![q.check] = q.status] ELSE shown
    /\ Becomes(n, [q EXCEPT !.pc = IF q.result \in Temporary THEN "deciding"
                                                             ELSE q.result,
                            !.result = "none",
                            !.seen = "none", !.status = "none"])
    /\ UNCHANGED <<queued, again, faults>>

-----------------------------------------------------------------------------
(* _should_drop and the retry.                                             *)

Drop(n) ==
    /\ task[n].pc = "deciding"
    /\ task[n].old \/ queued > Limit
    /\ Becomes(n, [task[n] EXCEPT !.pc = "dropped"])
    /\ UNCHANGED <<queued, shown, again, faults>>

\* The counter cannot be read: the task is not dropped for it.
MayRetry(n) ==
    /\ task[n].pc = "deciding" /\ ~task[n].old
    /\ \/ queued <= Limit /\ UNCHANGED faults
       \/ Fault

\* Mutant of Retry: the retries are counted down.
RetryCountedDown(n) ==
    /\ MayRetry(n) /\ task[n].retries < MaxRetries
    /\ Becomes(n, [task[n] EXCEPT !.pc = "waiting", !.retries = @ - 1])
    /\ UNCHANGED <<queued, shown, again>>

Retry(n) ==
    /\ MayRetry(n) /\ task[n].retries < MaxRetries
    /\ Becomes(n, [task[n] EXCEPT !.pc = "waiting", !.retries = @ + 1])
    /\ UNCHANGED <<queued, shown, again>>

\* Mutant of GiveUp: off by one from the limit of Retry.
GiveUpAbove(n) ==
    /\ MayRetry(n) /\ task[n].retries > MaxRetries
    /\ Becomes(n, [task[n] EXCEPT !.pc = "exhausted"])
    /\ UNCHANGED <<queued, shown, again>>

GiveUp(n) ==
    /\ MayRetry(n) /\ task[n].retries >= MaxRetries
    /\ Becomes(n, [task[n] EXCEPT !.pc = "exhausted"])
    /\ UNCHANGED <<queued, shown, again>>

-----------------------------------------------------------------------------
(* The world.                                                              *)

\* The process that is scheduling or attempting the task is killed, or the
\* broker does not take the task.
Lose(n) ==
    /\ task[n].pc \in {"counted", "loaded", "sending", "answered", "deciding"}
    /\ Fault
    /\ Becomes(n, [task[n] EXCEPT !.pc = "lost"])
    /\ UNCHANGED <<queued, shown, again>>

\* Thirty minutes have passed.
Age(n) ==
    /\ task[n].pc \notin {"none", "counted"} \cup Ends /\ ~task[n].old
    /\ Becomes(n, [task[n] EXCEPT !.old = TRUE])
    /\ UNCHANGED <<queued, shown, again, faults>>

DeleteCheck(c) ==
    /\ shown[c] # "gone"
    /\ shown' = [shown EXCEPT ![c] = "gone"]
    /\ UNCHANGED <<queued, task, again, faults>>

Attempt(n) ==
    \/ Load(n) \/ CountOff(n) \/ Send(n) \/ Commit(n)
    \/ Drop(n) \/ Retry(n) \/ GiveUp(n)

Next ==
    \/ \E n \in Tasks : \/ \E c \in Checks : Count(n, c)
                        \/ Enqueue(n) \/ Attempt(n) \/ Lose(n) \/ Age(n)
    \/ \E c \in Checks : DeleteCheck(c)

Spec == Init /\ [][Next]_vars

\* The application enqueues what it counted, and workers keep taking tasks.
FairSpec ==
    Spec /\ \A n \in Tasks : WF_vars(Enqueue(n)) /\ WF_vars(Attempt(n))

-----------------------------------------------------------------------------
(* Properties.                                                             *)

\* Every variable has the type its declaration says; the counter may well be
\* negative.
TypeOK ==
    /\ queued \in Int /\ again \in Nat /\ faults \in Nat
    /\ task \in [Tasks -> Task]
    /\ shown \in [Checks -> Statuses]

\* An owner gets a message twice only if the answer to an earlier send of it
\* was lost, and never more often than the task was attempted: what the
\* vendor confirmed is not sent again, however tasks interleave.
SentAgainOnlyUnheard ==
    \A n \in Tasks : /\ task[n].accepted <= task[n].unheard + 1
                     /\ task[n].accepted <= task[n].retries + 1
                     /\ task[n].retries <= MaxRetries

\* A check shows "ok" only if a vendor took a message of it, although
\* overlapping attempts write the status from copies they loaded earlier.
OkIsEarned ==
    \A c \in Checks : shown[c] = "ok" =>
        \E n \in Tasks : task[n].check = c /\ task[n].accepted > 0

\* Without faults the counter tells the tasks that no attempt has begun to
\* send, and those whose check was gone by then, less one for every attempt
\* that repeated a task.
NotCountedOff ==
    {n \in Tasks : /\ task[n].retries = 0
                   /\ task[n].pc \in {"counted", "queued", "loaded", "missing"}}

CountDriftsByRetries ==
    faults = 0 => queued = Cardinality(NotCountedOff) - again

\* Every notification that was scheduled is delivered, refused, dropped or
\* given up in the end.
EveryTaskEnds == \A n \in Tasks : task[n].pc # "none" ~> Ended(n)

=============================================================================
