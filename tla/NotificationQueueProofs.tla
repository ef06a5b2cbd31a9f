----------------------- MODULE NotificationQueueProofs -----------------------
(***************************************************************************)
(* Theorems about NotificationQueue, for any number of tasks, checks,      *)
(* retries and faults.                                                     *)
(***************************************************************************)
EXTENDS NotificationQueue, FiniteSetTheorems, TLAPS

\* The inductive invariant of SentAgainOnlyUnheard, task by task: until the
\* send of an attempt, every message the vendor took was one of an earlier
\* attempt, and one whose answer was lost.
Unsent == {"none", "counted", "queued", "loaded", "sending", "waiting"}

Sound(q) ==
    /\ q.accepted <= q.unheard + 1 /\ q.accepted <= q.retries + 1
    /\ q.retries <= MaxRetries
    /\ IF q.pc = "none" THEN q.accepted = 0 /\ q.status # "ok"
                        ELSE q.check \in Checks
    /\ q.pc \in Unsent => q.accepted <= q.unheard /\ q.accepted <= q.retries
    /\ q.pc = "deciding" => q.accepted <= q.unheard
    /\ q.pc = "answered" => q.result \in Temporary \cup Ends
    /\ q.pc = "answered" /\ q.result \in Temporary => q.accepted <= q.unheard

\* What a step makes of one task: it keeps its type, its soundness and its
\* check, and takes "ok" for its status only from the check or from a vendor.
Follows(q, p) ==
    /\ q \in Task /\ q.accepted >= p.accepted
    /\ Sound(p) => Sound(q) /\ (p.pc # "none" => q.check = p.check)
    /\ q.status = "ok" =>
         \/ p.status = "ok" \/ q.accepted > 0
         \/ p.pc # "none" /\ shown[p.check] = "ok"

-----------------------------------------------------------------------------
(* Each step moves one task.                                               *)

\* The ways a send ends.
LEMMA AnswerTypes ==
    ASSUME NEW status \in Statuses, NEW a \in Answers(status)
    PROVE  /\ a.result \in Temporary \cup Ends
           /\ a.status \in Statuses /\ a.accepted \in {0, 1}
           /\ a.unheard \in {0, 1}
           /\ a.result \in Temporary => a.accepted = a.unheard
           /\ a.status = "ok" => status = "ok" \/ a.accepted = 1
BY DEF Answers, Answer, Ends, Statuses, Temporary

\* A scheduled task is a sound successor of none.
LEMMA CountFollows ==
    ASSUME NEW p \in Task, NEW c \in Checks, p.pc = "none"
    PROVE  Follows([p EXCEPT !.pc = "counted", !.check = c], p)
<1> DEFINE q == [p EXCEPT !.pc = "counted", !.check = c]
<1>1. /\ q \in Task /\ q.pc = "counted" /\ q.accepted = p.accepted
      /\ q.check = c
      /\ q.unheard = p.unheard /\ q.retries = p.retries /\ q.status = p.status
      /\ p.accepted \in Nat /\ p.unheard \in Nat /\ p.retries \in Nat
  BY DEF Task
<1> HIDE DEF q
<1>2. Follows(q, p)
  BY <1>1 DEF Follows, Sound, Unsent
<1> QED  BY <1>2 DEF q

\* A step that only moves the task on, or ends it.
LEMMA PcFollows ==
    ASSUME NEW p \in Task, NEW pc \in {"queued", "sending"} \cup Ends,
           pc \in Ends \/ p.pc \in Unsent, p.pc # "none"
    PROVE  Follows([p EXCEPT !.pc = pc], p)
<1> DEFINE q == [p EXCEPT !.pc = pc]
<1>1. /\ q \in Task /\ q.pc = pc /\ q.accepted = p.accepted
      /\ q.unheard = p.unheard /\ q.retries = p.retries /\ q.status = p.status
      /\ q.check = p.check
      /\ p.accepted \in Nat /\ p.unheard \in Nat /\ p.retries \in Nat
  BY DEF Task, Ends
<1> HIDE DEF q
<1>2. Follows(q, p)
  BY <1>1 DEF Follows, Sound, Unsent, Ends
<1> QED  BY <1>2 DEF q

\* An attempt that begins keeps the task sound.
LEMMA LoadFollows ==
    ASSUME NEW p \in Task, p.pc \in {"queued", "waiting"}, NEW status \in Statuses,
           status = shown[p.check]
    PROVE  Follows([p EXCEPT !.pc = "loaded", !.seen = status,
                             !.status = status], p)
<1> DEFINE q == [p EXCEPT !.pc = "loaded", !.seen = status, !.status = status]
<1>1. /\ q \in Task /\ q.pc = "loaded" /\ q.accepted = p.accepted
      /\ q.unheard = p.unheard /\ q.retries = p.retries /\ q.status = status
      /\ q.check = p.check
      /\ p.accepted \in Nat /\ p.unheard \in Nat /\ p.retries \in Nat
  BY DEF Task
<1> HIDE DEF q
<1>2. Follows(q, p)
  BY <1>1 DEF Follows, Sound, Unsent
<1> QED  BY <1>2 DEF q

\* Whatever a vendor answers, an accepted message is confirmed or unheard.
LEMMA SendFollows ==
    ASSUME NEW p \in Task, p.pc = "sending", NEW a \in Answers(p.status)
    PROVE  Follows([p EXCEPT !.pc = "answered", !.result = a.result,
                             !.status = a.status, !.accepted = @ + a.accepted,
                             !.unheard = @ + a.unheard], p)
<1> DEFINE q == [p EXCEPT !.pc = "answered", !.result = a.result,
                          !.status = a.status, !.accepted = @ + a.accepted,
                          !.unheard = @ + a.unheard]
<1>1. /\ a.result \in Temporary \cup Ends /\ a.status \in Statuses
      /\ a.accepted \in {0, 1} /\ a.unheard \in {0, 1}
      /\ a.result \in Temporary => a.accepted = a.unheard
      /\ a.status = "ok" => p.status = "ok" \/ a.accepted = 1
  BY AnswerTypes DEF Task
<1>2. /\ p.accepted + a.accepted \in Nat /\ p.unheard + a.unheard \in Nat
      /\ p.accepted \in Nat /\ p.unheard \in Nat /\ p.retries \in Nat
  BY <1>1 DEF Task
<1>3. q \in Task
  BY <1>1, <1>2 DEF Task, Temporary
<1>4. /\ q.pc = "answered" /\ q.accepted = p.accepted + a.accepted
      /\ q.unheard = p.unheard + a.unheard /\ q.retries = p.retries
      /\ q.status = a.status /\ q.result = a.result /\ q.check = p.check
  BY DEF Task
<1> HIDE DEF q
<1>5. Sound(p) => Sound(q)
  BY <1>1, <1>2, <1>4 DEF Sound, Unsent
<1>6. Follows(q, p)
  BY <1>1, <1>2, <1>3, <1>4, <1>5 DEF Follows
<1> QED  BY <1>6 DEF q

\* A commit sends a task on to a retry only when nothing confirmed it.
LEMMA CommitFollows ==
    ASSUME NEW p \in Task, p.pc = "answered"
    PROVE  Follows([p EXCEPT !.pc = IF p.result \in Temporary THEN "deciding"
                                                              ELSE p.result,
                             !.result = "none",
                             !.seen = "none", !.status = "none"], p)
<1>1. PICK pc : pc = IF p.result \in Temporary THEN "deciding" ELSE p.result
  OBVIOUS
<1> DEFINE q == [p EXCEPT !.pc = pc, !.result = "none",
                          !.seen = "none", !.status = "none"]
<1>2. pc \in {"none", "deciding"} \cup Ends
  BY <1>1 DEF Task, Temporary
<1>3. q \in Task
  BY <1>2 DEF Task, Statuses
<1>4. /\ q.pc = pc /\ q.accepted = p.accepted /\ q.unheard = p.unheard
      /\ q.retries = p.retries /\ q.status = "none" /\ q.check = p.check
      /\ p.accepted \in Nat /\ p.unheard \in Nat /\ p.retries \in Nat
  BY DEF Task
<1> HIDE DEF q
<1>5. Sound(p) => Sound(q)
  BY <1>1, <1>4 DEF Sound, Unsent, Temporary, Ends
<1>6. Follows(q, p)
  BY <1>3, <1>4, <1>5 DEF Follows
<1> QED  BY <1>1, <1>6 DEF q

\* A retry is counted, and only below the limit.
LEMMA RetryFollows ==
    ASSUME NEW p \in Task, p.pc = "deciding", p.retries < MaxRetries
    PROVE  Follows([p EXCEPT !.pc = "waiting", !.retries = @ + 1], p)
<1> DEFINE q == [p EXCEPT !.pc = "waiting", !.retries = @ + 1]
<1>1. /\ p.retries + 1 \in Nat
      /\ p.accepted \in Nat /\ p.unheard \in Nat /\ p.retries \in Nat
  BY DEF Task
<1>2. q \in Task
  BY <1>1 DEF Task
<1>3. /\ q.pc = "waiting" /\ q.accepted = p.accepted /\ q.unheard = p.unheard
      /\ q.retries = p.retries + 1 /\ q.status = p.status /\ q.check = p.check
  BY DEF Task
<1> HIDE DEF q
<1>4. Follows(q, p)
  BY <1>1, <1>2, <1>3, LimitsAssumption DEF Follows, Sound, Unsent
<1> QED  BY <1>4 DEF q

\* Time changes nothing about what was sent.
LEMMA AgeFollows ==
    ASSUME NEW p \in Task
    PROVE  Follows([p EXCEPT !.old = TRUE], p)
<1> DEFINE q == [p EXCEPT !.old = TRUE]
<1>1. /\ q \in Task /\ q.pc = p.pc /\ q.accepted = p.accepted
      /\ q.unheard = p.unheard /\ q.retries = p.retries /\ q.status = p.status
      /\ q.check = p.check /\ q.result = p.result
      /\ p.accepted \in Nat /\ p.unheard \in Nat /\ p.retries \in Nat
  BY DEF Task
<1> HIDE DEF q
<1>2. Follows(q, p)
  BY <1>1 DEF Follows, Sound
<1> QED  BY <1>2 DEF q
-----------------------------------------------------------------------------
(* The inductive invariant.                                                *)

SoundTasks == \A n \in Tasks : Sound(task[n])

Earned(c) == \E n \in Tasks : task[n].check = c /\ task[n].accepted > 0

\* OkIsEarned, for the statuses that attempts carry as well.
Honest == /\ \A c \in Checks : shown[c] = "ok" => Earned(c)
          /\ \A n \in Tasks : task[n].status = "ok" => Earned(task[n].check)

\* Every step moves at most one task, as Follows says.
LEMMA NextFollows ==
    ASSUME TypeOK, SoundTasks, [Next]_vars
    PROVE  \/ UNCHANGED task
           \/ \E n \in Tasks : \E q : Becomes(n, q) /\ Follows(q, task[n])
<1>0. \A n \in Tasks : task[n] \in Task
  BY DEF TypeOK
<1>1. ASSUME NEW n \in Tasks, NEW c \in Checks, Count(n, c)
      PROVE  \E q : Becomes(n, q) /\ Follows(q, task[n])
  BY <1>0, <1>1, CountFollows DEF Count
<1>2. ASSUME NEW n \in Tasks, Load(n)
      PROVE  \E q : Becomes(n, q) /\ Follows(q, task[n])
  <2>1. CASE shown[task[n].check] = "gone"
    <3>1. /\ Becomes(n, [task[n] EXCEPT !.pc = "missing"])
          /\ "missing" \in Ends /\ task[n].pc # "none"
      BY <1>2, <2>1 DEF Load, Ends
    <3> QED  BY <1>0, <3>1, PcFollows
  <2>2. CASE shown[task[n].check] # "gone"
    <3>1. shown[task[n].check] \in Statuses
      BY <1>2 DEF TypeOK, SoundTasks, Sound, Load
    <3> QED  BY <1>0, <1>2, <2>2, <3>1, LoadFollows DEF Load
  <2> QED  BY <2>1, <2>2
<1>3. ASSUME NEW n \in Tasks, Send(n)
      PROVE  \E q : Becomes(n, q) /\ Follows(q, task[n])
  BY <1>0, <1>3, SendFollows DEF Send
<1>4. ASSUME NEW n \in Tasks, Commit(n)
      PROVE  \E q : Becomes(n, q) /\ Follows(q, task[n])
  BY <1>0, <1>4, CommitFollows DEF Commit
<1>5. ASSUME NEW n \in Tasks, Retry(n)
      PROVE  \E q : Becomes(n, q) /\ Follows(q, task[n])
  BY <1>0, <1>5, RetryFollows DEF Retry, MayRetry
<1>6. ASSUME NEW n \in Tasks, Age(n)
      PROVE  \E q : Becomes(n, q) /\ Follows(q, task[n])
  BY <1>0, <1>6, AgeFollows DEF Age
<1>7. ASSUME NEW n \in Tasks,
             Enqueue(n) \/ CountOff(n) \/ Drop(n) \/ GiveUp(n) \/ Lose(n)
      PROVE  \E q : Becomes(n, q) /\ Follows(q, task[n])
  <2>1. PICK pc \in {"queued", "sending"} \cup Ends :
          /\ Becomes(n, [task[n] EXCEPT !.pc = pc])
          /\ pc \in Ends \/ task[n].pc \in Unsent
          /\ task[n].pc # "none"
    BY <1>7 DEF Enqueue, CountOff, Drop, GiveUp, MayRetry, Lose, Ends, Unsent
  <2> QED  BY <1>0, <2>1, PcFollows
<1>8. CASE (\E c \in Checks : DeleteCheck(c)) \/ UNCHANGED vars
  BY <1>8 DEF DeleteCheck, vars
<1> QED
  BY <1>1, <1>2, <1>3, <1>4, <1>5, <1>6, <1>7, <1>8 DEF Next, Attempt

\* Every step keeps the types and the tasks sound.
LEMMA NextSound == TypeOK /\ SoundTasks /\ [Next]_vars => TypeOK' /\ SoundTasks'
<1> SUFFICES ASSUME TypeOK, SoundTasks, [Next]_vars
             PROVE  TypeOK' /\ SoundTasks'
  OBVIOUS
<1>1. /\ task' \in [Tasks -> Task] /\ SoundTasks'
  <2>1. CASE UNCHANGED task
    BY <2>1 DEF TypeOK, SoundTasks
  <2>2. ASSUME NEW n \in Tasks, NEW q, Becomes(n, q), Follows(q, task[n])
        PROVE  task' \in [Tasks -> Task] /\ SoundTasks'
    <3>1. q \in Task /\ Sound(q)
      BY <2>2 DEF Follows, SoundTasks
    <3>2. \A m \in Tasks : task'[m] = IF m = n THEN q ELSE task[m]
      BY <2>2 DEF Becomes, TypeOK
    <3> QED  BY <2>2, <3>1, <3>2 DEF Becomes, TypeOK, SoundTasks
  <2> QED  BY <2>1, <2>2, NextFollows
<1>2. shown' \in [Checks -> Statuses]
  <2>1. ASSUME NEW n \in Tasks, Commit(n)  PROVE shown' \in [Checks -> Statuses]
    <3>1. task[n].status \in Statuses
      BY DEF TypeOK, Task
    <3> QED  BY <2>1, <3>1 DEF Commit, TypeOK
  <2>2. ASSUME NEW c \in Checks, DeleteCheck(c)
        PROVE  shown' \in [Checks -> Statuses]
    BY <2>2 DEF DeleteCheck, TypeOK, Statuses
  <2>3. CASE UNCHANGED shown
    BY <2>3 DEF TypeOK
  <2> QED  BY <2>1, <2>2, <2>3 DEF Next, Attempt, Count, Enqueue, Load, CountOff,
             Send, Drop, Retry, GiveUp, Lose, Age, vars
<1>3. queued' \in Int /\ again' \in Nat /\ faults' \in Nat
  <2>1. queued \in Int /\ again \in Nat /\ faults \in Nat
    BY DEF TypeOK
  <2>2. UNCHANGED faults \/ Fault => faults' \in Nat
    BY <2>1 DEF Fault
  <2>3. CASE UNCHANGED <<queued, again>> /\ (UNCHANGED faults \/ Fault)
    BY <2>1, <2>2, <2>3
  <2>4. ASSUME NEW n \in Tasks, CountOff(n) \/ \E c \in Checks : Count(n, c)
        PROVE  queued' \in Int /\ again' \in Nat /\ faults' \in Nat
    <3>1. UNCHANGED faults \/ Fault
      BY <2>4 DEF CountOff, Count
    <3>2. queued' \in {queued, queued + 1, queued - 1} /\ again' \in {again, again + 1}
      BY <2>4 DEF CountOff, Count
    <3> QED  BY <2>1, <2>2, <3>1, <3>2
  <2> QED  BY <2>3, <2>4 DEF Next, Attempt, Enqueue, Load, Send, Commit, Drop,
                             Retry, GiveUp, MayRetry, Lose, Age, DeleteCheck, vars
<1> QED  BY <1>1, <1>2, <1>3 DEF TypeOK

\* Initially there are no tasks and no statuses.
LEMMA InitSound == Init => TypeOK /\ SoundTasks /\ Honest
BY LimitsAssumption DEF Init, TypeOK, SoundTasks, Sound, Honest, NoTask, Task,
                        Statuses, Unsent, Temporary, Ends

\* The variables of NotificationQueue have their declared types in every
\* reachable state.
THEOREM TypeCorrect == Spec => []TypeOK
<1>1. Init => TypeOK /\ SoundTasks
  BY InitSound
<1> QED  BY <1>1, NextSound, PTL DEF Spec

\* A message the vendor confirmed is never sent again, and none is sent more
\* often than max_retries allows, whatever fails and however tasks overlap.
THEOREM ConfirmedIsFinal == Spec => []SentAgainOnlyUnheard
<1>1. Init => TypeOK /\ SoundTasks
  BY InitSound
<1>2. SoundTasks => SentAgainOnlyUnheard
  BY DEF SoundTasks, Sound, SentAgainOnlyUnheard
<1> QED  BY <1>1, <1>2, NextSound, PTL DEF Spec

\* No step shows, or is about to show, an "ok" that no vendor gave.
LEMMA NextHonest ==
    TypeOK /\ SoundTasks /\ Honest /\ [Next]_vars => Honest'
<1> SUFFICES ASSUME TypeOK, SoundTasks, Honest, [Next]_vars  PROVE Honest'
  OBVIOUS
\* No step takes back what a vendor accepted.
<1>1. ASSUME NEW c, Earned(c)  PROVE Earned(c)'
  <2>1. PICK m \in Tasks : task[m].check = c /\ task[m].accepted > 0
    BY <1>1 DEF Earned
  <2>2. task[m].pc # "none" /\ task[m].accepted \in Nat
    BY <2>1 DEF TypeOK, Task, SoundTasks, Sound
  <2>3. ASSUME NEW n \in Tasks, NEW q, Becomes(n, q), Follows(q, task[n])
        PROVE  task'[m].check = c /\ task'[m].accepted > 0
    <3>1. task'[m] = IF m = n THEN q ELSE task[m]
      BY <2>3 DEF Becomes, TypeOK
    <3>2. m = n => q.check = c /\ q.accepted \in Nat /\ q.accepted >= task[m].accepted
      BY <2>1, <2>2, <2>3 DEF Follows, SoundTasks, Task
    <3> QED  BY <2>1, <2>2, <3>1, <3>2
  <2>4. task'[m].check = c /\ task'[m].accepted > 0
    BY <2>1, <2>3, NextFollows
  <2> QED  BY <2>4 DEF Earned
<1>2. ASSUME NEW m \in Tasks, NEW c, task'[m].status = "ok", task'[m].check = c
      PROVE  Earned(c)'
  <2>1. CASE UNCHANGED task
    BY <1>1, <1>2, <2>1 DEF Honest
  <2>2. ASSUME NEW n \in Tasks, NEW q, Becomes(n, q), Follows(q, task[n])
        PROVE  Earned(c)'
    <3>1. task'[m] = IF m = n THEN q ELSE task[m]
      BY <2>2 DEF Becomes, TypeOK
    <3>2. CASE m # n
      BY <1>1, <1>2, <3>1, <3>2 DEF Honest
    <3>3. CASE m = n /\ q.accepted > 0
      BY <1>2, <3>1, <3>3 DEF Earned
    <3>4. CASE m = n /\ task[m].pc = "none" /\ ~(q.accepted > 0)
      BY <1>2, <2>2, <3>1, <3>4 DEF Follows, SoundTasks, Sound
    <3>5. CASE m = n /\ task[m].pc # "none" /\ ~(q.accepted > 0)
      <4>1. q.check = task[m].check /\ task[m].check \in Checks
        BY <2>2, <3>5 DEF Follows, SoundTasks, Sound
      <4>2. task[m].status = "ok" \/ shown[task[m].check] = "ok"
        BY <1>2, <2>2, <3>1, <3>5 DEF Follows
      <4> QED  BY <1>1, <1>2, <3>1, <3>5, <4>1, <4>2 DEF Honest
    <3> QED  BY <3>2, <3>3, <3>4, <3>5
  <2> QED  BY <2>1, <2>2, NextFollows
<1>3. ASSUME NEW c \in Checks, shown'[c] = "ok"  PROVE Earned(c)'
  <2>1. ASSUME NEW n \in Tasks, Commit(n), shown[c] # "ok"
        PROVE  Earned(c)
    BY <1>3, <2>1 DEF Commit, TypeOK, Honest
  <2>2. ASSUME NEW d \in Checks, DeleteCheck(d)  PROVE shown[c] = "ok"
    BY <1>3, <2>2 DEF DeleteCheck, TypeOK
  <2>3. CASE UNCHANGED shown
    BY <1>1, <1>3, <2>3 DEF Honest
  <2> QED  BY <1>1, <2>1, <2>2, <2>3 DEF Honest, Next, Attempt, Count, Enqueue,
             Load, CountOff, Send, Drop, Retry, GiveUp, Lose, Age, vars
<1>4. \A m \in Tasks : (task[m].status = "ok" => Earned(task[m].check))'
  BY <1>2 DEF Earned
<1> QED  BY <1>3, <1>4 DEF Honest

\* Although attempts overlap and write statuses from old copies, no check
\* shows "ok" before a vendor took a message of it.
THEOREM OkIsAlwaysEarned == Spec => []OkIsEarned
<1>1. Honest => OkIsEarned
  BY DEF Honest, Earned, OkIsEarned
<1> QED  BY <1>1, InitSound, NextSound, NextHonest, PTL DEF Spec

-----------------------------------------------------------------------------
(* The counter of queued notifications.                                    *)

Uncounted(q) ==
    q.retries = 0 /\ q.pc \in {"counted", "queued", "loaded", "missing"}

\* A task is repeated only after a retry was counted, and a send does not end
\* like a load that found no check.
Repeats(q) == /\ q.pc = "none" => q.retries = 0
              /\ q.pc = "waiting" => q.retries > 0
              /\ q.pc = "answered" => q.result # "missing"

\* The inductive invariant of CountDriftsByRetries: the tasks it counts are
\* finitely many, whatever Tasks is, since they are counted one by one.
Drift ==
    /\ \A n \in Tasks : Repeats(task[n])
    /\ IsFiniteSet(NotCountedOff)
    /\ CountDriftsByRetries

\* What a step may do to the tasks not counted off, and to the counter.
Steady ==
    /\ NotCountedOff' = NotCountedOff
    /\ faults' = 0 => queued' + again' = queued + again

Joins(n) ==
    /\ n \in Tasks \ NotCountedOff /\ NotCountedOff' = NotCountedOff \cup {n}
    /\ faults' = 0 => queued' = queued + 1 /\ again' = again

Leaves(n) ==
    /\ n \in NotCountedOff /\ NotCountedOff' = NotCountedOff \ {n}
    /\ faults' = 0 => queued' = queued - 1 /\ again' = again

Drifts ==
    /\ \A n \in Tasks : Repeats(task'[n])
    /\ faults' = 0 => faults = 0
    /\ Steady \/ \E n \in Tasks : Joins(n) \/ Leaves(n)

\* One task becomes q.
LEMMA OneTaskMoves ==
    ASSUME TypeOK, Drift, NEW n \in Tasks, NEW q, Becomes(n, q), Repeats(q)
    PROVE  /\ \A m \in Tasks : Repeats(task'[m])
           /\ n \in NotCountedOff <=> Uncounted(task[n])
           /\ Uncounted(q) => NotCountedOff' = NotCountedOff \cup {n}
           /\ ~Uncounted(q) => NotCountedOff' = NotCountedOff \ {n}
<1>1. \A m \in Tasks : task'[m] = IF m = n THEN q ELSE task[m]
  BY DEF Becomes, TypeOK
<1>2. /\ \A m : m \in NotCountedOff <=> m \in Tasks /\ Uncounted(task[m])
      /\ \A m : m \in NotCountedOff' <=> m \in Tasks /\ Uncounted(task'[m])
  BY DEF NotCountedOff, Uncounted
<1>3. \A m \in Tasks : Repeats(task'[m])
  <2>1. \A m \in Tasks : Repeats(task[m])
    BY DEF Drift
  <2> QED  BY <1>1, <2>1
<1>4. /\ Uncounted(q) => NotCountedOff' = NotCountedOff \cup {n}
      /\ ~Uncounted(q) => NotCountedOff' = NotCountedOff \ {n}
  <2>1. \A m : m \in NotCountedOff' <=>
             m \in Tasks /\ IF m = n THEN Uncounted(q) ELSE m \in NotCountedOff
    BY <1>1, <1>2
  <2> HIDE DEF NotCountedOff, Uncounted
  <2>2. NotCountedOff \subseteq Tasks
    BY <1>2
  <2> QED  BY <2>1, <2>2
<1> QED  BY <1>2, <1>3, <1>4

LEMMA NextDrifts ==
    ASSUME TypeOK, SoundTasks, Drift, [Next]_vars
    PROVE  Drifts
<1>1. /\ queued \in Int /\ again \in Nat /\ faults \in Nat
      /\ \A n \in Tasks : /\ task[n] \in Task /\ task[n].retries \in Nat
                          /\ Repeats(task[n])
  BY DEF TypeOK, Drift, Task
<1>2. ASSUME NEW n \in Tasks, NEW c \in Checks, Count(n, c) PROVE Drifts
  <2>1. PICK q : q = [task[n] EXCEPT !.pc = "counted", !.check = c]
    OBVIOUS
  <2>2. /\ Becomes(n, q) /\ q.pc = "counted" /\ q.retries = task[n].retries
        /\ task[n].pc = "none" /\ task[n].retries = 0
    BY <1>1, <1>2, <2>1 DEF Count, Task, Repeats
  <2>3. /\ Repeats(q) /\ Uncounted(q) /\ ~Uncounted(task[n])
    BY <2>2 DEF Repeats, Uncounted
  <2>4. /\ faults' = 0 => faults = 0 /\ queued' = queued + 1
        /\ again' = again
    BY <1>1, <1>2 DEF Count, Fault
  <2>5. Joins(n)
    BY <2>2, <2>3, <2>4, OneTaskMoves DEF Joins
  <2> QED  BY <2>2, <2>3, <2>4, <2>5, OneTaskMoves DEF Drifts
<1>3. ASSUME NEW n \in Tasks, CountOff(n) PROVE Drifts
  <2>1. PICK q : q = [task[n] EXCEPT !.pc = "sending"]
    OBVIOUS
  <2>2. /\ Becomes(n, q) /\ q.pc = "sending" /\ task[n].pc = "loaded"
    BY <1>1, <1>3, <2>1 DEF CountOff, Task
  <2>3. Repeats(q) /\ ~Uncounted(q)
    BY <2>2 DEF Repeats, Uncounted
  <2>4. /\ faults' = 0 =>
             /\ faults = 0 /\ queued' = queued - 1
             /\ again' = IF task[n].retries > 0 THEN again + 1 ELSE again
    BY <1>1, <1>3 DEF CountOff, Fault
  <2>5. CASE task[n].retries > 0
    <3>1. ~Uncounted(task[n])
      BY <2>5 DEF Uncounted
    <3>2. n \notin NotCountedOff
      BY <2>2, <2>3, <3>1, OneTaskMoves
    <3>3. NotCountedOff' = NotCountedOff
      BY <2>2, <2>3, <3>2, OneTaskMoves
    <3>4. faults' = 0 => queued' + again' = queued + again
      BY <1>1, <2>4, <2>5
    <3>5. Steady
      BY <3>3, <3>4 DEF Steady
    <3> QED  BY <2>2, <2>3, <2>4, <3>5, OneTaskMoves DEF Drifts
  <2>6. CASE ~(task[n].retries > 0)
    <3>1. Uncounted(task[n])
      BY <1>1, <2>2, <2>6 DEF Uncounted
    <3>2. Leaves(n)
      BY <2>2, <2>3, <2>4, <2>6, <3>1, OneTaskMoves DEF Leaves
    <3> QED  BY <2>2, <2>3, <2>4, <3>2, OneTaskMoves DEF Drifts
  <2> QED  BY <2>5, <2>6
<1>4. ASSUME NEW n \in Tasks, Lose(n) PROVE Drifts
  <2>1. PICK q : q = [task[n] EXCEPT !.pc = "lost"]
    OBVIOUS
  <2>2. Becomes(n, q) /\ q.pc = "lost" /\ faults' # 0
    BY <1>1, <1>4, <2>1 DEF Lose, Fault, Task
  <2>3. Repeats(q) /\ ~Uncounted(q)
    BY <2>2 DEF Repeats, Uncounted
  <2>4. CASE n \in NotCountedOff
    <3>1. Leaves(n)
      BY <2>2, <2>3, <2>4, OneTaskMoves DEF Leaves
    <3> QED  BY <2>2, <2>3, <3>1, OneTaskMoves DEF Drifts
  <2>5. CASE n \notin NotCountedOff
    <3>1. Steady
      BY <2>2, <2>3, <2>5, OneTaskMoves DEF Steady
    <3> QED  BY <2>2, <2>3, <3>1, OneTaskMoves DEF Drifts
  <2> QED  BY <2>4, <2>5
\* Whatever else moves a task leaves it among those not counted off, or out.
<1>5. ASSUME NEW n \in Tasks, NEW q, Becomes(n, q), Repeats(q),
             Uncounted(q) <=> Uncounted(task[n]),
             UNCHANGED <<queued, again>>, UNCHANGED faults \/ Fault
      PROVE  Drifts
  <2>1. faults' = 0 => faults = 0
    BY <1>1, <1>5 DEF Fault
  <2>2. NotCountedOff' = NotCountedOff
    <3>1. CASE Uncounted(q)
      <4>1. n \in NotCountedOff /\ NotCountedOff' = NotCountedOff \cup {n}
        BY <1>5, <3>1, OneTaskMoves
      <4> QED  BY <4>1
    <3>2. CASE ~Uncounted(q)
      <4>1. n \notin NotCountedOff /\ NotCountedOff' = NotCountedOff \ {n}
        BY <1>5, <3>2, OneTaskMoves
      <4> QED  BY <4>1
    <3> QED  BY <3>1, <3>2
  <2>3. Steady
    BY <1>5, <2>2 DEF Steady
  <2> QED  BY <1>5, <2>1, <2>3, OneTaskMoves DEF Drifts
<1>6. ASSUME NEW n \in Tasks, Enqueue(n) \/ Age(n) PROVE Drifts
  <2>1. PICK q : /\ q \in {[task[n] EXCEPT !.pc = "queued"],
                           [task[n] EXCEPT !.old = TRUE]}
                 /\ Becomes(n, q)
                 /\ \/ q.pc = task[n].pc
                    \/ task[n].pc = "counted" /\ q.pc = "queued"
    BY <1>1, <1>6 DEF Enqueue, Age, Task
  <2>2. q.retries = task[n].retries /\ q.result = task[n].result
    BY <1>1, <2>1 DEF Task
  <2>3. Repeats(q) /\ (Uncounted(q) <=> Uncounted(task[n]))
    BY <1>1, <2>1, <2>2 DEF Repeats, Uncounted
  <2>4. UNCHANGED <<queued, again, faults>>
    BY <1>6 DEF Enqueue, Age
  <2>5. Becomes(n, q)
    BY <2>1
  <2> QED  BY <1>5, <2>3, <2>4, <2>5
<1>7. ASSUME NEW n \in Tasks, Load(n) PROVE Drifts
  <2>1. PICK q : q = IF shown[task[n].check] = "gone"
                     THEN [task[n] EXCEPT !.pc = "missing"]
                     ELSE [task[n] EXCEPT !.pc = "loaded",
                                          !.seen = shown[task[n].check],
                                          !.status = shown[task[n].check]]
    OBVIOUS
  <2>2. /\ Becomes(n, q) /\ q.pc \in {"missing", "loaded"}
        /\ q.retries = task[n].retries /\ task[n].pc \in {"queued", "waiting"}
    BY <1>1, <1>7, <2>1 DEF Load, Task
  <2>3. Repeats(q) /\ (Uncounted(q) <=> Uncounted(task[n]))
    BY <1>1, <2>2 DEF Repeats, Uncounted
  <2>4. UNCHANGED <<queued, again, faults>>
    BY <1>7 DEF Load
  <2>5. Becomes(n, q)
    BY <2>2
  <2> QED  BY <1>5, <2>3, <2>4, <2>5
<1>8. ASSUME NEW n \in Tasks, Send(n) PROVE Drifts
  <2>1. PICK a \in Answers(task[n].status) :
              Becomes(n, [task[n] EXCEPT !.pc = "answered",
                                         !.result = a.result,
                                         !.status = a.status,
                                         !.accepted = @ + a.accepted,
                                         !.unheard = @ + a.unheard])
    BY <1>8 DEF Send
  <2>2. PICK q : q = [task[n] EXCEPT !.pc = "answered", !.result = a.result,
                                     !.status = a.status,
                                     !.accepted = @ + a.accepted,
                                     !.unheard = @ + a.unheard]
    OBVIOUS
  <2>3. Becomes(n, q) /\ task[n].pc = "sending"
    BY <1>8, <2>1, <2>2 DEF Send
  <2>4. /\ q.pc = "answered" /\ q.result = a.result
        /\ q.retries = task[n].retries
    BY <1>1, <2>2 DEF Task
  <2>5. a.result # "missing"
    BY DEF Answers, Answer
  <2>6. Repeats(q) /\ ~Uncounted(q) /\ ~Uncounted(task[n])
    BY <2>3, <2>4, <2>5 DEF Repeats, Uncounted
  <2> QED  BY <1>5, <1>8, <2>3, <2>6 DEF Send
<1>9. ASSUME NEW n \in Tasks, Commit(n) PROVE Drifts
  <2>1. PICK q : q = [task[n] EXCEPT
                        !.pc = IF task[n].result \in Temporary
                               THEN "deciding" ELSE task[n].result,
                        !.result = "none", !.seen = "none", !.status = "none"]
    OBVIOUS
  <2>2. Becomes(n, q) /\ task[n].pc = "answered"
    BY <1>9, <2>1 DEF Commit
  <2>3. /\ q.pc = IF task[n].result \in Temporary
                  THEN "deciding" ELSE task[n].result
        /\ q.retries = task[n].retries
    BY <1>1, <2>1 DEF Task
  <2>4. task[n].result \in Temporary \cup (Ends \ {"missing"})
    BY <1>1, <2>2 DEF SoundTasks, Sound, Repeats
  <2>5. q.pc \in {"deciding"} \cup (Ends \ {"missing"})
    BY <2>3, <2>4
  <2>6. Repeats(q) /\ ~Uncounted(q) /\ ~Uncounted(task[n])
    BY <2>2, <2>5 DEF Repeats, Uncounted, Ends
  <2> QED  BY <1>5, <1>9, <2>2, <2>6 DEF Commit
<1>11. ASSUME NEW n \in Tasks, NEW p \in {"dropped", "exhausted"},
              task[n].pc = "deciding",
              Becomes(n, [task[n] EXCEPT !.pc = p]),
              UNCHANGED <<queued, again>>, UNCHANGED faults \/ Fault
       PROVE  Drifts
  <2>1. PICK q : q = [task[n] EXCEPT !.pc = p]
    OBVIOUS
  <2>2. q.pc = p /\ Becomes(n, q)
    BY <1>1, <1>11, <2>1 DEF Task
  <2>3. Repeats(q) /\ ~Uncounted(q) /\ ~Uncounted(task[n])
    BY <1>11, <2>2 DEF Repeats, Uncounted
  <2> QED  BY <1>5, <1>11, <2>2, <2>3
<1>12. ASSUME NEW n \in Tasks, Retry(n) PROVE Drifts
  <2>1. PICK q : q = [task[n] EXCEPT !.pc = "waiting", !.retries = @ + 1]
    OBVIOUS
  <2>2. Becomes(n, q) /\ task[n].pc = "deciding"
    BY <1>12, <2>1 DEF Retry, MayRetry
  <2>3. q.pc = "waiting" /\ q.retries = task[n].retries + 1
    BY <1>1, <2>1 DEF Task
  <2>4. Repeats(q) /\ ~Uncounted(q) /\ ~Uncounted(task[n])
    BY <1>1, <2>2, <2>3 DEF Repeats, Uncounted
  <2> QED  BY <1>5, <1>12, <2>2, <2>4 DEF Retry, MayRetry
<1>13. ASSUME NEW n \in Tasks, Drop(n) \/ GiveUp(n) PROVE Drifts
  BY <1>11, <1>13 DEF Drop, GiveUp, MayRetry
<1>10. CASE (\E c \in Checks : DeleteCheck(c)) \/ UNCHANGED vars
  <2>1. UNCHANGED <<queued, task, again, faults>>
    BY <1>10 DEF DeleteCheck, vars
  <2> QED  BY <1>1, <2>1 DEF Drifts, Steady, NotCountedOff
<1> QED
  BY <1>2, <1>3, <1>4, <1>6, <1>7, <1>8, <1>9, <1>10, <1>12, <1>13
     DEF Next, Attempt

LEMMA NextDrift == TypeOK /\ SoundTasks /\ Drift /\ [Next]_vars => Drift'
<1> SUFFICES ASSUME TypeOK, SoundTasks, Drift, [Next]_vars  PROVE Drift'
  OBVIOUS
<1>1. Drifts /\ queued' \in Int /\ again' \in Nat /\ faults' \in Nat
  BY NextDrifts, NextSound DEF TypeOK
<1>2. /\ IsFiniteSet(NotCountedOff) /\ queued \in Int /\ again \in Nat
      /\ Cardinality(NotCountedOff) \in Nat
      /\ faults = 0 => queued = Cardinality(NotCountedOff) - again
  BY FS_CardinalityType DEF Drift, CountDriftsByRetries, TypeOK
<1>3. ASSUME IsFiniteSet(NotCountedOff'), NEW k \in Int,
             Cardinality(NotCountedOff') = Cardinality(NotCountedOff) + k,
             faults' = 0 => queued' + again' = queued + again + k
      PROVE  Drift'
  <2>1. faults' = 0 => queued' = Cardinality(NotCountedOff') - again'
    BY <1>1, <1>2, <1>3 DEF Drifts
  <2>2. CountDriftsByRetries'
    BY <2>1 DEF CountDriftsByRetries
  <2> QED  BY <1>1, <1>3, <2>2 DEF Drift, Drifts
<1>4. CASE Steady
  <2>1. /\ IsFiniteSet(NotCountedOff')
        /\ Cardinality(NotCountedOff') = Cardinality(NotCountedOff) + 0
    BY <1>2, <1>4 DEF Steady
  <2>2. faults' = 0 => queued' + again' = queued + again + 0
    BY <1>2, <1>4 DEF Steady
  <2> QED  BY <1>3, <2>1, <2>2
<1>5. ASSUME NEW n \in Tasks, Joins(n) PROVE Drift'
  <2>1. /\ IsFiniteSet(NotCountedOff')
        /\ Cardinality(NotCountedOff') = Cardinality(NotCountedOff) + 1
    BY <1>2, <1>5, FS_AddElement DEF Joins
  <2>2. faults' = 0 => queued' + again' = queued + again + 1
    BY <1>2, <1>5 DEF Joins
  <2> QED  BY <1>3, <2>1, <2>2
<1>6. ASSUME NEW n \in Tasks, Leaves(n) PROVE Drift'
  <2>1. /\ IsFiniteSet(NotCountedOff')
        /\ Cardinality(NotCountedOff') = Cardinality(NotCountedOff) + (-1)
    BY <1>2, <1>6, FS_RemoveElement DEF Leaves
  <2>2. faults' = 0 => queued' + again' = queued + again + (-1)
    BY <1>2, <1>6 DEF Leaves
  <2> QED  BY <1>3, <2>1, <2>2
<1> QED  BY <1>1, <1>4, <1>5, <1>6 DEF Drifts

LEMMA InitDrift == Init => Drift
<1> SUFFICES ASSUME Init PROVE Drift
  OBVIOUS
<1>1. NotCountedOff = {}
  BY DEF Init, NoTask, NotCountedOff
<1> QED  BY <1>1, FS_EmptySet DEF Init, NoTask, Drift, Repeats,
                                  CountDriftsByRetries

\* Without faults the counter of queued notifications is off by exactly the
\* repeated attempts, and by the tasks whose check was gone.
THEOREM CounterDriftsByRetries == Spec => []CountDriftsByRetries
<1>1. Drift => CountDriftsByRetries
  BY DEF Drift
<1> QED  BY <1>1, InitSound, InitDrift, NextSound, NextDrift, PTL DEF Spec

=============================================================================
