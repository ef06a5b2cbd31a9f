------------------------- MODULE CheckCountersProofs -------------------------
(***************************************************************************)
(* Theorems about CheckCounters, for any number of requests, flush tasks   *)
(* and faults.                                                             *)
(***************************************************************************)
EXTENDS CheckCounters, FiniteSetTheorems, TLAPS

\* A request that moves counters at once is a pause.
MovedIsToggle == \A r \in Requests : req[r].pc = "moved" => req[r].op = "toggle"

\* Only a request that is done is in the buffer, in a batch or applied.
OnlyDone ==
    \A r \in Requests :
        \/ req[r].pc = "done"
        \/ r \notin buffer /\ applied[r] = 0 /\ \A f \in Slots : r \notin flush[f].batch

\* What is still in the buffer while a flush is in flight is in its batch, or
\* was added too late; what Redis answered was applied.
FlushedOf(r, f) ==
    /\ flush[f].pc # "none" /\ r \in buffer =>
         r \in flush[f].batch \cup history.late
    /\ flush[f].pc = "answered" /\ r \in flush[f].batch => applied[r] > 0

BatchesCover == \A r \in Requests, f \in Slots : FlushedOf(r, f)

Carries(f, r) == flush[f].pc # "none" /\ r \in flush[f].batch

\* A delete that no two flushes carried together is carried by one at most;
\* once it was applied, that one has its answer, and as long as the delete is
\* still in the buffer, that one is in flight.
SingleOf(r) ==
    /\ \A f, g \in Slots : Carries(f, r) /\ Carries(g, r) => f = g
    /\ applied[r] <= 1
    /\ applied[r] = 1 =>
         /\ \A f \in Slots : Carries(f, r) => flush[f].pc = "answered"
         /\ r \in buffer => \E f \in Slots : Carries(f, r)

Singles == \A r \in Requests \ history.doubled : SingleOf(r)

Tracked == OnlyDone /\ BatchesCover /\ Singles

CountersInv == TypeOK /\ MovedIsToggle /\ Tracked /\ LostHasCause

-----------------------------------------------------------------------------
(* What a step does to the requests, and to the buffer and its flushes.    *)

Stays ==
    \A r \in Requests :
        /\ req[r].pc = "done" => req'[r] = req[r]
        /\ req'[r].pc = "moved" => req'[r].op = "toggle"
        /\ Counted(r)' => Counted(r) \/ r \in buffer'

Grows ==
    /\ history.late \subseteq history'.late
    /\ history.failed \subseteq history'.failed
    /\ history.doubled \subseteq history'.doubled

Still == UNCHANGED <<buffer, flush, applied>>

Adding(r) ==
    /\ req[r].pc = "committed" /\ req'[r].pc = "done"
    /\ buffer' = buffer \cup {r} /\ UNCHANGED <<flush, applied>>
    /\ InFlight = {} \/ r \in history'.late

Sending(f) ==
    /\ flush[f].pc = "none"
    /\ flush' = [flush EXCEPT ![f] = [pc |-> "sent", batch |-> buffer]]
    /\ UNCHANGED <<buffer, applied>>
    /\ \A r \in buffer, g \in Slots : Carries(g, r) => r \in history'.doubled

Applying(f) ==
    /\ flush[f].pc = "sent"
    /\ flush' = [flush EXCEPT ![f].pc = "answered"]
    /\ applied' = [r \in Requests |-> IF r \in flush[f].batch
                                      THEN applied[r] + 1 ELSE applied[r]]
    /\ UNCHANGED buffer

Clearing ==
    /\ buffer' = {} /\ UNCHANGED applied
    /\ \A f \in Slots : flush'[f] \in {flush[f], NoFlush}
    /\ \/ buffer \subseteq history'.failed
       \/ \E f \in Slots : flush[f].pc = "answered"

Moves ==
    /\ Stays /\ Grows
    /\ \/ Still \/ Clearing
       \/ \E r \in Requests : Adding(r)
       \/ \E f \in Slots : Sending(f) \/ Applying(f)

-----------------------------------------------------------------------------
(* A move keeps what is tracked.                                           *)

LEMMA OnlyDoneKept ==
    ASSUME TypeOK, OnlyDone, Moves
    PROVE  OnlyDone'
<1> SUFFICES ASSUME NEW r \in Requests, req'[r].pc # "done"
             PROVE  /\ r \notin buffer' /\ applied'[r] = 0
                    /\ \A f \in Slots : r \notin flush'[f].batch
  BY DEF OnlyDone
<1>1. /\ req[r].pc # "done" /\ r \notin buffer /\ applied[r] = 0
      /\ \A f \in Slots : r \notin flush[f].batch
  BY DEF OnlyDone, Moves, Stays
<1>2. CASE Still
  BY <1>1, <1>2 DEF Still
<1>3. CASE Clearing
  BY <1>1, <1>3 DEF Clearing, NoFlush
<1>4. CASE \E q \in Requests : Adding(q)
  BY <1>1, <1>4 DEF Adding
<1>5. CASE \E f \in Slots : Sending(f)
  BY <1>1, <1>5 DEF Sending, TypeOK
<1>6. CASE \E f \in Slots : Applying(f)
  BY <1>1, <1>6 DEF Applying, TypeOK, Flush
<1> QED  BY <1>2, <1>3, <1>4, <1>5, <1>6 DEF Moves

LEMMA BatchesCoverKept ==
    ASSUME TypeOK, BatchesCover, Moves
    PROVE  BatchesCover'
<1> SUFFICES ASSUME NEW r \in Requests, NEW f \in Slots
             PROVE  FlushedOf(r, f)'
  BY DEF BatchesCover
<1>1. FlushedOf(r, f) /\ history.late \subseteq history'.late
      /\ applied[r] \in Nat /\ flush[f] \in Flush
  BY DEF BatchesCover, Moves, Grows, TypeOK
<1>2. CASE Still
  BY <1>1, <1>2 DEF Still, FlushedOf
<1>3. CASE Clearing
  BY <1>1, <1>3 DEF Clearing, NoFlush, FlushedOf
<1>4. CASE \E q \in Requests : Adding(q)
  BY <1>1, <1>4 DEF Adding, InFlight, FlushedOf
<1>5. CASE \E g \in Slots : Sending(g)
  BY <1>1, <1>5 DEF Sending, FlushedOf, TypeOK
<1>6. ASSUME NEW g \in Slots, Applying(g) PROVE FlushedOf(r, f)'
  <2>1. /\ flush'[f].batch = flush[f].batch
        /\ flush'[f].pc = IF f = g THEN "answered" ELSE flush[f].pc
        /\ flush[g].pc = "sent" /\ buffer' = buffer
        /\ applied'[r] = IF r \in flush[g].batch THEN applied[r] + 1
                                                 ELSE applied[r]
    BY <1>6 DEF Applying, TypeOK, Flush
  <2> QED  BY <1>1, <2>1 DEF FlushedOf
<1> QED  BY <1>2, <1>3, <1>4, <1>5, <1>6 DEF Moves

LEMMA SinglesKept ==
    ASSUME TypeOK, Tracked, Moves
    PROVE  Singles'
<1> SUFFICES ASSUME NEW r \in Requests, r \notin history'.doubled
             PROVE  SingleOf(r)'
  BY DEF Singles
<1>1. SingleOf(r) /\ applied[r] \in Nat /\ r \notin history.doubled
  BY DEF Tracked, Singles, Moves, Grows, TypeOK
<1>2. CASE Still
  BY <1>1, <1>2 DEF Still, SingleOf, Carries
<1>3. CASE Clearing
  BY <1>1, <1>3 DEF Clearing, NoFlush, SingleOf, Carries
<1>4. ASSUME NEW q \in Requests, Adding(q) PROVE SingleOf(r)'
  <2>1. CASE q = r
    BY <1>1, <1>4, <2>1 DEF Adding, SingleOf, Carries, Tracked, OnlyDone
  <2>2. CASE q # r
    BY <1>1, <1>4, <2>2 DEF Adding, SingleOf, Carries
  <2> QED  BY <2>1, <2>2
<1>5. ASSUME NEW g \in Slots, Sending(g) PROVE SingleOf(r)'
  <2>1. /\ \A f \in Slots : f # g => flush'[f] = flush[f]
        /\ flush[g].pc = "none" /\ flush'[g].batch = buffer
        /\ buffer' = buffer /\ applied' = applied
    BY <1>5 DEF Sending, TypeOK
  <2>2. CASE r \in buffer
    <3>1. \A f \in Slots : ~Carries(f, r)
      BY <1>5, <2>2 DEF Sending
    <3>2. applied[r] = 0
      BY <1>1, <2>2, <3>1 DEF SingleOf
    <3> QED  BY <2>1, <3>1, <3>2 DEF SingleOf, Carries
  <2>3. CASE r \notin buffer
    <3>1. \A f \in Slots : Carries(f, r)' => f # g /\ Carries(f, r)
      BY <2>1, <2>3 DEF Carries
    <3> QED  BY <1>1, <2>1, <2>3, <3>1 DEF SingleOf
  <2> QED  BY <2>2, <2>3
<1>6. ASSUME NEW g \in Slots, Applying(g) PROVE SingleOf(r)'
  <2>1. /\ \A f \in Slots :
             /\ flush'[f].batch = flush[f].batch
             /\ flush'[f].pc = IF f = g THEN "answered" ELSE flush[f].pc
        /\ flush[g].pc = "sent" /\ buffer' = buffer
        /\ applied'[r] = IF r \in flush[g].batch THEN applied[r] + 1
                                                 ELSE applied[r]
    BY <1>6 DEF Applying, TypeOK, Flush
  <2>2. \A f \in Slots : Carries(f, r)' <=> Carries(f, r)
    BY <2>1 DEF Carries
  <2>3. CASE r \in flush[g].batch
    <3>1. Carries(g, r) /\ applied[r] = 0
      BY <1>1, <2>1, <2>3 DEF SingleOf, Carries
    <3> QED  BY <1>1, <2>1, <2>2, <2>3, <3>1 DEF SingleOf
  <2>4. CASE r \notin flush[g].batch
    BY <1>1, <2>1, <2>2, <2>4 DEF SingleOf, Carries
  <2> QED  BY <2>3, <2>4
<1> QED  BY <1>2, <1>3, <1>4, <1>5, <1>6 DEF Moves

LEMMA LostKept ==
    ASSUME TypeOK, BatchesCover, LostHasCause, Moves
    PROVE  LostHasCause'
<1> SUFFICES ASSUME NEW r \in Requests,
                    Counted(r)', applied'[r] = 0, r \notin buffer'
             PROVE  r \in history'.late \cup history'.failed
  BY DEF LostHasCause
<1>1. Counted(r) /\ applied[r] \in Nat
  BY DEF Moves, Stays, TypeOK
<1>2. /\ history.late \subseteq history'.late
      /\ history.failed \subseteq history'.failed
      /\ applied[r] = 0 /\ r \notin buffer =>
           r \in history.late \cup history.failed
  BY <1>1 DEF Moves, Grows, LostHasCause
<1>3. CASE Still \/ (\E q \in Requests : Adding(q))
           \/ (\E f \in Slots : Sending(f))
  BY <1>2, <1>3 DEF Still, Adding, Sending
<1>4. CASE \E f \in Slots : Applying(f)
  BY <1>1, <1>2, <1>4 DEF Applying
<1>5. CASE Clearing
  <2>1. applied[r] = 0
    BY <1>5 DEF Clearing
  <2>2. CASE r \in buffer
    BY <1>2, <1>5, <2>1, <2>2 DEF Clearing, BatchesCover, FlushedOf
  <2>3. CASE r \notin buffer
    BY <1>2, <2>1, <2>3
  <2> QED  BY <2>2, <2>3
<1> QED  BY <1>3, <1>4, <1>5 DEF Moves

-----------------------------------------------------------------------------
(* Every step is such a move, and keeps the types.                         *)

Toggling(r) == ToggleMove(r) \/ ToggleCommit(r) \/ ToggleAbort(r)

Requesting(r) ==
    \/ \E op \in {"delete", "toggle"}, c \in Checks : Load(r, op, c)
    \/ Toggling(r) \/ DeleteCommit(r)

LEMMA Finite ==
    ASSUME NEW S \in SUBSET Requests
    PROVE  Cardinality(S) \in Nat
BY CountersAssumption, FS_Subset, FS_CardinalityType

LEMMA RequestMoves ==
    ASSUME TypeOK, MovedIsToggle, NEW r \in Requests, Requesting(r)
    PROVE  TypeOK' /\ Moves
<1>1. PICK q : q = req[r]
  OBVIOUS
<1>2. /\ q \in Request /\ history \in History /\ paused \in Int
      /\ paused - 1 \in Int /\ paused + 1 \in Int
      /\ faults \in Nat /\ faults + 1 \in Nat
      /\ q.pc = "moved" => q.op = "toggle"
  BY <1>1 DEF TypeOK, MovedIsToggle
<1> DEFINE Step(n) ==
      /\ n \in Request /\ req' = [req EXCEPT ![r] = n]
      /\ row' \in [Checks -> {"active", "paused", "gone"}]
      /\ paused' \in Int /\ faults' \in Nat /\ history' \in History /\ Grows
      /\ UNCHANGED <<mortal, seed, applied, process>>
      /\ q.pc # "done" /\ (n.pc \in {"moved", "done"} => n.op = "toggle")
<1>3. ASSUME NEW n, Step(n) PROVE TypeOK' /\ Moves
  <2>1. TypeOK'
    BY <1>3 DEF TypeOK, process
  <2>2. Stays
    BY <1>1, <1>3 DEF Stays, Counted, MovedIsToggle, TypeOK
  <2>3. Still
    BY <1>3 DEF Still, process
  <2> QED  BY <1>3, <2>1, <2>2, <2>3 DEF Moves
<1>4. ASSUME NEW op \in {"delete", "toggle"}, NEW c \in Checks, Load(r, op, c)
      PROVE  TypeOK' /\ Moves
  <2>1. PICK n : n = [pc |-> "loaded", op |-> op, check |-> c,
                      paused |-> row[c] = "paused"]
    OBVIOUS
  <2>2. n \in Request /\ n.pc = "loaded"
    BY <2>1 DEF Request, Active
  <2>3. history' \in History /\ Grows
    BY <1>2, <1>4 DEF Load, History, Grows
  <2>4. Step(n)
    BY <1>1, <1>4, <2>1, <2>2, <2>3 DEF Load, Becomes, TypeOK, hash
  <2> QED  BY <1>3, <2>4
<1>5. CASE ToggleMove(r)
  <2>1. PICK n : n = [q EXCEPT !.pc = "moved"]
    OBVIOUS
  <2>2. n \in Request /\ n.pc = "moved" /\ n.op = "toggle"
    BY <1>1, <1>2, <1>5, <2>1 DEF ToggleMove, Request, Active
  <2>3. /\ history' \in History /\ Grows /\ faults' \in Nat
        /\ paused' \in Int
    BY <1>2, <1>5 DEF ToggleMove, MovePaused, Fault, History, Grows
  <2>4. Step(n)
    BY <1>1, <1>5, <2>1, <2>2, <2>3 DEF ToggleMove, Becomes, TypeOK
  <2> QED  BY <1>3, <2>4
<1>6. CASE ToggleCommit(r)
  <2>1. PICK n : n = [q EXCEPT !.pc = "done"]
    OBVIOUS
  <2>2. n \in Request /\ n.pc = "done" /\ n.op = "toggle"
    BY <1>1, <1>2, <1>6, <2>1 DEF ToggleCommit, Request, Active
  <2>3. Grows /\ row' \in [Checks -> {"active", "paused", "gone"}]
    BY <1>6 DEF ToggleCommit, Grows, TypeOK
  <2>4. Step(n)
    BY <1>1, <1>2, <1>6, <2>1, <2>2, <2>3
       DEF ToggleCommit, Becomes, TypeOK, hash
  <2> QED  BY <1>3, <2>4
<1>7. CASE ToggleAbort(r)
  <2>1. PICK n : n = [q EXCEPT !.pc = "aborted"]
    OBVIOUS
  <2>2. n \in Request /\ n.pc = "aborted"
    BY <1>2, <2>1 DEF Request
  <2>3. history' \in History /\ Grows /\ faults' \in Nat
    BY <1>2, <1>7 DEF ToggleAbort, Fault, History, Grows
  <2>4. Step(n)
    BY <1>1, <1>2, <1>7, <2>1, <2>2, <2>3
       DEF ToggleAbort, Becomes, TypeOK, hash
  <2> QED  BY <1>3, <2>4
<1>8. CASE DeleteCommit(r)
  <2>1. PICK n : /\ n \in {[q EXCEPT !.pc = "committed"],
                           [q EXCEPT !.pc = "aborted"]}
                 /\ req' = [req EXCEPT ![r] = n]
    BY <1>1, <1>8 DEF DeleteCommit, Becomes
  <2>2. n \in Request /\ n.pc \in {"committed", "aborted"}
    BY <1>2, <2>1 DEF Request, Active
  <2>3. /\ Grows /\ faults' \in Nat
        /\ row' \in [Checks -> {"active", "paused", "gone"}]
    BY <1>2, <1>8 DEF DeleteCommit, Fault, Grows, TypeOK
  <2>4. Step(n)
    BY <1>1, <1>2, <1>8, <2>1, <2>2, <2>3 DEF DeleteCommit, hash
  <2> QED  BY <1>3, <2>4
<1> QED  BY <1>4, <1>5, <1>6, <1>7, <1>8 DEF Requesting, Toggling

LEMMA CountMoves ==
    ASSUME TypeOK, MovedIsToggle, NEW r \in Requests, Count(r)
    PROVE  TypeOK' /\ Moves
<1>1. PICK n : n = [req[r] EXCEPT !.pc = "done"]
  OBVIOUS
<1>2. /\ n \in Request /\ n.pc = "done" /\ req' = [req EXCEPT ![r] = n]
      /\ req[r].pc = "committed"
  BY <1>1 DEF Count, Becomes, TypeOK, Request, Active
<1>3. Cardinality(Starters) \in Nat
  <2>1. IsFiniteSet(Adds)
    <3>1. 1 \in Int /\ 3 \in Int
      OBVIOUS
    <3> QED  BY <3>1, FS_Interval, Zenon DEF Adds
  <2>2. Starters \in SUBSET Adds
    BY DEF Starters
  <2> QED  BY <2>1, <2>2, FS_Subset, FS_CardinalityType
<1>4. /\ waiting' \in Nat /\ ops' \in 0..MaxOps /\ history' \in History
      /\ Grows
  BY <1>3, CountersAssumption DEF Count, TypeOK, History, Grows
<1>5. TypeOK'
  BY <1>2, <1>4 DEF Count, TypeOK, hash
<1>6. Stays
  BY <1>2 DEF Count, Stays, Counted, MovedIsToggle, TypeOK
<1>7. r \in history'.late \/ InFlight = {}
  BY DEF Count, TypeOK, History
<1>8. Adding(r)
  BY <1>2, <1>7 DEF Count, Adding, TypeOK
<1> QED  BY <1>4, <1>5, <1>6, <1>8 DEF Moves

\* The requests are as they were.
LEMMA RequestsStay ==
    ASSUME MovedIsToggle, UNCHANGED req
    PROVE  Stays
BY DEF Stays, Counted, MovedIsToggle

LEMMA SendMoves ==
    ASSUME TypeOK, MovedIsToggle, NEW f \in Slots, SendBatch(f),
           waiting' \in Nat, stopping' \in BOOLEAN,
           UNCHANGED <<row, hash, seed, applied, req, buffer, ops, stale,
                       faults>>
    PROVE  TypeOK' /\ Moves
<1>1. [pc |-> "sent", batch |-> buffer] \in Flush
  BY DEF Flush, TypeOK
<1>2. /\ history' \in History /\ Grows
      /\ history'.doubled = history.doubled \cup
           {r \in buffer : \E g \in InFlight : r \in flush[g].batch}
  BY DEF SendBatch, Snapshot, TypeOK, History, Grows
<1>3. TypeOK'
  BY <1>1, <1>2 DEF SendBatch, Snapshot, TypeOK, hash
<1>4. Sending(f)
  BY <1>2 DEF SendBatch, Snapshot, Sending, Carries, InFlight
<1> QED  BY <1>2, <1>3, <1>4, RequestsStay DEF Moves

LEMMA ApplyMoves ==
    ASSUME TypeOK, MovedIsToggle, NEW f \in Slots, ApplyBatch(f)
    PROVE  TypeOK' /\ Moves
<1>1. flush[f] \in Flush /\ [flush[f] EXCEPT !.pc = "answered"] \in Flush
  BY DEF TypeOK, Flush
<1>2. paused' \in Int
  <2>1. {r \in flush[f].batch : req[r].paused} \in SUBSET Requests
    BY <1>1 DEF Flush
  <2> QED  BY <2>1, Finite DEF ApplyBatch, TypeOK
<1>3. applied' \in [Requests -> Nat]
  BY DEF ApplyBatch, TypeOK
<1>4. TypeOK'
  BY <1>1, <1>2, <1>3 DEF ApplyBatch, TypeOK
<1>5. Applying(f) /\ Grows
  BY DEF ApplyBatch, Applying, Grows
<1> QED  BY <1>4, <1>5, RequestsStay DEF ApplyBatch, Moves

\* A flush that ends, and a process that ends.
LEMMA ClearMoves ==
    ASSUME TypeOK, MovedIsToggle,
           \/ \E f \in Slots : EndFlush(f) \/ FailFlush(f)
           \/ Exit \/ Kill
    PROVE  TypeOK' /\ Moves
<1>1. /\ NoFlush \in Flush /\ 0 \in 0..MaxOps /\ history \in History
      /\ faults \in Nat /\ faults + 1 \in Nat
  BY CountersAssumption DEF NoFlush, Flush, TypeOK
<1> DEFINE Cleared ==
      /\ buffer' = {} /\ UNCHANGED <<row, hash, seed, applied>>
      /\ \A f \in Slots : flush'[f] \in {flush[f], NoFlush}
      /\ flush' \in [Slots -> Flush]
      /\ ops' \in 0..MaxOps /\ stale' \in BOOLEAN /\ waiting' \in Nat
      /\ stopping' \in BOOLEAN /\ faults' \in Nat
<1>2. ASSUME Cleared, Stays, Grows, history' \in History,
             req' \in [Requests -> Request],
             \/ buffer \subseteq history'.failed
             \/ \E f \in Slots : flush[f].pc = "answered"
      PROVE  TypeOK' /\ Moves
  <2>1. TypeOK'
    BY <1>2 DEF TypeOK, hash
  <2> QED  BY <1>2, <2>1 DEF Moves, Clearing
<1>3. ASSUME NEW f \in Slots, EndFlush(f) PROVE TypeOK' /\ Moves
  <2>1. Cleared
    BY <1>1, <1>3 DEF EndFlush, AfterFlush, TypeOK
  <2>2. Stays /\ Grows
    BY <1>3, RequestsStay DEF EndFlush, Grows
  <2> QED  BY <1>2, <1>3, <2>1, <2>2 DEF EndFlush, TypeOK
<1>4. ASSUME NEW f \in Slots, FailFlush(f) PROVE TypeOK' /\ Moves
  <2>1. Cleared
    BY <1>1, <1>4 DEF FailFlush, AfterFlush, Fault, TypeOK
  <2>2. flush[f].batch \subseteq Requests /\ buffer \subseteq Requests
    BY DEF TypeOK, Flush
  <2>3. /\ history' \in History /\ Grows
        /\ buffer \subseteq history'.failed
    BY <1>1, <1>4, <2>2 DEF FailFlush, History, Grows
  <2>4. Stays
    BY <1>4, RequestsStay DEF FailFlush
  <2> QED  BY <1>2, <1>4, <2>1, <2>3, <2>4 DEF FailFlush, TypeOK
<1>5. CASE Exit
  <2>1. Cleared
    BY <1>1, <1>5 DEF Exit, Fresh, TypeOK
  <2>2. Stays /\ Grows
    BY <1>5, RequestsStay DEF Exit, Grows
  <2>3. \E f \in Slots : flush[f].pc = "answered"
    BY <1>5 DEF Exit, Slots
  <2> QED  BY <1>2, <1>5, <2>1, <2>2, <2>3 DEF Exit, TypeOK
<1>6. CASE Kill
  <2>1. Cleared
    BY <1>1, <1>6 DEF Kill, Fresh, Fault, TypeOK
  <2>2. Lost \subseteq Requests /\ buffer \subseteq Lost
    BY DEF Lost, TypeOK, Flush
  <2>3. /\ history' \in History /\ Grows
        /\ buffer \subseteq history'.failed
    BY <1>1, <1>6, <2>2 DEF Kill, History, Grows
  <2>4. req' \in [Requests -> Request]
    BY <1>6 DEF Kill, TypeOK, Request
  <2>5. Stays
    <3> SUFFICES ASSUME NEW r \in Requests
                 PROVE  /\ req[r].pc = "done" => req'[r] = req[r]
                        /\ req'[r].pc = "moved" => req'[r].op = "toggle"
                        /\ Counted(r)' => Counted(r) \/ r \in buffer'
      BY DEF Stays
    <3>1. CASE req[r].pc \in Active
      <4>1. req'[r].pc = "aborted" /\ req[r].pc # "done"
        BY <1>6, <3>1 DEF Kill, TypeOK, Request, Active
      <4> QED  BY <4>1 DEF Counted
    <3>2. CASE req[r].pc \notin Active
      BY <1>6, <3>2 DEF Kill, Counted, MovedIsToggle
    <3> QED  BY <3>1, <3>2
  <2> QED  BY <1>2, <2>1, <2>3, <2>4, <2>5
<1> QED  BY <1>3, <1>4, <1>5, <1>6

\* What leaves the buffer, the batches and the requests alone.
Passing == UNCHANGED vars \/ SkipFlush \/ Age

LEMMA PassingMoves ==
    ASSUME TypeOK, MovedIsToggle, Passing
    PROVE  TypeOK' /\ Moves
<1>1. /\ UNCHANGED <<row, hash, seed, applied, req, buffer, ops, flush,
                     stopping, faults, history>>
      /\ stale' \in BOOLEAN /\ waiting' \in Nat
  <2>1. CASE UNCHANGED vars
    BY <2>1 DEF vars, hash, TypeOK
  <2>2. CASE SkipFlush
    <3>1. waiting' \in Nat
      BY <2>2 DEF SkipFlush, Due, TypeOK
    <3>2. stale' \in BOOLEAN
      BY <2>2 DEF SkipFlush
    <3> QED  BY <2>2, <3>1, <3>2 DEF SkipFlush
  <2>3. CASE Age
    BY <2>3 DEF Age, TypeOK
  <2> QED  BY <2>1, <2>2, <2>3 DEF Passing
<1>2. TypeOK'
  BY <1>1 DEF TypeOK, hash
<1>3. Stays /\ Grows /\ Still
  BY <1>1, RequestsStay DEF Grows, Still
<1> QED  BY <1>2, <1>3 DEF Moves

\* What happens to the rows and the counter outside of the process.
Outside ==
    \/ \E S \in SUBSET Checks : RemoveRows(S)
    \/ Expire \/ SeedRead \/ SeedWrite

LEMMA OutsideMoves ==
    ASSUME TypeOK, MovedIsToggle, Outside
    PROVE  TypeOK' /\ Moves
<1>1. history \in History /\ paused \in Int /\ faults \in Nat
  BY DEF TypeOK
<1>2. /\ UNCHANGED <<applied, req, buffer, ops, stale, waiting, flush,
                     stopping>>
      /\ history' \in History /\ Grows
  <2>1. ASSUME NEW S \in SUBSET Checks, RemoveRows(S)
        PROVE  history' \in History /\ Grows
    BY <1>1, <2>1 DEF RemoveRows, History, Grows
  <2>2. ASSUME Expire PROVE history' \in History /\ Grows
    BY <1>1, <2>2 DEF Expire, History, Grows
  <2>3. ASSUME SeedRead PROVE history' \in History /\ Grows
    BY <1>1, <2>3 DEF SeedRead, Grows
  <2>4. ASSUME SeedWrite PROVE history' \in History /\ Grows
    <3>1. seed \in Nat
      BY <2>4 DEF SeedWrite, TypeOK
    <3> QED  BY <1>1, <2>4, <3>1 DEF SeedWrite, History, Grows
  <2> QED  BY <2>1, <2>2, <2>3, <2>4
           DEF Outside, RemoveRows, Expire, SeedRead, SeedWrite, process
<1>3. row' \in [Checks -> {"active", "paused", "gone"}]
  BY DEF Outside, RemoveRows, Expire, SeedRead, SeedWrite, TypeOK
<1>4. paused' \in Int /\ mortal' \in BOOLEAN /\ faults' \in Nat
  <2>1. UNCHANGED mortal \/ mortal' = FALSE
    BY DEF Outside, RemoveRows, Expire, SeedRead, SeedWrite, hash
  <2>2. paused' \in Int
    <3>1. CASE SeedWrite
      BY <3>1 DEF SeedWrite, TypeOK
    <3>2. CASE Expire
      BY <3>2 DEF Expire
    <3>3. CASE UNCHANGED paused
      BY <1>1, <3>3
    <3> QED  BY <3>1, <3>2, <3>3 DEF Outside, RemoveRows, SeedRead, hash
  <2>3. faults' \in Nat
    <3>1. CASE SeedRead
      BY <1>1, <3>1 DEF SeedRead, Fault
    <3>2. CASE UNCHANGED faults
      BY <1>1, <3>2
    <3> QED  BY <3>1, <3>2 DEF Outside, RemoveRows, Expire, SeedWrite
  <2>4. mortal' \in BOOLEAN
    BY <2>1 DEF TypeOK
  <2> QED  BY <2>2, <2>3, <2>4
<1>5. seed' \in Nat \cup {NoSeed}
  <2>1. CASE SeedRead
    <3>1. {c \in Checks : row[c] = "paused"} \in SUBSET Checks
      OBVIOUS
    <3>2. Cardinality({c \in Checks : row[c] = "paused"}) \in Nat
      BY <3>1, CountersAssumption, FS_Subset, FS_CardinalityType
    <3> QED  BY <2>1, <3>2 DEF SeedRead
  <2> QED  BY <2>1 DEF Outside, RemoveRows, Expire, SeedWrite, TypeOK
<1>6. TypeOK'
  BY <1>2, <1>3, <1>4, <1>5 DEF TypeOK
<1>7. Stays /\ Still
  BY <1>2, RequestsStay DEF Still
<1> QED  BY <1>2, <1>6, <1>7 DEF Moves

LEMMA StopMoves ==
    ASSUME TypeOK, MovedIsToggle, Stop
    PROVE  TypeOK' /\ Moves
<1>1. CASE /\ SendBatch(Final) /\ stopping' = TRUE
           /\ UNCHANGED <<buffer, ops, stale, waiting>>
  <2>1. /\ Final \in Slots /\ waiting' \in Nat /\ stopping' \in BOOLEAN
        /\ UNCHANGED <<row, hash, seed, applied, req, faults>>
    BY <1>1 DEF Stop, Slots, TypeOK
  <2> QED  BY <1>1, <2>1, SendMoves
<1>2. CASE buffer = {} /\ Fresh /\ UNCHANGED history
  <2>1. NoFlush \in Flush /\ 0 \in 0..MaxOps
    BY CountersAssumption DEF NoFlush, Flush
  <2>2. TypeOK'
    BY <1>2, <2>1 DEF Stop, Fresh, TypeOK, hash
  <2>3. Stays /\ Grows
    BY <1>2, RequestsStay DEF Stop, Grows
  <2>4. Clearing
    BY <1>2 DEF Stop, Fresh, Clearing
  <2> QED  BY <2>2, <2>3, <2>4 DEF Moves
<1> QED  BY <1>1, <1>2 DEF Stop

LEMMA BeginMoves ==
    ASSUME TypeOK, MovedIsToggle, NEW f \in Flushes, BeginFlush(f)
    PROVE  TypeOK' /\ Moves
<1>1. f \in Slots /\ waiting' \in Nat /\ stopping' \in BOOLEAN
  BY DEF Slots, BeginFlush, Due, TypeOK
<1> QED  BY <1>1, SendMoves DEF BeginFlush

-----------------------------------------------------------------------------
(* The theorems.                                                           *)

LEMMA CountersInit == ASSUME Init PROVE CountersInv
<1>1. NoRequest \in Request /\ NoFlush \in Flush /\ 0 \in 0..MaxOps
  BY CountersAssumption DEF NoRequest, Request, NoFlush, Flush
<1>2. TypeOK
  <2>1. /\ row \in [Checks -> {"active", "paused", "gone"}]
        /\ applied \in [Requests -> Nat] /\ req \in [Requests -> Request]
        /\ flush \in [Slots -> Flush]
    BY <1>1 DEF Init
  <2>2. history \in History
    BY DEF Init, History
  <2>3. /\ paused \in Int /\ seed \in Nat \cup {NoSeed} /\ buffer \subseteq Requests /\ ops \in 0..MaxOps
        /\ waiting \in Nat /\ faults \in Nat
    BY <1>1 DEF Init
  <2>4. stale \in BOOLEAN /\ stopping \in BOOLEAN /\ mortal \in BOOLEAN
    BY DEF Init
  <2> QED  BY <2>1, <2>2, <2>3, <2>4 DEF TypeOK
<1>3. MovedIsToggle /\ LostHasCause
  BY DEF Init, MovedIsToggle, LostHasCause, Counted, NoRequest
<1>4. OnlyDone /\ BatchesCover /\ Singles
  BY DEF Init, NoFlush, OnlyDone, BatchesCover, FlushedOf, Singles, SingleOf,
         Carries
<1> QED  BY <1>2, <1>3, <1>4 DEF CountersInv, Tracked

LEMMA CountersStep ==
    ASSUME CountersInv, [Next]_vars
    PROVE  CountersInv'
<1>1. TypeOK /\ MovedIsToggle /\ Tracked /\ LostHasCause
  BY DEF CountersInv
<1>2. TypeOK' /\ Moves
  <2>1. CASE \E r \in Requests : Requesting(r)
    BY <1>1, <2>1, RequestMoves
  <2>2. CASE \E r \in Requests : Count(r)
    BY <1>1, <2>2, CountMoves
  <2>3. CASE \E f \in Flushes : BeginFlush(f)
    BY <1>1, <2>3, BeginMoves
  <2>4. CASE \E f \in Slots : ApplyBatch(f)
    BY <1>1, <2>4, ApplyMoves
  <2>5. CASE (\E f \in Slots : EndFlush(f) \/ FailFlush(f)) \/ Exit \/ Kill
    BY <1>1, <2>5, ClearMoves
  <2>6. CASE Passing
    BY <1>1, <2>6, PassingMoves
  <2>7. CASE Stop
    BY <1>1, <2>7, StopMoves
  <2>8. CASE Outside
    BY <1>1, <2>8, OutsideMoves
  <2> QED  BY <2>1, <2>2, <2>3, <2>4, <2>5, <2>6, <2>7, <2>8
           DEF Next, Requesting, Toggling, Passing, Outside
<1>3. MovedIsToggle'
  BY <1>2 DEF Moves, Stays, MovedIsToggle
<1>4. Tracked'
  BY <1>1, <1>2, OnlyDoneKept, BatchesCoverKept, SinglesKept DEF Tracked
<1>5. LostHasCause'
  BY <1>1, <1>2, LostKept DEF Tracked
<1> QED  BY <1>2, <1>3, <1>4, <1>5 DEF CountersInv

LEMMA CountersInvariant == Spec => []CountersInv
BY CountersInit, CountersStep, PTL DEF Spec

\* Every variable keeps its type, whatever coroutines interleave.
THEOREM TypeCorrect == Spec => []TypeOK
<1>1. CountersInv => TypeOK
  BY DEF CountersInv
<1> QED  BY <1>1, CountersInvariant, PTL

\* A delete that the buffered counters never applied was added while a flush
\* waited for Redis, or was in the hands of a flush or a process that failed;
\* a shutdown in good order loses nothing more.
THEOREM LossesHaveCause == Spec => []LostHasCause
<1>1. CountersInv => LostHasCause
  BY DEF CountersInv
<1> QED  BY <1>1, CountersInvariant, PTL

\* A delete is counted off twice only when two flushes carried it together.
THEOREM DoublesHaveCause == Spec => []TwiceHasCause
<1>1. CountersInv => TwiceHasCause
  <2> SUFFICES ASSUME CountersInv, NEW r \in Requests, r \notin history.doubled
               PROVE  ~(applied[r] > 1)
    BY DEF TwiceHasCause
  <2>1. applied[r] <= 1 /\ applied[r] \in Nat
    BY DEF CountersInv, Tracked, Singles, SingleOf, TypeOK
  <2> QED  BY <2>1
<1> QED  BY <1>1, CountersInvariant, PTL

-----------------------------------------------------------------------------
(* The counter of paused checks.  The balance survives a commit because    *)
(* the row is still as the request loaded it, and it survives a batch      *)
(* because the deletes in it have committed and none of them is counted    *)
(* twice within it.                                                        *)

\* A flush has request r, or will have it.
Buffered(r) == r \in buffer \/ \E f \in Slots : r \in flush[f].batch

\* A request works on a check; what was buffered or applied is a delete.
Sorted ==
    \A r \in Requests :
        /\ req[r].pc \in Active => req[r].check \in Checks
        /\ req[r].pc = "committed" \/ Buffered(r) \/ applied[r] > 0 =>
             req[r].op = "delete"

\* A request that has not raced another is alone on its check, ...
Alone ==
    history.raced = {} =>
        \A r, s \in Requests :
            /\ req[r].pc \in Active /\ req[s].pc \in Active
            /\ req[r].check = req[s].check
            => r = s

\* ... and the row is still as it has loaded it.
SeesOf(q) ==
    q.pc \in {"loaded", "moved"} =>
        row[q.check] = IF q.paused THEN "paused" ELSE "active"

SeesRow == history.raced = {} => \A r \in Requests : SeesOf(req[r])

\* A check that was taken away stays away.
RemovedGone == \A c \in history.removed : row[c] = "gone"

\* What the balance counts can be counted.
Countable == IsFiniteSet(PausedRows) /\ IsFiniteSet(Applications)

Balance ==
    Sorted /\ Alone /\ SeesRow /\ Countable /\ PausedBalanced

-----------------------------------------------------------------------------

\* What the rows and the counter were moved by elsewhere.
Ledger == <<history.removed, history.shift>>

\* A step that leaves alone what the balance counts keeps it.
LEMMA NothingCounted ==
    ASSUME Countable, PausedBalanced,
           history'.raced = {} /\ ~history'.parted =>
               /\ history.raced = {} /\ ~history.parted
               /\ UNCHANGED <<paused, Resuming, Pausing, Ledger>>,
           UNCHANGED <<PausedRows, PausedDeletes, Applications>>
    PROVE  Countable' /\ PausedBalanced'
<1>1. Countable'
  BY DEF Countable
<1> SUFFICES ASSUME history'.raced = {} /\ ~history'.parted
             PROVE  PausedBalanced'
  BY <1>1 DEF PausedBalanced
<1>2. UNCHANGED <<paused, Resuming, Pausing, PausedRows,
                  PausedDeletes, Applications, Ledger>>
  OBVIOUS
<1> QED  BY <1>2 DEF PausedBalanced, Ledger

-----------------------------------------------------------------------------
(* The requests.                                                           *)

\* A step that makes request r what n is, and touches no other request.
Only(r, n) ==
    /\ req' = [req EXCEPT ![r] = n]
    /\ UNCHANGED <<buffer, flush, applied>>
    /\ req[r].pc # "done"
    /\ n.pc \in Active => n.check \in Checks
    /\ n.pc \in {"committed"} => n.op = "delete"

\* Such a step buffers and applies nothing.
LEMMA OnlySorted ==
    ASSUME TypeOK, OnlyDone, Sorted, NEW r \in Requests, NEW n, Only(r, n)
    PROVE  Sorted'
<1> SUFFICES ASSUME NEW s \in Requests
             PROVE  /\ req'[s].pc \in Active => req'[s].check \in Checks
                    /\ (\/ req'[s].pc = "committed" \/ Buffered(s)'
                        \/ applied'[s] > 0) => req'[s].op = "delete"
  BY DEF Sorted
<1>1. Buffered(s)' <=> Buffered(s)
  BY DEF Only, Buffered
<1>2. CASE s = r
  <2>1. ~Buffered(r) /\ applied[r] = 0 /\ req'[r] = n
    BY DEF OnlyDone, Only, Buffered, TypeOK
  <2> QED  BY <1>1, <1>2, <2>1 DEF Only
<1>3. CASE s # r
  <2>1. req'[s] = req[s] /\ applied'[s] = applied[s]
    BY <1>3 DEF Only, TypeOK
  <2> QED  BY <1>1, <2>1 DEF Sorted
<1> QED  BY <1>2, <1>3

\* The applications stay: Redis was never sent a request that is not done.
LEMMA OnlyApplications ==
    ASSUME TypeOK, OnlyDone, NEW r \in Requests, NEW n, Only(r, n)
    PROVE  Applications' = Applications
<1>1. applied[r] = 0 /\ applied' = applied
  BY DEF OnlyDone, Only
<1>2. \A s \in Requests \ {r} :
        s \in PausedDeletes' <=> s \in PausedDeletes
  BY DEF Only, TypeOK, PausedDeletes
<1>3. \A p : p \notin {r} \X (1..applied[r])
  BY <1>1
<1>4. PausedDeletes \subseteq Requests /\ PausedDeletes' \subseteq Requests
  BY DEF PausedDeletes
<1>5. ASSUME NEW p
      PROVE  (\E s \in PausedDeletes' : p \in {s} \X (1..applied[s]))
                <=> (\E s \in PausedDeletes : p \in {s} \X (1..applied[s]))
  BY <1>2, <1>3, <1>4
<1> QED  BY <1>1, <1>5 DEF Applications

\* A step of r keeps it alone, and its view of the row, when the others see
\* their rows unchanged.
LEMMA OnlyAlone ==
    ASSUME TypeOK, Sorted, Alone, SeesRow, NEW r \in Requests, NEW n, Only(r, n),
           history'.raced = {} => history.raced = {},
           history'.raced = {} =>
             /\ n.pc \in Active =>
                  \/ req[r].pc \in Active /\ n.check = req[r].check
                  \/ \A s \in Requests : req[s].pc \in Active
                                           => req[s].check # n.check
             /\ SeesOf(n)'
             /\ \A c \in Checks : row'[c] # row[c] =>
                  req[r].pc \in Active /\ c = req[r].check
    PROVE  Alone' /\ SeesRow'
<1> SUFFICES ASSUME history'.raced = {}
             PROVE  /\ \A p, s \in Requests :
                         /\ req'[p].pc \in Active /\ req'[s].pc \in Active
                         /\ req'[p].check = req'[s].check
                         => p = s
                    /\ \A s \in Requests : SeesOf(req[s])'
  BY DEF Alone, SeesRow
<1>1. req'[r] = n /\ \A s \in Requests \ {r} : req'[s] = req[s]
  BY DEF Only, TypeOK
<1>2. \A s \in Requests \ {r} : req[s].pc \in Active /\ n.pc \in Active
                                  => req[s].check # n.check
  BY DEF Alone
<1>3. ASSUME NEW s \in Requests \ {r} PROVE SeesOf(req[s])'
  <2>1. SeesOf(req[s]) /\ req'[s] = req[s]
    BY <1>1 DEF SeesRow
  <2>2. req[s].pc \in {"loaded", "moved"} =>
          row'[req[s].check] = row[req[s].check]
    <3> SUFFICES ASSUME req[s].pc \in {"loaded", "moved"}
                 PROVE  row'[req[s].check] = row[req[s].check]
      OBVIOUS
    <3>1. req[s].pc \in Active
      BY DEF Active
    <3> QED  BY <3>1 DEF Alone, Sorted
  <2>3. PICK q : q = req[s]
    OBVIOUS
  <2>4. SeesOf(q)'
    BY <2>1, <2>2, <2>3 DEF SeesOf
  <2> QED  BY <2>1, <2>3, <2>4
<1>4. SeesOf(req[r])'
  <2>1. n = req'[r] /\ SeesOf(n)'
    BY <1>1
  <2> QED  BY <2>1
<1> QED  BY <1>1, <1>2, <1>3, <1>4 DEF Alone

\* A request that loads a row changes no count.
LEMMA LoadBalances ==
    ASSUME TypeOK, OnlyDone, Balance, NEW r \in Requests,
           NEW op \in {"delete", "toggle"}, NEW c \in Checks, Load(r, op, c)
    PROVE  Balance'
<1>1. PICK n : n = [pc |-> "loaded", op |-> op, check |-> c,
                    paused |-> row[c] = "paused"]
  OBVIOUS
<1>2. Only(r, n) /\ req[r].pc = "idle" /\ n.pc = "loaded"
  BY <1>1 DEF Load, Becomes, Only, process, Active
<1>3. /\ history'.raced = {} =>
           /\ history.raced = {}
           /\ \A s \in Requests : req[s].pc \in Active => req[s].check # c
      /\ history'.parted = history.parted /\ UNCHANGED Ledger
  <2>1. CASE \E s \in Requests : req[s].check = c /\ req[s].pc \in Active
    BY <2>1 DEF Load, TypeOK, History, Ledger
  <2>2. CASE ~\E s \in Requests : req[s].check = c /\ req[s].pc \in Active
    BY <2>2 DEF Load, Ledger
  <2> QED  BY <2>1, <2>2
<1>4. Sorted' /\ Applications' = Applications
  BY <1>2, OnlySorted, OnlyApplications DEF Balance
<1>5. SeesOf(n)' /\ row' = row
  BY <1>1 DEF Load, SeesOf, TypeOK
<1>6. Alone' /\ SeesRow'
  BY <1>1, <1>2, <1>3, <1>5, OnlyAlone DEF Balance
<1>7. UNCHANGED <<paused, Resuming, Pausing, PausedRows,
                  PausedDeletes>>
  BY <1>2, <1>5 DEF Only, TypeOK, Load, hash, Pausing, Resuming, PausedRows,
                    PausedDeletes
<1> QED
  BY <1>3, <1>4, <1>6, <1>7, NothingCounted DEF Balance

\* The sets of requests that the balance counts are finite.
LEMMA CountedSets ==
    /\ IsFiniteSet(Pausing) /\ IsFiniteSet(Resuming)
    /\ IsFiniteSet(PausedDeletes)
    /\ Cardinality(Pausing) \in Nat /\ Cardinality(Resuming) \in Nat
    /\ Cardinality(PausedDeletes) \in Nat
<1>1. /\ Pausing \in SUBSET Requests /\ Resuming \in SUBSET Requests
      /\ PausedDeletes \in SUBSET Requests
  BY DEF Pausing, Resuming, PausedDeletes
<1> QED  BY <1>1, CountersAssumption, FS_Subset, FS_CardinalityType

\* What the balance counts are numbers.
LEMMA CountedNumbers ==
    ASSUME TypeOK, Balance
    PROVE  /\ paused \in Int /\ history.shift \in Int
           /\ Cardinality(history.removed) \in Nat
           /\ Cardinality(PausedRows) \in Nat
           /\ Cardinality(Applications) \in Nat
           /\ Cardinality(Pausing) \in Nat /\ Cardinality(Resuming) \in Nat
           /\ Cardinality(PausedDeletes) \in Nat
<1>1. history.removed \in SUBSET Checks /\ history.shift \in Int
  BY DEF TypeOK, History
<1> QED
  BY <1>1, CountersAssumption, CountedSets, FS_Subset, FS_CardinalityType
     DEF Balance, Countable, TypeOK

\* A toggle is counted as one that waits for its commit.
LEMMA MoveBalances ==
    ASSUME TypeOK, OnlyDone, Balance, NEW r \in Requests, ToggleMove(r)
    PROVE  Balance'
<1>1. PICK q \in Request : q = req[r]
  BY DEF TypeOK
<1>2. PICK n : n = [q EXCEPT !.pc = "moved"]
  OBVIOUS
<1>3. /\ n.pc = "moved" /\ n.op = q.op /\ n.check = q.check
      /\ n.paused = q.paused
  BY <1>2 DEF Request
<1>4. /\ Only(r, n) /\ q.pc = "loaded" /\ q.op = "toggle"
      /\ row' = row /\ history'.raced = history.raced
  BY <1>1, <1>2, <1>3
     DEF ToggleMove, Becomes, Only, process, Active, Balance, Sorted, TypeOK,
         History
<1>5. Sorted' /\ Applications' = Applications
  BY <1>4, OnlySorted, OnlyApplications DEF Balance
<1>6. Alone' /\ SeesRow'
  <2>1. history'.raced = {} => SeesOf(n)'
    BY <1>1, <1>3, <1>4 DEF SeesOf, Balance, SeesRow
  <2> QED  BY <1>1, <1>3, <1>4, <2>1, OnlyAlone DEF Balance, Active
<1>7. /\ req'[r] = n /\ \A s \in Requests \ {r} : req'[s] = req[s]
  BY <1>4 DEF Only, TypeOK
<1>8. UNCHANGED <<PausedRows, PausedDeletes>>
  BY <1>1, <1>3, <1>4, <1>7 DEF PausedRows, PausedDeletes
<1>9. CASE history'.parted
  BY <1>5, <1>6, <1>8, <1>9, NothingCounted DEF Balance
<1>10. CASE ~history'.parted
  <2>1. paused' = MovePaused(q) /\ history' = history
    BY <1>1, <1>10 DEF ToggleMove, TypeOK, History
  <2>2. CASE q.paused
    <3>1. /\ Resuming' = Resuming \cup {r} /\ r \notin Resuming
          /\ Pausing' = Pausing /\ paused' = paused - 1
      BY <1>1, <1>3, <1>4, <1>7, <2>1, <2>2 DEF Pausing, Resuming, MovePaused
    <3>2. Cardinality(Resuming') = Cardinality(Resuming) + 1
      BY <3>1, CountedSets, FS_AddElement
    <3>3. PausedBalanced'
      BY <1>5, <1>8, <2>1, <3>1, <3>2, CountedNumbers
         DEF Balance, PausedBalanced
    <3> QED  BY <1>5, <1>6, <1>8, <3>3 DEF Balance, Countable
  <2>3. CASE ~q.paused
    <3>1. /\ Pausing' = Pausing \cup {r} /\ r \notin Pausing
          /\ Resuming' = Resuming /\ paused' = paused + 1
      BY <1>1, <1>3, <1>4, <1>7, <2>1, <2>3 DEF Pausing, Resuming, MovePaused
    <3>2. Cardinality(Pausing') = Cardinality(Pausing) + 1
      BY <3>1, CountedSets, FS_AddElement
    <3>3. PausedBalanced'
      BY <1>5, <1>8, <2>1, <3>1, <3>2, CountedNumbers
         DEF Balance, PausedBalanced
    <3> QED  BY <1>5, <1>6, <1>8, <3>3 DEF Balance, Countable
  <2> QED  BY <2>2, <2>3
<1> QED  BY <1>9, <1>10

\* The row that a toggle commits takes the place of the toggle.
LEMMA CommitBalances ==
    ASSUME TypeOK, OnlyDone, MovedIsToggle, Balance, NEW r \in Requests,
           ToggleCommit(r)
    PROVE  Balance'
<1>1. PICK q \in Request : q = req[r]
  BY DEF TypeOK
<1>2. PICK n : n = [q EXCEPT !.pc = "done"]
  OBVIOUS
<1>3. /\ n.pc = "done" /\ n.op = q.op /\ n.check = q.check
      /\ n.paused = q.paused
  BY <1>2 DEF Request
<1>4. /\ Only(r, n) /\ q.pc = "moved" /\ q.op = "toggle"
      /\ history' = history /\ paused' = paused /\ q.check \in Checks
      /\ row' = [row EXCEPT ![q.check] = IF q.paused THEN "active"
                                                     ELSE "paused"]
  BY <1>1, <1>2, <1>3
     DEF ToggleCommit, Becomes, Only, process, Active, Balance, Sorted,
         MovedIsToggle, hash
<1>5. Sorted' /\ Applications' = Applications
  BY <1>4, OnlySorted, OnlyApplications DEF Balance
<1>6. Alone' /\ SeesRow'
  BY <1>1, <1>3, <1>4, OnlyAlone DEF Balance, Active, SeesOf, TypeOK
<1>7. /\ req'[r] = n /\ \A s \in Requests \ {r} : req'[s] = req[s]
  BY <1>4 DEF Only, TypeOK
<1>8. PausedDeletes' = PausedDeletes
  BY <1>1, <1>3, <1>4, <1>7 DEF PausedDeletes
<1>9. CASE q.paused
  <2>1. /\ Resuming' = Resuming \ {r} /\ r \in Resuming /\ Pausing' = Pausing
        /\ PausedRows' = PausedRows \ {q.check}
    BY <1>1, <1>3, <1>4, <1>7, <1>9 DEF Pausing, Resuming, PausedRows, TypeOK
  <2>2. /\ Cardinality(Resuming') = Cardinality(Resuming) - 1
        /\ IsFiniteSet(PausedRows) /\ Countable'
    BY <1>5, <2>1, CountedSets, FS_RemoveElement DEF Balance, Countable
  <2>3. history.raced = {} => q.check \in PausedRows
    BY <1>1, <1>4, <1>9 DEF Balance, SeesRow, SeesOf, PausedRows
  <2>4. history.raced = {} =>
          Cardinality(PausedRows') = Cardinality(PausedRows) - 1
    BY <2>1, <2>2, <2>3, FS_RemoveElement
  <2>5. PausedBalanced'
    BY <1>4, <1>5, <1>8, <2>1, <2>2, <2>4, CountedNumbers
       DEF Balance, PausedBalanced
  <2> QED  BY <1>5, <1>6, <2>2, <2>5 DEF Balance
<1>10. CASE ~q.paused
  <2>1. /\ Pausing' = Pausing \ {r} /\ r \in Pausing /\ Resuming' = Resuming
        /\ PausedRows' = PausedRows \cup {q.check}
    BY <1>1, <1>3, <1>4, <1>7, <1>10 DEF Pausing, Resuming, PausedRows, TypeOK
  <2>2. /\ Cardinality(Pausing') = Cardinality(Pausing) - 1
        /\ IsFiniteSet(PausedRows) /\ Countable'
    BY <1>5, <2>1, CountedSets, FS_AddElement, FS_RemoveElement
       DEF Balance, Countable
  <2>3. history.raced = {} => q.check \notin PausedRows
    BY <1>1, <1>4, <1>10 DEF Balance, SeesRow, SeesOf, PausedRows
  <2>4. history.raced = {} =>
          Cardinality(PausedRows') = Cardinality(PausedRows) + 1
    BY <2>1, <2>2, <2>3, FS_AddElement
  <2>5. PausedBalanced'
    BY <1>4, <1>5, <1>8, <2>1, <2>2, <2>4, CountedNumbers
       DEF Balance, PausedBalanced
  <2> QED  BY <1>5, <1>6, <2>2, <2>5 DEF Balance
<1> QED  BY <1>9, <1>10

\* A toggle that aborts has done only one of its two.
LEMMA AbortBalances ==
    ASSUME TypeOK, OnlyDone, MovedIsToggle, Balance, NEW r \in Requests,
           ToggleAbort(r)
    PROVE  Balance'
<1>1. PICK q \in Request : q = req[r]
  BY DEF TypeOK
<1>2. PICK n : n = [q EXCEPT !.pc = "aborted"]
  OBVIOUS
<1>3. /\ n.pc = "aborted" /\ n.op = q.op /\ n.check = q.check
      /\ n.paused = q.paused
  BY <1>2 DEF Request
<1>4. /\ Only(r, n) /\ q.pc = "moved" /\ q.op = "toggle" /\ row' = row
      /\ history'.raced = history.raced /\ history'.parted
  BY <1>1, <1>2, <1>3
     DEF ToggleAbort, Becomes, Only, process, hash, Active, MovedIsToggle,
         TypeOK, History
<1>5. Sorted' /\ Applications' = Applications
  BY <1>4, OnlySorted, OnlyApplications DEF Balance
<1>6. Alone' /\ SeesRow'
  BY <1>1, <1>3, <1>4, OnlyAlone DEF Balance, Active, SeesOf, TypeOK
<1>7. /\ req'[r] = n /\ \A s \in Requests \ {r} : req'[s] = req[s]
  BY <1>4 DEF Only, TypeOK
<1>8. UNCHANGED <<PausedRows, PausedDeletes>>
  BY <1>1, <1>3, <1>4, <1>7 DEF PausedRows, PausedDeletes
<1> QED  BY <1>4, <1>5, <1>6, <1>8, NothingCounted DEF Balance

\* A paused row that is deleted becomes a delete that was not applied.
LEMMA DeleteBalances ==
    ASSUME TypeOK, OnlyDone, Balance, NEW r \in Requests, DeleteCommit(r)
    PROVE  Balance'
<1>1. PICK q \in Request : q = req[r]
  BY DEF TypeOK
<1>2. /\ q.pc = "loaded" /\ q.op = "delete" /\ q.check \in Checks
      /\ history' = history /\ paused' = paused
      /\ UNCHANGED <<buffer, flush, applied>>
  BY <1>1 DEF DeleteCommit, Balance, Sorted, Active, process, hash
<1>3. PICK n : /\ n \in {[q EXCEPT !.pc = "committed"],
                         [q EXCEPT !.pc = "aborted"]}
               /\ req' = [req EXCEPT ![r] = n]
               /\ row' = IF n.pc = "aborted" THEN row
                         ELSE [row EXCEPT ![q.check] = "gone"]
  <2>1. /\ [q EXCEPT !.pc = "committed"].pc = "committed"
        /\ [q EXCEPT !.pc = "aborted"].pc = "aborted"
    BY DEF Request
  <2> QED  BY <1>1, <2>1 DEF DeleteCommit, Becomes
<1>4. /\ n.pc \in {"committed", "aborted"} /\ n.op = q.op
      /\ n.check = q.check /\ n.paused = q.paused
  BY <1>3 DEF Request
<1>5. Only(r, n)
  BY <1>1, <1>2, <1>3, <1>4 DEF Only
<1>6. Sorted' /\ Applications' = Applications
  BY <1>5, OnlySorted, OnlyApplications DEF Balance
<1>7. Alone' /\ SeesRow'
  BY <1>1, <1>2, <1>3, <1>4, <1>5, OnlyAlone
     DEF Balance, Active, SeesOf, TypeOK
<1>8. /\ req'[r] = n /\ \A s \in Requests \ {r} : req'[s] = req[s]
  BY <1>3 DEF TypeOK
<1>9. UNCHANGED <<Resuming, Pausing>>
  BY <1>1, <1>2, <1>4, <1>8 DEF Pausing, Resuming
<1>10. CASE n.pc = "aborted"
  <2>1. UNCHANGED <<PausedRows, PausedDeletes>>
    BY <1>1, <1>2, <1>3, <1>4, <1>8, <1>10 DEF PausedRows, PausedDeletes
  <2> QED
    BY <1>2, <1>6, <1>7, <1>9, <2>1, NothingCounted DEF Balance, Ledger
<1>11. CASE n.pc = "committed"
  <2>1. /\ PausedRows' = PausedRows \ {q.check}
        /\ PausedDeletes' = IF q.paused THEN PausedDeletes \cup {r}
                                        ELSE PausedDeletes
        /\ r \notin PausedDeletes
    BY <1>1, <1>2, <1>3, <1>4, <1>8, <1>11
       DEF PausedRows, PausedDeletes, TypeOK
  <2>2. IsFiniteSet(PausedRows) /\ Countable'
    BY <1>6, <2>1, FS_RemoveElement DEF Balance, Countable
  <2>3. history.raced = {} => (q.check \in PausedRows <=> q.paused)
    BY <1>1, <1>2 DEF Balance, SeesRow, SeesOf, PausedRows
  <2>4. /\ Cardinality(PausedDeletes') =
             IF q.paused THEN Cardinality(PausedDeletes) + 1
                         ELSE Cardinality(PausedDeletes)
        /\ Cardinality(PausedRows') =
             IF q.check \in PausedRows THEN Cardinality(PausedRows) - 1
                                       ELSE Cardinality(PausedRows)
    BY <2>1, <2>2, CountedSets, FS_AddElement, FS_RemoveElement
  <2>5. PausedBalanced'
    BY <1>2, <1>6, <1>9, <2>3, <2>4, CountedNumbers
       DEF PausedBalanced, Balance
  <2> QED  BY <1>6, <1>7, <2>2, <2>5 DEF Balance
<1> QED  BY <1>4, <1>10, <1>11

-----------------------------------------------------------------------------
(* The process.                                                            *)

\* Nothing new is buffered, and what the balance counts stays.
LEMMA BufferBalances ==
    ASSUME Balance, UNCHANGED <<row, paused, applied, req>>,
           history'.raced = history.raced, history'.parted = history.parted,
           UNCHANGED Ledger,
           \A r \in Requests : Buffered(r)' => Buffered(r)
    PROVE  Balance'
<1>1. Sorted'
  BY DEF Balance, Sorted
<1>2. Alone' /\ SeesRow'
  BY DEF Balance, Alone, SeesRow, SeesOf
<1>3. /\ UNCHANGED <<paused, Resuming, Pausing, PausedRows, PausedDeletes>>
      /\ Applications' = Applications
  BY DEF Resuming, Pausing, PausedRows, PausedDeletes, Applications
<1> QED  BY <1>1, <1>2, <1>3, NothingCounted DEF Balance

\* A committed delete is counted the same once it is buffered.
LEMMA CountBalances ==
    ASSUME TypeOK, Balance, NEW r \in Requests, Count(r)
    PROVE  Balance'
<1>1. PICK n : n = [req[r] EXCEPT !.pc = "done"]
  OBVIOUS
<1>2. /\ n.pc = "done" /\ n.op = req[r].op /\ n.check = req[r].check
      /\ n.paused = req[r].paused
      /\ req'[r] = n /\ req[r].pc = "committed"
      /\ \A s \in Requests \ {r} : req'[s] = req[s]
  BY <1>1 DEF Count, Becomes, TypeOK, Request
<1>3. /\ UNCHANGED <<row, paused, applied, flush, Ledger>>
      /\ history'.raced = history.raced /\ history'.parted = history.parted
      /\ buffer' = buffer \cup {r}
  BY DEF Count, TypeOK, History, hash, Ledger
<1>4. Sorted'
  <2> SUFFICES ASSUME NEW s \in Requests
               PROVE  /\ req'[s].pc \in Active => req'[s].check \in Checks
                      /\ (\/ req'[s].pc = "committed" \/ Buffered(s)'
                          \/ applied'[s] > 0) => req'[s].op = "delete"
    BY DEF Sorted
  <2>1. CASE s = r
    BY <1>2, <2>1 DEF Balance, Sorted, Active
  <2>2. CASE s # r
    BY <1>2, <1>3, <2>2 DEF Balance, Sorted, Buffered
  <2> QED  BY <2>1, <2>2
<1>5. Alone'
  BY <1>2, <1>3 DEF Balance, Alone, Active
<1>6. SeesRow'
  <2> SUFFICES ASSUME history.raced = {}, NEW s \in Requests
               PROVE  SeesOf(req[s])'
    BY <1>3 DEF SeesRow
  <2>1. CASE s = r
    BY <1>2, <2>1 DEF SeesOf
  <2>2. CASE s # r
    <3>1. SeesOf(req[s]) /\ req'[s] = req[s]
      BY <1>2, <2>2 DEF Balance, SeesRow
    <3> QED  BY <1>3, <3>1 DEF SeesOf
  <2> QED  BY <2>1, <2>2
<1>7. UNCHANGED <<paused, Resuming, Pausing, PausedRows, PausedDeletes>>
  BY <1>2, <1>3 DEF Resuming, Pausing, PausedRows, PausedDeletes
<1>8. Applications' = Applications
  BY <1>3, <1>7 DEF Applications
<1> QED  BY <1>3, <1>4, <1>5, <1>6, <1>7, <1>8, NothingCounted DEF Balance

\* Redis counts off every delete of the batch once more.
LEMMA ApplyBalances ==
    ASSUME TypeOK, OnlyDone, Balance, NEW f \in Slots, ApplyBatch(f)
    PROVE  Balance'
<1>1. PICK batch : batch = flush[f].batch /\ batch \subseteq Requests
  BY DEF TypeOK, Flush
<1>2. PICK off : off = {r \in batch : req[r].paused}
  OBVIOUS
<1>3. /\ UNCHANGED <<row, req, buffer, history>>
      /\ applied' = [r \in Requests |-> IF r \in batch THEN applied[r] + 1
                                                       ELSE applied[r]]
      /\ paused' = paused - Cardinality(off)
      /\ \A g \in Slots : flush'[g].batch = flush[g].batch
  BY <1>1, <1>2 DEF ApplyBatch, TypeOK, Flush
<1>4. /\ IsFiniteSet(off) /\ Cardinality(off) \in Nat
      /\ off \subseteq PausedDeletes
  <2>1. off \in SUBSET Requests
    BY <1>1, <1>2
  <2>2. off \subseteq PausedDeletes
    <3> SUFFICES ASSUME NEW r \in off PROVE r \in PausedDeletes
      OBVIOUS
    <3>1. r \in Requests /\ r \in flush[f].batch /\ req[r].paused
      BY <1>1, <1>2
    <3> QED  BY <3>1 DEF PausedDeletes, OnlyDone, Balance, Sorted, Buffered
  <2> QED  BY <2>1, <2>2, CountersAssumption, FS_Subset, FS_CardinalityType
<1>5. Sorted'
  <2>1. \A r \in Requests : Buffered(r)' <=> Buffered(r)
    BY <1>3 DEF Buffered
  <2>2. \A r \in Requests : applied'[r] > 0 => applied[r] > 0 \/ Buffered(r)
    BY <1>1, <1>3 DEF Buffered, TypeOK
  <2> QED  BY <1>3, <2>1, <2>2 DEF Balance, Sorted
<1>6. Alone' /\ SeesRow'
  BY <1>3 DEF Balance, Alone, SeesRow, SeesOf
<1>7. UNCHANGED <<Resuming, Pausing, PausedRows, PausedDeletes>>
  BY <1>3 DEF Resuming, Pausing, PausedRows, PausedDeletes
<1>8. PICK new : new = {<<r, applied[r] + 1>> : r \in off}
  OBVIOUS
<1>9. IsFiniteSet(new) /\ Cardinality(new) = Cardinality(off)
  <2>1. PICK pair : pair = [r \in off |-> <<r, applied[r] + 1>>]
    OBVIOUS
  <2>2. pair \in Bijection(off, new)
    BY <1>8, <2>1 DEF Bijection, Injection, Surjection, IsInjective
  <2> QED  BY <1>4, <2>2, FS_Bijection DEF ExistsBijection
<1>10. Applications' = Applications \cup new
  <2>1. ASSUME NEW p \in Applications'
        PROVE  p \in Applications \cup new
    <3>1. PICK r \in PausedDeletes : p \in {r} \X (1..applied'[r])
      BY <1>7, <2>1 DEF Applications
    <3>2. r \in Requests /\ req[r].paused /\ applied[r] \in Nat
      BY DEF PausedDeletes, TypeOK
    <3>3. PICK k \in 1..applied'[r] : p = <<r, k>>
      BY <3>1
    <3>4. CASE k \in 1..applied[r]
      BY <3>3, <3>4 DEF Applications
    <3>5. CASE k \notin 1..applied[r]
      <4>1. r \in batch /\ k = applied[r] + 1
        BY <1>3, <3>2, <3>3, <3>5
      <4> QED  BY <1>2, <1>8, <3>2, <3>3, <4>1
    <3> QED  BY <3>4, <3>5
  <2>2. ASSUME NEW p \in Applications  PROVE p \in Applications'
    <3>1. PICK r \in PausedDeletes : p \in {r} \X (1..applied[r])
      BY <2>2 DEF Applications
    <3>2. r \in Requests /\ applied[r] \in Nat
      BY DEF PausedDeletes, TypeOK
    <3>3. p \in {r} \X (1..applied'[r])
      BY <1>3, <3>1, <3>2
    <3> QED  BY <1>7, <3>3 DEF Applications
  <2>3. ASSUME NEW r \in off  PROVE <<r, applied[r] + 1>> \in Applications'
    <3>1. r \in PausedDeletes /\ r \in batch /\ r \in Requests
      BY <1>1, <1>2, <1>4
    <3>2. applied[r] \in Nat /\ applied'[r] = applied[r] + 1
      BY <1>3, <3>1 DEF TypeOK
    <3>3. <<r, applied[r] + 1>> \in {r} \X (1..applied'[r])
      BY <3>2
    <3> QED  BY <1>7, <3>1, <3>3 DEF Applications
  <2> QED  BY <1>8, <2>1, <2>2, <2>3
<1>11. Applications \cap new = {}
  <2> SUFFICES ASSUME NEW p \in Applications, p \in new  PROVE FALSE
    OBVIOUS
  <2>1. PICK r \in PausedDeletes : p \in {r} \X (1..applied[r])
    BY DEF Applications
  <2>2. PICK s \in off : p = <<s, applied[s] + 1>>
    BY <1>8
  <2>3. applied[r] \in Nat /\ s = r /\ applied[r] + 1 \in 1..applied[r]
    BY <2>1, <2>2 DEF PausedDeletes, TypeOK
  <2> QED  BY <2>3
<1>12. /\ Countable'
       /\ Cardinality(Applications') = Cardinality(Applications)
                                         + Cardinality(off)
  <2>1. IsFiniteSet(Applications) /\ Cardinality({}) = 0
    BY FS_EmptySet DEF Balance, Countable
  <2>2. Cardinality(Applications) \in Nat
    BY <2>1, FS_CardinalityType
  <2>3. /\ IsFiniteSet(Applications \cup new)
        /\ Cardinality(Applications \cup new) =
             Cardinality(Applications) + Cardinality(new)
               - Cardinality(Applications \cap new)
    BY <1>9, <2>1, FS_Union
  <2>4. Cardinality(Applications \cap new) = 0
    BY <1>11, <2>1
  <2>5. /\ IsFiniteSet(Applications')
        /\ Cardinality(Applications') = Cardinality(Applications)
                                          + Cardinality(off)
    BY <1>4, <1>9, <1>10, <2>2, <2>3, <2>4
  <2> QED  BY <1>7, <2>5 DEF Balance, Countable
<1>13. PausedBalanced'
  BY <1>3, <1>4, <1>7, <1>12, CountedNumbers DEF Balance, PausedBalanced
<1> QED  BY <1>5, <1>6, <1>12, <1>13 DEF Balance

\* A kill that finds a request between its two steps is no longer balanced.
LEMMA KillBalances ==
    ASSUME TypeOK, OnlyDone, Balance, Kill
    PROVE  Balance'
<1>1. /\ UNCHANGED <<row, paused, applied, Ledger>>
      /\ history'.raced = history.raced
      /\ \A r \in Requests :
           IF req[r].pc \in Active
           THEN /\ req'[r].pc = "aborted" /\ req'[r].op = req[r].op
                /\ req'[r].check = req[r].check
                /\ req'[r].paused = req[r].paused
           ELSE req'[r] = req[r]
      /\ \A r \in Requests : ~Buffered(r)'
  BY DEF Kill, Fresh, Buffered, NoFlush, TypeOK, History, Request, hash,
         Ledger
<1>2. Sorted'
  BY <1>1 DEF Balance, Sorted, Active
<1>3. Alone' /\ SeesRow'
  BY <1>1 DEF Balance, Alone, SeesRow, SeesOf, Active
<1>4. PausedRows' = PausedRows
  BY <1>1 DEF PausedRows
<1>5. history'.parted = (history.parted
          \/ \E r \in Requests : req[r].pc \in {"moved", "committed"})
  BY DEF Kill, TypeOK, History
<1>6. Applications' = Applications
  <2>1. \A r \in Requests :
          applied[r] > 0 => (r \in PausedDeletes' <=> r \in PausedDeletes)
    BY <1>1 DEF PausedDeletes, OnlyDone, Active, TypeOK
  <2>2. ASSUME NEW r \in Requests, NEW p, p \in {r} \X (1..applied[r])
        PROVE  applied[r] > 0
    BY <2>2 DEF TypeOK
  <2>3. PausedDeletes \subseteq Requests /\ PausedDeletes' \subseteq Requests
    BY DEF PausedDeletes
  <2>4. ASSUME NEW p
        PROVE (\E r \in PausedDeletes' : p \in {r} \X (1..applied[r]))
                 <=> (\E r \in PausedDeletes : p \in {r} \X (1..applied[r]))
    BY <2>1, <2>2, <2>3
  <2> QED  BY <1>1, <2>4 DEF Applications
<1>7. Countable'
  BY <1>4, <1>6 DEF Balance, Countable
<1>8. CASE history'.parted
  BY <1>2, <1>3, <1>7, <1>8 DEF Balance, PausedBalanced
<1>9. CASE ~history'.parted
  <2>1. \A r \in Requests : req[r].pc \notin {"moved", "committed"}
    BY <1>5, <1>9
  <2>2. UNCHANGED <<Resuming, Pausing, PausedDeletes>>
    BY <1>1, <2>1 DEF Resuming, Pausing, PausedDeletes, Active
  <2> QED
    BY <1>1, <1>2, <1>3, <1>4, <1>5, <1>6, <1>9, <2>2, NothingCounted
       DEF Balance
<1> QED  BY <1>8, <1>9

\* A batch is what the buffer holds.
LEMMA SendBalances ==
    ASSUME TypeOK, Balance, NEW f \in Slots, SendBatch(f),
           UNCHANGED <<row, paused, applied, req, buffer>>
    PROVE  Balance'
<1>1. /\ history'.raced = history.raced /\ history'.parted = history.parted
      /\ UNCHANGED Ledger
  BY DEF SendBatch, TypeOK, History, Ledger
<1>2. \A r \in Requests : Buffered(r)' => Buffered(r)
  BY DEF SendBatch, Snapshot, Buffered, TypeOK
<1> QED  BY <1>1, <1>2, BufferBalances

\* A flush that ends, a process that stops in good order, and a rest.
LEMMA ClearBalances ==
    ASSUME TypeOK, Balance,
           \/ \E f \in Slots : EndFlush(f) \/ FailFlush(f)
           \/ Exit \/ Passing \/ (Stop /\ Fresh /\ UNCHANGED history)
    PROVE  Balance'
<1>1. /\ UNCHANGED <<row, paused, applied, req, Ledger>>
      /\ history'.raced = history.raced /\ history'.parted = history.parted
  BY DEF EndFlush, FailFlush, Exit, Passing, SkipFlush, Age, vars, Stop,
         TypeOK, History, hash, Ledger
<1>2. /\ buffer' \in {buffer, {}}
      /\ \A f \in Slots : flush'[f] \in {flush[f], NoFlush}
  BY DEF EndFlush, FailFlush, AfterFlush, Exit, Fresh, Passing, SkipFlush,
         Age, vars, Stop, TypeOK
<1>3. \A r \in Requests : Buffered(r)' => Buffered(r)
  BY <1>2 DEF Buffered, NoFlush
<1> QED  BY <1>1, <1>3, BufferBalances

\* Checks that are taken away leave the paused rows uncounted.
LEMMA RemoveBalances ==
    ASSUME TypeOK, RemovedGone, Balance, NEW S \in SUBSET Checks,
           RemoveRows(S)
    PROVE  Balance'
<1>1. PICK out : out = {c \in S : row[c] = "paused"}
  OBVIOUS
<1>2. /\ UNCHANGED <<paused, applied, req, buffer, flush>>
      /\ \A c \in Checks : row'[c] = IF c \in S THEN "gone" ELSE row[c]
      /\ \A c \in S : row[c] # "gone"
      /\ history'.parted = history.parted
      /\ history'.shift = history.shift
      /\ history'.removed = history.removed \cup out
      /\ history'.raced = {} =>
           /\ history.raced = {}
           /\ \A r \in Requests : req[r].pc \in Active => req[r].check \notin S
  BY <1>1 DEF RemoveRows, TypeOK, History, hash, process
<1>3. Sorted'
  BY <1>2 DEF Balance, Sorted, Buffered
<1>4. Alone' /\ SeesRow'
  <2>1. Alone'
    BY <1>2 DEF Balance, Alone
  <2>2. ASSUME history'.raced = {}, NEW r \in Requests PROVE SeesOf(req[r])'
    <3>1. SeesOf(req[r]) /\ Sorted
      BY <1>2, <2>2 DEF Balance, SeesRow
    <3>2. CASE req[r].pc \in {"loaded", "moved"}
      <4>1. req[r].pc \in Active
        BY <3>2 DEF Active
      <4>2. row'[req[r].check] = row[req[r].check]
        BY <1>2, <2>2, <3>1, <4>1 DEF Sorted
      <4> QED  BY <1>2, <3>1, <4>2 DEF SeesOf
    <3>3. CASE req[r].pc \notin {"loaded", "moved"}
      BY <1>2, <3>3 DEF SeesOf
    <3> QED  BY <3>2, <3>3
  <2> QED  BY <2>1, <2>2 DEF SeesRow
<1>5. UNCHANGED <<Resuming, Pausing, PausedDeletes>>
  BY <1>2 DEF Resuming, Pausing, PausedDeletes
<1>6. Applications' = Applications
  BY <1>2, <1>5 DEF Applications
<1>7. /\ PausedRows' = PausedRows \ out /\ out \subseteq PausedRows
      /\ \A c \in out : row[c] = "paused"
  BY <1>1, <1>2 DEF PausedRows
<1>8. history.removed \cap out = {}
  BY <1>7 DEF RemovedGone
<1>9. IsFiniteSet(out) /\ IsFiniteSet(PausedRows)
       /\ IsFiniteSet(history.removed)
  <2>1. /\ out \in SUBSET Checks /\ PausedRows \in SUBSET Checks
        /\ history.removed \in SUBSET Checks
    BY <1>1 DEF PausedRows, TypeOK, History
  <2> QED  BY <2>1, CountersAssumption, FS_Subset
<1>10. /\ Cardinality(PausedRows') = Cardinality(PausedRows)
                                       - Cardinality(out)
       /\ Cardinality(history'.removed) = Cardinality(history.removed)
                                            + Cardinality(out)
       /\ IsFiniteSet(PausedRows')
  <2>1. PausedRows \cap out = out /\ Cardinality({}) = 0
    BY <1>7, FS_EmptySet
  <2>2. /\ Cardinality(out) \in Nat /\ Cardinality(PausedRows) \in Nat
        /\ Cardinality(history.removed) \in Nat
    BY <1>9, FS_CardinalityType
  <2>3. /\ IsFiniteSet(PausedRows \ out)
        /\ Cardinality(PausedRows \ out) =
             Cardinality(PausedRows) - Cardinality(PausedRows \cap out)
    BY <1>9, FS_Difference
  <2>4. Cardinality(history.removed \cup out) =
          Cardinality(history.removed) + Cardinality(out)
            - Cardinality(history.removed \cap out)
    BY <1>9, FS_Union
  <2>5. /\ Cardinality(PausedRows') = Cardinality(PausedRows)
                                        - Cardinality(out)
        /\ IsFiniteSet(PausedRows')
    BY <1>7, <2>1, <2>3
  <2>6. Cardinality(history'.removed) = Cardinality(history.removed)
                                          + Cardinality(out)
    <3>1. Cardinality(history.removed \cap out) = 0
      BY <1>8, <2>1
    <3> QED  BY <1>2, <2>2, <2>4, <3>1
  <2> QED  BY <2>5, <2>6
<1>11. Countable'
  BY <1>6, <1>10 DEF Balance, Countable
<1>12. PausedBalanced'
  <2>1. Cardinality(out) \in Nat
    BY <1>9, FS_CardinalityType
  <2> QED  BY <1>2, <1>5, <1>6, <1>10, <2>1, CountedNumbers
           DEF Balance, PausedBalanced
<1> QED  BY <1>3, <1>4, <1>11, <1>12 DEF Balance

\* The ledger moves with the counter, and counting the rows moves nothing.
LEMMA ShiftBalances ==
    ASSUME TypeOK, MovedIsToggle, Balance, Expire \/ SeedRead \/ SeedWrite
    PROVE  Balance'
<1>1. /\ UNCHANGED <<row, applied, req, buffer, flush>>
      /\ history'.raced = history.raced /\ history'.parted = history.parted
      /\ history'.removed = history.removed
  BY DEF Expire, SeedRead, SeedWrite, process, TypeOK, History
<1>2. history'.shift - history.shift = paused' - paused
  <2>1. history \in History /\ paused \in Int /\ history.shift \in Int
    BY DEF TypeOK, History
  <2>2. CASE SeedWrite
    <3>1. seed \in Nat
      BY <2>2 DEF SeedWrite, TypeOK
    <3> QED  BY <2>1, <2>2, <3>1 DEF SeedWrite, History
  <2> QED  BY <2>1, <2>2 DEF Expire, SeedRead, hash, History
<1>3. paused' \in Int /\ history'.shift \in Int
  BY OutsideMoves DEF Outside, TypeOK, History
<1>4. Sorted' /\ Alone' /\ SeesRow'
  BY <1>1 DEF Balance, Sorted, Buffered, Alone, SeesRow, SeesOf
<1>5. /\ UNCHANGED <<Resuming, Pausing, PausedRows, PausedDeletes>>
      /\ Applications' = Applications
  BY <1>1 DEF Resuming, Pausing, PausedRows, PausedDeletes, Applications
<1>6. Countable'
  BY <1>5 DEF Balance, Countable
<1>7. PausedBalanced'
  BY <1>1, <1>2, <1>3, <1>5, CountedNumbers DEF Balance, PausedBalanced
<1> QED  BY <1>4, <1>6, <1>7 DEF Balance

\* Nothing is counted at first.
LEMMA BalanceInit == ASSUME Init PROVE Balance
<1>1. Sorted /\ Alone /\ SeesRow
  BY DEF Init, NoRequest, NoFlush, Active, Buffered, Sorted, Alone, SeesRow,
         SeesOf
<1>2. /\ Pausing = {} /\ Resuming = {} /\ PausedDeletes = {}
      /\ PausedRows = {}
  BY DEF Init, NoRequest, Pausing, Resuming, PausedDeletes, PausedRows
<1>3. Applications = {}
  BY <1>2 DEF Applications
<1>4. /\ Cardinality({}) = 0 /\ IsFiniteSet({}) /\ paused = 0
      /\ history.removed = {} /\ history.shift = 0
  BY FS_EmptySet DEF Init
<1> QED  BY <1>1, <1>2, <1>3, <1>4 DEF Balance, Countable, PausedBalanced

\* No row comes back.
LEMMA RemovedStep ==
    ASSUME TypeOK, RemovedGone, [Next]_vars
    PROVE  RemovedGone'
<1>1. \A c \in Checks : row[c] = "gone" => row'[c] = "gone"
  <2>1. CASE \E r \in Requests : ToggleCommit(r)
    BY <2>1 DEF ToggleCommit, TypeOK
  <2>2. CASE \E r \in Requests : DeleteCommit(r)
    BY <2>2 DEF DeleteCommit, TypeOK
  <2>3. CASE \E S \in SUBSET Checks : RemoveRows(S)
    BY <2>3 DEF RemoveRows
  <2>4. CASE UNCHANGED row
    BY <2>4
  <2> QED
    BY <2>1, <2>2, <2>3, <2>4
       DEF Next, vars, Load, ToggleMove, ToggleAbort, Count, BeginFlush,
           ApplyBatch, EndFlush, FailFlush, SkipFlush, Age, Stop, Exit, Kill,
           Expire, SeedRead, SeedWrite
<1>2. \A c \in history'.removed :
        c \in history.removed \/ (c \in Checks /\ row'[c] = "gone")
  <2>1. ASSUME NEW S \in SUBSET Checks, RemoveRows(S),
               NEW c \in history'.removed
        PROVE  c \in history.removed \/ (c \in Checks /\ row'[c] = "gone")
    BY <2>1 DEF RemoveRows, TypeOK, History
  <2>2. CASE history'.removed = history.removed
    BY <2>2
  <2>3. history \in History
    BY DEF TypeOK
  <2>4. history'.removed = history.removed
          \/ \E S \in SUBSET Checks : RemoveRows(S)
    BY <2>3
       DEF Next, vars, Load, ToggleMove, ToggleCommit, ToggleAbort,
           DeleteCommit, Count, BeginFlush, SendBatch, ApplyBatch, EndFlush,
           FailFlush, SkipFlush, Age, Stop, Exit, Kill, Expire, SeedRead,
           SeedWrite, History
  <2> QED  BY <2>1, <2>2, <2>4
<1> QED  BY <1>1, <1>2 DEF RemovedGone, TypeOK, History

\* Every step keeps the balance.
LEMMA BalanceStep ==
    ASSUME TypeOK, OnlyDone, MovedIsToggle, RemovedGone, Balance,
           [Next]_vars
    PROVE  Balance'
<1>1. CASE \E r \in Requests : Requesting(r) \/ Count(r)
  BY <1>1, LoadBalances, MoveBalances, CommitBalances, AbortBalances,
     DeleteBalances, CountBalances DEF Requesting, Toggling
<1>2. CASE \E f \in Flushes : BeginFlush(f)
  BY <1>2, SendBalances DEF BeginFlush, Slots, hash
<1>3. CASE \E f \in Slots : ApplyBatch(f)
  BY <1>3, ApplyBalances
<1>4. CASE (\E f \in Slots : EndFlush(f) \/ FailFlush(f)) \/ Exit \/ Passing
  BY <1>4, ClearBalances
<1>5. CASE Stop
  <2>1. CASE SendBatch(Final) /\ UNCHANGED buffer
    <3>1. Final \in Slots /\ UNCHANGED <<row, paused, applied, req>>
      BY <1>5 DEF Stop, Slots, hash
    <3> QED  BY <2>1, <3>1, SendBalances
  <2>2. CASE Fresh /\ UNCHANGED history
    BY <1>5, <2>2, ClearBalances
  <2> QED  BY <1>5, <2>1, <2>2 DEF Stop
<1>6. CASE Kill
  BY <1>6, KillBalances
<1>7. CASE \E S \in SUBSET Checks : RemoveRows(S)
  BY <1>7, RemoveBalances
<1>8. CASE Expire \/ SeedRead \/ SeedWrite
  BY <1>8, ShiftBalances
<1> QED  BY <1>1, <1>2, <1>3, <1>4, <1>5, <1>6, <1>7, <1>8
         DEF Next, Requesting, Toggling, Passing

\* While no two worked on one check at once and no pause or delete did only
\* half of its work, the counter of paused checks that toggle_check_pause and
\* the buffered deletes keep in Redis is the number of paused rows, up to the
\* toggles on their way to their commit, the deletes that were not applied
\* exactly once, the rows that delete_user_and_data and the cleanup took, and
\* what the expiry of the hash and initialize_check_counts have moved it by.
THEOREM PausesBalance == Spec => []PausedBalanced
<1>1. CountersInv => TypeOK /\ OnlyDone /\ MovedIsToggle
  BY DEF CountersInv, Tracked
<1>2. Init => Balance /\ RemovedGone
  <2>1. Init => Balance
    BY BalanceInit
  <2>2. Init => RemovedGone
    BY DEF Init, RemovedGone
  <2> QED  BY <2>1, <2>2
<1>3. CountersInv /\ RemovedGone /\ Balance /\ [Next]_vars
        => Balance' /\ RemovedGone'
  BY <1>1, BalanceStep, RemovedStep
<1>4. Balance => PausedBalanced
  BY DEF Balance
<1> QED  BY <1>2, <1>3, <1>4, CountersInvariant, PTL DEF Spec

=============================================================================
