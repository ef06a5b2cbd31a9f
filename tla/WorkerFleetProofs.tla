-------------------------- MODULE WorkerFleetProofs --------------------------
(***************************************************************************)
(* Theorems about WorkerFleet, for any number of workers, collectors and   *)
(* faults.                                                                 *)
(***************************************************************************)
EXTENDS WorkerFleet, TLAPS

\* The time since the last beat of a worker: whole intervals it missed, and
\* what has passed of the present one.
Silence(p) == p.missed * Interval + Interval - p.due

\* A key lives as long as the silence of its worker lets it.
Covered(p, left) ==
    /\ p.pc = "off" => ~p.beaten
    /\ p.pc = "up" /\ p.beaten => left + Silence(p) >= TTL

KeysCoverSilence == \A w \in Workers : Covered(worker[w], beat[w])

\* Nobody is about to be removed without a cause.
RemovalHasCause ==
    \A k \in Collectors : pass[k].pc = "removing" => pass[k].at \in excused

\* From the first half of its registration on, a worker that is up is in the
\* set, or was found without a heartbeat for a cause.
Registered(p) == p.pc = "up" /\ p.reg \in {"added", "done"}

ListedOrExcused ==
    \A w \in Workers : Registered(worker[w]) => w \in members \cup excused

FleetInv == TypeOK /\ KeysCoverSilence /\ RemovalHasCause /\ ListedOrExcused

-----------------------------------------------------------------------------
(* What a step of a worker and a step of a collector can do.               *)

WorkerStep(w) ==
    \/ Ready(w) \/ RegisterAdd(w) \/ RegisterBeat(w) \/ RegisterFail(w)
    \/ Beat(w) \/ MissBeat(w) \/ Shutdown(w)
    \/ UnregisterErase(w) \/ UnregisterRemove(w) \/ Die(w)

\* p becomes q, and what is left of the key of w becomes b.
WorkerMove(w, p, q, b) ==
    /\ q \in Worker /\ worker' = [worker EXCEPT ![w] = q]
    /\ b \in 0..TTL /\ beat' = [beat EXCEPT ![w] = b]
    /\ Covered(p, beat[w]) => Covered(q, b)
    /\ members' \in {members, members \cup {w}, members \ {w}}
    /\ Registered(q) => w \in members' \/ (Registered(p) /\ members' = members)
    /\ faults' \in Nat /\ UNCHANGED <<pass, shown, excused>>

\* One more missed beat is one more interval of silence.
LEMMA OneMoreInterval ==
    ASSUME NEW m \in Nat
    PROVE  /\ m * Interval \in Nat
           /\ (m + 1) * Interval = m * Interval + Interval
           /\ 0 * Interval = 0
BY FleetAssumption

LEMMA WorkerMoves ==
    ASSUME TypeOK, NEW w \in Workers, WorkerStep(w)
    PROVE  \E q, b : WorkerMove(w, worker[w], q, b)
<1>1. PICK p : p = worker[w]
  OBVIOUS
<1>2. /\ p \in Worker /\ p.missed \in Nat /\ p.missed + 1 \in Nat
      /\ p.due \in 0..Interval
      /\ beat[w] \in 0..TTL /\ beat = [beat EXCEPT ![w] = beat[w]]
      /\ TTL \in 0..TTL /\ 0 \in 0..TTL /\ TTL \in Nat /\ Interval \in Nat
      /\ Interval \in 0..Interval /\ 0 \in 0..Interval
      /\ faults \in Nat /\ faults + 1 \in Nat
  BY <1>1, FleetAssumption DEF TypeOK, Worker
<1>3. /\ p.missed * Interval \in Nat
      /\ (p.missed + 1) * Interval = p.missed * Interval + Interval
      /\ 0 * Interval = 0
  BY <1>2, OneMoreInterval
<1> USE DEF Becomes, WorkerMove, Covered, Silence, Registered, Running, Worker
<1>4. CASE Ready(w)
  <2>1. WorkerMove(w, p, [p EXCEPT !.pc = "up", !.reg = "todo"], beat[w])
    BY <1>1, <1>2, <1>4 DEF Ready
  <2> QED  BY <1>1, <2>1
<1>5. CASE RegisterAdd(w)
  <2>1. WorkerMove(w, p, [p EXCEPT !.reg = "added"], beat[w])
    BY <1>1, <1>2, <1>5 DEF RegisterAdd
  <2> QED  BY <1>1, <2>1
<1>6. CASE RegisterBeat(w)
  <2>1. PICK q : q = [p EXCEPT !.reg = "done", !.beaten = TRUE]
    OBVIOUS
  <2>2. /\ q \in Worker /\ q.pc = p.pc /\ q.pc # "off"
        /\ q.missed = p.missed /\ q.due = p.due
    BY <1>1, <1>2, <1>6, <2>1 DEF RegisterBeat
  <2>3. Covered(q, TTL)
    BY <1>2, <1>3, <2>2
  <2>4. WorkerMove(w, p, q, TTL)
    BY <1>1, <1>2, <1>6, <2>1, <2>2, <2>3
       DEF RegisterBeat, Renewed
  <2> QED  BY <1>1, <2>4
<1>7. CASE RegisterFail(w)
  <2>1. WorkerMove(w, p, [p EXCEPT !.reg = "failed"], beat[w])
    BY <1>1, <1>2, <1>7 DEF RegisterFail, Fault
  <2> QED  BY <1>1, <2>1
<1>8. CASE Beat(w)
  <2>1. PICK q : q = [p EXCEPT !.due = Interval, !.missed = 0, !.beaten = TRUE]
    OBVIOUS
  <2>2. /\ q \in Worker /\ q.pc = p.pc /\ q.pc # "off" /\ q.reg = p.reg
        /\ q.missed = 0 /\ q.due = Interval
    BY <1>1, <1>2, <1>8, <2>1 DEF Beat
  <2>3. Covered(q, TTL)
    BY <1>2, <1>3, <2>2
  <2>4. WorkerMove(w, p, q, TTL)
    BY <1>1, <1>2, <1>8, <2>1, <2>2, <2>3 DEF Beat, Renewed
  <2> QED  BY <1>1, <2>4
<1>9. CASE MissBeat(w)
  <2>1. PICK q : q = [p EXCEPT !.due = Interval, !.missed = p.missed + 1]
    OBVIOUS
  <2>2. /\ q \in Worker /\ q.pc = p.pc /\ q.reg = p.reg /\ q.beaten = p.beaten
        /\ q.missed = p.missed + 1 /\ q.due = Interval /\ p.due = 0
    BY <1>1, <1>2, <1>9, <2>1 DEF MissBeat
  <2>3. Covered(p, beat[w]) => Covered(q, beat[w])
    BY <1>2, <1>3, <2>2
  <2>4. WorkerMove(w, p, q, beat[w])
    BY <1>1, <1>2, <1>9, <2>1, <2>2, <2>3 DEF MissBeat, Fault
  <2> QED  BY <1>1, <2>4
<1>10. CASE Shutdown(w)
  <2>1. WorkerMove(w, p, [p EXCEPT !.pc = "leaving"], beat[w])
    BY <1>1, <1>2, <1>10 DEF Shutdown
  <2> QED  BY <1>1, <2>1
<1>11. CASE UnregisterErase(w)
  <2>1. WorkerMove(w, p, [p EXCEPT !.pc = "erased"], 0)
    BY <1>1, <1>2, <1>11 DEF UnregisterErase
  <2> QED  BY <1>1, <2>1
<1>12. CASE UnregisterRemove(w) \/ Die(w)
  <2>1. WorkerMove(w, p, [NoWorker EXCEPT !.pc = "down"], beat[w])
    BY <1>1, <1>2, <1>12 DEF UnregisterRemove, Die, NoWorker
  <2> QED  BY <1>1, <2>1
<1> QED  BY <1>4, <1>5, <1>6, <1>7, <1>8, <1>9, <1>10, <1>11, <1>12
         DEF WorkerStep

\* A pass becomes q; whoever it removes, and whom it is about to remove, was
\* found without a heartbeat for a cause.
CollectorMove(k, q) ==
    /\ q \in Pass /\ pass' = [pass EXCEPT ![k] = q]
    /\ q.pc = "removing" => q.at \in excused'
    /\ excused' \subseteq Workers /\ excused \subseteq excused'
    /\ members' \subseteq members /\ members \subseteq members' \cup excused
    /\ shown' \in [Collectors -> SUBSET Workers]
    /\ faults' \in Nat /\ UNCHANGED <<worker, beat>>

\* Whoever a collector finds without a heartbeat is silent for a cause.
LEMMA FoundSilent ==
    ASSUME TypeOK, KeysCoverSilence, NEW w \in Workers, ~HasBeat(w)
    PROVE  Excuse(w)
<1>1. /\ beat[w] = 0 /\ worker[w].missed \in Nat /\ TTL \in Nat
      /\ worker[w].due \in 0..Interval /\ worker[w].missed * Interval \in Nat
      /\ Interval \in Nat
  BY OneMoreInterval, FleetAssumption DEF TypeOK, Worker, HasBeat
<1>2. Covered(worker[w], beat[w])
  BY DEF KeysCoverSilence
<1> QED  BY <1>1, <1>2 DEF Excuse, Covered, Silence

LEMMA CollectorMoves ==
    ASSUME TypeOK, KeysCoverSilence, RemovalHasCause,
           NEW k \in Collectors, Collect(k) \/ FailPass(k)
    PROVE  \E q : CollectorMove(k, q)
<1>1. PICK p : p = pass[k]
  OBVIOUS
<1>2. /\ p \in Pass /\ (p.pc = "removing" => p.at \in excused)
      /\ excused \subseteq Workers /\ members \subseteq Workers
      /\ shown \in [Collectors -> SUBSET Workers]
      /\ faults \in Nat /\ faults + 1 \in Nat
  BY <1>1 DEF TypeOK, RemovalHasCause
<1> USE DEF Moves, CollectorMove, Pass, NoPass
<1>3. CASE BeginPass(k)
  <2>1. CollectorMove(k, [NoPass EXCEPT !.pc = "looking", !.todo = members])
    BY <1>1, <1>2, <1>3 DEF BeginPass
  <2> QED  BY <2>1
<1>4. CASE Remove(k)
  <2>1. CollectorMove(k, [p EXCEPT !.pc = "looking", !.at = Nobody])
    BY <1>1, <1>2, <1>4 DEF Remove
  <2> QED  BY <2>1
<1>5. CASE EndPass(k)
  <2>1. CollectorMove(k, NoPass)
    BY <1>1, <1>2, <1>5 DEF EndPass
  <2> QED  BY <2>1
<1>6. CASE FailPass(k)
  <2>1. CollectorMove(k, NoPass)
    BY <1>1, <1>2, <1>6 DEF FailPass, Fault
  <2> QED  BY <2>1
<1>7. ASSUME NEW w \in Workers, LookUp(k, w), HasBeat(w)
      PROVE  \E q : CollectorMove(k, q)
  <2>1. CollectorMove(k, [p EXCEPT !.todo = p.todo \ {w},
                                   !.found = p.found \cup {w}])
    BY <1>1, <1>2, <1>7 DEF LookUp
  <2> QED  BY <2>1
<1>8. ASSUME NEW w \in Workers, LookUp(k, w), ~HasBeat(w)
      PROVE  \E q : CollectorMove(k, q)
  <2>1. excused' = excused \cup {w}
    BY <1>8, FoundSilent DEF LookUp
  <2>2. CollectorMove(k, [p EXCEPT !.pc = "removing", !.at = w,
                                   !.todo = p.todo \ {w}])
    BY <1>1, <1>2, <1>8, <2>1 DEF LookUp
  <2> QED  BY <2>2
<1> QED  BY <1>3, <1>4, <1>5, <1>6, <1>7, <1>8 DEF Collect

\* A tick is the same for every worker.
LEMMA TickMoves ==
    ASSUME TypeOK, Tick, NEW w \in Workers
    PROVE  /\ worker'[w] \in Worker /\ beat'[w] \in 0..TTL
           /\ Registered(worker'[w]) => Registered(worker[w])
           /\ Covered(worker[w], beat[w]) => Covered(worker'[w], beat'[w])
<1>1. PICK p : p = worker[w]
  OBVIOUS
<1>2. /\ p \in Worker /\ p.missed \in Nat /\ p.due \in 0..Interval
      /\ beat[w] \in 0..TTL /\ TTL \in Nat /\ Interval \in Nat
      /\ p.missed * Interval \in Nat
  BY <1>1, OneMoreInterval, FleetAssumption DEF TypeOK, Worker
<1>3. /\ beat'[w] = Less(beat[w])
      /\ worker'[w] = [p EXCEPT !.due = Less(p.due)]
      /\ p.pc = "up" => p.due > 0
  BY <1>1 DEF Tick, Running
<1>4. Less(beat[w]) \in 0..TTL /\ Less(p.due) \in 0..Interval
  BY <1>2 DEF Less
<1>5. worker'[w] \in Worker /\ worker'[w].pc = p.pc
      /\ worker'[w].reg = p.reg /\ worker'[w].beaten = p.beaten
      /\ worker'[w].missed = p.missed /\ worker'[w].due = Less(p.due)
  BY <1>2, <1>3, <1>4 DEF Worker
<1> QED  BY <1>1, <1>2, <1>3, <1>4, <1>5 DEF Less, Covered, Silence, Registered

-----------------------------------------------------------------------------
(* The invariant.                                                          *)

LEMMA FleetStep == FleetInv /\ [Next]_vars => FleetInv'
<1> SUFFICES ASSUME FleetInv, [Next]_vars PROVE FleetInv'
  OBVIOUS
<1> USE DEF FleetInv
<1>t. /\ worker \in [Workers -> Worker] /\ beat \in [Workers -> 0..TTL]
      /\ pass \in [Collectors -> Pass] /\ members \subseteq Workers
      /\ excused \subseteq Workers /\ faults \in Nat
      /\ shown \in [Collectors -> SUBSET Workers]
  BY DEF TypeOK
<1>1. ASSUME NEW w \in Workers, WorkerStep(w)
      PROVE  FleetInv'
  <2>1. PICK q, b : WorkerMove(w, worker[w], q, b)
    BY <1>1, WorkerMoves
  <2>2. /\ worker' \in [Workers -> Worker] /\ beat' \in [Workers -> 0..TTL]
        /\ worker'[w] = q /\ beat'[w] = b
        /\ \A v \in Workers \ {w} : worker'[v] = worker[v] /\ beat'[v] = beat[v]
    BY <1>t, <2>1 DEF WorkerMove
  <2>3. TypeOK'
    BY <1>t, <2>1, <2>2 DEF WorkerMove, TypeOK
  <2>4. KeysCoverSilence'
    BY <2>1, <2>2 DEF WorkerMove, KeysCoverSilence
  <2>5. RemovalHasCause'
    BY <2>1 DEF WorkerMove, RemovalHasCause
  <2>6. ListedOrExcused'
    BY <2>1, <2>2 DEF WorkerMove, ListedOrExcused
  <2> QED  BY <2>3, <2>4, <2>5, <2>6
<1>2. ASSUME NEW k \in Collectors, Collect(k) \/ FailPass(k)
      PROVE  FleetInv'
  <2>1. PICK q : CollectorMove(k, q)
    BY <1>2, CollectorMoves
  <2>2. /\ pass' \in [Collectors -> Pass] /\ pass'[k] = q
        /\ \A l \in Collectors \ {k} : pass'[l] = pass[l]
    BY <1>t, <2>1 DEF CollectorMove
  <2>3. TypeOK'
    BY <1>t, <2>1, <2>2 DEF CollectorMove, TypeOK
  <2>4. KeysCoverSilence' /\ RemovalHasCause' /\ ListedOrExcused'
    BY <2>1, <2>2
       DEF CollectorMove, KeysCoverSilence, RemovalHasCause, ListedOrExcused
  <2> QED  BY <2>3, <2>4
<1>3. CASE Tick
  <2>1. /\ DOMAIN worker' = Workers /\ DOMAIN beat' = Workers
        /\ worker' = [w \in Workers |-> worker'[w]]
        /\ beat' = [w \in Workers |-> beat'[w]]
        /\ UNCHANGED <<members, pass, shown, faults, excused>>
    BY <1>3 DEF Tick
  <2>2. worker' \in [Workers -> Worker] /\ beat' \in [Workers -> 0..TTL]
    BY <1>3, <2>1, TickMoves
  <2>3. TypeOK'
    BY <2>1, <2>2 DEF TypeOK
  <2>4. KeysCoverSilence' /\ RemovalHasCause' /\ ListedOrExcused'
    BY <1>3, <2>1, TickMoves
       DEF KeysCoverSilence, RemovalHasCause, ListedOrExcused
  <2> QED  BY <2>3, <2>4
<1>4. CASE UNCHANGED vars
  BY <1>4 DEF vars, TypeOK, KeysCoverSilence, RemovalHasCause, ListedOrExcused
<1> QED  BY <1>1, <1>2, <1>3, <1>4 DEF Next, WorkerStep

LEMMA FleetInvariant == Spec => []FleetInv
<1>1. Init => FleetInv
  BY FleetAssumption
     DEF Init, FleetInv, TypeOK, Worker, NoWorker, Pass, NoPass, Covered,
         Registered, KeysCoverSilence, RemovalHasCause, ListedOrExcused
<1> QED  BY <1>1, FleetStep, PTL DEF Spec

\* Every variable keeps its type.
THEOREM TypeCorrect == Spec => []TypeOK
<1>1. FleetInv => TypeOK
  BY DEF FleetInv
<1> QED  BY <1>1, FleetInvariant, PTL

\* Collectors, expiries and registrations in any order never leave out a
\* worker that keeps its beat.
THEOREM OmissionsHaveCause == Spec => []OmittedHasCause
<1>1. FleetInv => OmittedHasCause
  BY DEF FleetInv, ListedOrExcused, Registered, OmittedHasCause
<1> QED  BY <1>1, FleetInvariant, PTL

=============================================================================
