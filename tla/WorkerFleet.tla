----------------------------- MODULE WorkerFleet -----------------------------
(***************************************************************************)
(* How the web processes count the workers that are online.                *)
(*                                                                         *)
(* A worker adds itself to a set in Redis once, and renews a heartbeat key *)
(* that expires.  The collector of each web process reads the set, asks    *)
(* for every heartbeat, and takes whom it finds without one out of the     *)
(* set.  All of these are calls of their own, between which anything may   *)
(* happen.                                                                 *)
(*                                                                         *)
(* A tick is a part of the heartbeat interval.  A beat that is due is made *)
(* or missed before the next tick: one that comes later counts as missed.  *)
(***************************************************************************)
EXTENDS Integers, FiniteSets

CONSTANTS
    Workers,    \* processes; one that restarts has a new identity
    Collectors, \* web processes
    TTL,        \* _HEARTBEAT_TTL in ticks
    Interval,   \* _HEARTBEAT_INTERVAL in ticks
    MaxFaults,  \* bound: errors of Redis and missed beats
    Nobody

ASSUME FleetAssumption ==
    /\ TTL \in Nat \ {0} /\ Interval \in Nat \ {0} /\ 2 * Interval < TTL
    /\ MaxFaults \in Nat /\ Nobody \notin Workers

VARIABLES
    members, \* metrics:workers_online:set
    beat,    \* what is left of each heartbeat key, 0 when there is none
    worker,  \* what each worker is doing
    pass,    \* what each collector is doing
    shown,   \* the workers that each collector counted last
    faults,  \* errors so far
    excused  \* history: workers found without a heartbeat for a reason

vars == <<members, beat, worker, pass, shown, faults, excused>>

-----------------------------------------------------------------------------
(* Types.                                                                  *)

\* reg: how far _worker_register has come; due: ticks until the next beat;
\* missed: beats missed in a row; beaten: whether there ever was one.
Worker == [pc : {"off", "up", "leaving", "erased", "down"},
           reg : {"none", "todo", "added", "done", "failed"},
           due : 0..Interval, missed : Nat, beaten : BOOLEAN]

NoWorker == [pc |-> "off", reg |-> "none", due |-> 0, missed |-> 0,
             beaten |-> FALSE]

Pass == [pc : {"idle", "looking", "removing"}, todo : SUBSET Workers,
         found : SUBSET Workers, at : Workers \cup {Nobody}]

NoPass == [pc |-> "idle", todo |-> {}, found |-> {}, at |-> Nobody]

Init ==
    /\ members = {}
    /\ beat = [w \in Workers |-> 0]
    /\ worker = [w \in Workers |-> NoWorker]
    /\ pass = [k \in Collectors |-> NoPass]
    /\ shown = [k \in Collectors |-> {}]
    /\ faults = 0 /\ excused = {}

Becomes(w, q) == worker' = [worker EXCEPT ![w] = q]

Fault == faults < MaxFaults /\ faults' = faults + 1

\* The event loop of the worker is running.
Running(w) == worker[w].pc \in {"up", "leaving", "erased"}

-----------------------------------------------------------------------------
(* Workers.                                                                *)

\* worker_ready starts the registration and the loop of beats side by side.
Ready(w) ==
    /\ worker[w].pc = "off"
    /\ Becomes(w, [worker[w] EXCEPT !.pc = "up", !.reg = "todo"])
    /\ UNCHANGED <<members, beat, pass, shown, faults, excused>>

\* Mutant of Renewed: the key lives no longer than until the next beat.
RenewedShort(w) == [beat EXCEPT ![w] = Interval]

Renewed(w) == [beat EXCEPT ![w] = TTL]

RegisterAdd(w) ==
    /\ Running(w) /\ worker[w].reg = "todo"
    /\ members' = members \cup {w}
    /\ Becomes(w, [worker[w] EXCEPT !.reg = "added"])
    /\ UNCHANGED <<beat, pass, shown, faults, excused>>

RegisterBeat(w) ==
    /\ Running(w) /\ worker[w].reg = "added"
    /\ beat' = Renewed(w)
    /\ Becomes(w, [worker[w] EXCEPT !.reg = "done", !.beaten = TRUE])
    /\ UNCHANGED <<members, pass, shown, faults, excused>>

\* An error ends the registration; it is logged and not repeated.
RegisterFail(w) ==
    /\ Running(w) /\ worker[w].reg \in {"todo", "added"}
    /\ Fault
    /\ Becomes(w, [worker[w] EXCEPT !.reg = "failed"])
    /\ UNCHANGED <<members, beat, pass, shown, excused>>

\* The loop of beats goes on while a worker is shutting down.
Beat(w) ==
    /\ Running(w) /\ worker[w].due = 0
    /\ beat' = Renewed(w)
    /\ Becomes(w, [worker[w] EXCEPT !.due = Interval, !.missed = 0,
                                    !.beaten = TRUE])
    /\ UNCHANGED <<members, pass, shown, faults, excused>>

MissBeat(w) ==
    /\ Running(w) /\ worker[w].due = 0
    /\ Fault
    /\ Becomes(w, [worker[w] EXCEPT !.due = Interval, !.missed = @ + 1])
    /\ UNCHANGED <<members, beat, pass, shown, excused>>

Shutdown(w) ==
    /\ worker[w].pc = "up"
    /\ Becomes(w, [worker[w] EXCEPT !.pc = "leaving"])
    /\ UNCHANGED <<members, beat, pass, shown, faults, excused>>

UnregisterErase(w) ==
    /\ worker[w].pc = "leaving"
    /\ beat' = [beat EXCEPT ![w] = 0]
    /\ Becomes(w, [worker[w] EXCEPT !.pc = "erased"])
    /\ UNCHANGED <<members, pass, shown, faults, excused>>

UnregisterRemove(w) ==
    /\ worker[w].pc = "erased"
    /\ members' = members \ {w}
    /\ Becomes(w, [NoWorker EXCEPT !.pc = "down"])
    /\ UNCHANGED <<beat, pass, shown, faults, excused>>

\* The process is killed, or ends before its last calls were made.
Die(w) ==
    /\ Running(w)
    /\ Becomes(w, [NoWorker EXCEPT !.pc = "down"])
    /\ UNCHANGED <<members, beat, pass, shown, faults, excused>>

-----------------------------------------------------------------------------
(* Collectors.                                                             *)

Moves(k, p) == pass' = [pass EXCEPT ![k] = p]

BeginPass(k) ==
    /\ pass[k].pc = "idle"
    /\ Moves(k, [NoPass EXCEPT !.pc = "looking", !.todo = members])
    /\ UNCHANGED <<members, beat, worker, shown, faults, excused>>

\* A worker has no heartbeat for a reason before its first one, after two
\* missed in a row, and when it is shutting down.
Excuse(w) ==
    \/ worker[w].pc # "up"
    \/ ~worker[w].beaten
    \/ worker[w].missed * Interval + Interval >= TTL

\* Mutant of HasBeat: whoever is in the set counts.
HasBeatAlways(w) == w \in Workers

HasBeat(w) == beat[w] > 0

LookUp(k, w) ==
    /\ pass[k].pc = "looking" /\ w \in pass[k].todo
    /\ IF HasBeat(w)
       THEN /\ Moves(k, [pass[k] EXCEPT !.todo = @ \ {w},
                                        !.found = @ \cup {w}])
            /\ UNCHANGED excused
       ELSE /\ Moves(k, [pass[k] EXCEPT !.pc = "removing", !.at = w,
                                        !.todo = @ \ {w}])
            /\ excused' = IF Excuse(w) THEN excused \cup {w} ELSE excused
    /\ UNCHANGED <<members, beat, worker, shown, faults>>

Remove(k) ==
    /\ pass[k].pc = "removing"
    /\ members' = members \ {pass[k].at}
    /\ Moves(k, [pass[k] EXCEPT !.pc = "looking", !.at = Nobody])
    /\ UNCHANGED <<beat, worker, shown, faults, excused>>

EndPass(k) ==
    /\ pass[k].pc = "looking" /\ pass[k].todo = {}
    /\ shown' = [shown EXCEPT ![k] = pass[k].found]
    /\ Moves(k, NoPass)
    /\ UNCHANGED <<members, beat, worker, faults, excused>>

\* After an error the count is zero until the next pass.
FailPass(k) ==
    /\ Fault
    /\ shown' = [shown EXCEPT ![k] = {}]
    /\ Moves(k, NoPass)
    /\ UNCHANGED <<members, beat, worker, excused>>

-----------------------------------------------------------------------------

\* Mutant of Less: the countdown does not stop.
LessThanNone(n) == n - 1

Less(n) == IF n > 0 THEN n - 1 ELSE 0

Tick ==
    /\ \A w \in Workers : Running(w) => worker[w].due > 0
    /\ beat' = [w \in Workers |-> Less(beat[w])]
    /\ worker' = [w \in Workers |-> [worker[w] EXCEPT !.due = Less(@)]]
    /\ UNCHANGED <<members, pass, shown, faults, excused>>

Collect(k) ==
    \/ BeginPass(k) \/ Remove(k) \/ EndPass(k)
    \/ \E w \in Workers : LookUp(k, w)

Next ==
    \/ \E w \in Workers :
         \/ Ready(w) \/ RegisterAdd(w) \/ RegisterBeat(w) \/ RegisterFail(w)
         \/ Beat(w) \/ MissBeat(w) \/ Shutdown(w)
         \/ UnregisterErase(w) \/ UnregisterRemove(w) \/ Die(w)
    \/ \E k \in Collectors : Collect(k) \/ FailPass(k)
    \/ Tick

Spec == Init /\ [][Next]_vars

\* The loop of a worker beats when it is due, time passes, and the collectors
\* never stop; a worker need not ever stop.
FairSpec ==
    /\ Spec /\ WF_vars(Tick)
    /\ \A w \in Workers : WF_vars(Beat(w))
    /\ \A k \in Collectors : WF_vars(Collect(k))

-----------------------------------------------------------------------------
(* Properties.                                                             *)

\* Every variable has the type its declaration says.
TypeOK ==
    /\ members \subseteq Workers /\ excused \subseteq Workers
    /\ beat \in [Workers -> 0..TTL]
    /\ worker \in [Workers -> Worker]
    /\ pass \in [Collectors -> Pass]
    /\ shown \in [Collectors -> SUBSET Workers]
    /\ faults \in Nat

\* A worker that is up and has registered is in the set, unless a collector
\* once found it without a heartbeat because it missed as many beats in a row
\* as a key outlives, or because it was looked for before its first beat.
\* Collectors that act on what they saw, registrations and expiries never
\* take a worker out that keeps its beat.
OmittedHasCause ==
    \A w \in Workers :
        worker[w].pc = "up" /\ worker[w].reg = "done" /\ w \notin members =>
            w \in excused

\* A worker that is down, however it came to that, is some day no longer
\* counted, and never again.
DownIsForgotten ==
    \A w \in Workers :
        worker[w].pc = "down" ~> [](\A k \in Collectors : w \notin shown[k])

=============================================================================
