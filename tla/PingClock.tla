----------------------------- MODULE PingClock -----------------------------
(***************************************************************************)
(* What the monitor promises about time, and nothing else: each check has  *)
(* a reference instant (its creation, then its pings) and a due instant    *)
(* that is always the same allowance later.  Pings may be recorded late or *)
(* out of order, but the two instants only ever move together, and nothing *)
(* but a ping moves them.  CheckLifecycle implements this specification    *)
(* for any overlap of requests and scans in which no check is edited.      *)
(***************************************************************************)
EXTENDS Integers

CONSTANTS Checks, Allowances

VARIABLES now, clock

vars == <<now, clock>>

NoClock == [state |-> "none", ref |-> 0, due |-> 0]
LostClock == [state |-> "gone", ref |-> 0, due |-> 0]

ClockFrom(ref, allow) == [state |-> "live", ref |-> ref, due |-> ref + allow]

Init == now = 0 /\ clock = [c \in Checks |-> NoClock]

Create(c) ==
    /\ clock[c] = NoClock
    /\ \E a \in Allowances : clock' = [clock EXCEPT ![c] = ClockFrom(now, a)]
    /\ UNCHANGED now

\* The ping of instant t is recorded.
Ping(c, t) ==
    /\ clock[c].state = "live"
    /\ clock' = [clock EXCEPT ![c] =
                    ClockFrom(t, clock[c].due - clock[c].ref)]
    /\ UNCHANGED now

Delete(c) ==
    /\ clock[c].state = "live"
    /\ clock' = [clock EXCEPT ![c] = LostClock]
    /\ UNCHANGED now

Tick == now' = now + 1 /\ UNCHANGED clock

Next ==
    \/ Tick
    \/ \E c \in Checks : \/ Create(c) \/ Delete(c)
                         \/ \E t \in 0..now : Ping(c, t)

Spec == Init /\ [][Next]_vars

=============================================================================
