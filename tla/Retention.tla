------------------------------ MODULE Retention ------------------------------
(***************************************************************************)
(* What is kept of checks and of their pings, and for how long.            *)
(*                                                                         *)
(* A check is a row in the database and a hash in Redis, which holds the   *)
(* last pings and the content of the last one and never expires.  Pings    *)
(* write the hash in several calls; a delete, an account deletion and the  *)
(* periodic cleanup commit the removal of rows first and unlink the hashes *)
(* afterwards.                                                             *)
(***************************************************************************)
EXTENDS Integers, Sequences, FiniteSets

CONSTANTS
    Checks,
    Pings,
    Deletes,   \* requests that delete a check, or the account with all checks
    Sweeps,    \* cleanup tasks, one in every web process
    LogLength, \* pings that the log keeps
    Old,       \* CLEANUP_INACTIVE_DAYS in ticks
    MaxFaults, \* bound: errors of Redis or of the database, and kills
    None

ASSUME RetentionAssumption ==
    /\ LogLength \in Nat \ {0} /\ Old \in Nat \ {0} /\ MaxFaults \in Nat
    /\ None \notin Checks \cup Pings /\ Deletes \cap Sweeps = {}

Removals == Deletes \cup Sweeps

VARIABLES
    row,     \* the committed row of each check
    age,     \* ticks since it was created, up to Old
    quiet,   \* ticks since it was pinged, up to Old
    hash,    \* the runtime hash of each check
    ping,    \* what each ping is doing
    removal, \* what each delete and each cleanup is doing
    faults,  \* errors and kills so far
    written, \* history: the latest pings that wrote the log of each check
    excused  \* history: what may leave a log or a hash behind

vars == <<row, age, quiet, hash, ping, removal, faults, written, excused>>

-----------------------------------------------------------------------------
(* Types.                                                                  *)

\* content and lastPing: whether the field is there; the cleanup reads the
\* latter, and the pings write the others.
Hash == [log : Seq(Pings), content : BOOLEAN, lastPing : BOOLEAN]

NoHash == [log |-> <<>>, content |-> FALSE, lastPing |-> FALSE]

Ping == [pc : {"idle", "loaded", "read", "logged", "done"},
         check : Checks \cup {None}, seen : Seq(Pings)]

NoPing == [pc |-> "idle", check |-> None, seen |-> <<>>]

Removal == [pc : {"idle", "listed", "committed"}, all : BOOLEAN,
            checks : SUBSET Checks]

NoRemoval == [pc |-> "idle", all |-> FALSE, checks |-> {}]

\* mixed: checks of which two pings were between reading and writing the log,
\* or whose log could not be read; leaked: checks whose hash was not unlinked
\* after the last call that wrote it.
Excused == [mixed : SUBSET Checks, leaked : SUBSET Checks]

Init ==
    /\ row = [c \in Checks |-> "new"]
    /\ age = [c \in Checks |-> 0] /\ quiet = [c \in Checks |-> Old]
    /\ hash = [c \in Checks |-> NoHash]
    /\ ping = [p \in Pings |-> NoPing]
    /\ removal = [x \in Removals |-> NoRemoval]
    /\ faults = 0
    /\ written = [c \in Checks |-> <<>>]
    /\ excused = [mixed |-> {}, leaked |-> {}]

Live == {c \in Checks : row[c] = "live"}

Fault == faults < MaxFaults /\ faults' = faults + 1

-----------------------------------------------------------------------------
(* A ping.                                                                 *)

Pinging(c) == {p \in Pings : ping[p].check = c /\ ping[p].pc # "done"}

Advances(p, q) == ping' = [ping EXCEPT ![p] = q]

LoadCheck(p, c) ==
    /\ ping[p].pc = "idle" /\ c \in Live
    /\ Advances(p, [NoPing EXCEPT !.pc = "loaded", !.check = c])
    /\ UNCHANGED <<row, age, quiet, hash, removal, faults, written, excused>>

\* A log that cannot be read counts as empty.
ReadLog(p) ==
    LET c == ping[p].check
        others == {q \in Pinging(c) : ping[q].pc = "read"} IN
    /\ ping[p].pc = "loaded"
    /\ \/ /\ Advances(p, [ping[p] EXCEPT !.pc = "read", !.seen = hash[c].log])
          /\ excused' = IF others = {} THEN excused
                        ELSE [excused EXCEPT !.mixed = @ \cup {c}]
          /\ UNCHANGED faults
       \/ /\ Advances(p, [ping[p] EXCEPT !.pc = "read"])
          /\ excused' = [excused EXCEPT !.mixed = @ \cup {c}]
          /\ Fault
    /\ UNCHANGED <<row, age, quiet, hash, removal, written>>

Newest(s) == SubSeq(s, 1, IF Len(s) < LogLength THEN Len(s) ELSE LogLength)

\* Mutant of Entered: the entries are added at the end.
EnteredLast(p, log) == Newest(Append(log, p))

Entered(p, log) == Newest(<<p>> \o log)

\* The log of a check is written whether its row is still there or not.
WriteLog(p) ==
    LET c == ping[p].check IN
    /\ ping[p].pc = "read"
    /\ Advances(p, [ping[p] EXCEPT !.pc = "logged", !.seen = <<>>])
    /\ \/ /\ hash' = [hash EXCEPT ![c].log = Entered(p, ping[p].seen)]
          /\ written' = [written EXCEPT ![c] = Newest(<<p>> \o @)]
          /\ UNCHANGED faults
       \/ Fault /\ UNCHANGED <<hash, written>>
    /\ UNCHANGED <<row, age, quiet, removal, excused>>

\* The content follows, and the row is updated, if it is still there.
WriteContent(p) ==
    LET c == ping[p].check IN
    /\ ping[p].pc = "logged"
    /\ Advances(p, [ping[p] EXCEPT !.pc = "done"])
    /\ quiet' = [quiet EXCEPT ![c] = IF c \in Live THEN 0 ELSE @]
    /\ \/ hash' = [hash EXCEPT ![c].content = TRUE] /\ UNCHANGED faults
       \/ Fault /\ UNCHANGED hash
    /\ UNCHANGED <<row, age, removal, written, excused>>

-----------------------------------------------------------------------------
(* Deletes and the cleanup.                                                *)

Goes(x, r) == removal' = [removal EXCEPT ![x] = r]

DeleteCheck(x, c) ==
    /\ removal[x].pc = "idle" /\ c \in Live
    /\ Goes(x, [pc |-> "listed", all |-> FALSE, checks |-> {c}])
    /\ UNCHANGED <<row, age, quiet, hash, ping, faults, written, excused>>

\* The account remembers the checks it has, and deletes those it has then.
DeleteUser(x) ==
    /\ removal[x].pc = "idle" /\ Live # {}
    /\ Goes(x, [pc |-> "listed", all |-> TRUE, checks |-> Live])
    /\ UNCHANGED <<row, age, quiet, hash, ping, faults, written, excused>>

\* The cleanup spares a check that was pinged since, by a field of its hash.
Recent(c) == hash[c].lastPing

Inactive == {c \in Live : age[c] >= Old /\ ~Recent(c)}

Sweep(x) ==
    /\ removal[x].pc = "idle" /\ Inactive # {}
    /\ Goes(x, [pc |-> "listed", all |-> FALSE, checks |-> Inactive])
    /\ UNCHANGED <<row, age, quiet, hash, ping, faults, written, excused>>

\* Rows that are gone by now are only warned about.
CommitRemoval(x) ==
    LET r == removal[x]
        gone == IF r.all THEN Live ELSE r.checks \cap Live IN
    /\ r.pc = "listed"
    /\ row' = [c \in Checks |-> IF c \in gone THEN "gone" ELSE row[c]]
    /\ Goes(x, [r EXCEPT !.pc = "committed"])
    /\ excused' = [excused EXCEPT !.leaked = @ \cup (gone \ r.checks)]
    /\ UNCHANGED <<age, quiet, hash, ping, faults, written>>

AbortRemoval(x) ==
    /\ removal[x].pc = "listed" /\ Fault
    /\ Goes(x, NoRemoval)
    /\ UNCHANGED <<row, age, quiet, hash, ping, written, excused>>

\* Mutant of Unlinked: the runtime key is not among the keys.
UnlinkedOthers(checks) == hash

Unlinked(checks) == [c \in Checks |-> IF c \in checks THEN NoHash ELSE hash[c]]

\* The hash that a ping under way is about to write comes back.  A cleanup
\* would now look for unused accounts, but compares a date of theirs that
\* does not exist: it raises, and changes nothing more.
Unlink(x) ==
    LET checks == removal[x].checks IN
    /\ removal[x].pc = "committed"
    /\ hash' = Unlinked(checks)
    /\ Goes(x, NoRemoval)
    /\ excused' = [excused EXCEPT !.leaked =
                     @ \cup {c \in checks : Pinging(c) # {}}]
    /\ UNCHANGED <<row, age, quiet, ping, faults, written>>

\* An error is logged; a kill ends the removal likewise.
FailUnlink(x) ==
    /\ removal[x].pc = "committed" /\ Fault
    /\ Goes(x, NoRemoval)
    /\ excused' = [excused EXCEPT !.leaked = @ \cup removal[x].checks]
    /\ UNCHANGED <<row, age, quiet, hash, ping, written>>

-----------------------------------------------------------------------------
(* The world.                                                              *)

Create(c) ==
    /\ row[c] = "new"
    /\ row' = [row EXCEPT ![c] = "live"]
    /\ UNCHANGED <<age, quiet, hash, ping, removal, faults, written, excused>>

\* Mutant of Later: the age is not capped.
LaterOn(n) == n + 1

Later(n) == IF n < Old THEN n + 1 ELSE Old

Tick ==
    /\ \E c \in Live : age[c] < Old \/ quiet[c] < Old
    /\ age' = [c \in Checks |-> IF c \in Live THEN Later(age[c]) ELSE age[c]]
    /\ quiet' = [c \in Checks |-> IF c \in Live THEN Later(quiet[c])
                                                ELSE quiet[c]]
    /\ UNCHANGED <<row, hash, ping, removal, faults, written, excused>>

Next ==
    \/ \E p \in Pings :
         \/ \E c \in Checks : LoadCheck(p, c)
         \/ ReadLog(p) \/ WriteLog(p) \/ WriteContent(p)
    \/ \E x \in Deletes : DeleteUser(x) \/ \E c \in Checks : DeleteCheck(x, c)
    \/ \E x \in Sweeps : Sweep(x)
    \/ \E x \in Removals :
         CommitRemoval(x) \/ AbortRemoval(x) \/ Unlink(x) \/ FailUnlink(x)
    \/ \E c \in Checks : Create(c)
    \/ Tick

Spec == Init /\ [][Next]_vars

-----------------------------------------------------------------------------
(* Properties.                                                             *)

\* Every variable has the type its declaration says.
TypeOK ==
    /\ row \in [Checks -> {"new", "live", "gone"}]
    /\ age \in [Checks -> 0..Old] /\ quiet \in [Checks -> 0..Old]
    /\ hash \in [Checks -> Hash]
    /\ ping \in [Pings -> Ping]
    /\ removal \in [Removals -> Removal]
    /\ faults \in Nat
    /\ written \in [Checks -> Seq(Pings)]
    /\ excused \in Excused

\* Redis keeps a hash of a check that is gone only while a removal is about
\* to unlink it, or when a ping was under way as it was unlinked, the unlink
\* failed, or the check came into being while its account was deleted.
OrphanHasCause ==
    \A c \in Checks : row[c] = "gone" /\ hash[c] # NoHash =>
        \/ c \in excused.leaked
        \/ \E x \in Removals : removal[x].pc = "committed"
                                 /\ c \in removal[x].checks

\* The log of a check holds its latest pings, the newest first, unless two of
\* them read it before either wrote or one could not read it.
LogIsLatest ==
    \A c \in Live \ excused.mixed : hash[c].log = written[c]

\* "Checks that haven't been pinged in X days": the cleanup lists no check
\* that was pinged within the limit.
ActiveChecksKept ==
    [][\A x \in Sweeps :
         removal[x].pc = "idle" /\ removal'[x].pc = "listed" =>
           \A c \in removal'[x].checks : quiet[c] = Old]_vars

=============================================================================
