--------------------------- MODULE RetentionProofs ---------------------------
(***************************************************************************)
(* Theorems about Retention, for any number of checks, pings, deletes,     *)
(* cleanups and faults, and any length of the log.                         *)
(***************************************************************************)
EXTENDS Retention, SequenceTheorems, TLAPS

\* A removal under way was told of checks that exist, and when its rows are
\* committed they are gone.
RemovalsKnown ==
    \A x \in Removals :
        /\ removal[x].pc # "idle" =>
             \A c \in removal[x].checks : row[c] # "new"
        /\ removal[x].pc = "committed" =>
             \A c \in removal[x].checks : row[c] = "gone"

\* Somebody is still going to unlink the hash of c.
Doomed(c) ==
    \E x \in Removals : removal[x].pc = "committed" /\ c \in removal[x].checks

\* A hash that nobody is going to unlink, and is not known to be left behind,
\* is gone with its check, and no ping is about to write it again.
GoneForGood ==
    \A c \in Checks :
        row[c] = "gone" /\ c \notin excused.leaked /\ ~Doomed(c) =>
            hash[c] = NoHash /\ Pinging(c) = {}

Reading(c) == {p \in Pings : ping[p].check = c /\ ping[p].pc = "read"}

\* Of a log that is not mixed, at most one ping holds a copy, and it is the
\* log as it is.
CopiesAreFresh ==
    \A c \in Checks :
        row[c] # "gone" /\ c \notin excused.mixed =>
            /\ hash[c].log = written[c]
            /\ \A p \in Reading(c) : ping[p].seen = hash[c].log
            /\ \A p, q \in Reading(c) : p = q

PingsKnown ==
    \A p \in Pings :
        ping[p].pc \in {"loaded", "read", "logged"} => ping[p].check \in Checks

RetentionInv ==
    TypeOK /\ PingsKnown /\ RemovalsKnown /\ GoneForGood /\ CopiesAreFresh

-----------------------------------------------------------------------------
(* What a step of a ping and a step of a removal can do.                   *)

\* The log keeps its type and takes in one entry.
LEMMA EnteredType ==
    ASSUME NEW p \in Pings, NEW log \in Seq(Pings)
    PROVE  Entered(p, log) \in Seq(Pings)
<1>1. <<p>> \o log \in Seq(Pings) /\ Len(<<p>> \o log) \in Nat
  BY ConcatProperties, LenProperties
<1>2. ASSUME NEW s \in Seq(Pings) PROVE Newest(s) \in Seq(Pings)
  BY RetentionAssumption, SubSeqProperties, LenProperties DEF Newest
<1> QED  BY <1>1, <1>2 DEF Entered

\* p is now q.  A ping begins only with a check that is live, and writes only
\* to the hash of its check.
PingMove(p, q) ==
    /\ q \in Ping /\ ping' = [ping EXCEPT ![p] = q] /\ q.check \in Checks
    /\ q.pc # "done" => \/ q.check = ping[p].check /\ ping[p].pc # "done"
                        \/ row[q.check] = "live"
    /\ hash' \in [Checks -> Hash]
    /\ \A c \in Checks : hash'[c] # hash[c] =>
          c = ping[p].check /\ ping[p].pc # "done"
    /\ excused' \in Excused /\ excused'.leaked = excused.leaked
    /\ excused.mixed \subseteq excused'.mixed
    /\ quiet' \in [Checks -> 0..Old] /\ faults' \in Nat
    /\ written' \in [Checks -> Seq(Pings)]
    /\ UNCHANGED <<row, age, removal>>

\* What it does to the log of c: it leaves it alone, and is the only one to
\* have read it if it did so now; or it adds itself to the copy it has read.
LogMove(p, q, c) ==
    \/ /\ hash'[c].log = hash[c].log /\ written'[c] = written[c]
       /\ q.check = c /\ q.pc = "read" =>
            q.seen = hash[c].log /\ Reading(c) = {}
    \/ /\ p \in Reading(c) /\ q.pc # "read"
       /\ hash'[c].log = Entered(p, ping[p].seen)
       /\ written'[c] = Newest(<<p>> \o written[c])

Moves(p, q) ==
    PingMove(p, q) /\ \A c \in Checks \ excused'.mixed : LogMove(p, q, c)

LEMMA LoadMoves ==
    ASSUME TypeOK, NEW p \in Pings, NEW c \in Checks, LoadCheck(p, c)
    PROVE  \E q : Moves(p, q)
<1>1. PICK q : q = [NoPing EXCEPT !.pc = "loaded", !.check = c]
  OBVIOUS
<1>2. /\ q \in Ping /\ q.pc = "loaded" /\ q.check = c
      /\ ping' = [ping EXCEPT ![p] = q] /\ row[c] = "live"
  BY <1>1, EmptySeq DEF LoadCheck, Advances, Live, Ping, NoPing
<1>3. PingMove(p, q)
  BY <1>2 DEF LoadCheck, PingMove, TypeOK
<1>4. \A d \in Checks : LogMove(p, q, d)
  BY <1>2 DEF LoadCheck, LogMove
<1> QED  BY <1>3, <1>4 DEF Moves

LEMMA ReadMoves ==
    ASSUME TypeOK, PingsKnown, NEW p \in Pings, ReadLog(p)
    PROVE  \E q : Moves(p, q)
<1>1. PICK o : o = ping[p]
  OBVIOUS
<1>2. PICK c : c = o.check
  OBVIOUS
<1>3. /\ o \in Ping /\ o.pc = "loaded" /\ c \in Checks
      /\ excused \in Excused /\ hash[c].log \in Seq(Pings)
      /\ faults \in Nat /\ faults + 1 \in Nat
  BY <1>1, <1>2 DEF TypeOK, PingsKnown, ReadLog, Hash
<1>4. UNCHANGED <<row, age, quiet, hash, removal, written>>
  BY DEF ReadLog
<1>5. ASSUME NEW q, q \in Ping, q.check = c, q.pc = "read",
             ping' = [ping EXCEPT ![p] = q], faults' \in Nat,
             excused' \in {excused, [excused EXCEPT !.mixed = @ \cup {c}]}
      PROVE  PingMove(p, q)
  <2>1. /\ excused' \in Excused /\ excused'.leaked = excused.leaked
        /\ excused.mixed \subseteq excused'.mixed
    BY <1>3, <1>5 DEF Excused
  <2> QED  BY <1>1, <1>2, <1>3, <1>4, <1>5, <2>1 DEF PingMove, TypeOK
<1>6. CASE /\ Advances(p, [ping[p] EXCEPT !.pc = "read", !.seen = hash[c].log])
           /\ excused' = IF {q \in Pinging(c) : ping[q].pc = "read"} = {}
                         THEN excused
                         ELSE [excused EXCEPT !.mixed = @ \cup {c}]
           /\ UNCHANGED faults
  <2>1. PICK q : q = [o EXCEPT !.pc = "read", !.seen = hash[c].log]
    OBVIOUS
  <2>2. /\ q \in Ping /\ q.check = c /\ q.pc = "read" /\ q.seen = hash[c].log
        /\ ping' = [ping EXCEPT ![p] = q]
    BY <1>1, <1>2, <1>3, <1>6, <2>1 DEF Ping, Advances
  <2>3. c \notin excused'.mixed => Reading(c) = {}
    BY <1>3, <1>6 DEF Excused, Reading, Pinging
  <2>4. PingMove(p, q)
    BY <1>3, <1>5, <1>6, <2>2
  <2>5. \A d \in Checks \ excused'.mixed : LogMove(p, q, d)
    BY <1>4, <2>2, <2>3 DEF LogMove
  <2> QED  BY <2>4, <2>5 DEF Moves
<1>7. CASE /\ Advances(p, [ping[p] EXCEPT !.pc = "read"])
           /\ excused' = [excused EXCEPT !.mixed = @ \cup {c}]
           /\ Fault
  <2>1. PICK q : q = [o EXCEPT !.pc = "read"]
    OBVIOUS
  <2>2. /\ q \in Ping /\ q.check = c /\ q.pc = "read"
        /\ ping' = [ping EXCEPT ![p] = q] /\ faults' \in Nat
    BY <1>1, <1>2, <1>3, <1>7, <2>1 DEF Ping, Advances, Fault
  <2>3. c \in excused'.mixed
    BY <1>3, <1>7 DEF Excused
  <2>4. PingMove(p, q)
    BY <1>5, <1>7, <2>2
  <2>5. \A d \in Checks \ excused'.mixed : LogMove(p, q, d)
    BY <1>4, <2>2, <2>3 DEF LogMove
  <2> QED  BY <2>4, <2>5 DEF Moves
<1> QED  BY <1>1, <1>2, <1>6, <1>7 DEF ReadLog

LEMMA WriteLogMoves ==
    ASSUME TypeOK, PingsKnown, NEW p \in Pings, WriteLog(p)
    PROVE  \E q : Moves(p, q)
<1>1. PICK o : o = ping[p]
  OBVIOUS
<1>2. PICK c : c = o.check
  OBVIOUS
<1>3. /\ o \in Ping /\ o.pc = "read" /\ c \in Checks /\ o.seen \in Seq(Pings)
      /\ hash[c] \in Hash /\ written[c] \in Seq(Pings)
      /\ faults \in Nat /\ faults + 1 \in Nat /\ p \in Reading(c)
  BY <1>1, <1>2 DEF TypeOK, PingsKnown, WriteLog, Ping, Reading
<1>4. PICK q : q = [o EXCEPT !.pc = "logged", !.seen = <<>>]
  OBVIOUS
<1>5. /\ q \in Ping /\ q.check = c /\ q.pc = "logged"
      /\ ping' = [ping EXCEPT ![p] = q]
      /\ UNCHANGED <<row, age, quiet, removal, excused>>
  BY <1>1, <1>2, <1>3, <1>4, EmptySeq DEF WriteLog, Advances, Ping
<1>6. CASE hash' = hash /\ written' = written /\ Fault
  <2>1. PingMove(p, q)
    BY <1>1, <1>2, <1>3, <1>5, <1>6 DEF PingMove, TypeOK, Fault
  <2>2. \A d \in Checks : LogMove(p, q, d)
    BY <1>5, <1>6 DEF LogMove
  <2> QED  BY <2>1, <2>2 DEF Moves
<1>7. CASE /\ hash' = [hash EXCEPT ![c].log = Entered(p, ping[p].seen)]
           /\ written' = [written EXCEPT ![c] = Newest(<<p>> \o @)]
           /\ UNCHANGED faults
  <2>1. PICK new : new = Entered(p, o.seen)
    OBVIOUS
  <2>2. PICK log : log = Newest(<<p>> \o written[c])
    OBVIOUS
  <2>3. new \in Seq(Pings) /\ log \in Seq(Pings)
    BY <1>3, <2>1, <2>2, EnteredType DEF Entered
  <2>4. /\ hash' = [hash EXCEPT ![c] = [hash[c] EXCEPT !.log = new]]
        /\ written' = [written EXCEPT ![c] = log]
    BY <1>1, <1>3, <1>7, <2>1, <2>2 DEF TypeOK
  <2>5. [hash[c] EXCEPT !.log = new] \in Hash
    BY <1>3, <2>3 DEF Hash
  <2>6. /\ hash' \in [Checks -> Hash] /\ written' \in [Checks -> Seq(Pings)]
        /\ \A d \in Checks \ {c} : hash'[d] = hash[d] /\ written'[d] = written[d]
        /\ hash'[c].log = new /\ written'[c] = log
    BY <1>3, <2>3, <2>4, <2>5 DEF TypeOK, Hash
  <2>7. PingMove(p, q)
    BY <1>1, <1>2, <1>3, <1>5, <1>7, <2>6 DEF PingMove, TypeOK
  <2>8. ASSUME NEW d \in Checks PROVE LogMove(p, q, d)
    <3>1. CASE d = c
      BY <1>1, <1>3, <1>5, <2>1, <2>2, <2>6, <3>1 DEF LogMove
    <3>2. CASE d # c
      BY <1>5, <2>6, <3>2 DEF LogMove
    <3> QED  BY <3>1, <3>2
  <2> QED  BY <2>7, <2>8 DEF Moves
<1> QED  BY <1>1, <1>2, <1>6, <1>7 DEF WriteLog

LEMMA WriteContentMoves ==
    ASSUME TypeOK, PingsKnown, NEW p \in Pings, WriteContent(p)
    PROVE  \E q : Moves(p, q)
<1>1. PICK o : o = ping[p]
  OBVIOUS
<1>2. PICK c : c = o.check
  OBVIOUS
<1>3. /\ o \in Ping /\ o.pc = "logged" /\ c \in Checks /\ hash[c] \in Hash
      /\ faults \in Nat /\ faults + 1 \in Nat
  BY <1>1, <1>2 DEF TypeOK, PingsKnown, WriteContent
<1>4. PICK q : q = [o EXCEPT !.pc = "done"]
  OBVIOUS
<1>5. /\ q \in Ping /\ q.check = c /\ q.pc = "done"
      /\ ping' = [ping EXCEPT ![p] = q]
      /\ UNCHANGED <<row, age, removal, written, excused>>
  BY <1>1, <1>2, <1>3, <1>4 DEF WriteContent, Advances, Ping
<1>6. quiet' \in [Checks -> 0..Old] /\ faults' \in Nat
  <2>1. PICK n : quiet' = [quiet EXCEPT ![c] = n] /\ n \in {0, quiet[c]}
    BY <1>1, <1>2 DEF WriteContent
  <2>2. n \in 0..Old
    BY <1>3, <2>1, RetentionAssumption DEF TypeOK
  <2>3. quiet' \in [Checks -> 0..Old]
    BY <2>1, <2>2 DEF TypeOK
  <2> QED  BY <1>3, <2>3 DEF WriteContent, Fault
<1>7. \/ hash' = hash
      \/ hash' = [hash EXCEPT ![c] = [hash[c] EXCEPT !.content = TRUE]]
  BY <1>1, <1>2, <1>3 DEF WriteContent, TypeOK
<1>8. /\ hash' \in [Checks -> Hash]
      /\ \A d \in Checks : hash'[d].log = hash[d].log
      /\ \A d \in Checks \ {c} : hash'[d] = hash[d]
  <2>1. PICK h : h = [hash[c] EXCEPT !.content = TRUE]
    OBVIOUS
  <2>2. h \in Hash /\ h.log = hash[c].log
    BY <1>3, <2>1 DEF Hash
  <2>3. CASE hash' = hash
    BY <2>3 DEF TypeOK
  <2>4. CASE hash' = [hash EXCEPT ![c] = h]
    BY <1>3, <2>2, <2>4 DEF TypeOK
  <2> QED  BY <1>7, <2>1, <2>3, <2>4
<1>9. PingMove(p, q)
  BY <1>1, <1>2, <1>3, <1>5, <1>6, <1>8 DEF PingMove, TypeOK
<1>10. \A d \in Checks : LogMove(p, q, d)
  BY <1>5, <1>8 DEF LogMove
<1> QED  BY <1>9, <1>10 DEF Moves

\* What becomes of the log and of the orphans when a ping moves.
LEMMA PingKeeps ==
    ASSUME RetentionInv, NEW p \in Pings, NEW q, Moves(p, q)
    PROVE  RetentionInv'
<1>1. PingMove(p, q) /\ TypeOK /\ PingsKnown
  BY DEF Moves, RetentionInv
<1>2. /\ ping' \in [Pings -> Ping] /\ ping'[p] = q
      /\ \A o \in Pings \ {p} : ping'[o] = ping[o]
      /\ row' = row /\ removal' = removal
  BY <1>1 DEF PingMove, TypeOK
<1>3. TypeOK'
  BY <1>1, <1>2 DEF PingMove, TypeOK
<1>4. PingsKnown'
  BY <1>1, <1>2 DEF PingMove, PingsKnown
<1>5. RemovalsKnown'
  BY <1>2 DEF RetentionInv, RemovalsKnown
<1>6. ASSUME NEW c \in Checks, row[c] = "gone", c \notin excused'.leaked,
             ~Doomed(c)
      PROVE  hash'[c] = NoHash /\ Pinging(c)' = {}
  <2>1. hash[c] = NoHash /\ Pinging(c) = {}
    BY <1>1, <1>6 DEF PingMove, RetentionInv, GoneForGood
  <2>2. ~(ping[p].check = c /\ ping[p].pc # "done")
    BY <2>1 DEF Pinging
  <2>3. hash'[c] = hash[c]
    BY <1>1, <2>2 DEF PingMove
  <2>4. ~(q.check = c /\ q.pc # "done")
    BY <1>1, <1>6, <2>2 DEF PingMove
  <2> QED  BY <1>2, <2>1, <2>3, <2>4 DEF Pinging
<1>7. GoneForGood'
  BY <1>2, <1>6 DEF GoneForGood, Doomed
<1>8. ASSUME NEW c \in Checks, row[c] # "gone", c \notin excused'.mixed
      PROVE  /\ hash'[c].log = written'[c]
             /\ \A o \in Reading(c)' : ping'[o].seen = hash'[c].log
             /\ \A o, r \in Reading(c)' : o = r
  <2>1. /\ hash[c].log = written[c]
        /\ \A o \in Reading(c) : ping[o].seen = hash[c].log
        /\ \A o, r \in Reading(c) : o = r
    BY <1>1, <1>8 DEF PingMove, RetentionInv, CopiesAreFresh
  <2>2. LogMove(p, q, c)
    BY <1>8 DEF Moves
  <2>3. Reading(c)' \subseteq Reading(c) \cup {p}
    BY <1>2 DEF Reading
  <2>4. CASE q.check = c /\ q.pc = "read"
    <3>1. /\ hash'[c].log = hash[c].log /\ written'[c] = written[c]
          /\ q.seen = hash[c].log /\ Reading(c) = {}
      BY <2>2, <2>4 DEF LogMove
    <3> QED  BY <1>2, <2>1, <2>3, <3>1
  <2>5. CASE ~(q.check = c /\ q.pc = "read")
    <3>1. /\ Reading(c)' \subseteq Reading(c) \ {p}
          /\ \A o \in Reading(c)' : ping'[o] = ping[o]
      BY <1>2, <2>3, <2>5 DEF Reading
    <3>2. CASE hash'[c].log = hash[c].log /\ written'[c] = written[c]
      BY <1>2, <2>1, <3>1, <3>2
    <3>3. CASE /\ p \in Reading(c)
               /\ hash'[c].log = Entered(p, ping[p].seen)
               /\ written'[c] = Newest(<<p>> \o written[c])
      <4>1. Reading(c)' = {}
        BY <2>1, <3>1, <3>3
      <4>2. hash'[c].log = written'[c]
        BY <2>1, <3>3 DEF Entered
      <4> QED  BY <4>1, <4>2
    <3> QED  BY <2>2, <3>2, <3>3 DEF LogMove
  <2> QED  BY <2>4, <2>5
<1>9. CopiesAreFresh'
  BY <1>2, <1>8 DEF CopiesAreFresh
<1> QED  BY <1>3, <1>4, <1>5, <1>7, <1>9 DEF RetentionInv

-----------------------------------------------------------------------------
(* Removals.                                                               *)

\* x is now r; rows that were live may go, and hashes may be unlinked.
RemovalMove(x, r) ==
    /\ r \in Removal /\ removal' = [removal EXCEPT ![x] = r]
    /\ row' \in [Checks -> {"new", "live", "gone"}]
    /\ \A c \in Checks : row'[c] # row[c] => row[c] = "live" /\ row'[c] = "gone"
    /\ r.pc # "idle" => \A c \in r.checks : row'[c] # "new"
    /\ r.pc = "committed" => \A c \in r.checks : row'[c] = "gone"
    /\ hash' \in [Checks -> Hash] /\ faults' \in Nat
    /\ \A c \in Checks : hash'[c] # hash[c] => hash'[c] = NoHash /\ row[c] = "gone"
    /\ excused' \in Excused /\ excused'.mixed = excused.mixed
    /\ excused.leaked \subseteq excused'.leaked
    /\ UNCHANGED <<age, quiet, ping, written>>

\* What it means for a check that is gone then and is not excused: its row
\* went with this removal, which is to unlink its hash; this removal has just
\* done so, and no ping is under way; or nothing changed for it.
OrphanMove(x, r, c) ==
    row'[c] = "gone" /\ c \notin excused'.leaked =>
        \/ r.pc = "committed" /\ c \in r.checks
        \/ hash'[c] = NoHash /\ Pinging(c) = {}
        \/ /\ row[c] = "gone" /\ hash'[c] = hash[c]
           /\ ~(removal[x].pc = "committed" /\ c \in removal[x].checks)

Removes(x, r) ==
    RemovalMove(x, r) /\ \A c \in Checks : OrphanMove(x, r, c)

LEMMA ListMoves ==
    ASSUME TypeOK, NEW x \in Removals,
           \/ x \in Deletes /\ DeleteUser(x)
           \/ x \in Deletes /\ \E c \in Checks : DeleteCheck(x, c)
           \/ x \in Sweeps /\ Sweep(x)
    PROVE  \E r : Removes(x, r)
<1>1. PICK r : /\ r \in Removal /\ removal' = [removal EXCEPT ![x] = r]
               /\ r.pc = "listed" /\ r.checks \subseteq Live
  <2>1. CASE x \in Deletes /\ DeleteUser(x)
    <3>1. PICK r : r = [pc |-> "listed", all |-> TRUE, checks |-> Live]
      OBVIOUS
    <3>2. r \in Removal /\ r.pc = "listed" /\ r.checks \subseteq Live
      BY <3>1 DEF Removal, Live
    <3>3. removal' = [removal EXCEPT ![x] = r]
      BY <2>1, <3>1 DEF DeleteUser, Goes
    <3> QED  BY <3>2, <3>3
  <2>2. CASE x \in Deletes /\ \E c \in Checks : DeleteCheck(x, c)
    <3>1. PICK c \in Checks : DeleteCheck(x, c)
      BY <2>2
    <3>2. PICK r : r = [pc |-> "listed", all |-> FALSE, checks |-> {c}]
      OBVIOUS
    <3>3. r \in Removal /\ r.pc = "listed" /\ r.checks \subseteq Live
      BY <3>1, <3>2 DEF Removal, DeleteCheck
    <3>4. removal' = [removal EXCEPT ![x] = r]
      BY <3>1, <3>2 DEF DeleteCheck, Goes
    <3> QED  BY <3>3, <3>4
  <2>3. CASE x \in Sweeps /\ Sweep(x)
    <3>1. PICK r : r = [pc |-> "listed", all |-> FALSE, checks |-> Inactive]
      OBVIOUS
    <3>2. r \in Removal /\ r.pc = "listed" /\ r.checks \subseteq Live
      BY <3>1 DEF Removal, Inactive, Live
    <3>3. removal' = [removal EXCEPT ![x] = r]
      BY <2>3, <3>1 DEF Sweep, Goes
    <3> QED  BY <3>2, <3>3
  <2> QED  BY <2>1, <2>2, <2>3
<1>2. /\ removal[x].pc = "idle"
      /\ UNCHANGED <<row, age, quiet, hash, ping, faults, written, excused>>
  BY DEF DeleteUser, DeleteCheck, Sweep
<1>3. RemovalMove(x, r)
  BY <1>1, <1>2 DEF RemovalMove, TypeOK, Live
<1>4. \A c \in Checks : OrphanMove(x, r, c)
  BY <1>2 DEF OrphanMove
<1> QED  BY <1>3, <1>4 DEF Removes

LEMMA CommitMoves ==
    ASSUME TypeOK, RemovalsKnown, NEW x \in Removals, CommitRemoval(x)
    PROVE  \E r : Removes(x, r)
<1>1. PICK o : o = removal[x]
  OBVIOUS
<1>2. PICK gone : gone = IF o.all THEN Live ELSE o.checks \cap Live
  OBVIOUS
<1>3. PICK r : r = [o EXCEPT !.pc = "committed"]
  OBVIOUS
<1>4. /\ o \in Removal /\ o.pc = "listed" /\ excused \in Excused
      /\ \A c \in o.checks : row[c] # "new"
  BY <1>1 DEF TypeOK, RemovalsKnown, CommitRemoval
<1>5. /\ r \in Removal /\ r.pc = "committed" /\ r.checks = o.checks
      /\ r.all = o.all /\ r.checks \subseteq Checks
      /\ removal' = [removal EXCEPT ![x] = r]
      /\ row' = [c \in Checks |-> IF c \in gone THEN "gone" ELSE row[c]]
      /\ excused' = [excused EXCEPT !.leaked = @ \cup (gone \ r.checks)]
      /\ UNCHANGED <<age, quiet, hash, ping, faults, written>>
  BY <1>1, <1>2, <1>3, <1>4 DEF CommitRemoval, Goes, Removal
<1>6. /\ gone \subseteq Live /\ Live \subseteq Checks
      /\ o.checks \cap Live \subseteq gone
      /\ \A c \in Live : row[c] = "live"
  BY <1>2 DEF Live
<1>7. /\ excused' \in Excused /\ excused'.mixed = excused.mixed
      /\ excused'.leaked = excused.leaked \cup (gone \ r.checks)
  BY <1>4, <1>5, <1>6 DEF Excused
<1>8. \A c \in r.checks : row'[c] = "gone"
  BY <1>4, <1>5, <1>6 DEF TypeOK, Live
<1>9. RemovalMove(x, r)
  BY <1>5, <1>6, <1>7, <1>8 DEF RemovalMove, TypeOK
<1>10. ASSUME NEW c \in Checks PROVE OrphanMove(x, r, c)
  BY <1>1, <1>4, <1>5, <1>7 DEF OrphanMove
<1> QED  BY <1>9, <1>10 DEF Removes

LEMMA EndMoves ==
    ASSUME TypeOK, RemovalsKnown, NEW x \in Removals,
           AbortRemoval(x) \/ Unlink(x) \/ FailUnlink(x)
    PROVE  \E r : Removes(x, r)
<1>1. PICK o : o = removal[x]
  OBVIOUS
<1>2. /\ o \in Removal /\ o.checks \subseteq Checks /\ excused \in Excused
      /\ NoRemoval \in Removal /\ NoRemoval.pc = "idle" /\ NoHash \in Hash
      /\ faults \in Nat /\ faults + 1 \in Nat
  BY <1>1, EmptySeq DEF TypeOK, Removal, NoRemoval, Hash, NoHash
<1>3. CASE AbortRemoval(x)
  <2>1. RemovalMove(x, NoRemoval)
    BY <1>2, <1>3 DEF AbortRemoval, Goes, Fault, RemovalMove, TypeOK
  <2>2. \A c \in Checks : OrphanMove(x, NoRemoval, c)
    BY <1>3 DEF AbortRemoval, OrphanMove
  <2> QED  BY <2>1, <2>2 DEF Removes
<1>4. CASE FailUnlink(x)
  <2>1. /\ excused' \in Excused /\ excused'.mixed = excused.mixed
        /\ excused'.leaked = excused.leaked \cup o.checks
    BY <1>1, <1>2, <1>4 DEF FailUnlink, Excused
  <2>2. RemovalMove(x, NoRemoval)
    BY <1>2, <1>4, <2>1 DEF FailUnlink, Goes, Fault, RemovalMove, TypeOK
  <2>3. \A c \in Checks : OrphanMove(x, NoRemoval, c)
    BY <1>1, <1>4, <2>1 DEF FailUnlink, OrphanMove
  <2> QED  BY <2>2, <2>3 DEF Removes
<1>5. CASE Unlink(x)
  <2>1. /\ excused' \in Excused /\ excused'.mixed = excused.mixed
        /\ excused'.leaked =
             excused.leaked \cup {c \in o.checks : Pinging(c) # {}}
    BY <1>1, <1>2, <1>5 DEF Unlink, Excused
  <2>2. /\ o.pc = "committed" /\ \A c \in o.checks : row[c] = "gone"
        /\ hash' = [c \in Checks |-> IF c \in o.checks THEN NoHash ELSE hash[c]]
    BY <1>1, <1>5 DEF Unlink, Unlinked, RemovalsKnown
  <2>3. hash' \in [Checks -> Hash]
    BY <1>2, <2>2 DEF TypeOK
  <2>4. RemovalMove(x, NoRemoval)
    BY <1>2, <1>5, <2>1, <2>2, <2>3 DEF Unlink, Goes, RemovalMove, TypeOK
  <2>5. \A c \in Checks : OrphanMove(x, NoRemoval, c)
    BY <1>1, <1>5, <2>1, <2>2 DEF Unlink, OrphanMove
  <2> QED  BY <2>4, <2>5 DEF Removes
<1> QED  BY <1>3, <1>4, <1>5

LEMMA RemovalKeeps ==
    ASSUME RetentionInv, NEW x \in Removals, NEW r, Removes(x, r)
    PROVE  RetentionInv'
<1>1. RemovalMove(x, r) /\ TypeOK /\ RemovalsKnown
  BY DEF Removes, RetentionInv
<1>2. /\ removal' \in [Removals -> Removal] /\ removal'[x] = r
      /\ \A y \in Removals \ {x} : removal'[y] = removal[y]
      /\ ping' = ping /\ written' = written
  BY <1>1 DEF RemovalMove, TypeOK
<1>3. TypeOK'
  BY <1>1, <1>2 DEF RemovalMove, TypeOK
<1>4. PingsKnown'
  BY <1>2 DEF RetentionInv, PingsKnown
<1>5. RemovalsKnown'
  <2>1. \A y \in Removals : removal[y].checks \subseteq Checks
    BY <1>1 DEF TypeOK, Removal
  <2> QED  BY <1>1, <1>2, <2>1 DEF RemovalMove, RemovalsKnown
<1>6. ASSUME NEW c \in Checks, row'[c] = "gone", c \notin excused'.leaked,
             ~Doomed(c)'
      PROVE  hash'[c] = NoHash /\ Pinging(c) = {}
  <2>1. OrphanMove(x, r, c)
    BY DEF Removes
  <2>2. ~(r.pc = "committed" /\ c \in r.checks)
    BY <1>2, <1>6 DEF Doomed
  <2>3. CASE /\ row[c] = "gone" /\ hash'[c] = hash[c]
             /\ ~(removal[x].pc = "committed" /\ c \in removal[x].checks)
    <3>1. ~Doomed(c)
      BY <1>2, <1>6, <2>3 DEF Doomed
    <3>2. c \notin excused.leaked
      BY <1>1, <1>6 DEF RemovalMove
    <3> QED  BY <2>3, <3>1, <3>2 DEF RetentionInv, GoneForGood
  <2> QED  BY <1>6, <2>1, <2>2, <2>3 DEF OrphanMove
<1>7. GoneForGood'
  BY <1>2, <1>6 DEF GoneForGood, Pinging
<1>8. CopiesAreFresh'
  BY <1>1, <1>2 DEF RemovalMove, RetentionInv, CopiesAreFresh, Reading
<1> QED  BY <1>3, <1>4, <1>5, <1>7, <1>8 DEF RetentionInv

-----------------------------------------------------------------------------
(* The invariant.                                                          *)

\* Checks come into being, and time passes.
LEMMA WorldKeeps ==
    ASSUME RetentionInv,
           Tick \/ (\E c \in Checks : Create(c)) \/ UNCHANGED vars
    PROVE  RetentionInv'
<1> USE DEF RetentionInv, PingsKnown, RemovalsKnown, GoneForGood,
            CopiesAreFresh, Doomed, Pinging, Reading
<1>1. CASE Tick
  <2>1. \A n \in 0..Old : Later(n) \in 0..Old
    BY RetentionAssumption DEF Later
  <2>2. age' \in [Checks -> 0..Old] /\ quiet' \in [Checks -> 0..Old]
    BY <1>1, <2>1 DEF Tick, TypeOK
  <2> QED  BY <1>1, <2>2 DEF Tick, TypeOK
<1>2. ASSUME NEW d \in Checks, Create(d)
      PROVE  RetentionInv'
  <2>1. /\ row[d] = "new" /\ row' = [row EXCEPT ![d] = "live"]
        /\ UNCHANGED <<age, quiet, hash, ping, removal, faults, written,
                       excused>>
    BY <1>2 DEF Create
  <2>2. /\ row' \in [Checks -> {"new", "live", "gone"}] /\ row'[d] = "live"
        /\ \A c \in Checks \ {d} : row'[c] = row[c]
    BY <2>1 DEF TypeOK
  <2>3. \A x \in Removals : removal[x].checks \subseteq Checks
    BY DEF TypeOK, Removal
  <2>4. TypeOK' /\ PingsKnown'
    BY <2>1, <2>2 DEF TypeOK
  <2>5. RemovalsKnown'
    BY <2>1, <2>2, <2>3
  <2>6. GoneForGood' /\ CopiesAreFresh'
    BY <2>1, <2>2
  <2> QED  BY <2>4, <2>5, <2>6
<1>3. CASE UNCHANGED vars
  BY <1>3 DEF vars, TypeOK
<1> QED  BY <1>1, <1>2, <1>3

LEMMA RetentionStep == RetentionInv /\ [Next]_vars => RetentionInv'
<1> SUFFICES ASSUME RetentionInv, [Next]_vars PROVE RetentionInv'
  OBVIOUS
<1>1. TypeOK /\ PingsKnown /\ RemovalsKnown
  BY DEF RetentionInv
<1>2. ASSUME NEW p \in Pings,
             \/ \E c \in Checks : LoadCheck(p, c)
             \/ ReadLog(p) \/ WriteLog(p) \/ WriteContent(p)
      PROVE  RetentionInv'
  <2>1. \E q : Moves(p, q)
    BY <1>1, <1>2, LoadMoves, ReadMoves, WriteLogMoves, WriteContentMoves
  <2> QED  BY <2>1, PingKeeps
<1>3. ASSUME NEW x \in Removals,
             \/ x \in Deletes /\ DeleteUser(x)
             \/ x \in Deletes /\ \E c \in Checks : DeleteCheck(x, c)
             \/ x \in Sweeps /\ Sweep(x)
             \/ CommitRemoval(x) \/ AbortRemoval(x) \/ Unlink(x)
             \/ FailUnlink(x)
      PROVE  RetentionInv'
  <2>1. \E r : Removes(x, r)
    BY <1>1, <1>3, ListMoves, CommitMoves, EndMoves
  <2> QED  BY <2>1, RemovalKeeps
<1>4. CASE Tick \/ (\E c \in Checks : Create(c)) \/ UNCHANGED vars
  BY <1>4, WorldKeeps
<1> QED  BY <1>2, <1>3, <1>4 DEF Next, Removals

LEMMA RetentionInvariant == Spec => []RetentionInv
<1>1. Init => RetentionInv
  <2> SUFFICES ASSUME Init PROVE RetentionInv
    OBVIOUS
  <2>1. TypeOK
    BY RetentionAssumption, EmptySeq
       DEF Init, TypeOK, NoHash, Hash, NoPing, Ping, NoRemoval, Removal, Excused
  <2>2. PingsKnown /\ RemovalsKnown /\ GoneForGood /\ CopiesAreFresh
    BY DEF Init, NoHash, NoPing, NoRemoval, PingsKnown, RemovalsKnown,
           GoneForGood, CopiesAreFresh, Reading
  <2> QED  BY <2>1, <2>2 DEF RetentionInv
<1> QED  BY <1>1, RetentionStep, PTL DEF Spec

\* Every variable keeps its type.
THEOREM TypeCorrect == Spec => []TypeOK
<1>1. RetentionInv => TypeOK
  BY DEF RetentionInv
<1> QED  BY <1>1, RetentionInvariant, PTL

\* However pings and removals interleave and whatever fails, a hash outlives
\* its check only for the causes the code allows.
THEOREM OrphansHaveCause == Spec => []OrphanHasCause
<1>1. RetentionInv => OrphanHasCause
  BY DEF RetentionInv, GoneForGood, Doomed, OrphanHasCause
<1> QED  BY <1>1, RetentionInvariant, PTL

\* The log of a check is its latest pings unless two read it at once or one
\* could not read it.
THEOREM LogsAreLatest == Spec => []LogIsLatest
<1>1. RetentionInv => LogIsLatest
  BY DEF RetentionInv, CopiesAreFresh, LogIsLatest, Live
<1> QED  BY <1>1, RetentionInvariant, PTL

=============================================================================
