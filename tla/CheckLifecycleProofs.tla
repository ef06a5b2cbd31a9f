----------------------- MODULE CheckLifecycleProofs -----------------------
(***************************************************************************)
(* Theorems about CheckLifecycle, for any number of checks, requests and   *)
(* scans, any allowances and any bounds.                                   *)
(***************************************************************************)
EXTENDS CheckLifecycle, TLAPS

(* What the operations do to a row, and what a commit stores.              *)

\* The operations map rows to rows.
LEMMA EffectTypes ==
    ASSUME NEW row \in Row, NEW t \in Nat, NEW a \in Nat
    PROVE  /\ NewCheck(a, t) \in Row /\ Pinged(row, t) \in Row
           /\ Failed(row) \in Row /\ Started(row, t) \in Row
           /\ PauseToggled(row) \in Row /\ Updated(row, a, t) \in Row
<1>1. NoTime \in Stamp /\ t \in Stamp
  BY DEF Stamp
<1>2. /\ NextDeadline(a, t) \in Stamp
      /\ NextDeadline(row.allow, t) \in Stamp
      /\ NextDeadline(a, Reference(row)) \in Stamp
  BY NullAssumption DEF NextDeadline, Reference, Row, Stamp
<1>3. OneMore(row.fails) \in Nat
  BY BoundsAssumption DEF OneMore, Row
<1>4. NewCheck(a, t) \in Row
  BY <1>1, <1>2 DEF NewCheck, Blank, Row
<1>5. Pinged(row, t) \in Row
  BY <1>1, <1>2 DEF Pinged, Row
<1>6. Failed(row) \in Row
  BY <1>1, <1>3 DEF Failed, Row
<1>7. Started(row, t) \in Row /\ PauseToggled(row) \in Row
  BY <1>1 DEF Started, PauseToggled, Row
<1>8. Updated(row, a, t) \in Row
  <2> DEFINE due == NextDeadline(a, Reference(row))
             st == CASE t > due                -> "down"
                     [] row.lastPing # NoTime  -> "up"
                     [] OTHER                  -> "new"
  <2>1. st \in {"down", "up", "new"}
    OBVIOUS
  <2> QED  BY <1>2, <2>1 DEF Updated, Row
<1> QED  BY <1>4, <1>5, <1>6, <1>7, <1>8

\* Every outcome of a request is a row of the right type.
LEMMA OutcomeTypes ==
    ASSUME NEW op \in OpKinds, NEW row \in Row, NEW t \in Nat,
           NEW e \in Outcomes(op, row, t)
    PROVE  e.op \in OpKinds /\ e.row \in Row
<1>1. CASE op = "ping"
  BY <1>1, EffectTypes, 0 \in Nat DEF Outcomes, OpKinds
<1>2. CASE op = "update"
  <2>1. PICK a \in Allowances : e = [op |-> op, row |-> Updated(row, a, t)]
    BY <1>2 DEF Outcomes
  <2> QED  BY <2>1, BoundsAssumption, EffectTypes
<1>3. CASE op \in {"start", "fail", "pause", "delete"}
  BY <1>3, EffectTypes, 0 \in Nat DEF Outcomes, OpKinds
<1> QED  BY <1>1, <1>2, <1>3 DEF OpKinds

\* A commit stores a row.
LEMMA FlushTypes ==
    ASSUME NEW stored \in Row, NEW old \in Row, NEW new \in Row, NEW op
    PROVE  Flush(stored, old, new, op) \in Row
BY DEF Flush, Column, Row

-----------------------------------------------------------------------------
(* Type correctness.                                                       *)

\* What is idle has its type.
LEMMA IdleTypes ==
    IdleReq \in Session /\ IdleScan \in ScanSession /\ Blank \in Row
BY DEF IdleReq, Session, IdleScan, ScanSession, Blank, Row, Stamp

\* The initial values have their types.
LEMMA InitTypeOK == Init => TypeOK
BY IdleTypes DEF Init, TypeOK, LastAlert

\* An alert keeps the type of the record it is written to.
LEMMA AlertTypes ==
    ASSUME TypeOK, NEW c, NEW loaded,
           TellFailure(c, loaded) \/ TellRecovery(c, loaded) \/ ShowEdit(c)
    PROVE  alert' \in [Checks -> LastAlert]
<1>1. CASE UNCHANGED alert
  BY <1>1 DEF TypeOK
<1>2. ASSUME NEW kind \in {"down", "up"}, SendAlert(c, kind)
      PROVE  alert' \in [Checks -> LastAlert]
  BY <1>2 DEF TypeOK, SendAlert, LastAlert
<1>3. UNCHANGED alert \/ SendAlert(c, "down") \/ SendAlert(c, "up") \/ ShowEdit(c)
  BY DEF TellFailure, TellRecovery
<1>6. ShowEdit(c) => alert' \in [Checks -> LastAlert]
  <2> DEFINE shown == [kind  |-> IF db[c].status = "down" THEN "down" ELSE "up",
                       again |-> FALSE]
  <2>1. shown \in LastAlert
    BY DEF LastAlert
  <2>2. alert \in [Checks -> LastAlert]
    BY DEF TypeOK
  <2> HIDE DEF shown
  <2>3. [alert EXCEPT ![c] = shown] \in [Checks -> LastAlert]
    BY <2>1, <2>2
  <2> QED  BY <2>2, <2>3 DEF ShowEdit, shown
<1>4. SendAlert(c, "down") => alert' \in [Checks -> LastAlert]
  BY <1>2
<1>5. SendAlert(c, "up") => alert' \in [Checks -> LastAlert]
  BY <1>2
<1> QED  BY <1>1, <1>3, <1>4, <1>5, <1>6

\* No request takes a variable out of its type.
LEMMA RequestTypeOK ==
    ASSUME TypeOK, NEW r \in Requests, RequestStep(r) \/ RequestDies(r)
    PROVE  TypeOK'
<1>q. req[r] \in Session
  BY DEF TypeOK
<1>1. CASE RequestApply(r)
  <2>1. PICK e \in Outcomes(req[r].op, req[r].loaded, now) :
            req' = [req EXCEPT ![r].pc = "changed", ![r].op = e.op,
                               ![r].row = e.row]
    BY <1>1 DEF RequestApply
  <2>2. req[r].op \in OpKinds => e.op \in OpKinds /\ e.row \in Row
    BY <1>q, OutcomeTypes DEF TypeOK, Session
  <2>3. req[r].op = "none" => e.op = "none" /\ e.row \in Row
    BY <1>q DEF Outcomes, Session
  <2> QED  BY <1>1, <1>q, <2>1, <2>2, <2>3 DEF RequestApply, TypeOK, Session
<1>2. CASE RequestCommit(r)
  <2>1. \A row \in Row : Flush(row, req[r].loaded, req[r].row, req[r].op) \in Row
    BY <1>q, FlushTypes DEF Session
  <2>2. [req[r] EXCEPT !.pc = "committed", !.row = Blank] \in Session
    BY <1>q, IdleTypes DEF Session
  <2> QED  BY <1>2, IdleTypes, <2>1, <2>2 DEF RequestCommit, TypeOK
<1>3. CASE RequestStale(r)
  BY <1>3, IdleTypes DEF RequestStale, TypeOK
<1>4. CASE RequestDelete(r)
  <2>1. [Blank EXCEPT !.status = "gone"] \in Row
    BY IdleTypes DEF Row
  <2> QED  BY <1>4, IdleTypes, <2>1 DEF RequestDelete, TypeOK
<1>5. CASE RequestNotify(r)
  <2>1. alert' \in [Checks -> LastAlert]
    BY <1>5, AlertTypes DEF RequestNotify
  <2> QED  BY <1>5, IdleTypes, <2>1 DEF RequestNotify, TypeOK
<1>6. CASE RequestDies(r)
  BY <1>6, IdleTypes DEF RequestDies, TypeOK
<1> QED  BY <1>1, <1>2, <1>3, <1>4, <1>5, <1>6 DEF RequestStep

\* No scan takes a variable out of its type.
LEMMA ScanTypeOK ==
    ASSUME TypeOK, NEW s \in Scanners, ScanStep(s) \/ ScanDies(s)
    PROVE  TypeOK'
<1>s. scan[s] \in ScanSession
  BY DEF TypeOK
<1>1. CASE ScanBegin(s)
  BY <1>1, IdleTypes DEF ScanBegin, TypeOK, ScanSession
<1>2. ASSUME NEW c \in Checks, ScanMark(s, c)  PROVE TypeOK'
  <2> DEFINE old == scan[s].seen[c]
  <2>1. old \in Row /\ Failed(old) \in Row
    BY <1>s, EffectTypes, 0 \in Nat DEF ScanSession
  <2>2. db' \in [Checks -> Row]
    BY <1>2, <2>1, FlushTypes DEF ScanMark, TypeOK
  <2>3. scan' \in [Scanners -> ScanSession]
    BY <1>2, <1>s DEF ScanMark, TypeOK, ScanSession
  <2> QED  BY <1>2, <2>2, <2>3 DEF ScanMark, TypeOK
<1>3. ASSUME NEW c \in Checks, ScanAborts(s, c)  PROVE TypeOK'
  BY <1>3, IdleTypes DEF ScanAborts, TypeOK
<1>4. CASE ScanNotify(s)
  <2> DEFINE c == scan[s].cur
  <2>1. c \in Checks
    BY <1>4, <1>s DEF ScanNotify, ScanSession
  <2>2. alert' \in [Checks -> LastAlert]
    BY <1>4, <2>1, AlertTypes DEF ScanNotify
  <2>3. scan' \in [Scanners -> ScanSession]
    BY <1>4, <1>s, <2>1 DEF ScanNotify, TypeOK, ScanSession
  <2> QED  BY <1>4, <2>2, <2>3 DEF ScanNotify, TypeOK
<1>5. CASE ScanRuntimes(s)
  BY <1>5, IdleTypes, <1>s DEF ScanRuntimes, TypeOK, ScanSession
<1>6. CASE ScanEnd(s)
  BY <1>6, IdleTypes DEF ScanEnd, TypeOK
<1>7. CASE ScanDies(s)
  BY <1>7, IdleTypes DEF ScanDies, TypeOK
<1> QED  BY <1>1, <1>2, <1>3, <1>4, <1>5, <1>6, <1>7 DEF ScanStep

\* Every step keeps the types.
LEMMA NextTypeOK == TypeOK /\ [Next]_vars => TypeOK'
<1> SUFFICES ASSUME TypeOK, [Next]_vars  PROVE TypeOK'
  OBVIOUS
<1>1. CASE Tick
  BY <1>1 DEF Tick, TypeOK
<1>2. ASSUME NEW c \in Checks, CreateCheck(c)  PROVE TypeOK'
  <2>1. \A a \in Allowances : NewCheck(a, now) \in Row
    BY BoundsAssumption, EffectTypes DEF TypeOK
  <2> QED  BY <1>2, <2>1 DEF CreateCheck, TypeOK
<1>3. ASSUME NEW r \in Requests, NEW c \in Checks, NEW op \in Ops,
             RequestLoad(r, c, op)
      PROVE  TypeOK'
  BY <1>3, OpsAssumption DEF RequestLoad, TypeOK, Session
<1>4. CASE UNCHANGED vars
  BY <1>4 DEF vars, TypeOK
<1> QED
  BY <1>1, <1>2, <1>3, <1>4, RequestTypeOK, ScanTypeOK DEF Next

\* The variables of CheckLifecycle have their declared types in every
\* reachable state.
THEOREM TypeCorrect == Spec => []TypeOK
BY InitTypeOK, NextTypeOK, PTL DEF Spec

-----------------------------------------------------------------------------
(* What a commit makes of the stored row, when the copy it was loaded into *)
(* is sound and the row may have changed since.                            *)

\* A ping: the row is up, and its clock is the one of the ping.
LEMMA PingCommit ==
    ASSUME now \in Nat, NEW t \in 0..now,
           NEW stored \in Row, Live(stored), SoundRow(stored),
           NEW old \in Row, Live(old), SoundRow(old), Follows(stored, old),
           NEW new, new = Flush(stored, old, Pinged(old, t), "ping")
    PROVE  /\ Live(new) /\ SoundRow(new) /\ Follows(new, stored)
           /\ new.lastPing = t /\ new.allow = stored.allow
<1>1. t \in Nat /\ t # NoTime
  BY NullAssumption
<1>2. /\ new.lastPing = t /\ new.deadline = NextDeadline(old.allow, t)
      /\ new.allow = stored.allow /\ new.created = stored.created
      /\ new.status = IF old.status = "up" THEN stored.status ELSE "up"
  BY DEF Flush, Column, Fresh, Pinged, Row
<1>3. old.allow = stored.allow
  BY DEF Follows
<1>4. old.status = "up" => stored.status \in {"up", "down"}
  BY DEF Follows, SoundRow, Row, Live
<1>5. Live(new)
  BY <1>2, <1>4 DEF Live
<1>6. Follows(new, stored)
  BY <1>1, <1>2, <1>5 DEF Follows, Live
<1>7. SoundRow(new)
  BY <1>1, <1>2, <1>3, <1>4 DEF SoundRow, Reference, Row
<1> QED  BY <1>2, <1>5, <1>6, <1>7

\* Anything else but an edit: the clock of the row is left alone.
LEMMA OtherCommit ==
    ASSUME now \in Nat, NEW t \in 0..now,
           NEW stored \in Row, Live(stored), SoundRow(stored),
           NEW old \in Row, Live(old),
           NEW op \in {"fail", "start", "pause"},
           NEW made, \/ op = "fail"  /\ made = Failed(old)
                     \/ op = "start" /\ made = Started(old, t)
                     \/ op = "pause" /\ made = PauseToggled(old),
           NEW new, new = Flush(stored, old, made, op)
    PROVE  /\ Live(new) /\ SoundRow(new) /\ Follows(new, stored)
           /\ new.lastPing = stored.lastPing /\ new.allow = stored.allow
           /\ new.created = stored.created /\ new.deadline = stored.deadline
<1>1. /\ made.lastPing = old.lastPing /\ made.deadline = old.deadline
      /\ made.allow = old.allow
      /\ made.status = old.status \/ made.status = "down"
  BY DEF Failed, Started, PauseToggled, Row
<1>2. /\ new.lastPing = stored.lastPing /\ new.deadline = stored.deadline
      /\ new.allow = stored.allow /\ new.created = stored.created
      /\ new.status = stored.status \/ new.status = "down"
  BY <1>1 DEF Flush, Column, Fresh
<1>3. Live(new)
  BY <1>2 DEF Live
<1>4. Follows(new, stored)
  BY <1>2, <1>3 DEF Follows, Live
<1>5. SoundRow(new)
  BY <1>2 DEF SoundRow, Reference, Live
<1> QED  BY <1>2, <1>3, <1>4, <1>5

\* The commit of a request, whatever its kind.
LEMMA RequestRow ==
    ASSUME TypeOK, NEW r \in Requests, SoundRequest(req[r]),
           req[r].pc = "changed", req[r].op # "delete",
           NEW stored \in Row, stored = db[req[r].check],
           Live(stored), SoundRow(stored),
           NEW new,
           new = Flush(stored, req[r].loaded, req[r].row, req[r].op)
    PROVE  /\ Live(new) /\ SoundRow(new) /\ Follows(new, stored)
           /\ new.allow = stored.allow
           /\ \/ new.lastPing \in 0..now
              \/ /\ new.lastPing = stored.lastPing
                 /\ new.created = stored.created
                 /\ new.deadline = stored.deadline
<1> DEFINE old == req[r].loaded
           op == req[r].op
           made == req[r].row
<1>1. now \in Nat /\ old \in Row
  BY DEF TypeOK, Session
<1>2. Live(old) /\ SoundRow(old) /\ Follows(stored, old)
  BY DEF SoundRequest, SoundCopy
<1>3. PICK t \in 0..now : [op |-> op, row |-> made] \in Outcomes(op, old, t)
  BY DEF SoundRequest, Made
<1>4. op \in {"ping", "fail", "start", "pause"}
  BY DEF SoundRequest, OpKinds
<1>5. CASE op = "ping"
  <2>1. made = Pinged(old, t)
    BY <1>3, <1>5 DEF Outcomes
  <2> QED  BY <1>1, <1>2, <1>5, <2>1, PingCommit
<1>6. CASE op \in {"fail", "start", "pause"}
  <2>1. \/ op = "fail"  /\ made = Failed(old)
        \/ op = "start" /\ made = Started(old, t)
        \/ op = "pause" /\ made = PauseToggled(old)
    BY <1>3, <1>6 DEF Outcomes
  <2> QED  BY <1>1, <1>2, <1>6, <2>1, OtherCommit
<1> QED  BY <1>4, <1>5, <1>6

-----------------------------------------------------------------------------
(* A sound copy stays sound while other sessions move its row on.          *)

\* The clock does not run backwards and rows only become what they may.
Advance ==
    /\ now <= now'
    /\ \A c \in Checks : db[c].status # "none" => Follows(db'[c], db[c])

\* A sound copy stays sound when its row moves on.
LEMMA CopyStable ==
    ASSUME TypeOK, TypeOK', Advance, NEW c \in Checks, NEW row \in Row,
           SoundCopy(row, c)
    PROVE  SoundCopy(row, c)'
<1>1. now \in Nat /\ now' \in Nat /\ now <= now'
  BY DEF TypeOK, Advance
<1>2. SoundRow(row) /\ Live(row) /\ Follows(db[c], row)
  BY DEF SoundCopy
<1>3. SoundRow(row)'
  BY <1>1, <1>2, NullAssumption DEF SoundRow, Row, Stamp
<1>4. Follows(db'[c], row)
  BY <1>2 DEF Advance, Follows
<1> QED  BY <1>2, <1>3, <1>4 DEF SoundCopy

\* So does a request that holds one.
LEMMA RequestStable ==
    ASSUME TypeOK, TypeOK', Advance, NEW q \in Session, SoundRequest(q)
    PROVE  SoundRequest(q)'
<1>1. now \in Nat /\ now' \in Nat /\ now <= now'
  BY DEF TypeOK, Advance
<1>2. CASE q.pc = "idle"
  BY <1>2 DEF SoundRequest
<1>3. CASE q.pc # "idle"
  <2>1. q.check \in Checks /\ q.loaded \in Row /\ SoundCopy(q.loaded, q.check)
    BY <1>3 DEF SoundRequest, Session
  <2>2. SoundCopy(q.loaded, q.check)'
    BY <2>1, CopyStable
  <2>3. Made(q) => Made(q)'
    BY <1>1 DEF Made
  <2> QED  BY <1>3, <2>2, <2>3 DEF SoundRequest
<1> QED  BY <1>2, <1>3

\* And so does a scan that holds some.
LEMMA ScanStable ==
    ASSUME TypeOK, TypeOK', Advance, NEW z \in ScanSession, SoundScan(z)
    PROVE  SoundScan(z)'
<1>1. ASSUME NEW c \in Checks, Live(z.seen[c])
      PROVE  SoundCopy(z.seen[c], c)'
  BY <1>1, CopyStable DEF SoundScan, ScanSession
<1>2. ASSUME NEW c \in Checks, db[c].status = "gone"
      PROVE  db'[c].status = "gone"
  BY <1>2 DEF Advance, Follows, Live, TypeOK, Row
<1> QED  BY <1>1, <1>2 DEF SoundScan

\* What is left to show of a step: it advances, the rows are sound after it,
\* and so is the session it changes.
LEMMA SoundIfChangedIsSound ==
    ASSUME TypeOK, TypeOK', SessionsSound, Advance,
           \A c \in Checks : SoundRow(db[c])',
           \A r \in Requests : req'[r] = req[r] \/ SoundRequest(req[r])',
           \A s \in Scanners : scan'[s] = scan[s] \/ SoundScan(scan[s])'
    PROVE  SessionsSound'
<1>1. ASSUME NEW r \in Requests, req'[r] = req[r]
      PROVE  SoundRequest(req[r])'
  <2>1. req[r] \in Session /\ SoundRequest(req[r])
    BY DEF TypeOK, SessionsSound
  <2>2. PICK q \in Session : q = req[r]
    BY <2>1
  <2>3. SoundRequest(q)'
    BY <2>1, <2>2, RequestStable
  <2> QED  BY <1>1, <2>2, <2>3
<1>2. ASSUME NEW s \in Scanners, scan'[s] = scan[s]
      PROVE  SoundScan(scan[s])'
  <2>1. scan[s] \in ScanSession /\ SoundScan(scan[s])
    BY DEF TypeOK, SessionsSound
  <2>2. PICK z \in ScanSession : z = scan[s]
    BY <2>1
  <2>3. SoundScan(z)'
    BY <2>1, <2>2, ScanStable
  <2> QED  BY <1>2, <2>2, <2>3
<1> QED  BY <1>1, <1>2 DEF SessionsSound

-----------------------------------------------------------------------------
(* SessionsSound is inductive when no request edits a check.               *)

\* A row follows itself.
LEMMA FollowsItself ==
    ASSUME NEW row, row.status # "none"
    PROVE  Follows(row, row)
BY DEF Follows

\* A step that leaves the rows alone.
LEMMA RowsKept ==
    ASSUME TypeOK, TypeOK', SessionsSound, now <= now', db' = db
    PROVE  Advance /\ \A c \in Checks : SoundRow(db[c])'
<1>1. now \in Nat /\ now' \in Nat /\ db \in [Checks -> Row]
  BY DEF TypeOK
<1>2. ASSUME NEW c \in Checks  PROVE SoundRow(db[c])'
  <2>1. db[c] \in Row /\ SoundRow(db[c])
    BY <1>1, <1>2 DEF SessionsSound
  <2> QED  BY <1>1, <2>1, NullAssumption DEF SoundRow, Live, Reference, NextDeadline, Row, Stamp
<1>3. Advance
  BY FollowsItself DEF Advance
<1> QED  BY <1>2, <1>3

\* A step that writes one row.
LEMMA RowWritten ==
    ASSUME TypeOK, SessionsSound, now' = now,
           NEW c \in Checks, NEW row, db' = [db EXCEPT ![c] = row],
           SoundRow(row), db[c].status # "none" => Follows(row, db[c])
    PROVE  Advance /\ \A d \in Checks : SoundRow(db[d])'
<1>1. now \in Nat /\ db \in [Checks -> Row]
  BY DEF TypeOK
<1>2. ASSUME NEW d \in Checks  PROVE SoundRow(db[d])'
  <2>1. CASE d = c
    BY <1>1, <2>1 DEF SoundRow, Live, Reference, NextDeadline
  <2>2. CASE d # c
    BY <1>1, <1>2, <2>2 DEF SessionsSound, SoundRow, Live, Reference, NextDeadline
  <2> QED  BY <2>1, <2>2
<1>3. ASSUME NEW d \in Checks, db[d].status # "none"
      PROVE  Follows(db'[d], db[d])
  <2>1. CASE d = c
    BY <1>1, <1>3, <2>1
  <2>2. CASE d # c
    BY <1>1, <1>3, <2>2, FollowsItself
  <2> QED  BY <2>1, <2>2
<1> QED  BY <1>1, <1>2, <1>3 DEF Advance

\* What is idle is sound.
LEMMA IdleSound == SoundRequest(IdleReq)' /\ SoundScan(IdleScan)'
BY DEF SoundRequest, IdleReq, SoundScan, IdleScan, Live, Blank

\* Without rows and sessions nothing is unsound.
LEMMA InitSound == Init => SessionsSound
BY DEF Init, SessionsSound, SoundRow, SoundRequest, SoundScan, IdleReq,
       IdleScan, Live, Blank

\* Creating a check.
LEMMA CreateSound ==
    ASSUME TypeOK, TypeOK', SessionsSound, NEW c \in Checks, CreateCheck(c)
    PROVE  SessionsSound'
<1>1. PICK a \in Allowances : db' = [db EXCEPT ![c] = NewCheck(a, now)]
  BY DEF CreateCheck
<1>2. a \in Nat /\ now \in Nat
  BY BoundsAssumption DEF TypeOK
<1>3. SoundRow(NewCheck(a, now))
  BY <1>2 DEF SoundRow, NewCheck, Blank, Reference, NextDeadline
<1>4. Advance /\ \A d \in Checks : SoundRow(db[d])'
  BY <1>1, <1>3, RowWritten DEF CreateCheck
<1> QED  BY <1>4, SoundIfChangedIsSound DEF CreateCheck

\* The steps of a request.
LEMMA RequestSound ==
    ASSUME TypeOK, TypeOK', SessionsSound, NEW r \in Requests,
           RequestStep(r) \/ RequestDies(r)
    PROVE  SessionsSound'
<1>p. req[r] \in Session /\ SoundRequest(req[r])
  BY DEF TypeOK, SessionsSound
<1>e. PICK q \in Session : q = req[r]
  BY <1>p
<1>q. /\ q \in Session /\ q = req[r] /\ SoundRequest(q)
      /\ now \in Nat /\ db \in [Checks -> Row]
  BY <1>p, <1>e DEF TypeOK
<1>o. ASSUME Advance, \A d \in Checks : SoundRow(db[d])',
             SoundRequest(req[r])', scan' = scan,
             \A p \in Requests \ {r} : req'[p] = req[p]
      PROVE  SessionsSound'
  BY <1>o, SoundIfChangedIsSound
<1>i. ASSUME req' = [req EXCEPT ![r] = IdleReq]
      PROVE  /\ SoundRequest(req[r])'
             /\ \A p \in Requests \ {r} : req'[p] = req[p]
  BY <1>i, IdleSound DEF TypeOK
<1>1. CASE RequestApply(r)
  <2>1. PICK e \in Outcomes(q.op, q.loaded, now) :
            req' = [req EXCEPT ![r].pc = "changed", ![r].op = e.op,
                               ![r].row = e.row]
    BY <1>1, <1>q DEF RequestApply
  <2>2. Advance /\ \A d \in Checks : SoundRow(db[d])'
    BY <1>1, <1>q, RowsKept DEF RequestApply
  <2>4. /\ q.check \in Checks /\ q.op \in OpKinds \ {"update"}
        /\ SoundCopy(q.loaded, q.check)'
    BY <1>1, <1>q, <2>2, CopyStable DEF RequestApply, SoundRequest, Session
  <2>5. /\ e.op \in OpKinds \ {"update"}
        /\ [op |-> e.op, row |-> e.row] \in Outcomes(e.op, q.loaded, now)
    BY <2>1, <2>4 DEF Outcomes, OpKinds
  <2>6. SoundRequest(req[r])'
    BY <1>1, <1>q, <2>1, <2>4, <2>5
       DEF RequestApply, SoundRequest, Made, TypeOK, Session
  <2> QED  BY <1>1, <1>o, <2>1, <2>2, <2>6 DEF RequestApply, TypeOK
<1>2. CASE RequestCommit(r)
  <2> DEFINE c == q.check
             new == Flush(db[c], q.loaded, q.row, q.op)
  <2>1. c \in Checks /\ SoundRow(db[c]) /\ Live(db[c])
    BY <1>2, <1>q DEF RequestCommit, SoundRequest, SessionsSound
  <2>2. SoundRow(new) /\ Follows(new, db[c])
    BY <1>2, <1>q, <2>1, RequestRow DEF RequestCommit
  <2>3. Advance /\ \A d \in Checks : SoundRow(db[d])'
    BY <1>2, <1>q, <2>1, <2>2, RowWritten DEF RequestCommit
  <2>4. SoundCopy(q.loaded, c)'
    BY <1>2, <1>q, <2>1, <2>3, CopyStable DEF RequestCommit, SoundRequest, Session
  <2>5. SoundRequest(req[r])'
    <3>1. CASE req'[r] = IdleReq
      BY <3>1 DEF SoundRequest, IdleReq
    <3>2. CASE req'[r] = [q EXCEPT !.pc = "committed", !.row = Blank]
      <4>1. /\ req'[r].pc = "committed" /\ req'[r].op = q.op
            /\ req'[r].check = c /\ req'[r].loaded = q.loaded
        BY <1>q, <3>2 DEF Session
      <4>2. q.op \in OpKinds \ {"update"}
        BY <1>2, <1>q DEF RequestCommit, SoundRequest
      <4> QED  BY <2>1, <2>4, <4>1, <4>2 DEF SoundRequest
    <3> QED  BY <1>2, <1>q, <3>1, <3>2 DEF RequestCommit, TypeOK
  <2> QED  BY <1>2, <1>o, <2>3, <2>5 DEF RequestCommit, TypeOK
<1>3. CASE RequestStale(r)
  BY <1>3, <1>q, <1>o, <1>i, RowsKept DEF RequestStale
<1>4. CASE RequestDelete(r)
  <2> DEFINE gone == [Blank EXCEPT !.status = "gone"]
  <2>1. q.check \in Checks
    BY <1>4, <1>q DEF RequestDelete, SoundRequest
  <2>2. SoundRow(gone) /\ Follows(gone, db[q.check])
    BY DEF SoundRow, Follows, Live, Blank
  <2>3. Advance /\ \A d \in Checks : SoundRow(db[d])'
    BY <1>4, <1>q, <2>1, <2>2, RowWritten DEF RequestDelete
  <2> QED  BY <1>4, <1>o, <1>i, <2>3 DEF RequestDelete
<1>5. CASE RequestNotify(r)
  BY <1>5, <1>q, <1>o, <1>i, RowsKept DEF RequestNotify
<1>6. CASE RequestDies(r)
  BY <1>6, <1>q, <1>o, <1>i, RowsKept DEF RequestDies
<1> QED  BY <1>1, <1>2, <1>3, <1>4, <1>5, <1>6 DEF RequestStep

\* Loading a row, by a handler that does not edit it.
LEMMA LoadSound ==
    ASSUME TypeOK, TypeOK', SessionsSound, NEW r \in Requests,
           NEW c \in Checks, NEW op \in OpKinds \ {"update"},
           RequestLoad(r, c, op)
    PROVE  SessionsSound'
<1>1. now \in Nat /\ db[c] \in Row /\ Live(db[c]) /\ SoundRow(db[c])
  BY DEF TypeOK, RequestLoad, SessionsSound
<1>2. Advance /\ \A d \in Checks : SoundRow(db[d])'
  BY <1>1, RowsKept DEF RequestLoad
<1>3. SoundCopy(db[c], c)
  BY <1>1, FollowsItself DEF SoundCopy, Live
<1>4. SoundRequest(req[r])'
  BY <1>1, <1>2, <1>3 DEF RequestLoad, TypeOK, SoundRequest, SoundCopy, SoundRow
<1> QED  BY <1>2, <1>4, SoundIfChangedIsSound DEF RequestLoad, TypeOK

\* The steps of a scan.
LEMMA ScanSound ==
    ASSUME TypeOK, TypeOK', SessionsSound, NEW s \in Scanners,
           ScanStep(s) \/ ScanDies(s)
    PROVE  SessionsSound'
<1>y. scan[s] \in ScanSession /\ SoundScan(scan[s])
  BY DEF TypeOK, SessionsSound
<1>e. PICK z \in ScanSession : z = scan[s]
  BY <1>y
<1>z. /\ z \in ScanSession /\ z = scan[s] /\ SoundScan(z)
      /\ now \in Nat /\ db \in [Checks -> Row]
  BY <1>y, <1>e DEF TypeOK
<1>o. ASSUME Advance, \A d \in Checks : SoundRow(db[d])',
             SoundScan(scan[s])', req' = req,
             \A t \in Scanners \ {s} : scan'[t] = scan[t]
      PROVE  SessionsSound'
  BY <1>o, SoundIfChangedIsSound
<1>i. ASSUME scan' = [scan EXCEPT ![s] = IdleScan]
      PROVE  /\ SoundScan(scan[s])'
             /\ \A t \in Scanners \ {s} : scan'[t] = scan[t]
  BY <1>i, IdleSound DEF TypeOK
<1>r. \A d \in Checks : Live(db[d]) => SoundCopy(db[d], d)
  BY FollowsItself DEF SoundCopy, SessionsSound, Live
<1>k. ASSUME db' = db, now' = now, NEW row \in Row, NEW d \in Checks,
             SoundCopy(row, d)
      PROVE  SoundCopy(row, d)'
  BY <1>k, <1>z, RowsKept, CopyStable
<1>1. CASE ScanBegin(s)
  <2>1. Advance /\ \A d \in Checks : SoundRow(db[d])'
    BY <1>1, <1>z, RowsKept DEF ScanBegin
  <2>2. \A d \in Checks : Live(db[d]) => SoundCopy(db[d], d)'
    BY <1>1, <1>z, <1>r, <1>k DEF ScanBegin
  <2>3. SoundScan(scan[s])'
    BY <1>1, <1>z, <2>2
       DEF ScanBegin, SoundScan, TypeOK, Overdue, Live, Blank
  <2> QED  BY <1>1, <1>o, <2>1, <2>3 DEF ScanBegin, TypeOK
<1>2. ASSUME NEW c \in Checks, ScanMark(s, c)  PROVE SessionsSound'
  <2> DEFINE old == z.seen[c]
             new == Flush(db[c], old, Failed(old), "fail")
  <2>1. old \in Row /\ Live(old) /\ Live(db[c]) /\ SoundRow(db[c])
    BY <1>2, <1>z DEF ScanMark, SoundScan, ScanSession, SessionsSound
  <2>2. SoundRow(new) /\ Follows(new, db[c])
    BY <1>2, <1>z, <2>1, OtherCommit DEF ScanMark
  <2>3. Advance /\ \A d \in Checks : SoundRow(db[d])'
    BY <1>2, <1>z, <2>2, RowWritten DEF ScanMark
  <2>5. SoundScan(z)'
    BY <1>z, <2>3, ScanStable
  <2>6. SoundScan(scan[s])'
    BY <1>2, <1>z, <2>5 DEF ScanMark, SoundScan, TypeOK, ScanSession
  <2> QED  BY <1>2, <1>o, <2>3, <2>6 DEF ScanMark, TypeOK
<1>3. ASSUME NEW c \in Checks, ScanAborts(s, c)  PROVE SessionsSound'
  BY <1>3, <1>z, <1>o, <1>i, RowsKept DEF ScanAborts
<1>4. CASE ScanNotify(s)
  <2> DEFINE c == z.cur
  <2>1. c \in z.todo /\ c \in Checks
    BY <1>4, <1>z DEF ScanNotify, SoundScan, ScanSession
  <2>2. Advance /\ \A d \in Checks : SoundRow(db[d])'
    BY <1>4, <1>z, RowsKept DEF ScanNotify
  <2>3. /\ \A d \in Checks : Live(db[d]) => SoundCopy(db[d], d)'
        /\ \A d \in Checks : Live(z.seen[d]) => SoundCopy(z.seen[d], d)'
    BY <1>4, <1>z, <1>r, <1>k DEF ScanNotify, SoundScan, ScanSession
  <2>4. SoundScan(scan[s])'
    BY <1>4, <1>z, <2>1, <2>3 DEF ScanNotify, SoundScan, TypeOK, ScanSession
  <2> QED  BY <1>4, <1>o, <2>2, <2>4 DEF ScanNotify, TypeOK
<1>5. CASE ScanRuntimes(s)
  <2>0. now' = now /\ db' = db /\ req' = req
    BY <1>5 DEF ScanRuntimes
  <2>1. Advance /\ \A d \in Checks : SoundRow(db[d])'
    BY <1>z, <2>0, RowsKept
  <2>2. /\ \A d \in Checks : Live(db[d]) => SoundCopy(db[d], d)'
        /\ \A d \in Checks : Live(z.seen[d]) => SoundCopy(z.seen[d], d)'
    BY <1>5, <1>z, <1>r, <1>k DEF ScanRuntimes, SoundScan, ScanSession
  <2>3. PICK y \in ScanSession : y = scan'[s]
    BY DEF TypeOK
  <2>4. /\ y.cur = NoCheck
        /\ \A d \in Checks : y.seen[d] \in {Blank, db[d], z.seen[d]}
        /\ \A d \in y.todo : y.seen[d] \in {db[d], z.seen[d]} /\ Live(db[d])
                             /\ y.seen[d].status # "none"
        /\ \A d \in Checks \ y.todo : y.seen[d] = Blank
    <3>1. z.cur = NoCheck
      BY <1>5, <1>z DEF ScanRuntimes
    <3> QED  BY <1>5, <1>z, <2>3, <3>1 DEF ScanRuntimes, TypeOK, ScanSession, Live
  <2>5. \A d \in y.todo : Live(y.seen[d])
    BY <1>z, <2>3, <2>4 DEF SoundScan, Live, ScanSession
  <2>6. SoundScan(y)'
    BY <1>z, <2>0, <2>2, <2>3, <2>4, <2>5 DEF SoundScan, Live, Blank, ScanSession
  <2> QED  BY <1>5, <1>o, <2>1, <2>3, <2>6 DEF ScanRuntimes, TypeOK
<1>6. CASE ScanEnd(s)
  BY <1>6, <1>z, <1>o, <1>i, RowsKept DEF ScanEnd
<1>7. CASE ScanDies(s)
  BY <1>7, <1>z, <1>o, <1>i, RowsKept DEF ScanDies
<1> QED  BY <1>1, <1>2, <1>3, <1>4, <1>5, <1>6, <1>7 DEF ScanStep

\* Every step but an edit keeps every row and every session sound.
LEMMA SoundStep ==
    ASSUME "update" \notin Ops, TypeOK, TypeOK', SessionsSound, [Next]_vars
    PROVE  SessionsSound'
<1>1. CASE Tick
  <2>1. Advance /\ \A d \in Checks : SoundRow(db[d])'
    BY <1>1, RowsKept DEF Tick, TypeOK
  <2> QED  BY <1>1, <2>1, SoundIfChangedIsSound DEF Tick
<1>2. ASSUME NEW r \in Requests, NEW c \in Checks, NEW op \in Ops,
             RequestLoad(r, c, op)
      PROVE  SessionsSound'
  BY <1>2, LoadSound, OpsAssumption
<1>3. CASE UNCHANGED vars
  <2>1. Advance /\ \A d \in Checks : SoundRow(db[d])'
    BY <1>3, RowsKept DEF vars, TypeOK
  <2> QED  BY <1>3, <2>1, SoundIfChangedIsSound DEF vars
<1> QED  BY <1>1, <1>2, <1>3, CreateSound, RequestSound, ScanSound DEF Next

\* Whatever requests but edits do, and however they overlap with each other
\* and with scans, every session holds a sound copy of the row it works on.
THEOREM CopiesStaySound ==
    ASSUME "update" \notin Ops
    PROVE  Spec => []SessionsSound
<1>1. TypeOK /\ TypeOK' /\ SessionsSound /\ [Next]_vars => SessionsSound'
  BY SoundStep
<1> QED  BY <1>1, InitSound, TypeCorrect, PTL DEF Spec

\* Without edits, the stored deadline is always the one of the stored last
\* ping.
THEOREM DeadlineFollowsPing ==
    ASSUME "update" \notin Ops
    PROVE  Spec => []DeadlineTracksPing
<1>1. SessionsSound => DeadlineTracksPing
  BY DEF SessionsSound, SoundRow, DeadlineTracksPing
<1> QED  BY <1>1, CopiesStaySound, PTL

\* Without edits, up and new never contradict whether there was a ping.
THEOREM StatusFollowsPing ==
    ASSUME "update" \notin Ops
    PROVE  Spec => []StatusMatchesPing
<1>1. SessionsSound => StatusMatchesPing
  BY DEF SessionsSound, SoundRow, Live, StatusMatchesPing
<1> QED  BY <1>1, CopiesStaySound, PTL

-----------------------------------------------------------------------------
(* A deleted check stays deleted, edits or not.                            *)

\* No step writes a row that is gone, except to mark it gone again.
LEMMA GoneStays ==
    ASSUME TypeOK, [Next]_vars, NEW c \in Checks, db[c].status = "gone"
    PROVE  db'[c].status = "gone"
<1>0. db \in [Checks -> Row]
  BY DEF TypeOK
<1>1. CASE db' = db
  BY <1>1
<1>2. ASSUME NEW d \in Checks, CreateCheck(d)  PROVE db'[c].status = "gone"
  BY <1>0, <1>2 DEF CreateCheck
<1>3. ASSUME NEW r \in Requests, RequestCommit(r)
      PROVE  db'[c].status = "gone"
  BY <1>0, <1>3 DEF RequestCommit, Live
<1>4. ASSUME NEW r \in Requests, RequestDelete(r)
      PROVE  db'[c].status = "gone"
  BY <1>0, <1>4 DEF RequestDelete, Blank
<1>5. ASSUME NEW s \in Scanners, NEW d \in Checks, ScanMark(s, d)
      PROVE  db'[c].status = "gone"
  BY <1>0, <1>5 DEF ScanMark, Live
<1>6. ASSUME NEW r \in Requests,
             RequestStep(r) \/ RequestDies(r)
               \/ \E d \in Checks, op \in Ops : RequestLoad(r, d, op)
      PROVE  db' = db \/ RequestCommit(r) \/ RequestDelete(r)
  BY <1>6 DEF RequestStep, RequestDies, RequestLoad, RequestApply,
              RequestStale, RequestNotify
<1>7. ASSUME NEW s \in Scanners, ScanStep(s) \/ ScanDies(s)
      PROVE  db' = db \/ \E d \in Checks : ScanMark(s, d)
  BY <1>7 DEF ScanStep, ScanDies, ScanBegin, ScanNotify, ScanRuntimes,
              ScanEnd, ScanAborts
<1>8. CASE Tick \/ UNCHANGED vars
  BY <1>1, <1>8 DEF Tick, vars
<1> QED  BY <1>1, <1>2, <1>3, <1>4, <1>5, <1>6, <1>7, <1>8 DEF Next

\* No session that loaded a check before it was deleted brings it back.
THEOREM DeletedStaysDeleted == Spec => DeletedForever
<1>1. TypeOK /\ [Next]_vars =>
        [\A c \in Checks : db[c].status = "gone" => db'[c].status = "gone"]_vars
  BY GoneStays
<1> QED  BY <1>1, TypeCorrect, PTL DEF Spec, DeletedForever

-----------------------------------------------------------------------------
(* CheckLifecycle implements PingClock.                                    *)

\* What a commit does to the clock of a check: nothing, or a ping.
LEMMA CommitClock ==
    ASSUME NEW stored \in Row, Live(stored), SoundRow(stored),
           NEW new, Live(new), SoundRow(new), new.allow = stored.allow,
           now \in Nat,
           \/ new.lastPing \in 0..now
           \/ /\ new.lastPing = stored.lastPing
              /\ new.created = stored.created
              /\ new.deadline = stored.deadline
    PROVE  \/ ClockOf(new) = ClockOf(stored)
           \/ \E t \in 0..now :
                ClockOf(new) = Clock!ClockFrom(t, ClockOf(stored).due
                                                   - ClockOf(stored).ref)
<1>1. CASE new.lastPing \in 0..now
  <2> DEFINE t == new.lastPing
  <2>1. t # NoTime /\ t \in Nat
    BY <1>1, NullAssumption
  <2>2. ClockOf(new) = [state |-> "live", ref |-> t, due |-> t + stored.allow]
    BY <2>1 DEF ClockOf, SoundRow, Reference, NextDeadline
  <2>3. /\ ClockOf(stored).due = ClockOf(stored).ref + stored.allow
        /\ ClockOf(stored).ref \in Nat /\ stored.allow \in Nat
    BY NullAssumption DEF ClockOf, SoundRow, Reference, NextDeadline, Row, Stamp
  <2>4. ClockOf(stored).due - ClockOf(stored).ref = stored.allow
    BY <2>3
  <2> QED  BY <1>1, <2>2, <2>4 DEF Clock!ClockFrom
<1>2. CASE /\ new.lastPing = stored.lastPing
           /\ new.created = stored.created
           /\ new.deadline = stored.deadline
  BY <1>2 DEF ClockOf, Reference
<1> QED  BY <1>1, <1>2

\* A write to one row is a write to one clock.
LEMMA ClockWritten ==
    ASSUME TypeOK, NEW c \in Checks, NEW row, db' = [db EXCEPT ![c] = row]
    PROVE  [d \in Checks |-> ClockOf(db[d])]'
             = [[d \in Checks |-> ClockOf(db[d])] EXCEPT ![c] = ClockOf(row)]
BY DEF TypeOK, ClockOf, Live, Reference

\* Every step is a step of the clock, or leaves it alone.
LEMMA StepImplements ==
    ASSUME "update" \notin Ops, TypeOK, SessionsSound, [Next]_vars
    PROVE  [Clock!Next]_(Clock!vars)
<1> DEFINE clock == [d \in Checks |-> ClockOf(db[d])]
<1>0. db \in [Checks -> Row] /\ now \in Nat
  BY DEF TypeOK
<1>1. CASE db' = db /\ now' = now
  <2>1. clock' = clock
    BY <1>1 DEF ClockOf, Live, Reference
  <2> QED  BY <1>1, <2>1 DEF Clock!vars
<1>2. CASE Tick
  <2>1. clock' = clock
    BY <1>2 DEF Tick, ClockOf, Live, Reference
  <2> QED  BY <1>2, <2>1 DEF Tick, Clock!Next, Clock!Tick
<1>3. ASSUME NEW c \in Checks, CreateCheck(c)  PROVE Clock!Next
  <2>1. PICK a \in Allowances : db' = [db EXCEPT ![c] = NewCheck(a, now)]
    BY <1>3 DEF CreateCheck
  <2>2. clock[c] = Clock!NoClock
    BY <1>3 DEF CreateCheck, ClockOf, Live, Clock!NoClock
  <2>3. ClockOf(NewCheck(a, now)) = Clock!ClockFrom(now, a)
    BY DEF ClockOf, NewCheck, Blank, Live, Reference, NextDeadline,
           Clock!ClockFrom
  <2>4. clock' = [clock EXCEPT ![c] = Clock!ClockFrom(now, a)]
    BY <2>1, <2>3, ClockWritten
  <2> QED  BY <1>3, <2>2, <2>4 DEF CreateCheck, Clock!Next, Clock!Create
<1>4. ASSUME NEW c \in Checks, NEW new, db' = [db EXCEPT ![c] = new],
             now' = now, Live(db[c]), Live(new), SoundRow(new),
             new.allow = db[c].allow,
             \/ new.lastPing \in 0..now
             \/ /\ new.lastPing = db[c].lastPing
                /\ new.created = db[c].created
                /\ new.deadline = db[c].deadline
      PROVE  [Clock!Next]_(Clock!vars)
  <2>1. clock' = [clock EXCEPT ![c] = ClockOf(new)]
    BY <1>4, ClockWritten
  <2>2. SoundRow(db[c])
    BY DEF SessionsSound
  <2>3. CASE ClockOf(new) = ClockOf(db[c])
    <3>1. clock' = clock
      BY <2>1, <2>3
    <3> QED  BY <1>4, <3>1 DEF Clock!vars
  <2>4. ASSUME NEW t \in 0..now,
               ClockOf(new) = Clock!ClockFrom(t, clock[c].due - clock[c].ref)
        PROVE  Clock!Ping(c, t)
    <3>1. clock[c].state = "live"
      BY <1>4 DEF ClockOf
    <3> QED  BY <1>4, <2>1, <2>4, <3>1 DEF Clock!Ping
  <2>5. clock[c] = ClockOf(db[c])
    OBVIOUS
  <2> QED  BY <1>0, <1>4, <2>2, <2>3, <2>4, <2>5, CommitClock DEF Clock!Next
<1>5. ASSUME NEW r \in Requests, RequestCommit(r)
      PROVE  [Clock!Next]_(Clock!vars)
  <2> DEFINE c == req[r].check
             new == Flush(db[c], req[r].loaded, req[r].row, req[r].op)
  <2>1. SoundRequest(req[r])
    BY DEF SessionsSound
  <2>2. c \in Checks /\ db[c] \in Row /\ SoundRow(db[c])
    BY <1>0, <1>5, <2>1 DEF RequestCommit, SoundRequest, SessionsSound
  <2>3. /\ Live(new) /\ SoundRow(new) /\ new.allow = db[c].allow
        /\ \/ new.lastPing \in 0..now
           \/ /\ new.lastPing = db[c].lastPing
              /\ new.created = db[c].created
              /\ new.deadline = db[c].deadline
    BY <1>5, <2>1, <2>2, RequestRow DEF RequestCommit
  <2>4. db' = [db EXCEPT ![c] = new] /\ now' = now /\ Live(db[c])
    BY <1>5 DEF RequestCommit
  <2> QED  BY <1>4, <2>2, <2>3, <2>4
<1>6. ASSUME NEW r \in Requests, RequestDelete(r)
      PROVE  [Clock!Next]_(Clock!vars)
  <2> DEFINE c == req[r].check
             gone == [Blank EXCEPT !.status = "gone"]
  <2>1. c \in Checks /\ SoundCopy(req[r].loaded, c)
    BY <1>6 DEF RequestDelete, SessionsSound, SoundRequest
  <2>2. ClockOf(gone) = Clock!LostClock
    BY DEF ClockOf, Live, Blank, Clock!LostClock
  <2>3. clock' = [clock EXCEPT ![c] = Clock!LostClock] /\ now' = now
    BY <1>6, <2>1, <2>2, ClockWritten DEF RequestDelete
  <2>4. CASE Live(db[c])
    BY <2>1, <2>3, <2>4 DEF ClockOf, Clock!Next, Clock!Delete
  <2>5. CASE ~Live(db[c])
    <3>1. db[c].status = "gone"
      BY <2>1, <2>5 DEF SoundCopy, Follows, Live
    <3>2. clock[c] = Clock!LostClock
      BY <2>1, <3>1 DEF ClockOf, Live, Clock!LostClock
    <3>3. clock' = clock
      BY <2>3, <3>2
    <3> QED  BY <2>3, <3>3 DEF Clock!vars
  <2> QED  BY <2>4, <2>5
<1>7. ASSUME NEW s \in Scanners, NEW c \in Checks, ScanMark(s, c)
      PROVE  [Clock!Next]_(Clock!vars)
  <2> DEFINE old == scan[s].seen[c]
             new == Flush(db[c], old, Failed(old), "fail")
  <2>1. /\ old \in Row /\ Live(old) /\ db[c] \in Row /\ Live(db[c])
        /\ SoundRow(db[c]) /\ 0 \in 0..now
    BY <1>0, <1>7 DEF ScanMark, TypeOK, SessionsSound, SoundScan, ScanSession
  <2>2. /\ Live(new) /\ SoundRow(new) /\ new.allow = db[c].allow
        /\ new.lastPing = db[c].lastPing /\ new.created = db[c].created
        /\ new.deadline = db[c].deadline
    BY <1>0, <2>1, OtherCommit
  <2>3. db' = [db EXCEPT ![c] = new] /\ now' = now
    BY <1>7 DEF ScanMark
  <2> QED  BY <1>4, <2>1, <2>2, <2>3
<1>8. ASSUME NEW r \in Requests,
             RequestStep(r) \/ RequestDies(r)
               \/ \E c \in Checks, op \in Ops : RequestLoad(r, c, op)
      PROVE  (db' = db /\ now' = now) \/ RequestCommit(r) \/ RequestDelete(r)
  BY <1>8 DEF RequestStep, RequestDies, RequestLoad, RequestApply,
              RequestStale, RequestNotify
<1>9. ASSUME NEW s \in Scanners, ScanStep(s) \/ ScanDies(s)
      PROVE  (db' = db /\ now' = now) \/ \E c \in Checks : ScanMark(s, c)
  BY <1>9 DEF ScanStep, ScanDies, ScanBegin, ScanNotify, ScanRuntimes,
              ScanEnd, ScanAborts
<1>10. CASE UNCHANGED vars
  BY <1>1, <1>10 DEF vars
<1>11. CASE Next
  BY <1>1, <1>2, <1>3, <1>5, <1>6, <1>7, <1>8, <1>9, <1>11, <1>2
     DEF Next, Clock!Next
<1> QED  BY <1>10, <1>11

\* Without edits, the database moves as PingClock says.
THEOREM LifecycleImplementsClock ==
    ASSUME "update" \notin Ops
    PROVE  Spec => ImplementsClock
<1>1. Init => Clock!Init
  BY DEF Init, Clock!Init, Clock!NoClock, ClockOf, Live, Blank
<1>2. TypeOK /\ SessionsSound /\ [Next]_vars => [Clock!Next]_(Clock!vars)
  BY StepImplements
<1> QED
  BY <1>1, <1>2, TypeCorrect, CopiesStaySound, PTL
     DEF Spec, ImplementsClock, Clock!Spec

-----------------------------------------------------------------------------
(* Sessions that never overlap, edits included.  The invariant is that at  *)
(* most one session is open, and that the copies it holds are the rows     *)
(* themselves: nothing has changed since it loaded them but what it        *)
(* committed itself.                                                       *)

\* Request r is the one session that is open.
OnlyRequest(r) ==
    /\ r \in Requests /\ req[r].pc # "idle"
    /\ \A p \in Requests \ {r} : req[p] = IdleReq
    /\ \A s \in Scanners : scan[s] = IdleScan

\* The scan of scheduler task s is the one session that is open.
OnlyScan(s) ==
    /\ s \in Scanners /\ scan[s].pc # "idle"
    /\ \A z \in Scanners \ {s} : scan[z] = IdleScan
    /\ \A r \in Requests : req[r] = IdleReq

\* What the commit of an answered request, or of a scan, left in the row.
Written(op, row) ==
    /\ op \in Answered
    /\ op = "fail" => row.status = "down" /\ row.fails > 0
    /\ op = "ping" => row.status = "up"

\* The copy of a request that is alone is the row itself, up to its commit.
SoleRequest(q) ==
    /\ q.check \in Checks /\ q.op \in OpKinds
    /\ Live(q.loaded) /\ Live(db[q.check])
    /\ q.pc # "committed" => q.loaded = db[q.check]
    /\ q.pc = "changed" => Made(q)
    /\ q.pc = "committed" => Written(q.op, db[q.check])

\* So are the copies of a scan, but for the row it has just marked.
SoleScan(z) ==
    /\ \A c \in Checks \ {z.cur} :
         z.seen[c].status # "none" => z.seen[c] = db[c]
    /\ \A c \in z.todo : Live(z.seen[c])
    /\ z.cur # NoCheck => z.cur \in z.todo /\ Written("fail", db[z.cur])

\* At most one session is open, and it works on rows as they are.
OneSession ==
    \/ Quiet
    \/ \E r \in Requests : OnlyRequest(r) /\ SoleRequest(req[r])
    \/ \E s \in Scanners : OnlyScan(s) /\ SoleScan(scan[s])

\* What SessionsSound says of the stored rows.
RowsSound == \A c \in Checks : SoundRow(db[c])

-----------------------------------------------------------------------------

\* A session that loaded the row as it still is commits its copy as it is.
LEMMA FlushUnchanged ==
    ASSUME NEW row \in Row, NEW new \in Row, new.created = row.created, NEW op
    PROVE  Flush(row, row, new, op) = new
<1>1. \A fresh, a, b : Column(a, a, b, fresh) = b
  BY DEF Column
<1>2. Flush(row, row, new, op) =
        [status |-> new.status, created |-> new.created, allow |-> new.allow,
         deadline |-> new.deadline, lastPing |-> new.lastPing,
         lastStart |-> new.lastStart, fails |-> new.fails,
         paused |-> new.paused]
  BY <1>1 DEF Flush
<1> QED  BY <1>2 DEF Row

\* What an operation makes of a sound row, edits included.
LEMMA MadeSound ==
    ASSUME now \in Nat, NEW t \in 0..now,
           NEW row \in Row, Live(row), SoundRow(row),
           NEW op \in OpKinds, NEW e \in Outcomes(op, row, t)
    PROVE  /\ e.op \in OpKinds /\ e.row \in Row
           /\ Live(e.row) /\ SoundRow(e.row) /\ e.row.created = row.created
           /\ e.op = "fail" => e.row.status = "down" /\ e.row.fails > 0
           /\ e.op = "ping" => e.row.status = "up"
           /\ e.op \notin Answered => e.row.status = row.status
           /\ e \in Outcomes(e.op, row, t)
<1>1. t \in Nat /\ t # NoTime
  BY NullAssumption
<1>2. OneMore(row.fails) > 0
  BY BoundsAssumption DEF OneMore, Row
<1>3. e.op \in OpKinds /\ e.row \in Row
  BY <1>1, OutcomeTypes
<1>4. CASE e = [op |-> "ping", row |-> Pinged(row, t)] /\ op = "ping"
  <2>1. /\ e.row.status = "up" /\ e.row.lastPing = t
        /\ e.row.created = row.created
        /\ e.row.deadline = NextDeadline(e.row.allow, t)
    BY <1>4 DEF Pinged, Row
  <2>2. SoundRow(e.row) /\ Live(e.row)
    BY <1>1, <2>1 DEF SoundRow, Live, Reference
  <2> QED  BY <1>3, <1>4, <2>1, <2>2 DEF Answered
<1>5. CASE e = [op |-> "fail", row |-> Failed(row)]
  <2>1. /\ e.row.status = "down" /\ e.row.lastPing = row.lastPing
        /\ e.row.created = row.created /\ e.row.deadline = row.deadline
        /\ e.row.allow = row.allow /\ e.row.fails > 0
    BY <1>2, <1>5 DEF Failed, Row
  <2>2. SoundRow(e.row) /\ Live(e.row)
    BY <2>1 DEF SoundRow, Live, Reference
  <2> QED  BY <1>3, <1>5, <2>1, <2>2 DEF Answered, Outcomes
<1>6. CASE \/ op = "start"  /\ e = [op |-> op, row |-> Started(row, t)]
           \/ op = "pause"  /\ e = [op |-> op, row |-> PauseToggled(row)]
           \/ op = "delete" /\ e = [op |-> op, row |-> row]
  <2>1. /\ e.row.status = row.status /\ e.row.lastPing = row.lastPing
        /\ e.row.created = row.created /\ e.row.deadline = row.deadline
        /\ e.row.allow = row.allow /\ e.op = op
    BY <1>6 DEF Started, PauseToggled, Row
  <2>2. SoundRow(e.row) /\ Live(e.row)
    BY <2>1 DEF SoundRow, Live, Reference
  <2> QED  BY <1>3, <1>6, <2>1, <2>2 DEF Answered
<1>7. CASE op = "update"
  <2>1. PICK a \in Allowances : e = [op |-> op, row |-> Updated(row, a, t)]
    BY <1>7 DEF Outcomes
  <2> DEFINE due == NextDeadline(a, Reference(row))
  <2>2. /\ e.row.lastPing = row.lastPing /\ e.row.created = row.created
        /\ e.row.allow = a /\ e.row.deadline = due
        /\ e.row.status = CASE t > due                -> "down"
                            [] row.lastPing # NoTime  -> "up"
                            [] OTHER                  -> "new"
    BY <2>1 DEF Updated, Row
  <2>3. /\ e.row.status \in {"down", "up", "new"}
        /\ e.row.status = "up" => row.lastPing # NoTime
        /\ e.row.status = "new" => row.lastPing = NoTime
    BY <2>2
  <2>4. SoundRow(e.row) /\ Live(e.row)
    BY <2>2, <2>3 DEF SoundRow, Live, Reference
  <2> QED  BY <1>3, <1>7, <2>1, <2>2, <2>4 DEF Answered
<1> QED  BY <1>4, <1>5, <1>6, <1>7 DEF Outcomes, OpKinds

-----------------------------------------------------------------------------
(* The session that acts is the one that is open.                          *)

\* A request in flight is the one open session.
LEMMA OpenRequest ==
    ASSUME OneSession, NEW r \in Requests, req[r].pc # "idle"
    PROVE  OnlyRequest(r) /\ SoleRequest(req[r])
<1>1. IdleReq.pc = "idle"
  BY DEF IdleReq
<1> QED  BY <1>1 DEF OneSession, Quiet, OnlyRequest, OnlyScan

\* A scan in progress is the one open session.
LEMMA OpenScan ==
    ASSUME OneSession, NEW s \in Scanners, scan[s] # IdleScan
    PROVE  OnlyScan(s) /\ SoleScan(scan[s])
BY DEF OneSession, Quiet, OnlyRequest, OnlyScan

\* The one open request stays the only session when it goes on.
LEMMA RequestGoesOn ==
    ASSUME TypeOK, NEW r \in Requests, OnlyRequest(r) \/ Quiet,
           NEW q, q.pc # "idle", SoleRequest(q)',
           req' = [req EXCEPT ![r] = q], scan' = scan
    PROVE  OneSession'
<1>1. /\ req'[r] = q /\ \A p \in Requests \ {r} : req'[p] = IdleReq
      /\ \A s \in Scanners : scan'[s] = IdleScan
  BY DEF TypeOK, OnlyRequest, Quiet
<1>2. OnlyRequest(r)' /\ SoleRequest(req[r])'
  BY <1>1 DEF OnlyRequest
<1> QED  BY <1>2 DEF OneSession

\* No session is open when the one open request ends.
LEMMA RequestEnds ==
    ASSUME TypeOK, NEW r \in Requests, OnlyRequest(r),
           req' = [req EXCEPT ![r] = IdleReq], scan' = scan
    PROVE  Quiet'
BY DEF TypeOK, OnlyRequest, Quiet

\* The one open scan stays the only session when it goes on.
LEMMA ScanGoesOn ==
    ASSUME TypeOK, NEW s \in Scanners, OnlyScan(s) \/ Quiet,
           NEW z, z.pc # "idle", SoleScan(z)',
           scan' = [scan EXCEPT ![s] = z], req' = req
    PROVE  OneSession'
<1>1. /\ scan'[s] = z /\ \A y \in Scanners \ {s} : scan'[y] = IdleScan
      /\ \A r \in Requests : req'[r] = IdleReq
  BY DEF TypeOK, OnlyScan, Quiet
<1>2. OnlyScan(s)' /\ SoleScan(scan[s])'
  BY <1>1 DEF OnlyScan
<1> QED  BY <1>2 DEF OneSession

\* No session is open when the one open scan ends.
LEMMA ScanEnds ==
    ASSUME TypeOK, NEW s \in Scanners, OnlyScan(s),
           scan' = [scan EXCEPT ![s] = IdleScan], req' = req
    PROVE  Quiet'
BY DEF TypeOK, OnlyScan, Quiet

\* Sound rows stay sound while time passes.
LEMMA RowsLater ==
    ASSUME TypeOK, TypeOK', now <= now',
           \A c \in Checks : SoundRow(db'[c])
    PROVE  RowsSound'
<1>1. now \in Nat /\ now' \in Nat /\ db' \in [Checks -> Row]
  BY DEF TypeOK
<1>2. ASSUME NEW row \in Row, SoundRow(row)  PROVE SoundRow(row)'
  BY <1>1, <1>2, NullAssumption DEF SoundRow, Row, Stamp
<1>3. ASSUME NEW c \in Checks  PROVE SoundRow(db[c])'
  <2>1. PICK row \in Row : row = db'[c]
    BY <1>1
  <2>2. SoundRow(row)'
    BY <1>2, <2>1
  <2> QED  BY <2>1, <2>2
<1> QED  BY <1>3 DEF RowsSound

-----------------------------------------------------------------------------

\* What a request that is alone commits is the row its operation made.
LEMMA SoleCommit ==
    ASSUME TypeOK, OneSession, RowsSound, NEW r \in Requests, RequestCommit(r)
    PROVE  LET q == req[r] IN
           /\ OnlyRequest(r) /\ q.check \in Checks /\ q.loaded = db[q.check]
           /\ db' = [db EXCEPT ![q.check] = q.row]
           /\ q.row \in Row /\ Live(q.row) /\ SoundRow(q.row)
           /\ q.op \in Answered => Written(q.op, q.row)
           /\ q.op \notin Answered => q.row.status = q.loaded.status
<1>1. PICK q : q = req[r]
  OBVIOUS
<1>2. /\ q.pc = "changed" /\ q \in Session /\ now \in Nat
      /\ db \in [Checks -> Row]
  BY <1>1 DEF RequestCommit, TypeOK
<1>3. OnlyRequest(r) /\ SoleRequest(q)
  BY <1>1, <1>2, OpenRequest
<1>4. /\ q.check \in Checks /\ q.op \in OpKinds /\ Live(q.loaded)
      /\ q.loaded = db[q.check] /\ q.loaded \in Row /\ SoundRow(q.loaded)
  BY <1>2, <1>3 DEF SoleRequest, RowsSound
<1>5. PICK t \in 0..now :
        [op |-> q.op, row |-> q.row] \in Outcomes(q.op, q.loaded, t)
  BY <1>2, <1>3 DEF SoleRequest, Made
<1>6. /\ q.row \in Row /\ Live(q.row) /\ SoundRow(q.row)
      /\ q.row.created = q.loaded.created
      /\ q.op = "fail" => q.row.status = "down" /\ q.row.fails > 0
      /\ q.op = "ping" => q.row.status = "up"
      /\ q.op \notin Answered => q.row.status = q.loaded.status
  BY <1>2, <1>4, <1>5, MadeSound
<1>7. Flush(q.loaded, q.loaded, q.row, q.op) = q.row
  BY <1>4, <1>6, FlushUnchanged
<1>8. db' = [db EXCEPT ![q.check] = q.row]
  BY <1>1, <1>2, <1>4, <1>7 DEF RequestCommit
<1> QED  BY <1>1, <1>3, <1>4, <1>6, <1>8 DEF Written

\* A step of a request keeps it alone, and every row sound.
LEMMA SoleRequestStep ==
    ASSUME TypeOK, TypeOK', OneSession, RowsSound, NEW r \in Requests,
           RequestStep(r) \/ RequestDies(r)
    PROVE  OneSession' /\ RowsSound'
<1>1. PICK q : q = req[r]
  OBVIOUS
<1>2. req[r].pc # "idle"
  BY DEF RequestStep, RequestApply, RequestCommit, RequestStale,
         RequestDelete, RequestNotify, RequestDies
<1>3. /\ OnlyRequest(r) /\ SoleRequest(q) /\ q \in Session /\ now \in Nat
      /\ db \in [Checks -> Row]
  BY <1>1, <1>2, OpenRequest DEF TypeOK
<1>4. now' = now /\ scan' = scan
  BY DEF RequestStep, RequestApply, RequestCommit, RequestStale,
         RequestDelete, RequestNotify, RequestDies
<1>5. ASSUME req' = [req EXCEPT ![r] = IdleReq]  PROVE OneSession'
  BY <1>3, <1>4, <1>5, RequestEnds DEF OneSession
<1>6. ASSUME db' = db  PROVE RowsSound'
  BY <1>3, <1>4, <1>6, RowsLater DEF RowsSound
<1>7. CASE RequestApply(r)
  <2>1. PICK e \in Outcomes(q.op, q.loaded, now) :
            req' = [req EXCEPT ![r] = [q EXCEPT !.pc = "changed", !.op = e.op,
                                                !.row = e.row]]
    BY <1>1, <1>3, <1>7 DEF RequestApply, TypeOK
  <2>2. PICK p : p = [q EXCEPT !.pc = "changed", !.op = e.op, !.row = e.row]
    OBVIOUS
  <2>3. /\ p.pc = "changed" /\ p.op = e.op /\ p.row = e.row
        /\ p.check = q.check /\ p.loaded = q.loaded
    BY <1>3, <2>2 DEF Session
  <2>4. /\ q.pc = "loaded" /\ q.loaded = db[q.check] /\ q.loaded \in Row
        /\ Live(q.loaded) /\ SoundRow(q.loaded) /\ q.op \in OpKinds
        /\ db' = db
    BY <1>1, <1>3, <1>7 DEF RequestApply, SoleRequest, RowsSound
  <2>5. now \in 0..now
    BY <1>3
  <2>6. e.op \in OpKinds /\ e \in Outcomes(e.op, q.loaded, now)
    BY <1>3, <2>4, <2>5, MadeSound
  <2>7. e = [op |-> e.op, row |-> e.row]
    BY <2>4 DEF Outcomes, OpKinds
  <2>8. Made(p)'
    BY <1>4, <2>3, <2>5, <2>6, <2>7 DEF Made
  <2>9. SoleRequest(p)'
    BY <1>3, <2>3, <2>4, <2>6, <2>8 DEF SoleRequest
  <2> QED  BY <1>3, <1>4, <1>6, <2>1, <2>2, <2>3, <2>4, <2>9, RequestGoesOn
<1>8. CASE RequestCommit(r)
  <2>1. /\ q.check \in Checks /\ q.loaded = db[q.check]
        /\ db' = [db EXCEPT ![q.check] = q.row]
        /\ q.row \in Row /\ Live(q.row) /\ SoundRow(q.row)
        /\ q.op \in Answered => Written(q.op, q.row)
    BY <1>1, <1>8, SoleCommit
  <2>2. RowsSound'
    BY <1>3, <1>4, <2>1, RowsLater DEF RowsSound
  <2>3. CASE q.op \in Answered
    <3>1. PICK p : p = [q EXCEPT !.pc = "committed", !.row = Blank]
      OBVIOUS
    <3>2. /\ p.pc = "committed" /\ p.op = q.op /\ p.check = q.check
          /\ p.loaded = q.loaded
      BY <1>3, <3>1 DEF Session
    <3>3. req' = [req EXCEPT ![r] = p] /\ db'[q.check] = q.row
      BY <1>1, <1>3, <1>8, <2>1, <2>3, <3>1 DEF RequestCommit
    <3>4. SoleRequest(p)'
      BY <1>3, <2>1, <2>3, <3>2, <3>3 DEF SoleRequest
    <3> QED  BY <1>3, <1>4, <2>2, <3>2, <3>3, <3>4, RequestGoesOn
  <2>4. CASE q.op \notin Answered
    BY <1>1, <1>5, <1>8, <2>2, <2>4 DEF RequestCommit
  <2> QED  BY <2>3, <2>4
<1>9. CASE RequestDelete(r)
  <2>1. SoundRow([Blank EXCEPT !.status = "gone"])
    BY DEF SoundRow, Live, Blank
  <2>2. \A c \in Checks : SoundRow(db'[c])
    BY <1>3, <1>9, <2>1 DEF RequestDelete, RowsSound
  <2> QED  BY <1>3, <1>4, <1>5, <1>9, <2>2, RowsLater DEF RequestDelete
<1>10. CASE RequestStale(r) \/ RequestNotify(r) \/ RequestDies(r)
  BY <1>5, <1>6, <1>10 DEF RequestStale, RequestNotify, RequestDies
<1> QED  BY <1>7, <1>8, <1>9, <1>10 DEF RequestStep

\* What a scan that is alone marks is the row that it has loaded.
LEMMA SoleMark ==
    ASSUME TypeOK, OneSession, RowsSound, NEW s \in Scanners, NEW c \in Checks,
           ScanMark(s, c)
    PROVE  /\ OnlyScan(s) /\ Live(db[c]) /\ scan[s].seen[c] = db[c]
           /\ db' = [db EXCEPT ![c] = Failed(db[c])]
           /\ Live(Failed(db[c])) /\ SoundRow(Failed(db[c]))
           /\ Written("fail", Failed(db[c]))
<1>1. /\ scan[s] # IdleScan /\ scan[s].cur = NoCheck /\ c \in scan[s].todo
      /\ Live(db[c])
  BY DEF ScanMark, IdleScan
<1>2. OnlyScan(s) /\ SoleScan(scan[s])
  BY <1>1, OpenScan
<1>3. scan[s].seen[c] = db[c]
  BY <1>1, <1>2, NullAssumption DEF SoleScan, Live
<1>4. /\ db[c] \in Row /\ now \in Nat /\ 0 \in 0..now /\ "fail" \in OpKinds
      /\ SoundRow(db[c])
  BY DEF TypeOK, OpKinds, RowsSound
<1>5. [op |-> "fail", row |-> Failed(db[c])] \in Outcomes("fail", db[c], 0)
  BY DEF Outcomes
<1>6. /\ Failed(db[c]) \in Row /\ Live(Failed(db[c]))
      /\ SoundRow(Failed(db[c]))
      /\ Failed(db[c]).created = db[c].created
      /\ Failed(db[c]).status = "down" /\ Failed(db[c]).fails > 0
  BY <1>1, <1>4, <1>5, MadeSound
<1>7. Flush(db[c], db[c], Failed(db[c]), "fail") = Failed(db[c])
  BY <1>4, <1>6, FlushUnchanged
<1> QED  BY <1>1, <1>2, <1>3, <1>6, <1>7 DEF ScanMark, Written, Answered

\* So does a step of a scan.
LEMMA SoleScanStep ==
    ASSUME Isolated, TypeOK, TypeOK', OneSession, RowsSound,
           NEW s \in Scanners, ScanStep(s) \/ ScanDies(s)
    PROVE  OneSession' /\ RowsSound'
<1>1. PICK z : z = scan[s] /\ z \in ScanSession
  BY DEF TypeOK
<1>2. /\ now' = now /\ req' = req /\ now \in Nat /\ db \in [Checks -> Row]
      /\ Blank.status = "none"
  BY DEF ScanStep, ScanBegin, ScanMark, ScanAborts, ScanNotify, ScanRuntimes,
         ScanEnd, ScanDies, TypeOK, Blank
<1>3. z # IdleScan => OnlyScan(s) /\ SoleScan(z)
  BY <1>1, OpenScan
<1>4. ASSUME z # IdleScan, scan' = [scan EXCEPT ![s] = IdleScan]
      PROVE  OneSession'
  BY <1>2, <1>3, <1>4, ScanEnds DEF OneSession
<1>5. ASSUME db' = db  PROVE RowsSound'
  BY <1>2, <1>5, RowsLater DEF RowsSound
<1>6. CASE ScanBegin(s)
  <2>1. PICK overdue : overdue = {c \in Checks : Overdue(db[c], now)}
    OBVIOUS
  <2>2. PICK y : y = [pc |-> "overdue", stamp |-> now, todo |-> overdue,
                      cur |-> NoCheck,
                      seen |-> [c \in Checks |-> IF c \in overdue THEN db[c]
                                                                  ELSE Blank]]
    OBVIOUS
  <2>3. scan' = [scan EXCEPT ![s] = y] /\ Quiet /\ db' = db
    BY <1>6, <2>1, <2>2 DEF ScanBegin, MayBegin
  <2>4. SoleScan(y)'
    BY <1>2, <2>1, <2>2, <2>3 DEF SoleScan, Overdue
  <2> QED  BY <1>2, <1>5, <2>2, <2>3, <2>4, ScanGoesOn
<1>7. ASSUME NEW c \in Checks, ScanMark(s, c)  PROVE OneSession' /\ RowsSound'
  <2>1. /\ OnlyScan(s) /\ SoleScan(z) /\ z.cur = NoCheck /\ c \in z.todo
        /\ scan' = [scan EXCEPT ![s] = [z EXCEPT !.cur = c]]
    BY <1>1, <1>3, <1>7 DEF ScanMark, TypeOK, IdleScan
  <2>2. /\ db' = [db EXCEPT ![c] = Failed(db[c])]
        /\ SoundRow(Failed(db[c])) /\ Written("fail", Failed(db[c]))
    BY <1>7, SoleMark
  <2>3. PICK y : y = [z EXCEPT !.cur = c]
    OBVIOUS
  <2>4. /\ y.pc = z.pc /\ y.cur = c /\ y.todo = z.todo /\ y.seen = z.seen
        /\ y.pc # "idle" /\ scan' = [scan EXCEPT ![s] = y]
    BY <1>1, <2>1, <2>3 DEF ScanSession, OnlyScan
  <2>5. SoleScan(y)'
    BY <1>2, <2>1, <2>2, <2>4, NullAssumption DEF SoleScan
  <2>6. \A d \in Checks : SoundRow(db'[d])
    BY <1>2, <2>2 DEF RowsSound
  <2>7. OneSession'
    BY <1>2, <2>1, <2>4, <2>5, ScanGoesOn
  <2>8. RowsSound'
    BY <1>2, <2>6, RowsLater
  <2> QED  BY <2>7, <2>8
<1>8. ASSUME NEW c \in Checks, ScanAborts(s, c)
      PROVE  OneSession' /\ RowsSound'
  BY <1>1, <1>4, <1>5, <1>8 DEF ScanAborts, IdleScan
<1>9. CASE ScanNotify(s)
  <2>1. PICK c : c = z.cur
    OBVIOUS
  <2>0. c # NoCheck /\ db' = db /\ z # IdleScan
    BY <1>1, <1>9, <2>1 DEF ScanNotify, IdleScan
  <2>2. /\ OnlyScan(s) /\ SoleScan(z) /\ c \in Checks /\ z.pc # "idle"
    BY <1>1, <1>3, <2>0, <2>1 DEF ScanSession, OnlyScan
  <2>3. PICK y : y = [z EXCEPT !.cur = NoCheck, !.todo = @ \ {c},
                               !.seen[c] = db[c]]
    OBVIOUS
  <2>4. /\ scan' = [scan EXCEPT ![s] = y] /\ y.pc = z.pc /\ y.cur = NoCheck
        /\ y.todo = z.todo \ {c} /\ y.seen = [z.seen EXCEPT ![c] = db[c]]
        /\ z.seen \in [Checks -> Row] /\ z.todo \subseteq Checks
    BY <1>1, <1>9, <2>1, <2>3 DEF ScanNotify, TypeOK, ScanSession
  <2>5. SoleScan(y)'
    BY <2>0, <2>1, <2>2, <2>4 DEF SoleScan
  <2> QED  BY <1>2, <1>5, <2>0, <2>2, <2>4, <2>5, ScanGoesOn
<1>10. CASE ScanRuntimes(s)
  <2>0. z.pc = "overdue" /\ z.cur = NoCheck /\ db' = db
    BY <1>1, <1>10 DEF ScanRuntimes
  <2>1. /\ z.pc = "overdue" /\ z.cur = NoCheck /\ db' = db
        /\ OnlyScan(s) /\ SoleScan(z)
    BY <1>3, <2>0 DEF IdleScan
  <2>2. PICK view : view = [c \in Checks |-> IF z.seen[c].status = "none"
                                             THEN db[c] ELSE z.seen[c]]
    OBVIOUS
  <2>3. \A c \in Checks : view[c] = db[c]
    BY <2>1, <2>2, NullAssumption DEF SoleScan
  <2>4. PICK late : late = {c \in Checks : /\ Live(db[c]) /\ ~db[c].paused
                                           /\ LongRunning(view[c], z.stamp)}
    OBVIOUS
  <2>5. PICK y : y = [z EXCEPT !.pc = "runtime", !.todo = late,
                               !.seen = [c \in Checks |->
                                   IF c \in late THEN view[c] ELSE Blank]]
    OBVIOUS
  <2>6. scan' = [scan EXCEPT ![s] = y]
    BY <1>1, <1>10, <2>2, <2>4, <2>5 DEF ScanRuntimes, TypeOK
  <2>7. /\ y.pc = "runtime" /\ y.todo = late /\ y.cur = NoCheck
        /\ y.seen = [c \in Checks |-> IF c \in late THEN view[c] ELSE Blank]
    BY <1>1, <2>1, <2>5 DEF ScanSession
  <2>8. SoleScan(y)'
    BY <1>2, <2>1, <2>3, <2>4, <2>7 DEF SoleScan
  <2> QED  BY <1>2, <1>5, <2>1, <2>6, <2>7, <2>8, ScanGoesOn
<1>11. CASE ScanEnd(s) \/ ScanDies(s)
  BY <1>1, <1>4, <1>5, <1>11 DEF ScanEnd, ScanDies, IdleScan
<1> QED  BY <1>6, <1>7, <1>8, <1>9, <1>10, <1>11 DEF ScanStep

\* A request begins alone, with the row as it is.
LEMMA SoleLoad ==
    ASSUME Isolated, TypeOK, TypeOK', RowsSound, NEW r \in Requests,
           NEW c \in Checks, NEW op \in Ops, RequestLoad(r, c, op)
    PROVE  OneSession' /\ RowsSound'
<1>1. PICK q : q = [pc |-> "loaded", op |-> op, check |-> c,
                    loaded |-> db[c], row |-> db[c]]
  OBVIOUS
<1>2. /\ req' = [req EXCEPT ![r] = q] /\ scan' = scan /\ Quiet /\ Live(db[c])
      /\ db' = db /\ now' = now /\ now \in Nat
  BY <1>1 DEF RequestLoad, MayBegin, TypeOK
<1>3. SoleRequest(q)'
  BY <1>1, <1>2, OpsAssumption DEF SoleRequest
<1>4. OneSession'
  BY <1>1, <1>2, <1>3, RequestGoesOn
<1>5. RowsSound'
  BY <1>2, RowsLater DEF RowsSound
<1> QED  BY <1>4, <1>5

\* A step of the world leaves the sessions, and the rows they hold, alone.
LEMMA SoleWorld ==
    ASSUME TypeOK, TypeOK', OneSession, RowsSound,
           \/ \E c \in Checks : CreateCheck(c)
           \/ Tick \/ UNCHANGED vars
    PROVE  OneSession' /\ RowsSound'
<1>1. /\ UNCHANGED <<req, scan>> /\ now \in Nat /\ now' \in Nat /\ now <= now'
      /\ db \in [Checks -> Row]
  BY DEF CreateCheck, Tick, vars, TypeOK
<1>2. \A c \in Checks :
        \/ db'[c] = db[c]
        \/ /\ db[c].status = "none" /\ SoundRow(db'[c])
  <2>1. ASSUME NEW c \in Checks, CreateCheck(c)
        PROVE  /\ db[c].status = "none" /\ SoundRow(db'[c])
               /\ \A d \in Checks \ {c} : db'[d] = db[d]
    <3>1. PICK a \in Allowances : db' = [db EXCEPT ![c] = NewCheck(a, now)]
      BY <2>1 DEF CreateCheck
    <3>2. SoundRow(NewCheck(a, now))
      BY <1>1 DEF SoundRow, NewCheck, Blank, Reference, NextDeadline
    <3> QED  BY <1>1, <2>1, <3>1, <3>2 DEF CreateCheck
  <2> QED  BY <2>1 DEF Tick, vars
<1>3. RowsSound'
  BY <1>1, <1>2, RowsLater DEF RowsSound
<1>4. ASSUME NEW q \in Session, SoleRequest(q)  PROVE SoleRequest(q)'
  <2>1. db'[q.check] = db[q.check]
    BY <1>2, <1>4 DEF SoleRequest, Live
  <2>2. Made(q) => Made(q)'
    BY <1>1 DEF Made
  <2> QED  BY <1>4, <2>1, <2>2 DEF SoleRequest
<1>5. ASSUME NEW z \in ScanSession, SoleScan(z)  PROVE SoleScan(z)'
  <2>1. ASSUME NEW c \in Checks \ {z.cur}, z.seen[c].status # "none"
        PROVE  z.seen[c] = db'[c]
    BY <1>2, <1>5, <2>1 DEF SoleScan
  <2>2. ASSUME z.cur # NoCheck  PROVE db'[z.cur] = db[z.cur]
    BY <1>2, <1>5, <2>2 DEF SoleScan, Written, ScanSession
  <2> QED  BY <1>5, <2>1, <2>2 DEF SoleScan
<1>6. CASE Quiet
  BY <1>1, <1>3, <1>6 DEF Quiet, OneSession
<1>7. ASSUME NEW r \in Requests, OnlyRequest(r), SoleRequest(req[r])
      PROVE  OneSession'
  <2>1. PICK q \in Session : q = req[r] /\ SoleRequest(q)
    BY <1>7 DEF TypeOK
  <2>2. SoleRequest(q)' /\ q = req'[r]
    BY <1>1, <1>4, <2>1
  <2> QED  BY <1>1, <1>7, <2>2 DEF OnlyRequest, OneSession
<1>8. ASSUME NEW s \in Scanners, OnlyScan(s), SoleScan(scan[s])
      PROVE  OneSession'
  <2>1. PICK z \in ScanSession : z = scan[s] /\ SoleScan(z)
    BY <1>8 DEF TypeOK
  <2>2. SoleScan(z)' /\ z = scan'[s]
    BY <1>1, <1>5, <2>1
  <2> QED  BY <1>1, <1>8, <2>2 DEF OnlyScan, OneSession
<1> QED  BY <1>3, <1>6, <1>7, <1>8 DEF OneSession

\* Sessions that begin only when none is open stay alone.
LEMMA IsolatedInvariant ==
    ASSUME Isolated
    PROVE  Spec => [](TypeOK /\ OneSession /\ RowsSound)
<1>1. Init => OneSession /\ RowsSound
  BY DEF Init, OneSession, Quiet, RowsSound, SoundRow, Live, Blank
<1>2. TypeOK /\ TypeOK' /\ OneSession /\ RowsSound /\ [Next]_vars
        => OneSession' /\ RowsSound'
  BY SoleRequestStep, SoleScanStep, SoleLoad, SoleWorld DEF Next
<1> QED  BY <1>1, <1>2, TypeCorrect, PTL DEF Spec

\* When sessions never overlap, the stored deadline is always the one of the
\* stored last ping: an edit recomputes it from that ping, never from now.
THEOREM IsolatedDeadlines == Isolated => (Spec => []DeadlineTracksPing)
<1> SUFFICES ASSUME Isolated PROVE Spec => []DeadlineTracksPing
  OBVIOUS
<1>1. RowsSound => DeadlineTracksPing
  BY DEF RowsSound, SoundRow, DeadlineTracksPing
<1> QED  BY <1>1, IsolatedInvariant, PTL

\* When sessions never overlap, up implies a ping and new implies none, edits
\* included: update_check computes the status anew from the last ping.
THEOREM IsolatedStatus == Isolated => (Spec => []StatusMatchesPing)
<1> SUFFICES ASSUME Isolated PROVE Spec => []StatusMatchesPing
  OBVIOUS
<1>1. RowsSound => StatusMatchesPing
  BY DEF RowsSound, SoundRow, Live, StatusMatchesPing
<1> QED  BY <1>1, IsolatedInvariant, PTL

\* When sessions never overlap, the commit of an accepted ping leaves the
\* check up, whatever its status was and whether it is paused or not.
THEOREM IsolatedPings == Isolated => (Spec => PingLeavesUp)
<1> SUFFICES ASSUME Isolated PROVE Spec => PingLeavesUp
  OBVIOUS
<1>1. ASSUME TypeOK, OneSession, RowsSound, [Next]_vars, NEW r \in Requests,
             req[r].pc = "changed", req[r].op = "ping",
             req'[r].pc = "committed"
      PROVE  db'[req[r].check].status = "up"
  <2>1. RequestCommit(r)
    <3>1. req \in [Requests -> Session] /\ IdleReq.pc = "idle"
      BY <1>1 DEF TypeOK, IdleReq
    <3>2. ~UNCHANGED req
      BY <1>1
    <3>3. PICK p \in Requests :
            \/ \E c \in Checks, op \in Ops : RequestLoad(p, c, op)
            \/ RequestStep(p) \/ RequestDies(p)
      BY <1>1, <3>2 DEF Next, vars, Tick, CreateCheck, ScanStep, ScanBegin,
                        ScanMark, ScanAborts, ScanNotify, ScanRuntimes,
                        ScanEnd, ScanDies
    <3>4. p = r
      BY <1>1, <3>1, <3>3
         DEF RequestLoad, RequestStep, RequestApply, RequestCommit,
             RequestStale, RequestDelete, RequestNotify, RequestDies
    <3> QED
      BY <1>1, <3>1, <3>3, <3>4
         DEF RequestLoad, RequestStep, RequestApply, RequestStale,
             RequestDelete, RequestNotify, RequestDies
  <2> QED
    BY <1>1, <2>1, SoleCommit DEF Written, Answered, TypeOK
<1>2. TypeOK /\ OneSession /\ RowsSound /\ [Next]_vars =>
        [\A r \in Requests :
           (req[r].pc = "changed" /\ req[r].op = "ping"
              /\ req'[r].pc = "committed")
             => db'[req[r].check].status = "up"]_vars
  BY <1>1
<1> QED  BY <1>2, IsolatedInvariant, PTL DEF Spec, PingLeavesUp

-----------------------------------------------------------------------------
(* What the owner was told.  Between sessions the owner knows the state of *)
(* every check; while one is open, all but the one it works on, of which   *)
(* the owner knows the state that the session has loaded.                  *)

\* The owner of check c was last told that it has this status.
Agrees(c, status) == (status = "down") <=> (alert[c].kind = "down")

\* The owner knows the state of every check; of check d, the one row shows.
ToldBut(d, row) ==
    \A c \in Checks : Live(db[c]) =>
        Agrees(c, IF c = d THEN row.status ELSE db[c].status)

\* The owner knows the state of every check.
ToldAll == ToldBut(NoCheck, Blank)

\* What the owner knows during a scan, which tells of each check it marks.
ToldScan(z) ==
    IF z.cur = NoCheck THEN ToldAll ELSE ToldBut(z.cur, z.seen[z.cur])

\* The owner is told of what an open session has done when it is through.
Told ==
    /\ Quiet => ToldAll
    /\ \A r \in Requests :
         req[r].pc # "idle" => ToldBut(req[r].check, req[r].loaded)
    /\ \A s \in Scanners : scan[s].pc # "idle" => ToldScan(scan[s])
    /\ \A c \in Checks : db[c].status = "none" => alert[c].kind # "down"
    /\ AlertsAlternate

\* The first failure is told, and so is the recovery; nothing dies.
ToldAtOnce == Isolated /\ NotifyOnUp /\ NotifyAfter <= 1 /\ MaxDeaths = 0

\* Told, when no session is open.
LEMMA ToldQuiet ==
    ASSUME Quiet', ToldAll', AlertsAlternate',
           \A c \in Checks : db'[c].status = "none" => alert'[c].kind # "down"
    PROVE  Told'
BY DEF Quiet, Told, IdleReq, IdleScan

\* Told, while request r is open.
LEMMA ToldRequest ==
    ASSUME NEW r \in Requests, OnlyRequest(r)', AlertsAlternate',
           ToldBut(req[r].check, req[r].loaded)',
           \A c \in Checks : db'[c].status = "none" => alert'[c].kind # "down"
    PROVE  Told'
BY DEF OnlyRequest, Quiet, Told, IdleReq, IdleScan

\* Told, while a scan is open.
LEMMA ToldScanning ==
    ASSUME NEW s \in Scanners, OnlyScan(s)', AlertsAlternate',
           ToldScan(scan[s])',
           \A c \in Checks : db'[c].status = "none" => alert'[c].kind # "down"
    PROVE  Told'
BY DEF OnlyScan, Quiet, Told, IdleReq, IdleScan

\* An alert of the row that was changed makes the owner know it again.
LEMMA TellingTells ==
    ASSUME ToldAtOnce, TypeOK, AlertsAlternate, NEW c \in Checks, Live(db[c]),
           NEW loaded \in Row, ToldBut(c, loaded),
           \/ TellFailure(c, loaded)  /\ Written("fail", db[c])
           \/ TellRecovery(c, loaded) /\ Written("ping", db[c])
           \/ ShowEdit(c)
    PROVE  /\ alert' \in [Checks -> LastAlert]
           /\ \A d \in Checks : d # c => alert'[d] = alert[d]
           /\ db[c].status = "down" <=> alert'[c].kind = "down"
           /\ ~alert'[c].again
<1>1. /\ alert \in [Checks -> LastAlert] /\ ~alert[c].again
      /\ loaded.status = "down" <=> alert[c].kind = "down"
      /\ alert' \in [Checks -> LastAlert]
  BY AlertTypes DEF TypeOK, AlertsAlternate, ToldBut, Agrees
<1>2. CASE TellFailure(c, loaded) /\ Written("fail", db[c])
  <2>1. /\ db[c].status = "down"
        /\ NotifyAfter > 0 => db[c].fails >= NotifyAfter
    BY <1>2, BoundsAssumption DEF Written, ToldAtOnce, TypeOK, Row
  <2>2. CASE loaded.status = "down"
    BY <1>1, <1>2, <2>1, <2>2 DEF TellFailure, TellsDown
  <2>3. CASE loaded.status # "down"
    <3>1. alert' = [alert EXCEPT ![c] = [kind |-> "down", again |-> FALSE]]
      BY <1>1, <1>2, <2>1, <2>3 DEF TellFailure, TellsDown, SendAlert
    <3> QED  BY <1>1, <2>1, <3>1
  <2> QED  BY <2>2, <2>3
<1>3. CASE TellRecovery(c, loaded) /\ Written("ping", db[c])
  <2>1. db[c].status = "up" /\ NotifyOnUp
    BY <1>3 DEF Written, ToldAtOnce
  <2>2. CASE loaded.status # "down"
    BY <1>1, <1>3, <2>1, <2>2 DEF TellRecovery, TellsUp
  <2>3. CASE loaded.status = "down"
    <3>1. alert' = [alert EXCEPT ![c] = [kind |-> "up", again |-> FALSE]]
      BY <1>1, <1>3, <2>1, <2>3 DEF TellRecovery, TellsUp, SendAlert
    <3> QED  BY <1>1, <2>1, <3>1
  <2> QED  BY <2>2, <2>3
<1>4. CASE ShowEdit(c)
  BY <1>1, <1>4 DEF ShowEdit
<1> QED  BY <1>2, <1>3, <1>4

\* A request tells of what it has committed, and of nothing else.
LEMMA ToldRequestStep ==
    ASSUME ToldAtOnce, TypeOK, OneSession, RowsSound, Told,
           NEW r \in Requests, RequestStep(r) \/ RequestDies(r)
    PROVE  Told'
<1>1. PICK q : q = req[r]
  OBVIOUS
<1>2. req[r].pc # "idle"
  BY DEF RequestStep, RequestApply, RequestCommit, RequestStale,
         RequestDelete, RequestNotify, RequestDies
<1>3. /\ OnlyRequest(r) /\ SoleRequest(q) /\ q \in Session
      /\ ToldBut(q.check, q.loaded) /\ AlertsAlternate
      /\ \A c \in Checks : db[c].status = "none" => alert[c].kind # "down"
      /\ db \in [Checks -> Row]
  BY <1>1, <1>2, OpenRequest DEF TypeOK, Told
<1>4. now' = now /\ scan' = scan
  BY DEF RequestStep, RequestApply, RequestCommit, RequestStale,
         RequestDelete, RequestNotify, RequestDies
<1>5. req' = [req EXCEPT ![r] = IdleReq] => Quiet'
  BY <1>3, <1>4, RequestEnds
<1>6. CASE RequestApply(r)
  <2>1. /\ req'[r].pc # "idle" /\ req'[r].check = q.check
        /\ req'[r].loaded = q.loaded
        /\ \A p \in Requests \ {r} : req'[p] = req[p]
    BY <1>1, <1>3, <1>6 DEF RequestApply, TypeOK, Session
  <2>2. OnlyRequest(r)' /\ db' = db /\ alert' = alert
    BY <1>3, <1>4, <1>6, <2>1 DEF OnlyRequest, RequestApply
  <2>3. AlertsAlternate' /\ ToldBut(req[r].check, req[r].loaded)'
    BY <1>3, <2>1, <2>2 DEF AlertsAlternate, ToldBut, Agrees
  <2> QED  BY <1>3, <2>2, <2>3, ToldRequest
<1>7. CASE RequestCommit(r)
  <2>1. /\ q.check \in Checks /\ q.loaded = db[q.check]
        /\ db' = [db EXCEPT ![q.check] = q.row] /\ Live(q.row)
        /\ q.op \notin Answered => q.row.status = q.loaded.status
        /\ alert' = alert
    BY <1>1, <1>7, SoleCommit DEF RequestCommit
  <2>2. AlertsAlternate'
    BY <1>3, <2>1 DEF AlertsAlternate
  <2>3. /\ \A c \in Checks : db'[c].status = "none" => alert'[c].kind # "down"
        /\ Live(db[q.check])
    BY <1>3, <2>1 DEF Live, SoleRequest
  <2>4. CASE q.op \in Answered
    <3>1. /\ req'[r].pc # "idle" /\ req'[r].check = q.check
          /\ req'[r].loaded = q.loaded
          /\ \A p \in Requests \ {r} : req'[p] = req[p]
      BY <1>1, <1>3, <1>7, <2>4 DEF RequestCommit, TypeOK, Session
    <3>2. OnlyRequest(r)'
      BY <1>3, <1>4, <3>1 DEF OnlyRequest
    <3>3. ToldBut(req[r].check, req[r].loaded)'
      BY <1>3, <2>1, <2>3, <3>1 DEF ToldBut, Agrees
    <3> QED  BY <2>2, <2>3, <3>2, <3>3, ToldRequest
  <2>5. CASE q.op \notin Answered
    <3>1. Quiet'
      BY <1>1, <1>5, <1>7, <2>5 DEF RequestCommit
    <3>2. ToldAll'
      BY <1>3, <2>1, <2>3, <2>5, NullAssumption DEF ToldAll, ToldBut, Agrees
    <3> QED  BY <2>2, <2>3, <3>1, <3>2, ToldQuiet
  <2> QED  BY <2>4, <2>5
<1>8. CASE RequestDelete(r)
  <2>1. /\ db' = [db EXCEPT ![q.check] = [Blank EXCEPT !.status = "gone"]]
        /\ alert' = alert /\ q.check \in Checks /\ Quiet'
    BY <1>1, <1>3, <1>5, <1>8 DEF RequestDelete, SoleRequest
  <2>2. \A c \in Checks : \/ db'[c] = db[c] /\ c # q.check
                          \/ db'[c].status = "gone"
    BY <1>3, <2>1 DEF Blank
  <2>3. ToldAll' /\ AlertsAlternate'
    BY <1>3, <2>1, <2>2, NullAssumption
       DEF ToldAll, ToldBut, Agrees, Live, AlertsAlternate
  <2>4. \A c \in Checks : db'[c].status = "none" => alert'[c].kind # "down"
    BY <1>3, <2>1, <2>2
  <2> QED  BY <2>1, <2>3, <2>4, ToldQuiet
<1>9. CASE RequestStale(r)
  BY <1>1, <1>3, <1>9 DEF RequestStale, SoleRequest
<1>10. CASE RequestNotify(r)
  <2>1. /\ q.pc = "committed" /\ Written(q.op, db[q.check])
        /\ q.check \in Checks /\ Live(db[q.check]) /\ q.loaded \in Row
        /\ db' = db /\ Quiet'
    BY <1>1, <1>3, <1>5, <1>10 DEF RequestNotify, SoleRequest, Session
  <2>2. \/ TellFailure(q.check, q.loaded)  /\ Written("fail", db[q.check])
        \/ TellRecovery(q.check, q.loaded) /\ Written("ping", db[q.check])
        \/ ShowEdit(q.check)
    BY <1>1, <1>10, <2>1 DEF RequestNotify
  <2>3. /\ \A d \in Checks : d # q.check => alert'[d] = alert[d]
        /\ db[q.check].status = "down" <=> alert'[q.check].kind = "down"
        /\ ~alert'[q.check].again
    BY <1>3, <2>1, <2>2, TellingTells
  <2>4. ToldAll'
    BY <1>3, <2>1, <2>3, NullAssumption DEF ToldAll, ToldBut, Agrees
  <2>5. AlertsAlternate'
    BY <1>3, <2>3 DEF AlertsAlternate
  <2>6. \A c \in Checks : db'[c].status = "none" => alert'[c].kind # "down"
    BY <1>3, <2>1, <2>3 DEF Live
  <2> QED  BY <2>1, <2>4, <2>5, <2>6, ToldQuiet
<1>11. CASE RequestDies(r)
  BY <1>11 DEF RequestDies, ToldAtOnce, TypeOK
<1> QED  BY <1>6, <1>7, <1>8, <1>9, <1>10, <1>11 DEF RequestStep

\* A scan tells of each check it marks before it takes the next one.
LEMMA ToldScanStep ==
    ASSUME ToldAtOnce, TypeOK, OneSession, RowsSound, Told,
           NEW s \in Scanners, ScanStep(s) \/ ScanDies(s)
    PROVE  Told'
<1>1. PICK z : z = scan[s] /\ z \in ScanSession
  BY DEF TypeOK
<1>2. /\ req' = req /\ db \in [Checks -> Row] /\ AlertsAlternate
      /\ \A c \in Checks : db[c].status = "none" => alert[c].kind # "down"
  BY DEF ScanStep, ScanBegin, ScanMark, ScanAborts, ScanNotify, ScanRuntimes,
         ScanEnd, ScanDies, TypeOK, Told
<1>3. z # IdleScan => OnlyScan(s) /\ SoleScan(z) /\ ToldScan(z)
  BY <1>1, OpenScan DEF OnlyScan, Told
<1>4. ASSUME alert' = alert, db' = db
      PROVE  /\ AlertsAlternate' /\ (ToldAll => ToldAll')
             /\ \A c \in Checks :
                  db'[c].status = "none" => alert'[c].kind # "down"
  BY <1>2, <1>4 DEF AlertsAlternate, ToldAll, ToldBut, Agrees
<1>5. ASSUME OnlyScan(s) \/ Quiet, NEW y, scan' = [scan EXCEPT ![s] = y],
             y.pc # "idle"
      PROVE  OnlyScan(s)' /\ scan'[s] = y
  BY <1>2, <1>5 DEF OnlyScan, Quiet, TypeOK
<1>6. CASE ScanBegin(s)
  <2>1. PICK y : y = [pc |-> "overdue", stamp |-> now,
                      todo |-> {c \in Checks : Overdue(db[c], now)},
                      cur |-> NoCheck,
                      seen |-> [c \in Checks |->
                                  IF c \in {d \in Checks : Overdue(db[d], now)}
                                  THEN db[c] ELSE Blank]]
    OBVIOUS
  <2>2. /\ scan' = [scan EXCEPT ![s] = y] /\ Quiet /\ db' = db
        /\ alert' = alert /\ y.pc # "idle" /\ y.cur = NoCheck
    BY <1>6, <2>1 DEF ScanBegin, MayBegin, ToldAtOnce
  <2>3. ToldAll' /\ OnlyScan(s)' /\ scan'[s] = y
    BY <1>4, <1>5, <2>2 DEF Told
  <2>4. ToldScan(scan[s])'
    BY <2>2, <2>3 DEF ToldScan
  <2> QED  BY <1>4, <2>2, <2>3, <2>4, ToldScanning
<1>7. ASSUME NEW c \in Checks, ScanMark(s, c)  PROVE Told'
  <2>1. /\ OnlyScan(s) /\ ToldAll /\ c # NoCheck /\ alert' = alert
        /\ scan' = [scan EXCEPT ![s] = [z EXCEPT !.cur = c]]
    BY <1>1, <1>3, <1>7, NullAssumption
       DEF ScanMark, TypeOK, IdleScan, ToldScan
  <2>2. /\ db' = [db EXCEPT ![c] = Failed(db[c])] /\ Live(db[c])
        /\ z.seen[c] = db[c] /\ Live(Failed(db[c]))
    BY <1>1, <1>7, SoleMark
  <2>3. PICK y : y = [z EXCEPT !.cur = c]
    OBVIOUS
  <2>4. y.pc = z.pc /\ y.cur = c /\ y.seen = z.seen /\ y.pc # "idle"
    BY <1>1, <2>1, <2>3 DEF ScanSession, OnlyScan
  <2>5. OnlyScan(s)' /\ scan'[s] = y
    BY <1>5, <2>1, <2>3, <2>4
  <2>6. ToldBut(c, y.seen[c])'
    BY <1>2, <2>1, <2>2, <2>4, NullAssumption DEF ToldAll, ToldBut, Agrees
  <2>7. ToldScan(scan[s])'
    BY <2>1, <2>4, <2>5, <2>6 DEF ToldScan
  <2>8. /\ AlertsAlternate'
        /\ \A d \in Checks : db'[d].status = "none" => alert'[d].kind # "down"
    BY <1>2, <2>1, <2>2 DEF AlertsAlternate, Live
  <2> QED  BY <2>5, <2>7, <2>8, ToldScanning
<1>8. CASE ScanNotify(s)
  <2>1. PICK c : c = z.cur
    OBVIOUS
  <2>2. c # NoCheck /\ db' = db /\ z # IdleScan
    BY <1>1, <1>8, <2>1 DEF ScanNotify, IdleScan
  <2>3. /\ OnlyScan(s) /\ SoleScan(z) /\ c \in Checks /\ z.pc # "idle"
        /\ ToldBut(c, z.seen[c])
    BY <1>1, <1>3, <2>1, <2>2 DEF ScanSession, OnlyScan, ToldScan
  <2>4. /\ TellFailure(c, z.seen[c]) /\ z.seen[c] \in Row
        /\ Written("fail", db[c]) /\ Live(db[c])
    BY <1>1, <1>8, <2>1, <2>2, <2>3
       DEF ScanNotify, ScanSession, SoleScan, Written, Live
  <2>5. /\ \A d \in Checks : d # c => alert'[d] = alert[d]
        /\ db[c].status = "down" <=> alert'[c].kind = "down"
        /\ ~alert'[c].again
    BY <1>2, <2>3, <2>4, TellingTells
  <2>6. ToldAll'
    BY <2>2, <2>3, <2>5, NullAssumption DEF ToldAll, ToldBut, Agrees
  <2>7. AlertsAlternate'
    BY <1>2, <2>5 DEF AlertsAlternate
  <2>8. \A d \in Checks : db'[d].status = "none" => alert'[d].kind # "down"
    BY <1>2, <2>2, <2>4, <2>5 DEF Live
  <2>9. PICK y : y = [z EXCEPT !.cur = NoCheck, !.todo = @ \ {c},
                               !.seen[c] = db[c]]
    OBVIOUS
  <2>10. scan' = [scan EXCEPT ![s] = y] /\ y.pc = z.pc /\ y.cur = NoCheck
    BY <1>1, <1>8, <2>1, <2>9 DEF ScanNotify, TypeOK, ScanSession
  <2>11. OnlyScan(s)' /\ ToldScan(scan[s])'
    BY <1>5, <2>3, <2>6, <2>10 DEF ToldScan
  <2> QED  BY <2>7, <2>8, <2>11, ToldScanning
<1>9. CASE ScanRuntimes(s)
  <2>1. z.pc = "overdue" /\ z.cur = NoCheck /\ db' = db /\ alert' = alert
    BY <1>1, <1>9 DEF ScanRuntimes
  <2>2. OnlyScan(s) /\ ToldAll
    BY <1>3, <2>1 DEF IdleScan, ToldScan
  <2>3. PICK todo, seen :
          scan' = [scan EXCEPT ![s] = [z EXCEPT !.pc = "runtime",
                                                !.todo = todo, !.seen = seen]]
    BY <1>1, <1>9 DEF ScanRuntimes, TypeOK
  <2>4. PICK y : y = [z EXCEPT !.pc = "runtime", !.todo = todo, !.seen = seen]
    OBVIOUS
  <2>5. y.pc # "idle" /\ y.cur = NoCheck
    BY <1>1, <2>1, <2>4 DEF ScanSession
  <2>6. OnlyScan(s)' /\ ToldScan(scan[s])'
    BY <1>4, <1>5, <2>1, <2>2, <2>3, <2>4, <2>5 DEF ToldScan
  <2> QED  BY <1>4, <2>1, <2>6, ToldScanning
<1>10. ASSUME ScanEnd(s) \/ \E c \in Checks : ScanAborts(s, c)
       PROVE  Told'
  <2>1. /\ z # IdleScan /\ z.cur = NoCheck /\ alert' = alert /\ db' = db
        /\ scan' = [scan EXCEPT ![s] = IdleScan]
    BY <1>1, <1>10 DEF ScanEnd, ScanAborts, IdleScan
  <2>2. Quiet' /\ ToldAll'
    BY <1>2, <1>3, <1>4, <2>1, ScanEnds DEF ToldScan
  <2> QED  BY <1>4, <2>1, <2>2, ToldQuiet
<1>11. CASE ScanDies(s)
  BY <1>11 DEF ScanDies, ToldAtOnce, TypeOK
<1> QED  BY <1>6, <1>7, <1>8, <1>9, <1>10, <1>11 DEF ScanStep

\* The owner knows the state of a row that is loaded.
LEMMA ToldLoad ==
    ASSUME ToldAtOnce, TypeOK, Told, NEW r \in Requests,
           NEW c \in Checks, NEW op \in Ops, RequestLoad(r, c, op)
    PROVE  Told'
<1>1. /\ Quiet /\ scan' = scan /\ db' = db /\ alert' = alert
      /\ req'[r].pc # "idle" /\ req'[r].check = c /\ req'[r].loaded = db[c]
      /\ \A p \in Requests \ {r} : req'[p] = req[p]
  BY DEF RequestLoad, MayBegin, ToldAtOnce, TypeOK
<1>2. OnlyRequest(r)'
  BY <1>1 DEF OnlyRequest, Quiet
<1>3. ToldBut(req[r].check, req[r].loaded)'
  BY <1>1, NullAssumption DEF Told, ToldAll, ToldBut, Agrees
<1> QED  BY <1>1, <1>2, <1>3, ToldRequest DEF Told, AlertsAlternate

\* The clock tells nothing, and a new check is not down.
LEMMA ToldWorld ==
    ASSUME TypeOK, OneSession, Told,
           \/ \E c \in Checks : CreateCheck(c)
           \/ Tick \/ UNCHANGED vars
    PROVE  Told'
<1>1. /\ UNCHANGED <<req, scan, alert>> /\ db \in [Checks -> Row]
  BY DEF CreateCheck, Tick, vars, TypeOK
<1>2. \A c \in Checks :
        \/ db'[c] = db[c]
        \/ db[c].status = "none" /\ db'[c].status = "new"
  BY <1>1 DEF CreateCheck, NewCheck, Blank, Tick, vars
<1>3. ASSUME NEW d, NEW row, ToldBut(d, row),
             d \in Checks => db[d].status # "none"
      PROVE  ToldBut(d, row)'
  BY <1>1, <1>2, <1>3 DEF Told, ToldBut, Agrees, Live
<1>4. ToldAll => ToldAll'
  BY <1>3, NullAssumption DEF ToldAll
<1>5. ASSUME NEW r \in Requests, req[r].pc # "idle"
      PROVE  ToldBut(req[r].check, req[r].loaded)'
  <2>1. Live(db[req[r].check]) /\ ToldBut(req[r].check, req[r].loaded)
    BY <1>5, OpenRequest DEF SoleRequest, Told
  <2>2. PICK q : q = req[r] /\ q = req'[r]
    BY <1>1
  <2>3. ToldBut(q.check, q.loaded)'
    BY <1>3, <2>1, <2>2 DEF Live
  <2> QED  BY <2>2, <2>3
<1>6. ASSUME NEW s \in Scanners, scan[s].pc # "idle"
      PROVE  ToldScan(scan[s])'
  <2>1. PICK z : z = scan[s] /\ z = scan'[s]
    BY <1>1
  <2>2. SoleScan(z) /\ ToldScan(z)
    <3>1. scan[s] # IdleScan
      BY <1>6 DEF IdleScan
    <3>2. SoleScan(scan[s])
      BY <3>1, OpenScan
    <3>3. ToldScan(scan[s])
      BY <1>6 DEF Told
    <3> QED  BY <2>1, <3>2, <3>3
  <2>3. z.cur # NoCheck => db[z.cur].status # "none"
    BY <2>2 DEF SoleScan, Written
  <2>4. z.cur # NoCheck => ToldBut(z.cur, z.seen[z.cur])'
    BY <1>3, <2>2, <2>3 DEF ToldScan
  <2> QED  BY <1>4, <2>1, <2>2, <2>4 DEF ToldScan
<1> QED  BY <1>1, <1>2, <1>4, <1>5, <1>6 DEF Told, Quiet, AlertsAlternate

\* When failures are reported at once, the owner is told what happened.
LEMMA ToldInvariant ==
    ASSUME ToldAtOnce
    PROVE  Spec => []Told
<1>1. Init => Told
  BY DEF Init, Told, ToldAll, ToldBut, Live, Blank, IdleReq, IdleScan,
         AlertsAlternate
<1>2. TypeOK /\ OneSession /\ RowsSound /\ Told /\ [Next]_vars
        => Told'
  BY ToldRequestStep, ToldScanStep, ToldLoad, ToldWorld DEF Next
<1>3. Isolated
  BY DEF ToldAtOnce
<1> QED  BY <1>1, <1>2, <1>3, IsolatedInvariant, PTL DEF Spec

\* Between sessions that never overlap and never die, when the first failure
\* and the recovery are both reported, a check is down exactly when its owner
\* was last told so: by update_check_fail, update_check_ping, a scan, or the
\* reply to an edit.
THEOREM AlertsMatch ==
    ASSUME Isolated, NotifyOnUp, NotifyAfter <= 1, MaxDeaths = 0
    PROVE  Spec => []AlertMatchesStatus
<1>1. Told => AlertMatchesStatus
  BY NullAssumption DEF Told, ToldAll, ToldBut, Agrees, AlertMatchesStatus
<1> QED  BY <1>1, ToldInvariant, PTL DEF ToldAtOnce

\* Under the same conditions no alert repeats what the owner already knows:
\* outages and recoveries are told in turn.
THEOREM AlertsTakeTurns ==
    ASSUME Isolated, NotifyOnUp, NotifyAfter <= 1, MaxDeaths = 0
    PROVE  Spec => []AlertsAlternate
<1>1. Told => AlertsAlternate
  BY DEF Told
<1> QED  BY <1>1, ToldInvariant, PTL DEF ToldAtOnce

=============================================================================
