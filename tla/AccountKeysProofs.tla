------------------------- MODULE AccountKeysProofs -------------------------
(***************************************************************************)
(* Proofs about AccountKeys, for any number of accounts, checks, keys and  *)
(* overlapping requests: types; every secret is under a key of its own     *)
(* account; every check belongs to an account its creator's key opened;    *)
(* no check outlives its account; and without overlap secrets can be read. *)
(***************************************************************************)
EXTENDS AccountKeys, TLAPS

\* The inductive invariant: the properties, and what the sessions hold.
Inv == /\ TypeOK
       /\ SecretsOfOwner
       /\ KeyOwnsItsChecks
       /\ NoOrphans
       /\ SessionsSound

\* The idle session is a session, and a sound one.
LEMMA IdleSound == Idle \in Session /\ SoundSession(Idle) /\ Idle.new = NoKey
<1>1. NoSecrets \in Secrets
  BY DEF NoSecrets, Secrets
<1> QED
  BY <1>1, NullsAssumption DEF Idle, Session, SoundSession

\* The tables start empty and every session idle, which Inv allows.
THEOREM InvHoldsAtFirst == Init => Inv
<1> SUFFICES ASSUME Init PROVE Inv
  OBVIOUS
<1>1. NoSecrets \in Secrets
  BY DEF NoSecrets, Secrets
<1>2. TypeOK
  BY <1>1, IdleSound DEF Init, TypeOK, User, States, Check, Row
<1>3. \A c \in Checks : ~Live(c)
  BY DEF Init, Live, Row
<1>4. \A u \in Users : ~Open(u)
  BY DEF Init, Open
<1>5. SessionsSound
  BY <1>4, IdleSound DEF Init, SessionsSound
<1> QED
  BY <1>2, <1>3, <1>4, <1>5
     DEF Inv, SecretsOfOwner, KeyOwnsItsChecks, NoOrphans, Behind

-----------------------------------------------------------------------------
(* Sessions.                                                               *)

\* The tables move on only so far that what a session knew stays sound.
Advances == /\ \A u \in Users : held[u] \subseteq held[u]'
            /\ \A c \in Checks, u \in Users : Belongs(c, u) => Belongs(c, u)'

\* When the tables advance, and the one session that moves is sound again,
\* all sessions are: the key another one has drawn is not given away.
LEMMA OneSessionMoves ==
    ASSUME Inv, NEW r \in Requests, NEW q \in Session, Becomes(r, q),
           Advances, SoundSession(q)',
           \A s \in Requests \ {r} : req[s].new # NoKey =>
               req[s].new \notin Known' /\ req[s].new # q.new,
           \A u \in Users : Open(u)' => user[u].key' \in held[u]'
    PROVE  SessionsSound' /\ req' \in [Requests -> Session]
<1>1. req \in [Requests -> Session]
  BY DEF Inv, TypeOK
<1>2. /\ req' \in [Requests -> Session]
      /\ req'[r] = q
      /\ \A s \in Requests \ {r} : req'[s] = req[s]
  BY <1>1 DEF Becomes
<1>3. Known \subseteq Known'
  BY DEF Advances, Known
<1>4. ASSUME NEW s \in Requests \ {r} PROVE SoundSession(req[s])'
  <2>1. SoundSession(req[s])
    BY DEF Inv, SessionsSound
  <2> QED
    BY <1>2, <1>3, <2>1 DEF SoundSession, Advances
<1>5. SoundSession(req[r])'
  BY <1>2
<1>6. \A s, t \in Requests :
         req'[s].new = req'[t].new => s = t \/ req'[s].new = NoKey
  <2>1. \A s, t \in Requests :
           req[s].new = req[t].new => s = t \/ req[s].new = NoKey
    BY DEF Inv, SessionsSound
  <2> QED
    BY <1>2, <2>1
<1> QED
  BY <1>2, <1>4, <1>5, <1>6 DEF SessionsSound

\* A step of one session that leaves the tables alone.
LEMMA OnlySession ==
    ASSUME Inv, NEW r \in Requests, NEW q \in Session, Becomes(r, q),
           SoundSession(q),
           \A s \in Requests \ {r} : req[s].new # NoKey => req[s].new # q.new,
           UNCHANGED <<user, check, master, held>>,
           blacklist' \subseteq Keys, raced' \in BOOLEAN, faults' \in Nat
    PROVE  Inv'
<1>1. Advances
  BY DEF Advances, Belongs, Live
<1>2. SoundSession(q)'
  BY DEF SoundSession, Known, Belongs, Live
<1>3. Known' = Known
  BY DEF Known
<1>4. \A s \in Requests \ {r} : req[s].new # NoKey => req[s].new \notin Known'
  BY <1>3 DEF Inv, SessionsSound, SoundSession
<1>5. \A u \in Users : Open(u)' => user[u].key' \in held[u]'
  BY DEF Inv, SessionsSound, Open
<1>6. SessionsSound' /\ req' \in [Requests -> Session]
  BY <1>1, <1>2, <1>4, <1>5, OneSessionMoves
<1>7. TypeOK'
  BY <1>6 DEF Inv, TypeOK
<1> QED
  BY <1>6, <1>7
     DEF Inv, SecretsOfOwner, KeyOwnsItsChecks, NoOrphans, Live, Open, Behind

\* Ending a session is such a step.
LEMMA OnlyEnds ==
    ASSUME Inv, NEW r \in Requests, Ends(r),
           UNCHANGED <<user, check, master, held>>,
           blacklist' \subseteq Keys, raced' \in BOOLEAN, faults' \in Nat
    PROVE  Inv'
BY IdleSound, OnlySession, Zenon DEF Ends

-----------------------------------------------------------------------------
(* Steps that change only a session.                                       *)

\* An authenticated session is about the account its key opens.
LEMMA AuthenticateKeeps ==
    ASSUME Inv, NEW r \in Requests, NEW op \in Ops, NEW k \in Keys,
           Authenticate(r, op, k)
    PROVE  Inv'
<1>1. PICK u \in IF Behind(k) = {} THEN {NoUser} ELSE Behind(k) :
         /\ op \in {"save", "rotate"} => u # NoUser
         /\ Becomes(r, [Idle EXCEPT !.op = op, !.key = k, !.uid = u,
                        !.pc = IF op = "delete" /\ u = NoUser THEN "revoke"
                                                              ELSE "authed"])
  BY DEF Authenticate
<1>2. PICK q : q = [Idle EXCEPT !.op = op, !.key = k, !.uid = u,
                        !.pc = IF op = "delete" /\ u = NoUser THEN "revoke"
                                                              ELSE "authed"]
  OBVIOUS
<1>3. u = NoUser \/ (u \in Users /\ k \in held[u])
  BY DEF Inv, SessionsSound, Behind
<1>4. q \in Session
  BY <1>2, <1>3, IdleSound DEF Session, Idle
<1>5. SoundSession(q) /\ q.new = NoKey
  BY <1>1, <1>2, <1>3 DEF SoundSession, Idle, Authenticate
<1>6. blacklist' \subseteq Keys /\ raced' \in BOOLEAN /\ faults' \in Nat
  BY DEF Authenticate, Inv, TypeOK
<1> QED
  BY <1>1, <1>2, <1>4, <1>5, <1>6, OnlySession DEF Authenticate

\* What Inv says of one session.
LEMMA SessionOf ==
    ASSUME Inv, NEW r \in Requests
    PROVE  /\ req[r] \in Session /\ SoundSession(req[r])
           /\ \A s \in Requests \ {r} :
                req[s].new # NoKey => req[s].new # req[r].new
BY DEF Inv, TypeOK, SessionsSound

\* The variables that most steps leave alone keep their types.
LEMMA SmallTypes ==
    ASSUME Inv, UNCHANGED <<blacklist, raced, faults>>
    PROVE  blacklist' \subseteq Keys /\ raced' \in BOOLEAN /\ faults' \in Nat
BY DEF Inv, TypeOK

\* Losing the race for an account changes the session only.
LEMMA OpenClashesKeeps ==
    ASSUME Inv, NEW r \in Requests, OpenClashes(r)
    PROVE  Inv'
<1>1. PICK q : q = [req[r] EXCEPT !.pc = "clash"]
  OBVIOUS
<1>2. q \in Session /\ SoundSession(q) /\ q.new = req[r].new
  BY <1>1, SessionOf DEF Session, SoundSession, OpenClashes
<1>3. Becomes(r, q) /\ UNCHANGED <<user, check, master, held>>
  BY <1>1 DEF OpenClashes
<1>4. blacklist' \subseteq Keys /\ raced' \in BOOLEAN /\ faults' \in Nat
  BY SmallTypes DEF OpenClashes
<1>5. \A s \in Requests \ {r} : req[s].new # NoKey => req[s].new # q.new
  BY <1>2, SessionOf
<1> QED
  BY <1>2, <1>3, <1>4, <1>5, OnlySession

\* The account found again is one that the key of the session opens.
LEMMA RefetchKeeps ==
    ASSUME Inv, NEW r \in Requests, Refetch(r)
    PROVE  Inv'
<1>1. CASE Ends(r)
  BY <1>1, SmallTypes, OnlyEnds DEF Refetch
<1>2. CASE ~Ends(r)
  <2>1. PICK u \in Behind(req[r].key) :
           Becomes(r, [req[r] EXCEPT !.pc = "authed", !.uid = u])
    BY <1>2 DEF Refetch
  <2>2. PICK q : q = [req[r] EXCEPT !.pc = "authed", !.uid = u]
    OBVIOUS
  <2>3. u \in Users /\ req[r].key \in held[u] /\ u # NoUser
    BY NullsAssumption DEF Inv, SessionsSound, Behind
  <2>4. q \in Session /\ SoundSession(q) /\ q.new = req[r].new
    BY <2>2, <2>3, SessionOf DEF Session, SoundSession, Refetch
  <2> QED
    BY <2>1, <2>2, <2>4, SessionOf, SmallTypes, OnlySession DEF Refetch
<1> QED
  BY <1>1, <1>2

\* The check a save loads belongs to the account of the session.
LEMMA LoadCheckKeeps ==
    ASSUME Inv, NEW r \in Requests, NEW c \in Checks, LoadCheck(r, c)
    PROVE  Inv'
<1>1. PICK q : q = [req[r] EXCEPT !.pc = "loaded", !.check = c]
  OBVIOUS
<1>2. Belongs(c, req[r].uid) /\ req[r].uid # NoUser
  BY NullsAssumption
     DEF LoadCheck, Owned, Belongs, Live, Inv, NoOrphans, Open
<1>3. q \in Session /\ SoundSession(q) /\ q.new = req[r].new
  BY <1>1, <1>2, SessionOf DEF Session, SoundSession, LoadCheck
<1> QED
  BY <1>1, <1>3, SessionOf, SmallTypes, OnlySession DEF LoadCheck

\* A rotation loads secrets of its own account, and draws an unused key.
LEMMA RotateGatherKeeps ==
    ASSUME Inv, NEW r \in Requests, NEW k \in Keys, RotateGather(r, k)
    PROVE  Inv'
<1>1. PICK seen : seen = [c \in Checks |->
                            IF c \in Owned(req[r].uid) THEN check[c].secret
                                                       ELSE NoSecrets]
  OBVIOUS
<1>2. PICK q : q = [req[r] EXCEPT !.pc = "gathered", !.new = k, !.seen = seen]
  OBVIOUS
<1>3. seen \in [Checks -> Secrets]
  BY <1>1 DEF NoSecrets, Secrets, Inv, TypeOK, Check
<1>4. \A c \in Checks, ch \in Channels :
         seen[c][ch] # NoSecret => Belongs(c, req[r].uid)
  BY <1>1 DEF NoSecrets, Owned, Belongs, Live
<1>5. q \in Session
  <2>1. req[r] \in Session
    BY SessionOf
  <2>2. [req[r] EXCEPT !.pc = "gathered", !.new = k] \in Session
    BY <2>1 DEF Session
  <2> QED
    BY <1>2, <1>3, <2>2 DEF Session
<1>6. SoundSession(q)
  BY <1>2, <1>4, SessionOf, NullsAssumption
     DEF SoundSession, Session, RotateGather
<1>7. \A s \in Requests \ {r} : req[s].new # q.new
  BY <1>2, SessionOf DEF RotateGather, Session
<1>8. Becomes(r, q)
  BY <1>1, <1>2 DEF RotateGather
<1> QED
  BY <1>5, <1>6, <1>7, <1>8, SmallTypes, OnlySession DEF RotateGather

\* Gathering the checks of an account changes the session only.
LEMMA DeleteGatherKeeps ==
    ASSUME Inv, NEW r \in Requests, DeleteGather(r)
    PROVE  Inv'
<1>1. PICK q : q = [req[r] EXCEPT !.pc = "gathered",
                                  !.doomed = Owned(req[r].uid)]
  OBVIOUS
<1>2. q \in Session /\ SoundSession(q) /\ q.new = req[r].new
  BY <1>1, SessionOf DEF Session, SoundSession, DeleteGather, Owned
<1> QED
  BY <1>1, <1>2, SessionOf, SmallTypes, OnlySession DEF DeleteGather

\* Revoking a key touches no table.
LEMMA RevokeKeeps ==
    ASSUME Inv, NEW r \in Requests, Revoke(r)
    PROVE  Inv'
<1>1. req[r].key \in Keys
  BY SessionOf, KeysAssumption DEF Revoke, SoundSession, Known, Inv, TypeOK
<1>2. blacklist' \subseteq Keys /\ raced' \in BOOLEAN /\ faults' \in Nat
  BY <1>1 DEF Revoke, Fault, Inv, TypeOK
<1> QED
  BY <1>2, OnlyEnds DEF Revoke

\* A request that dies leaves the tables as they are.
LEMMA RequestDiesKeeps ==
    ASSUME Inv, NEW r \in Requests, RequestDies(r)
    PROVE  Inv'
<1>1. blacklist' \subseteq Keys /\ raced' \in BOOLEAN /\ faults' \in Nat
  BY DEF RequestDies, Fault, Inv, TypeOK
<1> QED
  BY <1>1, OnlyEnds DEF RequestDies

\* The steps that end a session without having written anything.
LEMMA EndingKeeps ==
    ASSUME Inv, NEW r \in Requests,
           VisitEnds(r) \/ InsertFails(r) \/ LoadFails(r) \/ RotateFails(r)
    PROVE  Inv'
BY SmallTypes, OnlyEnds DEF VisitEnds, InsertFails, LoadFails, RotateFails

-----------------------------------------------------------------------------
(* Steps that write the tables.                                            *)

\* A new account takes a key that opens no other.
LEMMA OpenAccountKeeps ==
    ASSUME Inv, NEW r \in Requests, NEW u \in Users, OpenAccount(r, u)
    PROVE  Inv'
<1>1. PICK k : k = req[r].key
  OBVIOUS
<1>2. k \in Known /\ k \in Keys
  BY <1>1, SessionOf, KeysAssumption
     DEF OpenAccount, SoundSession, Known, Inv, TypeOK
<1>3. user[u].state = "none" /\ Behind(k) = {}
  BY <1>1 DEF OpenAccount
<1>4. user' = [user EXCEPT ![u] = [state |-> "live", key |-> k]]
  BY <1>1 DEF OpenAccount
<1>5. held' = [held EXCEPT ![u] = @ \cup {k}]
  BY <1>1 DEF OpenAccount
<1>6. UNCHANGED <<check, master, blacklist, raced, faults>>
  BY DEF OpenAccount
<1>7. PICK q : q = IF req[r].op = "visit" THEN Idle
                   ELSE [req[r] EXCEPT !.uid = u]
  OBVIOUS
<1>8. user' \in [Users -> User] /\ held' \in [Users -> SUBSET Keys]
  BY <1>2, <1>4, <1>5 DEF User, States, Inv, TypeOK
<1>9. /\ \A v \in Users : held[v] \subseteq held'[v]
      /\ k \in held'[u]
      /\ \A v \in Users \ {u} : user'[v] = user[v] /\ held'[v] = held[v]
      /\ user'[u] = [state |-> "live", key |-> k]
  BY <1>4, <1>5 DEF Inv, TypeOK
<1>10. Known' = Known
  BY <1>2, <1>5 DEF Known, Inv, TypeOK
<1>11. Advances
  BY <1>6, <1>9 DEF Advances, Belongs, Live
<1>12. q \in Session /\ Becomes(r, q) /\ (q.new = NoKey)
  BY <1>7, SessionOf, IdleSound DEF OpenAccount, Session, SoundSession
<1>13. SoundSession(q)'
  <2>1. CASE req[r].op = "visit"
    BY <2>1, <1>7, NullsAssumption DEF SoundSession, Idle
  <2>2. CASE req[r].op # "visit"
    BY <2>2, <1>1, <1>2, <1>7, <1>9, <1>10, SessionOf
       DEF SoundSession, OpenAccount, Session
  <2> QED
    BY <2>1, <2>2
<1>14. \A s \in Requests \ {r} : req[s].new # NoKey =>
          req[s].new \notin Known' /\ req[s].new # q.new
  BY <1>10, <1>12 DEF Inv, SessionsSound, SoundSession
<1>15. \A v \in Users : Open(v)' => user[v].key' \in held[v]'
  BY <1>9 DEF Inv, SessionsSound, Open
<1>16. SessionsSound' /\ req' \in [Requests -> Session]
  BY <1>11, <1>12, <1>13, <1>14, <1>15, OneSessionMoves
<1>17. TypeOK'
  BY <1>6, <1>8, <1>16 DEF Inv, TypeOK
<1>18. SecretsOfOwner' /\ NoOrphans'
  BY <1>6, <1>9 DEF Inv, SecretsOfOwner, NoOrphans, Live, Open
<1>19. KeyOwnsItsChecks'
  <2>1. \A j \in Keys : \A v, w \in Behind(j)' : v = w
    BY <1>3, <1>9 DEF Inv, KeyOwnsItsChecks, Behind, Open
  <2>2. \A c \in Checks : Live(c)' => check[c].by' \in held[check[c].owner]'
    BY <1>6, <1>9 DEF Inv, KeyOwnsItsChecks, NoOrphans, Live, Open
  <2> QED
    BY <2>1, <2>2 DEF KeyOwnsItsChecks
<1> QED
  BY <1>16, <1>17, <1>18, <1>19 DEF Inv

\* Steps that leave accounts alone and move the checks of one session on.
LEMMA OnlyChecks ==
    ASSUME Inv, check' \in [Checks -> Check], Advances,
           SessionsSound', req' \in [Requests -> Session], master' \in Nat,
           UNCHANGED <<user, held, blacklist, raced, faults>>,
           \A c \in Checks : Live(c)' =>
               /\ Open(check'[c].owner)
               /\ check'[c].by \in held[check'[c].owner]
               /\ \A ch \in Channels : check'[c].secret[ch] # NoSecret =>
                    check'[c].secret[ch].key \in held[check'[c].owner]
    PROVE  Inv'
<1>1. TypeOK'
  BY DEF Inv, TypeOK
<1>2. SecretsOfOwner' /\ NoOrphans'
  BY DEF SecretsOfOwner, NoOrphans, Open
<1>3. KeyOwnsItsChecks'
  BY DEF Inv, KeyOwnsItsChecks, Behind, Open
<1> QED
  BY <1>1, <1>2, <1>3 DEF Inv

\* What the invariant says of a live check.
LEMMA LiveCheck ==
    ASSUME Inv, NEW c \in Checks, Live(c)
    PROVE  /\ Open(check[c].owner)
           /\ check[c].by \in held[check[c].owner]
           /\ \A ch \in Channels : check[c].secret[ch] # NoSecret =>
                check[c].secret[ch].key \in held[check[c].owner]
BY DEF Inv, NoOrphans, KeyOwnsItsChecks, SecretsOfOwner

\* A row without an owner is a row, and has no secrets.
LEMMA EmptyRow ==
    ASSUME NEW st \in States
    PROVE  /\ Row(st) \in Check /\ Row(st).state = st
           /\ \A ch \in Channels : Row(st).secret[ch] = NoSecret
BY DEF Row, Check, NoSecrets, Secrets

\* A new check belongs to the account of its session, which is live.
LEMMA InsertCheckKeeps ==
    ASSUME Inv, NEW r \in Requests, NEW c \in Checks, InsertCheck(r, c)
    PROVE  Inv'
<1>1. PICK row : row = [Row("live") EXCEPT !.owner = req[r].uid,
                                           !.by = req[r].key]
  OBVIOUS
<1>2. PICK q : q = IF req[r].op = "create" THEN Idle
                   ELSE [req[r] EXCEPT !.pc = "loaded", !.check = c]
  OBVIOUS
<1>3. /\ req[r].uid \in Users /\ Open(req[r].uid)
      /\ req[r].key \in Known /\ req[r].key \in held[req[r].uid]
      /\ req[r].uid # NoUser
  BY SessionOf, NullsAssumption DEF InsertCheck, Open, SoundSession
<1>4. /\ row \in Check /\ row.state = "live" /\ row.owner = req[r].uid
      /\ row.by = req[r].key
      /\ \A ch \in Channels : row.secret[ch] = NoSecret
  BY <1>1, SessionOf, EmptyRow DEF Row, Check, Session, States
<1>5. check' = [check EXCEPT ![c] = row] /\ check[c].state = "none"
  BY <1>1 DEF InsertCheck
<1>6. /\ check' \in [Checks -> Check] /\ check'[c] = row
      /\ \A d \in Checks \ {c} : check'[d] = check[d]
  BY <1>4, <1>5 DEF Inv, TypeOK
<1>7. UNCHANGED <<user, held, master, blacklist, raced, faults>>
  BY DEF InsertCheck
<1>8. Advances
  BY <1>5, <1>6, <1>7 DEF Advances, Belongs, Live
<1>9. q \in Session /\ Becomes(r, q) /\ q.new = NoKey
  BY <1>2, SessionOf, IdleSound DEF InsertCheck, Session, SoundSession
<1>10. Known' = Known
  BY <1>7 DEF Known
<1>11. SoundSession(q)'
  <2>1. CASE req[r].op = "create"
    BY <2>1, <1>2, NullsAssumption DEF SoundSession, Idle
  <2>2. CASE req[r].op # "create"
    <3>1. PICK u : u = req[r].uid
      OBVIOUS
    <3>2. Belongs(c, u)'
      BY <3>1, <1>4, <1>6 DEF Belongs, Live
    <3>3. /\ q.pc = "loaded" /\ q.check = c /\ q.uid = u
          /\ q.key = req[r].key
      BY <3>1, <2>2, <1>2, SessionOf DEF Session
    <3>4. q.key \in Known' /\ q.uid \in Users /\ q.key \in held'[q.uid]
      BY <3>1, <3>3, <1>3, <1>7, <1>10
    <3> QED
      BY <3>2, <3>3, <3>4, <1>3, <3>1, <1>9 DEF SoundSession
  <2> QED
    BY <2>1, <2>2
<1>12. \A s \in Requests \ {r} : req[s].new # NoKey =>
          req[s].new \notin Known' /\ req[s].new # q.new
  BY <1>9, <1>10 DEF Inv, SessionsSound, SoundSession
<1>13. \A v \in Users : Open(v)' => user[v].key' \in held[v]'
  BY <1>7 DEF Inv, SessionsSound, Open
<1>14. SessionsSound' /\ req' \in [Requests -> Session]
  BY <1>8, <1>9, <1>11, <1>12, <1>13, OneSessionMoves
<1>15. \A d \in Checks : Live(d)' =>
               /\ Open(check'[d].owner)
               /\ check'[d].by \in held[check'[d].owner]
               /\ \A ch \in Channels : check'[d].secret[ch] # NoSecret =>
                    check'[d].secret[ch].key \in held[check'[d].owner]
  BY <1>3, <1>4, <1>6, LiveCheck DEF Live
<1>16. master' \in Nat
  BY <1>7 DEF Inv, TypeOK
<1> QED
  BY <1>6, <1>7, <1>8, <1>14, <1>15, <1>16, OnlyChecks

\* A saved secret is under a key of the account that owns the check.
LEMMA SaveSecretKeeps ==
    ASSUME Inv, NEW r \in Requests, NEW ch \in Channels, SaveSecret(r, ch)
    PROVE  Inv'
<1>1. PICK c : c = req[r].check
  OBVIOUS
<1>2. CASE ~Live(c)
  BY <1>1, <1>2, SmallTypes, OnlyEnds DEF SaveSecret
<1>3. CASE Live(c)
  <2>1. PICK cipher : cipher = [master |-> master, key |-> req[r].key]
    OBVIOUS
  <2>2. /\ c \in Checks /\ check[c].owner = req[r].uid
        /\ req[r].uid \in Users /\ req[r].key \in held[req[r].uid]
    BY <1>1, <1>3, SessionOf DEF SaveSecret, SoundSession, Belongs
  <2>3. cipher \in Cipher /\ cipher.key = req[r].key
    BY <2>1, <2>2 DEF Inv, TypeOK, Cipher
  <2>4. check' = [check EXCEPT ![c].secret[ch] = cipher]
    BY <1>1, <1>3, <2>1 DEF SaveSecret
  <2>5. check[c] \in Check /\ check[c].secret \in Secrets
    BY <2>2 DEF Inv, TypeOK, Check
  <2>6. /\ check'[c] = [check[c] EXCEPT !.secret[ch] = cipher]
        /\ \A d \in Checks \ {c} : check'[d] = check[d]
        /\ DOMAIN check' = Checks
    BY <2>2, <2>4 DEF Inv, TypeOK
  <2>7. [check[c].secret EXCEPT ![ch] = cipher] \in Secrets
    BY <2>3, <2>5 DEF Secrets
  <2>8. /\ check'[c] \in Check
        /\ check'[c].state = check[c].state
        /\ check'[c].owner = check[c].owner
        /\ check'[c].by = check[c].by
        /\ check'[c].secret = [check[c].secret EXCEPT ![ch] = cipher]
    BY <2>5, <2>6, <2>7 DEF Check
  <2>9. check' \in [Checks -> Check]
    <3>1. \A d \in Checks : check'[d] \in Check
      BY <2>6, <2>8 DEF Inv, TypeOK
    <3>2. check' = [d \in Checks |-> check'[d]]
      BY <2>4 DEF Inv, TypeOK
    <3> QED
      BY <3>1, <3>2
  <2>10. UNCHANGED <<user, held, master, blacklist, raced, faults>>
    BY DEF SaveSecret
  <2>11. Advances
    BY <2>6, <2>8, <2>10 DEF Advances, Belongs, Live
  <2>12. SoundSession(Idle)' /\ Becomes(r, Idle) /\ Idle.new = NoKey
    BY NullsAssumption DEF SaveSecret, Ends, SoundSession, Idle
  <2>13. \A s \in Requests \ {r} : req[s].new # NoKey =>
            req[s].new \notin Known' /\ req[s].new # Idle.new
    BY <2>10, <2>12 DEF Inv, SessionsSound, SoundSession, Known
  <2>14. \A v \in Users : Open(v)' => user[v].key' \in held[v]'
    BY <2>10 DEF Inv, SessionsSound, Open
  <2>15. SessionsSound' /\ req' \in [Requests -> Session]
    BY <2>11, <2>12, <2>13, <2>14, IdleSound, OneSessionMoves
  <2>16. \A x \in Channels : check'[c].secret[x] # NoSecret =>
            check'[c].secret[x].key \in held[check'[c].owner]
    BY <1>3, <2>2, <2>3, <2>5, <2>8, LiveCheck DEF Secrets
  <2>17. \A d \in Checks : Live(d)' =>
               /\ Open(check'[d].owner)
               /\ check'[d].by \in held[check'[d].owner]
               /\ \A x \in Channels : check'[d].secret[x] # NoSecret =>
                    check'[d].secret[x].key \in held[check'[d].owner]
    <3>1. SUFFICES ASSUME NEW d \in Checks, Live(d)'
                   PROVE  /\ Open(check'[d].owner)
                          /\ check'[d].by \in held[check'[d].owner]
                          /\ \A x \in Channels : check'[d].secret[x] # NoSecret =>
                               check'[d].secret[x].key \in held[check'[d].owner]
      OBVIOUS
    <3>2. CASE d = c
      BY <3>2, <1>3, <2>2, <2>8, <2>16, LiveCheck
    <3>3. CASE d # c
      <4>1. check'[d] = check[d] /\ Live(d)
        BY <3>1, <3>3, <2>6 DEF Live
      <4> QED
        BY <4>1, LiveCheck
    <3> QED
      BY <3>2, <3>3
  <2>18. master' \in Nat
    BY <2>10 DEF Inv, TypeOK
  <2> QED
    BY <2>9, <2>10, <2>11, <2>15, <2>17, <2>18, OnlyChecks
<1> QED
  BY <1>2, <1>3

\* No session moves, and the tables advance.
LEMMA SessionsStay ==
    ASSUME Inv, Advances, UNCHANGED <<user, held, req>>
    PROVE  SessionsSound' /\ req' \in [Requests -> Session]
<1>1. Known' = Known
  BY DEF Known
<1>2. ASSUME NEW s \in Requests PROVE SoundSession(req[s])'
  BY <1>1, SessionOf DEF SoundSession, Advances
<1>3. \A u \in Users : Open(u)' => user[u].key' \in held[u]'
  BY DEF Inv, SessionsSound, Open
<1> QED
  BY <1>2, <1>3 DEF Inv, TypeOK, SessionsSound

\* Sessions may go on holding a check that was deleted.
LEMMA DeleteCheckKeeps ==
    ASSUME Inv, NEW c \in Checks, DeleteCheck(c)
    PROVE  Inv'
<1>1. /\ check' \in [Checks -> Check] /\ check'[c] = Row("gone")
      /\ \A d \in Checks \ {c} : check'[d] = check[d]
  BY EmptyRow DEF DeleteCheck, States, Inv, TypeOK
<1>2. check'[c].state = "gone"
  BY <1>1, EmptyRow DEF States
<1>3. UNCHANGED <<user, held, req, master, blacklist, raced, faults>>
  BY DEF DeleteCheck
<1>4. Advances
  BY <1>1, <1>2, <1>3 DEF Advances, Belongs, Live
<1>5. SessionsSound' /\ req' \in [Requests -> Session]
  BY <1>3, <1>4, SessionsStay
<1>6. \A d \in Checks : Live(d)' => Live(d) /\ check'[d] = check[d]
  BY <1>1, <1>2 DEF Live
<1>7. master' \in Nat
  BY <1>3 DEF Inv, TypeOK
<1> QED
  BY <1>1, <1>3, <1>4, <1>5, <1>6, <1>7, LiveCheck, OnlyChecks

\* The master key script changes no account key.
LEMMA RotateMasterKeeps ==
    ASSUME Inv, RotateMaster
    PROVE  Inv'
<1>1. PICK bots : bots = {c \in Checks : /\ Live(c)
                                         /\ check[c].secret[Telegram] # NoSecret}
  OBVIOUS
<1>2. check' = [c \in Checks |->
                  IF c \in bots
                  THEN [check[c] EXCEPT !.secret[Telegram].master = master + 1]
                  ELSE check[c]]
  BY <1>1 DEF RotateMaster
<1>3. master' = master + 1 /\ master' \in Nat
  BY DEF RotateMaster, Inv, TypeOK
<1>4. UNCHANGED <<user, held, req, blacklist, raced, faults>>
  BY DEF RotateMaster
<1>5. ASSUME NEW c \in Checks
      PROVE  /\ check'[c] \in Check
             /\ check'[c].state = check[c].state
             /\ check'[c].owner = check[c].owner
             /\ check'[c].by = check[c].by
             /\ \A ch \in Channels :
                  check'[c].secret[ch] # NoSecret =>
                    /\ check[c].secret[ch] # NoSecret
                    /\ check'[c].secret[ch].key = check[c].secret[ch].key
  <2>1. CASE c \notin bots
    BY <2>1, <1>2 DEF Inv, TypeOK
  <2>2. CASE c \in bots
    <3>1. check[c] \in Check /\ check[c].secret \in Secrets
      BY DEF Inv, TypeOK, Check
    <3>2. PICK old : old = check[c].secret[Telegram]
      OBVIOUS
    <3>3. old \in Cipher /\ old # NoSecret
      BY <2>2, <1>1, <3>1, <3>2, KeysAssumption DEF Secrets
    <3>4. PICK new : new = [old EXCEPT !.master = master + 1]
      OBVIOUS
    <3>5. new \in Cipher /\ new.key = old.key
      BY <1>3, <3>3, <3>4 DEF Cipher
    <3>6. check'[c] = [check[c] EXCEPT
                         !.secret = [check[c].secret EXCEPT ![Telegram] = new]]
      BY <2>2, <1>2, <3>1, <3>2, <3>4, KeysAssumption DEF Check, Secrets
    <3>7. PICK sec : sec = [check[c].secret EXCEPT ![Telegram] = new]
      OBVIOUS
    <3>8. /\ sec \in Secrets /\ sec[Telegram] = new
          /\ \A ch \in Channels \ {Telegram} : sec[ch] = check[c].secret[ch]
      BY <3>1, <3>5, <3>7, KeysAssumption DEF Secrets
    <3>9. /\ check'[c] \in Check /\ check'[c].secret = sec
          /\ check'[c].state = check[c].state
          /\ check'[c].owner = check[c].owner
          /\ check'[c].by = check[c].by
      BY <3>1, <3>6, <3>7, <3>8 DEF Check
    <3> QED
      BY <3>2, <3>3, <3>5, <3>8, <3>9
  <2> QED
    BY <2>1, <2>2
<1>6. check' \in [Checks -> Check]
  BY <1>2, <1>5
<1>7. Advances
  BY <1>4, <1>5 DEF Advances, Belongs, Live
<1>8. SessionsSound' /\ req' \in [Requests -> Session]
  BY <1>4, <1>7, SessionsStay
<1>9. \A c \in Checks : Live(c)' =>
               /\ Open(check'[c].owner)
               /\ check'[c].by \in held[check'[c].owner]
               /\ \A ch \in Channels : check'[c].secret[ch] # NoSecret =>
                    check'[c].secret[ch].key \in held[check'[c].owner]
  BY <1>5, LiveCheck DEF Live
<1> QED
  BY <1>3, <1>4, <1>6, <1>7, <1>8, <1>9, OnlyChecks

\* A rotation in which nothing is gone: the secrets it could read are under
\* the new key, which is the account's own, the others are as they were.
LEMMA RotateCommitKeeps ==
    ASSUME Inv, NEW r \in Requests, RotateCommit(r)
    PROVE  Inv'
<1>1. PICK q : q = req[r]
  OBVIOUS
<1>2. PICK u : u = q.uid
  OBVIOUS
<1>3. PICK k : k = q.new
  OBVIOUS
<1>4. /\ q \in Session /\ q.pc = "gathered" /\ q.op = "rotate" /\ q.new # NoKey
      /\ q.key \in Known /\ q.key \in held[u]
      /\ \A c \in Checks, ch \in Channels :
           q.seen[c][ch] # NoSecret => Belongs(c, u)
  BY <1>1, <1>2, SessionOf DEF RotateCommit, SoundSession
<1>5. u \in Users /\ k \in Keys /\ k \notin Known /\ Open(u)
  BY <1>1, <1>2, <1>3, <1>4, SessionOf
     DEF RotateCommit, Open, Session, SoundSession
<1>6. /\ user' = [user EXCEPT ![u].key = k]
      /\ held' = [held EXCEPT ![u] = @ \cup {k}]
      /\ UNCHANGED <<master, blacklist, raced, faults>>
  BY <1>1, <1>2, <1>3 DEF RotateCommit
<1>7. /\ user' \in [Users -> User] /\ held' \in [Users -> SUBSET Keys]
      /\ user'[u].state = user[u].state /\ user'[u].key = k
      /\ held'[u] = held[u] \cup {k}
      /\ \A v \in Users \ {u} : user'[v] = user[v] /\ held'[v] = held[v]
  BY <1>5, <1>6 DEF Inv, TypeOK, User
<1>8. \A v \in Users : Open(v)' <=> Open(v)
  BY <1>7 DEF Open
<1>9. Known' = Known \cup {k}
  BY <1>5, <1>7 DEF Known
<1>10. check' = [c \in Checks |->
                   [check[c] EXCEPT !.secret =
                      [ch \in Channels |-> Reencrypted(q, c, ch)]]]
  BY <1>1 DEF RotateCommit
<1>11. ASSUME NEW c \in Checks, NEW ch \in Channels
       PROVE  /\ Reencrypted(q, c, ch) \in Cipher \cup {NoSecret}
              /\ (Live(c) /\ Reencrypted(q, c, ch) # NoSecret) =>
                    Reencrypted(q, c, ch).key \in held'[check[c].owner]
  <2>1. CASE Readable(q.seen[c][ch], q.key)
    <3>1. q.key \in Keys /\ master \in Nat
      BY <1>4, <1>5 DEF Inv, TypeOK
    <3>2. q.seen[c][ch] # NoSecret
      BY <2>1, <3>1, NullsAssumption DEF Readable
    <3>3. Live(c) => check[c].owner = u
      BY <1>4, <3>2 DEF Belongs
    <3>4. Reencrypted(q, c, ch) = [master |-> master, key |-> k]
      BY <2>1, <1>3 DEF Reencrypted
    <3> QED
      BY <3>1, <3>3, <3>4, <1>5, <1>7 DEF Cipher
  <2>2. CASE ~Readable(q.seen[c][ch], q.key)
    <3>1. Reencrypted(q, c, ch) = check[c].secret[ch]
      BY <2>2 DEF Reencrypted
    <3>2. check[c].secret[ch] \in Cipher \cup {NoSecret}
      BY DEF Inv, TypeOK, Check, Secrets
    <3>3. Live(c) => check[c].owner \in Users
      BY LiveCheck DEF Open
    <3> QED
      BY <3>1, <3>2, <3>3, <1>7, LiveCheck
  <2> QED
    BY <2>1, <2>2
<1>12. ASSUME NEW c \in Checks
       PROVE  /\ check'[c] \in Check
              /\ check'[c].state = check[c].state
              /\ check'[c].owner = check[c].owner
              /\ check'[c].by = check[c].by
              /\ \A ch \in Channels :
                   check'[c].secret[ch] = Reencrypted(q, c, ch)
  <2>1. PICK sec : sec = [ch \in Channels |-> Reencrypted(q, c, ch)]
    OBVIOUS
  <2>2. sec \in Secrets
    BY <1>11, <2>1 DEF Secrets
  <2>3. check[c] \in Check /\ check'[c] = [check[c] EXCEPT !.secret = sec]
    BY <1>10, <2>1 DEF Inv, TypeOK
  <2> QED
    BY <2>1, <2>2, <2>3 DEF Check
<1>13. check' \in [Checks -> Check]
  BY <1>10, <1>12
<1>14. Advances
  BY <1>7, <1>12 DEF Advances, Belongs, Live
<1>15. PICK p : p = [q EXCEPT !.pc = "revoke", !.new = NoKey,
                              !.seen = Idle.seen]
  OBVIOUS
<1>16. /\ Becomes(r, p) /\ p \in Session /\ p.new = NoKey
       /\ p.pc = "revoke" /\ p.uid = u /\ p.key = q.key
  <2>1. Idle.seen \in [Checks -> Secrets]
    BY IdleSound DEF Session
  <2> QED
    BY <1>1, <1>2, <1>4, <1>15, <2>1 DEF RotateCommit, Session
<1>17. SoundSession(p)'
  BY <1>4, <1>5, <1>7, <1>9, <1>16 DEF SoundSession
<1>18. \A s \in Requests \ {r} : req[s].new # NoKey =>
          req[s].new \notin Known' /\ req[s].new # p.new
  BY <1>1, <1>3, <1>9, <1>16, SessionOf DEF Inv, SessionsSound, SoundSession
<1>19. \A v \in Users : Open(v)' => user[v].key' \in held[v]'
  BY <1>7, <1>8 DEF Inv, SessionsSound
<1>20. SessionsSound' /\ req' \in [Requests -> Session]
  BY <1>14, <1>16, <1>17, <1>18, <1>19, OneSessionMoves
<1>21. TypeOK'
  BY <1>6, <1>7, <1>13, <1>20 DEF Inv, TypeOK
<1>22. SecretsOfOwner' /\ NoOrphans'
  <2>1. \A c \in Checks : Live(c)' <=> Live(c)
    BY <1>12 DEF Live
  <2>2. SecretsOfOwner'
    BY <2>1, <1>11, <1>12 DEF SecretsOfOwner
  <2>3. \A c \in Checks : Live(c) =>
           check[c].owner \in Users /\ user'[check[c].owner].state = "live"
    BY <1>8, LiveCheck DEF Open
  <2>4. NoOrphans'
    BY <2>1, <2>3, <1>12 DEF NoOrphans, Open
  <2> QED
    BY <2>2, <2>4
<1>23. KeyOwnsItsChecks'
  <2>1. \A j \in Keys : \A v, w \in Behind(j)' : v = w
    <3>1. \A v \in Users : Open(v) => user[v].key \in Known
      BY DEF Inv, SessionsSound, Known
    <3> QED
      BY <1>5, <1>7, <1>8, <3>1 DEF Inv, KeyOwnsItsChecks, Behind
  <2>2. \A c \in Checks : Live(c)' => check[c].by' \in held[check[c].owner]'
    BY <1>7, <1>12, LiveCheck DEF Live, Open
  <2> QED
    BY <2>1, <2>2 DEF KeyOwnsItsChecks
<1> QED
  BY <1>20, <1>21, <1>22, <1>23 DEF Inv

\* Deleting an account: the foreign key sees to it that no check is left.
LEMMA DeleteCommitKeeps ==
    ASSUME Inv, NEW r \in Requests, DeleteCommit(r)
    PROVE  Inv'
<1>1. PICK q : q = req[r]
  OBVIOUS
<1>2. PICK u : u = q.uid
  OBVIOUS
<1>3. CASE ~(Owned(u) \subseteq q.doomed)
  BY <1>1, <1>2, <1>3, SmallTypes, OnlyEnds DEF DeleteCommit
<1>4. CASE Owned(u) \subseteq q.doomed
  <2>1. /\ q \in Session /\ q.pc = "gathered" /\ q.op = "delete"
        /\ q.key \in Known
        /\ u # NoUser => u \in Users /\ q.key \in held[u]
    BY <1>1, <1>2, SessionOf DEF DeleteCommit, SoundSession
  <2>2. /\ user' = [user EXCEPT ![u] = [state |-> "gone", key |-> NoKey]]
        /\ check' = [c \in Checks |-> IF c \in q.doomed THEN Row("gone")
                                                        ELSE check[c]]
        /\ UNCHANGED <<held, master, blacklist, raced, faults>>
    BY <1>1, <1>2, <1>4 DEF DeleteCommit, Remove
  <2>3. /\ user' \in [Users -> User]
        /\ \A v \in Users : v # u => user'[v] = user[v]
        /\ u \in Users => user'[u].state = "gone"
    BY <2>2 DEF Inv, TypeOK, User, States
  <2>4. /\ check' \in [Checks -> Check]
        /\ \A c \in Checks :
             \/ check'[c] = check[c] /\ c \notin q.doomed
             \/ check'[c].state = "gone"
    BY <2>2, EmptyRow DEF Inv, TypeOK, States
  <2>5. Known' = Known
    BY <2>2 DEF Known
  <2>6. Advances
    BY <2>2, <2>4 DEF Advances, Belongs, Live
  <2>7. PICK p : p = [q EXCEPT !.pc = "revoke", !.doomed = {}]
    OBVIOUS
  <2>8. /\ Becomes(r, p) /\ p \in Session /\ p.new = q.new
        /\ p.pc = "revoke" /\ p.uid = u /\ p.key = q.key
    BY <1>1, <1>2, <1>4, <2>1, <2>7 DEF DeleteCommit, Session
  <2>9. q.new = NoKey
    BY <1>1, <2>1, SessionOf DEF SoundSession
  <2>10. SoundSession(p)'
    BY <2>1, <2>2, <2>5, <2>8, <2>9 DEF SoundSession
  <2>11. \A s \in Requests \ {r} : req[s].new # NoKey =>
            req[s].new \notin Known' /\ req[s].new # p.new
    BY <2>5, <2>8, <2>9, SessionOf DEF SoundSession
  <2>12. \A v \in Users : Open(v)' => Open(v) /\ user'[v] = user[v] /\ v # u
    BY <2>3 DEF Open
  <2>13. \A v \in Users : Open(v)' => user[v].key' \in held[v]'
    BY <2>2, <2>12 DEF Inv, SessionsSound
  <2>14. SessionsSound' /\ req' \in [Requests -> Session]
    BY <2>6, <2>8, <2>10, <2>11, <2>13, OneSessionMoves
  <2>15. TypeOK'
    BY <2>2, <2>3, <2>4, <2>14 DEF Inv, TypeOK
  <2>16. \A c \in Checks : Live(c)' =>
            Live(c) /\ check'[c] = check[c] /\ check[c].owner # u
    BY <1>4, <2>4 DEF Live, Owned
  <2>17. SecretsOfOwner' /\ NoOrphans'
    <3>1. \A v \in Users : Open(v) /\ v # u => Open(v)'
      BY <2>3 DEF Open
    <3>2. \A c \in Checks : Live(c)' => check[c].owner \in Users
      BY <2>16, LiveCheck DEF Open
    <3> QED
      BY <2>2, <2>16, <3>1, <3>2, LiveCheck DEF SecretsOfOwner, NoOrphans, Open
  <2>18. KeyOwnsItsChecks'
    <3>1. \A j \in Keys : Behind(j)' \subseteq Behind(j)
      BY <2>12 DEF Behind
    <3>2. \A c \in Checks : Live(c)' => check[c].by' \in held[check[c].owner]'
      BY <2>2, <2>16, LiveCheck
    <3> QED
      BY <3>1, <3>2 DEF Inv, KeyOwnsItsChecks
  <2> QED
    BY <2>14, <2>15, <2>17, <2>18 DEF Inv
<1> QED
  BY <1>3, <1>4

-----------------------------------------------------------------------------
(* The theorems.                                                           *)

\* No step of any request, nor of the master key script, breaks Inv.
THEOREM InvIsKept == Inv /\ [Next]_vars => Inv'
<1> SUFFICES ASSUME Inv, [Next]_vars PROVE Inv'
  OBVIOUS
<1>1. CASE UNCHANGED vars
  <2>1. Advances
    BY <1>1 DEF vars, Advances, Belongs, Live
  <2>2. SessionsSound' /\ req' \in [Requests -> Session]
    BY <1>1, <2>1, SessionsStay DEF vars
  <2> QED
    BY <1>1, <2>2
       DEF vars, Inv, TypeOK, SecretsOfOwner, KeyOwnsItsChecks, NoOrphans,
           Live, Open, Behind
<1>2. ASSUME NEW r \in Requests, RequestStep(r) PROVE Inv'
  BY <1>2, AuthenticateKeeps, OpenAccountKeeps, OpenClashesKeeps, RefetchKeeps,
     InsertCheckKeeps, LoadCheckKeeps, SaveSecretKeeps, RotateGatherKeeps,
     RotateCommitKeeps, DeleteGatherKeeps, DeleteCommitKeeps, RevokeKeeps,
     RequestDiesKeeps, EndingKeeps, Zenon
     DEF RequestStep
<1>3. ASSUME NEW c \in Checks, DeleteCheck(c) PROVE Inv'
  BY <1>3, DeleteCheckKeeps
<1>4. ASSUME NEW k \in Keys, RevocationExpires(k) PROVE Inv'
  <2>1. Advances
    BY <1>4 DEF RevocationExpires, Advances, Belongs, Live
  <2>2. SessionsSound' /\ req' \in [Requests -> Session]
    BY <1>4, <2>1, SessionsStay DEF RevocationExpires
  <2> QED
    BY <1>4, <2>2
       DEF RevocationExpires, Inv, TypeOK, SecretsOfOwner, KeyOwnsItsChecks,
           NoOrphans, Live, Open, Behind
<1>5. CASE RotateMaster
  BY <1>5, RotateMasterKeeps
<1> QED
  BY <1>1, <1>2, <1>3, <1>4, <1>5 DEF Next

\* Every reachable state satisfies the invariant.
THEOREM InvHolds == Spec => []Inv
BY InvHoldsAtFirst, InvIsKept, PTL DEF Spec

\* Every variable keeps its type, however many requests overlap.
THEOREM TypeCorrect == Spec => []TypeOK
BY InvHolds, PTL DEF Inv

\* However requests that save, import, rotate and delete overlap, no secret is
\* ever stored under a key of another account.
THEOREM SecretsStayWithOwner == Spec => []SecretsOfOwner
BY InvHolds, PTL DEF Inv

\* A key opens one account at most, and a check belongs to an account that
\* its creator's key has opened, whoever raced to open it.
THEOREM KeysOpenOneAccount == Spec => []KeyOwnsItsChecks
BY InvHolds, PTL DEF Inv

\* No check is left behind by the deletion of its account, whatever is
\* created meanwhile.
THEOREM ChecksHaveAccounts == Spec => []NoOrphans
BY InvHolds, PTL DEF Inv

-----------------------------------------------------------------------------
(* Without overlap secrets stay readable.                                  *)

\* No secret is ahead of the master key, and those the property speaks of can
\* be read.
Fine(c, ch) ==
    LET s == check[c].secret[ch] IN
    s # NoSecret =>
        /\ s.master <= master
        /\ ch = Telegram \/ s.master = master =>
             Readable(s, user[check[c].owner].key)

AllFine == \A c \in Checks, ch \in Channels : Live(c) => Fine(c, ch)

\* What a session knows is up to date when there is no other.
Current(q) ==
    /\ q.pc \in {"authed", "loaded", "gathered"} /\ Open(q.uid) =>
         user[q.uid].key = q.key
    /\ q.pc = "gathered" /\ q.op = "rotate" =>
         \A c \in Owned(q.uid) : q.seen[c] = check[c].secret

Alone ==
    /\ \A r, s \in Requests : req[r] = Idle \/ req[s] = Idle \/ r = s
    /\ \A r \in Requests : Current(req[r])

\* The inductive invariant of ReadableUnlessRaced.
Lone == ~raced => Alone /\ AllFine

LEMMA IdleCurrent == Current(Idle) /\ Current(Idle)'
BY DEF Current, Idle

\* The one session that is open moves, and is up to date again.
LEMMA OneActs ==
    ASSUME Inv, NEW r \in Requests, NEW q, Becomes(r, q),
           \A s \in Requests \ {r} : req[s] = Idle,
           Current(q)', AllFine'
    PROVE  Lone'
<1>1. \A s \in Requests : req'[s] = IF s = r THEN q ELSE Idle
  BY DEF Becomes, Inv, TypeOK
<1>2. Alone'
  BY <1>1, IdleCurrent DEF Alone
<1> QED  BY <1>2 DEF Lone

\* The same, when the tables stay as they are.
LEMMA OneActsAlone ==
    ASSUME Inv, Lone, ~raced, NEW r \in Requests, req[r].pc # "idle",
           NEW q, Becomes(r, q), Current(q),
           UNCHANGED <<user, check, master>>
    PROVE  Lone'
<1>1. \A s \in Requests \ {r} : req[s] = Idle
  BY DEF Lone, Alone, Idle
<1>2. Current(q)'
  BY DEF Current, Owned, Live, Open
<1>3. AllFine'
  BY DEF Lone, AllFine, Fine, Live, Readable
<1> QED  BY <1>1, <1>2, <1>3, OneActs

\* The session that moves is the only one, and up to date.
LEMMA ActsAlone ==
    ASSUME Inv, Lone, ~raced, NEW r \in Requests, req[r].pc # "idle"
    PROVE  /\ \A s \in Requests \ {r} : req[s] = Idle
           /\ Current(req[r]) /\ SoundSession(req[r]) /\ req[r] \in Session
           /\ AllFine
BY SessionOf DEF Lone, Alone, Idle

LEMMA AuthenticateLone ==
    ASSUME Inv, Lone, NEW r \in Requests, NEW op \in Ops, NEW k \in Keys,
           Authenticate(r, op, k)
    PROVE  Lone'
<1>1. CASE raced'
  BY <1>1 DEF Lone
<1>2. CASE ~raced'
  <2>1. ~raced /\ \A s \in Requests : req[s] = Idle
    BY <1>2 DEF Authenticate, Quiet, Inv, TypeOK
  <2>2. PICK u \in IF Behind(k) = {} THEN {NoUser} ELSE Behind(k) :
           Becomes(r, [Idle EXCEPT !.op = op, !.key = k, !.uid = u,
                        !.pc = IF op = "delete" /\ u = NoUser THEN "revoke"
                                                              ELSE "authed"])
    BY DEF Authenticate
  <2>3. PICK q : q = [Idle EXCEPT !.op = op, !.key = k, !.uid = u,
                        !.pc = IF op = "delete" /\ u = NoUser THEN "revoke"
                                                              ELSE "authed"]
    OBVIOUS
  <2>4. q.pc \in {"revoke", "authed"} /\ q.uid = u /\ q.key = k
    BY <2>3 DEF Idle
  <2>5. Open(u) => user[u].key = k
    BY NullsAssumption DEF Behind, Open
  <2>6. UNCHANGED <<user, check, master>>
    BY DEF Authenticate
  <2>7. Current(q)'
    BY <2>4, <2>5, <2>6 DEF Current, Open
  <2>8. AllFine'
    BY <2>1, <2>6 DEF Lone, AllFine, Fine, Live, Readable
  <2> QED  BY <2>1, <2>2, <2>3, <2>7, <2>8, OneActs
<1> QED  BY <1>1, <1>2

\* The steps that end a session and leave the tables alone.
LEMMA EndingLone ==
    ASSUME Inv, Lone, ~raced, NEW r \in Requests, req[r].pc # "idle", Ends(r),
           UNCHANGED <<user, check, master>>
    PROVE  Lone'
BY IdleCurrent, OneActsAlone DEF Ends

\* The steps that only let the session go on.
LEMMA GoingOnLone ==
    ASSUME Inv, Lone, ~raced, NEW r \in Requests,
           \/ OpenClashes(r) \/ Refetch(r) \/ DeleteGather(r)
           \/ \E c \in Checks : LoadCheck(r, c)
           \/ \E k \in Keys : RotateGather(r, k)
    PROVE  Lone'
<1> DEFINE p == req[r]
<1>1. p \in Session /\ Current(p) /\ UNCHANGED <<user, check, master>>
  BY ActsAlone DEF OpenClashes, Refetch, DeleteGather, LoadCheck, RotateGather
<1>2. p.pc # "idle"
  BY DEF OpenClashes, Refetch, DeleteGather, LoadCheck, RotateGather
<1>3. CASE OpenClashes(r)
  <2>1. PICK q : q = [p EXCEPT !.pc = "clash"]
    OBVIOUS
  <2>2. q.pc = "clash" /\ Becomes(r, q)
    BY <1>1, <1>3, <2>1 DEF Session, OpenClashes
  <2>3. Current(q)
    BY <2>2 DEF Current
  <2> QED  BY <1>1, <1>2, <2>2, <2>3, OneActsAlone
<1>4. CASE Refetch(r) /\ ~Ends(r)
  <2>1. PICK u \in Behind(p.key) :
           Becomes(r, [p EXCEPT !.pc = "authed", !.uid = u])
    BY <1>4 DEF Refetch
  <2>2. PICK q : q = [p EXCEPT !.pc = "authed", !.uid = u]
    OBVIOUS
  <2>3. q.pc = "authed" /\ q.uid = u /\ q.key = p.key
    BY <1>1, <2>2 DEF Session
  <2>4. Current(q)
    BY <2>3 DEF Current, Behind
  <2> QED  BY <1>1, <1>2, <2>1, <2>2, <2>4, OneActsAlone
<1>5. CASE DeleteGather(r)
  <2>1. PICK q : q = [p EXCEPT !.pc = "gathered", !.doomed = Owned(p.uid)]
    OBVIOUS
  <2>2. /\ q.pc = "gathered" /\ q.op = "delete" /\ q.uid = p.uid
        /\ q.key = p.key /\ p.pc = "authed" /\ Becomes(r, q)
    BY <1>1, <1>5, <2>1 DEF Session, DeleteGather
  <2>3. Current(q)
    BY <1>1, <2>2 DEF Current
  <2> QED  BY <1>1, <1>2, <2>2, <2>3, OneActsAlone
<1>6. ASSUME NEW c \in Checks, LoadCheck(r, c) PROVE Lone'
  <2>1. PICK q : q = [p EXCEPT !.pc = "loaded", !.check = c]
    OBVIOUS
  <2>2. /\ q.pc = "loaded" /\ q.uid = p.uid /\ q.key = p.key
        /\ p.pc = "authed" /\ Becomes(r, q)
    BY <1>1, <1>6, <2>1 DEF Session, LoadCheck
  <2>3. Current(q)
    BY <1>1, <2>2 DEF Current
  <2> QED  BY <1>1, <1>2, <2>2, <2>3, OneActsAlone
<1>7. ASSUME NEW k \in Keys, RotateGather(r, k) PROVE Lone'
  <2>1. PICK seen : seen = [c \in Checks |->
                              IF c \in Owned(p.uid) THEN check[c].secret
                                                    ELSE NoSecrets]
    OBVIOUS
  <2>2. PICK q : q = [p EXCEPT !.pc = "gathered", !.new = k, !.seen = seen]
    OBVIOUS
  <2>3. /\ q.pc = "gathered" /\ q.seen = seen /\ q.uid = p.uid
        /\ q.key = p.key /\ p.pc = "authed"
    BY <1>1, <1>7, <2>2 DEF Session, RotateGather
  <2>4. \A c \in Owned(q.uid) : q.seen[c] = check[c].secret
    BY <2>1, <2>3 DEF Owned
  <2>5. Becomes(r, q)
    BY <1>7, <2>1, <2>2 DEF RotateGather
  <2>6. Current(q)
    BY <1>1, <2>3, <2>4 DEF Current
  <2> QED  BY <1>1, <1>2, <2>5, <2>6, OneActsAlone
<1>8. CASE Ends(r)
  BY <1>1, <1>2, <1>8, EndingLone
<1> QED  BY <1>3, <1>4, <1>5, <1>6, <1>7, <1>8

\* A new account has no checks yet.
LEMMA OpenAccountLone ==
    ASSUME Inv, Lone, ~raced, NEW r \in Requests, NEW u \in Users,
           OpenAccount(r, u)
    PROVE  Lone'
<1> DEFINE p == req[r]
<1>1. /\ \A s \in Requests \ {r} : req[s] = Idle
      /\ p \in Session /\ p.pc = "authed" /\ AllFine
  BY ActsAlone DEF OpenAccount
<1>2. /\ user' = [user EXCEPT ![u] = [state |-> "live", key |-> p.key]]
      /\ user[u].state = "none" /\ UNCHANGED <<check, master>>
  BY DEF OpenAccount
<1>3. user'[u].key = p.key /\ \A v \in Users \ {u} : user'[v] = user[v]
  BY <1>2 DEF Inv, TypeOK
<1>4. \A c \in Checks : Live(c) => check[c].owner \in Users \ {u}
  BY <1>2, LiveCheck DEF Open
<1>5. AllFine'
  BY <1>1, <1>2, <1>3, <1>4 DEF AllFine, Fine, Live, Readable
<1>6. PICK q : q = IF p.op = "visit" THEN Idle ELSE [p EXCEPT !.uid = u]
  OBVIOUS
<1>7. Current(q)'
  <2>1. CASE p.op = "visit"
    BY <1>6, <2>1, IdleCurrent
  <2>2. CASE p.op # "visit"
    <3>1. q.pc = "authed" /\ q.uid = u /\ q.key = p.key
      BY <1>1, <1>6, <2>2 DEF Session
    <3> QED  BY <1>3, <3>1 DEF Current
  <2> QED  BY <2>1, <2>2
<1>8. Becomes(r, q)
  BY <1>6 DEF OpenAccount
<1> QED  BY <1>1, <1>5, <1>7, <1>8, OneActs

\* A new check has no secrets yet.
LEMMA InsertCheckLone ==
    ASSUME Inv, Lone, ~raced, NEW r \in Requests, NEW c \in Checks,
           InsertCheck(r, c)
    PROVE  Lone'
<1> DEFINE p == req[r]
<1>1. /\ \A s \in Requests \ {r} : req[s] = Idle
      /\ p \in Session /\ p.pc = "authed" /\ Current(p) /\ AllFine
  BY ActsAlone DEF InsertCheck
<1>2. PICK row : row = [Row("live") EXCEPT !.owner = p.uid, !.by = p.key]
  OBVIOUS
<1>3. \A ch \in Channels : row.secret[ch] = NoSecret
  BY <1>2, EmptyRow DEF Row, NoSecrets
<1>4. check' = [check EXCEPT ![c] = row] /\ UNCHANGED <<user, master>>
  BY <1>2 DEF InsertCheck
<1>5. check'[c] = row /\ \A d \in Checks \ {c} : check'[d] = check[d]
  BY <1>4 DEF Inv, TypeOK
<1>6. AllFine'
  BY <1>1, <1>3, <1>4, <1>5 DEF AllFine, Fine, Live, Readable
<1>7. PICK q : q = IF p.op = "create" THEN Idle
                   ELSE [p EXCEPT !.pc = "loaded", !.check = c]
  OBVIOUS
<1>8. Current(q)'
  <2>1. CASE p.op = "create"
    BY <1>7, <2>1, IdleCurrent
  <2>2. CASE p.op # "create"
    <3>1. q.pc = "loaded" /\ q.uid = p.uid /\ q.key = p.key
      BY <1>1, <1>7, <2>2 DEF Session
    <3> QED  BY <1>1, <1>4, <3>1 DEF Current, Open
  <2> QED  BY <2>1, <2>2
<1>9. Becomes(r, q)
  BY <1>7 DEF InsertCheck
<1> QED  BY <1>1, <1>6, <1>8, <1>9, OneActs

\* A secret is saved under the key the account has.
LEMMA SaveSecretLone ==
    ASSUME Inv, Lone, ~raced, NEW r \in Requests, NEW ch \in Channels,
           SaveSecret(r, ch)
    PROVE  Lone'
<1> DEFINE p == req[r]
<1>1. /\ \A s \in Requests \ {r} : req[s] = Idle
      /\ p \in Session /\ p.pc = "loaded" /\ Current(p) /\ SoundSession(p)
      /\ AllFine
  BY ActsAlone DEF SaveSecret
<1>2. Ends(r) /\ UNCHANGED <<user, master>>
  BY DEF SaveSecret
<1>3. CASE ~Live(p.check)
  BY <1>1, <1>2, <1>3, EndingLone DEF SaveSecret
<1>4. CASE Live(p.check)
  <2>1. PICK c : c = p.check
    OBVIOUS
  <2>2. PICK cipher : cipher = [master |-> master, key |-> p.key]
    OBVIOUS
  <2>3. c \in Checks /\ check[c].owner = p.uid
    BY <1>1, <1>4, <2>1 DEF SoundSession, Belongs
  <2>4. user[check[c].owner].key = p.key
    BY <1>1, <1>4, <2>1, <2>3, LiveCheck DEF Current
  <2>5. check' = [check EXCEPT ![c].secret[ch] = cipher]
    BY <1>4, <2>1, <2>2 DEF SaveSecret
  <2>6. /\ check'[c].owner = check[c].owner
        /\ check'[c].secret[ch] = cipher
        /\ \A o \in Channels \ {ch} : check'[c].secret[o] = check[c].secret[o]
        /\ \A d \in Checks \ {c} : check'[d] = check[d]
    <3>1. check[c] \in Check /\ check[c].secret \in Secrets
      BY <2>3 DEF Inv, TypeOK, Check
    <3> QED  BY <2>3, <2>5, <3>1 DEF Inv, TypeOK, Check, Secrets
  <2>7. Fine(c, ch)'
    BY <1>2, <2>2, <2>4, <2>6 DEF Fine, Readable, Inv, TypeOK
  <2>8. ASSUME NEW d \in Checks, NEW o \in Channels, Live(d)',
               ~(d = c /\ o = ch)
        PROVE  Fine(d, o)'
    <3>1. /\ Live(d) /\ check'[d].owner = check[d].owner
          /\ check'[d].secret[o] = check[d].secret[o]
      BY <1>4, <2>1, <2>6, <2>8 DEF Live
    <3> QED  BY <1>1, <1>2, <3>1 DEF AllFine, Fine, Readable
  <2>9. AllFine'
    BY <2>7, <2>8 DEF AllFine
  <2> QED  BY <1>1, <1>2, <2>9, IdleCurrent, OneActs DEF Ends
<1> QED  BY <1>3, <1>4

\* A rotation has loaded the secrets as they are: those it could read are
\* under the new key, and of the others none could be read before.
LEMMA RotateCommitLone ==
    ASSUME Inv, Lone, ~raced, NEW r \in Requests, RotateCommit(r)
    PROVE  Lone'
<1>1. PICK q : q = req[r]
  OBVIOUS
<1>2. PICK u : u = q.uid
  OBVIOUS
<1>3. /\ \A s \in Requests \ {r} : req[s] = Idle
      /\ q \in Session /\ q.pc = "gathered" /\ q.op = "rotate"
      /\ Current(q) /\ SoundSession(q) /\ AllFine
  BY <1>1, ActsAlone DEF RotateCommit
<1>4. /\ u \in Users /\ Open(u) /\ user[u].key = q.key
      /\ q.key \in Keys /\ master \in Nat
  BY <1>1, <1>2, <1>3, KeysAssumption
     DEF RotateCommit, Open, Current, SoundSession, Known, Inv, TypeOK
<1>5. /\ user'[u].key = q.new /\ master' = master
      /\ \A v \in Users \ {u} : user'[v] = user[v]
  BY <1>1, <1>2, <1>4 DEF RotateCommit, Inv, TypeOK, User
<1>6. ASSUME NEW c \in Checks
      PROVE  /\ check'[c].state = check[c].state
             /\ check'[c].owner = check[c].owner
             /\ \A ch \in Channels :
                  check'[c].secret[ch] = Reencrypted(q, c, ch)
  BY <1>1 DEF RotateCommit, Inv, TypeOK, Check
<1>7. ASSUME NEW c \in Checks, NEW ch \in Channels, Live(c)' PROVE Fine(c, ch)'
  <2>1. Live(c) /\ check[c].owner \in Users /\ Fine(c, ch)
    BY <1>3, <1>6, <1>7, LiveCheck DEF Live, AllFine, Open
  <2>2. CASE Readable(q.seen[c][ch], q.key)
    <3>1. q.seen[c][ch] # NoSecret
      BY <1>4, <2>2, NullsAssumption DEF Readable
    <3>2. check[c].owner = u
      BY <1>2, <1>3, <2>1, <3>1 DEF SoundSession, Belongs
    <3>3. check'[c].secret[ch] = [master |-> master, key |-> q.new]
      BY <1>6, <2>2 DEF Reencrypted
    <3> QED  BY <1>4, <1>5, <1>6, <3>2, <3>3 DEF Fine, Readable
  <2>3. CASE ~Readable(q.seen[c][ch], q.key)
    <3>1. check'[c].secret[ch] = check[c].secret[ch]
      BY <1>6, <2>3 DEF Reencrypted
    <3>2. CASE check[c].owner = u
      <4>1. q.seen[c][ch] = check[c].secret[ch]
        BY <1>2, <1>3, <2>1, <3>2 DEF Current, Owned
      <4>2. ~Readable(check[c].secret[ch], user[check[c].owner].key)
        BY <1>4, <2>3, <3>2, <4>1
      <4> QED  BY <1>5, <2>1, <3>1, <4>2 DEF Fine
    <3>3. CASE check[c].owner # u
      BY <1>5, <1>6, <2>1, <3>1, <3>3 DEF Fine, Readable
    <3> QED  BY <3>2, <3>3
  <2> QED  BY <2>2, <2>3
<1>8. PICK o : o = [q EXCEPT !.pc = "revoke", !.new = NoKey, !.seen = Idle.seen]
  OBVIOUS
<1>9. o.pc = "revoke" /\ Becomes(r, o)
  BY <1>1, <1>3, <1>8 DEF Session, RotateCommit
<1>10. Current(o)'
  BY <1>9 DEF Current
<1>11. AllFine'
  BY <1>7 DEF AllFine
<1> QED  BY <1>3, <1>9, <1>10, <1>11, OneActs

\* The account that goes leaves no check behind.
LEMMA DeleteCommitLone ==
    ASSUME Inv, Lone, ~raced, NEW r \in Requests, DeleteCommit(r), NoOrphans'
    PROVE  Lone'
<1>1. PICK q : q = req[r]
  OBVIOUS
<1>2. /\ \A s \in Requests \ {r} : req[s] = Idle
      /\ q \in Session /\ q.pc = "gathered" /\ q.op = "delete"
      /\ AllFine /\ UNCHANGED master
  BY <1>1, ActsAlone DEF DeleteCommit
<1>3. CASE ~(Owned(q.uid) \subseteq q.doomed)
  BY <1>1, <1>2, <1>3, EndingLone DEF DeleteCommit
<1>4. CASE Owned(q.uid) \subseteq q.doomed
  <2> Remove(q.uid, q.doomed)
    BY <1>1, <1>4 DEF DeleteCommit
  <2>1. PICK o : o = [q EXCEPT !.pc = "revoke", !.doomed = {}]
    OBVIOUS
  <2>2. o.pc = "revoke" /\ Becomes(r, o)
    BY <1>1, <1>2, <1>4, <2>1 DEF Session, DeleteCommit
  <2>3. Current(o)'
    BY <2>2 DEF Current
  <2>4. ASSUME NEW c \in Checks, Live(c)'
        PROVE  /\ Live(c) /\ check'[c] = check[c]
               /\ user'[check[c].owner] = user[check[c].owner]
    <3>1. Live(c) /\ check'[c] = check[c]
      BY <2>4, EmptyRow DEF Remove, Live, States
    <3>2. Open(check[c].owner)'
      BY <2>4, <3>1 DEF NoOrphans, Open
    <3>3. check[c].owner \in Users /\ user'[check[c].owner].state = "live"
      BY <3>1, <3>2 DEF Open
    <3>4. check[c].owner # q.uid
      BY <3>3 DEF Remove, Inv, TypeOK
    <3> QED  BY <3>1, <3>3, <3>4 DEF Remove, Inv, TypeOK
  <2>5. AllFine'
    BY <1>2, <2>4 DEF AllFine, Fine, Readable
  <2> QED  BY <1>2, <2>2, <2>3, <2>5, OneActs
<1> QED  BY <1>3, <1>4

\* A check that goes takes its secrets with it.
LEMMA DeleteCheckLone ==
    ASSUME Inv, Lone, ~raced, NEW c \in Checks, DeleteCheck(c)
    PROVE  Lone'
<1>1. /\ check' = [check EXCEPT ![c] = Row("gone")]
      /\ UNCHANGED <<user, master, req>>
  BY DEF DeleteCheck
<1>2. ASSUME NEW d \in Checks, Live(d)' PROVE Live(d) /\ check'[d] = check[d]
  BY <1>1, <1>2, EmptyRow DEF Live, States, Inv, TypeOK
<1>3. AllFine'
  BY <1>1, <1>2 DEF Lone, AllFine, Fine, Readable
<1>4. ASSUME NEW r \in Requests PROVE Current(req[r])'
  <2>1. PICK q : q = req[r] /\ Current(q)
    BY DEF Lone, Alone
  <2>2. Current(q)'
    BY <1>1, <1>2, <2>1 DEF Current, Owned, Open
  <2> QED  BY <1>1, <2>1, <2>2 DEF Current, Owned, Live, Open
<1>5. Alone'
  BY <1>1, <1>4 DEF Lone, Alone
<1> QED  BY <1>3, <1>5 DEF Lone

\* The script turns what it can read, and gives up otherwise; nothing was
\* stored under the master key it sets.
LEMMA RotateMasterLone ==
    ASSUME Inv, Lone, ~raced, RotateMaster
    PROVE  Lone'
<1>1. PICK bots : bots = {c \in Checks : /\ Live(c)
                                         /\ check[c].secret[Telegram] # NoSecret}
  OBVIOUS
<1>2. /\ master' = master + 1 /\ master \in Nat /\ UNCHANGED <<user, req>>
      /\ \A c \in bots :
           Readable(check[c].secret[Telegram], user[check[c].owner].key)
  BY <1>1 DEF RotateMaster, Inv, TypeOK
<1>3. check' = [c \in Checks |->
                  IF c \in bots
                  THEN [check[c] EXCEPT !.secret[Telegram].master = master + 1]
                  ELSE check[c]]
  BY <1>1 DEF RotateMaster
<1>4. ASSUME NEW c \in Checks, NEW ch \in Channels, Live(c)' PROVE Fine(c, ch)'
  <2>1. check[c] \in Check /\ check[c].secret \in Secrets
    BY DEF Inv, TypeOK, Check
  <2>2. CASE c \notin bots
    <3>1. check'[c] = check[c] /\ Live(c)
      BY <1>3, <1>4, <2>2 DEF Live
    <3>2. Fine(c, ch)
      BY <3>1 DEF Lone, AllFine
    <3>3. ch = Telegram => check[c].secret[ch] = NoSecret
      BY <1>1, <2>2, <3>1
    <3>4. check[c].secret[ch] # NoSecret =>
             check[c].secret[ch] \in Cipher
      BY <2>1 DEF Secrets
    <3>5. check[c].secret[ch] # NoSecret =>
             /\ check[c].secret[ch].master \in Nat
             /\ check[c].secret[ch].master <= master
      BY <3>2, <3>4 DEF Fine, Cipher
    <3>6. check[c].secret[ch] # NoSecret =>
             /\ check[c].secret[ch].master <= master'
             /\ check[c].secret[ch].master # master'
      BY <1>2, <3>5
    <3> QED  BY <3>1, <3>3, <3>6 DEF Fine
  <2>3. CASE c \in bots
    <3>1. Live(c) /\ Fine(c, ch)
      BY <1>1, <2>3 DEF Lone, AllFine
    <3>2. PICK old : /\ old = check[c].secret[Telegram]
                     /\ old = [master |-> master,
                               key |-> user[check[c].owner].key]
      BY <1>2, <2>3 DEF Readable
    <3>3. PICK new : new = [old EXCEPT !.master = master + 1]
      OBVIOUS
    <3>4. new = [master |-> master', key |-> user'[check[c].owner].key]
      BY <1>2, <3>2, <3>3
    <3>5. check'[c] = [check[c] EXCEPT
                         !.secret = [check[c].secret EXCEPT ![Telegram] = new]]
      BY <1>3, <2>1, <2>3, <3>2, <3>3, KeysAssumption DEF Check, Secrets
    <3>6. /\ check'[c].owner = check[c].owner
          /\ check'[c].secret[Telegram] = new
          /\ ch # Telegram => check'[c].secret[ch] = check[c].secret[ch]
      BY <2>1, <3>5, KeysAssumption DEF Check, Secrets
    <3>7. CASE ch = Telegram
      BY <1>2, <3>4, <3>6, <3>7 DEF Fine, Readable
    <3>8. CASE ch # Telegram
      <4>1. check[c].secret[ch] # NoSecret =>
               check[c].secret[ch] \in Cipher
        BY <2>1 DEF Secrets
      <4>2. check[c].secret[ch] # NoSecret =>
               /\ check[c].secret[ch].master \in Nat
               /\ check[c].secret[ch].master <= master
        BY <3>1, <4>1 DEF Fine, Cipher
      <4>3. check[c].secret[ch] # NoSecret =>
               /\ check[c].secret[ch].master <= master'
               /\ check[c].secret[ch].master # master'
        BY <1>2, <4>2
      <4> QED  BY <3>6, <3>8, <4>3 DEF Fine
    <3> QED  BY <3>7, <3>8
  <2> QED  BY <2>2, <2>3
<1>5. AllFine'
  BY <1>4 DEF AllFine
<1>6. \A r \in Requests : req'[r] = Idle
  BY <1>2 DEF RotateMaster, Quiet
<1>7. Alone'
  BY <1>6, IdleCurrent DEF Alone
<1> QED  BY <1>5, <1>7 DEF Lone

LEMMA NextLone == Inv /\ Lone /\ [Next]_vars => Lone'
<1> SUFFICES ASSUME Inv, Lone, [Next]_vars PROVE Lone'
  OBVIOUS
<1>1. CASE raced
  BY <1>1 DEF Lone, vars, Next, RequestStep, Authenticate, OpenAccount,
     OpenClashes, Refetch, VisitEnds, InsertCheck, LoadCheck, InsertFails,
     LoadFails, SaveSecret, RotateGather, RotateCommit, RotateFails,
     DeleteGather, DeleteCommit, Revoke, RequestDies, DeleteCheck,
     RevocationExpires, RotateMaster
<1>2. CASE ~raced
  <2>1. ASSUME UNCHANGED <<user, check, master, req>> PROVE Lone'
    <3>1. AllFine'
      BY <1>2, <2>1 DEF Lone, AllFine, Fine, Live, Readable
    <3>2. Alone'
      BY <1>2, <2>1 DEF Lone, Alone, Current, Owned, Live, Open
    <3> QED  BY <3>1, <3>2 DEF Lone
  <2>2. ASSUME NEW r \in Requests, RequestStep(r) PROVE Lone'
    <3>1. CASE VisitEnds(r) \/ InsertFails(r) \/ LoadFails(r) \/ RotateFails(r)
               \/ Revoke(r) \/ RequestDies(r)
      <4>1. Ends(r) /\ UNCHANGED <<user, check, master>> /\ req[r].pc # "idle"
        BY <3>1 DEF VisitEnds, InsertFails, LoadFails, RotateFails, Revoke,
                    RequestDies
      <4> QED  BY <1>2, <4>1, EndingLone
    <3>2. CASE DeleteCommit(r)
      <4>1. NoOrphans'
        BY InvIsKept DEF Inv
      <4> QED  BY <1>2, <3>2, <4>1, DeleteCommitLone
    <3> QED  BY <1>2, <2>2, <3>1, <3>2, AuthenticateLone, GoingOnLone,
                OpenAccountLone, InsertCheckLone, SaveSecretLone,
                RotateCommitLone, Zenon DEF RequestStep
  <2>3. ASSUME NEW c \in Checks, DeleteCheck(c) PROVE Lone'
    BY <1>2, <2>3, DeleteCheckLone
  <2>4. CASE RotateMaster
    BY <1>2, <2>4, RotateMasterLone
  <2>5. CASE (\E k \in Keys : RevocationExpires(k)) \/ UNCHANGED vars
    BY <2>1, <2>5 DEF RevocationExpires, vars
  <2> QED  BY <2>2, <2>3, <2>4, <2>5 DEF Next
<1> QED  BY <1>1, <1>2

LEMMA InitLone == Init => Lone
BY IdleCurrent DEF Init, Lone, Alone, AllFine, Live, Row

\* As long as no two requests overlapped, every secret of a present master
\* key, and every Telegram secret, can be read with the key its owner has:
\* rotations that fail or die, and the master key script, leave none behind.
THEOREM SecretsStayReadable == Spec => []ReadableUnlessRaced
<1>1. Lone => ReadableUnlessRaced
  BY DEF Lone, AllFine, Fine, ReadableUnlessRaced
<1> QED
  BY <1>1, InitLone, InvHoldsAtFirst, NextLone, InvIsKept, PTL DEF Spec

=============================================================================
