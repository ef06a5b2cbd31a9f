----------------------------- MODULE AccountKeys -----------------------------
(***************************************************************************)
(* Accounts, the keys that open them, and the secrets stored under them.   *)
(*                                                                         *)
(* A client brings a key of its own.  The account behind it is created by  *)
(* the first request that writes; two such requests may race, and the      *)
(* unique index on users.auth_key decides.  The tokens and URLs of the     *)
(* notification channels are stored encrypted under the master key and the *)
(* key of the account.  Rotating the key of an account encrypts its        *)
(* secrets again; rotating the master key is a script run offline.         *)
(*                                                                         *)
(* A ciphertext is modelled by the two keys it was made with: it can be    *)
(* read back with these two and no others.                                 *)
(***************************************************************************)
EXTENDS Integers

CONSTANTS
    Users,      \* ids of accounts; an id is never used twice
    Checks,     \* ids of checks; an id is never used twice
    Keys,       \* account keys, those that rotations draw included
    FirstKeys,  \* the keys clients bring themselves
    Channels,   \* notification channels with a secret
    Telegram,   \* the channel the master key script knows
    Requests,   \* requests that may be in flight together
    MaxMaster,  \* bound: rotations of the master key
    MaxFaults,  \* bound: requests that die, Redis errors
    NoUser, NoKey, NoSecret, NoCheck

ASSUME KeysAssumption == FirstKeys \subseteq Keys /\ Telegram \in Channels
ASSUME BoundsAssumption == MaxMaster \in Nat /\ MaxFaults \in Nat
ASSUME NullsAssumption ==
    /\ NoUser \notin Users /\ NoKey \notin Keys /\ NoCheck \notin Checks
    /\ NoSecret \notin [master : Nat, key : Keys]

VARIABLES
    user,       \* table users
    check,      \* table checks: owner and secrets
    master,     \* ENCRYPTION_KEY, counted
    blacklist,  \* blacklist:auth_key:* in Redis
    req,        \* the session of each request
    held,       \* history: the keys each account has had
    raced,      \* history: two requests were once in flight together
    faults      \* faults so far

vars == <<user, check, master, blacklist, req, held, raced, faults>>

-----------------------------------------------------------------------------

Cipher == [master : Nat, key : Keys]

States == {"none", "live", "gone"}

User == [state : States, key : Keys \cup {NoKey}]

Secrets == [Channels -> Cipher \cup {NoSecret}]

NoSecrets == [ch \in Channels |-> NoSecret]

\* by is history: the key of the request that created the check.
Check == [state : States, owner : Users \cup {NoUser},
          by : Keys \cup {NoKey}, secret : Secrets]

Row(state) == [state |-> state, owner |-> NoUser, by |-> NoKey,
               secret |-> NoSecrets]

Ops == {"create", "import", "visit", "save", "rotate", "delete"}

\* uid is the account the key opened when the request was authenticated;
\* check the one a save loaded; new the key a rotation drew, seen the
\* secrets it loaded, doomed the checks an account deletion has gathered.
Session == [pc     : {"idle", "authed", "clash", "loaded", "gathered",
                      "revoke"},
            op     : Ops \cup {"none"},
            key    : Keys \cup {NoKey},
            uid    : Users \cup {NoUser},
            check  : Checks \cup {NoCheck},
            new    : Keys \cup {NoKey},
            seen   : [Checks -> Secrets],
            doomed : SUBSET Checks]

Idle == [pc |-> "idle", op |-> "none", key |-> NoKey, uid |-> NoUser,
         check |-> NoCheck, new |-> NoKey,
         seen |-> [c \in Checks |-> NoSecrets], doomed |-> {}]

Quiet == \A r \in Requests : req[r] = Idle

Open(u) == u \in Users /\ user[u].state = "live"

Live(c) == check[c].state = "live"

\* The accounts a key opens.
Behind(k) == {u \in Users : Open(u) /\ user[u].key = k}

Owned(u) == {c \in Checks : Live(c) /\ check[c].owner = u}

\* The keys that clients may present.
Known == FirstKeys \cup UNION {held[u] : u \in Users}

Init ==
    /\ user = [u \in Users |-> [state |-> "none", key |-> NoKey]]
    /\ check = [c \in Checks |-> Row("none")]
    /\ master = 0
    /\ blacklist = {}
    /\ req = [r \in Requests |-> Idle]
    /\ held = [u \in Users |-> {}]
    /\ raced = FALSE
    /\ faults = 0

Becomes(r, q) == req' = [req EXCEPT ![r] = q]

Ends(r) == Becomes(r, Idle)

Fault == faults < MaxFaults /\ faults' = faults + 1

-----------------------------------------------------------------------------
(* A request is authenticated, and the account of its key opened.          *)

\* The dashboard does not look at the blacklist.  Saving and rotating need
\* an account; creating a check opens one; deleting one that does not exist
\* only revokes the key.
Authenticate(r, op, k) ==
    /\ req[r].pc = "idle" /\ k \in Known
    /\ op = "visit" \/ k \notin blacklist
    /\ \E u \in IF Behind(k) = {} THEN {NoUser} ELSE Behind(k) :
         /\ op \in {"save", "rotate"} => u # NoUser
         /\ Becomes(r, [Idle EXCEPT !.op = op, !.key = k, !.uid = u,
                        !.pc = IF op = "delete" /\ u = NoUser THEN "revoke"
                                                              ELSE "authed"])
    /\ raced' = (raced \/ ~Quiet)
    /\ UNCHANGED <<user, check, master, blacklist, held, faults>>

\* Mutant of OpenAccount: nothing keeps a key from opening two accounts.
OpenAccountTwice(r, u) ==
    LET q == req[r] IN
    /\ q.pc = "authed" /\ q.op \in {"create", "import", "visit"}
    /\ q.uid = NoUser /\ user[u].state = "none"
    /\ user' = [user EXCEPT ![u] = [state |-> "live", key |-> q.key]]
    /\ held' = [held EXCEPT ![u] = @ \cup {q.key}]
    /\ Becomes(r, IF q.op = "visit" THEN Idle ELSE [q EXCEPT !.uid = u])
    /\ UNCHANGED <<check, master, blacklist, raced, faults>>

OpenAccount(r, u) ==
    LET q == req[r] IN
    /\ q.pc = "authed" /\ q.op \in {"create", "import", "visit"}
    /\ q.uid = NoUser /\ user[u].state = "none" /\ Behind(q.key) = {}
    /\ user' = [user EXCEPT ![u] = [state |-> "live", key |-> q.key]]
    /\ held' = [held EXCEPT ![u] = @ \cup {q.key}]
    /\ Becomes(r, IF q.op = "visit" THEN Idle ELSE [q EXCEPT !.uid = u])
    /\ UNCHANGED <<check, master, blacklist, raced, faults>>

\* Another request was faster: IntegrityError, and the insert is undone.
OpenClashes(r) ==
    LET q == req[r] IN
    /\ q.pc = "authed" /\ q.op \in {"create", "import", "visit"}
    /\ q.uid = NoUser /\ Behind(q.key) # {}
    /\ Becomes(r, [q EXCEPT !.pc = "clash"])
    /\ UNCHANGED <<user, check, master, blacklist, held, raced, faults>>

\* The account is looked up again; it may be gone, or have another key.
Refetch(r) ==
    LET q == req[r] IN
    /\ q.pc = "clash"
    /\ IF Behind(q.key) = {} \/ q.op = "visit"
       THEN Ends(r)
       ELSE \E u \in Behind(q.key) :
              Becomes(r, [q EXCEPT !.pc = "authed", !.uid = u])
    /\ UNCHANGED <<user, check, master, blacklist, held, raced, faults>>

\* A visit to an account that exists writes nothing.
VisitEnds(r) ==
    /\ req[r].pc = "authed" /\ req[r].op = "visit" /\ req[r].uid # NoUser
    /\ Ends(r)
    /\ UNCHANGED <<user, check, master, blacklist, held, raced, faults>>

-----------------------------------------------------------------------------
(* Checks and their secrets.                                               *)

\* The check refers to its owner by a foreign key.  An import goes on to
\* store the secrets of the check it created.
InsertCheck(r, c) ==
    LET q == req[r] IN
    /\ q.pc = "authed" /\ q.op \in {"create", "import"}
    /\ Open(q.uid) /\ check[c].state = "none"
    /\ check' = [check EXCEPT ![c] =
                   [Row("live") EXCEPT !.owner = q.uid, !.by = q.key]]
    /\ Becomes(r, IF q.op = "create" THEN Idle
                  ELSE [q EXCEPT !.pc = "loaded", !.check = c])
    /\ UNCHANGED <<user, master, blacklist, held, raced, faults>>

\* The owner was deleted meanwhile.
InsertFails(r) ==
    LET q == req[r] IN
    /\ q.pc = "authed" /\ q.op \in {"create", "import"}
    /\ q.uid # NoUser /\ ~Open(q.uid)
    /\ Ends(r)
    /\ UNCHANGED <<user, check, master, blacklist, held, raced, faults>>

\* Mutant of LoadCheck: does not ask for the owner.
LoadCheckOfAnyone(r, c) ==
    LET q == req[r] IN
    /\ q.pc = "authed" /\ q.op = "save"
    /\ Live(c)
    /\ Becomes(r, [q EXCEPT !.pc = "loaded", !.check = c])
    /\ UNCHANGED <<user, check, master, blacklist, held, raced, faults>>

LoadCheck(r, c) ==
    LET q == req[r] IN
    /\ q.pc = "authed" /\ q.op = "save"
    /\ c \in Owned(q.uid)
    /\ Becomes(r, [q EXCEPT !.pc = "loaded", !.check = c])
    /\ UNCHANGED <<user, check, master, blacklist, held, raced, faults>>

\* No such check in this account.
LoadFails(r) ==
    /\ req[r].pc = "authed" /\ req[r].op = "save"
    /\ Ends(r)
    /\ UNCHANGED <<user, check, master, blacklist, held, raced, faults>>

\* The secret is encrypted under the key that authenticated the request; a
\* check that is gone by now makes the flush fail.
SaveSecret(r, ch) ==
    LET q == req[r] IN
    /\ q.pc = "loaded"
    /\ IF Live(q.check)
       THEN check' = [check EXCEPT ![q.check].secret[ch] =
                        [master |-> master, key |-> q.key]]
       ELSE UNCHANGED check
    /\ Ends(r)
    /\ UNCHANGED <<user, master, blacklist, held, raced, faults>>

DeleteCheck(c) ==
    /\ Live(c)
    /\ check' = [check EXCEPT ![c] = Row("gone")]
    /\ UNCHANGED <<user, master, blacklist, req, held, raced, faults>>

-----------------------------------------------------------------------------
(* Rotating the key of an account.                                         *)

\* Mutant of RotateGather: the secrets of one channel are forgotten.
RotateGatherTelegram(r, k) ==
    LET q == req[r] IN
    /\ q.pc = "authed" /\ q.op = "rotate"
    /\ k \notin Known /\ \A s \in Requests : req[s].new # k
    /\ Becomes(r, [q EXCEPT !.pc = "gathered", !.new = k,
                     !.seen = [c \in Checks |->
                         IF c \in Owned(q.uid)
                         THEN [NoSecrets EXCEPT ![Telegram] =
                                 check[c].secret[Telegram]]
                         ELSE NoSecrets]])
    /\ UNCHANGED <<user, check, master, blacklist, held, raced, faults>>

\* A fresh key is drawn, and the secrets of the account are loaded.
RotateGather(r, k) ==
    LET q == req[r] IN
    /\ q.pc = "authed" /\ q.op = "rotate"
    /\ k \notin Known /\ \A s \in Requests : req[s].new # k
    /\ Becomes(r, [q EXCEPT !.pc = "gathered", !.new = k,
                     !.seen = [c \in Checks |->
                         IF c \in Owned(q.uid) THEN check[c].secret
                                               ELSE NoSecrets]])
    /\ UNCHANGED <<user, check, master, blacklist, held, raced, faults>>

Readable(cipher, k) == cipher = [master |-> master, key |-> k]

\* The checks whose row a rotation writes.
Rewritten(q) ==
    {c \in Checks : \E ch \in Channels : Readable(q.seen[c][ch], q.key)}

\* The secret of a check after the rotation: encrypted again from the copy
\* that was loaded, and left as it is stored when the copy was unreadable.
Reencrypted(q, c, ch) ==
    IF Readable(q.seen[c][ch], q.key)
    THEN [master |-> master, key |-> q.new]
    ELSE check[c].secret[ch]

\* One transaction: the account gets its key and its secrets are written.
RotateCommit(r) ==
    LET q == req[r] IN
    /\ q.pc = "gathered" /\ q.op = "rotate"
    /\ Open(q.uid) /\ \A c \in Rewritten(q) : Live(c)
    /\ user' = [user EXCEPT ![q.uid].key = q.new]
    /\ held' = [held EXCEPT ![q.uid] = @ \cup {q.new}]
    /\ check' = [c \in Checks |->
                   [check[c] EXCEPT !.secret =
                      [ch \in Channels |-> Reencrypted(q, c, ch)]]]
    /\ Becomes(r, [q EXCEPT !.pc = "revoke", !.new = NoKey,
                            !.seen = Idle.seen])
    /\ UNCHANGED <<master, blacklist, raced, faults>>

\* A row to be written is gone: StaleDataError, and nothing is written.
RotateFails(r) ==
    LET q == req[r] IN
    /\ q.pc = "gathered" /\ q.op = "rotate"
    /\ ~(Open(q.uid) /\ \A c \in Rewritten(q) : Live(c))
    /\ Ends(r)
    /\ UNCHANGED <<user, check, master, blacklist, held, raced, faults>>

-----------------------------------------------------------------------------
(* Deleting an account, and revoking keys.                                 *)

DeleteGather(r) ==
    LET q == req[r] IN
    /\ q.pc = "authed" /\ q.op = "delete"
    /\ Becomes(r, [q EXCEPT !.pc = "gathered", !.doomed = Owned(q.uid)])
    /\ UNCHANGED <<user, check, master, blacklist, held, raced, faults>>

Remove(u, cs) ==
    /\ user' = [user EXCEPT ![u] = [state |-> "gone", key |-> NoKey]]
    /\ check' = [c \in Checks |-> IF c \in cs THEN Row("gone") ELSE check[c]]

\* Mutant of DeleteCommit: no foreign key.
DeleteUnchecked(r) ==
    LET q == req[r] IN
    /\ q.pc = "gathered" /\ q.op = "delete"
    /\ Remove(q.uid, q.doomed)
    /\ Becomes(r, [q EXCEPT !.pc = "revoke", !.doomed = {}])
    /\ UNCHANGED <<master, blacklist, held, raced, faults>>

\* A check that was created since the checks were gathered keeps its owner:
\* the foreign key fails and nothing is deleted.
DeleteCommit(r) ==
    LET q == req[r] IN
    /\ q.pc = "gathered" /\ q.op = "delete"
    /\ IF Owned(q.uid) \subseteq q.doomed
       THEN /\ Remove(q.uid, q.doomed)
            /\ Becomes(r, [q EXCEPT !.pc = "revoke", !.doomed = {}])
       ELSE Ends(r) /\ UNCHANGED <<user, check>>
    /\ UNCHANGED <<master, blacklist, held, raced, faults>>

\* Mutant of Revoke: revokes the key the rotation drew.
RevokeNew(r) ==
    /\ req[r].pc = "revoke"
    /\ \/ blacklist' = blacklist \cup {req[r].new} /\ UNCHANGED faults
       \/ Fault /\ UNCHANGED blacklist
    /\ Ends(r)
    /\ UNCHANGED <<user, check, master, held, raced>>

\* Redis may be out of reach, which is only logged.
Revoke(r) ==
    /\ req[r].pc = "revoke"
    /\ \/ blacklist' = blacklist \cup {req[r].key} /\ UNCHANGED faults
       \/ Fault /\ UNCHANGED blacklist
    /\ Ends(r)
    /\ UNCHANGED <<user, check, master, held, raced>>

\* Twenty-four hours have passed.
RevocationExpires(k) ==
    /\ k \in blacklist
    /\ blacklist' = blacklist \ {k}
    /\ UNCHANGED <<user, check, master, req, held, raced, faults>>

-----------------------------------------------------------------------------
(* The master key script, run while the application is offline, and the    *)
(* restart with the new ENCRYPTION_KEY.  It looks at Telegram secrets and  *)
(* gives up when one cannot be read.                                       *)

RotateMaster ==
    LET bots == {c \in Checks : Live(c) /\ check[c].secret[Telegram] # NoSecret}
    IN
    /\ Quiet /\ master < MaxMaster
    /\ \A c \in bots :
         Readable(check[c].secret[Telegram], user[check[c].owner].key)
    /\ master' = master + 1
    /\ check' = [c \in Checks |->
                   IF c \in bots
                   THEN [check[c] EXCEPT !.secret[Telegram].master = master + 1]
                   ELSE check[c]]
    /\ UNCHANGED <<user, blacklist, req, held, raced, faults>>

\* A database error, a cancelled request, a killed process.
RequestDies(r) ==
    /\ req[r].pc # "idle" /\ Fault
    /\ Ends(r)
    /\ UNCHANGED <<user, check, master, blacklist, held, raced>>

-----------------------------------------------------------------------------

RequestStep(r) ==
    \/ \E op \in Ops, k \in Keys : Authenticate(r, op, k)
    \/ \E u \in Users : OpenAccount(r, u)
    \/ OpenClashes(r) \/ Refetch(r) \/ VisitEnds(r)
    \/ \E c \in Checks : InsertCheck(r, c) \/ LoadCheck(r, c)
    \/ InsertFails(r) \/ LoadFails(r)
    \/ \E ch \in Channels : SaveSecret(r, ch)
    \/ \E k \in Keys : RotateGather(r, k)
    \/ RotateCommit(r) \/ RotateFails(r)
    \/ DeleteGather(r) \/ DeleteCommit(r) \/ Revoke(r) \/ RequestDies(r)

Next ==
    \/ \E r \in Requests : RequestStep(r)
    \/ \E c \in Checks : DeleteCheck(c)
    \/ \E k \in Keys : RevocationExpires(k)
    \/ RotateMaster

Spec == Init /\ [][Next]_vars

-----------------------------------------------------------------------------
(* Properties.                                                             *)

\* Every variable has the type its declaration says.
TypeOK ==
    /\ user \in [Users -> User]
    /\ check \in [Checks -> Check]
    /\ master \in Nat /\ faults \in Nat /\ raced \in BOOLEAN
    /\ blacklist \subseteq Keys
    /\ req \in [Requests -> Session]
    /\ held \in [Users -> SUBSET Keys]

\* However requests that create, rotate, delete and save overlap, a stored
\* secret was encrypted under a key of the check's own account: another key
\* than the current one perhaps, never a key of somebody else.
SecretsOfOwner ==
    \A c \in Checks, ch \in Channels :
        (Live(c) /\ check[c].secret[ch] # NoSecret)
            => check[c].secret[ch].key \in held[check[c].owner]

\* A check belongs to the account that its creator's key opened, also when
\* the account was opened by a racing request, and a key opens no two.
KeyOwnsItsChecks ==
    /\ \A k \in Keys : \A u, v \in Behind(k) : u = v
    /\ \A c \in Checks : Live(c) => check[c].by \in held[check[c].owner]

\* No check outlives its account, whatever is created while the account is
\* being deleted.
NoOrphans == \A c \in Checks : Live(c) => Open(check[c].owner)

\* As long as no two requests were in flight together, every secret that was
\* stored under the present master key can be read with the key its owner
\* has now, and the Telegram secrets always can: rotations that fail or die
\* half-way leave none behind.
ReadableUnlessRaced ==
    ~raced =>
        \A c \in Checks, ch \in Channels :
            LET s == check[c].secret[ch] IN
            (Live(c) /\ s # NoSecret /\ (ch = Telegram \/ s.master = master))
                => Readable(s, user[check[c].owner].key)

-----------------------------------------------------------------------------
(* What the proofs of AccountKeysProofs induct on, beside the above: what  *)
(* sessions hold, however old, is about their own account.                 *)

\* If c still is a check, it is one of u.
Belongs(c, u) ==
    check[c].state # "none" /\ (Live(c) => check[c].owner = u)

SoundSession(q) ==
    /\ q.pc # "idle" => q.key \in Known
    /\ q.uid # NoUser => q.uid \in Users /\ q.key \in held[q.uid]
    /\ q.pc = "loaded" =>
         q.uid # NoUser /\ q.check \in Checks /\ Belongs(q.check, q.uid)
    /\ q.new # NoKey =>
         q.pc = "gathered" /\ q.op = "rotate" /\ q.new \notin Known
    /\ (q.pc \in {"authed", "gathered"} /\ q.op = "rotate") => q.uid # NoUser
    /\ (q.pc = "gathered" /\ q.op = "rotate") =>
         /\ q.new # NoKey
         /\ \A c \in Checks, ch \in Channels :
              q.seen[c][ch] # NoSecret => Belongs(c, q.uid)

SessionsSound ==
    /\ \A u \in Users : Open(u) => user[u].key \in held[u]
    /\ \A r \in Requests : SoundSession(req[r])
    /\ \A r, s \in Requests : req[r].new = req[s].new => r = s \/ req[r].new = NoKey

=============================================================================
