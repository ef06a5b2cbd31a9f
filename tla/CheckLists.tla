------------------------------ MODULE CheckLists ------------------------------
(***************************************************************************)
(* A dashboard that browses a list of checks page by page and refreshes    *)
(* itself, and the tags with which the server tells it that nothing has    *)
(* changed.                                                                *)
(*                                                                         *)
(* A page is cut at the sort key of its last row.  Only the refresh, which *)
(* always is for the first page, sends and keeps a tag: it names a version *)
(* of the list and an interval of the clock.  Rows change, and intervals   *)
(* pass, between any two steps of a request.                               *)
(***************************************************************************)
EXTENDS Integers, FiniteSets

CONSTANTS
    Checks,
    Clicks,       \* requests for a page, that the user has caused, and
    Refreshes,    \* those of the timer; bound: those under way at once
    Size,         \* rows of a page
    MaxKey,       \* bound: sort keys are 1..MaxKey, or Null
    MaxInterval,  \* bound: intervals of the clock that pass
    MaxChanges,   \* bound: changes of rows
    Absent        \* the key of a check that is not in the list

ASSUME ListsAssumption ==
    /\ {Size, MaxKey} \subseteq Nat \ {0}
    /\ {MaxInterval, MaxChanges} \subseteq Nat /\ Absent \notin Int
    /\ IsFiniteSet(Checks) /\ Clicks \cap Refreshes = {}

Requests == Clicks \cup Refreshes

VARIABLES
    interval, \* the interval of the clock that a tag taken now names
    key,      \* the committed sort key of each check
    version,  \* the committed checks_version
    changes,  \* changes so far
    dir,      \* the sort direction of the client
    req,      \* what each request is doing
    view,     \* the cursors of the page the client shows
    held,     \* dashboardAggregateEtag, the tag that it keeps
    trail     \* history: the pages browsed forward since the first

vars == <<interval, key, version, changes, dir, req, view, held, trail>>

-----------------------------------------------------------------------------
(* Keys, cursors and tags.                                                 *)

\* The database sorts NULL above every value; as a cursor it says none.
Null == MaxKey + 1
Keys == 1..Null

Listed == {c \in Checks : key[c] # Absent}

Tag(v) == [version |-> v, interval |-> interval]

Tags == [version : 0..MaxChanges, interval : 0..MaxInterval]
NoTag == [version |-> 0, interval |-> -1]

Cursors == [next : Keys, prev : Keys]
NoCursors == [next |-> Null, prev |-> Null]

\* The tag of an answer, with the version its rows were read at.
Seal == [tag : Tags \cup {NoTag}, seen : 0..MaxChanges]
NoSeal == [tag |-> NoTag, seen |-> 0]

\* sent: what the request carries in If-None-Match; loaded: the version of
\* the user it was authenticated as; current: no other page was shown since
\* it was sent; stable: the rows that are as they were when the first page
\* was read; edge: the key that the last row of the page had.
Request == [pc : {"idle", "asked", "loaded", "checked", "read", "answered",
                  "unmodified", "tagged"},
            cursor : Keys, back : BOOLEAN, sent : Seal,
            loaded : 0..MaxChanges, seal : Seal,
            rows : SUBSET Checks, at : Cursors,
            current : BOOLEAN, stable : SUBSET Checks, edge : Keys]

NoRequest == [pc |-> "idle", cursor |-> Null, back |-> FALSE, sent |-> NoSeal,
              loaded |-> 0, seal |-> NoSeal, rows |-> {}, at |-> NoCursors,
              current |-> FALSE, stable |-> {}, edge |-> Null]

Trail == [on : BOOLEAN, shown : SUBSET Checks, edges : SUBSET Keys,
          stable : SUBSET Checks, twice : BOOLEAN]

NoTrail == [on |-> FALSE, shown |-> {}, edges |-> {}, stable |-> {},
            twice |-> FALSE]

Init ==
    /\ interval = 0 /\ version = 0 /\ changes = 0
    /\ key \in [Checks -> Keys]
    /\ dir \in {"asc", "desc"}
    /\ req = [r \in Requests |-> NoRequest]
    /\ view = NoCursors /\ held = NoSeal /\ trail = NoTrail

Becomes(r, q) == req' = [req EXCEPT ![r] = q]

\* What a step of a request leaves alone that shows nothing.
world == <<interval, key, version, changes, dir, view, trail>>

-----------------------------------------------------------------------------
(* get_checks_by_owner.                                                    *)

\* Going back turns the order round,
Order(back) == IF back THEN IF dir = "desc" THEN "asc" ELSE "desc" ELSE dir

\* Mutant of Beyond: the row at the cursor is on the next page as well.
BeyondFrom(c, cursor, back) ==
    \/ cursor = Null
    \/ /\ key[c] # Null
       /\ IF \/ Order(back) = "desc" /\ ~back
             \/ Order(back) = "asc" /\ back
          THEN key[c] <= cursor ELSE key[c] >= cursor

\* and the comparison with the cursor, which so is the same both ways.
Beyond(c, cursor, back) ==
    \/ cursor = Null
    \/ /\ key[c] # Null
       /\ IF \/ Order(back) = "desc" /\ ~back
             \/ Order(back) = "asc" /\ back
          THEN key[c] < cursor ELSE key[c] > cursor

NotAfter(j, k, order) == IF order = "asc" THEN j <= k ELSE j >= k

\* The rows a query with a limit may return; rows that tie have no order.
Limited(rows, limit, order) ==
    {s \in SUBSET rows :
       /\ Cardinality(s) = IF Cardinality(rows) < limit THEN Cardinality(rows)
                                                        ELSE limit
       /\ \A c \in s, d \in rows \ s : NotAfter(key[c], key[d], order)}

\* The rows that may come last in a fetched set, and first.
Lasts(s, order) == {c \in s : \A d \in s : NotAfter(key[d], key[c], order)}
Firsts(s, order) == {c \in s : \A d \in s : NotAfter(key[c], key[d], order)}

\* Mutant of KeyAt: an empty page has a cursor.
KeyAtZero(ends) == IF ends = {} THEN 0 ELSE key[CHOOSE c \in ends : TRUE]

\* The key at an end of a set, none of an empty set.
KeyAt(ends) == IF ends = {} THEN Null ELSE key[CHOOSE c \in ends : TRUE]

\* Mutant of Forward: the cursor points to the row that was one too many.
ForwardPast(fetched) ==
    IF Cardinality(fetched) > Size
    THEN {[rows |-> fetched \ {c}, prev |-> KeyAt(Firsts(fetched, dir)),
           next |-> key[c]] : c \in Lasts(fetched, dir)}
    ELSE {[rows |-> fetched, prev |-> KeyAt(Firsts(fetched, dir)),
           next |-> Null]}

\* One row more than a page is fetched, to see whether there is another; the
\* page is what is left without it.
Forward(fetched) ==
    IF Cardinality(fetched) > Size
    THEN {[rows |-> fetched \ {c}, prev |-> KeyAt(Firsts(fetched, dir)),
           next |-> KeyAt(Lasts(fetched \ {c}, dir))]
            : c \in Lasts(fetched, dir)}
    ELSE {[rows |-> fetched, prev |-> KeyAt(Firsts(fetched, dir)),
           next |-> Null]}

Backward(fetched) ==
    LET order == Order(TRUE)
        next  == KeyAt(Firsts(fetched, order)) IN
    IF Cardinality(fetched) > Size
    THEN {[rows |-> fetched \ {c}, next |-> next,
           prev |-> KeyAt(Lasts(fetched \ {c}, order))]
            : c \in Lasts(fetched, order)}
    ELSE {[rows |-> fetched, next |-> next, prev |-> Null]}

Pages(cursor, back) ==
    UNION {IF back THEN Backward(fetched) ELSE Forward(fetched) :
             fetched \in Limited({c \in Listed : Beyond(c, cursor, back)},
                                 Size + 1, Order(back))}

-----------------------------------------------------------------------------
(* The requests.                                                           *)

Ask(r, cursor, back, sent) ==
    /\ req[r].pc = "idle"
    /\ Becomes(r, [NoRequest EXCEPT !.pc = "asked", !.cursor = cursor,
                                    !.back = back, !.sent = sent,
                                    !.current = TRUE])
    /\ UNCHANGED <<world, held>>

\* The refresh sends the tag of the last one, the others send none.
Refresh(r) == Ask(r, Null, FALSE, held)

Reload(r)    == Ask(r, Null, FALSE, NoSeal)
ClickNext(r) == view.next # Null /\ Ask(r, view.next, FALSE, NoSeal)
ClickPrev(r) == view.prev # Null /\ Ask(r, view.prev, TRUE, NoSeal)

\* The user, with the version, is loaded once, when it is authenticated.
LoadUser(r) ==
    /\ r \in Refreshes /\ req[r].pc = "asked"
    /\ Becomes(r, [req[r] EXCEPT !.pc = "loaded", !.loaded = version])
    /\ UNCHANGED <<world, held>>

Unmodified(q) == [NoRequest EXCEPT !.pc = "unmodified",
                                   !.sent = q.sent, !.loaded = q.loaded]

\* A first comparison comes before any row is read, ...
Precheck(r) ==
    LET q == req[r] IN
    /\ q.pc = "loaded"
    /\ Becomes(r, IF Tag(q.loaded) = q.sent.tag THEN Unmodified(q)
                  ELSE [q EXCEPT !.pc = "checked"])
    /\ UNCHANGED <<world, held>>

\* (a click needs no tag, so its answer is ready then)
Read(r) ==
    LET q == req[r] IN
    /\ q.pc = IF r \in Clicks THEN "asked" ELSE "checked"
    /\ \E p \in Pages(q.cursor, q.back) :
         Becomes(r, [q EXCEPT
           !.pc = IF r \in Clicks THEN "answered" ELSE "read",
           !.rows = p.rows, !.at = [next |-> p.next, prev |-> p.prev],
           !.seal.seen = version,
           !.stable = IF q.cursor = Null THEN Listed ELSE {},
           !.edge = KeyAt(Lasts(p.rows, dir))])
    /\ UNCHANGED <<world, held>>

\* Mutant of SentVersion: the version is read again for the tag.
SentVersionLate(q) == version

SentVersion(q) == q.loaded

\* ... and a second one after, with a tag of the interval it is by then.
Answer(r) ==
    LET q == req[r]
        t == Tag(SentVersion(q)) IN
    /\ q.pc = "read"
    /\ Becomes(r, IF t = q.sent.tag THEN Unmodified(q)
                  ELSE [q EXCEPT !.pc = "answered", !.seal.tag = t])
    /\ UNCHANGED <<world, held>>

\* The client keeps the tag when the head of the answer comes, and waits for
\* the rest of it.
TakeTag(r) ==
    /\ r \in Refreshes /\ req[r].pc = "answered"
    /\ held' = req[r].seal
    /\ Becomes(r, [req[r] EXCEPT !.pc = "tagged"])
    /\ UNCHANGED world

\* What the page adds to the pages browsed forward: it is the first of them,
\* it follows the one that is shown, or it is neither.
Extended(q) ==
    IF q.cursor = Null
    THEN [on |-> TRUE, shown |-> q.rows, edges |-> {q.edge},
          stable |-> q.stable, twice |-> FALSE]
    ELSE IF q.current /\ ~q.back /\ trail.on
    THEN [trail EXCEPT !.shown = @ \cup q.rows,
                       !.edges = @ \cup {q.edge},
                       !.twice = \/ @
                                 \/ q.rows \cap trail.shown
                                      \cap trail.stable # {}]
    ELSE NoTrail

\* The rows and the cursors are rendered in one go.
Show(r) ==
    LET q == req[r] IN
    /\ q.pc = IF r \in Clicks THEN "answered" ELSE "tagged"
    /\ view' = q.at
    /\ trail' = Extended(q)
    /\ req' = [s \in Requests |-> IF s = r THEN NoRequest
                                  ELSE [req[s] EXCEPT !.current = FALSE]]
    /\ UNCHANGED <<interval, key, version, changes, dir, held>>

\* The client keeps what it shows when nothing has changed, and when the
\* network, the server or the parser fails; a tag that it took, it keeps.
Keep(r) ==
    /\ req[r].pc # "idle"
    /\ Becomes(r, NoRequest)
    /\ UNCHANGED <<world, held>>

-----------------------------------------------------------------------------
(* The world.                                                              *)

\* A check is created, edited (it may keep its key), pinged or deleted.  The
\* version is bumped after the commit, in a transaction that only a later
\* commit of the same session makes last.
Change(c, k) ==
    /\ changes < MaxChanges /\ changes' = changes + 1
    /\ key' = [key EXCEPT ![c] = k]
    /\ version' \in {version, version + 1}
    /\ req' = [r \in Requests |-> [req[r] EXCEPT !.stable = @ \ {c}]]
    /\ trail' = [trail EXCEPT !.stable = @ \ {c}]
    /\ UNCHANGED <<interval, dir, view, held>>

NextInterval ==
    /\ interval < MaxInterval /\ interval' = interval + 1
    /\ UNCHANGED <<key, version, changes, dir, req, view, held, trail>>

Next ==
    \/ \E r \in Refreshes : Refresh(r)
    \/ \E r \in Clicks : Reload(r) \/ ClickNext(r) \/ ClickPrev(r)
    \/ \E r \in Requests :
         \/ LoadUser(r) \/ Precheck(r) \/ Read(r) \/ Answer(r)
         \/ TakeTag(r) \/ Show(r) \/ Keep(r)
    \/ \E c \in Checks, k \in Keys \cup {Absent} : Change(c, k)
    \/ NextInterval

Spec == Init /\ [][Next]_vars

-----------------------------------------------------------------------------
(* Properties.                                                             *)

\* Every variable has the type its declaration says.
TypeOK ==
    /\ interval \in 0..MaxInterval /\ version \in 0..MaxChanges
    /\ changes \in 0..MaxChanges
    /\ key \in [Checks -> Keys \cup {Absent}]
    /\ dir \in {"asc", "desc"}
    /\ req \in [Requests -> Request]
    /\ view \in Cursors /\ held \in Seal /\ trail \in Trail

\* A client that went forward from the first page until there was no next one
\* was shown every row that did not change meanwhile, but for rows whose key
\* ties with the last of a page, rows without a key, and, in descending order,
\* whatever follows a page that ended in a row without a key.
ForwardLosesOnlyTies ==
    trail.on /\ view.next = Null =>
        \A c \in trail.stable \ trail.shown :
            \/ key[c] = Null \/ key[c] \in trail.edges
            \/ dir = "desc" /\ Null \in trail.edges

\* Going forward shows no row twice that did not change meanwhile.
ShownOnce == ~trail.twice

\* When the refresh is told that nothing has changed, the rows that came with
\* the tag it sent were read no earlier than the version that the refresh was
\* authenticated with: a committed bump of the version is never passed over.
\* This says nothing of changes that bump no version, nor that these rows are
\* the ones that are shown.
BumpsAreShown ==
    \A r \in Requests :
        req[r].pc = "unmodified" => req[r].sent.seen >= req[r].loaded

=============================================================================
