-------------------------- MODULE CheckListsProofs --------------------------
(***************************************************************************)
(* Theorems about CheckLists, for any list, any page and any interval.     *)
(***************************************************************************)
EXTENDS CheckLists, FiniteSetTheorems, WellFoundedInduction, TLAPS

\* Only a change moves the version.
VersionFollows == version <= changes

-----------------------------------------------------------------------------
(* Tags.                                                                   *)

\* The rows under a tag were read at its version, or at a later one.
Covered(seal) == seal.tag.version <= seal.seen

\* The version a tag will name is loaded before the rows are read.
SealOf(q) ==
    /\ Covered(q.sent) /\ Covered(q.seal)
    /\ q.loaded <= version
    /\ q.pc \in {"asked", "loaded", "checked"} => q.seal = NoSeal
    /\ q.pc = "read" => q.loaded <= q.seal.seen
    /\ q.pc = "unmodified" => q.sent.seen >= q.loaded

TagsCovered == Covered(held) /\ \A r \in Requests : SealOf(req[r])

-----------------------------------------------------------------------------
(* Pages.                                                                  *)

\* A row lies within what a page with this cursor to the next has shown.
Within(c, next) == next = Null \/ NotAfter(key[c], next, dir)

\* What a page read forward from a cursor holds, of the rows that are as they
\* were: they lie behind the cursor, and so does the next cursor.
PageOf(q) ==
    /\ \A c \in q.rows \cap trail.stable :
         ~NotAfter(key[c], q.cursor, dir) /\ Within(c, q.at.next)
    /\ q.at.next = Null \/ NotAfter(q.cursor, q.at.next, dir)

Fetched == {"read", "answered", "tagged"}

\* A request that follows the page that is shown, and a first page.  A row
\* that is as it was is still in the list.
PagingOf(q) ==
    /\ q.stable \subseteq Listed /\ (q.cursor = Null => ~q.back)
    /\ q.pc # "idle" /\ q.current /\ ~q.back /\ q.cursor # Null =>
         q.cursor = view.next
    /\ q.pc \in Fetched =>
         IF q.cursor = Null
         THEN \A c \in q.rows \cap q.stable : Within(c, q.at.next)
         ELSE q.current /\ ~q.back => PageOf(q)

PagesAdvance ==
    /\ trail.stable \subseteq Listed
    /\ \A c \in trail.shown \cap trail.stable : Within(c, view.next)
    /\ \A r \in Requests : PagingOf(req[r])

ListsInv ==
    TypeOK /\ VersionFollows /\ TagsCovered /\ PagesAdvance /\ ShownOnce

-----------------------------------------------------------------------------
(* The operators.                                                          *)

LEMMA TagsTyped ==
    ASSUME TypeOK
    PROVE  /\ \A v \in 0..MaxChanges : /\ Tag(v) \in Tags
                                      /\ Tag(v).version = v
           /\ NoSeal \in Seal /\ Covered(NoSeal) /\ NoTag.version = 0
           /\ \A x \in Seal : x.tag.version \in Int /\ x.seen \in Int
           /\ Null \in Keys /\ NoCursors \in Cursors /\ 0 \in 0..MaxChanges
           /\ \A k \in Keys : k \in Int
<1>1. MaxInterval \in Nat /\ MaxChanges \in Nat /\ MaxKey \in Nat
  BY ListsAssumption
<1>2. \A v \in 0..MaxChanges : Tag(v) \in Tags /\ Tag(v).version = v
  BY DEF Tag, Tags, TypeOK
<1>3. NoTag.version = 0 /\ NoSeal \in Seal /\ Covered(NoSeal)
  BY <1>1 DEF NoSeal, Seal, Covered, NoTag
<1>4. ASSUME NEW x \in Seal  PROVE x.tag.version \in Int /\ x.seen \in Int
  BY <1>1, <1>3 DEF Seal, Tags
<1>5. /\ Null \in Keys /\ NoCursors \in Cursors /\ 0 \in 0..MaxChanges
      /\ \A k \in Keys : k \in Int
  BY <1>1 DEF Null, Keys, NoCursors, Cursors
<1> QED  BY <1>2, <1>3, <1>4, <1>5

LEMMA KeysListed ==
    ASSUME TypeOK, NEW c \in Listed
    PROVE  c \in Checks /\ key[c] \in Keys
BY DEF TypeOK, Listed

\* The key at an end of some listed rows is the key of one that lies there.
LEMMA KeyAtEnd ==
    ASSUME NEW ends, NEW c \in ends
    PROVE  \E d \in ends : KeyAt(ends) = key[d]
BY DEF KeyAt

LEMMA EndsTyped ==
    ASSUME TypeOK, NEW ends \in SUBSET Listed
    PROVE  KeyAt(ends) \in Keys
<1>1. CASE ends = {}
  BY <1>1, TagsTyped DEF KeyAt
<1>2. CASE ends # {}
  BY <1>2, KeyAtEnd, KeysListed
<1> QED  BY <1>1, <1>2

\* What a query returns: rows of the list behind the cursor; the next cursor
\* of a page read forward is the key of one of them that none comes after.
LEMMA PagesSound ==
    ASSUME TypeOK, NEW cursor \in Keys, NEW back \in BOOLEAN,
           NEW p \in Pages(cursor, back)
    PROVE  /\ p.rows \subseteq Listed /\ p.next \in Keys /\ p.prev \in Keys
           /\ ~back =>
                /\ \A c \in p.rows : /\ Beyond(c, cursor, FALSE)
                                     /\ Within(c, p.next)
                /\ \/ p.next = Null
                   \/ \E c \in p.rows : p.next = key[c]
<1>1. PICK fetched :
        /\ fetched \in SUBSET {c \in Listed : Beyond(c, cursor, back)}
        /\ p \in IF back THEN Backward(fetched) ELSE Forward(fetched)
  BY DEF Pages, Limited
<1>2. /\ \A o, s : Lasts(s, o) \subseteq s /\ Firsts(s, o) \subseteq s
      /\ fetched \subseteq Listed /\ Null \in Keys
  BY <1>1, TagsTyped DEF Lasts, Firsts
<1>3. /\ \A o : KeyAt(Firsts(fetched, o)) \in Keys
      /\ \A o, c : KeyAt(Lasts(fetched \ {c}, o)) \in Keys
  <2>1. \A o : Firsts(fetched, o) \in SUBSET Listed
    BY <1>2
  <2>2. \A o, c : Lasts(fetched \ {c}, o) \in SUBSET Listed
    BY <1>2
  <2> QED  BY <2>1, <2>2, EndsTyped
<1>4. CASE back
  <2>1. PICK next, prev, rows :
          /\ p = [rows |-> rows, next |-> next, prev |-> prev]
          /\ rows \subseteq fetched /\ next \in Keys /\ prev \in Keys
    <3>1. CASE Cardinality(fetched) > Size
      <4>1. PICK c \in Lasts(fetched, Order(TRUE)) :
              p = [rows |-> fetched \ {c},
                   next |-> KeyAt(Firsts(fetched, Order(TRUE))),
                   prev |-> KeyAt(Lasts(fetched \ {c}, Order(TRUE)))]
        BY <1>1, <1>4, <3>1 DEF Backward
      <4> QED  BY <1>3, <4>1
    <3>2. CASE ~(Cardinality(fetched) > Size)
      <4>1. p = [rows |-> fetched, prev |-> Null,
                 next |-> KeyAt(Firsts(fetched, Order(TRUE)))]
        BY <1>1, <1>4, <3>2 DEF Backward
      <4> QED  BY <1>2, <1>3, <4>1
    <3> QED  BY <3>1, <3>2
  <2>2. p.rows = rows /\ p.next = next /\ p.prev = prev
    BY <2>1
  <2> QED  BY <1>2, <1>4, <2>1, <2>2
<1>5. CASE ~back
  <2>1. /\ p.rows \subseteq fetched /\ p.next \in Keys /\ p.prev \in Keys
        /\ p.next = Null \/ p.next = KeyAt(Lasts(p.rows, dir))
    <3>1. CASE Cardinality(fetched) > Size
      <4>1. PICK c \in Lasts(fetched, dir) :
              p = [rows |-> fetched \ {c},
                   prev |-> KeyAt(Firsts(fetched, dir)),
                   next |-> KeyAt(Lasts(fetched \ {c}, dir))]
        BY <1>1, <1>5, <3>1 DEF Forward
      <4>2. /\ p.rows = fetched \ {c}
            /\ p.prev = KeyAt(Firsts(fetched, dir))
            /\ p.next = KeyAt(Lasts(fetched \ {c}, dir))
        BY <4>1
      <4> QED  BY <1>3, <4>2
    <3>2. CASE ~(Cardinality(fetched) > Size)
      <4>1. p = [rows |-> fetched, prev |-> KeyAt(Firsts(fetched, dir)),
                 next |-> Null]
        BY <1>1, <1>5, <3>2 DEF Forward
      <4> QED  BY <1>2, <1>3, <4>1
    <3> QED  BY <3>1, <3>2
  <2>2. \/ p.next = Null
        \/ \E c \in Lasts(p.rows, dir) : p.next = key[c]
    BY <2>1, KeyAtEnd DEF KeyAt
  <2>3. \A c \in p.rows : Within(c, p.next)
    BY <2>2 DEF Lasts, Within
  <2> QED  BY <1>1, <1>2, <1>5, <2>1, <2>2, <2>3
<1> QED  BY <1>4, <1>5

-----------------------------------------------------------------------------
(* The requests.                                                           *)

\* A request becomes q, and but for the tag nothing else changes.
LEMMA Advances ==
    ASSUME ListsInv, NEW r \in Requests, NEW q \in Request,
           SealOf(q), PagingOf(q), Becomes(r, q), UNCHANGED world,
           held' \in Seal, Covered(held')
    PROVE  ListsInv'
<1>1. TypeOK' /\ VersionFollows' /\ ShownOnce'
  BY DEF ListsInv, TypeOK, VersionFollows, ShownOnce, Becomes, world
<1>2. \A s \in Requests : req'[s] = IF s = r THEN q ELSE req[s]
  BY DEF Becomes, ListsInv, TypeOK
<1>3. TagsCovered'
  <2>1. \A s \in Requests : SealOf(req[s])'
    BY <1>2 DEF ListsInv, TagsCovered, SealOf, Covered, world
  <2> QED  BY <2>1 DEF TagsCovered, Covered
<1>4. PagesAdvance'
  <2>1. \A s \in Requests : PagingOf(req[s])'
    BY <1>2 DEF ListsInv, PagesAdvance, PagingOf, PageOf, Within, Listed,
                       world
  <2> QED  BY <2>1 DEF ListsInv, PagesAdvance, Within, Listed, world
<1> QED  BY <1>1, <1>3, <1>4 DEF ListsInv

\* The tag of the client is sound.
LEMMA HeldCovered ==
    ASSUME ListsInv
    PROVE  /\ held \in Seal /\ Covered(held) /\ TypeOK
           /\ NoRequest \in Request
           /\ \A r \in Requests : /\ req[r] \in Request /\ SealOf(req[r])
                                  /\ PagingOf(req[r])
BY TagsTyped DEF ListsInv, TypeOK, TagsCovered, PagesAdvance, NoRequest,
                 Request

LEMMA AskKept ==
    ASSUME ListsInv, NEW r \in Requests, NEW cursor \in Keys,
           NEW back \in BOOLEAN, NEW sent \in Seal, Covered(sent),
           Ask(r, cursor, back, sent),
           cursor = Null => ~back, ~back => cursor \in {Null, view.next}
    PROVE  ListsInv'
<1>1. PICK q : q = [NoRequest EXCEPT !.pc = "asked", !.cursor = cursor,
                                     !.back = back, !.sent = sent,
                                     !.current = TRUE]
  OBVIOUS
<1>2. /\ q \in Request /\ q.pc = "asked" /\ q.cursor = cursor
      /\ q.back = back /\ q.sent = sent /\ q.stable = {}
      /\ q.seal = NoSeal /\ q.loaded = 0
  BY <1>1, HeldCovered DEF Request, NoRequest
<1>3. SealOf(q)
  BY <1>2, TagsTyped DEF SealOf, ListsInv, TypeOK
<1>4. PagingOf(q)
  BY <1>2 DEF PagingOf, Fetched
<1> QED  BY <1>1, <1>2, <1>3, <1>4, HeldCovered, Advances DEF Ask

LEMMA ClickKept ==
    ASSUME ListsInv, NEW r \in Requests,
           Refresh(r) \/ Reload(r) \/ ClickNext(r) \/ ClickPrev(r)
    PROVE  ListsInv'
<1>1. Null \in Keys /\ view.next \in Keys /\ view.prev \in Keys
  BY TagsTyped DEF ListsInv, TypeOK, Cursors
<1>2. NoSeal \in Seal /\ Covered(NoSeal) /\ held \in Seal /\ Covered(held)
  BY HeldCovered, TagsTyped
<1> QED  BY <1>1, <1>2, AskKept DEF Refresh, Reload, ClickNext, ClickPrev

LEMMA LoadKept ==
    ASSUME ListsInv, NEW r \in Requests, LoadUser(r)
    PROVE  ListsInv'
<1>1. PICK o : o = req[r] /\ o \in Request /\ SealOf(o) /\ PagingOf(o)
  BY HeldCovered
<1>2. PICK q : q = [o EXCEPT !.pc = "loaded", !.loaded = version]
  OBVIOUS
<1>3. version \in 0..MaxChanges /\ MaxChanges \in Nat /\ o.pc = "asked"
  BY <1>1, ListsAssumption DEF ListsInv, TypeOK, LoadUser
<1>4. /\ q \in Request /\ q.pc = "loaded" /\ q.loaded = version
      /\ q.sent = o.sent /\ q.seal = o.seal /\ q.stable = o.stable
      /\ q.cursor = o.cursor /\ q.back = o.back /\ q.current = o.current
  BY <1>1, <1>2, <1>3 DEF Request
<1>5. SealOf(q)
  BY <1>1, <1>3, <1>4 DEF SealOf
<1>6. PagingOf(q)
  BY <1>1, <1>3, <1>4 DEF PagingOf, Fetched
<1>7. Becomes(r, q) /\ UNCHANGED <<world, held>>
  BY <1>1, <1>2 DEF LoadUser
<1> QED  BY <1>4, <1>5, <1>6, <1>7, HeldCovered, Advances

\* A tag that is the same names the version that the request has loaded.
LEMMA SameVersion ==
    ASSUME ListsInv, NEW r \in Requests,
           Tag(req[r].loaded) = req[r].sent.tag
    PROVE  LET q == Unmodified(req[r]) IN
           /\ q \in Request /\ SealOf(q) /\ PagingOf(q)
           /\ q.pc = "unmodified"
<1>1. PICK o : o = req[r] /\ o \in Request /\ SealOf(o)
  BY HeldCovered
<1>2. PICK q : q = Unmodified(o)
  OBVIOUS
<1>3. /\ q \in Request /\ q.pc = "unmodified" /\ q.sent = o.sent
      /\ q.loaded = o.loaded /\ q.cursor = Null /\ ~q.back /\ q.stable = {}
      /\ q.seal = NoSeal
  BY <1>1, <1>2, HeldCovered DEF Unmodified, NoRequest, Request
<1>4. o.loaded \in 0..MaxChanges /\ o.sent \in Seal
  BY <1>1 DEF Request
<1>5. o.sent.tag.version = o.loaded /\ o.loaded \in Int /\ o.sent.seen \in Int
  <2>1. Tag(o.loaded).version = o.loaded
    BY <1>4, HeldCovered, TagsTyped
  <2> QED  BY <1>1, <1>4, <2>1, HeldCovered, TagsTyped
<1>6. SealOf(q)
  BY <1>1, <1>3, <1>5, HeldCovered, TagsTyped DEF SealOf, Covered
<1>7. PagingOf(q)
  BY <1>3 DEF PagingOf, Fetched
<1> QED  BY <1>1, <1>2, <1>3, <1>6, <1>7

LEMMA PrecheckKept ==
    ASSUME ListsInv, NEW r \in Requests, Precheck(r)
    PROVE  ListsInv'
<1>1. PICK o : o = req[r] /\ o \in Request /\ SealOf(o) /\ PagingOf(o)
  BY HeldCovered
<1>2. o.pc = "loaded" /\ UNCHANGED <<world, held>>
  BY <1>1 DEF Precheck
<1>3. CASE Tag(o.loaded) = o.sent.tag
  BY <1>1, <1>2, <1>3, SameVersion, HeldCovered, Advances DEF Precheck
<1>4. CASE Tag(o.loaded) # o.sent.tag
  <2>1. PICK q : q = [o EXCEPT !.pc = "checked"] /\ Becomes(r, q)
    BY <1>1, <1>4 DEF Precheck
  <2>2. /\ q \in Request /\ q.pc = "checked" /\ q.loaded = o.loaded
        /\ q.sent = o.sent /\ q.seal = o.seal /\ q.stable = o.stable
        /\ q.cursor = o.cursor /\ q.back = o.back /\ q.current = o.current
    BY <1>1, <2>1 DEF Request
  <2>3. SealOf(q)
    BY <1>1, <1>2, <2>2 DEF SealOf
  <2>4. PagingOf(q)
    BY <1>1, <1>2, <2>2 DEF PagingOf, Fetched
  <2> QED  BY <1>2, <2>1, <2>2, <2>3, <2>4, HeldCovered, Advances
<1> QED  BY <1>3, <1>4

LEMMA ReadKept ==
    ASSUME ListsInv, NEW r \in Requests, Read(r)
    PROVE  ListsInv'
<1>1. PICK o : o = req[r] /\ o \in Request /\ SealOf(o) /\ PagingOf(o)
  BY HeldCovered
<1>0. PICK pc : pc = IF r \in Clicks THEN "answered" ELSE "read"
  OBVIOUS
<1>2. PICK p \in Pages(o.cursor, o.back) :
        Becomes(r, [o EXCEPT !.pc = pc, !.rows = p.rows,
                             !.at = [next |-> p.next, prev |-> p.prev],
                             !.seal.seen = version,
                             !.stable = IF o.cursor = Null THEN Listed ELSE {},
                             !.edge = KeyAt(Lasts(p.rows, dir))])
  BY <1>0, <1>1 DEF Read
<1>3. PICK q : q =
        [o EXCEPT !.pc = pc, !.rows = p.rows,
                  !.at = [next |-> p.next, prev |-> p.prev],
                  !.seal.seen = version,
                  !.stable = IF o.cursor = Null THEN Listed ELSE {},
                  !.edge = KeyAt(Lasts(p.rows, dir))]
  OBVIOUS
<1>4. /\ TypeOK /\ o.cursor \in Keys /\ o.back \in BOOLEAN
      /\ o.pc \in {"asked", "checked"} /\ Listed \subseteq Checks
  BY <1>1 DEF ListsInv, Request, Read, Listed
<1>5. /\ p.rows \subseteq Listed /\ p.next \in Keys /\ p.prev \in Keys
      /\ ~o.back =>
           /\ \A c \in p.rows : /\ Beyond(c, o.cursor, FALSE)
                                /\ Within(c, p.next)
           /\ \/ p.next = Null
              \/ \E c \in p.rows : p.next = key[c]
  BY <1>4, PagesSound
<1>6. KeyAt(Lasts(p.rows, dir)) \in Keys
  <2>1. Lasts(p.rows, dir) \in SUBSET Listed
    BY <1>5 DEF Lasts
  <2> QED  BY <1>4, <2>1, TagsTyped, EndsTyped
<1>7. /\ q.pc \in {"read", "answered"} /\ q.rows = p.rows
      /\ q.at.next = p.next /\ q.sent = o.sent /\ q.loaded = o.loaded
      /\ q.seal.seen = version /\ q.seal.tag = o.seal.tag
      /\ q.cursor = o.cursor /\ q.back = o.back /\ q.current = o.current
      /\ q.stable \subseteq Listed
  BY <1>0, <1>1, <1>3 DEF Request, Seal
<1>8. q \in Request
  <2>1. PICK stable : stable = IF o.cursor = Null THEN Listed ELSE {}
    OBVIOUS
  <2>2. PICK at : at = [next |-> p.next, prev |-> p.prev]
    OBVIOUS
  <2>3. PICK seal : seal = [o.seal EXCEPT !.seen = version]
    OBVIOUS
  <2>4. PICK edge : edge = KeyAt(Lasts(p.rows, dir))
    OBVIOUS
  <2>5. /\ at \in Cursors /\ stable \in SUBSET Checks
        /\ p.rows \in SUBSET Checks /\ edge \in Keys
        /\ pc \in {"read", "answered"}
    BY <1>0, <1>4, <1>5, <1>6, <2>1, <2>2, <2>4 DEF Cursors
  <2>6. seal \in Seal
    <3>1. o.seal \in Seal /\ version \in 0..MaxChanges
      BY <1>1, <1>4 DEF Request, TypeOK
    <3> QED  BY <2>3, <3>1 DEF Seal
  <2>7. PICK rows : rows = p.rows /\ rows \in SUBSET Checks
    BY <2>5
  <2>8. q = [o EXCEPT !.pc = pc, !.rows = rows, !.at = at, !.seal = seal,
                      !.stable = stable, !.edge = edge]
    BY <1>3, <2>1, <2>2, <2>3, <2>4, <2>7
  <2> QED  BY <1>1, <2>5, <2>6, <2>7, <2>8 DEF Request
<1>9. SealOf(q)
  <2>1. q.seal.tag = NoTag
    BY <1>1, <1>4, <1>7 DEF SealOf, NoSeal
  <2>2. version >= 0
    BY <1>4 DEF TypeOK
  <2> QED  BY <1>1, <1>4, <1>7, <2>1, <2>2, TagsTyped DEF SealOf, Covered
<1>10. PagingOf(q)
  <2>1. CASE q.cursor = Null
    BY <1>1, <1>5, <1>7, <2>1 DEF PagingOf, Fetched
  <2>2. CASE q.cursor # Null /\ q.back
    BY <1>7, <2>2 DEF PagingOf, Fetched
  <2>3. CASE q.cursor # Null /\ ~q.back
    <3>1. \A c \in p.rows : /\ key[c] \in Int /\ o.cursor \in Int
                            /\ ~NotAfter(key[c], o.cursor, dir)
                            /\ NotAfter(o.cursor, key[c], dir)
      BY <1>4, <1>5, <1>7, <2>3, TagsTyped, KeysListed
         DEF Beyond, Order, NotAfter, TypeOK
    <3>2. PageOf(q)
      BY <1>5, <1>7, <2>3, <3>1 DEF PageOf
    <3> QED  BY <1>1, <1>4, <1>7, <2>3, <3>2 DEF PagingOf, Fetched
  <2> QED  BY <2>1, <2>2, <2>3
<1>11. Becomes(r, q) /\ UNCHANGED <<world, held>>
  BY <1>2, <1>3 DEF Read
<1> QED  BY <1>8, <1>9, <1>10, <1>11, HeldCovered, Advances

\* A request that keeps its page keeps its place.
LEMMA PageKept ==
    ASSUME NEW o, NEW q, o.pc \in Fetched, q.pc \in Fetched, PagingOf(o),
           q.rows = o.rows, q.at = o.at, q.stable = o.stable,
           q.cursor = o.cursor, q.back = o.back, q.current = o.current
    PROVE  PagingOf(q)
BY DEF PagingOf, PageOf, Fetched

LEMMA AnswerKept ==
    ASSUME ListsInv, NEW r \in Requests, Answer(r)
    PROVE  ListsInv'
<1>1. PICK o : o = req[r] /\ o \in Request /\ SealOf(o) /\ PagingOf(o)
  BY HeldCovered
<1>2. o.pc = "read" /\ UNCHANGED <<world, held>>
  BY <1>1 DEF Answer
<1>3. CASE Tag(o.loaded) = o.sent.tag
  <2>1. Becomes(r, Unmodified(o))
    BY <1>1, <1>3 DEF Answer, SentVersion
  <2> QED  BY <1>1, <1>2, <1>3, <2>1, SameVersion, HeldCovered, Advances
<1>4. CASE Tag(o.loaded) # o.sent.tag
  <2>1. PICK seal : seal = [o.seal EXCEPT !.tag = Tag(o.loaded)]
    OBVIOUS
  <2>2. PICK q : q = [o EXCEPT !.pc = "answered", !.seal = seal]
    OBVIOUS
  <2>3. Becomes(r, q)
    BY <1>1, <1>4, <2>1, <2>2 DEF Answer, SentVersion
  <2>4. /\ o.loaded \in 0..MaxChanges /\ o.seal \in Seal
        /\ Tag(o.loaded) \in Tags /\ Tag(o.loaded).version = o.loaded
    BY <1>1, HeldCovered, TagsTyped DEF Request
  <2>5. seal \in Seal /\ seal.seen = o.seal.seen /\ seal.tag = Tag(o.loaded)
    BY <2>1, <2>4 DEF Seal
  <2>6. /\ q \in Request /\ q.pc = "answered" /\ q.seal = seal
        /\ q.sent = o.sent /\ q.loaded = o.loaded
    BY <1>1, <2>2, <2>5 DEF Request
  <2>7. SealOf(q)
    BY <1>1, <1>2, <2>4, <2>5, <2>6 DEF SealOf, Covered
  <2>8. PagingOf(q)
    <3>1. /\ q.rows = o.rows /\ q.at = o.at /\ q.stable = o.stable
          /\ q.cursor = o.cursor /\ q.back = o.back /\ q.current = o.current
      BY <1>1, <2>2 DEF Request
    <3>2. o.pc \in Fetched /\ q.pc \in Fetched
      BY <1>2, <2>6 DEF Fetched
    <3> QED  BY <1>1, <3>1, <3>2, PageKept
  <2> QED  BY <1>2, <2>3, <2>6, <2>7, <2>8, HeldCovered, Advances
<1> QED  BY <1>3, <1>4

LEMMA TakeKept ==
    ASSUME ListsInv, NEW r \in Requests, TakeTag(r)
    PROVE  ListsInv'
<1>1. PICK o : o = req[r] /\ o \in Request /\ SealOf(o) /\ PagingOf(o)
  BY HeldCovered
<1>2. PICK q : q = [o EXCEPT !.pc = "tagged"] /\ Becomes(r, q)
  BY <1>1 DEF TakeTag
<1>3. /\ o.pc = "answered" /\ UNCHANGED world /\ held' = o.seal
      /\ o.seal \in Seal /\ Covered(o.seal)
  BY <1>1 DEF TakeTag, SealOf, Request
<1>4. /\ q \in Request /\ q.pc = "tagged" /\ q.seal = o.seal
      /\ q.sent = o.sent /\ q.loaded = o.loaded
  BY <1>1, <1>2 DEF Request
<1>5. SealOf(q)
  BY <1>1, <1>4 DEF SealOf
<1>6. PagingOf(q)
  <2>1. /\ q.rows = o.rows /\ q.at = o.at /\ q.stable = o.stable
        /\ q.cursor = o.cursor /\ q.back = o.back /\ q.current = o.current
    BY <1>1, <1>2 DEF Request
  <2>2. o.pc \in Fetched /\ q.pc \in Fetched
    BY <1>3, <1>4 DEF Fetched
  <2> QED  BY <1>1, <2>1, <2>2, PageKept
<1>7. held' \in Seal /\ Covered(held')
  BY <1>3
<1> QED  BY <1>2, <1>3, <1>4, <1>5, <1>6, <1>7, Advances

LEMMA KeepKept ==
    ASSUME ListsInv, NEW r \in Requests, Keep(r)
    PROVE  ListsInv'
<1>1. SealOf(NoRequest)
  BY HeldCovered, TagsTyped DEF NoRequest, SealOf, TypeOK
<1>2. PagingOf(NoRequest)
  BY DEF NoRequest, PagingOf, Fetched
<1> QED  BY <1>1, <1>2, HeldCovered, Advances DEF Keep

-----------------------------------------------------------------------------
(* A page arrives.                                                         *)

\* What was shown lies within the cursor that was followed, what the page
\* adds lies behind it.
LEMMA FollowingAdvances ==
    ASSUME TypeOK, NEW q \in Request, PageOf(q), q.cursor # Null,
           q.cursor = view.next,
           trail.stable \subseteq Listed,
           \A c \in trail.shown \cap trail.stable : Within(c, view.next)
    PROVE  /\ q.rows \cap trail.shown \cap trail.stable = {}
           /\ \A c \in (trail.shown \cup q.rows) \cap trail.stable :
                Within(c, q.at.next)
<1>1. /\ q.cursor \in Int /\ q.at.next \in Int /\ dir \in {"asc", "desc"}
      /\ \A c \in Listed : key[c] \in Int
  BY TagsTyped, KeysListed DEF Request, Cursors, TypeOK
<1> QED  BY <1>1 DEF PageOf, Within, NotAfter

LEMMA TrailKept ==
    ASSUME ListsInv, NEW r \in Requests, req[r].pc \in Fetched
    PROVE  LET q == req[r]
               t == Extended(q) IN
           /\ t \in Trail /\ ~t.twice /\ t.stable \subseteq Listed
           /\ \A c \in t.shown \cap t.stable : Within(c, q.at.next)
<1>1. PICK q : q = req[r] /\ q \in Request /\ PagingOf(q)
  BY DEF ListsInv, TypeOK, PagesAdvance
<1>2. PICK t : t = Extended(q)
  OBVIOUS
<1>3. /\ TypeOK /\ trail \in Trail /\ ~trail.twice
      /\ trail.stable \subseteq Listed
      /\ q.pc \in Fetched /\ q.pc # "idle"
      /\ \A c \in trail.shown \cap trail.stable : Within(c, view.next)
  BY <1>1 DEF ListsInv, TypeOK, PagesAdvance, ShownOnce, Fetched
<1> DEFINE Sound == /\ t \in Trail /\ ~t.twice /\ t.stable \subseteq Listed
                    /\ \A c \in t.shown \cap t.stable : Within(c, q.at.next)
<1>4. CASE q.cursor = Null
  <2>1. t = [on |-> TRUE, shown |-> q.rows, edges |-> {q.edge},
             stable |-> q.stable, twice |-> FALSE]
    BY <1>2, <1>4 DEF Extended
  <2>2. t \in Trail
    BY <1>1, <2>1 DEF Trail, Request
  <2>3. Sound
    BY <1>1, <1>3, <1>4, <2>1, <2>2 DEF PagingOf
  <2> QED  BY <1>1, <1>2, <2>3
<1>5. CASE q.cursor # Null /\ q.current /\ ~q.back /\ trail.on
  <2>1. t = [trail EXCEPT !.shown = @ \cup q.rows,
                          !.edges = @ \cup {q.edge},
                          !.twice = \/ @
                                    \/ q.rows \cap trail.shown
                                         \cap trail.stable # {}]
    BY <1>2, <1>5 DEF Extended
  <2>0. PageOf(q) /\ q.cursor = view.next
    BY <1>1, <1>3, <1>5 DEF PagingOf
  <2>2. /\ q.rows \cap trail.shown \cap trail.stable = {}
        /\ \A c \in (trail.shown \cup q.rows) \cap trail.stable :
             Within(c, q.at.next)
    BY <1>1, <1>3, <1>5, <2>0, FollowingAdvances
  <2>3. /\ t \in Trail /\ t.shown = trail.shown \cup q.rows
        /\ t.stable = trail.stable /\ ~t.twice
    BY <1>1, <1>3, <2>1, <2>2 DEF Trail, Request
  <2>4. Sound
    BY <1>3, <2>2, <2>3
  <2> QED  BY <1>1, <1>2, <2>4
<1>6. CASE ~(q.cursor = Null \/ (q.current /\ ~q.back /\ trail.on))
  <2>1. t = NoTrail
    BY <1>2, <1>6 DEF Extended
  <2>2. Sound
    BY <2>1 DEF NoTrail, Trail
  <2> QED  BY <1>1, <1>2, <2>2
<1> QED  BY <1>4, <1>5, <1>6

LEMMA ShowKept ==
    ASSUME ListsInv, NEW r \in Requests, Show(r)
    PROVE  ListsInv'
<1>1. PICK o : o = req[r] /\ o \in Request /\ o.pc \in Fetched
  BY HeldCovered DEF Show, Fetched
<1>2. /\ trail' \in Trail /\ ~trail'.twice /\ trail'.stable \subseteq Listed
      /\ \A c \in trail'.shown \cap trail'.stable : Within(c, o.at.next)
      /\ view' = o.at
      /\ UNCHANGED <<interval, key, version, changes, dir, held>>
  BY <1>1, TrailKept DEF Show
<1>3. \A s \in Requests :
        /\ req'[s] \in Request
        /\ \/ req'[s] = NoRequest
           \/ /\ req'[s] = [req[s] EXCEPT !.current = FALSE]
              /\ ~req'[s].current
              /\ \A x \in {"pc", "cursor", "back", "sent", "seal", "loaded",
                           "rows", "at", "stable"} : req'[s][x] = req[s][x]
  <2>1. NoRequest \in Request
    BY TagsTyped DEF NoRequest, Request, ListsInv
  <2>2. \A s \in Requests : req[s] \in Request
    BY DEF ListsInv, TypeOK
  <2>3. ASSUME NEW s \in Requests
        PROVE  \/ req'[s] = NoRequest
               \/ req'[s] = [req[s] EXCEPT !.current = FALSE]
    BY DEF Show
  <2>4. ASSUME NEW s \in Requests,
               req'[s] = [req[s] EXCEPT !.current = FALSE]
        PROVE  /\ req'[s] \in Request /\ ~req'[s].current
               /\ \A x \in {"pc", "cursor", "back", "sent", "seal", "loaded",
                            "rows", "at", "stable"} : req'[s][x] = req[s][x]
    <3>1. PICK p : p = req[s] /\ p \in Request
      BY <2>2
    <3>2. PICK q : q = [p EXCEPT !.current = FALSE] /\ q = req'[s]
      BY <2>4, <3>1
    <3>3. q \in Request
      BY <3>1, <3>2 DEF Request
    <3>4. /\ ~q.current
          /\ \A x \in {"pc", "cursor", "back", "sent", "seal", "loaded",
                       "rows", "at", "stable"} : q[x] = p[x]
      BY <3>1, <3>2 DEF Request
    <3> QED  BY <3>1, <3>2, <3>3, <3>4
  <2> QED  BY <2>1, <2>3, <2>4
<1>4. TypeOK'
  <2>1. view' \in Cursors
    BY <1>1, <1>2 DEF Request
  <2>2. req' \in [Requests -> Request]
    BY <1>3 DEF Show
  <2> QED  BY <1>2, <2>1, <2>2 DEF ListsInv, TypeOK
<1>5. TagsCovered'
  <2>1. ASSUME NEW s \in Requests PROVE SealOf(req[s])'
    <3>1. CASE req'[s] = NoRequest
      BY <1>4, <3>1, TagsTyped DEF NoRequest, SealOf, Covered, ListsInv, TypeOK
    <3>2. CASE req'[s] # NoRequest
      BY <1>2, <1>3, <3>2, HeldCovered DEF SealOf, Covered
    <3> QED  BY <3>1, <3>2
  <2> QED  BY <1>2, <2>1, HeldCovered DEF TagsCovered, Covered
<1>6. PagesAdvance'
  <2>1. ASSUME NEW s \in Requests PROVE PagingOf(req[s])'
    <3>1. CASE req'[s] = NoRequest
      BY <3>1 DEF NoRequest, PagingOf, Fetched
    <3>2. CASE req'[s] # NoRequest
      <4>1. PICK old : old = req[s] /\ PagingOf(old)
        BY DEF ListsInv, PagesAdvance
      <4>2. PICK q : /\ q = req'[s] /\ ~q.current
                     /\ q.pc = old.pc /\ q.cursor = old.cursor
                     /\ q.back = old.back /\ q.rows = old.rows
                     /\ q.at = old.at /\ q.stable = old.stable
        BY <1>3, <3>2, <4>1
      <4>3. PagingOf(q)'
        BY <1>2, <4>1, <4>2 DEF PagingOf, Within, Listed, Fetched
      <4> QED  BY <4>2, <4>3
    <3> QED  BY <3>1, <3>2
  <2> QED  BY <1>2, <2>1 DEF PagesAdvance, Within, Listed
<1> QED  BY <1>2, <1>4, <1>5, <1>6 DEF ListsInv, VersionFollows, ShownOnce

-----------------------------------------------------------------------------
(* The world.                                                              *)

LEMMA IntervalKept ==
    ASSUME ListsInv, NextInterval
    PROVE  ListsInv'
<1>1. /\ interval' \in 0..MaxInterval
      /\ UNCHANGED <<key, version, changes, dir, req, view, held, trail>>
  BY ListsAssumption DEF NextInterval, ListsInv, TypeOK
<1>2. TypeOK' /\ VersionFollows' /\ ShownOnce'
  BY <1>1 DEF ListsInv, TypeOK, VersionFollows, ShownOnce
<1>3. TagsCovered'
  BY <1>1 DEF ListsInv, TagsCovered, SealOf, Covered
<1>4. PagesAdvance'
  BY <1>1 DEF ListsInv, PagesAdvance, PagingOf, PageOf, Within, Listed
<1> QED  BY <1>2, <1>3, <1>4 DEF ListsInv

LEMMA ChangeKept ==
    ASSUME ListsInv, NEW c \in Checks, NEW k \in Keys \cup {Absent},
           Change(c, k)
    PROVE  ListsInv'
<1>1. /\ changes' = changes + 1 /\ changes' \in 0..MaxChanges
      /\ version' \in 0..MaxChanges /\ version' <= changes'
      /\ version <= version' /\ version \in Int /\ version' \in Int
      /\ UNCHANGED <<interval, dir, view, held>>
  BY ListsAssumption DEF Change, ListsInv, TypeOK, VersionFollows
<1>2. /\ key' \in [Checks -> Keys \cup {Absent}]
      /\ \A d \in Checks \ {c} : key'[d] = key[d]
  BY DEF Change, ListsInv, TypeOK
<1>3. /\ trail' \in Trail /\ trail'.stable = trail.stable \ {c}
      /\ trail'.shown = trail.shown /\ trail'.twice = trail.twice
      /\ trail.stable \subseteq Checks
  BY DEF Change, ListsInv, TypeOK, Trail
<1>4. \A s \in Requests :
        /\ req'[s] \in Request /\ req'[s].stable = req[s].stable \ {c}
        /\ req[s].stable \subseteq Checks
        /\ \A x \in {"pc", "cursor", "back", "sent", "seal", "rows", "at",
                     "current", "loaded"} : req'[s][x] = req[s][x]
  <2>1. \A s \in Requests : req[s] \in Request
    BY DEF ListsInv, TypeOK
  <2> QED  BY <2>1 DEF Change, Request
<1>5. TypeOK'
  <2>1. req' \in [Requests -> Request]
    BY <1>4 DEF Change
  <2> QED  BY <1>1, <1>2, <1>3, <2>1 DEF ListsInv, TypeOK
<1>6. TagsCovered'
  <2>1. ASSUME NEW s \in Requests PROVE SealOf(req[s])'
    <3>1. /\ SealOf(req[s]) /\ req[s].loaded \in Int
          /\ req'[s].loaded = req[s].loaded
      BY <1>4, ListsAssumption, HeldCovered DEF Request
    <3>2. req'[s].loaded <= version'
      BY <1>1, <3>1 DEF SealOf
    <3> QED  BY <1>4, <3>1, <3>2 DEF SealOf, Covered
  <2> QED  BY <1>1, <2>1, HeldCovered DEF TagsCovered, Covered
<1>7. PagesAdvance'
  <2>1. /\ trail'.stable \subseteq {d \in Checks : key'[d] # Absent}
        /\ \A d \in trail'.stable : key'[d] = key[d]
    BY <1>2, <1>3 DEF ListsInv, PagesAdvance, Listed
  <2>2. \A d \in trail'.shown \cap trail'.stable : Within(d, view.next)
    BY <1>3 DEF ListsInv, PagesAdvance
  <2>3. ASSUME NEW s \in Requests PROVE PagingOf(req[s])'
    <3>1. PICK o : o = req[s] /\ PagingOf(o)
      BY DEF ListsInv, PagesAdvance
    <3>2. PICK q : /\ q = req'[s] /\ q.stable = o.stable \ {c}
                   /\ o.stable \subseteq Checks
                   /\ q.pc = o.pc /\ q.cursor = o.cursor /\ q.back = o.back
                   /\ q.rows = o.rows /\ q.at = o.at /\ q.current = o.current
      BY <1>4, <3>1
    <3>3. /\ q.stable \subseteq {d \in Checks : key'[d] # Absent}
          /\ \A d \in q.stable : key'[d] = key[d]
      BY <1>2, <3>1, <3>2 DEF PagingOf, Listed
    <3>4. PageOf(o) => PageOf(q)'
      BY <1>1, <1>3, <2>1, <3>2 DEF PageOf, Within
    <3>5. PagingOf(q)'
      BY <1>1, <3>1, <3>2, <3>3, <3>4 DEF PagingOf, Within, Listed, Fetched
    <3> QED  BY <3>2, <3>5
  <2> QED  BY <1>1, <2>1, <2>2, <2>3 DEF PagesAdvance, Within, Listed
<1> QED  BY <1>1, <1>3, <1>5, <1>6, <1>7
         DEF ListsInv, VersionFollows, ShownOnce

-----------------------------------------------------------------------------
(* The theorems.                                                           *)

LEMMA ListsInit == ASSUME Init PROVE ListsInv
<1>1. TypeOK
  <2>1. /\ interval \in 0..MaxInterval /\ version \in 0..MaxChanges
        /\ changes \in 0..MaxChanges
        /\ key \in [Checks -> Keys \cup {Absent}] /\ dir \in {"asc", "desc"}
    BY ListsAssumption DEF Init
  <2>2. /\ NoSeal \in Seal /\ NoCursors \in Cursors /\ Null \in Keys
        /\ 0 \in 0..MaxChanges
    BY ListsAssumption
       DEF NoSeal, NoCursors, Seal, Cursors, Keys, Null
  <2>3. NoRequest \in Request /\ NoTrail \in Trail
    BY <2>2 DEF NoRequest, Request, NoTrail, Trail
  <2> QED  BY <2>1, <2>2, <2>3 DEF Init, TypeOK
<1>2. VersionFollows /\ ShownOnce
  BY DEF Init, VersionFollows, ShownOnce, NoTrail
<1>3. TagsCovered
  BY <1>1, TagsTyped DEF Init, TagsCovered, SealOf, NoRequest
<1>4. PagesAdvance
  BY DEF Init, PagesAdvance, PagingOf, NoTrail, NoRequest, Fetched
<1> QED  BY <1>1, <1>2, <1>3, <1>4 DEF ListsInv

LEMMA ListsStep == ASSUME ListsInv, [Next]_vars PROVE ListsInv'
<1>1. CASE UNCHANGED vars
  BY <1>1 DEF vars, ListsInv, TypeOK, VersionFollows, TagsCovered, SealOf,
              Covered, PagesAdvance, PagingOf, PageOf, Within, Listed,
              ShownOnce
<1>2. CASE Next
  <2>1. Refreshes \subseteq Requests /\ Clicks \subseteq Requests
    BY DEF Requests
  <2> QED  BY <1>2, <2>1, ClickKept, LoadKept, PrecheckKept, ReadKept,
              AnswerKept, TakeKept, ShowKept, KeepKept, ChangeKept,
              IntervalKept
           DEF Next
<1> QED  BY <1>1, <1>2

LEMMA ListsInvariant == Spec => []ListsInv
BY ListsInit, ListsStep, PTL DEF Spec

\* Every variable keeps its type, whatever rows change while a page is read.
THEOREM TypeCorrect == Spec => []TypeOK
<1>1. ListsInv => TypeOK
  BY DEF ListsInv
<1> QED  BY <1>1, ListsInvariant, PTL

\* Whatever read_dashboard_aggregate is asked, in whatever order refreshes
\* overlap: the tag it gives names the version loaded before the rows were
\* read, so that an answer that nothing has changed never passes over a
\* committed bump of the version.
THEOREM NoBumpIsHidden == Spec => []BumpsAreShown
<1>1. ListsInv => BumpsAreShown
  BY DEF ListsInv, TagsCovered, SealOf, BumpsAreShown
<1> QED  BY <1>1, ListsInvariant, PTL

\* A client that goes forward is shown no row twice that did not change, for
\* lists and pages of any size, with ties and rows without a key.
THEOREM NothingShownTwice == Spec => []ShownOnce
<1>1. ListsInv => ShownOnce
  BY DEF ListsInv
<1> QED  BY <1>1, ListsInvariant, PTL

-----------------------------------------------------------------------------
(* What going forward can lose.                                            *)

\* The rows that the ends of pages hide.
Excused(c, edges) ==
    key[c] = Null \/ key[c] \in edges \/ (dir = "desc" /\ Null \in edges)

\* A row that a page leaves does not come before the last of the page, which
\* is where the next page begins.
LeavesOf(q, c) ==
    q.at.next = q.edge /\ NotAfter(q.edge, key[c], dir)

LeavingOf(q) ==
    q.pc \in Fetched =>
        IF q.cursor = Null
        THEN \A c \in q.stable \ q.rows : LeavesOf(q, c)
        ELSE q.current /\ ~q.back =>
               \A c \in trail.stable \ q.rows :
                  Beyond(c, q.cursor, FALSE) => LeavesOf(q, c)

\* A row that was not shown is hidden by the end of a page, or comes yet.
ToCome(c, next) == next # Null /\ Beyond(c, next, FALSE)

Missed ==
    trail.on => \A c \in trail.stable \ trail.shown :
                  Excused(c, trail.edges) \/ ToCome(c, view.next)

Losses == Missed /\ \A r \in Requests : LeavingOf(req[r])

-----------------------------------------------------------------------------
(* The operators.                                                          *)

\* A set of natural numbers that is not empty has a least member.
LEMMA Least ==
    ASSUME NEW S \in SUBSET Nat, S # {}
    PROVE  \E k \in S : \A j \in S : k <= j
<1>1. PICK R : R = OpToRel(<, Nat)
  OBVIOUS
<1>2. IsWellFoundedOn(R, Nat)
  BY <1>1, NatLessThanWellFounded
<1>3. PICK k \in S : \A j \in S : <<j, k>> \notin R
  BY <1>2, WFMin
<1>4. \A i, j \in Nat : <<i, j>> \in R <=> i < j
  BY <1>1 DEF OpToRel
<1>5. ASSUME NEW j \in S  PROVE k <= j
  <2>1. j \in Nat /\ k \in Nat /\ ~(j < k)
    BY <1>3, <1>4
  <2> QED  BY <2>1
<1> QED  BY <1>5

\* Listed rows, if there are any, have a last one in either order.
LEMMA LastExists ==
    ASSUME TypeOK, NEW rows \in SUBSET Listed, rows # {}, NEW order
    PROVE  Lasts(rows, order) # {}
<1>1. /\ Null \in Nat /\ \A c \in rows : key[c] \in 1..Null
  BY KeysListed, ListsAssumption DEF Keys, Null
<1>2. CASE order = "asc"
  <2>1. PICK S : S = {Null - key[c] : c \in rows}
    OBVIOUS
  <2>2. S \in SUBSET Nat /\ S # {}
    BY <1>1, <2>1
  <2>3. PICK k \in S : \A j \in S : k <= j
    BY <2>2, Least
  <2>4. PICK c \in rows : k = Null - key[c]
    BY <2>1
  <2>5. ASSUME NEW d \in rows  PROVE key[d] <= key[c]
    <3>1. Null - key[c] <= Null - key[d]
      BY <2>1, <2>3, <2>4
    <3> QED  BY <1>1, <3>1
  <2> QED  BY <1>2, <2>5 DEF Lasts, NotAfter
<1>3. CASE order # "asc"
  <2>1. PICK S : S = {key[c] : c \in rows}
    OBVIOUS
  <2>2. S \in SUBSET Nat /\ S # {}
    BY <1>1, <2>1
  <2>3. PICK k \in S : \A j \in S : k <= j
    BY <2>2, Least
  <2>4. PICK c \in rows : k = key[c]
    BY <2>1
  <2>5. ASSUME NEW d \in rows  PROVE key[d] >= key[c]
    BY <1>1, <2>1, <2>3, <2>4
  <2> QED  BY <1>3, <2>5 DEF Lasts, NotAfter
<1> QED  BY <1>2, <1>3

\* A page read forward that leaves a row behind the cursor has a next one: it
\* begins at the key of the last row, before none of the rows that are left.
LEMMA ForwardLeaves ==
    ASSUME TypeOK, NEW cursor \in Keys, NEW p \in Pages(cursor, FALSE),
           NEW c \in Listed, Beyond(c, cursor, FALSE), c \notin p.rows
    PROVE  /\ p.next = KeyAt(Lasts(p.rows, dir))
           /\ NotAfter(p.next, key[c], dir)
<1>1. PICK rows : rows = {d \in Listed : Beyond(d, cursor, FALSE)}
  OBVIOUS
<1>2. PICK fetched \in Limited(rows, Size + 1, dir) : p \in Forward(fetched)
  BY <1>1 DEF Pages, Order
<1>3. /\ IsFiniteSet(rows) /\ fetched \in SUBSET rows /\ c \in rows
      /\ rows \subseteq Listed
  <2>1. rows \in SUBSET Checks
    BY <1>1 DEF Listed
  <2> QED  BY <1>1, <1>2, <2>1, FS_Subset, ListsAssumption DEF Limited
<1>4. /\ IsFiniteSet(fetched) /\ Cardinality(fetched) \in Nat
      /\ Cardinality(rows) \in Nat /\ Size \in Nat \ {0}
  BY <1>3, FS_Subset, FS_CardinalityType, ListsAssumption
<1>5. Cardinality(fetched) > Size
  <2> SUFFICES ASSUME ~(Cardinality(fetched) > Size)  PROVE FALSE
    OBVIOUS
  <2>1. Cardinality(fetched) = Cardinality(rows)
    BY <1>2, <1>4 DEF Limited
  <2>2. fetched = rows
    BY <1>3, <2>1, FS_Subset
  <2>3. p.rows = fetched
    BY <1>2 DEF Forward
  <2> QED  BY <1>3, <2>2, <2>3
<1>6. PICK l \in Lasts(fetched, dir) :
        /\ p.rows = fetched \ {l}
        /\ p.next = KeyAt(Lasts(fetched \ {l}, dir))
  <2>1. PICK l \in Lasts(fetched, dir) :
          p = [rows |-> fetched \ {l}, prev |-> KeyAt(Firsts(fetched, dir)),
               next |-> KeyAt(Lasts(fetched \ {l}, dir))]
    BY <1>2, <1>5 DEF Forward
  <2> QED  BY <2>1
<1>7. p.rows # {} /\ p.rows \in SUBSET Listed
  <2>1. Cardinality({l}) = 1
    BY FS_Singleton
  <2>2. fetched # {l}
    BY <1>4, <1>5, <2>1
  <2>3. fetched # {}
    BY <1>6 DEF Lasts
  <2> QED  BY <1>3, <1>6, <2>2, <2>3
<1>8. PICK m \in Lasts(p.rows, dir) : p.next = key[m]
  <2>1. PICK d : d \in Lasts(p.rows, dir)
    BY <1>7, LastExists
  <2> QED  BY <1>6, <2>1, KeyAtEnd
<1>9. m \in fetched
  BY <1>6, <1>8 DEF Lasts
<1>10. NotAfter(key[m], key[c], dir)
  <2>1. CASE c = l
    BY <1>6, <1>9, <2>1 DEF Lasts
  <2>2. CASE c # l
    BY <1>2, <1>3, <1>6, <1>9, <2>2 DEF Limited
  <2> QED  BY <2>1, <2>2
<1> QED  BY <1>6, <1>8, <1>10

\* A row that is left is hidden by the end of the page, or comes yet.
LEMMA LeftComes ==
    ASSUME TypeOK, NEW c \in Listed, NEW next \in Keys, NEW edges,
           next \in edges, NotAfter(next, key[c], dir)
    PROVE  Excused(c, edges) \/ ToCome(c, next)
<1>1. /\ key[c] \in 1..Null /\ next \in 1..Null /\ Null \in Nat
      /\ dir \in {"asc", "desc"}
  BY KeysListed, ListsAssumption DEF Keys, Null, TypeOK
<1>2. CASE next = Null
  BY <1>1, <1>2 DEF NotAfter, Excused
<1>3. CASE next # Null
  BY <1>1, <1>3 DEF NotAfter, Excused, ToCome, Beyond, Order
<1> QED  BY <1>2, <1>3

-----------------------------------------------------------------------------
(* The requests.                                                           *)

\* A step that leaves the rows and the trail alone loses nothing, if what it
\* makes of its request leaves no row before the end of its page.
LEMMA LossesAdvance ==
    ASSUME ListsInv, Losses, NEW r \in Requests, NEW q \in Request,
           LeavingOf(q), Becomes(r, q), UNCHANGED world
    PROVE  Losses'
<1>1. \A s \in Requests : req'[s] = IF s = r THEN q ELSE req[s]
  BY DEF Becomes, ListsInv, TypeOK
<1>2. ASSUME NEW s \in Requests  PROVE LeavingOf(req[s])'
  <2>1. PICK o : o = req'[s] /\ LeavingOf(o)
    BY <1>1 DEF Losses
  <2>2. LeavingOf(o)'
    BY <2>1 DEF LeavingOf, LeavesOf, Beyond, Order, world
  <2> QED  BY <2>1, <2>2
<1>3. Missed'
  BY DEF Losses, Missed, Excused, ToCome, Beyond, Order, world
<1> QED  BY <1>2, <1>3 DEF Losses

\* Reading a page loses nothing.
LEMMA ReadLoses ==
    ASSUME ListsInv, Losses, NEW r \in Requests, Read(r)
    PROVE  Losses'
<1>1. PICK o : o = req[r] /\ o \in Request /\ PagingOf(o)
  BY DEF ListsInv, TypeOK, PagesAdvance
<1>0. PICK pc : pc = IF r \in Clicks THEN "answered" ELSE "read"
  OBVIOUS
<1>2. PICK p \in Pages(o.cursor, o.back) :
        Becomes(r, [o EXCEPT !.pc = pc, !.rows = p.rows,
                             !.at = [next |-> p.next, prev |-> p.prev],
                             !.seal.seen = version,
                             !.stable = IF o.cursor = Null THEN Listed ELSE {},
                             !.edge = KeyAt(Lasts(p.rows, dir))])
  BY <1>0, <1>1 DEF Read
<1>3. PICK q : q =
        [o EXCEPT !.pc = pc, !.rows = p.rows,
                  !.at = [next |-> p.next, prev |-> p.prev],
                  !.seal.seen = version,
                  !.stable = IF o.cursor = Null THEN Listed ELSE {},
                  !.edge = KeyAt(Lasts(p.rows, dir))]
  OBVIOUS
<1>4. /\ TypeOK /\ o.cursor \in Keys /\ o.back \in BOOLEAN
      /\ Listed \subseteq Checks
      /\ (o.cursor = Null => ~o.back)
      /\ trail.stable \subseteq Listed
  BY <1>1 DEF ListsInv, Request, Listed, PagingOf, PagesAdvance
<1>5. /\ q.rows = p.rows /\ q.at.next = p.next /\ q.cursor = o.cursor
      /\ q.back = o.back /\ q.edge = KeyAt(Lasts(p.rows, dir))
      /\ q.stable \subseteq Listed
  BY <1>1, <1>3 DEF Request
<1>6. q \in Request
  BY <1>2, <1>3, ReadKept DEF ListsInv, TypeOK, Becomes
<1>7. ASSUME ~o.back, NEW c \in Listed, Beyond(c, o.cursor, FALSE),
             c \notin q.rows
      PROVE  LeavesOf(q, c)
  BY <1>2, <1>4, <1>5, <1>7, ForwardLeaves DEF LeavesOf
<1>8. LeavingOf(q)
  <2>1. CASE q.cursor = Null
    <3>1. ASSUME NEW c \in q.stable, c \notin q.rows  PROVE LeavesOf(q, c)
      <4>1. c \in Listed /\ ~o.back /\ Beyond(c, o.cursor, FALSE)
        BY <1>4, <1>5, <2>1, <3>1 DEF Beyond
      <4> QED  BY <1>7, <3>1, <4>1
    <3> QED  BY <2>1, <3>1 DEF LeavingOf
  <2>2. CASE q.cursor # Null
    BY <1>4, <1>5, <1>7, <2>2 DEF LeavingOf
  <2> QED  BY <2>1, <2>2
<1>9. Becomes(r, q) /\ UNCHANGED world
  BY <1>2, <1>3 DEF Read
<1> QED  BY <1>6, <1>8, <1>9, LossesAdvance

\* Nor do the steps of a request that read no row and show none.
LEMMA OthersLose ==
    ASSUME ListsInv, Losses, NEW r \in Requests,
           \/ Refresh(r) \/ Reload(r) \/ ClickNext(r) \/ ClickPrev(r)
           \/ LoadUser(r) \/ Precheck(r) \/ Answer(r) \/ TakeTag(r) \/ Keep(r)
    PROVE  Losses'
<1>1. PICK o : o = req[r] /\ o \in Request /\ LeavingOf(o)
  BY HeldCovered DEF Losses
<1>2. \A q \in Request : q.pc \notin Fetched => LeavingOf(q)
  BY DEF LeavingOf
<1>3. ASSUME NEW q \in Request, q.pc \notin Fetched, Becomes(r, q),
             UNCHANGED world
      PROVE  Losses'
  BY <1>2, <1>3, LossesAdvance
<1>4. ASSUME NEW cursor \in Keys, NEW back \in BOOLEAN, NEW sent \in Seal,
             Ask(r, cursor, back, sent)
      PROVE  Losses'
  <2>1. PICK q : q = [NoRequest EXCEPT !.pc = "asked", !.cursor = cursor,
                                       !.back = back, !.sent = sent,
                                       !.current = TRUE]
    OBVIOUS
  <2>2. q \in Request /\ q.pc \notin Fetched
    BY <2>1, HeldCovered DEF Request, Fetched
  <2> QED  BY <1>3, <1>4, <2>1, <2>2 DEF Ask
<1>5. /\ Null \in Keys /\ view.next \in Keys /\ view.prev \in Keys
      /\ held \in Seal /\ NoSeal \in Seal
  BY HeldCovered, TagsTyped DEF TypeOK, Cursors
<1>6. CASE Refresh(r) \/ Reload(r) \/ ClickNext(r) \/ ClickPrev(r)
  BY <1>4, <1>5, <1>6 DEF Refresh, Reload, ClickNext, ClickPrev
<1>7. CASE LoadUser(r)
  <2>1. PICK q : q = [o EXCEPT !.pc = "loaded", !.loaded = version]
    OBVIOUS
  <2>2. q \in Request /\ q.pc \notin Fetched
    BY <1>1, <2>1, HeldCovered DEF Request, TypeOK, Fetched
  <2> QED  BY <1>1, <1>3, <1>7, <2>1, <2>2 DEF LoadUser
<1>8. CASE Becomes(r, Unmodified(o)) /\ UNCHANGED world
  <2>1. PICK q : q = Unmodified(o)
    OBVIOUS
  <2>2. q \in Request /\ q.pc \notin Fetched
    BY <1>1, <2>1, HeldCovered
       DEF Unmodified, NoRequest, Request, Fetched
  <2> QED  BY <1>3, <1>8, <2>1, <2>2
<1>9. CASE Precheck(r)
  <2>1. PICK q : q = [o EXCEPT !.pc = "checked"]
    OBVIOUS
  <2>2. q \in Request /\ q.pc \notin Fetched
    BY <1>1, <2>1 DEF Request, Fetched
  <2> QED  BY <1>1, <1>3, <1>8, <1>9, <2>1, <2>2 DEF Precheck
<1>10. ASSUME NEW pc \in Fetched, NEW seal \in Seal, o.pc \in Fetched,
              Becomes(r, [o EXCEPT !.pc = pc, !.seal = seal]),
              UNCHANGED world
       PROVE  Losses'
  <2>1. PICK q : q = [o EXCEPT !.pc = pc, !.seal = seal]
    OBVIOUS
  <2>2. /\ q \in Request /\ q.cursor = o.cursor /\ q.stable = o.stable
        /\ q.rows = o.rows /\ q.current = o.current /\ q.back = o.back
        /\ q.at = o.at /\ q.edge = o.edge
    BY <1>1, <2>1 DEF Request, Fetched
  <2>3. LeavingOf(q)
    BY <1>1, <1>10, <2>2 DEF LeavingOf, LeavesOf
  <2> QED  BY <1>10, <2>1, <2>2, <2>3, LossesAdvance
<1>11. CASE Answer(r)
  <2>1. PICK seal : seal = [o.seal EXCEPT !.tag = Tag(o.loaded)]
    OBVIOUS
  <2>2. seal \in Seal
    <3>1. o.loaded \in 0..MaxChanges /\ o.seal \in Seal
      BY <1>1 DEF Request
    <3>2. Tag(o.loaded) \in Tags
      BY <3>1, HeldCovered, TagsTyped
    <3> QED  BY <2>1, <3>1, <3>2 DEF Seal
  <2>3. \/ Becomes(r, Unmodified(o))
        \/ Becomes(r, [o EXCEPT !.pc = "answered", !.seal = seal])
    BY <1>1, <1>11, <2>1 DEF Answer, SentVersion
  <2>4. UNCHANGED world /\ o.pc \in Fetched /\ "answered" \in Fetched
    BY <1>1, <1>11 DEF Answer, Fetched
  <2> QED  BY <1>8, <1>10, <2>2, <2>3, <2>4
<1>12. CASE TakeTag(r)
  <2>1. [o EXCEPT !.pc = "tagged"] = [o EXCEPT !.pc = "tagged",
                                               !.seal = o.seal]
    BY <1>1 DEF Request
  <2>2. /\ UNCHANGED world /\ o.pc \in Fetched /\ "tagged" \in Fetched
        /\ o.seal \in Seal
    BY <1>1, <1>12 DEF TakeTag, Fetched, Request
  <2> QED  BY <1>1, <1>10, <1>12, <2>1, <2>2 DEF TakeTag
<1>13. CASE Keep(r)
  <2>1. NoRequest \in Request /\ NoRequest.pc \notin Fetched
    BY HeldCovered DEF NoRequest, Fetched
  <2> QED  BY <1>3, <1>13, <2>1 DEF Keep
<1> QED  BY <1>6, <1>7, <1>9, <1>11, <1>12, <1>13

\* A page that arrives takes the trail as far as it reaches.
LEMMA TrailMisses ==
    ASSUME ListsInv, Losses, NEW r \in Requests, req[r].pc \in Fetched
    PROVE  LET q == req[r]
               t == Extended(q) IN
           t.on => \A c \in t.stable \ t.shown :
                     Excused(c, t.edges) \/ ToCome(c, q.at.next)
<1>1. PICK q : q = req[r] /\ q \in Request /\ PagingOf(q) /\ LeavingOf(q)
  BY DEF ListsInv, TypeOK, PagesAdvance, Losses
<1>2. PICK t : t = Extended(q)
  OBVIOUS
<1>3. /\ TypeOK /\ trail \in Trail /\ trail.stable \subseteq Listed
      /\ q.stable \subseteq Listed
      /\ q.pc \in Fetched /\ q.pc # "idle" /\ q.at.next \in Keys
  BY <1>1 DEF ListsInv, TypeOK, PagesAdvance, PagingOf, Request, Cursors,
              Fetched
<1>4. ASSUME NEW c \in Listed, NEW edges, q.edge \in edges, LeavesOf(q, c)
      PROVE  Excused(c, edges) \/ ToCome(c, q.at.next)
  BY <1>3, <1>4, LeftComes DEF LeavesOf
<1>5. CASE q.cursor = Null
  <2>1. t = [on |-> TRUE, shown |-> q.rows, edges |-> {q.edge},
             stable |-> q.stable, twice |-> FALSE]
    BY <1>2, <1>5 DEF Extended
  <2>2. \A c \in q.stable \ q.rows :
          Excused(c, {q.edge}) \/ ToCome(c, q.at.next)
    BY <1>1, <1>3, <1>4, <1>5 DEF LeavingOf
  <2> QED  BY <1>1, <1>2, <2>1, <2>2
<1>6. CASE q.cursor # Null /\ q.current /\ ~q.back /\ trail.on
  <2>1. t = [trail EXCEPT !.shown = @ \cup q.rows,
                          !.edges = @ \cup {q.edge},
                          !.twice = \/ @
                                    \/ q.rows \cap trail.shown
                                         \cap trail.stable # {}]
    BY <1>2, <1>6 DEF Extended
  <2>2. /\ t.shown = trail.shown \cup q.rows /\ t.stable = trail.stable
        /\ t.edges = trail.edges \cup {q.edge}
    BY <1>3, <2>1 DEF Trail
  <2>3. ASSUME NEW c \in trail.stable, c \notin trail.shown, c \notin q.rows
        PROVE  Excused(c, t.edges) \/ ToCome(c, q.at.next)
    <3>1. CASE Excused(c, trail.edges)
      BY <2>2, <3>1 DEF Excused
    <3>2. CASE ToCome(c, view.next)
      <4>1. q.cursor = view.next
        BY <1>1, <1>3, <1>6 DEF PagingOf
      <4>2. LeavesOf(q, c)
        BY <1>1, <1>3, <1>6, <2>3, <3>2, <4>1 DEF LeavingOf, ToCome
      <4> QED  BY <1>3, <1>4, <2>2, <2>3, <4>2
    <3> QED  BY <1>6, <2>3, <3>1, <3>2 DEF Losses, Missed
  <2> QED  BY <1>1, <1>2, <2>2, <2>3
<1>7. CASE ~(q.cursor = Null \/ (q.current /\ ~q.back /\ trail.on))
  <2>1. ~t.on
    BY <1>2, <1>7 DEF Extended, NoTrail
  <2> QED  BY <1>1, <1>2, <2>1
<1> QED  BY <1>5, <1>6, <1>7

\* An answer that arrives loses nothing; the other requests are stale by it.
LEMMA ShowLoses ==
    ASSUME ListsInv, Losses, NEW r \in Requests, Show(r)
    PROVE  Losses'
<1>1. /\ trail' = Extended(req[r]) /\ view' = req[r].at
      /\ UNCHANGED <<key, dir>> /\ req[r].pc \in Fetched
  BY DEF Show, Fetched
<1>2. PICK t, n : t = Extended(req[r]) /\ n = req[r].at.next
  OBVIOUS
<1>3. Missed'
  <2>1. trail' = t /\ view'.next = n
    BY <1>1, <1>2
  <2>2. \A c : (Excused(c, t.edges) \/ ToCome(c, n))
                => (Excused(c, t.edges) \/ ToCome(c, n))'
    BY <1>1 DEF Excused, ToCome, Beyond, Order
  <2>3. t.on => \A c \in t.stable \ t.shown :
                  Excused(c, t.edges) \/ ToCome(c, n)
    BY <1>1, <1>2, TrailMisses
  <2>4. t.on => \A c \in t.stable \ t.shown :
                  (Excused(c, t.edges) \/ ToCome(c, n))'
    BY <2>2, <2>3
  <2> QED  BY <2>1, <2>4 DEF Missed
<1>4. ASSUME NEW s \in Requests PROVE LeavingOf(req[s])'
  <2>1. CASE s = r
    BY <2>1 DEF Show, LeavingOf, NoRequest, Fetched
  <2>2. CASE s # r
    <3>1. PICK o : o = req[s] /\ o \in Request /\ LeavingOf(o)
      BY DEF ListsInv, TypeOK, Losses
    <3>2. PICK q : q = [o EXCEPT !.current = FALSE] /\ q = req'[s]
      BY <2>2, <3>1 DEF Show
    <3>3. /\ ~q.current /\ q.pc = o.pc /\ q.cursor = o.cursor
          /\ q.back = o.back /\ q.rows = o.rows /\ q.at = o.at
          /\ q.stable = o.stable /\ q.edge = o.edge
      BY <3>1, <3>2 DEF Request
    <3>4. LeavingOf(q)'
      BY <1>1, <3>1, <3>3 DEF LeavingOf, LeavesOf
    <3> QED  BY <3>2, <3>4
  <2> QED  BY <2>1, <2>2
<1> QED  BY <1>3, <1>4 DEF Losses

\* A row that changes is not among those that the client must have seen.
LEMMA ChangeLoses ==
    ASSUME ListsInv, Losses, NEW c \in Checks, NEW k \in Keys \cup {Absent},
           Change(c, k)
    PROVE  Losses'
<1>1. /\ \A d \in Checks \ {c} : key'[d] = key[d]
      /\ UNCHANGED <<dir, view>>
      /\ trail'.on = trail.on /\ trail'.shown = trail.shown
      /\ trail'.edges = trail.edges /\ trail'.stable = trail.stable \ {c}
      /\ trail.stable \subseteq Checks
  BY DEF Change, ListsInv, TypeOK, Trail
<1>2. PICK edges, n : edges = trail.edges /\ n = view.next
  OBVIOUS
<1>3. Missed'
  <2>1. trail'.edges = edges /\ view'.next = n
    BY <1>1, <1>2
  <2>2. \A d \in trail.stable \ {c} :
          (Excused(d, edges) \/ ToCome(d, n))
            => (Excused(d, edges) \/ ToCome(d, n))'
    BY <1>1 DEF Excused, ToCome, Beyond, Order
  <2>3. trail.on => \A d \in trail.stable \ trail.shown :
                      Excused(d, edges) \/ ToCome(d, n)
    BY <1>2 DEF Losses, Missed
  <2>4. trail'.on => \A d \in trail'.stable \ trail'.shown :
                       (Excused(d, edges) \/ ToCome(d, n))'
    BY <1>1, <2>2, <2>3
  <2> QED  BY <2>1, <2>4 DEF Missed
<1>4. ASSUME NEW s \in Requests PROVE LeavingOf(req[s])'
  <2>1. PICK o : o = req[s] /\ o \in Request /\ LeavingOf(o)
    BY DEF ListsInv, TypeOK, Losses
  <2>2. PICK q : q = [o EXCEPT !.stable = @ \ {c}] /\ q = req'[s]
    BY <2>1 DEF Change
  <2>3. /\ q.current = o.current /\ q.pc = o.pc /\ q.cursor = o.cursor
        /\ q.back = o.back /\ q.rows = o.rows /\ q.at = o.at
        /\ q.stable = o.stable \ {c} /\ q.edge = o.edge
        /\ o.stable \subseteq Checks
    BY <2>1, <2>2 DEF Request
  <2>4. LeavingOf(q)'
    BY <1>1, <2>1, <2>3 DEF LeavingOf, LeavesOf, Beyond, Order
  <2> QED  BY <2>2, <2>4
<1> QED  BY <1>3, <1>4 DEF Losses

\* No step loses a row.
LEMMA LossesStep == ASSUME ListsInv, Losses, [Next]_vars PROVE Losses'
<1>1. CASE UNCHANGED <<key, dir, req, view, trail>>
  BY <1>1 DEF Losses, Missed, Excused, ToCome, LeavingOf, LeavesOf, Beyond,
              Order
<1>2. CASE \E r \in Requests :
             \/ Refresh(r) \/ Reload(r) \/ ClickNext(r) \/ ClickPrev(r)
             \/ LoadUser(r) \/ Precheck(r) \/ Answer(r) \/ TakeTag(r)
             \/ Keep(r)
  BY <1>2, OthersLose
<1>3. CASE \E r \in Requests : Read(r) \/ Show(r)
  BY <1>3, ReadLoses, ShowLoses
<1>4. CASE \E c \in Checks, k \in Keys \cup {Absent} : Change(c, k)
  BY <1>4, ChangeLoses
<1> QED  BY <1>1, <1>2, <1>3, <1>4 DEF Next, Requests, NextInterval, vars

\* A client that went forward from the first page to the last was shown every
\* row that did not change meanwhile, for lists and pages of any size, but for
\* ties with the last row of a page, rows without a key and, in descending
\* order, what follows a page that ended in a row without a key.
THEOREM ForwardIsComplete == Spec => []ForwardLosesOnlyTies
<1>1. Init => Losses
  BY DEF Init, Losses, Missed, NoTrail, LeavingOf, NoRequest, Fetched
<1>2. ListsInv /\ Losses /\ [Next]_vars => Losses'
  BY LossesStep
<1>3. Losses => ForwardLosesOnlyTies
  BY DEF Losses, Missed, Excused, ToCome, ForwardLosesOnlyTies
<1> QED  BY <1>1, <1>2, <1>3, ListsInvariant, PTL DEF Spec

=============================================================================
