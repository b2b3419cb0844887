------------------------------ MODULE Timeline ------------------------------
(* The merged timeline of GET /v1/items: ListItems over the requested feeds, *)
(* newest first and over-fetched, the loop of dedupe, and the cut to the     *)
(* limit.  The code's sequences are sets here: every order it uses is one of *)
(* (published_at, id), because its two sorts are stable.                     *)
EXTENDS Integers, FiniteSets

CONSTANTS
  Id,        \* items.id
  Time,      \* published_at, in seconds
  Hash,      \* url_hash of items that have a URL
  Title,     \* what normalizeTitle makes of a title
  NoHash,    \* the empty url_hash
  Window,    \* 48 hours
  OverFetch, \* 3: rows listed per item asked for
  MaxLimit   \* Options.MaxLimit

Item == [id : Id, at : Time, hash : Hash \cup {NoHash}, title : Title]

ASSUME TimelineAssumption ==
  /\ Id \subseteq Nat /\ IsFiniteSet(Id)
  /\ Time \subseteq Nat
  /\ NoHash \notin Hash
  /\ Window \in Nat
  /\ {OverFetch, MaxLimit} \subseteq Nat \ {0}

VARIABLES
  stored,    \* the items of the requested feeds, published since `since`
  limit,     \* the request's limit, clamped
  listed,    \* what ListItems returned
  todo,      \* what dedupe's loop has not visited
  seenHash, titles, kept,  \* its local state
  page,      \* the answer
  pc

vars == <<stored, limit, listed, todo, seenHash, titles, kept, page, pc>>

TypeOK ==
  /\ stored \subseteq Item
  /\ limit \in 1..MaxLimit
  /\ listed \subseteq stored /\ todo \subseteq listed /\ kept \subseteq listed
  /\ seenHash \subseteq Hash
  /\ titles \subseteq [title : Title, at : Time]
  /\ page \subseteq kept
  /\ pc \in {"list", "visit", "done"}

\* The table keys items by id.
Init ==
  /\ \E of \in [Id -> [at : Time, hash : Hash \cup {NoHash}, title : Title]] :
       stored = {[id |-> i, at |-> of[i].at, hash |-> of[i].hash,
                  title |-> of[i].title] : i \in Id}
  /\ limit \in 1..MaxLimit
  /\ listed = {} /\ todo = {} /\ kept = {} /\ page = {}
  /\ seenHash = {} /\ titles = {}
  /\ pc = "list"

-----------------------------------------------------------------------------
\* ORDER BY published_at DESC, id DESC
Newer(x, y) == x.at > y.at \/ (x.at = y.at /\ x.id > y.id)

\* ... LIMIT n
First(S, n) == {x \in S : Cardinality({y \in S : Newer(y, x)}) < n}

\* dedupe's loop: ascending in time, and, the sort being stable, newest id first
\* within a second.
VisitedBefore(x, y) == x.at < y.at \/ (x.at = y.at /\ x.id > y.id)

Current(x) == x \in todo /\ \A y \in todo \ {x} : VisitedBefore(x, y)

KnownHash(x) == x.hash # NoHash /\ x.hash \in seenHash

\* Mutant: the 48 hours are compared the wrong way round.
KnownTitle_Outside(x) ==
  \E t \in titles : t.title = x.title /\ x.at - t.at >= Window

KnownTitle(x) == \E t \in titles : t.title = x.title /\ x.at - t.at <= Window

SeeHash(x) == seenHash' = seenHash \cup ({x.hash} \ {NoHash})

-----------------------------------------------------------------------------
\* Mutant: no more rows are listed than the page may hold.
ListItems_NoOverFetch ==
  /\ pc = "list"
  /\ listed' = First(stored, limit)
  /\ todo' = listed'
  /\ pc' = "visit"
  /\ UNCHANGED <<stored, limit, seenHash, titles, kept, page>>

ListItems ==
  /\ pc = "list"
  /\ listed' = First(stored, limit * OverFetch)
  /\ todo' = listed'
  /\ pc' = "visit"
  /\ UNCHANGED <<stored, limit, seenHash, titles, kept, page>>

DropByHash(x) ==
  /\ pc = "visit" /\ Current(x)
  /\ KnownHash(x)
  /\ todo' = todo \ {x}
  /\ UNCHANGED <<stored, limit, listed, seenHash, titles, kept, page, pc>>

\* Mutant: a dropped copy's title counts as seen.
DropByTitle_Remembers(x) ==
  /\ pc = "visit" /\ Current(x)
  /\ ~KnownHash(x) /\ KnownTitle(x)
  /\ todo' = todo \ {x}
  /\ SeeHash(x)
  /\ titles' = titles \cup {[title |-> x.title, at |-> x.at]}
  /\ UNCHANGED <<stored, limit, listed, kept, page, pc>>

DropByTitle(x) ==
  /\ pc = "visit" /\ Current(x)
  /\ ~KnownHash(x) /\ KnownTitle(x)
  /\ todo' = todo \ {x}
  /\ SeeHash(x)
  /\ UNCHANGED <<stored, limit, listed, titles, kept, page, pc>>

\* Mutant: the hash is remembered only for items dropped by title.
Keep_NoHash(x) ==
  /\ pc = "visit" /\ Current(x)
  /\ ~KnownHash(x) /\ ~KnownTitle(x)
  /\ todo' = todo \ {x}
  /\ titles' = titles \cup {[title |-> x.title, at |-> x.at]}
  /\ kept' = kept \cup {x}
  /\ UNCHANGED <<stored, limit, listed, seenHash, page, pc>>

Keep(x) ==
  /\ pc = "visit" /\ Current(x)
  /\ ~KnownHash(x) /\ ~KnownTitle(x)
  /\ todo' = todo \ {x}
  /\ SeeHash(x)
  /\ titles' = titles \cup {[title |-> x.title, at |-> x.at]}
  /\ kept' = kept \cup {x}
  /\ UNCHANGED <<stored, limit, listed, page, pc>>

\* Mutant: the page is cut from what was listed.
Answer_Listed ==
  /\ pc = "visit" /\ todo = {}
  /\ page' = First(listed, limit)
  /\ pc' = "done"
  /\ UNCHANGED <<stored, limit, listed, todo, seenHash, titles, kept>>

Answer ==
  /\ pc = "visit" /\ todo = {}
  /\ page' = First(kept, limit)
  /\ pc' = "done"
  /\ UNCHANGED <<stored, limit, listed, todo, seenHash, titles, kept>>

Next ==
  \/ ListItems
  \/ \E x \in todo : DropByHash(x) \/ DropByTitle(x) \/ Keep(x)
  \/ Answer

Spec == Init /\ [][Next]_vars

-----------------------------------------------------------------------------
(* Properties.                                                               *)

SameHash(x, y) == x.hash # NoHash /\ x.hash = y.hash
SameTitle(x, y) ==
  x.title = y.title /\ x.at - y.at <= Window /\ y.at - x.at <= Window

\* server.go:343-345: no two of the kept items are the same article, by hash or
\* by title within 48 hours either way.
NoTwoCopies ==
  \A x, y \in kept : SameHash(x, y) \/ SameTitle(x, y) => x = y

\* Nothing is dropped without a stand-in: an item that was listed and is not
\* kept shares its title with a kept one of the 48 hours before it, or its
\* hash with an item that is kept or shares its title with a kept one.
Represented ==
  \A x \in listed \ (todo \cup kept) :
    \E y \in kept :
      \/ SameHash(x, y) \/ SameTitle(x, y)
      \/ \E z \in listed \ todo : SameHash(x, z) /\ SameTitle(z, y)

\* Which items are kept depends only on what was listed: those with no earlier
\* copy by hash and no earlier kept copy by title.
KeptAsSpecified ==
  \A x \in listed \ todo :
    x \in kept <=>
      /\ \A y \in listed : VisitedBefore(y, x) => ~SameHash(x, y)
      /\ \A y \in kept : VisitedBefore(y, x) => ~SameTitle(x, y)

\* server.go:228, "Over-fetch so dedupe across feeds still fills the limit", as
\* far as it holds: a page that is not full has a stand-in for every item of the
\* table, unless copies took up more than the rows fetched in excess of it.
ShortPageComplete ==
  pc = "done" /\ Cardinality(page) < limit =>
    \/ \A x \in stored : \E y \in page :
         \/ x = y \/ SameHash(x, y) \/ SameTitle(x, y)
         \/ \E z \in stored : SameHash(x, z) /\ SameTitle(z, y)
    \/ Cardinality(listed \ page) > (OverFetch - 1) * limit
=============================================================================
