------------------------------- MODULE Intake -------------------------------
(* How one feed's document becomes rows: keys and times as normalize.go      *)
(* derives them, UpsertItems, the count of quiet polls, retention.  The      *)
(* publisher may edit, drop and bring back its articles; a good poll may     *)
(* fail to be recorded or to prune.                                          *)
EXTENDS Integers, FiniteSets, Functions

CONSTANTS
  Article,    \* what a publisher means by one article
  Entry,      \* how a document may present one: guid, url, title and date
  KeepItems,  \* Config.KeepItems
  KeepFor,    \* Config.KeepFor
  Ahead,      \* clampDate's day
  None,
  MaxNow,     \* BOUND: the last moment
  MaxEdits    \* BOUND: how often the publisher changes its document

ASSUME IntakeAssumption ==
  /\ \A e \in Entry : DOMAIN e = {"guid", "url", "title", "date"}
  /\ \A e \in Entry : e.date \in Nat \cup {None}
  /\ KeepItems \in Nat \ {0} /\ KeepFor \in Nat /\ Ahead \in Nat
  /\ MaxNow \in Nat /\ MaxEdits \in Nat

VARIABLES
  now,
  listed,   \* the document: each article's entry, or None
  rows,     \* table items
  quiet,    \* quiet_polls
  polled,   \* this moment's poll was made: MinInterval is minutes
  edits,
  known,    \* OBSERVED: the document of the last good poll
  ids       \* OBSERVED: what each article was polled as

vars == <<now, listed, rows, quiet, polled, edits, known, ids>>

Init ==
  /\ now = 0
  /\ listed = [a \in Article |-> None]
  /\ rows = {}
  /\ quiet = 0
  /\ polled = FALSE
  /\ edits = 0
  /\ known = None
  /\ ids = [a \in Article |-> {}]

-----------------------------------------------------------------------------
(* normalize.go: finish.                                                     *)

Keepable(e) == e # None /\ e.title # None

\* No date, or one too far in the future, is the time of the poll.
Published(e, t) ==
  IF e.date = None \/ e.date > t + Ahead THEN t ELSE e.date

\* Mutant: the URL before the guid.
Key_UrlFirst(a, e, t) ==
  CASE e.url # None -> <<"url", a, e.url>>
    [] e.url = None /\ e.guid # None -> <<"guid", a, e.guid>>
    [] OTHER -> <<"title", a, e.title, Published(e, t)>>

\* Two articles of a feed have different guids, URLs and titles.
Key(a, e, t) ==
  CASE e.guid # None -> <<"guid", a, e.guid>>
    [] e.guid = None /\ e.url # None -> <<"url", a, e.url>>
    [] OTHER -> <<"title", a, e.title, Published(e, t)>>

\* A row's id, one more than the largest in use, grows with the poll that saw
\* it first and with its place in that poll's document.
Parsed(a, place, t) ==
  [article |-> a, key |-> Key(a, listed[a], t), at |-> Published(listed[a], t),
   seen |-> t, place |-> place]

\* The documents' order is the publisher's.
Documents(t) ==
  LET S == {a \in Article : Keepable(listed[a])}
  IN  {{Parsed(a, place[a], t) : a \in S} : place \in Bijection(S, 1..Cardinality(S))}

-----------------------------------------------------------------------------
Stored(key) == \E r \in rows : r.key = key

\* Mutant: a plain INSERT.
New_All(doc) == doc

\* ON CONFLICT(feed_id, item_key) DO NOTHING, and RowsAffected.
New(doc) == {r \in doc : ~Stored(r.key)}

\* r has the larger id.
Later(r, s) == r.seen > s.seen \/ (r.seen = s.seen /\ r.place > s.place)

\* r comes before s in ORDER BY published_at DESC, id DESC.
Before(r, s) == r.at > s.at \/ (r.at = s.at /\ Later(r, s))

Pruned(rs, t) ==
  {r \in rs : r.at >= t - KeepFor /\ Cardinality({s \in rs : Before(s, r)}) < KeepItems}

Begin ==
  /\ ~polled
  /\ polled' = TRUE
  /\ UNCHANGED <<now, listed, edits>>

Observe(t) ==
  ids' = [a \in Article |->
    IF Keepable(listed[a])
    THEN ids[a] \cup {[guid |-> listed[a].guid, url |-> listed[a].url,
                       title |-> listed[a].title, at |-> Published(listed[a], t)]}
    ELSE ids[a]]

\* Mutant: every item the document lists counts.
Quiet_Listed(doc) == IF doc # {} THEN 0 ELSE quiet + 1

Quiet(doc) == IF New(doc) # {} THEN 0 ELSE quiet + 1

\* A 200; the prune's failure is only logged.
Document ==
  /\ Begin
  /\ \E doc \in Documents(now), prunes \in BOOLEAN :
       /\ rows' = IF prunes THEN Pruned(rows \cup New(doc), now) ELSE rows \cup New(doc)
       /\ quiet' = Quiet(doc)
  /\ known' = listed
  /\ Observe(now)

\* A 200 of which RecordFetchOK fails after UpsertItems.
Unrecorded ==
  /\ Begin
  /\ \E doc \in Documents(now) : rows' = rows \cup New(doc)
  /\ UNCHANGED <<quiet, known>>
  /\ Observe(now)

\* A 304: nothing is parsed or pruned.
NotModified ==
  /\ Begin
  /\ known = listed
  /\ quiet' = quiet + 1
  /\ UNCHANGED <<rows, known, ids>>

Tick ==
  /\ now < MaxNow
  /\ now' = now + 1
  /\ polled' = FALSE
  /\ UNCHANGED <<listed, rows, quiet, edits, known, ids>>

\* The publisher adds, edits or drops an article.
Edit ==
  /\ edits < MaxEdits
  /\ edits' = edits + 1
  /\ \E a \in Article, e \in Entry \cup {None} :
       /\ e # listed[a]
       /\ listed' = [listed EXCEPT ![a] = e]
  /\ UNCHANGED <<now, rows, quiet, polled, known, ids>>

Next == Document \/ Unrecorded \/ NotModified \/ Tick \/ Edit

Spec == Init /\ [][Next]_vars

-----------------------------------------------------------------------------
(* Properties.                                                               *)

\* Rows have the columns' types and item_key is UNIQUE.
TypeOK ==
  /\ now \in 0..MaxNow
  /\ \A r \in rows : r.at \in Nat /\ r.seen \in 0..now
  /\ \A r, s \in rows : r.key = s.key => r = s
  /\ quiet \in Nat

\* Something an article keeps through all its edits tells it from others: its
\* guid; without one, its URL; without either, its title and a time that is
\* neither estimated nor clamped.
Recognizable(a) ==
  \/ \E g \in {i.guid : i \in ids[a]} \ {None} : \A i \in ids[a] : i.guid = g
  \/ \E u \in {i.url : i \in ids[a]} \ {None} : \A i \in ids[a] : i.guid = None /\ i.url = u
  \/ \E i \in ids[a] : ids[a] = {i}

\* An article is one headline, however often it is polled, edited, dropped
\* and brought back, and though polls that stored it were not recorded.
StoredOnce ==
  \A a \in Article : Recognizable(a) =>
    \A r, s \in rows : r.article = a /\ s.article = a => r = s

\* README.md:43-45, "no new items double it, ...; new items reset it": where
\* articles are recognizable, a document counts as quiet if and only if every
\* article of it is stored already, edited or not.  One that retention dropped
\* and the publisher still lists is inserted again, and counts as new.
QuietUnlessNew ==
  [][Document /\ (\A a \in Article : Keepable(listed[a]) => Recognizable(a)')
     => quiet' = IF \A a \in Article : Keepable(listed[a]) => \E r \in rows : r.article = a
                 THEN quiet + 1 ELSE 0]_vars
=============================================================================
