---------------------------- MODULE IntakeProofs ----------------------------
(* An article is one headline: each of its rows has the key of something it  *)
(* was polled as, and while an article is recognizable these keys are one.   *)
EXTENDS Intake, TLAPS

\* The key of what an article was polled as.
KeyOf(a, i) ==
  CASE i.guid # None -> <<"guid", a, i.guid>>
    [] i.guid = None /\ i.url # None -> <<"url", a, i.url>>
    [] OTHER -> <<"title", a, i.title, i.at>>

PolledAs(a, t) ==
  [guid |-> listed[a].guid, url |-> listed[a].url, title |-> listed[a].title,
   at |-> Published(listed[a], t)]

LEMMA KeyIs ==
  ASSUME NEW a, NEW t
  PROVE  Key(a, listed[a], t) = KeyOf(a, PolledAs(a, t))
BY DEF Key, KeyOf, PolledAs

LEMMA OneKey ==
  ASSUME NEW a, Recognizable(a), NEW i \in ids[a], NEW j \in ids[a]
  PROVE  KeyOf(a, i) = KeyOf(a, j)
BY DEF Recognizable, KeyOf

LEMMA KeyArticle ==
  ASSUME NEW a, NEW i, NEW b, NEW j, KeyOf(a, i) = KeyOf(b, j)
  PROVE  a = b
<1>1. KeyOf(a, i)[2] = a /\ KeyOf(b, j)[2] = b
  BY DEF KeyOf
<1> QED
  BY <1>1

-----------------------------------------------------------------------------
RowInv ==
  \A r \in rows :
    /\ r.article \in Article
    /\ \E i \in ids[r.article] : r.key = KeyOf(r.article, i)

IInv ==
  /\ TypeOK
  /\ listed \in [Article -> Entry \cup {None}]
  /\ RowInv

LEMMA ParsedRow ==
  ASSUME IInv, NEW a \in Article, Keepable(listed[a]), NEW place
  PROVE  /\ Parsed(a, place, now).article = a
         /\ Parsed(a, place, now).at \in Nat
         /\ Parsed(a, place, now).seen = now
         /\ Parsed(a, place, now).key = KeyOf(a, PolledAs(a, now))
<1>1. now \in Nat
  BY IntakeAssumption DEF IInv, TypeOK
<1>2. listed[a] \in Entry /\ listed[a].date \in Nat \cup {None}
  BY IntakeAssumption DEF IInv, Keepable
<1>3. Published(listed[a], now) \in Nat
  BY <1>1, <1>2 DEF Published
<1> QED
  BY <1>3, KeyIs DEF Parsed

LEMMA DocumentRows ==
  ASSUME IInv, NEW doc \in Documents(now)
  PROVE  /\ \A r \in doc :
              /\ r.article \in Article /\ Keepable(listed[r.article])
              /\ r.at \in Nat /\ r.seen = now
              /\ r.key = KeyOf(r.article, PolledAs(r.article, now))
         /\ \A r, s \in doc : r.article = s.article => r = s
         /\ \A a \in Article : Keepable(listed[a]) => \E r \in doc : r.article = a
<1> DEFINE S == {a \in Article : Keepable(listed[a])}
<1>1. PICK place : doc = {Parsed(a, place[a], now) : a \in S}
  BY DEF Documents
<1>2. \A a \in S : /\ Parsed(a, place[a], now).article = a
                   /\ Parsed(a, place[a], now).at \in Nat
                   /\ Parsed(a, place[a], now).seen = now
                   /\ Parsed(a, place[a], now).key = KeyOf(a, PolledAs(a, now))
  BY ParsedRow
<1> QED
  BY <1>1, <1>2

\* What an article was polled as is not forgotten.
LEMMA Seen ==
  ASSUME Observe(now)
  PROVE  /\ \A a \in Article : ids[a] \subseteq ids'[a]
         /\ \A a \in Article : Keepable(listed[a]) => PolledAs(a, now) \in ids'[a]
BY DEF Observe, PolledAs

\* Rows after a document, before and after pruning.
LEMMA RowsAfter ==
  ASSUME IInv, NEW doc \in Documents(now), Observe(now), now' = now,
         rows' \subseteq rows \cup New(doc)
  PROVE  /\ \A r \in rows' : r.at \in Nat /\ r.seen \in 0..now'
         /\ \A r, s \in rows' : r.key = s.key => r = s
         /\ RowInv'
<1>1. now \in Nat
  BY IntakeAssumption DEF IInv, TypeOK
<1>2. \A r, s \in New(doc) : r.key = s.key => r = s
  BY DocumentRows, KeyArticle DEF New
<1>3. \A r \in New(doc), s \in rows : r.key # s.key
  BY DEF New, Stored
<1>4. \A r \in New(doc) :
        /\ r.at \in Nat /\ r.seen \in 0..now'
        /\ r.article \in Article
        /\ \E i \in ids'[r.article] : r.key = KeyOf(r.article, i)
  BY <1>1, DocumentRows, Seen DEF New
<1>5. \A r \in rows :
        /\ r.article \in Article
        /\ \E i \in ids'[r.article] : r.key = KeyOf(r.article, i)
  BY Seen DEF IInv, RowInv
<1>6. RowInv'
  BY <1>4, <1>5 DEF RowInv
<1> QED
  BY <1>2, <1>3, <1>4, <1>6 DEF IInv, TypeOK

LEMMA InitInv == Init => IInv
BY IntakeAssumption DEF Init, IInv, TypeOK, RowInv

LEMMA NextInv ==
  ASSUME IInv, [Next]_vars
  PROVE  IInv'
<1>1. CASE Document
  <2>1. PICK doc \in Documents(now) : rows' \subseteq rows \cup New(doc) /\ quiet' = Quiet(doc)
    BY <1>1 DEF Document, Pruned
  <2>2. Observe(now) /\ UNCHANGED <<now, listed>>
    BY <1>1 DEF Document, Begin
  <2>3. quiet' \in Nat
    BY <2>1 DEF Quiet, IInv, TypeOK
  <2> QED
    BY <2>1, <2>2, <2>3, RowsAfter DEF IInv, TypeOK
<1>2. CASE Unrecorded
  <2>1. PICK doc \in Documents(now) : rows' \subseteq rows \cup New(doc)
    BY <1>2 DEF Unrecorded
  <2>2. Observe(now) /\ UNCHANGED <<now, listed, quiet>>
    BY <1>2 DEF Unrecorded, Begin
  <2> QED
    BY <2>1, <2>2, RowsAfter DEF IInv, TypeOK
<1>3. CASE NotModified
  BY <1>3 DEF NotModified, Begin, IInv, TypeOK, RowInv
<1>4. CASE Tick
  BY <1>4, IntakeAssumption DEF Tick, IInv, TypeOK, RowInv
<1>5. CASE Edit
  BY <1>5 DEF Edit, IInv, TypeOK, RowInv
<1>6. CASE UNCHANGED vars
  BY <1>6 DEF vars, IInv, TypeOK, RowInv
<1> QED
  BY <1>1, <1>2, <1>3, <1>4, <1>5, <1>6 DEF Next

LEMMA AlwaysInv == Spec => []IInv
BY InitInv, NextInv, PTL DEF Spec

-----------------------------------------------------------------------------
\* schema.go:44, UNIQUE(feed_id, item_key): whatever publishers list and
\* whichever statements fail, no statement runs into the constraint.
THEOREM TypeCorrect == Spec => []TypeOK
BY AlwaysInv, PTL DEF IInv

\* item_key does what it is for: with ON CONFLICT DO NOTHING, an article that
\* can be recognized through its edits is at most one headline.
THEOREM OneHeadline == Spec => []StoredOnce
<1>1. IInv => StoredOnce
  BY OneKey DEF IInv, RowInv, StoredOnce, TypeOK
<1> QED
  BY <1>1, AlwaysInv, PTL

\* RowsAffected tells quiet polls from others: where articles are recognizable
\* it is 0 exactly when everything the document lists is stored.
THEOREM QuietIsNothingNew == Spec => QuietUnlessNew
<1> DEFINE Stored1(a) == \E r \in rows : r.article = a
           AllStored  == \A a \in Article : Keepable(listed[a]) => Stored1(a)
           A == Document /\ (\A a \in Article : Keepable(listed[a]) => Recognizable(a)')
                => quiet' = IF AllStored THEN quiet + 1 ELSE 0
<1>1. ASSUME IInv, Document, \A a \in Article : Keepable(listed[a]) => Recognizable(a)'
      PROVE  quiet' = IF AllStored THEN quiet + 1 ELSE 0
  <2>1. PICK doc \in Documents(now) : quiet' = Quiet(doc)
    BY <1>1 DEF Document
  <2>2. Observe(now)
    BY <1>1 DEF Document
  <2>3. ASSUME NEW r \in doc, Stored1(r.article) PROVE Stored(r.key)
    <3> DEFINE a == r.article
    <3>1. PICK s \in rows : s.article = a
      BY <2>3
    <3>2. a \in Article /\ Keepable(listed[a]) /\ r.key = KeyOf(a, PolledAs(a, now))
      BY <1>1, <2>3, DocumentRows
    <3>3. PICK i \in ids[a] : s.key = KeyOf(a, i)
      BY <1>1, <3>1 DEF IInv, RowInv
    <3>4. i \in ids'[a] /\ PolledAs(a, now) \in ids'[a]
      BY <2>2, <3>2, <3>3, Seen
    <3>5. KeyOf(a, i) = KeyOf(a, PolledAs(a, now))
      BY <1>1, <3>2, <3>4 DEF Recognizable, KeyOf
    <3> QED
      BY <3>2, <3>3, <3>5 DEF Stored
  <2>4. ASSUME NEW r \in doc, Stored(r.key) PROVE Stored1(r.article)
    <3>1. PICK s \in rows : s.key = r.key
      BY <2>4 DEF Stored
    <3>2. r.key = KeyOf(r.article, PolledAs(r.article, now))
      BY <1>1, <2>4, DocumentRows
    <3>3. PICK i : s.key = KeyOf(s.article, i)
      BY <1>1, <3>1 DEF IInv, RowInv
    <3> QED
      BY <3>1, <3>2, <3>3, KeyArticle
  <2>5. New(doc) = {} <=> AllStored
    <3>1. New(doc) = {} => AllStored
      BY <1>1, <2>4, DocumentRows DEF New
    <3>2. AllStored => New(doc) = {}
      BY <1>1, <2>3, DocumentRows DEF New
    <3> QED
      BY <3>1, <3>2
  <2> QED
    BY <2>1, <2>5 DEF Quiet
<1>2. IInv /\ [Next]_vars => [A]_vars
  BY <1>1
<1> QED
  BY <1>2, AlwaysInv, PTL DEF Spec, QuietUnlessNew
=============================================================================
