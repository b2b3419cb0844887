----------------------------- MODULE FeedCache -----------------------------
(* What the service promises its clients about the feeds it keeps: a feed is *)
(* there because somebody asked for it, its headlines are ones its publisher *)
(* published, and nothing but retention and disuse takes one away.  No       *)
(* tables, claims, fetches or failures: module Poller implements it.         *)
EXTENDS Integers, FiniteSets

CONSTANTS
  URL,         \* the feeds clients ask for
  Item,        \* headlines: records with a publication time, at
  Absent,      \* of a feed that is not kept
  KeepItems,   \* headlines of a feed that are never dropped for newer ones
  KeepFor,     \* how long a headline is never dropped for its age
  EvictAfter   \* how long a feed nobody asks for is kept

VARIABLES
  now,
  published,   \* the items of each publisher
  entry        \* each feed's entry: when it was asked for last, what it holds

cacheVars == <<now, published, entry>>

Entry == [asked : Nat, held : SUBSET Item]

Init ==
  /\ now = 0
  /\ published = [u \in URL |-> {}]
  /\ entry = [u \in URL |-> Absent]

Kept(u) == entry[u] # Absent

-----------------------------------------------------------------------------
Pass ==
  /\ now' = now + 1
  /\ UNCHANGED <<published, entry>>

Publish ==
  /\ published' \in [URL -> SUBSET Item]
  /\ \A u \in URL :
       /\ published[u] \subseteq published'[u]
       /\ \A x \in published'[u] \ published[u] : x.at = now
  /\ UNCHANGED <<now, entry>>

\* A request, the feed's first or another one.
Ask(u) ==
  /\ entry' = [entry EXCEPT ![u] =
       [asked |-> now, held |-> IF Kept(u) THEN entry[u].held ELSE {}]]
  /\ UNCHANGED <<now, published>>

\* Some of the publisher's items arrive.
Collect(u) ==
  /\ Kept(u)
  /\ \E S \in SUBSET published[u] :
       entry' = [entry EXCEPT ![u].held = entry[u].held \cup S]
  /\ UNCHANGED <<now, published>>

Retired(u, x) ==
  \/ x.at + KeepFor < now
  \/ ~(Cardinality({y \in entry[u].held : y.at > x.at}) < KeepItems)

Retire(u) ==
  /\ Kept(u)
  /\ \E S \in SUBSET {x \in entry[u].held : Retired(u, x)} :
       entry' = [entry EXCEPT ![u].held = entry[u].held \ S]
  /\ UNCHANGED <<now, published>>

Forget(U) ==
  /\ \A u \in U : Kept(u) /\ entry[u].asked + EvictAfter < now
  /\ entry' = [u \in URL |-> IF u \in U THEN Absent ELSE entry[u]]
  /\ UNCHANGED <<now, published>>

Next ==
  \/ Pass \/ Publish
  \/ \E u \in URL : Ask(u) \/ Collect(u) \/ Retire(u)
  \/ \E U \in SUBSET URL : Forget(U)

Spec == Init /\ [][Next]_cacheVars
=============================================================================
