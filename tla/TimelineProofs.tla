--------------------------- MODULE TimelineProofs ---------------------------
(* dedupe for every table, limit and window: what its two look-up structures *)
(* hold at each iteration (Loop) makes the kept items pairwise different,    *)
(* gives each dropped one a stand-in and makes the result the one specified. *)
EXTENDS Timeline, FiniteSetTheorems, WellFoundedInduction, TLAPS

\* The loop's structures: titles are those of the kept items, hashes those of
\* the visited ones, and what was visited comes before what was not.
Loop ==
  /\ titles = {[title |-> x.title, at |-> x.at] : x \in kept}
  /\ seenHash = {x.hash : x \in listed \ todo} \ {NoHash}
  /\ \A x \in listed \ todo, y \in todo : VisitedBefore(x, y)
  /\ kept \cap todo = {}
  /\ pc = "list" => listed = {}

-----------------------------------------------------------------------------
LEMMA Fields ==
  ASSUME TypeOK, NEW x \in listed
  PROVE  /\ x.title \in Title /\ x.at \in Nat
         /\ x.hash \in Hash \cup {NoHash} /\ x.id \in Nat
BY TimelineAssumption DEF TypeOK, Item, TimelineAssumption

LEMMA LoopInit == Init => TypeOK /\ Loop
BY TimelineAssumption DEF Init, TypeOK, Loop, Item, TimelineAssumption

LEMMA TypeStep == TypeOK /\ Loop /\ [Next]_vars => TypeOK'
<1> SUFFICES ASSUME TypeOK, Loop, [Next]_vars PROVE TypeOK'
  OBVIOUS
<1>1. CASE ListItems
  BY <1>1 DEF ListItems, First, Loop, TypeOK
<1>2. ASSUME NEW x \in todo, DropByHash(x) PROVE TypeOK'
  BY <1>2 DEF DropByHash, TypeOK
<1>3. ASSUME NEW x \in todo, DropByTitle(x) PROVE TypeOK'
  <2>1. x.hash \in Hash \cup {NoHash}
    BY Fields DEF TypeOK
  <2> QED BY <1>3, <2>1 DEF DropByTitle, SeeHash, TypeOK
<1>4. ASSUME NEW x \in todo, Keep(x) PROVE TypeOK'
  <2>1. x.hash \in Hash \cup {NoHash} /\ x.title \in Title /\ x.at \in Time
    BY DEF TypeOK, Item
  <2> QED BY <1>4, <2>1 DEF Keep, SeeHash, TypeOK
<1>5. CASE Answer
  BY <1>5 DEF Answer, First, TypeOK
<1>6. CASE UNCHANGED vars
  BY <1>6 DEF vars, TypeOK
<1> QED BY <1>1, <1>2, <1>3, <1>4, <1>5, <1>6 DEF Next

LEMMA LoopStep == TypeOK /\ Loop /\ [Next]_vars => Loop'
<1> SUFFICES ASSUME TypeOK, Loop, [Next]_vars PROVE Loop'
  OBVIOUS
<1>1. CASE ListItems
  BY <1>1 DEF ListItems, Loop, TypeOK
<1>2. ASSUME NEW x \in todo, DropByHash(x) PROVE Loop'
  <2>1. \A y \in listed \ todo', z \in todo' : VisitedBefore(y, z)
    BY <1>2 DEF DropByHash, Current, Loop
  <2>2. x.hash \in seenHash /\ x.hash # NoHash
    BY <1>2 DEF DropByHash, KnownHash
  <2>3. listed \ todo' = (listed \ todo) \cup {x}
    BY <1>2 DEF DropByHash, TypeOK
  <2>4. seenHash' = {y.hash : y \in listed \ todo'} \ {NoHash}
    BY <1>2, <2>2, <2>3 DEF DropByHash, Loop
  <2> QED BY <1>2, <2>1, <2>4 DEF DropByHash, Loop
<1>3. ASSUME NEW x \in todo, DropByTitle(x) PROVE Loop'
  <2>1. \A y \in listed \ todo', z \in todo' : VisitedBefore(y, z)
    BY <1>3 DEF DropByTitle, Current, Loop
  <2>2. listed \ todo' = (listed \ todo) \cup {x}
    BY <1>3 DEF DropByTitle, TypeOK
  <2>3. seenHash' = {y.hash : y \in listed \ todo'} \ {NoHash}
    BY <1>3, <2>2 DEF DropByTitle, SeeHash, Loop
  <2> QED BY <1>3, <2>1, <2>3 DEF DropByTitle, Loop
<1>4. ASSUME NEW x \in todo, Keep(x) PROVE Loop'
  <2>1. \A y \in listed \ todo', z \in todo' : VisitedBefore(y, z)
    BY <1>4 DEF Keep, Current, Loop
  <2>2. listed \ todo' = (listed \ todo) \cup {x}
    BY <1>4 DEF Keep, TypeOK
  <2>3. seenHash' = {y.hash : y \in listed \ todo'} \ {NoHash}
    BY <1>4, <2>2 DEF Keep, SeeHash, Loop
  <2>4. titles' = {[title |-> y.title, at |-> y.at] : y \in kept'}
    BY <1>4 DEF Keep, Loop
  <2> QED BY <1>4, <2>1, <2>3, <2>4 DEF Keep, Loop
<1>5. CASE Answer
  BY <1>5 DEF Answer, Loop
<1>6. CASE UNCHANGED vars
  BY <1>6 DEF vars, Loop, VisitedBefore
<1> QED BY <1>1, <1>2, <1>3, <1>4, <1>5, <1>6 DEF Next

\* The types hold, and the loop's structures are what Loop says.
THEOREM Typed == Spec => [](TypeOK /\ Loop)
BY LoopInit, TypeStep, LoopStep, PTL DEF Spec

\* Every reachable state of the timeline is type correct: what is listed is
\* stored, what is kept is listed and the page has nothing else.
THEOREM TypeCorrect == Spec => []TypeOK
BY Typed, PTL

-----------------------------------------------------------------------------
(* What the loop knows of the item it visits.                                *)

LEMMA KnownHashMeans ==
  ASSUME TypeOK, Loop, NEW x \in todo
  PROVE  KnownHash(x) <=> \E z \in listed \ todo : SameHash(x, z)
BY DEF Loop, KnownHash, SameHash

LEMMA KnownTitleMeans ==
  ASSUME TypeOK, Loop, NEW x \in todo
  PROVE  KnownTitle(x) <=> \E y \in kept : SameTitle(x, y)
<1>1. \A y \in kept : VisitedBefore(y, x) /\ x.at \in Nat /\ y.at \in Nat
  BY Fields DEF TypeOK, Loop
<1>2. \A y \in kept : y.at - x.at <= Window
  BY <1>1, TimelineAssumption DEF VisitedBefore, TimelineAssumption
<1>3. KnownTitle(x) <=> \E y \in kept : y.title = x.title /\ x.at - y.at <= Window
  <2>1. \A y \in kept : [title |-> y.title, at |-> y.at] \in titles
    BY DEF Loop
  <2>2. \A t \in titles : \E y \in kept : t = [title |-> y.title, at |-> y.at]
    BY DEF Loop
  <2>3. ASSUME KnownTitle(x)
        PROVE  \E y \in kept : y.title = x.title /\ x.at - y.at <= Window
    <3>1. PICK t \in titles : t.title = x.title /\ x.at - t.at <= Window
      BY <2>3 DEF KnownTitle
    <3>2. PICK y \in kept : t = [title |-> y.title, at |-> y.at]
      BY <2>2
    <3> QED BY <3>1, <3>2
  <2>4. ASSUME NEW y \in kept, y.title = x.title, x.at - y.at <= Window
        PROVE  KnownTitle(x)
    <3>1. [title |-> y.title, at |-> y.at] \in titles
      BY <2>1
    <3> QED BY <2>4, <3>1 DEF KnownTitle
  <2> QED BY <2>3, <2>4
<1>4. \A y \in kept :
        SameTitle(x, y) <=> y.title = x.title /\ x.at - y.at <= Window
  BY <1>2 DEF SameTitle
<1> QED BY <1>3, <1>4

LEMMA NoTwoCopiesStep ==
  TypeOK /\ Loop /\ NoTwoCopies /\ [Next]_vars => NoTwoCopies'
<1> SUFFICES ASSUME TypeOK, Loop, NoTwoCopies, [Next]_vars PROVE NoTwoCopies'
  OBVIOUS
<1>1. ASSUME NEW x \in todo, Keep(x) PROVE NoTwoCopies'
  <2>1. \A y \in kept : ~SameHash(x, y) /\ ~SameTitle(x, y)
    <3>1. kept \subseteq listed \ todo
      BY DEF TypeOK, Loop
    <3> QED BY <1>1, <3>1, KnownHashMeans, KnownTitleMeans DEF Keep
  <2>2. \A y \in kept : ~SameHash(y, x) /\ ~SameTitle(y, x)
    BY <2>1 DEF SameHash, SameTitle
  <2>3. kept' = kept \cup {x}
    BY <1>1 DEF Keep
  <2> QED BY <2>1, <2>2, <2>3 DEF NoTwoCopies, SameHash, SameTitle
<1>2. ASSUME kept' = kept PROVE NoTwoCopies'
  BY <1>2 DEF NoTwoCopies, SameHash, SameTitle
<1> QED
  BY <1>1, <1>2 DEF Next, ListItems, DropByHash, DropByTitle, Answer, vars

\* dedupe never keeps two copies of an article, whatever it is given.
THEOREM Deduped == Spec => []NoTwoCopies
<1>1. Init => NoTwoCopies
  BY DEF Init, NoTwoCopies
<1> QED BY <1>1, Typed, NoTwoCopiesStep, PTL DEF Spec

-----------------------------------------------------------------------------
(* The result as specified, and the stand-ins.                               *)

LEMMA KeptAsSpecifiedStep ==
  TypeOK /\ Loop /\ KeptAsSpecified /\ [Next]_vars => KeptAsSpecified'
<1> SUFFICES ASSUME TypeOK, Loop, KeptAsSpecified, [Next]_vars
             PROVE  KeptAsSpecified'
  OBVIOUS
<1> DEFINE Wanted(x, K) ==
      /\ \A y \in listed : VisitedBefore(y, x) => ~SameHash(x, y)
      /\ \A y \in K : VisitedBefore(y, x) => ~SameTitle(x, y)
<1>1. ASSUME NEW x \in todo, Current(x), todo' = todo \ {x}, UNCHANGED listed,
             \/ kept' = kept /\ (KnownHash(x) \/ KnownTitle(x))
             \/ kept' = kept \cup {x} /\ ~KnownHash(x) /\ ~KnownTitle(x)
      PROVE  KeptAsSpecified'
  <2>1. \A y, z \in listed : VisitedBefore(y, z) => ~VisitedBefore(z, y)
    BY Fields DEF VisitedBefore
  <2>2. listed \ todo' = (listed \ todo) \cup {x} /\ x \in listed
    BY <1>1 DEF TypeOK
  <2>3. \A y \in listed \ todo : VisitedBefore(y, x)
    BY DEF Loop
  <2>4. \A y \in todo : ~VisitedBefore(y, x)
    <3>1. \A y \in todo \ {x} : VisitedBefore(x, y)
      BY <1>1 DEF Current
    <3>2. ~VisitedBefore(x, x)
      BY <2>1, <2>2
    <3> QED BY <2>1, <2>2, <3>1, <3>2 DEF TypeOK
  <2>5. kept \subseteq listed \ todo
    BY DEF TypeOK, Loop
  <2>6. (\A y \in listed : VisitedBefore(y, x) => ~SameHash(x, y)) <=> ~KnownHash(x)
    BY <2>3, <2>4, KnownHashMeans DEF TypeOK
  <2>7. (\A y \in kept' : VisitedBefore(y, x) => ~SameTitle(x, y)) <=> ~KnownTitle(x)
    BY <1>1, <2>3, <2>4, <2>5, KnownTitleMeans
  <2>8. x \in kept' <=> Wanted(x, kept')
    BY <1>1, <2>5, <2>6, <2>7
  \* What is kept now comes after what was decided before.
  <2>9. \A y \in listed \ todo : (y \in kept' <=> y \in kept) /\ (Wanted(y, kept') <=> Wanted(y, kept))
    BY <1>1, <2>1, <2>2, <2>3
  <2>10. \A y \in listed \ todo : y \in kept <=> Wanted(y, kept)
    BY DEF KeptAsSpecified
  <2>11. \A y \in listed \ todo' : y \in kept' <=> Wanted(y, kept')
    BY <2>2, <2>8, <2>9, <2>10
  <2> QED BY <1>1, <2>11 DEF KeptAsSpecified, VisitedBefore, SameHash, SameTitle
<1>2. CASE ListItems
  BY <1>2 DEF ListItems, KeptAsSpecified
<1>3. CASE Answer \/ UNCHANGED vars
  BY <1>3 DEF Answer, vars, KeptAsSpecified, VisitedBefore, SameHash, SameTitle
<1>4. ASSUME NEW x \in todo, DropByHash(x) \/ DropByTitle(x) \/ Keep(x)
      PROVE  KeptAsSpecified'
  BY <1>1, <1>4 DEF DropByHash, DropByTitle, Keep
<1> QED BY <1>2, <1>3, <1>4 DEF Next

\* dedupe computes what its comment specifies: it keeps an item exactly when
\* no earlier one has its hash and no earlier kept one its title.
THEOREM Specified == Spec => []KeptAsSpecified
<1>1. Init => KeptAsSpecified
  BY DEF Init, KeptAsSpecified
<1> QED BY <1>1, Typed, KeptAsSpecifiedStep, PTL DEF Spec

LEMMA RepresentedStep ==
  TypeOK /\ Loop /\ Represented /\ [Next]_vars => Represented'
<1> SUFFICES ASSUME TypeOK, Loop, Represented, [Next]_vars PROVE Represented'
  OBVIOUS
<1> DEFINE StandsIn(y, x) ==
      \/ SameHash(x, y) \/ SameTitle(x, y)
      \/ \E z \in listed \ todo : SameHash(x, z) /\ SameTitle(z, y)
<1>1. \A x \in listed \ (todo \cup kept) : \E y \in kept : StandsIn(y, x)
  BY DEF Represented
<1>2. ASSUME NEW x \in todo, todo' = todo \ {x}, UNCHANGED listed, kept \subseteq kept',
             x \in kept' \/ \E y \in kept : StandsIn(y, x)
      PROVE  Represented'
  <2>1. \A w \in listed \ (todo' \cup kept') : \E y \in kept' : StandsIn(y, w)
    BY <1>1, <1>2 DEF TypeOK
  <2> QED BY <1>2, <2>1 DEF Represented, SameHash, SameTitle, TypeOK
<1>3. ASSUME NEW x \in todo, DropByHash(x) PROVE Represented'
  <2>1. PICK z \in listed \ todo : SameHash(x, z)
    BY <1>3, KnownHashMeans DEF DropByHash
  <2>2. \E y \in kept : StandsIn(y, x)
    <3>1. CASE z \in kept
      BY <2>1, <3>1
    <3>2. CASE z \notin kept
      <4>1. PICK y \in kept : StandsIn(y, z)
        BY <1>1, <3>2
      <4> QED BY <2>1, <4>1 DEF SameHash
    <3> QED BY <3>1, <3>2
  <2> QED BY <1>2, <1>3, <2>2 DEF DropByHash
<1>4. ASSUME NEW x \in todo, DropByTitle(x) PROVE Represented'
  <2>1. \E y \in kept : StandsIn(y, x)
    BY <1>4, KnownTitleMeans DEF DropByTitle
  <2> QED BY <1>2, <1>4, <2>1 DEF DropByTitle
<1>5. ASSUME NEW x \in todo, Keep(x) PROVE Represented'
  BY <1>2, <1>5 DEF Keep
<1>6. CASE ListItems
  BY <1>6 DEF ListItems, Represented
<1>7. CASE Answer \/ UNCHANGED vars
  BY <1>7 DEF Answer, vars, Represented, SameHash, SameTitle
<1> QED BY <1>3, <1>4, <1>5, <1>6, <1>7 DEF Next

\* No article disappears from the timeline because of its copies.
THEOREM StandIns == Spec => []Represented
<1>1. Init => Represented
  BY DEF Init, Represented
<1> QED BY <1>1, Typed, RepresentedStep, PTL DEF Spec

-----------------------------------------------------------------------------
(* The cut: First(S, n) leaves something out only when it is full.           *)

LEMMA LeastNatural ==
  ASSUME NEW T, T \subseteq Nat, T # {}
  PROVE  \E m \in T : \A k \in T : m <= k
<1> DEFINE R == OpToRel(<, Nat)
<1>1. IsWellFoundedOn(R, Nat)
  BY NatLessThanWellFounded
<1>2. \A x, y \in Nat : <<x, y>> \in R <=> x < y
  BY DEF OpToRel
<1> HIDE DEF R
<1>3. PICK m \in T : \A k \in T : ~(<<k, m>> \in R)
  BY <1>1, WFMin
<1>4. \A k \in T : m \in Nat /\ k \in Nat /\ ~(k < m)
  BY <1>2, <1>3
<1> QED BY <1>4

\* Were something left out, all that is newer than the best ranked of what is
\* left out is in, and it is n things or more.
LEMMA ShortIsWhole ==
  ASSUME NEW S \in SUBSET Item, IsFiniteSet(S), NEW n \in Nat,
         Cardinality(First(S, n)) < n
  PROVE  First(S, n) = S
<1> DEFINE Above(x) == {y \in S : Newer(y, x)}
           rank == [x \in S |-> Cardinality(Above(x))]
           Out == S \ First(S, n)
<1>1. \A x \in S : IsFiniteSet(Above(x)) /\ rank[x] \in Nat
  BY FS_Subset, FS_CardinalityType
<1>2. \A x \in S : x.at \in Nat /\ x.id \in Nat
  BY TimelineAssumption DEF Item, TimelineAssumption
<1>3. \A x \in S : x \in First(S, n) <=> rank[x] < n
  BY DEF First
<1>4. IsFiniteSet(First(S, n)) /\ Cardinality(First(S, n)) \in Nat
  BY FS_Subset, FS_CardinalityType DEF First
<1>5. \A x \in S : \A y \in Above(x) : rank[y] < rank[x]
  <2> SUFFICES ASSUME NEW x \in S, NEW y \in Above(x) PROVE rank[y] < rank[x]
    OBVIOUS
  <2>1. Above(y) \subseteq Above(x) /\ y \notin Above(y)
    BY <1>2 DEF Newer
  <2>2. IsFiniteSet(Above(x)) /\ IsFiniteSet(Above(y)) /\ rank[x] \in Nat /\ rank[y] \in Nat
    BY <1>1
  <2>3. Cardinality(Above(y)) <= Cardinality(Above(x))
        /\ Cardinality(Above(y)) # Cardinality(Above(x))
    BY <2>1, <2>2, FS_Subset
  <2> QED BY <2>2, <2>3
<1>6. ASSUME Out # {} PROVE FALSE
  <2>1. PICK x \in Out : \A z \in Out : rank[x] <= rank[z]
    <3> HIDE DEF rank
    <3> DEFINE T == {rank[x] : x \in Out}
    <3>1. T \subseteq Nat /\ T # {}
      BY <1>1, <1>6
    <3>2. PICK m \in T : \A k \in T : m <= k
      <4> HIDE DEF T
      <4> QED BY <3>1, LeastNatural
    <3> QED BY <3>2
  <2>2. Above(x) \subseteq First(S, n)
    <3> SUFFICES ASSUME NEW y \in Above(x) PROVE y \in First(S, n)
      OBVIOUS
    <3>1. rank[y] < rank[x] /\ rank[y] \in Nat /\ rank[x] \in Nat
      BY <1>1, <1>5
    <3> HIDE DEF rank
    <3>2. y \notin Out
      BY <2>1, <3>1
    <3> QED BY <3>2
  <2>3. rank[x] <= Cardinality(First(S, n))
    BY <1>4, <2>2, FS_Subset
  <2>4. rank[x] >= n
    BY <1>1, <1>3
  <2> QED BY <1>1, <1>4, <2>3, <2>4
<1> QED BY <1>6 DEF First

-----------------------------------------------------------------------------
(* The page, once it is cut, is that of the kept items; nothing waits.       *)

Cut ==
  /\ IsFiniteSet(stored)
  /\ pc # "list" => listed = First(stored, limit * OverFetch)
  /\ pc = "done" => todo = {} /\ page = First(kept, limit)

LEMMA CutInit == Init => Cut
<1> SUFFICES ASSUME Init PROVE Cut
  OBVIOUS
<1>1. PICK of : stored = {[id |-> i, at |-> of[i].at, hash |-> of[i].hash,
                           title |-> of[i].title] : i \in Id}
  BY DEF Init
<1>2. [i \in Id |-> [id |-> i, at |-> of[i].at, hash |-> of[i].hash,
                     title |-> of[i].title]] \in Surjection(Id, stored)
  BY <1>1 DEF Surjection
<1>3. IsFiniteSet(stored)
  BY <1>2, FS_Surjection, TimelineAssumption DEF TimelineAssumption
<1> QED BY <1>3 DEF Init, Cut

LEMMA CutStep == TypeOK /\ Cut /\ [Next]_vars => Cut'
<1> SUFFICES ASSUME TypeOK, Cut, [Next]_vars PROVE Cut'
  OBVIOUS
<1>1. CASE ListItems
  BY <1>1 DEF ListItems, Cut, First, Newer
<1>2. ASSUME NEW x \in todo, DropByHash(x) \/ DropByTitle(x) \/ Keep(x) PROVE Cut'
  BY <1>2 DEF DropByHash, DropByTitle, Keep, Cut, First, Newer
<1>3. CASE Answer
  BY <1>3 DEF Answer, Cut, First, Newer
<1>4. CASE UNCHANGED vars
  BY <1>4 DEF vars, Cut, First, Newer
<1> QED BY <1>1, <1>2, <1>3, <1>4 DEF Next

\* A page that is not full leaves a story of the table out only when more of
\* the listed rows were copies than the over-fetch had added, whatever the
\* limit, the over-fetch and the table.
THEOREM PageComplete == Spec => []ShortPageComplete
<1>1. TypeOK /\ Cut /\ Represented => ShortPageComplete
  <2> SUFFICES ASSUME TypeOK, Cut, Represented, pc = "done", Cardinality(page) < limit
               PROVE  \/ \A x \in stored : \E y \in page :
                           \/ x = y \/ SameHash(x, y) \/ SameTitle(x, y)
                           \/ \E z \in stored : SameHash(x, z) /\ SameTitle(z, y)
                      \/ Cardinality(listed \ page) > (OverFetch - 1) * limit
    BY DEF ShortPageComplete
  <2>1. /\ todo = {} /\ page = First(kept, limit)
        /\ listed = First(stored, limit * OverFetch)
    BY DEF Cut
  <2>2. /\ limit \in Nat /\ OverFetch \in Nat /\ limit * OverFetch \in Nat
        /\ kept \in SUBSET Item /\ IsFiniteSet(kept)
        /\ stored \in SUBSET Item /\ IsFiniteSet(stored)
        /\ IsFiniteSet(listed) /\ page \subseteq listed
    BY FS_Subset, TimelineAssumption DEF TypeOK, Cut, TimelineAssumption
  <2>3. page = kept
    BY <2>1, <2>2, ShortIsWhole
  <2>4. CASE listed = stored
    <3> SUFFICES ASSUME NEW x \in stored
                 PROVE  \E y \in page :
                          \/ x = y \/ SameHash(x, y) \/ SameTitle(x, y)
                          \/ \E z \in stored : SameHash(x, z) /\ SameTitle(z, y)
      OBVIOUS
    <3>1. CASE x \in kept
      BY <2>3, <3>1
    <3>2. CASE x \notin kept
      BY <2>1, <2>3, <2>4, <3>2 DEF Represented
    <3> QED BY <3>1, <3>2
  <2>5. CASE listed # stored
    <3>1. /\ IsFiniteSet(page) /\ Cardinality(page) \in Nat
          /\ Cardinality(listed) \in Nat
          /\ Cardinality(listed \ page) = Cardinality(listed) - Cardinality(page)
      <4>1. IsFiniteSet(page) /\ listed \cap page = page
        BY <2>2, FS_Subset
      <4> QED BY <2>2, <4>1, FS_CardinalityType, FS_Difference
    <3>2. Cardinality(listed) >= limit * OverFetch
      BY <2>1, <2>2, <2>5, <3>1, ShortIsWhole
    <3>3. limit * OverFetch - limit = (OverFetch - 1) * limit
      BY <2>2
    <3> QED BY <2>2, <3>1, <3>2, <3>3
  <2> QED BY <2>4, <2>5
<1> QED BY <1>1, CutInit, CutStep, Typed, StandIns, PTL DEF Spec
=============================================================================
