-------------------------- MODULE DiscoveryProofs --------------------------
(* Discovery over the guarded client, for any hosts, pages, limits and any   *)
(* answers of names and publishers: requests go to allowed addresses, what   *)
(* is offered was a feed, and nothing usable is missed.  The argument: the    *)
(* URL under way is the one whose turn it is, and of those before it all     *)
(* were tried unless the cap was reached.                                    *)
EXTENDS Discovery, TLAPS

\* Who waits for an answer has a connection; an answer that is none has no body.
Connected ==
  /\ At("wait") => get.conn # None
  /\ answer # None /\ answer.status # "error" => answer.body \in Body

-----------------------------------------------------------------------------
LEMMA Constants ==
  /\ Wellformed \subseteq URL /\ Targets \subseteq URL /\ Start \subseteq URL
  /\ Allowed \subseteq Addr
  /\ None \notin Addr /\ None \notin Body /\ None \notin Call /\ None \notin Answer
  /\ ProbePaths \in Seq(Path)
  /\ MaxCandidates \in Nat \ {0} /\ MaxRedirects \in Nat \ {0}
  /\ Feed \in Body /\ Body \ {Feed} \subseteq Seq(URL)
BY FetchClientAssumption, DiscoveryAssumption
DEF FetchClientAssumption, DiscoveryAssumption

LEMMA Connects ==
  ASSUME get \in Call, NEW a \in Addr,
         get' = [get EXCEPT !.pc = "wait", !.conn = a, !.via = @ + 1]
  PROVE  get' \in Call /\ get'.conn = a
<1>1. get' = [pc |-> "wait", from |-> get.from, at |-> get.at,
              via |-> get.via + 1, conn |-> a]
  BY DEF Call
<1>2. /\ get.from \in URL /\ get.at \in URL /\ get.via \in Nat
  BY DEF Call
<1> QED BY <1>1, <1>2 DEF Call

LEMMA ClientStep ==
  ASSUME ClientTypeOK, Connected, GetStep
  PROVE  ClientTypeOK' /\ Connected' /\ get # None /\ get.from \in URL
<1>0. /\ get # None /\ get \in Call
      /\ get.from \in URL /\ get.at \in URL /\ get.via \in Nat
      /\ get.conn \in Addr \cup {None} /\ get.pc \in {"check", "send", "wait"}
  BY DEF GetStep, Error, CheckURL, Reuse, DialContext, Redirect, Respond, At,
         ClientTypeOK, Call
<1>1. ASSUME KeepConn, At("wait") PROVE pool' \subseteq Conn
  BY <1>0, <1>1 DEF KeepConn, Conn, Site, Connected, ClientTypeOK, URL
<1>2. CASE Error
  BY <1>0, <1>2, Constants DEF Error, Return, ClientTypeOK, Connected, At, Answer, Status
<1>3. CASE CheckURL
  <2>1. get' \in Call /\ get'.pc = "send"
    BY <1>0, <1>3 DEF CheckURL, Call
  <2> QED BY <1>0, <1>3, <2>1 DEF CheckURL, ClientTypeOK, Connected, At
<1>4. CASE Reuse
  <2>1. PICK c \in pool :
          /\ get' = [get EXCEPT !.pc = "wait", !.conn = c.addr, !.via = @ + 1]
          /\ pool' = pool \ {c}
    BY <1>4 DEF Reuse
  <2>2. c.addr \in Addr
    BY DEF ClientTypeOK, Conn
  <2>3. get' \in Call /\ get'.conn = c.addr
    BY <1>0, <2>1, <2>2, Connects
  <2> QED BY <1>0, <1>4, <2>1, <2>2, <2>3, Constants DEF Reuse, ClientTypeOK, Connected, At
<1>5. CASE DialContext
  <2>1. PICK a \in Addr :
          get' = [get EXCEPT !.pc = "wait", !.conn = a, !.via = @ + 1]
    BY <1>5 DEF DialContext
  <2>2. get' \in Call /\ get'.conn = a
    BY <1>0, <2>1, Connects
  <2> QED BY <1>0, <1>5, <2>1, <2>2, Constants DEF DialContext, ClientTypeOK, Connected, At
<1>6. CASE Redirect
  <2>1. PICK u \in Targets : get' = Follow(u)
    BY <1>6 DEF Redirect
  <2>2. get' \in Call /\ get'.pc = "check"
    BY <1>0, <2>1, Constants DEF Follow, Call
  <2> QED BY <1>0, <1>1, <1>6, <2>2 DEF Redirect, ClientTypeOK, Connected, At
<1>7. CASE Respond
  <2>1. PICK status \in Status \ {"error"}, body \in Body : Return(status, body)
    BY <1>7 DEF Respond
  <2>2. answer' \in Answer /\ answer'.body \in Body
    BY <1>0, <2>1 DEF Return, Answer
  <2> QED BY <1>0, <1>1, <1>7, <2>1, <2>2 DEF Respond, Return, ClientTypeOK, Connected, At
<1> QED BY <1>0, <1>2, <1>3, <1>4, <1>5, <1>6, <1>7 DEF GetStep

LEMMA GetTypes ==
  ASSUME ClientTypeOK, Connected, NEW u \in URL, Get(u)
  PROVE  ClientTypeOK' /\ Connected' /\ get' \in Call /\ get'.from = u
<1>1. get' \in Call /\ get'.pc = "check" /\ get'.from = u
  BY DEF Get, Call
<1> QED BY <1>1 DEF Get, ClientTypeOK, Connected, At

LEMMA ConsumeTypes ==
  ASSUME ClientTypeOK, Connected, Consume
  PROVE  /\ ClientTypeOK' /\ Connected'
         /\ answer \in Answer /\ answer.final \in URL
         /\ answer.status \in Status
BY DEF Consume, ClientTypeOK, Connected, At, Answer

LEMMA ThisType ==
  ASSUME TypeOK, More
  PROVE  This \in URL
<1>1. CASE stage = "links"
  BY <1>1 DEF More, This, TypeOK
<1>2. CASE stage # "links"
  <2>1. ProbePaths[next] \in Path
    BY <1>2, Constants DEF More, TypeOK
  <2> QED BY <1>2, <2>1 DEF More, This, Probe, TypeOK, URL
<1> QED BY <1>1, <1>2

LEMMA TypeInit == Init => TypeOK /\ Connected
BY Constants DEF Init, ClientInit, TypeOK, ClientTypeOK, Connected, At

LEMMA TypeStep == TypeOK /\ Connected /\ [Next]_vars => (TypeOK /\ Connected)'
<1> SUFFICES ASSUME TypeOK, Connected, [Next]_vars PROVE TypeOK' /\ Connected'
  OBVIOUS
<1>0. /\ ClientTypeOK /\ root \in URL /\ links \in Seq(URL) /\ next \in Nat \ {0}
      /\ seen \subseteq URL /\ out \in Seq(URL)
      /\ fed \subseteq [from : URL, final : URL, status : Status]
      /\ stage \in {"page", "links", "probes", "done", "failed"}
  BY DEF TypeOK
<1>1. CASE GetPage
  BY <1>0, <1>1, GetTypes DEF GetPage, callVars, TypeOK
<1>2. CASE PageFails
  BY <1>0, <1>2, ConsumeTypes DEF PageFails, Consume, callVars, TypeOK
<1>3. CASE PageIsFeed
  <2>1. /\ ClientTypeOK' /\ Connected' /\ answer.final \in URL
    BY <1>0, <1>3, ConsumeTypes DEF PageIsFeed, Consume
  <2>2. out' \in Seq(URL)
    BY <1>3, <2>1 DEF PageIsFeed
  <2> QED BY <1>0, <1>3, <2>1, <2>2 DEF PageIsFeed, callVars, TypeOK
<1>4. CASE PageDeclares
  <2>1. /\ ClientTypeOK' /\ Connected' /\ answer.final \in URL
    BY <1>0, <1>4, ConsumeTypes DEF PageDeclares, Consume
  <2>2. answer # None /\ answer.status # "error" /\ answer.body # Feed
    BY <1>4 DEF PageDeclares, Consume, Success
  <2>3. answer.body \in Seq(URL)
    BY <2>2, Constants DEF Connected
  <2> QED BY <1>0, <1>4, <2>1, <2>3 DEF PageDeclares, TypeOK
<1>5. CASE Try
  <2>1. This \in URL
    BY <1>5, ThisType DEF Try
  <2> QED BY <1>0, <1>5, <2>1, GetTypes DEF Try, callVars, TypeOK
<1>6. CASE Skip
  BY <1>0, <1>6 DEF Skip, clientVars, callVars, TypeOK, ClientTypeOK, Connected, At
<1>7. CASE Rejected
  BY <1>0, <1>7, ConsumeTypes DEF Rejected, Consume, callVars, TypeOK
<1>8. CASE Accepted
  <2>1. This \in URL /\ ClientTypeOK' /\ Connected'
    BY <1>0, <1>8, ThisType, ConsumeTypes DEF Accepted, Consume
  <2>2. out' \in Seq(URL) /\ stage' \in {stage, "done"}
    BY <1>0, <1>8, <2>1 DEF Accepted
  <2> QED BY <1>0, <1>8, <2>1, <2>2 DEF Accepted, callVars, TypeOK
<1>9. CASE Finish
  BY <1>0, <1>9 DEF Finish, clientVars, callVars, TypeOK, ClientTypeOK, Connected, At
<1>10. CASE Client
  <2>1. ClientTypeOK' /\ Connected' /\ get.from \in URL
    BY <1>0, <1>10, ClientStep DEF Client
  <2>2. answer' # None => answer'.final \in URL /\ answer'.status \in Status
    BY <2>1 DEF ClientTypeOK, Answer
  <2>3. fed' \subseteq [from : URL, final : URL, status : Status]
    BY <1>0, <1>10, <2>1, <2>2 DEF Client, Observe
  <2> QED BY <1>0, <1>10, <2>1, <2>3 DEF Client, callVars, TypeOK
<1>11. CASE CloseIdle /\ UNCHANGED <<stage, callVars, next, seen, out, fed>>
  BY <1>0, <1>11 DEF CloseIdle, callVars, TypeOK, ClientTypeOK, Connected, At
<1>12. CASE UNCHANGED vars
  BY <1>0, <1>12 DEF vars, clientVars, callVars, TypeOK, ClientTypeOK, Connected, At
<1> QED BY <1>1, <1>2, <1>3, <1>4, <1>5, <1>6, <1>7, <1>8, <1>9, <1>10, <1>11, <1>12
        DEF Next, Discover

THEOREM Typed == Spec => [](TypeOK /\ Connected)
BY TypeInit, TypeStep, PTL DEF Spec

\* Every reachable state of the call is type correct, for any pages,
\* redirects and limits.
THEOREM TypeCorrect == Spec => []TypeOK
BY Typed, PTL

-----------------------------------------------------------------------------
(* The guard: the only steps that give a request an address check it, or     *)
(* take one from the pool, where it was checked.                             *)

LEMMA GuardInit == Init => Guarded
BY DEF Init, ClientInit, Guarded

LEMMA GuardKept ==
  ASSUME Guarded, UNCHANGED pool, get' = get \/ get' = None
  PROVE  Guarded'
BY DEF Guarded

LEMMA GuardStep ==
  TypeOK /\ Connected /\ Guarded /\ [Next]_vars => Guarded'
<1> SUFFICES ASSUME TypeOK, Connected, Guarded, [Next]_vars PROVE Guarded'
  OBVIOUS
<1>0. ClientTypeOK /\ (get # None => get \in Call)
  BY DEF TypeOK, ClientTypeOK
<1>1. ASSUME KeepConn, At("wait") PROVE \A c \in pool' : c.addr \in Allowed
  BY <1>1 DEF KeepConn, Guarded, Connected, At
<1>2. ASSUME NEW u \in URL, Get(u) PROVE Guarded'
  <2>1. get'.conn = None /\ get'.from = get'.at
    BY <1>2 DEF Get
  <2> QED BY <1>2, <2>1 DEF Get, Guarded
<1>3. CASE Error
  BY <1>3 DEF Error, Return, Guarded
<1>4. CASE CheckURL
  <2>1. get'.conn = get.conn /\ get'.from = get.from /\ get'.at = get.at /\ get # None
    BY <1>0, <1>4 DEF CheckURL, At, Call
  <2> QED BY <1>4, <2>1 DEF CheckURL, Guarded
<1>5. CASE Reuse
  <2>1. PICK c \in pool :
          /\ get' = [get EXCEPT !.pc = "wait", !.conn = c.addr, !.via = @ + 1]
          /\ pool' = pool \ {c}
    BY <1>5 DEF Reuse
  <2>2. /\ get # None
        /\ get'.conn = c.addr /\ get'.from = get.from /\ get'.at = get.at
    BY <1>0, <1>5, <2>1 DEF Reuse, At, Call
  <2> QED BY <2>1, <2>2 DEF Guarded
<1>6. CASE DialContext
  <2>1. PICK a \in Allowed :
          get' = [get EXCEPT !.pc = "wait", !.conn = a, !.via = @ + 1]
    BY <1>6 DEF DialContext, Vetted
  <2>2. /\ get # None
        /\ get'.conn = a /\ get'.from = get.from /\ get'.at = get.at
    BY <1>0, <1>6, <2>1 DEF DialContext, At, Call
  <2> QED BY <1>6, <2>1, <2>2 DEF DialContext, Guarded
<1>7. CASE Redirect
  <2>1. PICK u \in Targets : ~Downgrades(u) /\ get' = Follow(u)
    BY <1>7 DEF Redirect
  <2>2. get'.conn = None /\ get'.from = get.from /\ get'.at = u
    BY <1>0, <1>7, <2>1 DEF Redirect, Follow, At, Call
  <2> QED BY <1>1, <1>7, <2>1, <2>2 DEF Redirect, Downgrades, Guarded
<1>8. CASE Respond
  BY <1>1, <1>8 DEF Respond, Return, Guarded
<1>9. CASE Client
  BY <1>3, <1>4, <1>5, <1>6, <1>7, <1>8, <1>9 DEF Client, GetStep
<1>10. CASE Consume
  BY <1>10, GuardKept DEF Consume
<1>11. CASE GetPage \/ Try
  <2>1. root \in URL /\ (More => This \in URL)
    BY ThisType DEF TypeOK
  <2> QED BY <1>2, <1>11, <2>1 DEF GetPage, Try
<1>12. CASE CloseIdle
  BY <1>12 DEF CloseIdle, Guarded
<1>13. CASE UNCHANGED clientVars
  BY <1>13, GuardKept DEF clientVars
<1> QED BY <1>9, <1>10, <1>11, <1>12, <1>13
        DEF Next, Discover, PageFails, PageIsFeed, PageDeclares, Rejected, Accepted,
            Skip, Finish, vars

\* Whatever names resolve to from one look-up to the next and whatever
\* redirects publishers answer with, requests go to allowed addresses only,
\* and a Get that began over https never goes on over http.
THEOREM OnlyAllowed == Spec => []Guarded
BY Typed, GuardInit, GuardStep, PTL DEF Spec
-----------------------------------------------------------------------------
(* What is under way and what was tried.                                     *)

Pending == get # None \/ answer # None

\* One Get at a time, for the page or the URL whose turn it is.
Turn ==
  /\ ~(get # None /\ answer # None)
  /\ Pending => stage \in {"page", "links", "probes"}
  /\ Pending /\ stage # "page" => More /\ This \in seen
  /\ get # None => get.from = IF stage = "page" THEN root ELSE This

\* Of the URLs before the one whose turn it is all were tried, links unless
\* the cap was reached.
Tried ==
  /\ stage = "page" => seen = {} /\ out = <<>> /\ next = 1
  /\ stage = "links" =>
       \A i \in DOMAIN links : i < next =>
         links[i] \in seen \/ Len(out) >= MaxCandidates
  /\ stage = "probes" =>
       /\ out = <<>>
       /\ \A i \in DOMAIN links : links[i] \in seen
       /\ \A i \in DOMAIN ProbePaths : i < next => Probe(i) \in seen
  /\ stage = "done" =>
       /\ seen # {} /\ Len(out) < MaxCandidates =>
            \A i \in DOMAIN links : links[i] \in seen
       /\ out = <<>> => \A i \in DOMAIN ProbePaths : Probe(i) \in seen

TriedInv == Turn /\ Tried

LEMMA TriedInit == Init => TriedInv
BY DEF Init, ClientInit, TriedInv, Turn, Pending, Tried

LEMMA GetFrom ==
  ASSUME TypeOK, Connected, GetStep
  PROVE  /\ get # None
         /\ get' # None => get'.from = get.from /\ answer' = answer
         /\ get' = None => answer' # None
         /\ answer' # None /\ answer = None => get' = None
<1>0. get # None /\ get \in Call
  BY ClientStep DEF TypeOK, ClientTypeOK, GetStep, Error, CheckURL, Reuse, DialContext,
       Redirect, Respond, At
<1>1. CASE Error \/ Respond
  <2>1. PICK status \in Status, body \in Body \cup {None} : Return(status, body)
    BY <1>1 DEF Error, Respond, Status
  <2>2. answer' \in Answer
    BY <1>0, <2>1 DEF Return, Answer, Call
  <2> QED BY <1>0, <2>1, <2>2, Constants DEF Return
<1>2. CASE CheckURL \/ Reuse \/ DialContext \/ Redirect
  <2>1. get'.from = get.from /\ answer' = answer
    BY <1>0, <1>2 DEF CheckURL, Reuse, DialContext, Redirect, Follow, Call
  <2>2. CASE CheckURL
    BY <1>0, <2>2, Constants DEF CheckURL, Call
  <2>3. CASE Reuse
    <3>1. PICK c \in pool :
            get' = [get EXCEPT !.pc = "wait", !.conn = c.addr, !.via = @ + 1]
      BY <2>3 DEF Reuse
    <3>2. c.addr \in Addr
      BY DEF TypeOK, ClientTypeOK, Conn
    <3> QED BY <1>0, <2>1, <3>1, <3>2, Connects, Constants
  <2>4. CASE DialContext
    BY <1>0, <2>1, <2>4, Connects, Constants DEF DialContext
  <2>5. CASE Redirect
    <3>1. PICK u \in URL : get' = [get EXCEPT !.pc = "check", !.at = u, !.conn = None]
      BY <2>5, Constants DEF Redirect, Follow
    <3>2. get' \in Call
      BY <1>0, <3>1 DEF Call
    <3> QED BY <1>0, <2>1, <3>2, Constants
  <2> QED BY <1>0, <1>2, <2>1, <2>2, <2>3, <2>4, <2>5, Constants
<1> QED BY <1>1, <1>2 DEF GetStep
\* The loop goes on from a URL that was tried or is not going to be.
LEMMA Advance ==
  ASSUME TypeOK, Tried, More, next' = next + 1,
         UNCHANGED <<stage, root, links, seen, out>>,
         This \in seen \/ (stage = "links" /\ Len(out) >= MaxCandidates)
  PROVE  Tried'
<1>0. next \in Nat /\ links \in Seq(URL) /\ ProbePaths \in Seq(Path)
  BY Constants DEF TypeOK
<1>1. CASE stage = "links"
  <2>1. \A i \in DOMAIN links : i < next + 1 =>
          links[i] \in seen \/ Len(out) >= MaxCandidates
    BY <1>0, <1>1 DEF Tried, This
  <2> QED BY <1>1, <2>1 DEF Tried
<1>2. CASE stage = "probes"
  <2>1. \A i \in DOMAIN ProbePaths : i < next + 1 => Probe(i) \in seen
    BY <1>0, <1>2 DEF Tried, This
  <2> QED BY <1>2, <2>1 DEF Tried, Probe
<1> QED BY <1>1, <1>2 DEF More

LEMMA TriedStep == TypeOK /\ Connected /\ TriedInv /\ [Next]_vars => TriedInv'
<1> SUFFICES ASSUME TypeOK, Connected, TriedInv, [Next]_vars PROVE TriedInv'
  OBVIOUS
<1>0. /\ next \in Nat \ {0} /\ links \in Seq(URL) /\ out \in Seq(URL)
      /\ ProbePaths \in Seq(Path) /\ MaxCandidates \in Nat \ {0}
      /\ stage \in {"page", "links", "probes", "done", "failed"}
  BY Constants DEF TypeOK
<1>1. CASE GetPage
  BY <1>1 DEF GetPage, Get, callVars, TriedInv, Turn, Pending, Tried, More, This, Probe
<1>2. CASE PageFails
  BY <1>2 DEF PageFails, Consume, callVars, TriedInv, Turn, Pending, Tried
<1>3. CASE PageIsFeed
  <2>1. out' # <<>>
    BY <1>3 DEF PageIsFeed
  <2> QED BY <1>3, <2>1 DEF PageIsFeed, Consume, callVars, TriedInv, Turn, Pending, Tried
<1>4. CASE PageDeclares
  <2>1. links' \in Seq(URL) /\ next' = 1
    BY <1>4, TypeStep DEF PageDeclares, TypeOK, TriedInv, Tried
  <2> QED BY <1>4, <2>1 DEF PageDeclares, Consume, TriedInv, Turn, Pending, Tried
<1>5. CASE Try
  <2>1. /\ More' /\ This' = This /\ This \in seen' /\ stage' = stage /\ stage # "page"
        /\ get'.from = This /\ answer' = None
    BY <1>5 DEF Try, Get, callVars, More, This, Probe
  <2>2. Turn'
    BY <1>5, <2>1 DEF More, Turn, Pending
  <2>3. Tried'
    BY <1>0, <1>5 DEF Try, callVars, TriedInv, Tried, More, Probe
  <2> QED BY <2>2, <2>3 DEF TriedInv
<1>6. CASE Skip
  <2>1. Turn'
    BY <1>6 DEF Skip, clientVars, Turn, Pending
  <2>2. /\ next' = next + 1 /\ UNCHANGED <<stage, root, links, seen, out>>
        /\ More /\ (This \in seen \/ (stage = "links" /\ Len(out) >= MaxCandidates))
    BY <1>6 DEF Skip, callVars
  <2>3. Tried'
    BY <1>0, <1>6, <2>2, Advance DEF Skip, TriedInv
  <2> QED BY <2>1, <2>3 DEF TriedInv
<1>7. CASE Rejected
  <2>1. More /\ This \in seen
    BY <1>7 DEF Rejected, Consume, TriedInv, Turn, Pending, More
  <2>2. Turn'
    BY <1>7 DEF Rejected, Consume, TriedInv, Turn, Pending
  <2>3. Tried'
    BY <1>7, <2>1, Advance DEF Rejected, callVars, TriedInv
  <2> QED BY <2>2, <2>3 DEF TriedInv
<1>8. CASE Accepted
  <2>1. More /\ This \in seen
    BY <1>8 DEF Accepted, Consume, TriedInv, Turn, Pending, More
  <2>2. Turn'
    BY <1>8 DEF Accepted, Consume, TriedInv, Turn, Pending
  <2>3. Len(out') = Len(out) + 1 /\ out' # <<>>
    BY <1>0, <1>8 DEF Accepted
  <2>4. /\ next' = next + 1 /\ UNCHANGED <<root, links, seen>>
        /\ stage' = IF stage = "probes" THEN "done" ELSE stage
    BY <1>8 DEF Accepted, callVars
  <2>5. CASE stage = "links"
    <3>1. \A i \in DOMAIN links : i < next + 1 =>
            links[i] \in seen \/ Len(out) + 1 >= MaxCandidates
      BY <1>0, <2>1, <2>5 DEF TriedInv, Tried, This
    <3> QED BY <2>2, <2>3, <2>4, <2>5, <3>1 DEF TriedInv, Tried
  <2>6. CASE stage = "probes"
    BY <2>2, <2>3, <2>4, <2>6 DEF TriedInv, Tried
  <2> QED BY <2>1, <2>5, <2>6 DEF More
<1>9. CASE Finish
  <2>1. get = None /\ answer = None
    BY <1>9 DEF Finish, TriedInv, Turn, Pending
  <2>2. Turn'
    BY <1>9, <2>1 DEF Finish, clientVars, Turn, Pending
  <2>3. CASE stage = "links"
    <3>1. \A i \in DOMAIN links : links[i] \in seen \/ Len(out) >= MaxCandidates
      BY <1>0, <1>9, <2>3 DEF Finish, TriedInv, Tried, More
    <3> QED BY <1>0, <1>9, <2>2, <2>3, <3>1 DEF Finish, callVars, TriedInv, Tried
  <2>4. CASE stage = "probes"
    <3>1. \A i \in DOMAIN ProbePaths : Probe(i) \in seen
      BY <1>0, <1>9, <2>4 DEF Finish, TriedInv, Tried, More
    <3> QED BY <1>0, <1>9, <2>2, <2>4, <3>1
            DEF Finish, callVars, TriedInv, Tried, Probe
  <2> QED BY <1>9, <2>3, <2>4 DEF Finish
<1>10. CASE Client
  <2>1. /\ get # None /\ answer = None
        /\ get' # None => get'.from = get.from /\ answer' = answer
        /\ answer' # None => get' = None
    BY <1>10, GetFrom DEF Client, TypeOK, TriedInv, Turn
  <2> QED BY <1>10, <2>1
          DEF Client, callVars, TriedInv, Turn, Pending, Tried, More, This, Probe
<1>11. CASE CloseIdle /\ UNCHANGED <<stage, callVars, next, seen, out, fed>>
  BY <1>11 DEF CloseIdle, callVars, TriedInv, Turn, Pending, Tried, More, This, Probe
<1>12. CASE UNCHANGED vars
  BY <1>12 DEF vars, clientVars, callVars, TriedInv, Turn, Pending, Tried, More, This, Probe
<1> QED BY <1>1, <1>2, <1>3, <1>4, <1>5, <1>6, <1>7, <1>8, <1>9, <1>10, <1>11, <1>12
        DEF Next, Discover

LEMMA InTurn == Spec => [](TypeOK /\ Connected /\ TriedInv)
BY Typed, TriedInit, TriedStep, PTL DEF Spec
-----------------------------------------------------------------------------
(* What was found.                                                           *)

\* A feed that was found is offered, unless its answer is just in; what an
\* answer says is known.
Handled(a) ==
  \/ Offered(a.from) \/ Offered(a.final)
  \/ /\ answer # None /\ answer.status = "200" /\ answer.body = Feed
     /\ IF stage = "page" THEN a.final = answer.final ELSE a.from = This

Found ==
  /\ \A a \in fed : a.status = "200" => Handled(a)
  /\ answer # None /\ answer.body = Feed =>
       \E a \in fed : /\ a.final = answer.final /\ a.status = answer.status
                      /\ stage # "page" => a.from = This

LEMMA FoundStep ==
  TypeOK /\ Connected /\ TriedInv /\ Found /\ [Next]_vars => Found'
<1> SUFFICES ASSUME TypeOK, Connected, TriedInv, Found, [Next]_vars PROVE Found'
  OBVIOUS
<1>0. out \in Seq(URL)
  BY DEF TypeOK
<1>1. ASSUME answer' = None, fed' = fed, UNCHANGED out,
             answer = None \/ answer.status # "200" \/ answer.body # Feed
      PROVE  Found'
  BY <1>1 DEF Found, Handled, Offered
<1>2. CASE GetPage \/ Try
  BY <1>1, <1>2 DEF GetPage, Try, Get
<1>3. CASE PageFails \/ PageDeclares \/ Rejected
  BY <1>1, <1>3 DEF PageFails, PageDeclares, Rejected, IsFeed, Success, Consume
<1>4. CASE PageIsFeed
  <2>1. out' = <<answer.final>> /\ out = <<>> /\ stage = "page" /\ answer' = None /\ fed' = fed
    BY <1>4 DEF PageIsFeed, Consume, TriedInv, Tried
  <2>2. \A a \in fed : a.status = "200" => a.final = answer.final
    BY <2>1 DEF Found, Handled, Offered
  <2> QED BY <2>1, <2>2 DEF Found, Handled, Offered
<1>5. CASE Accepted
  <2>1. /\ out' = Append(out, This) /\ stage # "page" /\ answer' = None /\ fed' = fed
        /\ This \in URL
    BY <1>5, ThisType DEF Accepted, Consume, More
  <2>2. /\ \A i \in DOMAIN out : i \in DOMAIN out' /\ out'[i] = out[i]
        /\ Len(out) + 1 \in DOMAIN out' /\ out'[Len(out) + 1] = This
    BY <1>0, <2>1
  <2>3. ASSUME NEW a \in fed, a.status = "200" PROVE Offered(a.from)' \/ Offered(a.final)'
    BY <2>1, <2>2, <2>3 DEF Found, Handled, Offered
  <2> QED BY <2>1, <2>3 DEF Found, Handled
<1>6. CASE Finish \/ Skip
  <2>1. answer = None
    BY <1>6 DEF Finish, Skip, TriedInv, Turn, Pending
  <2> QED BY <1>1, <1>6, <2>1 DEF Finish, Skip, clientVars
<1>7. CASE Client
  <2>1. /\ get # None /\ answer = None
        /\ get' # None => answer' = answer
        /\ answer' # None => get' = None
        /\ get.from = IF stage = "page" THEN root ELSE This
        /\ UNCHANGED <<stage, root, links, next, out>>
    BY <1>7, GetFrom DEF Client, callVars, TypeOK, TriedInv, Turn
  <2>2. This' = This
    BY <2>1 DEF This, Probe
  <2>3. \A a \in fed : a.status = "200" => Offered(a.from) \/ Offered(a.final)
    BY <2>1 DEF Found, Handled
  <2>4. \A a \in fed : a.status = "200" => Offered(a.from)' \/ Offered(a.final)'
    BY <2>1, <2>3 DEF Offered
  <2>5. CASE answer' # None /\ answer'.body = Feed
    <3>0. PICK b :
            b = [from |-> get.from, final |-> answer'.final, status |-> answer'.status]
      OBVIOUS
    <3>1. fed' = fed \cup {b}
      BY <1>7, <2>5, <3>0 DEF Client, Observe
    <3>2. b.status = "200" => Handled(b)'
      BY <2>1, <2>2, <2>5, <3>0 DEF Handled
    <3> QED BY <2>1, <3>0, <2>2, <2>4, <2>5, <3>1, <3>2 DEF Found, Handled
  <2>6. CASE ~(answer' # None /\ answer'.body = Feed)
    <3>1. fed' = fed
      BY <1>7, <2>6 DEF Client, Observe
    <3> QED BY <2>4, <2>6, <3>1 DEF Found, Handled
  <2> QED BY <2>5, <2>6
<1>8. CASE UNCHANGED <<answer, stage, callVars, next, out, fed>>
  BY <1>8 DEF callVars, Found, Handled, Offered, This, Probe
<1> QED BY <1>2, <1>3, <1>4, <1>5, <1>6, <1>7, <1>8
        DEF Next, Discover, CloseIdle, vars, clientVars

LEMMA FoundAlways == Spec => []Found
<1>1. Init => Found
  BY DEF Init, ClientInit, Found
<1> QED BY <1>1, InTurn, FoundStep, PTL DEF Spec

\* Nothing a client could use is left out, for any page, any limit and any
\* mix of fetches that fail.
THEOREM NothingIsMissed == Spec => []NothingMissed
<1>1. TypeOK /\ TriedInv /\ Found => NothingMissed
  <2> SUFFICES ASSUME TypeOK, TriedInv, Found, stage = "done" PROVE NothingMissed
    BY DEF NothingMissed
  <2>1. answer = None
    BY DEF TriedInv, Turn, Pending
  <2>2. \A a \in fed : a.status = "200" => Offered(a.from) \/ Offered(a.final)
    BY <2>1 DEF Found, Handled
  <2> QED BY <2>2 DEF NothingMissed, TriedInv, Tried
<1> QED BY <1>1, InTurn, FoundAlways, PTL
-----------------------------------------------------------------------------
(* What is offered, and in which order.                                      *)

LEMMA FirstPlace ==
  ASSUME NEW n \in DOMAIN links, links \in Seq(URL),
         \A j \in DOMAIN links : j < n => links[j] # links[n]
  PROVE  Place(links[n]) = n
<1> DEFINE P(i) == links[i] = links[n] /\ \A j \in 1..(i - 1) : links[j] # links[n]
<1>1. P(n)
  OBVIOUS
<1>2. \A i \in DOMAIN links : P(i) => i = n
  <2> SUFFICES ASSUME NEW i \in DOMAIN links, P(i) PROVE i = n
    OBVIOUS
  <2>1. i \in Nat /\ n \in Nat /\ i >= 1 /\ n >= 1
    OBVIOUS
  <2>2. CASE i < n
    BY <2>1, <2>2
  <2>3. CASE n < i
    BY <2>1, <2>3
  <2> QED BY <2>1, <2>2, <2>3
<1>3. (CHOOSE i \in DOMAIN links : P(i)) = n
  BY <1>1, <1>2
<1> QED BY <1>3 DEF Place

IsOffer(u) == IF seen = {} THEN \E a \in fed : a.final = u ELSE AnsweredFeed(u)

\* The feeds offered are among the URLs tried, were feeds, and come in the
\* order of their first places in the page; the one under way is not offered.
InOrder ==
  /\ stage \in {"page", "links", "probes"} => \A i \in DOMAIN out : out[i] \in seen
  /\ \A i \in DOMAIN out : IsOffer(out[i])
  /\ \A i, j \in DOMAIN out : out[i] = out[j] => i = j
  /\ Pending /\ stage # "page" => \A i \in DOMAIN out : out[i] # This
  /\ stage = "links" =>
       /\ \A i \in DOMAIN out : Place(out[i]) \in 1..(next - 1)
       /\ \A i, j \in DOMAIN out : i < j => Place(out[i]) < Place(out[j])
       /\ Pending => Place(This) = next

LEMMA NewOffer ==
  ASSUME TypeOK, InOrder, NEW u \in seen, IsOffer(u), \A i \in DOMAIN out : out[i] # u,
         out' = Append(out, u), next' = next + 1, UNCHANGED <<seen, fed, links>>,
         get' = None, answer' = None,
         stage' \in {"links", "done"},
         stage' = "links" => stage = "links" /\ Place(u) = next
  PROVE  InOrder'
<1>1. /\ out \in Seq(URL) /\ next \in Nat \ {0} /\ Len(out) \in Nat
      /\ DOMAIN out = 1..Len(out) /\ DOMAIN out' = 1..(Len(out) + 1)
      /\ \A i \in DOMAIN out : out'[i] = out[i]
      /\ out'[Len(out) + 1] = u
  BY DEF TypeOK
<1>2. \A v : IsOffer(v)' <=> IsOffer(v)
  BY DEF IsOffer, AnsweredFeed
<1>3. \A v : Place(v)' = Place(v)
  BY DEF Place
<1>4. \A i \in DOMAIN out' : IsOffer(out'[i])
  BY <1>1 DEF InOrder
<1>5. \A i, j \in DOMAIN out' : out'[i] = out'[j] => i = j
  BY <1>1 DEF InOrder
<1>6. ASSUME stage' = "links"
      PROVE  /\ \A i \in DOMAIN out' : out'[i] \in seen
             /\ \A i \in DOMAIN out' : Place(out'[i]) \in 1..next
             /\ \A i, j \in DOMAIN out' : i < j => Place(out'[i]) < Place(out'[j])
  <2>1. \A i \in DOMAIN out : Place(out[i]) \in 1..(next - 1) /\ out[i] \in seen
    BY <1>6 DEF InOrder
  <2>2. ASSUME NEW i \in DOMAIN out', NEW j \in DOMAIN out', i < j
        PROVE  Place(out'[i]) < Place(out'[j])
    <3>1. i \in DOMAIN out
      BY <1>1, <2>2
    <3>2. CASE j \in DOMAIN out
      BY <1>1, <1>6, <2>2, <3>1, <3>2 DEF InOrder
    <3>3. CASE j = Len(out) + 1
      BY <1>1, <1>6, <2>1, <3>1, <3>3
    <3> QED BY <1>1, <3>2, <3>3
  <2> QED BY <1>1, <1>6, <2>1, <2>2
<1> QED BY <1>1, <1>2, <1>3, <1>4, <1>5, <1>6 DEF InOrder, Pending

LEMMA InOrderStep ==
  TypeOK /\ TriedInv /\ Found /\ InOrder /\ Connected /\ [Next]_vars => InOrder'
<1> SUFFICES ASSUME TypeOK, TriedInv, Found, InOrder, Connected, [Next]_vars
             PROVE  InOrder'
  OBVIOUS
<1>0. /\ out \in Seq(URL) /\ links \in Seq(URL) /\ next \in Nat \ {0}
  BY DEF TypeOK
<1> DEFINE Same == UNCHANGED <<stage, root, links, next, seen, out>>
<1>1. ASSUME Same, fed \subseteq fed', Pending' => Pending PROVE InOrder'
  <2>1. Place(This)' = Place(This) /\ This' = This /\ \A v : Place(v)' = Place(v)
    BY <1>1 DEF Place, This, Probe
  <2>2. \A v : IsOffer(v) => IsOffer(v)'
    BY <1>1 DEF IsOffer, AnsweredFeed
  <2> QED BY <1>1, <2>1, <2>2 DEF InOrder
<1>2. CASE GetPage
  BY <1>2 DEF GetPage, Get, callVars, TriedInv, Tried, InOrder
<1>3. CASE PageFails
  BY <1>3 DEF PageFails, Consume, callVars, TriedInv, Tried, InOrder
<1>4. CASE PageIsFeed
  <2>1. /\ out' = <<answer.final>> /\ seen' = {} /\ fed' = fed /\ stage' = "done"
    BY <1>4 DEF PageIsFeed, TriedInv, Tried
  <2>2. \E a \in fed : a.final = answer.final
    BY <1>4 DEF PageIsFeed, Consume, Found
  <2>3. DOMAIN out' = {1} /\ out'[1] = answer.final
    BY <2>1
  <2>4. \A i \in DOMAIN out' : out'[i] = answer.final /\ i = 1
    BY <2>3
  <2>5. \A i \in DOMAIN out' : \E a \in fed' : a.final = out'[i]
    BY <2>1, <2>2, <2>4
  <2>6. \A i \in DOMAIN out' : IsOffer(out[i])'
    BY <2>1, <2>5 DEF IsOffer
  <2>7. ~Pending'
    BY <1>4 DEF PageIsFeed, Consume, TriedInv, Turn, Pending
  <2> QED BY <2>1, <2>4, <2>6, <2>7 DEF InOrder
<1>5. CASE PageDeclares
  <2>1. out' = <<>> /\ stage' = "links"
    BY <1>5 DEF PageDeclares, TriedInv, Tried
  <2>2. get' = None /\ answer' = None
    BY <1>5 DEF PageDeclares, Consume, TriedInv, Turn
  <2> QED BY <2>1, <2>2 DEF InOrder, Pending
<1>6. CASE Try
  <2>1. /\ This' = This /\ This \notin seen /\ seen' = seen \cup {This} /\ More
        /\ UNCHANGED <<stage, root, links, next, out, fed>>
    BY <1>6 DEF Try, callVars, This, Probe
  <2>2. stage \in {"links", "probes"} /\ \A i \in DOMAIN out : out[i] \in seen
    BY <2>1 DEF More, InOrder
  <2>3. \A v : Place(v)' = Place(v)
    BY <2>1 DEF Place
  <2>4. stage = "links" => Place(This) = next
    <3> SUFFICES ASSUME stage = "links" PROVE Place(This) = next
      OBVIOUS
    <3>1. next \in DOMAIN links /\ This = links[next] /\ Len(out) < MaxCandidates
      BY <1>0, <1>6, <2>1 DEF Try, More, This
    <3>2. \A j \in DOMAIN links : j < next => links[j] \in seen
      BY <1>0, <3>1, Constants DEF TriedInv, Tried
    <3>3. \A j \in DOMAIN links : j < next => links[j] # links[next]
      BY <2>1, <3>1, <3>2
    <3> QED BY <1>0, <3>1, <3>3, FirstPlace
  <2>5. \A i \in DOMAIN out : IsOffer(out[i])'
    BY <2>1, <2>2 DEF InOrder, IsOffer, AnsweredFeed
  <2> QED BY <2>1, <2>2, <2>3, <2>4, <2>5 DEF InOrder
<1>7. CASE Skip \/ Rejected
  <2>1. /\ UNCHANGED <<stage, links, seen, out, fed>> /\ next' = next + 1
        /\ get' = None /\ answer' = None
    BY <1>7 DEF Skip, Rejected, Consume, clientVars, callVars, TriedInv, Turn
  <2>2. \A v : (Place(v)' = Place(v)) /\ (IsOffer(v)' <=> IsOffer(v))
    BY <2>1 DEF Place, IsOffer, AnsweredFeed
  <2>3. stage = "links" => \A i \in DOMAIN out : Place(out[i]) \in 1..next
    BY <1>0 DEF InOrder
  <2> QED BY <1>0, <2>1, <2>2, <2>3 DEF InOrder, Pending
<1>8. CASE Accepted
  <2>1. /\ More /\ Pending /\ stage # "page" /\ This \in seen
        /\ \A i \in DOMAIN out : out[i] # This
        /\ stage = "links" => Place(This) = next
    BY <1>8 DEF Accepted, Consume, More, Pending, TriedInv, Turn, InOrder
  <2>2. IsOffer(This)
    BY <1>8, <2>1 DEF Accepted, Consume, IsFeed, Found, IsOffer, AnsweredFeed
  <2>3. get' = None /\ answer' = None
    BY <1>8 DEF Accepted, Consume, TriedInv, Turn
  <2> QED BY <1>8, <2>1, <2>2, <2>3, NewOffer DEF Accepted, callVars, More
<1>9. CASE Finish
  <2>1. /\ UNCHANGED <<seen, out, fed>> /\ stage' \in {"probes", "done"} /\ ~Pending'
        /\ stage \in {"links", "probes"}
    BY <1>9 DEF Finish, clientVars, TriedInv, Turn, Pending
  <2>2. \A v : IsOffer(v)' <=> IsOffer(v)
    BY <2>1 DEF IsOffer, AnsweredFeed
  <2> QED BY <2>1, <2>2 DEF InOrder
<1>10. CASE Client
  <2>1. Same /\ fed \subseteq fed' /\ Pending
    BY <1>10, GetFrom DEF Client, Observe, callVars, Pending, TypeOK
  <2> QED BY <1>1, <2>1
<1>11. CASE UNCHANGED <<get, answer, stage, callVars, next, seen, out, fed>>
  BY <1>1, <1>11 DEF callVars, Pending
<1> QED BY <1>2, <1>3, <1>4, <1>5, <1>6, <1>7, <1>8, <1>9, <1>10, <1>11
        DEF Next, Discover, CloseIdle, vars, clientVars

\* Every candidate was fetched and was a feed, none is offered twice, and they
\* come in the page's order.
THEOREM OnlyFeeds == Spec => []Candidates
<1>1. Init => InOrder
  BY DEF Init, ClientInit, InOrder, Pending
<1>2. TypeOK /\ InOrder => Candidates
  BY DEF InOrder, IsOffer, Candidates
<1> QED BY <1>1, <1>2, InTurn, FoundAlways, InOrderStep, PTL DEF Spec
=============================================================================
