------------------------------ MODULE Discovery ------------------------------
(* POST /v1/discover: Discover of src/internal/discover over the client.  One *)
(* call: the page, then the links it declares, then conventional paths.      *)
EXTENDS FetchClient

CONSTANTS
  Feed,           \* a Body that parses as one; any other is its declared links
  Start,          \* BOUND: the URLs clients post
  ProbePaths,     \* Discoverer.ProbePaths, in order
  MaxCandidates   \* Discoverer.MaxCandidates

ASSUME DiscoveryAssumption ==
  /\ Start \subseteq URL
  /\ ProbePaths \in Seq(Path)
  /\ MaxCandidates \in Nat \ {0}
  /\ Feed \in Body /\ Body \ {Feed} \subseteq Seq(URL)

VARIABLES
  stage,  \* "page", "links", "probes", "done", "failed"
  root,   \* the page's final URL, of which links and probes are resolved
  links,  \* declaredFeeds of the page
  next,   \* the place in links or ProbePaths
  seen,
  out,
  fed     \* OBSERVED: the answers that were feeds

callVars == <<root, links>>
vars == <<clientVars, stage, callVars, next, seen, out, fed>>

TypeOK ==
  /\ ClientTypeOK
  /\ stage \in {"page", "links", "probes", "done", "failed"}
  /\ root \in URL
  /\ links \in Seq(URL)
  /\ next \in Nat \ {0}
  /\ seen \subseteq URL
  /\ out \in Seq(URL)
  /\ fed \subseteq [from : URL, final : URL, status : Status]

Init ==
  /\ ClientInit
  /\ stage = "page"
  /\ root \in Start
  /\ links = <<>>
  /\ next = 1
  /\ seen = {}
  /\ out = <<>>
  /\ fed = {}

-----------------------------------------------------------------------------
\* The loop's body returns with what Get said.
Consume ==
  /\ answer # None
  /\ answer' = None
  /\ UNCHANGED <<get, pool>>

GetPage ==
  /\ stage = "page"
  /\ Get(root)
  /\ UNCHANGED <<stage, callVars, next, seen, out, fed>>

Success == answer.status \in {"200", "2xx"}

PageFails ==
  /\ stage = "page" /\ Consume
  /\ ~Success
  /\ stage' = "failed"
  /\ UNCHANGED <<callVars, next, seen, out, fed>>

\* Any success will do here, and it is the final URL that is the feed's.
PageIsFeed ==
  /\ stage = "page" /\ Consume
  /\ Success /\ answer.body = Feed
  /\ stage' = "done"
  /\ out' = <<answer.final>>
  /\ UNCHANGED <<callVars, next, seen, fed>>

\* Mutant: the error of Get is not looked at.
PageDeclares_Unchecked ==
  /\ stage = "page" /\ Consume
  /\ answer.body # Feed
  /\ stage' = "links"
  /\ root' = answer.final
  /\ links' = answer.body
  /\ UNCHANGED <<next, seen, out, fed>>

PageDeclares ==
  /\ stage = "page" /\ Consume
  /\ Success /\ answer.body # Feed
  /\ stage' = "links"
  /\ root' = answer.final
  /\ links' = answer.body
  /\ UNCHANGED <<next, seen, out, fed>>

-----------------------------------------------------------------------------
Probe(i) == [root EXCEPT !.path = ProbePaths[i]]

\* The URL whose turn it is.
More == \/ stage = "links" /\ next <= Len(links)
        \/ stage = "probes" /\ next <= Len(ProbePaths)
This == IF stage = "links" THEN links[next] ELSE Probe(next)

Try ==
  /\ More
  /\ This \notin seen
  /\ stage = "links" => Len(out) < MaxCandidates
  /\ Get(This)
  /\ seen' = seen \cup {This}
  /\ UNCHANGED <<stage, callVars, next, out, fed>>

\* Mutant: as many links are tried as may be found.
Skip_Tried ==
  /\ More /\ get = None /\ answer = None
  /\ This \in seen \/ (stage = "links" /\ Cardinality(seen) >= MaxCandidates)
  /\ next' = next + 1
  /\ UNCHANGED <<clientVars, stage, callVars, seen, out, fed>>

Skip ==
  /\ More /\ get = None /\ answer = None
  /\ This \in seen \/ (stage = "links" /\ Len(out) >= MaxCandidates)
  /\ next' = next + 1
  /\ UNCHANGED <<clientVars, stage, callVars, seen, out, fed>>

IsFeed == answer.status = "200" /\ answer.body = Feed

Rejected ==
  /\ More /\ Consume
  /\ ~IsFeed
  /\ next' = next + 1
  /\ UNCHANGED <<stage, callVars, seen, out, fed>>

\* Mutant: the status is not looked at.
Accepted_AnyStatus ==
  /\ More /\ Consume
  /\ answer.body = Feed
  /\ next' = next + 1
  /\ out' = Append(out, This)
  /\ stage' = IF stage = "probes" THEN "done" ELSE stage
  /\ UNCHANGED <<callVars, seen, fed>>

\* One working conventional path is enough.
Accepted ==
  /\ More /\ Consume
  /\ IsFeed
  /\ next' = next + 1
  /\ out' = Append(out, This)
  /\ stage' = IF stage = "probes" THEN "done" ELSE stage
  /\ UNCHANGED <<callVars, seen, fed>>

Finish ==
  /\ ~More /\ stage \in {"links", "probes"}
  /\ IF stage = "links" /\ out = <<>>
     THEN stage' = "probes" /\ next' = 1
     ELSE stage' = "done" /\ next' = next
  /\ UNCHANGED <<clientVars, callVars, seen, out, fed>>

Discover ==
  \/ GetPage \/ PageFails \/ PageIsFeed \/ PageDeclares
  \/ Try \/ Skip \/ Rejected \/ Accepted \/ Finish

Observe ==
  fed' = IF answer' # None /\ answer'.body = Feed
         THEN fed \cup {[from |-> get.from, final |-> answer'.final,
                         status |-> answer'.status]}
         ELSE fed

Client ==
  /\ GetStep
  /\ Observe
  /\ UNCHANGED <<stage, callVars, next, seen, out>>

Next ==
  \/ Discover
  \/ Client
  \/ CloseIdle /\ UNCHANGED <<stage, callVars, next, seen, out, fed>>

\* The handler's goroutine runs on and every Get ends: the publisher answers
\* or the client's timeout does.  Nothing is said of which it is, so that
\* a chain of redirects is not ended by the timeout.
Spec == Init /\ [][Next]_vars /\ WF_vars(Discover) /\ WF_vars(Client)

-----------------------------------------------------------------------------
(* Properties.                                                               *)

\* README.md:55-58, "re-checked at dial time and on each redirect hop":
\* whatever a name resolved to when its URL was checked, every request of the
\* call, on a new connection or a kept one, goes to an address that is
\* allowed.  And a Get that began over https sends nothing over http, whatever
\* its redirects say; one that began over http may go to https and back.
Guarded ==
  /\ get # None => /\ get.conn \in Allowed \cup {None}
                   /\ get.from.scheme = "https" => get.at.scheme = "https"
  /\ \A c \in pool : c.addr \in Allowed

Place(u) == CHOOSE i \in DOMAIN links : links[i] = u /\ \A j \in 1..(i - 1) : links[j] # u

AnsweredFeed(u) == \E a \in fed : a.from = u /\ a.status = "200"

\* What is offered to a client was fetched as it stands and was a feed, is
\* offered once, and in the order the page declares.
Candidates ==
  /\ \A i, j \in DOMAIN out : out[i] = out[j] => i = j
  /\ \A i \in DOMAIN out :
       IF seen = {} THEN \E a \in fed : a.final = out[i] ELSE AnsweredFeed(out[i])
  /\ stage = "links" =>
       \A i, j \in DOMAIN out : i < j => Place(out[i]) < Place(out[j])

Offered(u) == \E i \in DOMAIN out : out[i] = u

\* Nothing a client could use is left out: links are left untried only if
\* the cap is reached, paths only if a feed was found, and a feed that was
\* found is offered, though every fetch may fail on its own.
NothingMissed ==
  stage = "done" =>
    /\ \A a \in fed : a.status = "200" => Offered(a.from) \/ Offered(a.final)
    /\ seen # {} /\ Len(out) < MaxCandidates => \A i \in DOMAIN links : links[i] \in seen
    /\ out = <<>> => \A i \in DOMAIN ProbePaths : Probe(i) \in seen

\* The call ends, whatever pages declare and publishers redirect to.
Ends == <>(stage \in {"done", "failed"})
=============================================================================
