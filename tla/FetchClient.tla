---------------------------- MODULE FetchClient ----------------------------
(* One GET of the guarded client of src/internal/fetch: the URL check, the   *)
(* dial, redirects with the same check on each hop, the transport's idle     *)
(* connections.  Every lookup of a name may have another answer.             *)
EXTENDS Integers, FiniteSets, Sequences

CONSTANTS
  Host, Path,
  Wellformed,    \* URLs whose scheme, port, userinfo and name pass CheckURL
  Addr,          \* IP addresses
  Allowed,       \* those AllowIP lets through
  MaxRedirects,  \* Options.MaxRedirects
  Targets,       \* BOUND: where publishers redirect to
  Body,          \* documents
  None

URL == [scheme : {"http", "https"}, host : Host, path : Path]

\* 200, another success, anything else; "error" is Get returning an error.
Status == {"200", "2xx", "other", "error"}
Answer == [status : Status, body : Body \cup {None}, final : URL]

Call == [pc : {"check", "send", "wait"}, from : URL, at : URL, via : Nat,
         conn : Addr \cup {None}]

Site(u) == [scheme |-> u.scheme, host |-> u.host]
Conn    == [site : [scheme : {"http", "https"}, host : Host], addr : Addr]

ASSUME FetchClientAssumption ==
  /\ Wellformed \subseteq URL /\ Targets \subseteq URL
  /\ Allowed \subseteq Addr
  /\ MaxRedirects \in Nat \ {0}
  /\ None \notin Addr \cup Body \cup Call \cup Answer

VARIABLES
  get,     \* the Get under way
  answer,  \* what it returned
  pool     \* the transport's idle connections

clientVars == <<get, answer, pool>>

ClientTypeOK ==
  /\ get \in Call \cup {None}
  /\ answer \in Answer \cup {None}
  /\ pool \subseteq Conn

ClientInit ==
  /\ get = None
  /\ answer = None
  /\ pool = {}

-----------------------------------------------------------------------------
At(pc) == get # None /\ get.pc = pc

Get(u) ==
  /\ get = None /\ answer = None
  /\ get' = [pc |-> "check", from |-> u, at |-> u, via |-> 0, conn |-> None]
  /\ UNCHANGED <<answer, pool>>

Return(status, body) ==
  /\ answer' = [status |-> status, body |-> body, final |-> get.at]
  /\ get' = None

\* A refusal, a failed lookup, a dial that fails, the timeout, a body above the cap.
Error ==
  /\ get # None
  /\ Return("error", None)
  /\ UNCHANGED pool

\* One address that is not allowed fails the name; so does having none.
Vetted(addrs) == addrs # {} /\ addrs \subseteq Allowed

CheckURL ==
  /\ At("check")
  /\ get.at \in Wellformed
  /\ \E addrs \in SUBSET Addr : Vetted(addrs)
  /\ get' = [get EXCEPT !.pc = "send"]
  /\ UNCHANGED <<answer, pool>>

\* An idle connection to the same scheme and host is used before one is made.
Reuse ==
  /\ At("send")
  /\ \E c \in pool :
       /\ c.site = Site(get.at)
       /\ get' = [get EXCEPT !.pc = "wait", !.conn = c.addr, !.via = @ + 1]
       /\ pool' = pool \ {c}
  /\ UNCHANGED answer

\* Mutant: the name was checked, so any address it has now will do.
DialContext_Trusts ==
  /\ At("send")
  /\ \E addrs \in SUBSET Addr : \E a \in addrs :
       get' = [get EXCEPT !.pc = "wait", !.conn = a, !.via = @ + 1]
  /\ UNCHANGED <<answer, pool>>

\* Resolves the name again, and connects to one of the addresses.
DialContext ==
  /\ At("send")
  /\ \E addrs \in SUBSET Addr : \E a \in addrs :
       /\ Vetted(addrs)
       /\ get' = [get EXCEPT !.pc = "wait", !.conn = a, !.via = @ + 1]
  /\ UNCHANGED <<answer, pool>>

\* The connection of the request that was answered may be kept.
KeepConn ==
  \/ pool' = pool
  \/ pool' = pool \cup {[site |-> Site(get.at), addr |-> get.conn]}

Downgrades(u) == get.from.scheme = "https" /\ u.scheme # "https"

Follow(u) == [get EXCEPT !.pc = "check", !.at = u, !.conn = None]

\* Mutant: the limit is not checked.
Redirect_Unlimited ==
  /\ At("wait")
  /\ \E u \in Targets : ~Downgrades(u) /\ get' = [Follow(u) EXCEPT !.via = 1]
  /\ KeepConn
  /\ UNCHANGED answer

\* CheckRedirect; the requests made so far are len(via).
Redirect ==
  /\ At("wait")
  /\ get.via < MaxRedirects
  /\ \E u \in Targets : ~Downgrades(u) /\ get' = Follow(u)
  /\ KeepConn
  /\ UNCHANGED answer

Respond ==
  /\ At("wait")
  /\ \E status \in Status \ {"error"}, body \in Body : Return(status, body)
  /\ KeepConn

CloseIdle ==
  /\ \E c \in pool : pool' = pool \ {c}
  /\ UNCHANGED <<get, answer>>

GetStep ==
  Error \/ CheckURL \/ Reuse \/ DialContext \/ Redirect \/ Respond
=============================================================================
