----------------------------- MODULE MCSchedule -----------------------------
(* DefaultConfig for TLC, in seconds, with publishers that ask for nothing,  *)
(* for too little, for a little and for too much.                            *)
EXTENDS Schedule

Channel(ttl, period, freq) == [ttl |-> ttl, period |-> period, freq |-> freq]

SomeChannels ==
  {Channel(0, "other", 0), Channel(1, "daily", 1), Channel(7, "other", 3),
   Channel(-5, "hourly", 4), Channel(0, "hourly", 90), Channel(0, "weekly", -1)}

SomeHeaders ==
  {[form |-> "absent", n |-> 0], [form |-> "seconds", n |-> 3000],
   [form |-> "seconds", n |-> -3], [form |-> "date", n |-> 24000],
   [form |-> "date", n |-> -60]}
=============================================================================
