----------------------------- MODULE MCPollLoop -----------------------------
(* Feeds that share one worker and a handler, for TLC.                       *)
EXTENDS PollLoop
=============================================================================
