----------------------------- MODULE MCTimeline -----------------------------
(* Every table of five items with the times, hashes and titles given.        *)
EXTENDS Timeline
=============================================================================
