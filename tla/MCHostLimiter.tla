--------------------------- MODULE MCHostLimiter ---------------------------
(* Three goroutines and two hosts, with the sets TLC is given.               *)
EXTENDS HostLimiter
=============================================================================
