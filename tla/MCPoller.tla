------------------------------ MODULE MCPoller ------------------------------
(* Small instances of Poller for TLC.                                        *)
EXTENDS Poller, TLC

CONSTANTS a, b

\* Two feeds of one publisher, or of two.
OneHost  == [u \in {a} |-> 1]
SameHost == [u \in {a, b} |-> 1]
TwoHosts == [u \in {a, b} |-> IF u = a THEN 1 ELSE 2]

\* Nothing tells two feeds of the same publisher apart.
Alike == Permutations({a, b})
=============================================================================
