------------------------------ MODULE MCServer ------------------------------
(* A small instance of Server for TLC.                                       *)
EXTENDS Server

CONSTANT a

\* Its URL does not parse: the two fetches of it never wait for each other.
NoHost == [u \in {a} |-> None]
=============================================================================
