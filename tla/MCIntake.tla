------------------------------ MODULE MCIntake ------------------------------
(* A small instance of Intake for TLC: two articles, entries that differ in  *)
(* what identifies them and in their dates.                                  *)
EXTENDS Intake, TLC

CONSTANTS x, y

\* Nothing tells the two apart.
Articles == Permutations({x, y})

E(guid, url, date) == [guid |-> guid, url |-> url, title |-> "t", date |-> date]

MCEntry == {E("g", "u", 0), E("g", "v", None), E(None, "u", 1),
            E(None, None, 1), E(None, None, 9), E(None, None, None)}
=============================================================================
