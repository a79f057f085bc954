--------------------------- MODULE MCJobScheduler ---------------------------
(* Instances of JobScheduler for TLC. *)
EXTENDS JobScheduler, TLC

CONSTANTS w1, w2, p1, l1, l2, s1

TwoWorkers   == {w1, w2}
OneProject   == {p1}
OneLocation  == {l1}
SameProject  == [l \in Locations |-> p1]
None         == {}
OneStore     == {s1}
OnOneStore   == [l \in Locations |-> s1]
Caps12       == {1, 2}
\* J4 succeeds or is retried, J7 stops at a chunk boundary or fails for good.
SomeOutcomes == [k \in Kinds |-> CASE k \in {"j1", "j1_5"} -> {"done"}
                                   [] k = "j4"            -> {"done", "transient"}
                                   [] k = "j7"            -> {"partial", "hard"}
                                   [] OTHER               -> {"hard"}]
=============================================================================
