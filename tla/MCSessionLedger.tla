--------------------------- MODULE MCSessionLedger ---------------------------
(* Small instances of SessionLedger: one or two projects, and the ways the *)
(* two clocks may leap.                                                    *)
EXTENDS SessionLedger, TLC

CONSTANTS projA, projB

Symmetry == Permutations(Projects)

TwoProjects == {projA, projB}

NoFault == [jumps |-> 0, crashes |-> 0, refusals |-> 0, deaf |-> 0, errors |-> 0,
            met |-> FALSE]
Short == [launches |-> 2, waits |-> {FALSE}, of |-> Projects, inputs |-> 1, until |-> 5]
Long(p) == [launches |-> 1, waits |-> BOOLEAN, of |-> {p}, inputs |-> 4, until |-> 12]

OnOneProject(b) == {[b EXCEPT !.of = {p}] : p \in Projects}

(* One session to its end, with a crash.  Or two of any projects with a    *)
(* crash, a clock jump, or a refused transaction and a refused watch; or   *)
(* two of one project with a jump and a crash, or an error of the watcher. *)
SomeBudgets ==
  {[NoFault EXCEPT !.crashes = 1] @@ Long(p) : p \in Projects} \cup
  {[NoFault EXCEPT !.crashes = 1] @@ Short,
   [NoFault EXCEPT !.jumps = 1] @@ Short,
   [NoFault EXCEPT !.refusals = 1, !.deaf = 1] @@ Short} \cup
  OnOneProject([NoFault EXCEPT !.crashes = 1, !.jumps = 1] @@ Short) \cup
  OnOneProject([NoFault EXCEPT !.errors = 1] @@ Short)

(* Two sessions and no trouble: WatchedIsHeard does not hold on it.        *)
Untroubled == {NoFault @@ Short}

(* The wall clock set back, and a sleep.                                *)
TwoJumps == {<<-3, 0>>, <<3, 3>>}
==============================================================================
