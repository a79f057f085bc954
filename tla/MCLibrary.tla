------------------------------ MODULE MCLibrary ------------------------------
EXTENDS Library

Hub(host, owner) == [host |-> host, owner |-> owner, name |-> "n"]

\* One repository under both spellings of its host, a fork, a stranger on the
\* same remote, a copy without a remote and an empty clone.
SomeRepos ==
    {[lineage |-> "L1", remote |-> Hub("hub", "o")],
     [lineage |-> "L1", remote |-> Hub("alias", "o")],
     [lineage |-> "L1", remote |-> Hub("hub", "fork")],
     [lineage |-> "L2", remote |-> Hub("hub", "o")],
     [lineage |-> "L1", remote |-> None],
     [lineage |-> None, remote |-> None]}

SomeListings ==
    {[remote |-> Hub("hub", "o"), id |-> 1, fork |-> FALSE],
     [remote |-> Hub("alias", "o"), id |-> 2, fork |-> FALSE],
     [remote |-> Hub("hub", "fork"), id |-> 3, fork |-> TRUE],
     [remote |-> Hub("lab", "o"), id |-> 4, fork |-> FALSE]}

TheAliases == {"hub", "alias"}

Nothing == [moves |-> 0, scans |-> 0, listings |-> 0, relocations |-> 0,
            uninstalls |-> 0, clones |-> 0, crashes |-> 0]

\* Paths differ in name alone.
PathSymmetry == Permutations(Paths)

SomeScenarios ==
    {[Nothing EXCEPT !.moves = 2, !.scans = 2, !.listings = 2],
     [Nothing EXCEPT !.moves = 2, !.scans = 2, !.uninstalls = 1, !.relocations = 1],
     [Nothing EXCEPT !.moves = 3, !.scans = 2, !.relocations = 1],
     [Nothing EXCEPT !.moves = 1, !.scans = 1, !.listings = 1, !.clones = 1,
                     !.uninstalls = 1, !.crashes = 1]}

===============================================================================
