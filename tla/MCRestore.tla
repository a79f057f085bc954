------------------------------- MODULE MCRestore -------------------------------
EXTENDS Restore

CONSTANTS a, b, c, L, M, N

Alone3    == (a :> M @@ b :> N @@ c :> L)
Forge     == [q \in Paths |-> [host |-> "forge", owner |-> "me", name |-> q]]
Repo(q, lineage, remote) == [lineage |-> lineage, remote |-> remote, common |-> q]

Some == [disk |-> [q \in Paths |-> None], commits |-> 0, remotes |-> 0, awards |-> 2,
         exports |-> 2, corruptions |-> 2]

\* Two repositories without a commit, and one with.
Unborn  == (a :> Repo(a, None, None) @@ b :> Repo(b, None, None) @@ c :> Repo(c, L, None))
\* A repository, its linked worktree, and another.
Linked  == (a :> Repo(a, None, None) @@ b :> Repo(a, None, None) @@ c :> Repo(c, L, Forge[c]))
\* A clone and a copy of it without its remote, and an unborn one.
Copied  == (a :> Repo(a, L, Forge[a]) @@ b :> Repo(b, L, None) @@ c :> Repo(c, None, None))

SomeScenarios ==
    {[Some EXCEPT !.disk = Unborn, !.commits = 1, !.remotes = 1, !.awards = 1, !.corruptions = 1],
     [Some EXCEPT !.disk = Linked, !.commits = 1, !.awards = 1, !.exports = 1],
     [Some EXCEPT !.disk = Copied, !.corruptions = 1]}

\* An instance on which SubjectsSurvive does not hold.
WalkedTwice == {[Some EXCEPT !.disk = Copied, !.awards = 0, !.exports = 1, !.corruptions = 1]}
===============================================================================
