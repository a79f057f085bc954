-------------------------------- MODULE Restore --------------------------------
(***************************************************************************)
(* What a rebuild gives back to each project.  What no scan can derive     *)
(* again of a project - notes, flags, sessions, the XP it was paid - rides *)
(* in the sidecar as a record keyed on the project's subject               *)
(* (index/subject.rs, index/sidecar.rs); a rebuild stages the records in   *)
(* the new index, and the hand-off that finds the subject again applies    *)
(* them (index/pending.rs).  Until then a writer of retained XP is held    *)
(* back, so that a restored row is not paid a second time (ledger/).       *)
(*                                                                         *)
(* Paths are walked in any order, each any number of times: the walk is    *)
(* parallel and a rebuild starts it over.  Identity decides which project  *)
(* a find belongs to.                                                      *)
(*                                                                         *)
(* Abstracted: of a record, its retained rows alone; of the retained kinds *)
(* one, a once-ever award, whose gates are any answer; the rest of a J4    *)
(* than that it ended.  Removed copies and projects without a copy are not *)
(* here: what a rebuild keeps is IndexRecovery's, file by file.            *)
(***************************************************************************)
EXTENDS Identity

CONSTANTS
    Paths,
    Lineages,    \* the lineage a repository's first commit gives it: [Paths -> ...]
    Remotes,     \* the remote its user gives it
    Scenarios    \* [disk, commits, remotes, awards, exports, corruptions]

\* What a scenario's repositories are, and what a commit or a remote makes of them.
Repositories == {s.disk[q] : s \in Scenarios, q \in Paths} \ {None}
AllLineages  == {None} \cup {Lineages[q] : q \in Paths} \cup {r.lineage : r \in Repositories}
AllRemotes   == {None} \cup {Remotes[q] : q \in Paths} \cup {r.remote : r \in Repositories}
Found        == [lineage : AllLineages, remote : AllRemotes, common : Paths]

\* A linked worktree is of a main one's repository and has its lineage: both
\* read the branches and tags they share (identity/lineage.rs).
Families(repos) ==
    \A q \in Paths : repos[q] # None =>
        LET main == repos[repos[q].common]
        IN  main # None => main.common = repos[q].common /\ main.lineage = repos[q].lineage

ASSUME RestoreAssumption ==
    /\ None \notin Found
    /\ Scenarios \subseteq [disk : [Paths -> Found \cup {None}], commits : Nat, remotes : Nat,
                            awards : Nat, exports : Nat, corruptions : Nat]
    /\ \A s \in Scenarios : Families(s.disk)

VARIABLES
    disk,        \* [Paths -> a repository or None]
    db,          \* the index's projects and copies
    concluded,   \* the projects whose history job ended, well or not
    xpEvents,    \* its retained rows; `of` is history: the copy paid for
    pending,     \* sidecar_pending
    sidecar,     \* the document: the records of each project, and the pending rows
    moved,       \* history: the paths whose repository changed once it was known
    left         \* of the scenario, what may still happen

restoreVars == <<disk, db, concluded, xpEvents, pending, sidecar, moved, left>>

NoDocument == [projects |-> {}, pending |-> {}]

RestoreInit ==
    /\ \E s \in Scenarios : left = s /\ disk = s.disk
    /\ db = NoIndex
    /\ concluded = {}
    /\ xpEvents = {}
    /\ pending = {}
    /\ sidecar = NoDocument
    /\ moved = {}

Spend(what) == left[what] > 0 /\ left' = [left EXCEPT ![what] = @ - 1]

-----------------------------------------------------------------------------
(* Subjects                                                                 *)

LowestCopy(i, p) == i.locations[First(Copies(i, p))]

\* The facts of a repository without a commit taken for a lineage.
SubjectUnborn(i, p) == <<"lineage", i.projects[p].lineage, i.projects[p].remote>>

\* subject_for_project: lineage and remote, or the lowest copy's path.  Every
\* project here has a copy.
Subject(i, p) ==
    IF i.projects[p].lineage # None
    THEN <<"lineage", i.projects[p].lineage, i.projects[p].remote>>
    ELSE <<"path", LowestCopy(i, p).key>>

\* live_holders: of a path, every project with a copy there.
Holders(i, subject) ==
    IF subject[1] = "path"
    THEN {i.locations[l].project : l \in At(i, subject[2])}
    ELSE {p \in Live(i) : <<"lineage", i.projects[p].lineage, i.projects[p].remote>> = subject}

\* claims: a record on p's subject is the one holder's, or the one's whose
\* copies it names, or nobody's.
Owners(i, r) ==
    LET holders == Holders(i, r.subject)
        named   == {p \in holders : \E l \in Copies(i, p) : i.locations[l].key \in r.keys}
    IN  IF Cardinality(holders) = 1 THEN holders ELSE named

Claimed(i, p, staged) ==
    {r \in staged : r.subject = Subject(i, p) /\ Owners(i, r) = {p}}

-----------------------------------------------------------------------------
(* The user's disk                                                          *)

\* The index, or a record of it, knows the repository at q as it is.
Known(q) ==
    \/ At(db, q) # {}
    \/ \E r \in pending \cup sidecar.projects \cup sidecar.pending : q \in r.keys

\* The first commit: a repository gets its lineage, and its linked worktrees do.
Commit(q) ==
    /\ disk[q] # None /\ disk[q].common = q /\ disk[q].lineage = None
    /\ Spend("commits")
    /\ disk' = [x \in Paths |-> IF disk[x] # None /\ disk[x].common = q
                                THEN [disk[x] EXCEPT !.lineage = Lineages[q]] ELSE disk[x]]
    /\ moved' = IF Known(q) THEN moved \cup {q} ELSE moved
    /\ UNCHANGED <<db, concluded, xpEvents, pending, sidecar>>

AddRemote(q) ==
    /\ disk[q] # None /\ disk[q].common = q /\ disk[q].remote = None
    /\ Spend("remotes")
    /\ disk' = [x \in Paths |-> IF disk[x] # None /\ disk[x].common = q
                                THEN [disk[x] EXCEPT !.remote = Remotes[q]] ELSE disk[x]]
    /\ moved' = IF Known(q) THEN moved \cup {q} ELSE moved
    /\ UNCHANGED <<db, concluded, xpEvents, pending, sidecar>>

-----------------------------------------------------------------------------
(* The core                                                                 *)

\* apply_project: the rows whose key no row holds.
Applied(p, claimed) ==
    {[project |-> p, key |-> e.key, of |-> e.of] :
        e \in {e \in UNION {r.rows : r \in claimed} : \A x \in xpEvents : x.key # e.key}}

\* A hand-off that leaves what is staged to a later write.
HandOffFoundUnmatched(q) ==
    /\ disk[q] # None
    /\ db' = HandOff(db, disk[q], q, 0)
    /\ UNCHANGED <<disk, concluded, xpEvents, pending, sidecar, moved, left>>

\* hand_off_discovered: the find's project and copy, and in the same transaction
\* match_pending for that project.
HandOffFound(q) ==
    /\ disk[q] # None
    /\ db' = HandOff(db, disk[q], q, 0)
    /\ \E p \in {db'.locations[l].project : l \in At(db', q)} :
          \E claimed \in {Claimed(db', p, pending)} :
            /\ xpEvents' = xpEvents \cup Applied(p, claimed)
            /\ pending' = pending \ claimed
    /\ UNCHANGED <<disk, concluded, sidecar, moved, left>>

\* awaiting_restore: the project's own record waits, or - while its subject is a
\* path - a lineage's that nobody holds; until its history ends.
AwaitingRestore(p) ==
    /\ p \notin concluded
    /\ \/ Claimed(db, p, pending) # {}
       \/ /\ Subject(db, p)[1] = "path"
          /\ \E r \in pending : r.subject[1] = "lineage" /\ Holders(db, r.subject) = {}

\* J4 ends, well or not.
HistoryEnds(p) ==
    /\ p \in DOMAIN db.projects \ concluded
    /\ concluded' = concluded \cup {p}
    /\ UNCHANGED <<disk, db, xpEvents, pending, sidecar, moved, left>>

\* A settle whose evaluator finds the award due: not held, none of the project's
\* own, and none under the key.
PayAward(p) ==
    /\ p \in DOMAIN db.projects
    /\ Spend("awards")
    /\ ~AwaitingRestore(p)
    /\ \A x \in xpEvents : x.project # p /\ x.key # Subject(db, p)
    /\ xpEvents' = xpEvents \cup {[project |-> p, key |-> Subject(db, p), of |-> LowestCopy(db, p).key]}
    /\ UNCHANGED <<disk, db, concluded, pending, sidecar, moved>>

\* export_projects, export_pending: a record of each live project, and what
\* still waits, as it is.
RecordOf(p) ==
    [subject |-> Subject(db, p),
     keys    |-> {db.locations[l].key : l \in Copies(db, p)},
     rows    |-> {[key |-> x.key, of |-> x.of] : x \in {y \in xpEvents : y.project = p}}]

Export ==
    /\ Spend("exports")
    /\ sidecar' = [projects |-> {RecordOf(p) : p \in Live(db)}, pending |-> pending]
    /\ UNCHANGED <<disk, db, concluded, xpEvents, pending, moved>>

\* The database goes bad; an empty one takes its place, stage_pending fills it
\* from the document, and the walk starts over.
Rebuild ==
    /\ Spend("corruptions")
    /\ db' = NoIndex
    /\ concluded' = {}
    /\ xpEvents' = {}
    /\ pending' = sidecar.projects \cup sidecar.pending
    /\ UNCHANGED <<disk, sidecar, moved>>

RestoreNext ==
    \/ \E q \in Paths : Commit(q) \/ AddRemote(q) \/ HandOffFound(q)
    \/ \E p \in DOMAIN db.projects : HistoryEnds(p) \/ PayAward(p)
    \/ Export \/ Rebuild

RestoreSpec == RestoreInit /\ [][RestoreNext]_restoreVars

-----------------------------------------------------------------------------
Project == [lineage : AllLineages, remote : AllRemotes, bound : {None}, basis : {None},
            fork : BOOLEAN, ambiguous : BOOLEAN]
Location == [key : Paths, path : Paths, project : Nat, common : Paths,
             presence : {"present"}, generation : {0}, removed : {FALSE}]
Index == [projects : Seq(Project), locations : Seq(Location)]

Subjects == ({"lineage"} \X AllLineages \X AllRemotes) \cup ({"path"} \X Paths)
Record == [subject : Subjects, keys : SUBSET Paths, rows : SUBSET [key : Subjects, of : Paths]]

\* The index, its rows, the records and the document are of their types; no copy
\* is removed.
RestoreTypeOK ==
    /\ disk \in [Paths -> Found \cup {None}]
    /\ db \in Index
    /\ concluded \subseteq DOMAIN db.projects
    /\ xpEvents \subseteq [project : DOMAIN db.projects, key : Subjects, of : Paths]
    /\ pending \subseteq Record
    /\ sidecar \in [projects : SUBSET Record, pending : SUBSET Record]
    /\ moved \subseteq Paths

\* The repository at q is its own family: it is as it was when it was found,
\* and no other path holds its lineage or its worktree.
Alone(q) ==
    /\ q \notin moved /\ disk[q].common = q
    /\ \A x \in Paths \ {q} :
          disk[x] # None => /\ disk[x].common # q
                            /\ disk[x].lineage # disk[q].lineage \/ disk[q].lineage = None

\* What was earned for a repository comes back to the project that repository is
\* now in, whatever the walk's order gave other ids to.
RowsComeHome ==
    \A x \in xpEvents : Alone(x.of)
        => \A l \in At(db, x.of) : db.locations[l].project = x.project

\* A record waits no longer than until its repository is found again.
RecordsComeBack ==
    \A r \in pending : (\A q \in r.keys : Alone(q)) => \E q \in r.keys : At(db, q) = {}

\* subject.rs: "Lineage plus canonical remote survives a rebuild because both are
\* recomputed from the repository": a record's copies are not all found again
\* while the record still waits.
SubjectsSurvive ==
    \A r \in pending : \E q \in r.keys : At(db, q) = {}
===============================================================================
