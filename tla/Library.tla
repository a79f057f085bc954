-------------------------------- MODULE Library --------------------------------
(***************************************************************************)
(* The threads that write the library's index: the scan's walk and its     *)
(* presence pass (scan/run.rs, scan/presence.rs), the sync thread's        *)
(* listings and rename probes (identity/ingest.rs, rename_repair.rs), the  *)
(* tail of an install, and the command loop's relocate and uninstall;      *)
(* beside them a user who moves directories about.  Identity has the       *)
(* transactions; here are their order and what is read before the index    *)
(* is locked and used after it.                                            *)
(*                                                                         *)
(* One scan root, on one store.  A path holds a repository [lineage,       *)
(* remote, common] or None.  The command loop answers one command at a     *)
(* time, and an uninstall keeps it for its whole length.                   *)
(*                                                                         *)
(* Abstracted: excluded and nested directories, WSL bridges, the second    *)
(* spelling of a root; the analyser's verdict, any answer for a copy that  *)
(* is not refused by its row; debt, jobs and events.  The re-read before a *)
(* removal and the removal are one step: nothing runs between them here.   *)
(***************************************************************************)
EXTENDS Identity

CONSTANTS
    Paths,
    Repos,       \* what a user can clone: [lineage, remote]
    Listings,    \* what the forge lists: [remote, id, fork]
    Scenarios    \* how often each bounded thing may happen, one choice per behaviour:
                 \* [moves, scans, listings, relocations, uninstalls, clones, crashes]

Happenings == {"moves", "scans", "listings", "relocations", "uninstalls", "clones", "crashes"}

ASSUME LibraryAssumption ==
    /\ None \notin Nat \cup Paths
    /\ Paths \cap ({"released"} \X Nat) = {}   \* a released key has a NUL in it, a path has none
    /\ \A r \in Repos : DOMAIN r = {"lineage", "remote"}
    /\ \A listing \in Listings :
          listing.fork \in BOOLEAN /\ listing.id # None /\ listing.remote # None
    /\ Scenarios \subseteq [Happenings -> Nat]

VARIABLES
    disk,        \* [Paths -> a repository or None]
    db,          \* the index
    scan,        \* the run in flight
    look,        \* [Paths -> what the walk has read there and not handed off, or None]:
                 \* the candidate [common], and once probed the find [lineage, remote, common]
    asked,       \* the rename probe's answer, not yet written
    removal,     \* the uninstall the command loop is in
    clone,       \* an install renamed into place and not yet indexed; `found` as in look
    emptied,     \* history: the projects whose last copy a find gave to another
    left         \* of the scenario, what may still happen

vars == <<disk, db, scan, look, asked, removal, clone, emptied, left>>

Spend(what) == left[what] > 0 /\ left' = [left EXCEPT ![what] = @ - 1]

\* What a walk's classification hands to the hand-off.
Candidate == [common : Paths]

NoScan(generation) ==
    [pc |-> "idle", generation |-> generation, survey |-> None, todo |-> {},
     cancelled |-> FALSE, writes |-> {}]
NoRemoval == [pc |-> "none", row |-> 0, seen |-> None]
NoClone == [path |-> None, found |-> None]

Init ==
    /\ disk = [p \in Paths |-> None]
    /\ db = NoIndex
    /\ scan = NoScan(0)
    /\ look = [p \in Paths |-> None]
    /\ asked = None
    /\ removal = NoRemoval
    /\ clone = NoClone
    /\ emptied = {}
    /\ left \in Scenarios

-----------------------------------------------------------------------------
(* The user's disk                                                          *)

\* A linked worktree is read through its main repository.
Readable(p) ==
    /\ disk[p] # None
    /\ disk[disk[p].common] = disk[p]

Main(r, p) == [lineage |-> r.lineage, remote |-> r.remote, common |-> p]

\* A clone, a linked worktree of another path's repository, or nothing.
Put(p) ==
    /\ Spend("moves")
    /\ \E c \in {Main(r, p) : r \in Repos}
                  \cup {disk[q] : q \in Paths \ {p}} \cup {None} :
        /\ c # disk[p]
        /\ disk' = [disk EXCEPT ![p] = c]
    /\ UNCHANGED <<db, scan, look, asked, removal, clone, emptied>>

-----------------------------------------------------------------------------
(* A scan                                                                   *)

\* next_generation: above every run's and every copy's.
\* survey_roots: the root is walked, not reachable, or disabled when the run
\* reads it.
ScanBegins(survey) ==
    /\ scan.pc = "idle"
    /\ Spend("scans")
    /\ scan' = [NoScan(scan.generation + 1) EXCEPT
                    !.pc = "walk", !.survey = survey,
                    !.todo = IF survey = "reached" THEN Paths ELSE {}]
    /\ UNCHANGED <<disk, db, look, asked, removal, clone, emptied>>

\* A walk's worker reaches a directory: classify_dir reads where its common
\* directory lies, from the pointer alone when git cannot say.
Look(p) ==
    /\ scan.pc = "walk" /\ p \in scan.todo /\ ~scan.cancelled
    /\ scan' = [scan EXCEPT !.todo = @ \ {p}]
    /\ look' \in {look, [look EXCEPT ![p] =
                            IF disk[p] = None THEN None ELSE [common |-> disk[p].common]]}
    /\ UNCHANGED <<disk, db, asked, removal, clone, emptied, left>>

\* probe_identity, a later read with nothing locked, of whatever is at the path
\* by then; the common directory stays the candidate's.  A repository git cannot
\* read, or has no answer for in time, is a problem row and no find.
Probed(candidate, path) ==
    IF Readable(path)
    THEN {None, [lineage |-> disk[path].lineage, remote |-> disk[path].remote,
                 common |-> candidate.common]}
    ELSE {None}

Probe(p) ==
    /\ look[p] \in Candidate
    /\ \E found \in Probed(look[p], p) : look' = [look EXCEPT ![p] = found]
    /\ UNCHANGED <<disk, db, scan, asked, removal, clone, emptied, left>>

\* hydrate refuses to fill a row that has earned git XP: one that had a copy
\* once.
MayBeRefused(f) ==
    /\ Decide(db, f).is \in {"new", "fork"}
    /\ \E p \in emptied : HydrationTargets(db, f) = {p}

\* The hand-off of one find, or its refusal, which drops it.
Lands(f, path, generation) ==
    \/ /\ db' = HandOff(db, f, path, generation)
       /\ emptied' = emptied \cup {p \in DOMAIN db.projects :
                                      Copies(db, p) # {} /\ Copies(db', p) = {}}
    \/ MayBeRefused(f) /\ UNCHANGED <<db, emptied>>

\* hand_off_discovered: what was probed then, decided against the index of now.
HandOffFound(p) ==
    /\ look[p] \notin Candidate \cup {None}
    /\ Lands(look[p], p, scan.generation)
    /\ look' = [look EXCEPT ![p] = None]
    /\ UNCHANGED <<disk, scan, asked, removal, clone, left>>

\* scan.cancel; the workers quit, a hand-off past its probe still commits.
CancelScan ==
    /\ scan.pc = "walk" /\ ~scan.cancelled /\ removal.pc = "none"
    /\ scan' = [scan EXCEPT !.cancelled = TRUE]
    /\ UNCHANGED <<disk, db, look, asked, removal, clone, emptied, left>>

\* classify_presence
Classified(row) ==
    CASE scan.survey = "disabled" -> "unscanned"
      [] scan.survey # "disabled" /\ row.generation = scan.generation -> "present"
      [] scan.survey = "reached" /\ row.generation # scan.generation -> "missing"
      [] OTHER -> "offline"

\* apply_presence's read: the rows whose answer changed.  A cancelled run's
\* workers left directories unseen, and it applies none.
WalkEnds ==
    /\ scan.pc = "walk"
    /\ scan.todo = {} \/ scan.cancelled
    /\ look = [p \in Paths |-> None]
    /\ LET writes == {[row |-> l, presence |-> Classified(db.locations[l])] :
                         l \in {m \in DOMAIN db.locations :
                                   Classified(db.locations[m]) # db.locations[m].presence}}
       IN  scan' = IF (scan.cancelled /\ scan.todo # {}) \/ writes = {} THEN NoScan(scan.generation)
                   ELSE [scan EXCEPT !.pc = "apply", !.writes = writes]
    /\ UNCHANGED <<disk, db, look, asked, removal, clone, emptied, left>>

\* set_presence, a transaction a row, in id order.
PresenceWrite ==
    /\ scan.pc = "apply"
    /\ LET w == CHOOSE x \in scan.writes : \A y \in scan.writes : x.row <= y.row
       IN  /\ db' = [db EXCEPT !.locations[w.row].presence = w.presence]
           /\ scan' = IF scan.writes = {w} THEN NoScan(scan.generation)
                      ELSE [scan EXCEPT !.writes = @ \ {w}]
    /\ UNCHANGED <<disk, look, asked, removal, clone, emptied, left>>

-----------------------------------------------------------------------------
(* The tail of an install, after its rename                                 *)

CloneLands(p, r) ==
    /\ Spend("clones")
    /\ clone = NoClone /\ disk[p] = None
    /\ disk' = [disk EXCEPT ![p] = Main(r, p)]
    /\ clone' = [path |-> p, found |-> [common |-> p]]
    /\ UNCHANGED <<db, scan, look, asked, removal, emptied>>

\* The hand-off's probe; without an answer the install fails.
CloneProbed ==
    /\ clone # NoClone /\ clone.found \in Candidate
    /\ \E found \in Probed(clone.found, clone.path) :
        clone' = IF found = None THEN NoClone ELSE [clone EXCEPT !.found = found]
    /\ UNCHANGED <<disk, db, scan, look, asked, removal, emptied, left>>

\* index_destination: no walk has seen it, so its generation is 0.
CloneIndexed ==
    /\ clone.found \notin Candidate \cup {None}
    /\ Lands(clone.found, clone.path, 0)
    /\ clone' = NoClone
    /\ UNCHANGED <<disk, scan, look, asked, removal, left>>

-----------------------------------------------------------------------------
(* The sync thread, one for its listings and its rename probes              *)

Ingest(listing) ==
    /\ asked = None
    /\ Spend("listings")
    /\ db' = IngestListing(db, listing)
    /\ UNCHANGED <<disk, scan, look, asked, removal, clone, emptied>>

\* repair_renames asks the forge about a row with the index let go; a renamed
\* repository answers under its new path.
AskForge(p, listing) ==
    /\ asked = None /\ p \in Unmatched(db)
    /\ Spend("listings")
    /\ asked' = [project |-> p, id |-> listing.id]
    /\ UNCHANGED <<disk, db, scan, look, removal, clone, emptied>>

WriteAnswer ==
    /\ asked # None
    /\ db' = Bind(db, asked.project, asked.id, "provider_id")
    /\ asked' = None
    /\ UNCHANGED <<disk, scan, look, removal, clone, emptied, left>>

-----------------------------------------------------------------------------
(* The command loop                                                         *)

RelocateTo(l, path) ==
    /\ removal.pc = "none"
    /\ db.locations[l].path # path
    /\ Spend("relocations")
    /\ Readable(path)
    /\ MayRelocate(db, l, disk[path], path)
    /\ db' = Relocate(db, l, path)
    /\ UNCHANGED <<disk, scan, look, asked, removal, clone, emptied>>

Row(l) ==
    [id |-> l, path |-> db.locations[l].path,
     lineage |-> db.projects[db.locations[l].project].lineage]

\* read_row; a removed copy is refused.
UninstallReads(l) ==
    /\ removal.pc = "none"
    /\ ~db.locations[l].removed
    /\ Spend("uninstalls")
    /\ removal' = [pc |-> "read", row |-> Row(l), seen |-> None]
    /\ UNCHANGED <<disk, db, scan, look, asked, clone, emptied>>

\* analyse: never safe for another repository, a linked worktree or the main
\* repository of one.
Analysed ==
    /\ removal.pc = "read"
    /\ LET there == disk[removal.row.path]
           may == /\ there # None
                  /\ there.lineage # None /\ there.lineage = removal.row.lineage
                  /\ \A p \in Paths : disk[p] # None /\ disk[p].common = removal.row.path
                                        <=> p = removal.row.path
       IN  \/ /\ may
              /\ removal' = [removal EXCEPT !.pc = "safe", !.seen = there]
           \/ removal' = NoRemoval
    /\ UNCHANGED <<disk, db, scan, look, asked, clone, emptied, left>>

\* reread_before_act and remove_warranted: what was analysed, or nothing.
Trashed ==
    /\ removal.pc = "safe"
    /\ IF disk[removal.row.path] = removal.seen
       THEN \/ /\ disk' = [disk EXCEPT ![removal.row.path] = None]
               /\ removal' = [removal EXCEPT !.pc = "gone"]
            \/ UNCHANGED disk /\ removal' = NoRemoval
       ELSE UNCHANGED disk /\ removal' = NoRemoval
    /\ UNCHANGED <<db, scan, look, asked, clone, emptied, left>>

RemovalCommitted ==
    /\ removal.pc = "gone"
    /\ db' = CommitRemoval(db, removal.row.id)
    /\ removal' = NoRemoval
    /\ UNCHANGED <<disk, scan, look, asked, clone, emptied, left>>

\* The core dies: what it held in memory is gone.
Crash ==
    /\ Spend("crashes")
    /\ scan' = NoScan(scan.generation) /\ look' = [p \in Paths |-> None]
    /\ asked' = None /\ removal' = NoRemoval /\ clone' = NoClone
    /\ UNCHANGED <<disk, db, emptied>>

-----------------------------------------------------------------------------
Scanning ==
    \/ \E survey \in {"reached", "away", "disabled"} : ScanBegins(survey)
    \/ \E p \in Paths : Look(p) \/ Probe(p) \/ HandOffFound(p)
    \/ CancelScan \/ WalkEnds \/ PresenceWrite

Syncing ==
    \/ \E listing \in Listings : Ingest(listing)
    \/ \E p \in DOMAIN db.projects, listing \in Listings : AskForge(p, listing)
    \/ WriteAnswer

Commands ==
    \/ \E l \in DOMAIN db.locations, p \in Paths : RelocateTo(l, p)
    \/ \E l \in DOMAIN db.locations : UninstallReads(l)
    \/ Analysed \/ Trashed \/ RemovalCommitted

Next ==
    \/ \E p \in Paths : Put(p)
    \/ Scanning
    \/ \E p \in Paths, r \in Repos : CloneLands(p, r)
    \/ CloneProbed \/ CloneIndexed
    \/ Syncing
    \/ Commands
    \/ Crash

Spec == Init /\ [][Next]_vars

-----------------------------------------------------------------------------
(* What must hold                                                           *)

Lineages == {r.lineage : r \in Repos} \cup {None}
Remotes == {r.remote : r \in Repos} \cup {listing.remote : listing \in Listings} \cup {None}
Ids == {listing.id : listing \in Listings} \cup {None}
Presences == {"present", "missing", "offline", "unscanned"}
Found == [lineage : Lineages, remote : Remotes, common : Paths]

Project == [lineage : Lineages, remote : Remotes, bound : Ids,
            basis : {None, "provider_id", "remote_key"},
            fork : BOOLEAN, ambiguous : BOOLEAN]
Location == [key : Paths \cup ({"released"} \X Nat), path : Paths, project : Nat,
             common : Paths, presence : Presences, generation : Nat, removed : BOOLEAN]
Index == [projects : Seq(Project), locations : Seq(Location)]

\* The index, and what each thread holds of it, are of their types; a presence pass has a write left.
TypeOK ==
    /\ disk \in [Paths -> Found \cup {None}]
    /\ db \in Index
    /\ scan \in [pc : {"idle", "walk", "apply"}, generation : Nat,
                 survey : {None, "reached", "away", "disabled"}, todo : SUBSET Paths,
                 cancelled : BOOLEAN, writes : SUBSET [row : Nat, presence : Presences]]
    /\ scan.pc = "apply" => scan.writes # {}
    /\ look \in [Paths -> Candidate \cup Found \cup {None}]
    /\ asked \in [project : Nat, id : Ids] \cup {None}
    /\ removal \in {NoRemoval} \cup
           [pc : {"read", "safe", "gone"}, row : [id : Nat, path : Paths, lineage : Lineages],
            seen : Found \cup {None}]
    /\ clone \in {NoClone} \cup [path : Paths, found : Candidate \cup Found]
    /\ emptied \subseteq Nat
    /\ left \in [Happenings -> Nat]

\* One repository is one tile: no two projects shown share a lineage and a
\* remote, unless the forge says they are two, both are flagged for the user to
\* settle, or one lost its last copy to another and was taken for not cloned.
StrongIdentityIsUnique ==
    \A p, q \in Live(db) \ emptied :
        /\ p < q
        /\ db.projects[p].lineage # None
        /\ db.projects[p].lineage = db.projects[q].lineage
        /\ db.projects[p].remote # None
        /\ db.projects[p].remote = db.projects[q].remote
        => \/ db.projects[p].bound # None /\ db.projects[q].bound # None
              /\ db.projects[p].bound # db.projects[q].bound
           \/ db.projects[p].ambiguous /\ db.projects[q].ambiguous

\* A repository the forge listed and that was never cloned here is no tile of
\* its own beside another on its remote, unless both are flagged for the user
\* to settle or the forge says they are two.
NoTileBesideItsClone ==
    \A p \in Live(db) \ emptied, q \in Live(db) :
        /\ p # q /\ Copies(db, p) = {} /\ db.projects[q].remote # None
        /\ Fold(db.projects[p].remote) = Fold(db.projects[q].remote)
        => \/ db.projects[p].ambiguous /\ db.projects[q].ambiguous
           \/ db.projects[q].bound \notin {None, db.projects[p].bound}

\* The row of a copy this app removed stays with its project whatever turns up
\* at its path; it is present again only when that is its own repository.
RemovedRowsAreKept ==
    [][\A l \in DOMAIN db.locations :
        db.locations[l].removed =>
            LET before == db.locations[l].project
                row    == db'.locations[l]
            IN  /\ row.project = before
                /\ ~row.removed =>
                      \E f \in {look[row.key], clone.found} \cap Found :
                          f.lineage # None /\ f.lineage = db'.projects[before].lineage]_vars

\* presence.rs calls a `missing` copy "gone from a store that was reachable": a
\* copy is not marked so while its repository stands at its path.
MissingIsGone ==
    [][\A l \in DOMAIN db.locations :
        /\ db.locations[l].presence # "missing"
        /\ db'.locations[l].presence = "missing"
        => ~Readable(db.locations[l].path)]_vars

===============================================================================
