------------------------------- MODULE Identity -------------------------------
(***************************************************************************)
(* Which project a repository belongs to (core/src/identity): what a scan  *)
(* decides on evidence, what a forge's listing attaches to, and what the   *)
(* path of a copy this app removed may claim.                              *)
(* Each transaction is an operator from the index it reads to the index it *)
(* commits; Library.tla runs them among the threads that call them.        *)
(*                                                                         *)
(* An index `db` is a record of                                            *)
(*   projects   a sequence: a project's id is its place, and as a later    *)
(*              row is never created earlier, the order "created_at, id";  *)
(*   locations  a sequence of copies, keyed on the path found.             *)
(* A repository found on disk is [lineage, remote, common]: the digest of  *)
(* its root commits (None: no commit yet, or shallow), its canonical       *)
(* remote [host, owner, name] or None, and the path its common git         *)
(* directory lies under, another's for a linked worktree.                  *)
(*                                                                         *)
(* Abstracted: hashing and URL forms, names, notes, flags, sessions and    *)
(* XP that follow their project, association_kind (a label that only       *)
(* weakens), project.removed_at (no code sets it), merged projects (no     *)
(* part of the program sends projects.merge), and the ledger: whether a    *)
(* hydration is refused over git XP is Library's to say.                   *)
(***************************************************************************)
EXTENDS Naturals, SequencesExt

CONSTANTS
    None,
    Aliases,     \* the spellings of the one host a provider declares
    Canonical    \* the one they fold to

ASSUME IdentityAssumption == Canonical \in Aliases

NoIndex == [projects |-> <<>>, locations |-> <<>>]

\* fold_key: the comparison form of a remote.
Fold(r) == IF r # None /\ r.host \in Aliases THEN [r EXCEPT !.host = Canonical] ELSE r

SamePath(r, s) == r.owner = s.owner /\ r.name = s.name

First(ids) == CHOOSE p \in ids : \A q \in ids : p <= q

\* WHERE merged_into IS NULL, which is every row: nothing writes one.
Live(db) == DOMAIN db.projects

Copies(db, p) == {l \in DOMAIN db.locations : db.locations[l].project = p}

\* The copy whose key is this path; a released key is no path's.
At(db, path) == {l \in DOMAIN db.locations : db.locations[l].key = path}

Released(l) == <<"released", l>>

-----------------------------------------------------------------------------
(* resolve_identity                                                         *)

\* worktree_owner: a copy that is still there has this common directory.
WorktreeOwners(db, f) ==
    {l \in DOMAIN db.locations :
        db.locations[l].common = f.common /\ ~db.locations[l].removed}

Candidates(db, f) ==
    {p \in Live(db) : f.lineage # None /\ db.projects[p].lineage = f.lineage}

\* The remote matched only where no forge id is known.
SameWhereUnbound(db, f) ==
    {p \in Candidates(db, f) : db.projects[p].remote = f.remote /\ db.projects[p].bound = None}

\* decide_with_remote's first rule: one lineage, one remote.
Same(db, f) == {p \in Candidates(db, f) : db.projects[p].remote = f.remote}

\* decide: first match wins.
Decide(db, f) ==
    LET remote(p) == db.projects[p].remote
        cands     == Candidates(db, f)
        remoted   == {p \in cands : remote(p) # None}
        foreign   == {p \in remoted : f.remote # None /\ remote(p).owner # f.remote.owner}
        attach(p) == [is |-> "attach", to |-> p]
    IN  IF WorktreeOwners(db, f) # {}
        THEN attach(db.locations[First(WorktreeOwners(db, f))].project)
        ELSE IF f.lineage = None THEN [is |-> "new"]
        ELSE IF f.remote # None
        THEN IF Same(db, f) # {} THEN attach(First(Same(db, f)))
             ELSE IF foreign # {} THEN [is |-> "fork", related |-> foreign]
             ELSE [is |-> "new"]
        ELSE IF Cardinality(remoted) >= 2 THEN [is |-> "ambiguous"]
        ELSE IF remoted # {} THEN attach(First(remoted))
        ELSE IF cands # {} THEN attach(First(cands)) ELSE [is |-> "new"]

Mark(db, ps, field) ==
    [db EXCEPT !.projects = [p \in DOMAIN @ |->
        IF p \in ps THEN [@[p] EXCEPT ![field] = TRUE] ELSE @[p]]]

Create(db, f, fork, ambiguous) ==
    [db EXCEPT !.projects = Append(@,
        [lineage |-> f.lineage, remote |-> f.remote, bound |-> None, basis |-> None,
         fork |-> fork, ambiguous |-> ambiguous])]

\* flag_remoteless_ambiguity: a second remoted project on a lineage.
FlagRemoteless(db, lineage) ==
    LET on == {p \in Live(db) : lineage # None /\ db.projects[p].lineage = lineage}
        remoteless == {p \in on : db.projects[p].remote = None}
    IN  IF Cardinality(on \ remoteless) < 2 THEN db
        ELSE Mark(db, remoteless, "ambiguous")

\* find_hydration_target: the not-cloned projects on this folded remote.
HydrationTargets(db, f) ==
    {p \in Live(db) : /\ f.remote # None
                      /\ Fold(db.projects[p].remote) = Fold(f.remote)
                      /\ Copies(db, p) = {}}

\* hydrate: what a clone teaches a not-cloned row.
Hydrate(db, p, f, fork) ==
    [db EXCEPT !.projects[p].lineage = f.lineage, !.projects[p].fork = @ \/ fork]

\* create_or_hydrate that always creates.
CreateAnyway(db, f, fork) ==
    [db |-> Create(db, f, fork, FALSE), project |-> Len(db.projects) + 1]

CreateOrHydrate(db, f, fork) ==
    LET targets == HydrationTargets(db, f)
        new     == Len(db.projects) + 1
    IN  IF Cardinality(targets) = 1
        THEN [db |-> FlagRemoteless(Hydrate(db, First(targets), f, fork), f.lineage),
              project |-> First(targets)]
        ELSE [db |-> Mark(Create(db, f, fork, targets # {}), targets, "ambiguous"),
              project |-> new]

ResolveIdentity(db, f) ==
    LET d == Decide(db, f)
    IN  CASE d.is = "attach" -> [db |-> db, project |-> d.to]
          [] d.is = "new" -> CreateOrHydrate(db, f, FALSE)
          [] d.is = "ambiguous" ->
                [db |-> Create(db, f, FALSE, TRUE), project |-> Len(db.projects) + 1]
          [] d.is = "fork" ->
                LET landed == CreateOrHydrate(db, f, TRUE)
                IN  [landed EXCEPT !.db =
                        FlagRemoteless(Mark(@, d.related, "fork"), f.lineage)]

-----------------------------------------------------------------------------
(* The hand-off of one find                                                 *)

\* claim_removed_row by path alone.
ClaimByPath(db, p, f, path) ==
    [db EXCEPT !.locations = [l \in DOMAIN @ |->
        IF @[l].key = path THEN [@[l] EXCEPT !.removed = FALSE] ELSE @[l]]]

\* claim_removed_row: the removed copy's row goes back to its own repository,
\* and otherwise keeps its project under a key no path can produce.
ClaimRemovedRow(db, p, f, path) ==
    LET own(row) == /\ row.project = p
                    /\ f.lineage # None
                    /\ db.projects[p].lineage = f.lineage
    IN  [db EXCEPT !.locations = [l \in DOMAIN @ |->
            IF @[l].key # path \/ ~@[l].removed THEN @[l]
            ELSE IF own(@[l]) THEN [@[l] EXCEPT !.removed = FALSE]
            ELSE [@[l] EXCEPT !.key = Released(l)]]]

\* upsert_location: one row for one path, re-pointed when it is there.
UpsertLocation(db, p, f, path, generation) ==
    IF At(db, path) = {}
    THEN [db EXCEPT !.locations = Append(@,
            [key |-> path, path |-> path, project |-> p, common |-> f.common,
             presence |-> "present", generation |-> generation, removed |-> FALSE])]
    ELSE [db EXCEPT !.locations[First(At(db, path))] =
            [@ EXCEPT !.project = p, !.common = f.common, !.presence = "present",
                      !.generation = generation]]

\* hand_off_discovered's transaction.
HandOff(db, f, path, generation) ==
    LET r == ResolveIdentity(db, f)
    IN  UpsertLocation(ClaimRemovedRow(r.db, r.project, f, path), r.project, f, path, generation)

-----------------------------------------------------------------------------
(* A forge's listing [remote, id, fork]                                     *)

\* write_binding
Bind(db, p, id, basis) ==
    [db EXCEPT !.projects[p].bound = id, !.projects[p].basis = basis]

\* load_suppressors: the same path on another host, with a copy on disk.
Suppressors(db, listing) ==
    {p \in Live(db) :
        /\ db.projects[p].remote # None
        /\ Copies(db, p) # {}
        /\ SamePath(db.projects[p].remote, listing.remote)
        /\ Fold(db.projects[p].remote).host # Fold(listing.remote).host}

\* match_listing: the forge's id first, then the remote of a project whose id is
\* unknown, then suppression.
ById(db, listing) == {p \in Live(db) : db.projects[p].bound = listing.id}
ByKey(db, listing) ==
    {p \in Live(db) : /\ Fold(db.projects[p].remote) = Fold(listing.remote)
                      /\ db.projects[p].bound \in {None, listing.id}}

\* ingest_listing
IngestListing(db, listing) ==
    LET byId == ById(db, listing)
        byKey == ByKey(db, listing)
        found == IF byId # {} THEN byId ELSE byKey
        basis == IF byId # {} THEN "provider_id" ELSE "remote_key"
        attached == Bind(db, First(found), listing.id, basis)
        row == [lineage |-> None, remote |-> listing.remote, bound |-> listing.id,
                basis |-> "remote_key", fork |-> listing.fork, ambiguous |-> FALSE]
    IN  IF Cardinality(found) = 1
        THEN IF listing.fork THEN Mark(attached, found, "fork") ELSE attached
        ELSE IF found # {} THEN Mark(db, found, "ambiguous")
        ELSE IF Suppressors(db, listing) # {} THEN db
        ELSE [db EXCEPT !.projects = Append(@, row)]

\* unmatched_rows: what a rename probe asks the forge about.
Unmatched(db) ==
    {p \in Live(db) : /\ db.projects[p].remote # None
                      /\ db.projects[p].remote.host \in Aliases
                      /\ db.projects[p].bound = None}

-----------------------------------------------------------------------------
(* handle_location_relocate: the user names where a copy went.  The path    *)
(* columns follow; the common directory stays as it was.                    *)

MayRelocate(db, l, f, path) ==
    /\ f.lineage # None
    /\ f.lineage = db.projects[db.locations[l].project].lineage
    /\ At(db, path) \subseteq {l}

Relocate(db, l, path) ==
    [db EXCEPT !.locations[l].key = path, !.locations[l].path = path]

\* commit_removal
CommitRemoval(db, l) == [db EXCEPT !.locations[l].removed = TRUE]
===============================================================================
