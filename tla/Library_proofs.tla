----------------------------- MODULE Library_proofs -----------------------------
(***************************************************************************)
(* What Identity promises for any paths, repositories, listings and        *)
(* bounds, and any order of the threads: that one repository is one tile,  *)
(* and what becomes of the row of a copy this app removed.                 *)
(*                                                                         *)
(* Every thread decides on what it read before, so the argument is about   *)
(* the operators of Identity: each takes a Sound index to a Sound one, and *)
(* one whose Tiles are apart to another, whatever find, listing, row or    *)
(* project id it is given.  They only add projects (Grown); a hand-off     *)
(* points its row at a project of the index it has just changed.           *)
(***************************************************************************)
EXTENDS Library, SequenceTheorems, FiniteSetTheorems, WellFoundedInduction, TLAPS

\* Copies belong to projects.
Sound(d) == \A l \in DOMAIN d.locations : d.locations[l].project \in Live(d)

\* An index that has more projects, and no other difference that matters here.
Grown(d, e) ==
    /\ e.locations = d.locations
    /\ DOMAIN d.projects \subseteq DOMAIN e.projects

-----------------------------------------------------------------------------
\* A set of naturals that has a member has a least one.
LEMMA LeastNatural ==
    ASSUME NEW T, T \subseteq Nat, T # {}
    PROVE  \E x \in T : \A y \in T : x <= y
<1> DEFINE R == OpToRel(<, Nat)
<1>1. IsWellFoundedOn(R, Nat)
  BY NatLessThanWellFounded, Zenon
<1>2. ASSUME NEW x \in Nat, NEW y \in Nat, <<y, x>> \notin R
      PROVE  x <= y
  BY <1>2 DEF OpToRel
<1> HIDE DEF R
<1>3. PICK x \in T : \A y \in T : ~(<<y, x>> \in R)
  BY <1>1, WFMin, Zenon
<1>4. \A y \in T : x <= y
  BY <1>2, <1>3, Zenon
<1> QED
  BY <1>4

\* First is a member of any set of ids there is one of.
LEMMA FirstIsOne ==
    ASSUME NEW T, T \subseteq Nat, T # {}
    PROVE  First(T) \in T
BY LeastNatural DEF First

-----------------------------------------------------------------------------
(* Growing an index.                                                         *)

LEMMA IndexParts ==
    ASSUME NEW d \in Index
    PROVE  /\ d.projects \in Seq(Project) /\ d.locations \in Seq(Location)
           /\ DOMAIN d.projects = 1..Len(d.projects) /\ Len(d.projects) \in Nat
           /\ DOMAIN d.locations = 1..Len(d.locations) /\ Len(d.locations) \in Nat
           /\ \A p \in DOMAIN d.projects : d.projects[p] \in Project
           /\ \A l \in DOMAIN d.locations : d.locations[l] \in Location
           /\ Live(d) \subseteq DOMAIN d.projects /\ Live(d) \subseteq Nat
<1>1. d.projects \in Seq(Project) /\ d.locations \in Seq(Location)
  BY DEF Index
<1>2. /\ DOMAIN d.projects = 1..Len(d.projects) /\ Len(d.projects) \in Nat
      /\ DOMAIN d.locations = 1..Len(d.locations) /\ Len(d.locations) \in Nat
  BY <1>1, LenProperties
<1>3. /\ \A p \in DOMAIN d.projects : d.projects[p] \in Project
      /\ \A l \in DOMAIN d.locations : d.locations[l] \in Location
  BY <1>1, <1>2, ElementOfSeq
<1>4. Live(d) \subseteq DOMAIN d.projects
  BY DEF Live
<1> QED
  BY <1>1, <1>2, <1>3, <1>4

LEMMA GrownIsSound ==
    ASSUME NEW d, NEW e, Sound(d), Grown(d, e)
    PROVE  Sound(e) /\ Live(d) \subseteq Live(e)
<1>1. Live(d) \subseteq Live(e)
  BY DEF Live, Grown
<1> QED
  BY <1>1 DEF Sound, Grown

LEMMA GrownTwice ==
    ASSUME NEW d, NEW e, NEW f, Grown(d, e), Grown(e, f)
    PROVE  Grown(d, f)
BY DEF Grown

\* A change of the projects' rows.
LEMMA RowGrown ==
    ASSUME NEW d \in Index, NEW s \in Seq(Project), Len(s) = Len(d.projects),
           NEW e, e = [d EXCEPT !.projects = s]
    PROVE  e \in Index /\ Grown(d, e)
<1>1. e.projects = s /\ e.locations = d.locations /\ e \in Index
  BY DEF Index
<1>2. DOMAIN s = DOMAIN d.projects
  BY LenProperties, IndexParts
<1> QED
  BY <1>1, <1>2 DEF Grown

LEMMA MarkGrows ==
    ASSUME NEW d \in Index, NEW ps, NEW field \in {"fork", "ambiguous"}
    PROVE  Mark(d, ps, field) \in Index /\ Grown(d, Mark(d, ps, field))
<1> DEFINE s == [p \in DOMAIN d.projects |->
                    IF p \in ps THEN [d.projects[p] EXCEPT ![field] = TRUE] ELSE d.projects[p]]
<1>1. ASSUME NEW p \in DOMAIN d.projects
      PROVE  s[p] \in Project
  <2>1. d.projects[p] \in Project
    BY IndexParts
  <2>2. CASE field = "fork"
    BY <2>1, <2>2 DEF Project
  <2>3. CASE field = "ambiguous"
    BY <2>1, <2>3 DEF Project
  <2> QED
    BY <2>2, <2>3
<1>2. DOMAIN d.projects = 1..Len(d.projects) /\ Len(d.projects) \in Nat
  BY IndexParts
<1>3. s \in Seq(Project) /\ Len(s) = Len(d.projects)
  <2>1. s \in [1..Len(d.projects) -> Project]
    BY <1>1, <1>2
  <2> HIDE DEF s
  <2>2. s \in Seq(Project)
    BY <1>2, <2>1, SeqDef
  <2> QED
    BY <1>2, <2>1, <2>2, LenProperties
<1>4. Mark(d, ps, field) = [d EXCEPT !.projects = s]
  BY DEF Mark
<1> HIDE DEF s
<1> QED
  BY <1>1, <1>3, <1>4, RowGrown

LEMMA AppendGrows ==
    ASSUME NEW d \in Index, NEW row \in Project,
           NEW e, e = [d EXCEPT !.projects = Append(@, row)]
    PROVE  /\ e \in Index /\ Grown(d, e)
           /\ Len(d.projects) + 1 \in Live(e)
<1>1. /\ d.projects \in Seq(Project) /\ Len(d.projects) \in Nat
      /\ DOMAIN d.projects = 1..Len(d.projects)
  BY IndexParts
<1> DEFINE s == Append(d.projects, row)
<1>2. /\ s \in Seq(Project) /\ Len(s) = Len(d.projects) + 1
      /\ DOMAIN s = 1..(Len(d.projects) + 1)
      /\ \A p \in 1..Len(d.projects) : s[p] = d.projects[p]
      /\ s[Len(d.projects) + 1] = row
  BY <1>1
<1>3. e.projects = s /\ e.locations = d.locations /\ e \in Index
  BY <1>2 DEF Index
<1> HIDE DEF s
<1>4. Grown(d, e)
  BY <1>1, <1>2, <1>3 DEF Grown
<1>5. Len(d.projects) + 1 \in Live(e)
  BY <1>1, <1>2, <1>3 DEF Live
<1> QED
  BY <1>3, <1>4, <1>5

LEMMA CreateGrows ==
    ASSUME NEW d \in Index, NEW f \in Found, NEW fork \in BOOLEAN, NEW ambiguous \in BOOLEAN
    PROVE  /\ Create(d, f, fork, ambiguous) \in Index /\ Grown(d, Create(d, f, fork, ambiguous))
           /\ Len(d.projects) + 1 \in Live(Create(d, f, fork, ambiguous))
<1> DEFINE row == [lineage |-> f.lineage, remote |-> f.remote, bound |-> None, basis |-> None,
                   fork |-> fork, ambiguous |-> ambiguous]
<1>1. row \in Project
  BY DEF Project, Found, Ids
<1>2. Create(d, f, fork, ambiguous) = [d EXCEPT !.projects = Append(@, row)]
  BY DEF Create
<1> HIDE DEF row
<1> QED
  BY <1>1, <1>2, AppendGrows

LEMMA GrownSelf == \A d : Grown(d, d)
BY DEF Grown

LEMMA FlagRemotelessGrows ==
    ASSUME NEW d \in Index, NEW lineage
    PROVE  FlagRemoteless(d, lineage) \in Index /\ Grown(d, FlagRemoteless(d, lineage))
<1> DEFINE on == {p \in Live(d) : lineage # None /\ d.projects[p].lineage = lineage}
           remoteless == {p \in on : d.projects[p].remote = None}
<1>1. FlagRemoteless(d, lineage) \in {d, Mark(d, remoteless, "ambiguous")}
  BY DEF FlagRemoteless
<1> HIDE DEF remoteless
<1> QED
  BY <1>1, MarkGrows, GrownSelf

LEMMA HydrateGrows ==
    ASSUME NEW d \in Index, NEW p \in Live(d), NEW f \in Found, NEW fork \in BOOLEAN
    PROVE  Hydrate(d, p, f, fork) \in Index /\ Grown(d, Hydrate(d, p, f, fork))
<1> DEFINE row == [d.projects[p] EXCEPT !.lineage = f.lineage, !.fork = @ \/ fork]
           s == [d.projects EXCEPT ![p] = row]
<1>1. p \in 1..Len(d.projects) /\ d.projects \in Seq(Project) /\ d.projects[p] \in Project
  BY IndexParts
<1>2. row \in Project
  BY <1>1 DEF Project, Found
<1>3. Hydrate(d, p, f, fork) = [d EXCEPT !.projects = s]
  BY DEF Hydrate
<1> HIDE DEF row
<1>4. s \in Seq(Project) /\ Len(s) = Len(d.projects)
      /\ \A q \in 1..Len(d.projects) : s[q] = IF q = p THEN row ELSE d.projects[q]
  BY <1>1, <1>2, ExceptSeq
<1> HIDE DEF s
<1> QED
  BY <1>3, <1>4, RowGrown

LEMMA CreateOrHydrateLands ==
    ASSUME NEW d \in Index, NEW f \in Found, NEW fork \in BOOLEAN,
           NEW r, r = CreateOrHydrate(d, f, fork)
    PROVE  r.db \in Index /\ Grown(d, r.db) /\ r.project \in Live(r.db)
<1> DEFINE targets == HydrationTargets(d, f)
           p == First(targets)
           h == Hydrate(d, p, f, fork)
           c == Create(d, f, fork, targets # {})
<1>1. targets \subseteq Live(d) /\ Live(d) \subseteq Nat
  BY IndexParts DEF HydrationTargets
<1>2. CASE Cardinality(targets) = 1
  <2>1. targets # {}
    BY <1>2, FS_EmptySet
  <2>2. p \in Live(d)
    BY <1>1, <2>1, FirstIsOne
  <2>3. h \in Index /\ Grown(d, h)
    BY <2>2, HydrateGrows
  <2>4. r.db = FlagRemoteless(h, f.lineage) /\ r.project = p
    BY <1>2 DEF CreateOrHydrate
  <2> HIDE DEF h, p, targets
  <2>5. r.db \in Index /\ Grown(h, r.db)
    BY <2>3, <2>4, FlagRemotelessGrows
  <2>6. Grown(d, r.db)
    BY <2>3, <2>5, GrownTwice
  <2>7. Live(d) \subseteq Live(r.db)
    BY <2>6 DEF Grown, Live
  <2> QED
    BY <2>2, <2>4, <2>5, <2>6, <2>7
<1>3. CASE Cardinality(targets) # 1
  <2>1. c \in Index /\ Grown(d, c) /\ Len(d.projects) + 1 \in Live(c)
    BY CreateGrows
  <2>2. r.db = Mark(c, targets, "ambiguous") /\ r.project = Len(d.projects) + 1
    BY <1>3 DEF CreateOrHydrate
  <2> HIDE DEF c, targets
  <2>3. r.db \in Index /\ Grown(c, r.db)
    BY <2>1, <2>2, MarkGrows
  <2>4. Grown(d, r.db)
    BY <2>1, <2>3, GrownTwice
  <2>5. Live(c) \subseteq Live(r.db)
    BY <2>3 DEF Grown, Live
  <2> QED
    BY <2>1, <2>2, <2>3, <2>4, <2>5
<1> QED
  BY <1>2, <1>3

-----------------------------------------------------------------------------
(* A find.                                                                   *)

\* What is attached to is live: the owner of a worktree is the project of a
\* copy, and those of a Sound index are.
LEMMA DecideAttachesToLive ==
    ASSUME NEW d \in Index, Sound(d), NEW f \in Found
    PROVE  /\ Decide(d, f).is \in {"attach", "new", "ambiguous", "fork"}
           /\ Decide(d, f).is = "attach" => Decide(d, f).to \in Live(d)
<1> DEFINE owners == WorktreeOwners(d, f)
           cands == Candidates(d, f)
           remoted == {p \in cands : d.projects[p].remote # None}
           same == Same(d, f)
<1>1. owners \subseteq DOMAIN d.locations /\ DOMAIN d.locations \subseteq Nat
  BY IndexParts DEF WorktreeOwners
<1>2. cands \subseteq Live(d) /\ remoted \subseteq cands /\ same \subseteq cands /\ Live(d) \subseteq Nat
  BY IndexParts DEF Candidates, Same
<1>3. owners # {} => d.locations[First(owners)].project \in Live(d)
  <2> SUFFICES ASSUME owners # {} PROVE d.locations[First(owners)].project \in Live(d)
    OBVIOUS
  <2>1. First(owners) \in owners
    BY <1>1, FirstIsOne
  <2> QED
    BY <1>1, <2>1 DEF Sound
<1>4. /\ same # {} => First(same) \in Live(d)
      /\ remoted # {} => First(remoted) \in Live(d)
      /\ cands # {} => First(cands) \in Live(d)
  <2>1. same # {} => First(same) \in same
    BY <1>2, FirstIsOne
  <2>2. remoted # {} => First(remoted) \in remoted
    BY <1>2, FirstIsOne
  <2>3. cands # {} => First(cands) \in cands
    BY <1>2, FirstIsOne
  <2> QED
    BY <1>2, <2>1, <2>2, <2>3
<1>5. \/ owners # {} /\ Decide(d, f) = [is |-> "attach", to |-> d.locations[First(owners)].project]
      \/ Decide(d, f).is \in {"new", "ambiguous", "fork"}
      \/ same # {} /\ Decide(d, f) = [is |-> "attach", to |-> First(same)]
      \/ remoted # {} /\ Decide(d, f) = [is |-> "attach", to |-> First(remoted)]
      \/ cands # {} /\ Decide(d, f) = [is |-> "attach", to |-> First(cands)]
  BY DEF Decide
<1> HIDE DEF owners, cands, remoted, same
<1> QED
  BY <1>3, <1>4, <1>5

LEMMA ResolveLands ==
    ASSUME NEW d \in Index, Sound(d), NEW f \in Found, NEW r, r = ResolveIdentity(d, f)
    PROVE  r.db \in Index /\ Grown(d, r.db) /\ r.project \in Live(r.db)
<1> DEFINE verdict == Decide(d, f)
<1>1. CASE verdict.is = "attach"
  <2>1. r = [db |-> d, project |-> verdict.to]
    BY <1>1 DEF ResolveIdentity
  <2> QED
    BY <1>1, <2>1, DecideAttachesToLive, GrownSelf
<1>2. CASE verdict.is = "new"
  <2>1. r = CreateOrHydrate(d, f, FALSE)
    BY <1>2 DEF ResolveIdentity
  <2> QED
    BY <2>1, CreateOrHydrateLands
<1>3. CASE verdict.is = "ambiguous"
  <2>1. r.db = Create(d, f, FALSE, TRUE) /\ r.project = Len(d.projects) + 1
    BY <1>3 DEF ResolveIdentity
  <2>2. FALSE \in BOOLEAN /\ TRUE \in BOOLEAN
    OBVIOUS
  <2>3. /\ Create(d, f, FALSE, TRUE) \in Index /\ Grown(d, Create(d, f, FALSE, TRUE))
        /\ Len(d.projects) + 1 \in Live(Create(d, f, FALSE, TRUE))
    BY <2>2, CreateGrows
  <2> QED
    BY <2>1, <2>3
<1>4. CASE verdict.is = "fork"
  <2> DEFINE landed == CreateOrHydrate(d, f, TRUE)
             m == Mark(landed.db, verdict.related, "fork")
  <2>1. landed.db \in Index /\ Grown(d, landed.db) /\ landed.project \in Live(landed.db)
    BY CreateOrHydrateLands
  <2>2. r = [landed EXCEPT !.db = FlagRemoteless(m, f.lineage)]
    BY <1>4 DEF ResolveIdentity
  <2>3. \E x, y : landed = [db |-> x, project |-> y]
    BY DEF CreateOrHydrate
  <2>4. r.db = FlagRemoteless(m, f.lineage) /\ r.project = landed.project
    BY <2>2, <2>3
  <2> HIDE DEF landed
  <2>5. m \in Index /\ Grown(landed.db, m)
    BY <2>1, MarkGrows
  <2> HIDE DEF m
  <2>6. r.db \in Index /\ Grown(m, r.db)
    BY <2>4, <2>5, FlagRemotelessGrows
  <2>7. Grown(d, r.db) /\ Grown(landed.db, r.db)
    BY <2>1, <2>5, <2>6, GrownTwice
  <2>8. Live(landed.db) \subseteq Live(r.db)
    BY <2>7 DEF Grown, Live
  <2> QED
    BY <2>1, <2>4, <2>6, <2>7, <2>8
<1> QED
  BY <1>1, <1>2, <1>3, <1>4, DecideAttachesToLive

\* What a hand-off does to the copies keeps each with a live project.
LEMMA ClaimIsSound ==
    ASSUME NEW d \in Index, Sound(d), NEW p, NEW f, NEW path,
           NEW e, e = ClaimRemovedRow(d, p, f, path)
    PROVE  e \in Index /\ Sound(e) /\ e.projects = d.projects
<1> DEFINE own(row) == /\ row.project = p
                       /\ f.lineage # None
                       /\ d.projects[p].lineage = f.lineage
           claimed(l, row) == IF row.key # path \/ ~row.removed THEN row
                              ELSE IF own(row) THEN [row EXCEPT !.removed = FALSE]
                              ELSE [row EXCEPT !.key = Released(l)]
           s == [l \in DOMAIN d.locations |-> claimed(l, d.locations[l])]
<1>1. ASSUME NEW l \in DOMAIN d.locations
      PROVE  s[l] \in Location /\ s[l].project = d.locations[l].project
  <2>1. d.locations[l] \in Location /\ l \in Nat
    BY IndexParts
  <2>2. Released(l) \in {"released"} \X Nat
    BY <2>1 DEF Released
  <2>3. \/ s[l] = d.locations[l]
        \/ s[l] = [d.locations[l] EXCEPT !.removed = FALSE]
        \/ s[l] = [d.locations[l] EXCEPT !.key = Released(l)]
    OBVIOUS
  <2> HIDE DEF s
  <2> QED
    BY <2>1, <2>2, <2>3 DEF Location
<1>2. DOMAIN d.locations = 1..Len(d.locations) /\ Len(d.locations) \in Nat
  BY IndexParts
<1>3. s \in Seq(Location) /\ DOMAIN s = DOMAIN d.locations
  <2>1. s \in [1..Len(d.locations) -> Location]
    BY <1>1, <1>2
  <2> HIDE DEF s
  <2> QED
    BY <1>2, <2>1, SeqDef
<1>4. e = [d EXCEPT !.locations = s]
  BY DEF ClaimRemovedRow
<1> HIDE DEF s
<1>5. /\ e \in Index /\ e.projects = d.projects
      /\ e.locations = s /\ Live(e) = Live(d)
  BY <1>3, <1>4 DEF Index, Live
<1> QED
  BY <1>1, <1>3, <1>5 DEF Sound

LEMMA UpsertIsSound ==
    ASSUME NEW d \in Index, Sound(d), NEW p \in Live(d), NEW f \in Found, NEW path \in Paths,
           NEW generation \in Nat,
           NEW e, e = UpsertLocation(d, p, f, path, generation)
    PROVE  e \in Index /\ Sound(e)
<1>1. /\ d.locations \in Seq(Location) /\ Len(d.locations) \in Nat
      /\ DOMAIN d.locations = 1..Len(d.locations) /\ p \in Nat
  BY IndexParts
<1>2. CASE At(d, path) = {}
  <2> DEFINE row == [key |-> path, path |-> path, project |-> p, common |-> f.common,
                     presence |-> "present", generation |-> generation, removed |-> FALSE]
             s == Append(d.locations, row)
  <2>1. row \in Location /\ row.project = p
    BY <1>1 DEF Location, Presences, Found
  <2>2. e = [d EXCEPT !.locations = s]
    BY <1>2 DEF UpsertLocation
  <2> HIDE DEF row
  <2>3. /\ s \in Seq(Location) /\ DOMAIN s = 1..(Len(d.locations) + 1)
        /\ \A l \in 1..Len(d.locations) : s[l] = d.locations[l]
        /\ s[Len(d.locations) + 1] = row
    BY <1>1, <2>1
  <2> HIDE DEF s
  <2>4. /\ e \in Index /\ e.projects = d.projects
        /\ e.locations = s /\ Live(e) = Live(d)
    BY <2>2, <2>3 DEF Index, Live
  <2>5. ASSUME NEW l \in DOMAIN s PROVE s[l].project \in Live(d)
    <3>1. l = Len(d.locations) + 1 \/ l \in 1..Len(d.locations)
      BY <1>1, <2>3
    <3>2. l \in 1..Len(d.locations) => d.locations[l].project \in Live(d)
      BY <1>1 DEF Sound
    <3> QED
      BY <2>1, <2>3, <3>1, <3>2
  <2> QED
    BY <2>4, <2>5 DEF Sound
<1>3. CASE At(d, path) # {}
  <2> DEFINE l == First(At(d, path))
             row == [d.locations[l] EXCEPT !.project = p, !.common = f.common,
                                           !.presence = "present", !.generation = generation]
             s == [d.locations EXCEPT ![l] = row]
  <2>1. l \in DOMAIN d.locations
    <3>1. At(d, path) \subseteq DOMAIN d.locations /\ DOMAIN d.locations \subseteq Nat
      BY <1>1 DEF At
    <3> QED
      BY <1>3, <3>1, FirstIsOne
  <2>2. d.locations[l] \in Location
    BY <2>1, IndexParts
  <2>3. row \in Location /\ row.project = p
    BY <1>1, <2>2 DEF Location, Presences, Found
  <2>4. e = [d EXCEPT !.locations = s]
    <3>1. e = [d EXCEPT !.locations[l] = row]
      BY <1>3 DEF UpsertLocation
    <3> HIDE DEF row, l
    <3> QED
      BY <3>1
  <2> HIDE DEF row, l
  <2>5. /\ s \in Seq(Location) /\ DOMAIN s = DOMAIN d.locations
        /\ \A m \in DOMAIN d.locations : s[m] = IF m = l THEN row ELSE d.locations[m]
    BY <1>1, <2>1, <2>3, ExceptSeq
  <2> HIDE DEF s
  <2>6. /\ e \in Index /\ e.projects = d.projects
        /\ e.locations = s /\ Live(e) = Live(d)
    BY <2>4, <2>5 DEF Index, Live
  <2>7. \A m \in DOMAIN s : s[m].project \in Live(d)
    BY <2>3, <2>5 DEF Sound
  <2> QED
    BY <2>6, <2>7 DEF Sound
<1> QED
  BY <1>2, <1>3

\* A hand-off of any find at any path, whatever index it was probed under.
LEMMA HandOffIsSound ==
    ASSUME NEW d \in Index, Sound(d), NEW f \in Found, NEW path \in Paths, NEW generation \in Nat
    PROVE  HandOff(d, f, path, generation) \in Index /\ Sound(HandOff(d, f, path, generation))
<1> DEFINE r == ResolveIdentity(d, f)
           c == ClaimRemovedRow(r.db, r.project, f, path)
<1>1. r.db \in Index /\ Grown(d, r.db) /\ r.project \in Live(r.db)
  BY ResolveLands
<1>2. Sound(r.db)
  BY <1>1, GrownIsSound
<1>3. c \in Index /\ Sound(c) /\ c.projects = r.db.projects
  BY <1>1, <1>2, ClaimIsSound
<1>4. r.project \in Live(c)
  BY <1>1, <1>3 DEF Live
<1>5. HandOff(d, f, path, generation) = UpsertLocation(c, r.project, f, path, generation)
  BY DEF HandOff
<1> HIDE DEF c, r
<1> QED
  BY <1>3, <1>4, <1>5, UpsertIsSound

-----------------------------------------------------------------------------
(* A listing and an answer.                                                  *)

\* write_binding for an id that is a project's or is not.
LEMMA BindGrows ==
    ASSUME NEW d \in Index, NEW p, NEW id \in Ids, NEW basis \in {"provider_id", "remote_key"}
    PROVE  Bind(d, p, id, basis) \in Index /\ Grown(d, Bind(d, p, id, basis))
<1> DEFINE row == [d.projects[p] EXCEPT !.bound = id, !.basis = basis]
           s == [d.projects EXCEPT ![p] = row]
<1>1. Bind(d, p, id, basis) = [d EXCEPT !.projects = s]
  <2>1. s = [[d.projects EXCEPT ![p].bound = id] EXCEPT ![p].basis = basis]
    OBVIOUS
  <2> QED
    BY <2>1 DEF Bind, Index
<1>2. d.projects \in Seq(Project) /\ DOMAIN d.projects = 1..Len(d.projects)
  BY IndexParts
<1>3. p \in DOMAIN d.projects => row \in Project
  <2> SUFFICES ASSUME p \in DOMAIN d.projects
               PROVE  row \in Project
    OBVIOUS
  <2>1. d.projects[p] \in Project
    BY IndexParts
  <2> QED
    BY <2>1 DEF Project
<1> HIDE DEF row
<1>4. /\ s \in Seq(Project) /\ Len(s) = Len(d.projects)
  <2>1. CASE p \in DOMAIN d.projects
    BY <1>2, <1>3, <2>1, ExceptSeq
  <2>2. CASE p \notin DOMAIN d.projects
    <3>1. s = d.projects
      BY <1>2, <2>2
    <3> QED
      BY <1>2, <3>1
  <2> QED
    BY <2>1, <2>2
<1> HIDE DEF s
<1> QED
  BY <1>1, <1>4, RowGrown

LEMMA IngestIsSound ==
    ASSUME NEW d \in Index, Sound(d), NEW listing \in Listings
    PROVE  IngestListing(d, listing) \in Index /\ Sound(IngestListing(d, listing))
<1> DEFINE e == IngestListing(d, listing)
           found == IF ById(d, listing) # {} THEN ById(d, listing) ELSE ByKey(d, listing)
           basis == IF ById(d, listing) # {} THEN "provider_id" ELSE "remote_key"
           attached == Bind(d, First(found), listing.id, basis)
           row == [lineage |-> None, remote |-> listing.remote, bound |-> listing.id,
                   basis |-> "remote_key", fork |-> listing.fork, ambiguous |-> FALSE]
<1>1. attached \in Index /\ Grown(d, attached)
  <2>1. listing.id \in Ids /\ basis \in {"provider_id", "remote_key"}
    BY DEF Ids
  <2> HIDE DEF basis, found
  <2> QED
    BY <2>1, BindGrows
<1>2. row \in Project
  BY LibraryAssumption DEF Project, Lineages, Remotes, Ids
<1>3. \/ e = Mark(attached, found, "fork") \/ e = attached
      \/ e = Mark(d, found, "ambiguous") \/ e = d
      \/ e = [d EXCEPT !.projects = Append(@, row)]
  BY DEF IngestListing
<1> HIDE DEF attached, row, found, e
<1>4. e \in Index /\ Grown(d, e)
  <2>1. CASE e = Mark(attached, found, "fork")
    <3>1. e \in Index /\ Grown(attached, e)
      BY <1>1, <2>1, MarkGrows
    <3> QED
      BY <1>1, <3>1, GrownTwice
  <2>2. CASE e = attached
    BY <1>1, <2>2
  <2>3. CASE e = Mark(d, found, "ambiguous")
    BY <2>3, MarkGrows
  <2>4. CASE e = d
    BY <2>4, GrownSelf
  <2>5. CASE e = [d EXCEPT !.projects = Append(@, row)]
    BY <1>2, <2>5, AppendGrows
  <2> QED
    BY <1>3, <2>1, <2>2, <2>3, <2>4, <2>5
<1> QED
  BY <1>4, GrownIsSound DEF e

-----------------------------------------------------------------------------
(* What changes a copy's row alone.                                          *)

LEMMA CopiesKept ==
    ASSUME NEW d \in Index, Sound(d), NEW s \in Seq(Location), DOMAIN s = DOMAIN d.locations,
           \A l \in DOMAIN s : s[l].project = d.locations[l].project,
           NEW e, e = [d EXCEPT !.locations = s]
    PROVE  e \in Index /\ Sound(e)
<1>1. /\ e \in Index /\ e.projects = d.projects
      /\ e.locations = s /\ Live(e) = Live(d)
  BY DEF Index, Live
<1> QED
  BY <1>1 DEF Sound

\* One copy's row is replaced, or, if there is no such copy, nothing is.
LEMMA CopyReplaced ==
    ASSUME NEW d \in Index, Sound(d), NEW l, NEW row,
           l \in DOMAIN d.locations =>
               row \in Location /\ row.project = d.locations[l].project,
           NEW e, e = [d EXCEPT !.locations = [d.locations EXCEPT ![l] = row]]
    PROVE  e \in Index /\ Sound(e)
<1> DEFINE s == [d.locations EXCEPT ![l] = row]
<1>1. d.locations \in Seq(Location) /\ DOMAIN d.locations = 1..Len(d.locations)
  BY IndexParts
<1>2. /\ s \in Seq(Location) /\ DOMAIN s = DOMAIN d.locations
      /\ \A m \in DOMAIN s : s[m].project = d.locations[m].project
  <2>1. CASE l \in DOMAIN d.locations
    BY <1>1, <2>1, ExceptSeq
  <2>2. CASE l \notin DOMAIN d.locations
    <3>1. s = d.locations
      BY <1>1, <2>2
    <3> QED
      BY <1>1, <3>1
  <2> QED
    BY <2>1, <2>2
<1> HIDE DEF s
<1> QED
  BY <1>2, CopiesKept DEF s

LEMMA RelocateIsSound ==
    ASSUME NEW d \in Index, Sound(d), NEW l \in DOMAIN d.locations, NEW path \in Paths
    PROVE  Relocate(d, l, path) \in Index /\ Sound(Relocate(d, l, path))
<1> DEFINE row == [d.locations[l] EXCEPT !.key = path, !.path = path]
<1>1. d.locations[l] \in Location
  BY IndexParts
<1>2. row \in Location /\ row.project = d.locations[l].project
  BY <1>1 DEF Location
<1>3. Relocate(d, l, path) = [d EXCEPT !.locations = [d.locations EXCEPT ![l] = row]]
  <2>1. [d.locations EXCEPT ![l] = row]
        = [[d.locations EXCEPT ![l].key = path] EXCEPT ![l].path = path]
    OBVIOUS
  <2> QED
    BY <2>1 DEF Relocate, Index
<1> HIDE DEF row
<1> QED
  BY <1>2, <1>3, CopyReplaced

LEMMA CommitRemovalIsSound ==
    ASSUME NEW d \in Index, Sound(d), NEW l
    PROVE  CommitRemoval(d, l) \in Index /\ Sound(CommitRemoval(d, l))
<1> DEFINE row == [d.locations[l] EXCEPT !.removed = TRUE]
<1>1. l \in DOMAIN d.locations => row \in Location /\ row.project = d.locations[l].project
  <2> SUFFICES ASSUME l \in DOMAIN d.locations
               PROVE  row \in Location /\ row.project = d.locations[l].project
    OBVIOUS
  <2>1. d.locations[l] \in Location
    BY IndexParts
  <2> QED
    BY <2>1 DEF Location
<1>2. CommitRemoval(d, l) = [d EXCEPT !.locations = [d.locations EXCEPT ![l] = row]]
  BY DEF CommitRemoval
<1> HIDE DEF row
<1> QED
  BY <1>1, <1>2, CopyReplaced

LEMMA PresenceIsSound ==
    ASSUME NEW d \in Index, Sound(d), NEW l, NEW presence \in Presences
    PROVE  /\ [d EXCEPT !.locations[l].presence = presence] \in Index
           /\ Sound([d EXCEPT !.locations[l].presence = presence])
<1> DEFINE row == [d.locations[l] EXCEPT !.presence = presence]
<1>1. l \in DOMAIN d.locations => row \in Location /\ row.project = d.locations[l].project
  <2> SUFFICES ASSUME l \in DOMAIN d.locations
               PROVE  row \in Location /\ row.project = d.locations[l].project
    OBVIOUS
  <2>1. d.locations[l] \in Location
    BY IndexParts
  <2> QED
    BY <2>1 DEF Location
<1>2. [d EXCEPT !.locations[l].presence = presence]
      = [d EXCEPT !.locations = [d.locations EXCEPT ![l] = row]]
  OBVIOUS
<1> HIDE DEF row
<1> QED
  BY <1>1, <1>2, CopyReplaced

-----------------------------------------------------------------------------
(* The threads.                                                              *)

Inv == TypeOK /\ Sound(db)

\* The types but for the index, which the lemmas above give.
Hands ==
    /\ disk \in [Paths -> Found \cup {None}]
    /\ scan \in [pc : {"idle", "walk", "apply"}, generation : Nat,
                 survey : {None, "reached", "away", "disabled"}, todo : SUBSET Paths,
                 cancelled : BOOLEAN, writes : SUBSET [row : Nat, presence : Presences]]
    /\ scan.pc = "apply" => scan.writes # {}
    /\ look \in [Paths -> Candidate \cup Found \cup {None}]
    /\ asked \in [project : Nat, id : Ids] \cup {None}
    /\ removal \in {NoRemoval} \cup
           [pc : {"read", "safe", "gone"}, row : [id : Nat, path : Paths, lineage : Lineages],
            seen : Found \cup {None}]
    /\ clone \in {NoClone} \cup [path : Paths, found : Candidate \cup Found]
    /\ emptied \subseteq Nat
    /\ left \in [Happenings -> Nat]

LEMMA InvSplits == Inv <=> Hands /\ db \in Index /\ Sound(db)
BY DEF Inv, Hands, TypeOK

LEMMA SpendKeeps ==
    ASSUME Hands, NEW what \in Happenings, Spend(what)
    PROVE  left' \in [Happenings -> Nat]
BY DEF Hands, Spend

LEMMA NoScanIsScan ==
    ASSUME NEW generation \in Nat
    PROVE  /\ NoScan(generation) \in
                [pc : {"idle", "walk", "apply"}, generation : Nat,
                 survey : {None, "reached", "away", "disabled"}, todo : SUBSET Paths,
                 cancelled : BOOLEAN, writes : SUBSET [row : Nat, presence : Presences]]
           /\ NoScan(generation).pc # "apply"
BY DEF NoScan

LEMMA LandsIsSound ==
    ASSUME Inv, NEW f \in Found, NEW path \in Paths, NEW generation \in Nat,
           Lands(f, path, generation)
    PROVE  db' \in Index /\ Sound(db') /\ emptied' \subseteq Nat
<1>1. db \in Index /\ Sound(db) /\ emptied \subseteq Nat
  BY DEF Inv, TypeOK
<1>2. CASE db' = HandOff(db, f, path, generation)
  <2>1. db' \in Index /\ Sound(db')
    BY <1>1, <1>2, HandOffIsSound
  <2>2. emptied' \subseteq emptied \cup DOMAIN db.projects
    BY DEF Lands
  <2>3. DOMAIN db.projects \subseteq Nat
    BY <1>1, IndexParts
  <2> QED
    BY <1>1, <2>1, <2>2, <2>3
<1>3. CASE UNCHANGED <<db, emptied>>
  BY <1>1, <1>3
<1> QED
  BY <1>2, <1>3 DEF Lands

LEMMA InitInv == Init => Inv
<1> SUFFICES ASSUME Init PROVE Inv
  OBVIOUS
<1>1. NoIndex \in Index /\ Sound(NoIndex)
  <2>1. <<>> \in Seq(Project) /\ <<>> \in Seq(Location)
    BY EmptySeq
  <2>2. NoIndex \in Index
    BY <2>1 DEF NoIndex, Index
  <2>3. DOMAIN NoIndex.projects = {} /\ DOMAIN NoIndex.locations = {}
    BY DEF NoIndex
  <2> QED
    BY <2>2, <2>3 DEF Sound
<1>2. Hands
  BY NoScanIsScan, LibraryAssumption DEF Init, Hands
<1> QED
  BY <1>1, <1>2, InvSplits DEF Init

LEMMA PutInv == ASSUME Inv, NEW p \in Paths, Put(p) PROVE Inv'
<1>1. disk' \in [Paths -> Found \cup {None}]
  <2>1. PICK c \in {Main(r, p) : r \in Repos} \cup {disk[q] : q \in Paths \ {p}} \cup {None} :
            disk' = [disk EXCEPT ![p] = c]
    BY DEF Put
  <2>2. \A r \in Repos : Main(r, p) \in Found
    BY DEF Main, Found, Lineages, Remotes
  <2>3. c \in Found \cup {None}
    BY <2>2 DEF Inv, TypeOK
  <2> QED
    BY <2>1, <2>3 DEF Inv, TypeOK
<1>2. left' \in [Happenings -> Nat]
  BY InvSplits, SpendKeeps DEF Put, Happenings
<1> QED
  BY <1>1, <1>2 DEF Inv, TypeOK, Put, Sound, Live

\* What a probe answers for a candidate, if anything, is a find.
LEMMA ProbedIsFound ==
    ASSUME disk \in [Paths -> Found \cup {None}], NEW p \in Paths, NEW c \in Candidate,
           NEW f \in Probed(c, p)
    PROVE  f \in Found \cup {None}
BY DEF Probed, Readable, Candidate, Found

\* The index and what is not named in a step stay.
LEMMA ScanningInv == ASSUME Inv, Scanning PROVE Inv'
<1> DEFINE Scans == [pc : {"idle", "walk", "apply"}, generation : Nat,
                     survey : {None, "reached", "away", "disabled"}, todo : SUBSET Paths,
                     cancelled : BOOLEAN, writes : SUBSET [row : Nat, presence : Presences]]
<1>1. /\ scan \in Scans /\ scan.generation \in Nat /\ db \in Index /\ Sound(db)
      /\ look \in [Paths -> Candidate \cup Found \cup {None}] /\ disk \in [Paths -> Found \cup {None}]
  BY DEF Inv, TypeOK
<1>2. ASSUME NEW survey \in {"reached", "away", "disabled"}, ScanBegins(survey)
      PROVE  Inv'
  <2>1. left' \in [Happenings -> Nat]
    BY <1>2, InvSplits, SpendKeeps DEF ScanBegins, Happenings
  <2>2. scan' \in Scans /\ scan'.pc = "walk"
    <3>1. PICK todo \in SUBSET Paths :
              scan' = [NoScan(scan.generation + 1) EXCEPT !.pc = "walk", !.survey = survey,
                                                          !.todo = todo]
      BY <1>2 DEF ScanBegins
    <3>2. scan.generation + 1 \in Nat
      BY <1>1
    <3> QED
      BY <3>1, <3>2 DEF NoScan
  <2> QED
    BY <1>2, <2>1, <2>2 DEF Inv, TypeOK, ScanBegins, Sound, Live
<1>3. ASSUME NEW p \in Paths, Look(p)
      PROVE  Inv'
  <2>1. scan' \in Scans /\ scan'.pc = "walk"
    BY <1>1, <1>3 DEF Look
  <2>2. look' \in [Paths -> Candidate \cup Found \cup {None}]
    <3>1. disk[p] # None => [common |-> disk[p].common] \in Candidate
      BY <1>1 DEF Found, Candidate
    <3> QED
      BY <1>1, <1>3, <3>1 DEF Look
  <2> QED
    BY <1>3, <2>1, <2>2 DEF Inv, TypeOK, Look, Sound, Live
<1>8. ASSUME NEW p \in Paths, Probe(p)
      PROVE  Inv'
  <2>1. look' \in [Paths -> Candidate \cup Found \cup {None}]
    BY <1>1, <1>8, ProbedIsFound DEF Probe
  <2> QED
    BY <1>8, <2>1 DEF Inv, TypeOK, Probe, Sound, Live
<1>4. ASSUME NEW p \in Paths, HandOffFound(p)
      PROVE  Inv'
  <2>1. look[p] \in Found
    BY <1>1, <1>4 DEF HandOffFound
  <2>2. db' \in Index /\ Sound(db') /\ emptied' \subseteq Nat
    BY <1>1, <1>4, <2>1, LandsIsSound DEF HandOffFound
  <2>3. look' \in [Paths -> Candidate \cup Found \cup {None}]
    BY <1>1, <1>4 DEF HandOffFound
  <2>4. Sound(db)'
    BY <2>2 DEF Sound, Live
  <2> QED
    BY <1>4, <2>2, <2>3, <2>4 DEF Inv, TypeOK, HandOffFound
<1>5. CASE CancelScan
  <2>1. scan' \in Scans /\ scan'.pc = "walk"
    BY <1>1, <1>5 DEF CancelScan
  <2> QED
    BY <1>5, <2>1 DEF Inv, TypeOK, CancelScan, Sound, Live
<1>6. CASE WalkEnds
  <2> DEFINE writes == {[row |-> l, presence |-> Classified(db.locations[l])] :
                         l \in {m \in DOMAIN db.locations :
                                   Classified(db.locations[m]) # db.locations[m].presence}}
  <2>1. writes \in SUBSET [row : Nat, presence : Presences]
    <3>1. \A l \in DOMAIN db.locations : l \in Nat /\ Classified(db.locations[l]) \in Presences
      BY <1>1, IndexParts DEF Classified, Presences
    <3> QED
      BY <3>1
  <2>2. \/ scan' = NoScan(scan.generation)
        \/ writes # {} /\ scan' = [scan EXCEPT !.pc = "apply", !.writes = writes]
    BY <1>6 DEF WalkEnds
  <2> HIDE DEF writes
  <2>3. scan' \in Scans /\ (scan'.pc = "apply" => scan'.writes # {})
    BY <1>1, <2>1, <2>2, NoScanIsScan
  <2> QED
    BY <1>6, <2>3 DEF Inv, TypeOK, WalkEnds, Sound, Live
<1>7. CASE PresenceWrite
  <2>1. \E w \in scan.writes : \A y \in scan.writes : w.row <= y.row
    <3> DEFINE rows == {w.row : w \in scan.writes}
    <3>1. rows \subseteq Nat /\ rows # {}
      BY <1>7 DEF PresenceWrite, Inv, TypeOK
    <3>2. PICK n \in rows : \A m \in rows : n <= m
      BY <3>1, LeastNatural
    <3> QED
      BY <3>2
  <2>2. PICK w \in scan.writes :
            /\ db' = [db EXCEPT !.locations[w.row].presence = w.presence]
            /\ scan' = IF scan.writes = {w} THEN NoScan(scan.generation)
                       ELSE [scan EXCEPT !.writes = @ \ {w}]
    BY <1>7, <2>1 DEF PresenceWrite
  <2>3. w.presence \in Presences
    BY <1>1
  <2>4. db' \in Index /\ Sound(db')
    BY <1>1, <2>2, <2>3, PresenceIsSound
  <2>5. scan' \in Scans /\ (scan'.pc = "apply" => scan'.writes # {})
    <3>1. CASE scan.writes = {w}
      BY <1>1, <2>2, <3>1, NoScanIsScan
    <3>2. CASE scan.writes # {w}
      <4>1. scan.writes \ {w} # {} /\ scan.writes \ {w} \in SUBSET [row : Nat, presence : Presences]
        BY <1>1, <3>2
      <4>2. scan' = [scan EXCEPT !.writes = scan.writes \ {w}]
        BY <2>2, <3>2
      <4> QED
        BY <1>1, <4>1, <4>2
    <3> QED
      BY <3>1, <3>2
  <2>6. Sound(db)'
    BY <2>4 DEF Sound, Live
  <2> QED
    BY <1>7, <2>4, <2>5, <2>6 DEF Inv, TypeOK, PresenceWrite
<1> QED
  BY <1>2, <1>3, <1>4, <1>5, <1>6, <1>7, <1>8 DEF Scanning

LEMMA SyncingInv == ASSUME Inv, Syncing PROVE Inv'
<1>1. Sound(db)
  BY DEF Inv
<1>2. db \in Index
  BY DEF Inv, TypeOK
<1>3. ASSUME NEW listing \in Listings, Ingest(listing)
      PROVE  Inv'
  <2>1. db' \in Index /\ Sound(db)'
    BY <1>1, <1>2, <1>3, IngestIsSound DEF Ingest, Sound, Live
  <2>2. left' \in [Happenings -> Nat]
    BY <1>3, InvSplits, SpendKeeps DEF Ingest, Happenings
  <2> QED
    BY <1>3, <2>1, <2>2 DEF Inv, TypeOK, Ingest
<1>4. ASSUME NEW p \in DOMAIN db.projects, NEW listing \in Listings, AskForge(p, listing)
      PROVE  Inv'
  <2>1. asked' \in [project : Nat, id : Ids]
    <3>1. p \in Nat /\ listing.id \in Ids
      BY <1>2, IndexParts DEF Ids
    <3> QED
      BY <1>4, <3>1 DEF AskForge
  <2>2. left' \in [Happenings -> Nat]
    BY <1>4, InvSplits, SpendKeeps DEF AskForge, Happenings
  <2> QED
    BY <1>4, <2>1, <2>2 DEF Inv, TypeOK, AskForge, Sound, Live
<1>5. CASE WriteAnswer
  <2>1. asked.id \in Ids
    BY <1>5 DEF WriteAnswer, Inv, TypeOK
  <2>2. db' \in Index /\ Grown(db, db')
    BY <1>2, <1>5, <2>1, BindGrows DEF WriteAnswer
  <2>3. Sound(db')
    BY <1>1, <2>2, GrownIsSound
  <2> QED
    BY <1>5, <2>2, <2>3 DEF Inv, TypeOK, WriteAnswer, Sound, Live
<1> QED
  BY <1>3, <1>4, <1>5 DEF Syncing

LEMMA CloneInv ==
    ASSUME Inv, \/ CloneProbed \/ CloneIndexed
                \/ \E p \in Paths, r \in Repos : CloneLands(p, r)
    PROVE  Inv'
<1>1. CASE CloneIndexed
  <2>1. clone.path \in Paths /\ clone.found \in Found
    BY <1>1 DEF CloneIndexed, Inv, TypeOK, NoClone
  <2>2. Lands(clone.found, clone.path, 0) /\ 0 \in Nat
    BY <1>1 DEF CloneIndexed
  <2>3. db' \in Index /\ Sound(db') /\ emptied' \subseteq Nat
    BY <2>1, <2>2, LandsIsSound
  <2> QED
    BY <1>1, <2>3 DEF Inv, TypeOK, CloneIndexed, Sound, Live
<1>2. ASSUME NEW p \in Paths, NEW r \in Repos, CloneLands(p, r)
      PROVE  Inv'
  <2>1. Main(r, p) \in Found /\ [common |-> p] \in Candidate
    BY DEF Main, Found, Lineages, Remotes, Candidate
  <2>2. left' \in [Happenings -> Nat]
    BY <1>2, InvSplits, SpendKeeps DEF CloneLands, Happenings
  <2>3. /\ disk' \in [Paths -> Found \cup {None}]
        /\ clone' \in [path : Paths, found : Candidate \cup Found]
    BY <1>2, <2>1 DEF CloneLands, Inv, TypeOK
  <2> QED
    BY <1>2, <2>2, <2>3 DEF Inv, TypeOK, CloneLands, Sound, Live
<1>3. CASE CloneProbed
  <2>1. clone \in [path : Paths, found : Candidate \cup Found]
    BY <1>3, Zenon DEF CloneProbed, Inv, TypeOK
  <2>2. PICK found \in Probed(clone.found, clone.path) :
            clone' = IF found = None THEN NoClone ELSE [clone EXCEPT !.found = found]
    BY <1>3 DEF CloneProbed
  <2>3. found \in Found \cup {None}
    BY <1>3, <2>1, <2>2, ProbedIsFound DEF Inv, TypeOK, CloneProbed
  <2>4. clone' \in {NoClone} \cup [path : Paths, found : Candidate \cup Found]
    BY <2>1, <2>2, <2>3
  <2> QED
    BY <1>3, <2>4 DEF Inv, TypeOK, CloneProbed, Sound, Live
<1> QED
  BY <1>1, <1>2, <1>3

LEMMA CommandsInv == ASSUME Inv, Commands PROVE Inv'
<1> DEFINE Removals == [pc : {"read", "safe", "gone"},
                        row : [id : Nat, path : Paths, lineage : Lineages],
                        seen : Found \cup {None}]
<1>1. /\ db \in Index /\ Sound(db) /\ removal \in {NoRemoval} \cup Removals
      /\ disk \in [Paths -> Found \cup {None}]
  BY DEF Inv, TypeOK
<1>2. removal.pc # "none" => removal \in Removals
  BY <1>1 DEF NoRemoval
<1>4. ASSUME NEW l \in DOMAIN db.locations, NEW p \in Paths, RelocateTo(l, p)
      PROVE  Inv'
  <2>1. db' \in Index /\ Sound(db')
    BY <1>1, <1>4, RelocateIsSound DEF RelocateTo
  <2>2. left' \in [Happenings -> Nat]
    BY <1>4, InvSplits, SpendKeeps DEF RelocateTo, Happenings
  <2> QED
    BY <1>4, <2>1, <2>2 DEF Inv, TypeOK, RelocateTo, Sound, Live
<1>5. ASSUME NEW l \in DOMAIN db.locations, UninstallReads(l)
      PROVE  Inv'
  <2>1. Row(l) \in [id : Nat, path : Paths, lineage : Lineages]
    <3>1. l \in Nat /\ db.locations[l] \in Location
      BY <1>1, IndexParts
    <3>2. db.locations[l].project \in DOMAIN db.projects
      BY <1>1 DEF Sound, Live
    <3>3. db.projects[db.locations[l].project] \in Project
      BY <1>1, <3>2, IndexParts
    <3> QED
      BY <3>1, <3>3 DEF Row, Location, Project
  <2>2. removal' \in Removals
    BY <1>5, <2>1 DEF UninstallReads
  <2>3. left' \in [Happenings -> Nat]
    BY <1>5, InvSplits, SpendKeeps DEF UninstallReads, Happenings
  <2> QED
    BY <1>5, <2>2, <2>3 DEF Inv, TypeOK, UninstallReads, Sound, Live
<1>6. CASE Analysed
  <2>1. removal' \in {NoRemoval} \cup Removals
    BY <1>1, <1>2, <1>6 DEF Analysed
  <2> QED
    BY <1>6, <2>1 DEF Inv, TypeOK, Analysed, Sound, Live
<1>7. CASE Trashed
  <2>1. removal' \in {NoRemoval} \cup Removals /\ disk' \in [Paths -> Found \cup {None}]
    BY <1>1, <1>2, <1>7 DEF Trashed
  <2> QED
    BY <1>7, <2>1 DEF Inv, TypeOK, Trashed, Sound, Live
<1>8. CASE RemovalCommitted
  <2>1. db' \in Index /\ Sound(db')
    BY <1>1, <1>8, CommitRemovalIsSound DEF RemovalCommitted
  <2> QED
    BY <1>8, <2>1 DEF Inv, TypeOK, RemovalCommitted, Sound, Live
<1> QED
  BY <1>4, <1>5, <1>6, <1>7, <1>8 DEF Commands

LEMMA CrashInv == ASSUME Inv, Crash PROVE Inv'
<1>1. left' \in [Happenings -> Nat]
  BY InvSplits, SpendKeeps DEF Crash, Happenings
<1>2. scan.generation \in Nat
  BY DEF Inv, TypeOK
<1>3. look' \in [Paths -> Candidate \cup Found \cup {None}]
  BY DEF Crash
<1> QED
  BY <1>1, <1>2, <1>3, NoScanIsScan DEF Inv, TypeOK, Crash, Sound, Live

LEMMA NextInv == ASSUME Inv, [Next]_vars PROVE Inv'
<1>1. CASE UNCHANGED vars
  BY <1>1 DEF Inv, TypeOK, vars, Sound, Live
<1> QED
  BY <1>1, PutInv, ScanningInv, CloneInv, SyncingInv, CommandsInv, CrashInv DEF Next

LEMMA SpecInv == Spec => []Inv
<1>1. Init => Inv
  BY InitInv
<1>2. Inv /\ [Next]_vars => Inv'
  BY NextInv
<1> QED
  BY <1>1, <1>2, PTL DEF Spec

-----------------------------------------------------------------------------
\* The index and what each thread holds of it keep their types.
THEOREM SpecTypeOK == Spec => []TypeOK
<1>1. Inv => TypeOK
  BY DEF Inv
<1> QED
  BY <1>1, SpecInv, PTL

-----------------------------------------------------------------------------
(* One repository, one tile.  What keeps two rows of one repository apart is *)
(* read on each side of a hand-off, so the invariant speaks of a set of      *)
(* projects that never had a copy, from which the hand-off takes the one it  *)
(* lands on before that one's copy is written.                               *)

\* The forge says the two are two, or both wait for the user.
Apart(d, p, q) ==
    \/ d.projects[p].ambiguous /\ d.projects[q].ambiguous
    \/ /\ d.projects[p].bound # None /\ d.projects[q].bound # None
       /\ d.projects[p].bound # d.projects[q].bound

\* Those without a copy that never lost one.
Bare(d, E) == {p \in DOMAIN d.projects \ E : Copies(d, p) = {}}

\* A row no clone was read for came from a listing.
ListedOnly(d, B) ==
    \A p \in Live(d) \cap B :
        /\ d.projects[p].bound # None /\ d.projects[p].lineage = None
        /\ d.projects[p].remote # None

BareApart(d, B) ==
    \A p \in Live(d) \cap B, q \in Live(d) :
        /\ p # q /\ d.projects[q].remote # None
        /\ Fold(d.projects[p].remote) = Fold(d.projects[q].remote)
        => Apart(d, p, q)

LineagesApart(d, E) ==
    \A p, q \in Live(d) \ E :
        /\ p # q
        /\ d.projects[p].lineage # None /\ d.projects[p].lineage = d.projects[q].lineage
        /\ d.projects[p].remote # None /\ d.projects[p].remote = d.projects[q].remote
        => Apart(d, p, q)

Tiles(d, B, E) == ListedOnly(d, B) /\ BareApart(d, B) /\ LineagesApart(d, E)

\* A row that learns at most its forge id, and forgets no flag.
Kin(a, b) ==
    /\ b.lineage = a.lineage /\ b.remote = a.remote
    /\ b.bound = a.bound \/ a.bound = None
    /\ a.ambiguous => b.ambiguous

Steady(d, e) ==
    /\ DOMAIN e.projects = DOMAIN d.projects /\ Live(e) \subseteq Live(d)
    /\ \A p \in DOMAIN d.projects : Kin(d.projects[p], e.projects[p])

\* Every project there was keeps the forge id it had, or had not.
BoundKept(d, e) ==
    \A p \in DOMAIN d.projects :
        p \in DOMAIN e.projects /\ e.projects[p].bound = d.projects[p].bound

LEMMA SteadyTiles ==
    ASSUME NEW d, NEW e, Steady(d, e), NEW B, NEW C, NEW E, NEW F, Tiles(d, B, E),
           C \cap Live(e) \subseteq B, E \subseteq F
    PROVE  Tiles(e, C, F)
<1>1. ASSUME NEW p \in Live(e)
      PROVE  p \in Live(d) /\ p \in DOMAIN d.projects /\ Kin(d.projects[p], e.projects[p])
  BY DEF Steady, Live
<1>2. ASSUME NEW p \in Live(e), NEW q \in Live(e), Apart(d, p, q)
      PROVE  Apart(e, p, q)
  <2>1. Kin(d.projects[p], e.projects[p]) /\ Kin(d.projects[q], e.projects[q])
    BY <1>1
  <2> QED
    BY <1>2, <2>1 DEF Apart, Kin
<1>3. ListedOnly(e, C)
  <2> SUFFICES ASSUME NEW p \in Live(e) \cap C
               PROVE  /\ e.projects[p].bound # None /\ e.projects[p].lineage = None
                      /\ e.projects[p].remote # None
    BY DEF ListedOnly
  <2>1. p \in Live(d) \cap B /\ Kin(d.projects[p], e.projects[p])
    BY <1>1
  <2>2. /\ d.projects[p].bound # None /\ d.projects[p].lineage = None
        /\ d.projects[p].remote # None
    BY <2>1 DEF Tiles, ListedOnly
  <2> QED
    BY <2>1, <2>2 DEF Kin
<1>4. BareApart(e, C)
  <2> SUFFICES ASSUME NEW p \in Live(e) \cap C, NEW q \in Live(e),
                      p # q, e.projects[q].remote # None,
                      Fold(e.projects[p].remote) = Fold(e.projects[q].remote)
               PROVE  Apart(e, p, q)
    BY DEF BareApart
  <2>1. p \in Live(d) \cap B /\ q \in Live(d)
    BY <1>1
  <2>2. e.projects[p].remote = d.projects[p].remote /\ e.projects[q].remote = d.projects[q].remote
    BY <1>1 DEF Kin
  <2>3. Apart(d, p, q)
    BY <2>1, <2>2 DEF Tiles, BareApart
  <2> QED
    BY <1>2, <2>3
<1>5. LineagesApart(e, F)
  <2> SUFFICES ASSUME NEW p \in Live(e) \ F, NEW q \in Live(e) \ F, p # q,
                      e.projects[p].lineage # None, e.projects[p].lineage = e.projects[q].lineage,
                      e.projects[p].remote # None, e.projects[p].remote = e.projects[q].remote
               PROVE  Apart(e, p, q)
    BY DEF LineagesApart
  <2>1. p \in Live(d) \ E /\ q \in Live(d) \ E
    BY <1>1
  <2>2. /\ e.projects[p].remote = d.projects[p].remote /\ e.projects[q].remote = d.projects[q].remote
        /\ e.projects[p].lineage = d.projects[p].lineage
        /\ e.projects[q].lineage = d.projects[q].lineage
    BY <1>1 DEF Kin
  <2>3. Apart(d, p, q)
    BY <2>1, <2>2 DEF Tiles, LineagesApart
  <2> QED
    BY <1>2, <2>3
<1> QED
  BY <1>3, <1>4, <1>5 DEF Tiles

LEMMA SteadySelf == \A d : Steady(d, d) /\ BoundKept(d, d)
BY DEF Steady, Kin, BoundKept

LEMMA MarkSteady ==
    ASSUME NEW d \in Index, NEW ps, NEW field \in {"fork", "ambiguous"},
           NEW e, e = Mark(d, ps, field)
    PROVE  Steady(d, e) /\ BoundKept(d, e) /\ Live(e) = Live(d)
<1>1. /\ DOMAIN e.projects = DOMAIN d.projects
      /\ \A p \in DOMAIN d.projects :
            e.projects[p] = IF p \in ps THEN [d.projects[p] EXCEPT ![field] = TRUE]
                            ELSE d.projects[p]
  BY DEF Mark, Index
<1>2. ASSUME NEW p \in DOMAIN d.projects
      PROVE  /\ Kin(d.projects[p], e.projects[p])
             /\ e.projects[p].bound = d.projects[p].bound
  <2>1. d.projects[p] \in Project
    BY IndexParts
  <2>2. CASE field = "fork"
    BY <1>1, <2>1, <2>2 DEF Project, Kin
  <2>3. CASE field = "ambiguous"
    BY <1>1, <2>1, <2>3 DEF Project, Kin
  <2> QED
    BY <2>2, <2>3
<1> QED
  BY <1>1, <1>2 DEF Steady, BoundKept, Live

LEMMA MarkRows ==
    ASSUME NEW d \in Index, NEW ps, NEW e, e = Mark(d, ps, "ambiguous")
    PROVE  /\ DOMAIN e.projects = DOMAIN d.projects
           /\ \A p \in DOMAIN d.projects :
                 e.projects[p] = IF p \in ps THEN [d.projects[p] EXCEPT !.ambiguous = TRUE]
                                 ELSE d.projects[p]
BY DEF Mark, Index

\* Of the projects marked ambiguous, each is.
LEMMA MarkFlags ==
    ASSUME NEW d \in Index, NEW ps, NEW p \in ps, p \in DOMAIN d.projects
    PROVE  Mark(d, ps, "ambiguous").projects[p].ambiguous
<1>1. d.projects[p] \in Project
  BY IndexParts
<1>2. Mark(d, ps, "ambiguous").projects[p] = [d.projects[p] EXCEPT !.ambiguous = TRUE]
  BY DEF Mark, Index
<1> QED
  BY <1>1, <1>2 DEF Project

LEMMA FlagRemotelessSteady ==
    ASSUME NEW d \in Index, NEW lineage, NEW e, e = FlagRemoteless(d, lineage)
    PROVE  Steady(d, e) /\ BoundKept(d, e)
<1> DEFINE on == {p \in Live(d) : lineage # None /\ d.projects[p].lineage = lineage}
           remoteless == {p \in on : d.projects[p].remote = None}
<1>1. e \in {d, Mark(d, remoteless, "ambiguous")}
  BY DEF FlagRemoteless
<1> HIDE DEF remoteless
<1> QED
  BY <1>1, MarkSteady, SteadySelf

LEMMA BoundKeptTwice ==
    ASSUME NEW d, NEW e, NEW f, BoundKept(d, e), BoundKept(e, f)
    PROVE  BoundKept(d, f)
BY DEF BoundKept

\* A clone fills the row of a project that had no copy, which then has one.
LEMMA HydrateTiles ==
    ASSUME NEW d \in Index, NEW B, NEW E, Tiles(d, B, E), NEW f \in Found,
           NEW p \in Live(d), p \in B \cup E, f.remote # None,
           Fold(d.projects[p].remote) = Fold(f.remote),
           NEW fork \in BOOLEAN, NEW e, e = Hydrate(d, p, f, fork)
    PROVE  Tiles(e, B \ {p}, E) /\ BoundKept(d, e) /\ DOMAIN e.projects = DOMAIN d.projects
<1>1. /\ DOMAIN e.projects = DOMAIN d.projects
      /\ \A q \in DOMAIN d.projects : q # p => e.projects[q] = d.projects[q]
      /\ e.projects[p] = [d.projects[p] EXCEPT !.lineage = f.lineage, !.fork = @ \/ fork]
  <2>1. p \in DOMAIN d.projects
    BY DEF Live
  <2> QED
    BY <2>1 DEF Hydrate, Index
<1>2. d.projects[p] \in Project
  BY IndexParts
<1>3. /\ e.projects[p].lineage = f.lineage /\ e.projects[p].remote = d.projects[p].remote
      /\ e.projects[p].bound = d.projects[p].bound
      /\ e.projects[p].ambiguous = d.projects[p].ambiguous
  BY <1>1, <1>2 DEF Project
<1>4. \A q \in DOMAIN d.projects :
          /\ e.projects[q].remote = d.projects[q].remote
          /\ e.projects[q].bound = d.projects[q].bound
          /\ e.projects[q].ambiguous = d.projects[q].ambiguous
  BY <1>1, <1>3
<1>5. Live(e) = Live(d) /\ Live(d) \subseteq DOMAIN d.projects
  BY <1>1, <1>4 DEF Live
<1>6. ASSUME NEW q \in Live(d), NEW r \in Live(d), Apart(d, q, r)
      PROVE  Apart(e, q, r)
  BY <1>4, <1>5, <1>6 DEF Apart
<1>7. ListedOnly(e, B \ {p})
  <2> SUFFICES ASSUME NEW q \in Live(e) \cap (B \ {p})
               PROVE  /\ e.projects[q].bound # None /\ e.projects[q].lineage = None
                      /\ e.projects[q].remote # None
    BY DEF ListedOnly
  <2>1. e.projects[q] = d.projects[q] /\ q \in Live(d) \cap B
    BY <1>1, <1>5
  <2> QED
    BY <2>1 DEF Tiles, ListedOnly
<1>8. BareApart(e, B \ {p})
  <2> SUFFICES ASSUME NEW q \in Live(e) \cap (B \ {p}), NEW r \in Live(e),
                      q # r, e.projects[r].remote # None,
                      Fold(e.projects[q].remote) = Fold(e.projects[r].remote)
               PROVE  Apart(e, q, r)
    BY DEF BareApart
  <2>1. /\ e.projects[q].remote = d.projects[q].remote
        /\ e.projects[r].remote = d.projects[r].remote
    BY <1>4, <1>5
  <2>2. Apart(d, q, r)
    BY <1>5, <2>1 DEF Tiles, BareApart
  <2> QED
    BY <1>5, <1>6, <2>2
<1>9. LineagesApart(e, E)
  <2> SUFFICES ASSUME NEW q \in Live(e) \ E, NEW r \in Live(e) \ E, q # r,
                      e.projects[q].lineage # None, e.projects[q].lineage = e.projects[r].lineage,
                      e.projects[q].remote # None, e.projects[q].remote = e.projects[r].remote
               PROVE  Apart(e, q, r)
    BY DEF LineagesApart
  <2>1. /\ e.projects[q].remote = d.projects[q].remote
        /\ e.projects[r].remote = d.projects[r].remote
    BY <1>4, <1>5
  <2>2. CASE q # p /\ r # p
    <3>1. /\ e.projects[q].lineage = d.projects[q].lineage
          /\ e.projects[r].lineage = d.projects[r].lineage
      BY <1>1, <1>5, <2>2
    <3>2. Apart(d, q, r)
      BY <1>5, <2>1, <3>1 DEF Tiles, LineagesApart
    <3> QED
      BY <1>5, <1>6, <3>2
  <2>3. CASE q = p
    <3>1. Apart(d, q, r)
      BY <1>5, <2>1, <2>3 DEF Tiles, BareApart
    <3> QED
      BY <1>5, <1>6, <3>1
  <2>4. CASE r = p
    <3>1. Apart(d, r, q)
      BY <1>5, <2>1, <2>4 DEF Tiles, BareApart
    <3>2. Apart(d, q, r)
      BY <3>1 DEF Apart
    <3> QED
      BY <1>5, <1>6, <3>2
  <2> QED
    BY <2>2, <2>3, <2>4
<1> QED
  BY <1>1, <1>4, <1>7, <1>8, <1>9 DEF Tiles, BoundKept

\* e is d and one row more.
Extended(d, e, n, row) ==
    /\ DOMAIN e.projects = DOMAIN d.projects \cup {n} /\ n \notin DOMAIN d.projects
    /\ e.projects[n] = row /\ \A p \in DOMAIN d.projects : e.projects[p] = d.projects[p]

LEMMA AppendExtends ==
    ASSUME NEW d \in Index, NEW row \in Project,
           NEW e, e = [d EXCEPT !.projects = Append(@, row)]
    PROVE  Extended(d, e, Len(d.projects) + 1, row)
<1>1. /\ DOMAIN d.projects = 1..Len(d.projects) /\ Len(d.projects) \in Nat
      /\ d.projects \in Seq(Project)
  BY IndexParts
<1>2. e.projects = Append(d.projects, row)
  BY DEF Index
<1> QED
  BY <1>1, <1>2, AppendProperties DEF Extended

\* A new row, seen by every tile that has no copy and by those of its lineage.
LEMMA NewRowTiles ==
    ASSUME NEW d, NEW B, NEW E, Tiles(d, B, E),
           NEW row,
           NEW n, NEW C, C \subseteq B \cup {n},
           n \in C => row.bound # None /\ row.lineage = None /\ row.remote # None,
           NEW e, Extended(d, e, n, row),
           \A p \in Live(d) :
               /\ p \in B \/ n \in C
               /\ row.remote # None /\ d.projects[p].remote # None
               /\ Fold(d.projects[p].remote) = Fold(row.remote)
               => Apart(e, p, n),
           \A p \in Live(d) :
               /\ row.lineage # None /\ d.projects[p].lineage = row.lineage
               /\ row.remote # None /\ d.projects[p].remote = row.remote
               => Apart(e, p, n)
    PROVE  Tiles(e, C, E) /\ BoundKept(d, e)
<1>2. /\ DOMAIN e.projects = DOMAIN d.projects \cup {n} /\ n \notin DOMAIN d.projects
      /\ e.projects[n] = row /\ \A p \in DOMAIN d.projects : e.projects[p] = d.projects[p]
  BY DEF Extended
<1>3. Live(e) = Live(d) \cup {n} /\ n \notin Live(d) /\ Live(d) \subseteq DOMAIN d.projects
  BY <1>2 DEF Live
<1>4. ASSUME NEW q \in Live(d), NEW r \in Live(d), Apart(d, q, r)
      PROVE  Apart(e, q, r)
  BY <1>2, <1>3, <1>4 DEF Apart
<1>5. ASSUME NEW q, NEW r, Apart(e, q, r)
      PROVE  Apart(e, r, q)
  BY <1>5 DEF Apart
<1>6. ListedOnly(e, C)
  <2> SUFFICES ASSUME NEW q \in Live(e) \cap C
               PROVE  /\ e.projects[q].bound # None /\ e.projects[q].lineage = None
                      /\ e.projects[q].remote # None
    BY DEF ListedOnly
  <2>1. CASE q = n
    BY <1>2, <2>1
  <2>2. CASE q # n
    <3>1. q \in Live(d) \cap B /\ e.projects[q] = d.projects[q]
      BY <1>2, <1>3, <2>2
    <3> QED
      BY <3>1 DEF Tiles, ListedOnly
  <2> QED
    BY <2>1, <2>2
<1>7. BareApart(e, C)
  <2> SUFFICES ASSUME NEW q \in Live(e) \cap C, NEW r \in Live(e),
                      q # r, e.projects[r].remote # None,
                      Fold(e.projects[q].remote) = Fold(e.projects[r].remote)
               PROVE  Apart(e, q, r)
    BY DEF BareApart
  <2>1. CASE q # n /\ r # n
    <3>1. /\ q \in Live(d) \cap B /\ e.projects[q] = d.projects[q]
          /\ r \in Live(d) /\ e.projects[r] = d.projects[r]
      BY <1>2, <1>3, <2>1
    <3>2. Apart(d, q, r)
      BY <3>1 DEF Tiles, BareApart
    <3> QED
      BY <1>4, <3>1, <3>2
  <2>2. CASE r = n
    <3>1. q \in Live(d) /\ q \in B /\ e.projects[q] = d.projects[q] /\ e.projects[r] = row
      BY <1>2, <1>3, <2>2
    <3>2. d.projects[q].remote # None
      BY <3>1 DEF Tiles, ListedOnly
    <3> QED
      BY <2>2, <3>1, <3>2
  <2>3. CASE q = n
    <3>1. r \in Live(d) /\ e.projects[r] = d.projects[r] /\ e.projects[q] = row /\ n \in C
      BY <1>2, <1>3, <2>3
    <3>2. Apart(e, r, n)
      BY <3>1
    <3> QED
      BY <1>5, <2>3, <3>2
  <2> QED
    BY <2>1, <2>2, <2>3
<1>8. LineagesApart(e, E)
  <2> SUFFICES ASSUME NEW q \in Live(e) \ E, NEW r \in Live(e) \ E, q # r,
                      e.projects[q].lineage # None, e.projects[q].lineage = e.projects[r].lineage,
                      e.projects[q].remote # None, e.projects[q].remote = e.projects[r].remote
               PROVE  Apart(e, q, r)
    BY DEF LineagesApart
  <2>1. CASE q # n /\ r # n
    <3>1. /\ q \in Live(d) /\ e.projects[q] = d.projects[q]
          /\ r \in Live(d) /\ e.projects[r] = d.projects[r]
      BY <1>2, <1>3, <2>1
    <3>2. Apart(d, q, r)
      BY <3>1 DEF Tiles, LineagesApart
    <3> QED
      BY <1>4, <3>1, <3>2
  <2>2. CASE r = n
    <3>1. q \in Live(d) /\ e.projects[q] = d.projects[q] /\ e.projects[r] = row
      BY <1>2, <1>3, <2>2
    <3> QED
      BY <2>2, <3>1
  <2>3. CASE q = n
    <3>1. r \in Live(d) /\ e.projects[r] = d.projects[r] /\ e.projects[q] = row
      BY <1>2, <1>3, <2>3
    <3>2. Apart(e, r, n)
      BY <2>3, <3>1
    <3> QED
      BY <1>5, <2>3, <3>2
  <2> QED
    BY <2>1, <2>2, <2>3
<1> QED
  BY <1>2, <1>6, <1>7, <1>8 DEF Tiles, BoundKept

\* T has every tile that never had a copy on the find's remote, and no tile is
\* of its lineage and its remote.
Unlike(d, B, f, T) ==
    /\ T \subseteq Live(d)
    /\ f.lineage # None /\ f.remote # None => Same(d, f) = {}
    /\ \A p \in Live(d) \cap B :
          f.remote # None /\ Fold(d.projects[p].remote) = Fold(f.remote) => p \in T

\* What a find creates: a row no tile that never had a copy is beside.
LEMMA CreateTiles ==
    ASSUME NEW d \in Index, NEW B, NEW E, Tiles(d, B, E), B \subseteq DOMAIN d.projects,
           NEW f \in Found, NEW T, Unlike(d, B, f, T),
           NEW fork \in BOOLEAN, NEW ambiguous \in BOOLEAN, T # {} => ambiguous,
           NEW e, e = Mark(Create(d, f, fork, ambiguous), T, "ambiguous")
    PROVE  /\ Tiles(e, B, E) /\ BoundKept(d, e)
           /\ DOMAIN e.projects = DOMAIN d.projects \cup {Len(d.projects) + 1}
<1> DEFINE n == Len(d.projects) + 1
           row == [lineage |-> f.lineage, remote |-> f.remote, bound |-> None, basis |-> None,
                   fork |-> fork, ambiguous |-> ambiguous]
           c == Create(d, f, fork, ambiguous)
           m == Mark(d, T, "ambiguous")
<1>1. row \in Project
  BY DEF Project, Found, Ids
<1>2. c \in Index /\ c = [d EXCEPT !.projects = Append(@, row)]
  BY CreateGrows DEF Create
<1>3. Extended(d, c, n, row)
  <2> HIDE DEF row, c
  <2> QED
    BY <1>1, <1>2, AppendExtends
<1>4. T \subseteq DOMAIN d.projects /\ n \notin T
  BY <1>3 DEF Live, Extended, Unlike
<1>5. Extended(m, e, n, row)
  <2>1. /\ DOMAIN m.projects = DOMAIN d.projects
        /\ \A p \in DOMAIN d.projects :
              m.projects[p] = IF p \in T THEN [d.projects[p] EXCEPT !.ambiguous = TRUE]
                              ELSE d.projects[p]
    BY DEF Mark, Index
  <2>3. e = Mark(c, T, "ambiguous")
    OBVIOUS
  <2> HIDE DEF c, row, n
  <2>2. /\ DOMAIN e.projects = DOMAIN c.projects
        /\ \A p \in DOMAIN c.projects :
              e.projects[p] = IF p \in T THEN [c.projects[p] EXCEPT !.ambiguous = TRUE]
                              ELSE c.projects[p]
    <3>1. c \in Index
      BY <1>2
    <3>2. \A x : x = Mark(c, T, "ambiguous") =>
              /\ DOMAIN x.projects = DOMAIN c.projects
              /\ \A p \in DOMAIN c.projects :
                    x.projects[p] = IF p \in T THEN [c.projects[p] EXCEPT !.ambiguous = TRUE]
                                    ELSE c.projects[p]
      BY <3>1, MarkRows
    <3> QED
      BY <2>3, <3>2
  <2> QED
    BY <1>3, <1>4, <2>1, <2>2 DEF Extended
<1>6. Steady(d, m) /\ BoundKept(d, m) /\ Live(m) = Live(d)
  BY MarkSteady
<1>7. Tiles(m, B, E)
  BY <1>6, SteadyTiles
<1>8. ASSUME NEW p \in Live(m), p \in B, row.remote # None,
             Fold(m.projects[p].remote) = Fold(row.remote)
      PROVE  Apart(e, p, n)
  <2>1. p \in DOMAIN d.projects /\ m.projects[p].remote = d.projects[p].remote
    BY <1>6 DEF Live, Steady, Kin
  <2>2. p \in T
    BY <1>6, <1>8, <2>1 DEF Unlike
  <2>3. m.projects[p].ambiguous
    BY <1>4, <2>2, MarkFlags
  <2>4. row.ambiguous /\ e.projects[n] = row /\ e.projects[p] = m.projects[p]
    BY <1>5, <1>6, <2>1, <2>2 DEF Extended, Live
  <2> QED
    BY <2>3, <2>4 DEF Apart
<1>9. ASSUME NEW p \in Live(m), row.lineage # None, m.projects[p].lineage = row.lineage,
             row.remote # None, m.projects[p].remote = row.remote
      PROVE  FALSE
  <2>1. /\ p \in DOMAIN d.projects /\ m.projects[p].remote = d.projects[p].remote
        /\ m.projects[p].lineage = d.projects[p].lineage
    BY <1>6 DEF Live, Steady, Kin
  <2>2. p \in Same(d, f)
    BY <1>6, <1>9, <2>1 DEF Same, Candidates
  <2> QED
    BY <1>9, <2>2 DEF Unlike
<1>10. n \notin B
  BY <1>3 DEF Extended
<1> HIDE DEF row, c, m, n
<1>12. Tiles(e, B, E) /\ BoundKept(m, e)
  <2>1. \A p \in Live(m) :
            /\ p \in B \/ n \in B
            /\ row.remote # None /\ m.projects[p].remote # None
            /\ Fold(m.projects[p].remote) = Fold(row.remote)
            => Apart(e, p, n)
    BY <1>8, <1>10
  <2>2. \A p \in Live(m) :
            /\ row.lineage # None /\ m.projects[p].lineage = row.lineage
            /\ row.remote # None /\ m.projects[p].remote = row.remote
            => Apart(e, p, n)
    BY <1>9
  <2>3. B \subseteq B \cup {n} /\ (n \in B => row.bound # None /\ row.lineage = None /\ row.remote # None)
    BY <1>10
  <2> QED
    BY <1>5, <1>7, <2>1, <2>2, <2>3, NewRowTiles, SMTT(60)
<1>13. DOMAIN e.projects = DOMAIN d.projects \cup {n}
  BY <1>5, <1>6 DEF Extended, Steady
<1> QED
  BY <1>6, <1>12, <1>13, BoundKeptTwice DEF n

\* What a find's project is, of the tiles: one more, or one that has a copy from here on.
LEMMA CreateOrHydrateTiles ==
    ASSUME NEW d \in Index, NEW B, NEW E, B = Bare(d, E), Tiles(d, B, E), NEW f \in Found,
           NEW fork \in BOOLEAN, f.lineage # None /\ f.remote # None => Same(d, f) = {},
           NEW r, r = CreateOrHydrate(d, f, fork)
    PROVE  /\ Tiles(r.db, B \ {r.project}, E) /\ BoundKept(d, r.db)
           /\ DOMAIN r.db.projects \subseteq DOMAIN d.projects \cup {r.project}
<1> DEFINE T == HydrationTargets(d, f)
           p == First(T)
           h == Hydrate(d, p, f, fork)
           c == Create(d, f, fork, T # {})
<1>1. T \subseteq Live(d) /\ Live(d) \subseteq Nat /\ Live(d) \subseteq DOMAIN d.projects
  BY IndexParts DEF HydrationTargets
<1>2. CASE Cardinality(T) = 1
  <2>1. T # {}
    BY <1>2, FS_EmptySet
  <2>2. p \in T
    BY <1>1, <2>1, FirstIsOne
  <2>3. r.db = FlagRemoteless(h, f.lineage) /\ r.project = p
    BY <1>2 DEF CreateOrHydrate
  <2> HIDE DEF p
  <2>4. /\ p \in Live(d) /\ f.remote # None /\ Copies(d, p) = {}
        /\ Fold(d.projects[p].remote) = Fold(f.remote)
    BY <2>2 DEF HydrationTargets
  <2>5. p \in B \cup E
    BY <1>1, <2>4 DEF Bare
  <2>6. h \in Index
    BY <2>4, HydrateGrows
  <2>7. Tiles(h, B \ {p}, E) /\ BoundKept(d, h) /\ DOMAIN h.projects = DOMAIN d.projects
    BY <2>4, <2>5, HydrateTiles
  <2> HIDE DEF h
  <2>8. Steady(h, r.db) /\ BoundKept(h, r.db)
    BY <2>3, <2>6, FlagRemotelessSteady
  <2>9. Tiles(r.db, B \ {p}, E)
    BY <2>7, <2>8, SteadyTiles
  <2>10. BoundKept(d, r.db)
    BY <2>7, <2>8, BoundKeptTwice
  <2> QED
    BY <2>3, <2>7, <2>8, <2>9, <2>10 DEF Steady
<1>3. CASE Cardinality(T) # 1
  <2>1. r.db = Mark(c, T, "ambiguous") /\ r.project = Len(d.projects) + 1
    BY <1>3 DEF CreateOrHydrate
  <2>2. Unlike(d, B, f, T)
    BY DEF HydrationTargets, Bare, Unlike
  <2>3. B \subseteq DOMAIN d.projects
    BY DEF Bare
  <2>4. /\ Tiles(r.db, B, E) /\ BoundKept(d, r.db)
        /\ DOMAIN r.db.projects = DOMAIN d.projects \cup {r.project}
    <3> DEFINE flagged == T # {}
    <3>1. flagged \in BOOLEAN /\ (T # {} => flagged)
      OBVIOUS
    <3>2. r.db = Mark(Create(d, f, fork, flagged), T, "ambiguous")
      BY <2>1
    <3> HIDE DEF flagged, T
    <3> QED
      BY <1>1, <2>1, <2>2, <2>3, <3>1, <3>2, CreateTiles
  <2>5. Tiles(r.db, B \ {r.project}, E)
    BY <2>4, SteadySelf, SteadyTiles
  <2> QED
    BY <2>4, <2>5
<1> QED
  BY <1>2, <1>3

\* A project is created only where no live one has this lineage and remote.
LEMMA DecideFacts ==
    ASSUME NEW d \in Index, NEW f \in Found
    PROVE  /\ Decide(d, f).is \in {"new", "fork"} /\ f.lineage # None /\ f.remote # None
                  => Same(d, f) = {}
           /\ Decide(d, f).is = "ambiguous" => f.remote = None
BY DEF Decide

LEMMA ResolveTiles ==
    ASSUME NEW d \in Index, Sound(d), NEW B, NEW E, B = Bare(d, E), Tiles(d, B, E),
           NEW f \in Found, NEW r, r = ResolveIdentity(d, f)
    PROVE  /\ Tiles(r.db, B \ {r.project}, E) /\ BoundKept(d, r.db)
           /\ DOMAIN r.db.projects \subseteq DOMAIN d.projects \cup {r.project}
<1> DEFINE verdict == Decide(d, f)
<1>1. CASE verdict.is = "attach"
  <2>1. r.db = d
    BY <1>1 DEF ResolveIdentity
  <2>2. Tiles(d, B \ {r.project}, E)
    BY SteadySelf, SteadyTiles
  <2> QED
    BY <2>1, <2>2, SteadySelf
<1>2. CASE verdict.is = "new"
  <2>1. r = CreateOrHydrate(d, f, FALSE)
    BY <1>2 DEF ResolveIdentity
  <2>2. f.lineage # None /\ f.remote # None => Same(d, f) = {}
    BY <1>2, DecideFacts
  <2> QED
    BY <2>1, <2>2, CreateOrHydrateTiles
<1>3. CASE verdict.is = "ambiguous"
  <2> DEFINE c == Create(d, f, FALSE, TRUE)
  <2>1. r.db = c /\ r.project = Len(d.projects) + 1
    BY <1>3 DEF ResolveIdentity
  <2>2. c \in Index
    BY CreateGrows
  <2>3. f.remote = None
    BY <1>3, DecideFacts
  <2>4. B \subseteq DOMAIN d.projects
    BY DEF Bare
  <2>5. c = Mark(c, {}, "ambiguous")
    <3> HIDE DEF c
    <3>1. c.projects = [q \in DOMAIN c.projects |-> c.projects[q]]
      BY <2>2, IndexParts
    <3>2. Mark(c, {}, "ambiguous")
          = [c EXCEPT !.projects = [q \in DOMAIN c.projects |-> c.projects[q]]]
      BY DEF Mark
    <3>3. c = [c EXCEPT !.projects = c.projects]
      BY <2>2 DEF Index
    <3> QED
      BY <3>1, <3>2, <3>3
  <2>6. /\ Tiles(c, B, E) /\ BoundKept(d, c)
        /\ DOMAIN c.projects = DOMAIN d.projects \cup {Len(d.projects) + 1}
    <3>1. Unlike(d, B, f, {})
      BY <2>3 DEF Unlike
    <3> DEFINE no == FALSE
               yes == TRUE
               none == {}
    <3>2. no \in BOOLEAN /\ yes \in BOOLEAN /\ (none # {} => yes)
      OBVIOUS
    <3>3. c = Mark(Create(d, f, no, yes), none, "ambiguous") /\ Unlike(d, B, f, none)
      BY <2>5, <3>1
    <3> HIDE DEF no, yes, none, c
    <3> QED
      BY <2>4, <3>2, <3>3, CreateTiles
  <2> HIDE DEF c
  <2>7. Tiles(c, B \ {r.project}, E)
    <3>1. Steady(c, c) /\ (B \ {r.project}) \cap Live(c) \subseteq B /\ E \subseteq E
      BY SteadySelf
    <3> QED
      BY <2>6, <3>1, SteadyTiles
  <2> QED
    BY <2>1, <2>6, <2>7
<1>4. CASE verdict.is = "fork"
  <2> DEFINE landed == CreateOrHydrate(d, f, TRUE)
             m == Mark(landed.db, verdict.related, "fork")
  <2>1. landed.db \in Index
    BY CreateOrHydrateLands
  <2>2. r = [landed EXCEPT !.db = FlagRemoteless(m, f.lineage)]
    BY <1>4 DEF ResolveIdentity
  <2>3. \E x, y : landed = [db |-> x, project |-> y]
    BY DEF CreateOrHydrate
  <2>4. r.db = FlagRemoteless(m, f.lineage) /\ r.project = landed.project
    BY <2>2, <2>3
  <2>5. f.lineage # None /\ f.remote # None => Same(d, f) = {}
    BY <1>4, DecideFacts
  <2>6. /\ Tiles(landed.db, B \ {landed.project}, E) /\ BoundKept(d, landed.db)
        /\ DOMAIN landed.db.projects \subseteq DOMAIN d.projects \cup {landed.project}
    BY <2>5, CreateOrHydrateTiles
  <2> HIDE DEF landed
  <2>7. m \in Index /\ Steady(landed.db, m) /\ BoundKept(landed.db, m)
    BY <2>1, MarkGrows, MarkSteady
  <2> HIDE DEF m
  <2>8. Steady(m, r.db) /\ BoundKept(m, r.db)
    BY <2>4, <2>7, FlagRemotelessSteady
  <2>9. Tiles(m, B \ {r.project}, E)
    BY <2>4, <2>6, <2>7, SteadyTiles
  <2>10. Tiles(r.db, B \ {r.project}, E)
    BY <2>8, <2>9, SteadyTiles
  <2>11. BoundKept(d, r.db)
    BY <2>6, <2>7, <2>8, BoundKeptTwice
  <2> QED
    BY <2>4, <2>6, <2>7, <2>8, <2>10, <2>11 DEF Steady
<1> QED
  BY <1>1, <1>2, <1>3, <1>4, DecideAttachesToLive

-----------------------------------------------------------------------------
(* What a hand-off does to the copies, row by row.                           *)

LEMMA ClaimRows ==
    ASSUME NEW d \in Index, NEW p, NEW f, NEW path \in Paths,
           NEW e, e = ClaimRemovedRow(d, p, f, path)
    PROVE  /\ DOMAIN e.locations = DOMAIN d.locations
           /\ \A l \in DOMAIN d.locations :
                LET row == d.locations[l]
                IN  /\ e.locations[l].project = row.project
                    /\ row.key # path \/ ~row.removed => e.locations[l] = row
                    /\ e.locations[l].removed => row.removed /\ e.locations[l].key # path
                    /\ row.removed /\ ~e.locations[l].removed =>
                          /\ e.locations[l].key = path /\ row.project = p
                          /\ f.lineage # None /\ d.projects[p].lineage = f.lineage
<1> DEFINE own(row) == /\ row.project = p
                       /\ f.lineage # None
                       /\ d.projects[p].lineage = f.lineage
           claimed(l, row) == IF row.key # path \/ ~row.removed THEN row
                              ELSE IF own(row) THEN [row EXCEPT !.removed = FALSE]
                              ELSE [row EXCEPT !.key = Released(l)]
           s == [l \in DOMAIN d.locations |-> claimed(l, d.locations[l])]
<1>1. e.locations = s
  BY DEF ClaimRemovedRow, Index
<1>2. ASSUME NEW l \in DOMAIN d.locations
      PROVE  LET row == d.locations[l]
             IN  /\ s[l].project = row.project
                 /\ row.key # path \/ ~row.removed => s[l] = row
                 /\ s[l].removed => row.removed /\ s[l].key # path
                 /\ row.removed /\ ~s[l].removed =>
                       /\ s[l].key = path /\ row.project = p
                       /\ f.lineage # None /\ d.projects[p].lineage = f.lineage
  <2>1. d.locations[l] \in Location /\ l \in Nat
    BY IndexParts
  <2>2. Released(l) # path
    BY <2>1, LibraryAssumption DEF Released
  <2>3. s[l] = claimed(l, d.locations[l])
    OBVIOUS
  <2>4. CASE d.locations[l].key # path \/ ~d.locations[l].removed
    BY <2>1, <2>3, <2>4 DEF Location
  <2>5. CASE d.locations[l].key = path /\ d.locations[l].removed /\ own(d.locations[l])
    <3>1. s[l] = [d.locations[l] EXCEPT !.removed = FALSE]
      BY <2>3, <2>5
    <3> QED
      BY <2>1, <2>5, <3>1 DEF Location
  <2>6. CASE d.locations[l].key = path /\ d.locations[l].removed /\ ~own(d.locations[l])
    <3>1. s[l] = [d.locations[l] EXCEPT !.key = Released(l)]
      BY <2>3, <2>6
    <3> QED
      BY <2>1, <2>2, <2>6, <3>1 DEF Location
  <2> QED
    BY <2>1, <2>4, <2>5, <2>6 DEF Location
<1> HIDE DEF claimed, own
<1>3. DOMAIN e.locations = DOMAIN d.locations
  BY <1>1
<1> HIDE DEF s
<1> QED
  BY <1>1, <1>2, <1>3

LEMMA UpsertRows ==
    ASSUME NEW d \in Index, NEW p, NEW f, NEW path, NEW generation,
           NEW e, e = UpsertLocation(d, p, f, path, generation)
    PROVE  /\ Copies(e, p) # {} /\ e.projects = d.projects
           /\ \A l \in DOMAIN d.locations :
                /\ l \in DOMAIN e.locations
                /\ e.locations[l].removed = d.locations[l].removed
                /\ e.locations[l].key = d.locations[l].key
                /\ \/ e.locations[l].project = d.locations[l].project
                   \/ d.locations[l].key = path /\ e.locations[l].project = p
<1>1. /\ d.locations \in Seq(Location) /\ Len(d.locations) \in Nat
      /\ DOMAIN d.locations = 1..Len(d.locations)
  BY IndexParts
<1>2. CASE At(d, path) = {}
  <2> DEFINE row == [key |-> path, path |-> path, project |-> p, common |-> f.common,
                     presence |-> "present", generation |-> generation, removed |-> FALSE]
  <2>1. e = [d EXCEPT !.locations = Append(d.locations, row)] /\ row.project = p
    BY <1>2 DEF UpsertLocation
  <2> HIDE DEF row
  <2>2. e.locations = Append(d.locations, row) /\ e.projects = d.projects
    BY <2>1 DEF Index
  <2>3. /\ Len(d.locations) + 1 \in DOMAIN e.locations
        /\ e.locations[Len(d.locations) + 1] = row
        /\ \A l \in DOMAIN d.locations : l \in DOMAIN e.locations /\ e.locations[l] = d.locations[l]
    BY <1>1, <2>2, AppendProperties
  <2>4. Len(d.locations) + 1 \in Copies(e, p)
    BY <2>1, <2>3 DEF Copies
  <2> QED
    BY <2>2, <2>3, <2>4
<1>3. CASE At(d, path) # {}
  <2> DEFINE k == First(At(d, path))
             row == [d.locations[k] EXCEPT !.project = p, !.common = f.common,
                                           !.presence = "present", !.generation = generation]
  <2>1. k \in DOMAIN d.locations /\ d.locations[k].key = path
    <3>1. At(d, path) \subseteq Nat
      BY <1>1 DEF At
    <3>2. k \in At(d, path)
      BY <1>3, <3>1, FirstIsOne
    <3> QED
      BY <3>2 DEF At
  <2>2. d.locations[k] \in Location
    BY <2>1, IndexParts
  <2>3. row.project = p /\ row.removed = d.locations[k].removed /\ row.key = d.locations[k].key
    BY <2>2 DEF Location
  <2>4. e = [d EXCEPT !.locations[k] = row]
    BY <1>3 DEF UpsertLocation
  <2> HIDE DEF row, k
  <2>5. e.locations = [d.locations EXCEPT ![k] = row] /\ e.projects = d.projects
    BY <2>4 DEF Index
  <2>6. /\ DOMAIN e.locations = DOMAIN d.locations /\ e.locations[k] = row
        /\ \A l \in DOMAIN d.locations : l # k => e.locations[l] = d.locations[l]
    BY <2>1, <2>5
  <2>7. k \in Copies(e, p)
    BY <2>1, <2>3, <2>6 DEF Copies
  <2> QED
    BY <2>1, <2>3, <2>5, <2>6, <2>7
<1> QED
  BY <1>2, <1>3

\* The find's project has a copy; a copy changes hands only to it; a removed
\* copy does not, and is back only as the find's own.
LEMMA HandOffRows ==
    ASSUME NEW d \in Index, Sound(d), NEW f \in Found, NEW path \in Paths, NEW generation \in Nat,
           NEW r, r = ResolveIdentity(d, f), NEW e, e = HandOff(d, f, path, generation)
    PROVE  /\ Copies(e, r.project) # {} /\ e.projects = r.db.projects
           /\ \A l \in DOMAIN d.locations :
                /\ l \in DOMAIN e.locations
                /\ e.locations[l].project \in {d.locations[l].project, r.project}
                /\ d.locations[l].removed =>
                      /\ e.locations[l].project = d.locations[l].project
                      /\ ~e.locations[l].removed =>
                            /\ e.locations[l].key = path /\ f.lineage # None
                            /\ e.projects[d.locations[l].project].lineage = f.lineage
<1> DEFINE c == ClaimRemovedRow(r.db, r.project, f, path)
<1>1. r.db \in Index /\ Grown(d, r.db) /\ r.project \in Live(r.db)
  BY ResolveLands
<1>2. Sound(r.db) /\ r.db.locations = d.locations
  BY <1>1, GrownIsSound DEF Grown
<1>3. c \in Index /\ c.projects = r.db.projects
  BY <1>1, <1>2, ClaimIsSound
<1>4. e = UpsertLocation(c, r.project, f, path, generation)
  BY DEF HandOff
<1>5. /\ DOMAIN c.locations = DOMAIN d.locations
      /\ \A l \in DOMAIN d.locations :
            LET row == d.locations[l]
            IN  /\ c.locations[l].project = row.project
                /\ row.key # path \/ ~row.removed => c.locations[l] = row
                /\ c.locations[l].removed => row.removed /\ c.locations[l].key # path
                /\ row.removed /\ ~c.locations[l].removed =>
                      /\ c.locations[l].key = path /\ row.project = r.project
                      /\ f.lineage # None /\ r.db.projects[r.project].lineage = f.lineage
  BY <1>1, <1>2, ClaimRows
<1> HIDE DEF c
<1>6. /\ Copies(e, r.project) # {} /\ e.projects = c.projects
      /\ \A l \in DOMAIN c.locations :
            /\ l \in DOMAIN e.locations
            /\ e.locations[l].removed = c.locations[l].removed
            /\ e.locations[l].key = c.locations[l].key
            /\ \/ e.locations[l].project = c.locations[l].project
               \/ c.locations[l].key = path /\ e.locations[l].project = r.project
  BY <1>3, <1>4, UpsertRows
<1>7. ASSUME NEW l \in DOMAIN d.locations
      PROVE  /\ l \in DOMAIN e.locations
             /\ e.locations[l].project \in {d.locations[l].project, r.project}
             /\ d.locations[l].removed =>
                   /\ e.locations[l].project = d.locations[l].project
                   /\ ~e.locations[l].removed =>
                         /\ e.locations[l].key = path /\ f.lineage # None
                         /\ e.projects[d.locations[l].project].lineage = f.lineage
  <2>1. CASE d.locations[l].removed /\ c.locations[l].removed
    BY <1>5, <1>6, <2>1
  <2>2. CASE d.locations[l].removed /\ ~c.locations[l].removed
    BY <1>3, <1>5, <1>6, <2>2
  <2>3. CASE ~d.locations[l].removed
    BY <1>5, <1>6, <2>3
  <2> QED
    BY <2>1, <2>2, <2>3
<1> QED
  BY <1>3, <1>6, <1>7

-----------------------------------------------------------------------------
(* A removed copy's row.                                                     *)

\* Copies stay with their projects, and those removed stay so.
RowsKept(d, e) ==
    /\ e.projects = d.projects /\ DOMAIN e.locations = DOMAIN d.locations
    /\ \A l \in DOMAIN d.locations :
          /\ e.locations[l].project = d.locations[l].project
          /\ d.locations[l].removed => e.locations[l].removed

\* One step of RemovedRowsAreKept.
RemovedRowKept(l) ==
    db.locations[l].removed =>
        LET before == db.locations[l].project
            row    == db'.locations[l]
        IN  /\ row.project = before
            /\ ~row.removed =>
                  \E f \in {look[row.key], clone.found} \cap Found :
                      f.lineage # None /\ f.lineage = db'.projects[before].lineage

LEMMA LandsKeepsRemoved ==
    ASSUME Inv, NEW f \in Found, NEW path \in Paths, NEW generation \in Nat,
           Lands(f, path, generation), f \in {look[path], clone.found},
           NEW l \in DOMAIN db.locations
    PROVE  RemovedRowKept(l)
<1>1. db \in Index /\ Sound(db)
  BY DEF Inv, TypeOK
<1>2. CASE db' = HandOff(db, f, path, generation)
  <2> DEFINE r == ResolveIdentity(db, f)
  <2>1. db.locations[l].removed =>
            /\ db'.locations[l].project = db.locations[l].project
            /\ ~db'.locations[l].removed =>
                  /\ db'.locations[l].key = path /\ f.lineage # None
                  /\ db'.projects[db.locations[l].project].lineage = f.lineage
    BY <1>1, <1>2, HandOffRows
  <2> QED
    BY <2>1 DEF RemovedRowKept
<1>3. CASE UNCHANGED db
  BY <1>3 DEF RemovedRowKept
<1> QED
  BY <1>2, <1>3 DEF Lands

LEMMA RowsKeptKeepsRemoved ==
    ASSUME RowsKept(db, db'), NEW l \in DOMAIN db.locations
    PROVE  RemovedRowKept(l)
BY DEF RowsKept, RemovedRowKept

\* What replaces one copy's row keeps the rest.
LEMMA ReplacedKept ==
    ASSUME NEW d \in Index, NEW l, NEW row,
           l \in DOMAIN d.locations =>
               /\ row.project = d.locations[l].project
               /\ d.locations[l].removed => row.removed,
           NEW e, e = [d EXCEPT !.locations = [d.locations EXCEPT ![l] = row]]
    PROVE  RowsKept(d, e)
<1>1. e.locations = [d.locations EXCEPT ![l] = row] /\ e.projects = d.projects
  BY DEF Index
<1> QED
  BY <1>1 DEF RowsKept

LEMMA RelocateKept ==
    ASSUME NEW d \in Index, NEW l \in DOMAIN d.locations, NEW path
    PROVE  RowsKept(d, Relocate(d, l, path))
<1> DEFINE row == [d.locations[l] EXCEPT !.key = path, !.path = path]
<1>1. d.locations[l] \in Location
  BY IndexParts
<1>2. row.removed = d.locations[l].removed /\ row.project = d.locations[l].project
  BY <1>1 DEF Location
<1>3. Relocate(d, l, path) = [d EXCEPT !.locations = [d.locations EXCEPT ![l] = row]]
  <2>1. [d.locations EXCEPT ![l] = row]
        = [[d.locations EXCEPT ![l].key = path] EXCEPT ![l].path = path]
    OBVIOUS
  <2> QED
    BY <2>1 DEF Relocate, Index
<1> HIDE DEF row
<1> QED
  BY <1>2, <1>3, ReplacedKept

LEMMA CommitRemovalKept ==
    ASSUME NEW d \in Index, NEW l
    PROVE  RowsKept(d, CommitRemoval(d, l))
<1> DEFINE row == [d.locations[l] EXCEPT !.removed = TRUE]
<1>1. l \in DOMAIN d.locations =>
          row.project = d.locations[l].project /\ row.removed
  <2> SUFFICES ASSUME l \in DOMAIN d.locations
               PROVE  row.project = d.locations[l].project /\ row.removed
    OBVIOUS
  <2>1. d.locations[l] \in Location
    BY IndexParts
  <2> QED
    BY <2>1 DEF Location
<1>2. CommitRemoval(d, l) = [d EXCEPT !.locations = [d.locations EXCEPT ![l] = row]]
  BY DEF CommitRemoval
<1> HIDE DEF row
<1> QED
  BY <1>1, <1>2, ReplacedKept

LEMMA PresenceKept ==
    ASSUME NEW d \in Index, NEW l, NEW presence
    PROVE  RowsKept(d, [d EXCEPT !.locations[l].presence = presence])
<1> DEFINE row == [d.locations[l] EXCEPT !.presence = presence]
<1>1. l \in DOMAIN d.locations =>
          row.project = d.locations[l].project /\ row.removed = d.locations[l].removed
  <2> SUFFICES ASSUME l \in DOMAIN d.locations
               PROVE  row.project = d.locations[l].project /\ row.removed = d.locations[l].removed
    OBVIOUS
  <2>1. d.locations[l] \in Location
    BY IndexParts
  <2> QED
    BY <2>1 DEF Location
<1>2. [d EXCEPT !.locations[l].presence = presence]
      = [d EXCEPT !.locations = [d.locations EXCEPT ![l] = row]]
  OBVIOUS
<1> HIDE DEF row
<1> QED
  BY <1>1, <1>2, ReplacedKept

LEMMA NextKeepsRemoved ==
    ASSUME Inv, [Next]_vars, NEW l \in DOMAIN db.locations
    PROVE  RemovedRowKept(l)
<1>1. db \in Index /\ Sound(db)
  BY DEF Inv, TypeOK
<1>2. CASE UNCHANGED db
  BY <1>2 DEF RemovedRowKept
<1>3. ASSUME NEW p \in Paths, HandOffFound(p)
      PROVE  RemovedRowKept(l)
  <2>1. look[p] \in Found /\ look[p] # None /\ scan.generation \in Nat
    BY <1>3 DEF HandOffFound, Inv, TypeOK
  <2> QED
    BY <1>3, <2>1, LandsKeepsRemoved DEF HandOffFound
<1>4. CASE CloneIndexed
  <2>1. clone.found \in Found /\ clone.path \in Paths
    BY <1>4 DEF CloneIndexed, Inv, TypeOK, NoClone
  <2> QED
    BY <1>4, <2>1, LandsKeepsRemoved DEF CloneIndexed
<1>6. ASSUME NEW listing \in Listings, Ingest(listing)
      PROVE  RemovedRowKept(l)
  <2>1. db'.locations = db.locations
    BY <1>6 DEF Ingest, IngestListing, Bind, Mark, Index
  <2> QED
    BY <2>1 DEF RemovedRowKept
<1>7. CASE WriteAnswer
  <2>1. db'.locations = db.locations
    BY <1>1, <1>7 DEF WriteAnswer, Bind, Index
  <2> QED
    BY <2>1 DEF RemovedRowKept
<1>8. CASE PresenceWrite
  <2>1. \E k, presence : db' = [db EXCEPT !.locations[k].presence = presence]
    BY <1>8 DEF PresenceWrite
  <2>2. RowsKept(db, db')
    BY <1>1, <2>1, PresenceKept
  <2> QED
    BY <2>2, RowsKeptKeepsRemoved
<1>9. ASSUME NEW k \in DOMAIN db.locations, NEW path \in Paths, RelocateTo(k, path)
      PROVE  RemovedRowKept(l)
  BY <1>1, <1>9, RelocateKept, RowsKeptKeepsRemoved DEF RelocateTo
<1>10. CASE RemovalCommitted
  BY <1>1, <1>10, CommitRemovalKept, RowsKeptKeepsRemoved DEF RemovalCommitted
<1>11. CASE UNCHANGED vars
  BY <1>2, <1>11 DEF vars
<1>12. CASE Scanning
  BY <1>2, <1>3, <1>8, <1>12 DEF Scanning, ScanBegins, Look, Probe, CancelScan, WalkEnds
<1>13. CASE Syncing
  BY <1>2, <1>6, <1>7, <1>13 DEF Syncing, AskForge
<1>14. CASE Commands
  BY <1>2, <1>9, <1>10, <1>14 DEF Commands, UninstallReads, Analysed, Trashed
<1>15. CASE Crash \/ CloneProbed \/ \E p \in Paths : Put(p) \/ \E r \in Repos : CloneLands(p, r)
  BY <1>2, <1>15 DEF Crash, CloneProbed, Put, CloneLands
<1> QED
  BY <1>4, <1>11, <1>12, <1>13, <1>14, <1>15 DEF Next

\* Whatever turns up at the path of a copy this app removed, its row keeps its project, and is a
\* copy again only when what was found is its own repository.
THEOREM SpecRemovedRowsAreKept == Spec => RemovedRowsAreKept
<1>1. Inv /\ [Next]_vars => [\A l \in DOMAIN db.locations : RemovedRowKept(l)]_vars
  BY NextKeepsRemoved
<1> QED
  BY <1>1, SpecInv, PTL DEF Spec, RemovedRowsAreKept, RemovedRowKept

-----------------------------------------------------------------------------
(* The tiles, step by step.                                                  *)

\* While the forge is asked about a project, no one else writes its forge id:
\* listings and probes are the one sync thread's.
AskedIsUnbound ==
    asked # None => /\ asked.project \in DOMAIN db.projects
                    /\ db.projects[asked.project].bound = None

TilesInv == Inv /\ Tiles(db, Bare(db, emptied), emptied) /\ AskedIsUnbound

\* An index with the same projects and the same copies of each.
LEMMA KeptTiles ==
    ASSUME NEW d, NEW e, RowsKept(d, e), NEW E, Tiles(d, Bare(d, E), E)
    PROVE  Tiles(e, Bare(e, E), E) /\ BoundKept(d, e)
<1>1. Bare(e, E) = Bare(d, E)
  BY DEF Bare, Copies, RowsKept
<1>2. Steady(d, e) /\ BoundKept(d, e)
  BY DEF Steady, Kin, BoundKept, RowsKept, Live
<1> QED
  BY <1>1, <1>2, SteadyTiles

LEMMA HandOffTiles ==
    ASSUME NEW d \in Index, Sound(d), NEW E, Tiles(d, Bare(d, E), E),
           NEW f \in Found, NEW path \in Paths, NEW generation \in Nat,
           NEW e, e = HandOff(d, f, path, generation),
           NEW F, F = E \cup {p \in DOMAIN d.projects : Copies(d, p) # {} /\ Copies(e, p) = {}}
    PROVE  Tiles(e, Bare(e, F), F) /\ BoundKept(d, e)
<1> DEFINE r == ResolveIdentity(d, f)
           B == Bare(d, E)
<1>1. /\ Tiles(r.db, B \ {r.project}, E) /\ BoundKept(d, r.db)
      /\ DOMAIN r.db.projects \subseteq DOMAIN d.projects \cup {r.project}
  BY ResolveTiles
<1>2. Copies(e, r.project) # {} /\ e.projects = r.db.projects
  BY HandOffRows
<1> HIDE DEF r
<1>3. Bare(e, F) \subseteq B \ {r.project}
  <2> SUFFICES ASSUME NEW p \in Bare(e, F)
               PROVE  p \in B \ {r.project}
    OBVIOUS
  <2>1. p \in DOMAIN e.projects /\ p \notin F /\ Copies(e, p) = {}
    BY DEF Bare
  <2>2. p # r.project /\ p \in DOMAIN d.projects
    BY <1>1, <1>2, <2>1
  <2>3. Copies(d, p) = {} /\ p \notin E
    BY <2>1, <2>2
  <2> QED
    BY <2>2, <2>3 DEF Bare
<1>4. Steady(r.db, e)
  BY <1>2 DEF Steady, Kin, Live
<1>5. BoundKept(r.db, e)
  BY <1>2 DEF BoundKept
<1>6. E \subseteq F /\ Bare(e, F) \cap Live(e) \subseteq B \ {r.project}
  BY <1>3
<1> HIDE DEF B
<1> QED
  BY <1>1, <1>4, <1>5, <1>6, SteadyTiles, BoundKeptTwice

\* A binding written where there was none, or the same again.
LEMMA BindSteady ==
    ASSUME NEW d \in Index, NEW p \in DOMAIN d.projects, NEW id, NEW basis,
           d.projects[p].bound \in {None, id},
           NEW e, e = Bind(d, p, id, basis)
    PROVE  Steady(d, e) /\ Live(e) = Live(d) /\ e.locations = d.locations
<1>1. d.projects[p] \in Project
  BY IndexParts
<1>2. /\ DOMAIN e.projects = DOMAIN d.projects /\ e.locations = d.locations
      /\ \A q \in DOMAIN d.projects : q # p => e.projects[q] = d.projects[q]
      /\ e.projects[p] = [d.projects[p] EXCEPT !.bound = id, !.basis = basis]
  BY DEF Bind, Index
<1>3. Kin(d.projects[p], e.projects[p])
  BY <1>1, <1>2 DEF Kin, Project
<1>4. \A q \in DOMAIN d.projects : Kin(d.projects[q], e.projects[q])
  <2>1. \A q \in DOMAIN d.projects : Kin(d.projects[q], d.projects[q])
    BY DEF Kin
  <2> QED
    BY <1>2, <1>3, <2>1
<1>5. Live(e) = Live(d)
  BY <1>2, <1>4 DEF Live
<1> QED
  BY <1>2, <1>4, <1>5 DEF Steady

LEMMA MarkCopies ==
    ASSUME NEW d \in Index, NEW ps, NEW field, NEW e, e = Mark(d, ps, field)
    PROVE  e.locations = d.locations
BY DEF Mark, Index

\* A change of the rows that keeps the copies.
LEMMA SteadyBare ==
    ASSUME NEW d, NEW e, Steady(d, e), e.locations = d.locations, NEW E, Tiles(d, Bare(d, E), E)
    PROVE  Tiles(e, Bare(e, E), E)
<1>1. Bare(e, E) = Bare(d, E)
  BY DEF Bare, Copies, Steady
<1> QED
  BY <1>1, SteadyTiles

LEMMA IngestTiles ==
    ASSUME NEW d \in Index, Sound(d), NEW E, Tiles(d, Bare(d, E), E), E \subseteq Nat,
           NEW listing \in Listings, NEW e, e = IngestListing(d, listing)
    PROVE  Tiles(e, Bare(e, E), E)
<1> DEFINE byId == ById(d, listing)
           byKey == ByKey(d, listing)
           found == IF byId # {} THEN byId ELSE byKey
           basis == IF byId # {} THEN "provider_id" ELSE "remote_key"
           attached == Bind(d, First(found), listing.id, basis)
           row == [lineage |-> None, remote |-> listing.remote, bound |-> listing.id,
                   basis |-> "remote_key", fork |-> listing.fork, ambiguous |-> FALSE]
           n == Len(d.projects) + 1
<1>1. found \subseteq Live(d) /\ Live(d) \subseteq Nat /\ Live(d) \subseteq DOMAIN d.projects
  BY IndexParts DEF ById, ByKey
<1>2. \A p \in found : d.projects[p].bound \in {None, listing.id}
  BY DEF ById, ByKey
<1>3. ASSUME Cardinality(found) = 1
      PROVE  /\ Tiles(attached, Bare(attached, E), E) /\ attached \in Index
             /\ Steady(d, attached) /\ attached.locations = d.locations
  <2>1. found # {}
    BY <1>3, FS_EmptySet
  <2>2. First(found) \in found
    BY <1>1, <2>1, FirstIsOne
  <2>3. Steady(d, attached) /\ attached.locations = d.locations
    BY <1>1, <1>2, <2>2, BindSteady
  <2>4. attached \in Index
    <3>1. listing.id \in Ids /\ basis \in {"provider_id", "remote_key"}
      BY DEF Ids
    <3> QED
      BY <3>1, BindGrows
  <2> QED
    BY <2>3, <2>4, SteadyBare
<1>4. CASE Cardinality(found) = 1 /\ e = Mark(attached, found, "fork")
  <2> HIDE DEF attached, found
  <2>1. Steady(attached, e) /\ e.locations = attached.locations
    BY <1>3, <1>4, MarkSteady, MarkCopies
  <2> QED
    BY <1>3, <1>4, <2>1, SteadyBare
<1>5. CASE Cardinality(found) = 1 /\ e = attached
  BY <1>3, <1>5
<1>6. CASE e = Mark(d, found, "ambiguous")
  BY <1>6, MarkSteady, MarkCopies, SteadyBare
<1>7. CASE e = d
  BY <1>7
<1>8. CASE found = {} /\ e = [d EXCEPT !.projects = Append(@, row)]
  <2>1. byId = {} /\ byKey = {}
    BY <1>8
  <2>2. \A p \in Live(d) :
            Fold(d.projects[p].remote) = Fold(listing.remote)
            => d.projects[p].bound \notin {None, listing.id}
    BY <2>1 DEF ByKey
  <2>3. row \in Project
    BY LibraryAssumption DEF Project, Lineages, Remotes, Ids
  <2>4. /\ row.bound = listing.id /\ row.lineage = None
        /\ row.remote = listing.remote /\ listing.id # None /\ listing.remote # None
    BY LibraryAssumption
  <2> HIDE DEF row, byId, byKey, found
  <2>5. Extended(d, e, n, row) /\ e.locations = d.locations
    BY <1>8, <2>3, AppendExtends DEF Index
  <2> HIDE DEF n
  <2>6. Bare(e, E) \subseteq Bare(d, E) \cup {n}
    BY <2>5 DEF Bare, Copies, Extended
  <2>7. ASSUME NEW p \in Live(d), Fold(d.projects[p].remote) = Fold(row.remote)
        PROVE  Apart(e, p, n)
    BY <1>1, <2>2, <2>4, <2>5, <2>7 DEF Apart, Extended
  <2>8. \A p \in Live(d) :
            /\ p \in Bare(d, E) \/ n \in Bare(e, E)
            /\ row.remote # None /\ d.projects[p].remote # None
            /\ Fold(d.projects[p].remote) = Fold(row.remote)
            => Apart(e, p, n)
    BY <2>7
  <2>9. \A p \in Live(d) :
            /\ row.lineage # None /\ d.projects[p].lineage = row.lineage
            /\ row.remote # None /\ d.projects[p].remote = row.remote
            => Apart(e, p, n)
    BY <2>4
  <2>10. n \in Bare(e, E) => row.bound # None /\ row.lineage = None /\ row.remote # None
    BY <2>4
  <2> QED
    BY <2>4, <2>5, <2>6, <2>8, <2>9, <2>10, NewRowTiles
<1>9. \/ Cardinality(found) = 1 /\ e = Mark(attached, found, "fork")
      \/ Cardinality(found) = 1 /\ e = attached
      \/ e = Mark(d, found, "ambiguous") \/ e = d
      \/ found = {} /\ e = [d EXCEPT !.projects = Append(@, row)]
  BY DEF IngestListing
<1> HIDE DEF found, attached, row
<1> QED
  BY <1>4, <1>5, <1>6, <1>7, <1>8, <1>9

\* A step that leaves the asked project unasked about or its row's forge id alone.
LEMMA AskedStays ==
    ASSUME AskedIsUnbound, BoundKept(db, db'), asked' \in {asked, None}
    PROVE  AskedIsUnbound'
<1>1. CASE asked' = None
  BY <1>1 DEF AskedIsUnbound
<1>2. CASE asked' = asked /\ asked # None
  <2>1. asked.project \in DOMAIN db.projects /\ db.projects[asked.project].bound = None
    BY <1>2 DEF AskedIsUnbound
  <2>2. asked.project \in DOMAIN db'.projects /\ db'.projects[asked.project].bound = None
    BY <2>1 DEF BoundKept
  <2> QED
    BY <1>2, <2>2 DEF AskedIsUnbound
<1> QED
  BY <1>1, <1>2

LEMMA LandsTiles ==
    ASSUME TilesInv, NEW f \in Found, NEW path \in Paths, NEW generation \in Nat,
           Lands(f, path, generation), UNCHANGED asked
    PROVE  Tiles(db', Bare(db', emptied'), emptied') /\ AskedIsUnbound'
<1>1. db \in Index /\ Sound(db) /\ Tiles(db, Bare(db, emptied), emptied) /\ AskedIsUnbound
  BY DEF TilesInv, Inv, TypeOK
<1>2. CASE /\ db' = HandOff(db, f, path, generation)
           /\ emptied' = emptied \cup {p \in DOMAIN db.projects :
                                          Copies(db, p) # {} /\ Copies(db', p) = {}}
  <2>1. Tiles(db', Bare(db', emptied'), emptied') /\ BoundKept(db, db')
    BY <1>1, <1>2, HandOffTiles
  <2> QED
    BY <1>1, <2>1, AskedStays
<1>3. CASE UNCHANGED <<db, emptied>>
  <2>1. BoundKept(db, db')
    BY <1>3, SteadySelf
  <2> QED
    BY <1>1, <1>3, <2>1, AskedStays
<1> QED
  BY <1>2, <1>3 DEF Lands

LEMMA RowsKeptTiles ==
    ASSUME TilesInv, RowsKept(db, db'), UNCHANGED emptied, asked' \in {asked, None}
    PROVE  Tiles(db', Bare(db', emptied'), emptied') /\ AskedIsUnbound'
<1>1. Tiles(db, Bare(db, emptied), emptied) /\ AskedIsUnbound
  BY DEF TilesInv
<1>2. Tiles(db', Bare(db', emptied), emptied) /\ BoundKept(db, db')
  BY <1>1, KeptTiles
<1> QED
  BY <1>1, <1>2, AskedStays

LEMMA NextTiles ==
    ASSUME TilesInv, [Next]_vars
    PROVE  Tiles(db', Bare(db', emptied'), emptied') /\ AskedIsUnbound'
<1> DEFINE Goal == Tiles(db', Bare(db', emptied'), emptied') /\ AskedIsUnbound'
<1> SUFFICES Goal
  OBVIOUS
<1>1. /\ Inv /\ db \in Index /\ Sound(db) /\ Tiles(db, Bare(db, emptied), emptied)
      /\ AskedIsUnbound /\ emptied \subseteq Nat
  BY DEF TilesInv, Inv, TypeOK
<1>2. ASSUME UNCHANGED <<db, emptied>>, asked' \in {asked, None}
      PROVE  Goal
  <2>1. RowsKept(db, db')
    BY <1>2 DEF RowsKept
  <2> QED
    BY <1>2, <2>1, RowsKeptTiles
<1>3. ASSUME NEW p \in Paths, HandOffFound(p)
      PROVE  Goal
  <2>1. look[p] \in Found /\ scan.generation \in Nat
    BY <1>3 DEF HandOffFound, TilesInv, Inv, TypeOK
  <2> QED
    BY <1>3, <2>1, LandsTiles DEF HandOffFound
<1>4. CASE CloneIndexed
  <2>1. clone.found \in Found /\ clone.path \in Paths
    BY <1>4 DEF CloneIndexed, TilesInv, Inv, TypeOK, NoClone
  <2> QED
    BY <1>4, <2>1, LandsTiles DEF CloneIndexed
<1>6. ASSUME NEW listing \in Listings, Ingest(listing)
      PROVE  Goal
  <2>1. db' = IngestListing(db, listing) /\ UNCHANGED <<asked, emptied>> /\ asked = None
    BY <1>6 DEF Ingest
  <2>2. Tiles(db', Bare(db', emptied), emptied)
    BY <1>1, <2>1, IngestTiles
  <2> QED
    BY <2>1, <2>2 DEF AskedIsUnbound
<1>7. CASE WriteAnswer
  <2>1. /\ db' = Bind(db, asked.project, asked.id, "provider_id")
        /\ asked # None /\ asked' = None /\ UNCHANGED emptied
    BY <1>7 DEF WriteAnswer
  <2>2. asked.project \in DOMAIN db.projects /\ db.projects[asked.project].bound = None
    BY <1>1, <2>1 DEF AskedIsUnbound
  <2>3. Steady(db, db') /\ db'.locations = db.locations
    BY <1>1, <2>1, <2>2, BindSteady
  <2>4. Tiles(db', Bare(db', emptied), emptied)
    BY <1>1, <2>3, SteadyBare
  <2> QED
    BY <2>1, <2>4 DEF AskedIsUnbound
<1>8. ASSUME NEW p \in DOMAIN db.projects, NEW listing \in Listings, AskForge(p, listing)
      PROVE  Goal
  <2>1. /\ asked' = [project |-> p, id |-> listing.id] /\ UNCHANGED <<db, emptied>>
        /\ p \in Unmatched(db)
    BY <1>8 DEF AskForge
  <2>2. db.projects[p].bound = None
    BY <2>1 DEF Unmatched
  <2> QED
    BY <1>1, <2>1, <2>2 DEF AskedIsUnbound
<1>9. CASE PresenceWrite
  <2>1. \E k, presence : db' = [db EXCEPT !.locations[k].presence = presence]
    BY <1>9 DEF PresenceWrite
  <2>2. RowsKept(db, db')
    BY <1>1, <2>1, PresenceKept, SMTT(30)
  <2> QED
    BY <1>9, <2>2, RowsKeptTiles DEF PresenceWrite
<1>10. ASSUME NEW k \in DOMAIN db.locations, NEW path \in Paths, RelocateTo(k, path)
       PROVE  Goal
  <2>1. RowsKept(db, db')
    BY <1>1, <1>10, RelocateKept DEF RelocateTo
  <2> QED
    BY <1>10, <2>1, RowsKeptTiles DEF RelocateTo
<1>11. CASE RemovalCommitted
  <2>1. RowsKept(db, db')
    BY <1>1, <1>11, CommitRemovalKept DEF RemovalCommitted
  <2> QED
    BY <1>11, <2>1, RowsKeptTiles DEF RemovalCommitted
<1>12. CASE UNCHANGED vars
  BY <1>2, <1>12 DEF vars
<1> HIDE DEF Goal
<1>13. CASE Scanning
  BY <1>2, <1>3, <1>9, <1>13 DEF Scanning, ScanBegins, Look, Probe, CancelScan, WalkEnds
<1>14. CASE Syncing
  BY <1>6, <1>7, <1>8, <1>14 DEF Syncing
<1>15. CASE Commands
  BY <1>2, <1>10, <1>11, <1>15 DEF Commands, UninstallReads, Analysed, Trashed
<1>16. CASE Crash \/ CloneProbed \/ \E p \in Paths : Put(p) \/ \E r \in Repos : CloneLands(p, r)
  BY <1>2, <1>16 DEF Crash, CloneProbed, Put, CloneLands
<1> QED
  BY <1>4, <1>12, <1>13, <1>14, <1>15, <1>16 DEF Next

LEMMA SpecTilesInv == Spec => []TilesInv
<1>1. Init => TilesInv
  <2> SUFFICES ASSUME Init PROVE TilesInv
    OBVIOUS
  <2>1. Live(db) = {}
    BY DEF Init, NoIndex, Live
  <2>2. Tiles(db, Bare(db, emptied), emptied)
    BY <2>1 DEF Tiles, ListedOnly, BareApart, LineagesApart
  <2>3. AskedIsUnbound
    BY DEF Init, AskedIsUnbound
  <2> QED
    BY <2>2, <2>3, InitInv DEF TilesInv
<1>2. TilesInv /\ [Next]_vars => TilesInv'
  <2> SUFFICES ASSUME TilesInv, [Next]_vars PROVE TilesInv'
    OBVIOUS
  <2>1. Inv'
    BY NextInv DEF TilesInv
  <2>2. Tiles(db', Bare(db', emptied'), emptied') /\ AskedIsUnbound'
    BY NextTiles
  <2>3. Tiles(db, Bare(db, emptied), emptied)'
    BY <2>2 DEF Tiles, ListedOnly, BareApart, LineagesApart, Bare, Apart, Copies, Live
  <2> QED
    BY <2>1, <2>2, <2>3 DEF TilesInv
<1> QED
  BY <1>1, <1>2, PTL DEF Spec

\* However walks, clones, listings, probes, relocations and removals interleave, two shown
\* projects of one lineage and one remote are two for the forge, are both flagged, or one of them
\* lost its last copy to another.
THEOREM SpecStrongIdentityIsUnique == Spec => []StrongIdentityIsUnique
<1>1. TilesInv => StrongIdentityIsUnique
  <2> SUFFICES ASSUME TilesInv, NEW p \in Live(db) \ emptied, NEW q \in Live(db) \ emptied,
                      p < q, db.projects[p].lineage # None,
                      db.projects[p].lineage = db.projects[q].lineage,
                      db.projects[p].remote # None,
                      db.projects[p].remote = db.projects[q].remote
               PROVE  Apart(db, p, q)
    BY DEF StrongIdentityIsUnique, Apart
  <2>1. p \in Nat /\ q \in Nat
    BY IndexParts DEF TilesInv, Inv, TypeOK
  <2>2. p # q
    BY <2>1
  <2> QED
    BY <2>2 DEF TilesInv, Tiles, LineagesApart
<1> QED
  BY <1>1, SpecTilesInv, PTL

\* A listed project that was never cloned here is no tile beside another on its remote, in whatever
\* order the listing, the walk and the clone's own indexing come.
THEOREM SpecNoTileBesideItsClone == Spec => []NoTileBesideItsClone
<1>1. TilesInv => NoTileBesideItsClone
  <2> SUFFICES ASSUME TilesInv, NEW p \in Live(db) \ emptied, NEW q \in Live(db),
                      p # q, Copies(db, p) = {}, db.projects[q].remote # None,
                      Fold(db.projects[p].remote) = Fold(db.projects[q].remote)
               PROVE  \/ db.projects[p].ambiguous /\ db.projects[q].ambiguous
                      \/ db.projects[q].bound \notin {None, db.projects[p].bound}
    BY DEF NoTileBesideItsClone
  <2>1. p \in Bare(db, emptied)
    BY DEF Bare, Live
  <2>2. Apart(db, p, q)
    BY <2>1 DEF TilesInv, Tiles, BareApart
  <2> QED
    BY <2>2 DEF Apart
<1> QED
  BY <1>1, SpecTilesInv, PTL
=============================================================================
