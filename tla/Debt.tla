-------------------------------- MODULE Debt --------------------------------
(***************************************************************************)
(* What one project owes, and what a transaction of it may change: the     *)
(* debt items and the sweep rows of core/src/debt, the content scan's row  *)
(* and its blob cache (core/src/jobs/j7_markers.rs), the copies they were  *)
(* read at, and the reading of core/src/health and core/src/restoration    *)
(* taken before and after a write.  Every operator is a function of the    *)
(* index; ContentScan says who calls which, and when.                      *)
(*                                                                         *)
(* Two sources stand for the nine of the registry: "todo", found in the    *)
(* contents of blobs, and "readme", a singleton decided by what the last   *)
(* enumeration stored.  They feed different layers, and each has one       *)
(* basis, so two observations compare when they share an anchor.  The      *)
(* project is classified and not Reference, and nothing is marked N/A.     *)
(***************************************************************************)
EXTENDS Integers, Sequences, FiniteSets

CONSTANTS Copies,        \* the project's locations
          Preferred,     \* the copy pick_primary prefers among equals
          Heads,         \* commits HEAD may name
          Tree,          \* Tree[h]: the blobs of h's filtered entries, in path order
          Marker,        \* Marker[b]: the marker text blob b holds, or NoText
          HasReadme      \* the heads whose tree names a README

None == <<>>
Some(x) == <<x>>
NoText == "none"

Blobs == UNION {{Tree[h][i] : i \in DOMAIN Tree[h]} : h \in Heads}
Texts == {Marker[b] : b \in Blobs} \ {NoText}
Sources == {"todo", "readme"}

ASSUME DebtAssumption ==
  /\ Preferred \in Copies /\ IsFiniteSet(Copies)
  /\ \A h \in Heads : Tree[h] \in Seq(Blobs)
  /\ HasReadme \subseteq Heads

-----------------------------------------------------------------------------
(* The rows.  A content scan is complete when complete_head_oid is head_oid,*)
(* which no write leaves unequal and not null.                             *)

NoScan == [head |-> None]
NoSweep == [outcome |-> "none", at |-> None, since |-> FALSE]

Maybe(S) == {x \in Seq(S) : Len(x) <= 1}
Places == {"present", "missing", "offline"}
Outcomes == {"none", "complete", "partial", "unobservable", "skipped_suppressed"}

Location == [presence : Places, removed : BOOLEAN, head : Maybe(Heads)]
ScanRow == [head : {Some(h) : h \in Heads}, readme : {"present", "absent", "not_read"},
            total : Maybe(Nat), complete : BOOLEAN, pending : Maybe(Nat)]
Item == [key : (Texts \cup {"readme"}) \X Nat, state : {"open", "unverified"}, at : Copies]
Items == {S \in SUBSET Item : IsFiniteSet(S)}
Sweep == [outcome : Outcomes, at : Maybe(Copies), since : BOOLEAN]

Index == [loc : [Copies -> Location], newest : Copies, scan : {NoScan} \cup ScanRow,
          cursor : Maybe(Nat), cache : SUBSET Blobs, items : [Sources -> Items],
          sweep : [Sources -> Sweep], on : SUBSET Sources,
          granted : BOOLEAN, enrolled : BOOLEAN, archived : BOOLEAN]

Observable(d, c) == d.loc[c].presence = "present" /\ ~d.loc[c].removed

(* Mutant: rule 4 is not asked. *)
OutcomeAnywhere(d, c, proposed) == proposed

OutcomeAtRoot(d, c, proposed) == IF Observable(d, c) THEN proposed ELSE "unobservable"

(* pick_primary: not removed, then present, then the newer worktree.       *)
Prefer(S, T) == IF S \cap T # {} THEN S \cap T ELSE S

Primary(d) ==
  LET kept == Prefer(Copies, {c \in Copies : ~d.loc[c].removed})
      present == Prefer(kept, {c \in Copies : d.loc[c].presence = "present"})
  IN CHOOSE c \in Prefer(Prefer(present, {d.newest}), {Preferred}) : TRUE

-----------------------------------------------------------------------------
(* observe: diff one source's sweep against what is stored.                *)

Comparable(item, sweep) == Some(item.at) = sweep.at

MayClose(item, sweep) == sweep.outcome = "complete" /\ Comparable(item, sweep)

Unverified(items) == {[i EXCEPT !.state = "unverified"] : i \in items}

Observe(d, src, sweep, seen) ==
  LET missed == {i \in d.items[src] : i.key \notin seen}
      closed == {i \in missed : MayClose(i, sweep)}
      unreached == {i \in missed : Comparable(i, sweep) /\ sweep.outcome = "partial"}
      found == {[key |-> k, state |-> "open", at |-> sweep.at[1]] : k \in seen}
  IN [d EXCEPT !.sweep[src] = sweep,
               !.items[src] = found \cup unreached \cup Unverified(missed \ (closed \cup unreached))]

(* Uninstall: every open item of the project is doubted.                   *)
MarkUnverified(d) == [d EXCEPT !.items = [src \in Sources |-> Unverified(@[src])]]

(* A root came back: what was observed there before is withdrawn.          *)
MarkRootUnobserved(d, c) ==
  [d EXCEPT !.sweep = [src \in Sources |->
              IF @[src].at = Some(c) /\ @[src].outcome \in {"complete", "partial"}
              THEN [@[src] EXCEPT !.outcome = "unobservable", !.since = TRUE] ELSE @[src]],
            !.items = [src \in Sources |->
              {i \in @[src] : i.at # c} \cup Unverified({i \in @[src] : i.at = c})]]

-----------------------------------------------------------------------------
(* The sources that are off, and the layers' values: the open items of an  *)
(* eligible source, when everything behind them is currently observed.     *)

OffSources(d, granted) == {src \in Sources : src \notin d.on \/ (src = "todo" /\ ~granted)}

Suppressed(d) == ~d.enrolled \/ d.archived

ProjectPresence(d) ==
  LET seen == {d.loc[c].presence : c \in Copies} IN
  IF "present" \in seen THEN "present" ELSE IF "missing" \in seen THEN "missing" ELSE "offline"

EverSwept(d) == \E src \in Sources : d.sweep[src] # NoSweep

HealthState(d) ==
  IF OffSources(d, d.granted) = Sources \/ ProjectPresence(d) = "missing" THEN "absent"
  ELSE IF Suppressed(d) THEN "suppressed"
  ELSE IF ProjectPresence(d) = "present" THEN "live"
  ELSE IF EverSwept(d) THEN "frozen" ELSE "absent"

(* Mutant: an unverified item is only not counted. *)
LayerValueOfOpen(d, src) ==
  IF \/ HealthState(d) \in {"absent", "suppressed"} \/ src \in OffSources(d, d.granted)
     \/ d.sweep[src].outcome \notin {"complete", "partial"} \/ ~d.sweep[src].since
  THEN None
  ELSE Some(Cardinality({i \in d.items[src] : i.state = "open"}))

LayerValue(d, src) ==
  IF \/ HealthState(d) \in {"absent", "suppressed"} \/ src \in OffSources(d, d.granted)
     \/ d.sweep[src].outcome \notin {"complete", "partial"} \/ ~d.sweep[src].since
     \/ \E i \in d.items[src] : i.state = "unverified"
  THEN None
  ELSE Some(Cardinality(d.items[src]))

(* The delta a write may record of a layer: how far its value fell.        *)
Admissible(d, e, src) ==
  /\ (HealthState(d) = "frozen") = (HealthState(e) = "frozen")
  /\ LayerValue(d, src) # None /\ LayerValue(e, src) # None

Fell(d, e, src) ==
  IF /\ Admissible(d, e, src)
     /\ ~(e.sweep[src].outcome = "partial" /\ LayerValue(e, src)[1] < LayerValue(d, src)[1])
  THEN LayerValue(d, src)[1] - LayerValue(e, src)[1] ELSE 0

Deltas(d, e) == [src \in Sources |-> Fell(d, e, src)]
NoDeltas == [src \in Sources |-> 0]

(* The sources a write's closures put on the day's receipt (debt_day): both *)
(* are scored, and the project must be enrolled by then.                   *)
KeysOf(items) == {i.key : i \in items}
ClosedKeys(d, e, src) == KeysOf(d.items[src]) \ KeysOf(e.items[src])
Pays(d, e) == IF e.enrolled THEN {src \in Sources : ClosedKeys(d, e, src) # {}} ELSE {}

-----------------------------------------------------------------------------
(* build_items: one marker text's occurrences over the whole enumeration,  *)
(* numbered in path order, are its items.                                  *)

Occurrences(d, h, text) ==
  {i \in DOMAIN Tree[h] : Marker[Tree[h][i]] = text /\ Tree[h][i] \in d.cache}
Keys(d, h) ==
  UNION {{<<text, n>> : n \in 0 .. Cardinality(Occurrences(d, h, text)) - 1} : text \in Texts}

ScanComplete(d) == d.scan # NoScan /\ d.scan.complete

SweepFromContent(d, gates) ==
  IF gates.suppressed THEN "skipped_suppressed"
  ELSE IF ScanComplete(d) THEN "complete" ELSE "partial"

BuildItems(d, c, h, gates, since) ==
  IF "todo" \in OffSources(d, gates.granted) \/ d.scan = NoScan THEN d
  ELSE Observe(d, "todo",
               [outcome |-> OutcomeAtRoot(d, c, SweepFromContent(d, gates)),
                at |-> Some(c), since |-> since],
               Keys(d, h))

(* The presence arm, anchored at the primary copy whatever copy the answer *)
(* was read at.                                                            *)
ReadmeReading(d) == IF d.scan = NoScan THEN "not_read" ELSE d.scan.readme

EvaluateSingletons(d) ==
  IF "readme" \in OffSources(d, d.granted) THEN d
  ELSE LET c == Primary(d)
           proposed == IF ReadmeReading(d) = "not_read" THEN "unobservable" ELSE "complete"
       IN Observe(d, "readme",
                  [outcome |-> OutcomeAtRoot(d, c, proposed), at |-> Some(c), since |-> TRUE],
                  IF ReadmeReading(d) = "absent" THEN {<<"readme", 0>>} ELSE {})

-----------------------------------------------------------------------------
(* The content scan's row.  pending is Some(n), or None when nobody has    *)
(* enumerated.                                                             *)

(* Mutant: the entries of another head are still counted down. *)
WriteEnumerationKeeping(d, h, readme, total) ==
  [d EXCEPT !.scan = [head |-> Some(h), readme |-> readme, total |-> total,
                      complete |-> d.scan.head = Some(h) /\ d.scan.complete,
                      pending |-> IF d.scan # NoScan THEN d.scan.pending ELSE total]]

WriteEnumeration(d, h, readme, total) ==
  LET same == d.scan.head = Some(h) IN
  [d EXCEPT !.scan = [head |-> Some(h), readme |-> readme, total |-> total,
                      complete |-> same /\ d.scan.complete,
                      pending |-> IF same THEN d.scan.pending ELSE total]]

RestartScan(d) == [d EXCEPT !.scan.complete = FALSE, !.scan.pending = d.scan.total]

Left(pending, n) ==
  LET p == IF pending = None THEN 0 ELSE pending[1] IN IF p > n THEN p - n ELSE 0

(* The reads are cached, and the row counts down and completes only while  *)
(* it is still of this head.                                               *)
CommitChunk(d, h, reads, consumed) ==
  LET cached == [d EXCEPT !.cache = @ \cup reads]
      left == Left(d.scan.pending, consumed)
  IN IF d.scan.head # Some(h) THEN cached
     ELSE [cached EXCEPT !.scan.pending = Some(left),
                         !.scan.complete = @ \/ left = 0]

RevokeContentScan(d) ==
  [d EXCEPT !.granted = FALSE, !.cache = {},
            !.scan = IF @ = NoScan THEN NoScan
                     ELSE [@ EXCEPT !.complete = FALSE, !.total = None, !.pending = None]]

SwitchOff(d, src) == [d EXCEPT !.on = @ \ {src}, !.sweep[src] = NoSweep]

(* Evidence from before the stamp does not count as of now.                *)
StampAcknowledged(d) ==
  IF d.enrolled THEN d
  ELSE [d EXCEPT !.enrolled = TRUE,
                 !.sweep = [src \in Sources |-> [@[src] EXCEPT !.since = FALSE]]]
=============================================================================
