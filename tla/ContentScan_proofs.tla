------------------------ MODULE ContentScan_proofs ------------------------
(***************************************************************************)
(* Proofs about ContentScan: the types of the rows and of what each run    *)
(* has read, that no write closes an item but a complete sweep of the      *)
(* present copy it was seen at, and that an undisturbed scan closes nothing *)
(* its tree still holds, and credits nobody for what nobody fixed.  Most of *)
(* the work is in lemmas about the operators of Debt, one per operation on *)
(* the index.                                                              *)
(***************************************************************************)
EXTENDS ContentScan, FiniteSetTheorems, TLAPS

-----------------------------------------------------------------------------
(* Optional values.                                                        *)

(* A value is an optional value.                                           *)
LEMMA SomeIsMaybe ==
  ASSUME NEW S, NEW x \in S PROVE Some(x) \in Maybe(S) /\ Some(x) # None
  BY DEF Some, Maybe, None

(* So is none.                                                             *)
LEMMA NoneIsMaybe == ASSUME NEW S PROVE None \in Maybe(S)
  BY DEF None, Maybe

(* An optional value that is not none holds a member.                      *)
LEMMA MaybeHolds ==
  ASSUME NEW S, NEW m \in Maybe(S), m # None PROVE m[1] \in S /\ m = Some(m[1])
  BY DEF None, Maybe, Some

(* Some is injective.                                                      *)
LEMMA SomeIsInjective == ASSUME NEW x, NEW y, Some(x) = Some(y) PROVE x = y
  BY DEF Some

-----------------------------------------------------------------------------
(* The operations on the index.                                            *)

KeySet == (Texts \cup {"readme"}) \X Nat

(* What a function makes of a finite set is finite.                        *)
LEMMA ImageIsFinite ==
  ASSUME NEW S, IsFiniteSet(S), NEW f, f = [x \in S |-> f[x]]
  PROVE  IsFiniteSet({f[x] : x \in S})
  <1> DEFINE T == {f[x] : x \in S}
  <1>1. f \in [S -> T]
    OBVIOUS
  <1>2. f \in Surjection(S, T)
    <2>1. \A t \in T : \E x \in S : f[x] = t
      OBVIOUS
    <2> HIDE DEF T
    <2> QED BY <1>1, <2>1 DEF Surjection
  <1> HIDE DEF T
  <1>3. IsFiniteSet(T)
    BY <1>2, FS_Surjection
  <1> QED BY <1>3 DEF T

(* Doubting items keeps their keys and their copies.                       *)
LEMMA UnverifiedKeeps ==
  ASSUME NEW items \in Items
  PROVE  /\ Unverified(items) \in Items
         /\ KeysOf(Unverified(items)) = KeysOf(items)
         /\ \A i \in Unverified(items) : i.state = "unverified"
  <1> DEFINE f == [i \in items |-> [i EXCEPT !.state = "unverified"]]
  <1>1. \A i \in items : /\ f[i] \in Item /\ f[i].key = i.key /\ f[i].state = "unverified"
    BY DEF Items, Item
  <1>2. Unverified(items) = {f[i] : i \in items} /\ f = [i \in items |-> f[i]]
    BY DEF Unverified
  <1> HIDE DEF f
  <1>3. IsFiniteSet(Unverified(items))
    BY <1>2, ImageIsFinite DEF Items
  <1> QED BY <1>1, <1>2, <1>3 DEF Items, KeysOf

(* Parts of a set of items, and two of them together.                      *)
LEMMA ItemsMeet ==
  ASSUME NEW S \in Items, NEW T \in Items
  PROVE  S \cup T \in Items /\ \A R \in SUBSET S : R \in Items
  BY FS_Subset, FS_Union DEF Items

(* What observe writes: typed rows, the sweep it was given, and nothing of *)
(* the other source or of the copies.                                      *)
LEMMA ObserveWrites ==
  ASSUME NEW d \in Index, NEW src \in Sources, NEW sweep \in Sweep, sweep.at # None,
         NEW seen \in SUBSET KeySet, IsFiniteSet(seen)
  PROVE  /\ Observe(d, src, sweep, seen) \in Index
         /\ Observe(d, src, sweep, seen).loc = d.loc
         /\ Observe(d, src, sweep, seen).sweep[src] = sweep
         /\ \A s \in Sources : \A i \in d.items[s] :
              i.key \notin KeysOf(Observe(d, src, sweep, seen).items[s]) =>
                s = src /\ MayClose(i, sweep)
  <1> DEFINE missed == {i \in d.items[src] : i.key \notin seen}
             closed == {i \in missed : MayClose(i, sweep)}
             unreached == {i \in missed : Comparable(i, sweep) /\ sweep.outcome = "partial"}
             found == {[key |-> k, state |-> "open", at |-> sweep.at[1]] : k \in seen}
             doubted == Unverified(missed \ (closed \cup unreached))
             new == found \cup unreached \cup doubted
             e == [d EXCEPT !.sweep[src] = sweep, !.items[src] = new]
  <1>1. Observe(d, src, sweep, seen) = e
    BY DEF Observe
  <1>2. /\ d.items[src] \in Items /\ missed \in Items /\ unreached \in Items
        /\ missed \ (closed \cup unreached) \in Items
    <2>1. d.items[src] \in Items
      BY DEF Index
    <2> QED BY <2>1, ItemsMeet
  <1>3. found \in Items
    <2> DEFINE f == [k \in seen |-> [key |-> k, state |-> "open", at |-> sweep.at[1]]]
    <2>1. sweep.at[1] \in Copies
      BY MaybeHolds DEF Sweep
    <2>2. \A k \in seen : f[k] \in Item
      BY <2>1 DEF Item, KeySet
    <2>3. found = {f[k] : k \in seen} /\ f = [k \in seen |-> f[k]]
      OBVIOUS
    <2> HIDE DEF f, found
    <2> QED BY <2>2, <2>3, ImageIsFinite DEF Items
  <1>4. doubted \in Items /\ KeysOf(doubted) = KeysOf(missed \ (closed \cup unreached))
    BY <1>2, UnverifiedKeeps
  <1>5. new \in Items
    <2> HIDE DEF found, unreached, doubted
    <2> QED BY <1>2, <1>3, <1>4, ItemsMeet
  <1>6. seen \subseteq KeysOf(found)
    <2> SUFFICES ASSUME NEW k \in seen PROVE k \in KeysOf(found)
      OBVIOUS
    <2> DEFINE i == [key |-> k, state |-> "open", at |-> sweep.at[1]]
    <2>1. i \in found /\ i.key = k
      OBVIOUS
    <2> QED BY <2>1, Zenon DEF KeysOf
  <1>7. \A i \in d.items[src] : i.key \notin KeysOf(new) => MayClose(i, sweep)
    <2> SUFFICES ASSUME NEW i \in d.items[src], i.key \notin KeysOf(new) PROVE MayClose(i, sweep)
      OBVIOUS
    <2>1. KeysOf(found) \subseteq KeysOf(new) /\ KeysOf(unreached) \subseteq KeysOf(new)
            /\ KeysOf(doubted) \subseteq KeysOf(new)
      BY DEF KeysOf
    <2>2. i \in missed
      BY <1>6, <2>1
    <2>3. i \notin unreached
      BY <2>1 DEF KeysOf
    <2>4. i \notin missed \ (closed \cup unreached)
      <3>1. i.key \notin KeysOf(missed \ (closed \cup unreached))
        BY <1>4, <2>1
      <3> QED BY <3>1 DEF KeysOf
    <2> QED BY <2>2, <2>3, <2>4
  <1> HIDE DEF new
  <1>8. e \in Index
    BY <1>5 DEF Index
  <1>9. e.loc = d.loc /\ e.sweep[src] = sweep /\ e.items = [d.items EXCEPT ![src] = new]
    BY DEF Index
  <1>10. \A s \in Sources \ {src} : e.items[s] = d.items[s]
    BY <1>9 DEF Index
  <1>11. e.items[src] = new
    BY <1>9 DEF Index
  <1>12. \A s \in Sources : \A i \in d.items[s] :
           i.key \notin KeysOf(e.items[s]) => s = src /\ MayClose(i, sweep)
    <2> SUFFICES ASSUME NEW s \in Sources, NEW i \in d.items[s], i.key \notin KeysOf(e.items[s])
                 PROVE s = src /\ MayClose(i, sweep)
      OBVIOUS
    <2>1. s = src
      BY <1>10 DEF KeysOf
    <2> QED BY <2>1, <1>7, <1>11
  <1> HIDE DEF e
  <1> QED BY <1>1, <1>8, <1>9, <1>12

(* An operation that closes nothing: typed rows, every key kept.           *)
KeepsItems(d, e) ==
  e \in Index /\ \A src \in Sources : KeysOf(d.items[src]) \subseteq KeysOf(e.items[src])

(* A write that leaves the items alone keeps them.                         *)
LEMMA SameItems ==
  ASSUME NEW d, NEW e \in Index, e.items = d.items PROVE KeepsItems(d, e)
  BY DEF KeepsItems

(* An uninstall doubts every item and closes none.                         *)
LEMMA MarkUnverifiedKeeps ==
  ASSUME NEW d \in Index PROVE KeepsItems(d, MarkUnverified(d))
  <1> DEFINE new == [src \in Sources |-> Unverified(d.items[src])]
  <1>1. \A src \in Sources : d.items[src] \in Items
    BY DEF Index
  <1>2. \A src \in Sources : /\ Unverified(d.items[src]) \in Items
                            /\ KeysOf(Unverified(d.items[src])) = KeysOf(d.items[src])
    BY <1>1, UnverifiedKeeps
  <1>3. new \in [Sources -> Items]
    BY <1>2
  <1>4. \A src \in Sources : KeysOf(d.items[src]) \subseteq KeysOf(new[src])
    BY <1>2
  <1>5. MarkUnverified(d) = [d EXCEPT !.items = new]
    BY DEF MarkUnverified, Index
  <1> HIDE DEF new
  <1>6. MarkUnverified(d) \in Index /\ MarkUnverified(d).items = new
    BY <1>3, <1>5 DEF Index
  <1> QED BY <1>4, <1>6 DEF KeepsItems

(* A returning copy's evidence is withdrawn, and no item is closed.        *)
LEMMA MarkRootUnobservedKeeps ==
  ASSUME NEW d \in Index, NEW c \in Copies PROVE KeepsItems(d, MarkRootUnobserved(d, c))
  <1> DEFINE there(src) == {i \in d.items[src] : i.at = c}
             away(src) == {i \in d.items[src] : i.at # c}
             swept == [src \in Sources |->
                        IF d.sweep[src].at = Some(c) /\ d.sweep[src].outcome \in {"complete", "partial"}
                        THEN [d.sweep[src] EXCEPT !.outcome = "unobservable", !.since = TRUE]
                        ELSE d.sweep[src]]
             new == [src \in Sources |-> away(src) \cup Unverified(there(src))]
  <1>1. \A src \in Sources : there(src) \in Items /\ away(src) \in Items
    <2>1. \A src \in Sources : d.items[src] \in Items
      BY DEF Index
    <2> QED BY <2>1, ItemsMeet
  <1>2. \A src \in Sources : /\ Unverified(there(src)) \in Items
                            /\ KeysOf(Unverified(there(src))) = KeysOf(there(src))
    BY <1>1, UnverifiedKeeps
  <1>3. new \in [Sources -> Items]
    <2> HIDE DEF there, away
    <2> QED BY <1>1, <1>2, ItemsMeet
  <1>4. \A src \in Sources : KeysOf(d.items[src]) \subseteq KeysOf(new[src])
    <2> SUFFICES ASSUME NEW src \in Sources, NEW i \in d.items[src] PROVE i.key \in KeysOf(new[src])
      BY DEF KeysOf
    <2>1. new[src] = away(src) \cup Unverified(there(src))
      OBVIOUS
    <2>2. CASE i.at = c
      <3>1. i.key \in KeysOf(there(src))
        BY <2>2 DEF KeysOf
      <3>2. KeysOf(Unverified(there(src))) \subseteq KeysOf(new[src])
        BY <2>1 DEF KeysOf
      <3> QED BY <3>1, <3>2, <1>2
    <2>3. CASE i.at # c
      BY <2>1, <2>3 DEF KeysOf
    <2> QED BY <2>2, <2>3
  <1>5. swept \in [Sources -> Sweep]
    <2>1. \A src \in Sources : d.sweep[src] \in Sweep
      BY DEF Index
    <2>2. \A x \in Sweep : [x EXCEPT !.outcome = "unobservable", !.since = TRUE] \in Sweep
      BY DEF Sweep, Outcomes
    <2> QED BY <2>1, <2>2
  <1>6. MarkRootUnobserved(d, c) = [d EXCEPT !.sweep = swept, !.items = new]
    BY DEF MarkRootUnobserved, Index
  <1> HIDE DEF new, swept
  <1>7. MarkRootUnobserved(d, c) \in Index /\ MarkRootUnobserved(d, c).items = new
    BY <1>3, <1>5, <1>6 DEF Index
  <1> QED BY <1>4, <1>7 DEF KeepsItems

(* The enumeration writes the content scan's row and leaves the items      *)
(* alone.                                                                  *)
LEMMA WriteEnumerationKeeps ==
  ASSUME NEW d \in Index, NEW h \in Heads, NEW readme \in {"present", "absent", "not_read"},
         NEW total \in Maybe(Nat)
  PROVE  KeepsItems(d, WriteEnumeration(d, h, readme, total))
  <1> DEFINE same == d.scan.head = Some(h)
             row == [head |-> Some(h), readme |-> readme, total |-> total,
                     complete |-> same /\ d.scan.complete,
                     pending |-> IF same THEN d.scan.pending ELSE total]
  <1>1. Some(h) \in Maybe(Heads) /\ Some(h) # None
    BY SomeIsMaybe
  <1>2. same => d.scan \in ScanRow
    BY <1>1 DEF Index, NoScan
  <1>3. row \in ScanRow
    BY <1>1, <1>2 DEF ScanRow
  <1>4. WriteEnumeration(d, h, readme, total) = [d EXCEPT !.scan = row]
    BY DEF WriteEnumeration
  <1> HIDE DEF row
  <1>5. [d EXCEPT !.scan = row] \in Index /\ [d EXCEPT !.scan = row].items = d.items
    BY <1>3 DEF Index
  <1> QED BY <1>4, <1>5, SameItems

(* A restart leaves the items alone.                                       *)
LEMMA RestartScanKeeps ==
  ASSUME NEW d \in Index PROVE KeepsItems(d, RestartScan(d))
  <1> DEFINE row == [d.scan EXCEPT !.complete = FALSE, !.pending = d.scan.total]
  <1>1. row \in {NoScan} \cup ScanRow
    <2>1. CASE d.scan \in ScanRow
      BY <2>1 DEF ScanRow
    <2>2. CASE d.scan = NoScan
      BY <2>2 DEF NoScan
    <2> QED BY <2>1, <2>2 DEF Index
  <1>2. RestartScan(d) = [d EXCEPT !.scan = row]
    BY DEF RestartScan, Index
  <1> HIDE DEF row
  <1>3. [d EXCEPT !.scan = row] \in Index /\ [d EXCEPT !.scan = row].items = d.items
    BY <1>1 DEF Index
  <1> QED BY <1>2, <1>3, SameItems

(* So does taking the grant back, which clears the cache and the row.      *)
LEMMA RevokeKeeps ==
  ASSUME NEW d \in Index PROVE KeepsItems(d, RevokeContentScan(d))
  <1> DEFINE row == IF d.scan = NoScan THEN NoScan
                    ELSE [d.scan EXCEPT !.complete = FALSE, !.total = None, !.pending = None]
  <1>1. row \in {NoScan} \cup ScanRow
    BY NoneIsMaybe DEF Index, ScanRow
  <1>2. RevokeContentScan(d) = [d EXCEPT !.granted = FALSE, !.cache = {}, !.scan = row]
    BY DEF RevokeContentScan, Index
  <1> HIDE DEF row
  <1>3. RevokeContentScan(d) \in Index /\ RevokeContentScan(d).items = d.items
    BY <1>1, <1>2 DEF Index
  <1> QED BY <1>3, SameItems

(* So does switching a check off, which forgets its sweep.                 *)
LEMMA SwitchOffKeeps ==
  ASSUME NEW d \in Index, NEW src \in Sources PROVE KeepsItems(d, SwitchOff(d, src))
  <1>1. NoSweep \in Sweep
    BY NoneIsMaybe DEF NoSweep, Sweep, Outcomes
  <1>2. SwitchOff(d, src) \in Index /\ SwitchOff(d, src).items = d.items
    BY <1>1 DEF SwitchOff, Index
  <1> QED BY <1>2, SameItems

(* So does the stamp, which sets what was seen before it aside.            *)
LEMMA StampKeeps ==
  ASSUME NEW d \in Index PROVE KeepsItems(d, StampAcknowledged(d))
  <1> DEFINE swept == [src \in Sources |-> [d.sweep[src] EXCEPT !.since = FALSE]]
             e == [d EXCEPT !.enrolled = TRUE, !.sweep = swept]
  <1>1. swept \in [Sources -> Sweep]
    BY DEF Index, Sweep
  <1>2. StampAcknowledged(d) = IF d.enrolled THEN d ELSE e
    BY DEF StampAcknowledged, Index
  <1> HIDE DEF swept
  <1>3. e \in Index /\ e.items = d.items
    BY <1>1 DEF Index
  <1> HIDE DEF e
  <1>4. StampAcknowledged(d) \in Index /\ StampAcknowledged(d).items = d.items
    BY <1>2, <1>3
  <1> QED BY <1>4, SameItems

(* Finitely many keys are seen at a head.                                  *)
LEMMA KeysAreFinite ==
  ASSUME NEW d, NEW h \in Heads PROVE IsFiniteSet(Keys(d, h))
  <1> DEFINE n == Len(Tree[h])
             f == [i \in 1 .. n |-> Marker[Tree[h][i]]]
             texts == {f[i] : i \in 1 .. n}
  <1>1. DOMAIN Tree[h] = 1 .. n /\ n \in Nat
    <2>1. Tree[h] \in Seq(Blobs)
      BY DebtAssumption
    <2> QED BY <2>1
  <1>2. IsFiniteSet(texts)
    <2>1. IsFiniteSet(1 .. n) /\ f = [i \in 1 .. n |-> f[i]]
      BY <1>1, FS_Interval
    <2> HIDE DEF f
    <2> QED BY <2>1, ImageIsFinite
  <1>3. IsFiniteSet(texts \X (0 .. n))
    <2>1. IsFiniteSet(0 .. n)
      BY <1>1, FS_Interval
    <2> HIDE DEF texts
    <2> QED BY <1>2, <2>1, FS_Product
  <1>4. ASSUME NEW text \in Texts, NEW k \in 0 .. Cardinality(Occurrences(d, h, text)) - 1
        PROVE  <<text, k>> \in texts \X (0 .. n)
    <2> DEFINE there == Occurrences(d, h, text)
    <2>1. there \in SUBSET (1 .. n)
      BY <1>1 DEF Occurrences
    <2>2. IsFiniteSet(there) /\ Cardinality(there) <= n
      <3>1. IsFiniteSet(1 .. n) /\ Cardinality(1 .. n) = n
        BY <1>1, FS_Interval
      <3> HIDE DEF there, n
      <3>2. IsFiniteSet(there) /\ Cardinality(there) <= Cardinality(1 .. n)
        BY <2>1, <3>1, FS_Subset
      <3> QED BY <3>1, <3>2
    <2>3. Cardinality(there) \in Nat
      BY <2>2, FS_CardinalityType
    <2>4. k \in 0 .. n
      BY <1>1, <2>2, <2>3
    <2>5. there # {}
      <3>1. there = {} => Cardinality(there) = 0
        BY FS_EmptySet
      <3> HIDE DEF there
      <3> QED BY <1>4, <3>1 DEF there
    <2>6. PICK i \in 1 .. n : Marker[Tree[h][i]] = text
      BY <1>1, <2>5 DEF Occurrences
    <2>7. text \in texts
      BY <2>6
    <2> HIDE DEF texts
    <2> QED BY <2>4, <2>7
  <1> HIDE DEF texts, n
  <1>5. Keys(d, h) \in SUBSET (texts \X (0 .. n))
    BY <1>4 DEF Keys
  <1> QED BY <1>3, <1>5, FS_Subset

(* The items the cache vouches for have keys of the type.                  *)
LEMMA KeysAreTyped ==
  ASSUME NEW d, NEW h \in Heads PROVE Keys(d, h) \in SUBSET KeySet /\ IsFiniteSet(Keys(d, h))
  <1> SUFFICES ASSUME NEW text \in Texts,
                      NEW n \in 0 .. Cardinality(Occurrences(d, h, text)) - 1
               PROVE  <<text, n>> \in KeySet
    BY KeysAreFinite DEF Keys
  <1>1. Tree[h] \in Seq(Blobs)
    BY DebtAssumption
  <1>2. DOMAIN Tree[h] = 1 .. Len(Tree[h]) /\ Len(Tree[h]) \in Nat
    BY <1>1
  <1>3. IsFiniteSet(DOMAIN Tree[h])
    BY <1>2, FS_Interval
  <1>4. IsFiniteSet(Occurrences(d, h, text))
    BY <1>3, FS_Subset DEF Occurrences
  <1>5. Cardinality(Occurrences(d, h, text)) \in Nat
    BY <1>4, FS_CardinalityType
  <1>6. n \in Nat
    BY <1>5
  <1> QED BY <1>6 DEF KeySet

(* The primary copy is a copy.                                             *)
LEMMA PrimaryIsACopy == ASSUME NEW d \in Index PROVE Primary(d) \in Copies
  <1>1. ASSUME NEW S \in SUBSET Copies, NEW T, S # {}
        PROVE  Prefer(S, T) \in SUBSET Copies /\ Prefer(S, T) # {}
    BY <1>1 DEF Prefer
  <1>2. Copies # {}
    BY DebtAssumption
  <1> DEFINE kept == Prefer(Copies, {c \in Copies : ~d.loc[c].removed})
             present == Prefer(kept, {c \in Copies : d.loc[c].presence = "present"})
             newest == Prefer(present, {d.newest})
             best == Prefer(newest, {Preferred})
  <1>3. kept \in SUBSET Copies /\ kept # {}
    BY <1>1, <1>2
  <1> HIDE DEF kept
  <1>4. present \in SUBSET Copies /\ present # {}
    BY <1>1, <1>3
  <1> HIDE DEF present
  <1>5. newest \in SUBSET Copies /\ newest # {}
    BY <1>1, <1>4
  <1> HIDE DEF newest
  <1>6. best \in SUBSET Copies /\ best # {}
    BY <1>1, <1>5
  <1>7. Primary(d) = CHOOSE c \in best : TRUE
    BY DEF Primary, kept, present, newest
  <1> HIDE DEF best
  <1> QED BY <1>6, <1>7

(* What a write that may close items keeps to: typed rows, the copies as   *)
(* they were, and a complete sweep of a copy that is there behind every    *)
(* item it closes.                                                         *)
ClosesThere(d, e) ==
  /\ e \in Index
  /\ \A src \in Sources : \A i \in d.items[src] :
       i.key \notin KeysOf(e.items[src]) =>
         /\ Observable(e, i.at)
         /\ e.sweep[src].outcome = "complete" /\ e.sweep[src].at = Some(i.at)

(* A write that keeps every item closes none.                              *)
LEMMA KeepingCloses == ASSUME NEW d, NEW e, KeepsItems(d, e) PROVE ClosesThere(d, e)
  BY DEF KeepsItems, ClosesThere, KeysOf

(* An observation whose outcome was asked of the copy's root closes only   *)
(* where the root is.                                                      *)
LEMMA ObserveClosesThere ==
  ASSUME NEW d \in Index, NEW src \in Sources, NEW c \in Copies, NEW proposed \in Outcomes,
         NEW since \in BOOLEAN, NEW seen \in SUBSET KeySet, IsFiniteSet(seen)
  PROVE  ClosesThere(d, Observe(d, src, [outcome |-> OutcomeAtRoot(d, c, proposed),
                                         at |-> Some(c), since |-> since], seen))
  <1> DEFINE sweep == [outcome |-> OutcomeAtRoot(d, c, proposed), at |-> Some(c), since |-> since]
             e == Observe(d, src, sweep, seen)
  <1>1. Some(c) \in Maybe(Copies) /\ Some(c) # None
    BY SomeIsMaybe
  <1>2. sweep \in Sweep
    BY <1>1 DEF Sweep, OutcomeAtRoot, Outcomes
  <1>3. sweep.at # None /\ sweep.at = Some(c)
    BY <1>1
  <1>4. sweep.outcome = "complete" => Observable(d, c)
    BY DEF OutcomeAtRoot
  <1> HIDE DEF sweep
  <1>5. /\ e \in Index /\ e.loc = d.loc /\ e.sweep[src] = sweep
        /\ \A s \in Sources : \A i \in d.items[s] :
             i.key \notin KeysOf(e.items[s]) => s = src /\ MayClose(i, sweep)
    BY <1>2, <1>3, ObserveWrites
  <1> HIDE DEF e
  <1>6. Observable(e, c) <=> Observable(d, c)
    BY <1>5 DEF Observable
  <1>7. ASSUME NEW s \in Sources, NEW i \in d.items[s], i.key \notin KeysOf(e.items[s])
        PROVE  Observable(e, i.at) /\ e.sweep[s].outcome = "complete" /\ e.sweep[s].at = Some(i.at)
    <2>1. s = src /\ sweep.outcome = "complete" /\ Some(i.at) = sweep.at
      BY <1>5, <1>7 DEF MayClose, Comparable
    <2>2. i.at = c
      BY <2>1, <1>3, SomeIsInjective
    <2> QED BY <2>1, <2>2, <1>4, <1>5, <1>6
  <1>8. ClosesThere(d, e)
    BY <1>5, <1>7 DEF ClosesThere
  <1> QED BY <1>8 DEF e, sweep

(* The items of a chunk.                                                   *)
LEMMA BuildItemsCloses ==
  ASSUME NEW d \in Index, NEW c \in Copies, NEW h \in Heads, NEW gates, NEW since \in BOOLEAN
  PROVE  ClosesThere(d, BuildItems(d, c, h, gates, since))
  <1> DEFINE skips == "todo" \in OffSources(d, gates.granted) \/ d.scan = NoScan
  <1>1. CASE skips
    <2>1. BuildItems(d, c, h, gates, since) = d
      BY <1>1 DEF BuildItems
    <2> QED BY <2>1, SameItems, KeepingCloses
  <1>2. CASE ~skips
    <2> DEFINE proposed == SweepFromContent(d, gates)
    <2>1. proposed \in Outcomes
      BY DEF SweepFromContent, Outcomes
    <2>2. BuildItems(d, c, h, gates, since)
            = Observe(d, "todo", [outcome |-> OutcomeAtRoot(d, c, proposed),
                                  at |-> Some(c), since |-> since], Keys(d, h))
      BY <1>2 DEF BuildItems
    <2>3. "todo" \in Sources
      BY DEF Sources
    <2> HIDE DEF proposed
    <2> QED BY <2>1, <2>2, <2>3, KeysAreTyped, ObserveClosesThere
  <1> QED BY <1>1, <1>2

(* The singletons of a settle.                                             *)
LEMMA EvaluateSingletonsCloses ==
  ASSUME NEW d \in Index PROVE ClosesThere(d, EvaluateSingletons(d))
  <1>1. CASE "readme" \in OffSources(d, d.granted)
    <2>1. EvaluateSingletons(d) = d
      BY <1>1 DEF EvaluateSingletons
    <2> QED BY <2>1, SameItems, KeepingCloses
  <1>2. CASE "readme" \notin OffSources(d, d.granted)
    <2> DEFINE c == Primary(d)
               proposed == IF ReadmeReading(d) = "not_read" THEN "unobservable" ELSE "complete"
               seen == IF ReadmeReading(d) = "absent" THEN {<<"readme", 0>>} ELSE {}
    <2>1. c \in Copies
      BY PrimaryIsACopy
    <2>2. proposed \in Outcomes
      BY DEF Outcomes
    <2>3. seen \in SUBSET KeySet /\ IsFiniteSet(seen)
      <3>1. IsFiniteSet({<<"readme", 0>>}) /\ IsFiniteSet({})
        BY FS_Singleton, FS_EmptySet
      <3>2. seen \in {{<<"readme", 0>>}, {}}
        OBVIOUS
      <3>3. {<<"readme", 0>>} \in SUBSET KeySet /\ {} \in SUBSET KeySet
        BY DEF KeySet
      <3> HIDE DEF seen
      <3> QED BY <3>1, <3>2, <3>3
    <2>4. EvaluateSingletons(d)
            = Observe(d, "readme", [outcome |-> OutcomeAtRoot(d, c, proposed),
                                    at |-> Some(c), since |-> TRUE], seen)
      BY <1>2 DEF EvaluateSingletons
    <2>5. "readme" \in Sources
      BY DEF Sources
    <2> HIDE DEF c, proposed, seen
    <2> QED BY <2>1, <2>2, <2>3, <2>4, <2>5, ObserveClosesThere
  <1> QED BY <1>1, <1>2

(* A chunk's reads are cached and counted, and the items are left alone.   *)
LEMMA CommitChunkKeeps ==
  ASSUME NEW d \in Index, NEW h \in Heads, NEW reads \in SUBSET Blobs, NEW consumed \in Nat
  PROVE  KeepsItems(d, CommitChunk(d, h, reads, consumed))
         /\ CommitChunk(d, h, reads, consumed).items = d.items
  <1> DEFINE cached == [d EXCEPT !.cache = @ \cup reads]
             left == Left(d.scan.pending, consumed)
             row == [d.scan EXCEPT !.pending = Some(left), !.complete = @ \/ left = 0]
             counted == [d EXCEPT !.cache = @ \cup reads, !.scan = row]
  <1>1. cached \in Index /\ cached.items = d.items
    BY DEF Index
  <1>2. CASE d.scan.head # Some(h)
    <2>1. CommitChunk(d, h, reads, consumed) = cached
      BY <1>2 DEF CommitChunk
    <2> HIDE DEF cached
    <2> QED BY <1>1, <2>1, SameItems
  <1>3. CASE d.scan.head = Some(h)
    <2>1. Some(h) # None
      BY SomeIsMaybe
    <2>2. d.scan \in ScanRow
      BY <1>3, <2>1 DEF Index, NoScan
    <2>3. left \in Nat
      <3>1. d.scan.pending \in Maybe(Nat)
        BY <2>2 DEF ScanRow
      <3>2. d.scan.pending # None => d.scan.pending[1] \in Nat
        BY <3>1, MaybeHolds
      <3> QED BY <3>2 DEF Left
    <2>4. Some(left) \in Maybe(Nat)
      BY <2>3, SomeIsMaybe
    <2> HIDE DEF left
    <2>5. row \in ScanRow
      BY <2>2, <2>4 DEF ScanRow
    <2>6. CommitChunk(d, h, reads, consumed) = counted
      BY <1>3 DEF CommitChunk, left, Index
    <2> HIDE DEF row
    <2>7. counted \in Index /\ counted.items = d.items
      BY <2>5 DEF Index
    <2> HIDE DEF counted
    <2> QED BY <2>6, <2>7, SameItems
  <1> QED BY <1>2, <1>3

-----------------------------------------------------------------------------
(* The runs.                                                               *)

(* The kinds of run, by the step they are at.                              *)
LEMMA RunsByStep ==
  ASSUME TypeOK, NEW w \in Workers
  PROVE  /\ run[w].step \in Steps => run[w] \in Reading
         /\ Is(w, "settle") => /\ run[w].kind \in {"J1", "J7"} /\ run[w].copy \in Copies
                               /\ run[w].outcome \in Outcome /\ run[w].since \in BOOLEAN
  <1> DEFINE settles == [step : {"settle"}, kind : {"J1", "J7"}, copy : Copies,
                         outcome : Outcome, since : BOOLEAN]
  <1>1. run[w] \in {Free} \cup Reading \cup settles
    BY DEF TypeOK, Run
  <1>2. Free.step \notin Steps \cup {"settle"}
    BY DEF Free, Steps, Treed
  <1>3. ASSUME NEW r \in settles
        PROVE  /\ r.step = "settle" /\ r.kind \in {"J1", "J7"} /\ r.copy \in Copies
               /\ r.outcome \in Outcome /\ r.since \in BOOLEAN
    OBVIOUS
  <1>4. \A r \in Reading : r.step \in Steps
    BY DEF Reading
  <1>5. "settle" \notin Steps
    BY DEF Steps, Treed
  <1> HIDE DEF settles
  <1> QED BY <1>1, <1>2, <1>3, <1>4, <1>5 DEF Is

(* What a run that reads holds.                                            *)
LEMMA ReadingHolds ==
  ASSUME NEW r \in Reading
  PROVE  /\ r.copy \in Copies /\ r.since \in BOOLEAN /\ r.from \in Nat /\ r.gates \in GatesRead
         /\ r.reads \in SUBSET Blobs /\ r.outcome \in Outcome
         /\ r.step \notin {"cursor", "gates", "head"} => r.head \in Heads
         /\ r.step \in Treed => r.tree \in Heads
  BY DEF Reading

(* A run that settles is a run.                                            *)
LEMMA SettlingIsARun ==
  ASSUME NEW kind \in {"J1", "J7"}, NEW c \in Copies, NEW outcome \in Outcome, NEW since \in BOOLEAN
  PROVE  Settling(kind, c, outcome, since) \in Run
  BY DEF Settling, Run

(* The end of a run that reads.                                            *)
LEMMA EndsAreRuns ==
  ASSUME TypeOK, NEW w \in Workers, run[w].step \in Steps, NEW outcome \in Outcome,
         Ends(w, outcome)
  PROVE  run' \in [Workers -> Run]
  <1>1. run[w].copy \in Copies /\ run[w].since \in BOOLEAN
    BY RunsByStep, ReadingHolds
  <1>2. Settling("J7", run[w].copy, outcome, run[w].since) \in Run
    BY <1>1, SettlingIsARun
  <1> QED BY <1>2 DEF Ends, TypeOK

(* The outcomes of a run are outcomes.                                     *)
LEMMA OutcomesAreTyped ==
  {Done, Transient, HardFail} \subseteq Outcome /\ \A n \in Nat : Partial(n) \in Outcome
  BY DEF Outcome, Done, Transient, HardFail, Partial

(* What a chunk reads, and how far it gets.                                *)
LEMMA WindowIsTyped ==
  ASSUME TypeOK, NEW w \in Workers, run[w].step \in Treed
  PROVE  Wanted(w) \in SUBSET Blobs /\ Cardinality(Window(w)) \in Nat
  <1>1. run[w].tree \in Heads
    BY RunsByStep, ReadingHolds DEF Steps
  <1>2. Tree[run[w].tree] \in Seq(Blobs)
    BY <1>1, DebtAssumption
  <1>3. IsFiniteSet(DOMAIN Tree[run[w].tree])
    BY <1>2, FS_Interval
  <1>4. IsFiniteSet(Window(w))
    BY <1>3, FS_Subset DEF Window
  <1>5. Cardinality(Window(w)) \in Nat
    BY <1>4, FS_CardinalityType
  <1>6. Wanted(w) \in SUBSET Blobs
    BY <1>2 DEF Wanted, Window
  <1> QED BY <1>5, <1>6

(* A chunk's write is typed, and closes only where its copy is.            *)
LEMMA ChunkedCloses ==
  ASSUME TypeOK, NEW w \in Workers, Is(w, "commit")
  PROVE  ClosesThere(db, Chunked(w))
  <1> DEFINE r == run[w]
             read == CommitChunk(db, r.head, r.reads, Cardinality(Window(w)))
  <1>1. /\ r.copy \in Copies /\ r.head \in Heads /\ r.tree \in Heads /\ r.since \in BOOLEAN
        /\ r.reads \in SUBSET Blobs
    BY RunsByStep, ReadingHolds DEF Steps, Treed, Is
  <1>2. db \in Index
    BY DEF TypeOK
  <1>3. Cardinality(Window(w)) \in Nat
    BY WindowIsTyped DEF Treed, Is
  <1>4. KeepsItems(db, read) /\ read.items = db.items
    BY <1>1, <1>2, <1>3, CommitChunkKeeps
  <1>5. Chunked(w) = BuildItems(read, r.copy, r.tree, r.gates, r.since)
    BY DEF Chunked
  <1> HIDE DEF read
  <1>6. ClosesThere(read, Chunked(w))
    BY <1>1, <1>4, <1>5, BuildItemsCloses DEF KeepsItems
  <1> QED BY <1>4, <1>6 DEF ClosesThere

(* A settle's first write is of the job row alone.                         *)
LEMMA PutIsTyped ==
  ASSUME TypeOK, NEW w \in Workers, Is(w, "settle")
  PROVE  Put(run[w]) \in Index /\ Put(run[w]).items = db.items
  <1> DEFINE after == CursorAfter(run[w].outcome)
             d == Put(run[w])
  <1>1. run[w].outcome \in Outcome
    BY RunsByStep
  <1>2. db \in Index
    BY DEF TypeOK
  <1>3. after \in Maybe(Nat)
    <2>1. run[w].outcome.is = "partial" => run[w].outcome.cursor \in Nat
      BY <1>1 DEF Outcome, Done, Transient, HardFail
    <2>2. run[w].outcome.is = "partial" => Some(run[w].outcome.cursor) \in Maybe(Nat)
      BY <2>1, SomeIsMaybe
    <2>3. db.cursor \in Maybe(Nat)
      BY <1>2 DEF Index
    <2> QED BY <2>2, <2>3, NoneIsMaybe DEF CursorAfter
  <1>4. d \in {db, [db EXCEPT !.cursor = after]}
    BY DEF Put
  <1> HIDE DEF after
  <1>5. d \in Index /\ d.items = db.items
    BY <1>2, <1>3, <1>4 DEF Index
  <1> QED BY <1>5 DEF d

(* A settle's write: the cursor, then the singletons.                      *)
LEMMA SettledCloses ==
  ASSUME TypeOK, NEW w \in Workers, Is(w, "settle")
  PROVE  ClosesThere(db, EvaluateSingletons(Put(run[w])))
  <1> DEFINE d == Put(run[w])
  <1>1. d \in Index /\ d.items = db.items
    BY PutIsTyped
  <1> HIDE DEF d
  <1>2. ClosesThere(d, EvaluateSingletons(d))
    BY <1>1, EvaluateSingletonsCloses
  <1>3. ClosesThere(db, EvaluateSingletons(d))
    BY <1>1, <1>2 DEF ClosesThere
  <1> QED BY <1>3 DEF d

-----------------------------------------------------------------------------
(* The invariant.                                                          *)

(* The initial states are typed.                                           *)
LEMMA InitTypeOK == ASSUME Init PROVE TypeOK
  <1>1. PICK h \in Heads :
          /\ db = [loc |-> [c \in Copies |-> [presence |-> "present", removed |-> FALSE,
                                             head |-> None]],
                  newest |-> Preferred, scan |-> NoScan, cursor |-> None, cache |-> {},
                  items |-> [src \in Sources |-> {}], sweep |-> [src \in Sources |-> NoSweep],
                  on |-> Sources, granted |-> TRUE, enrolled |-> FALSE, archived |-> FALSE]
          /\ disk = [c \in Copies |-> [place |-> "present", head |-> h]]
    BY DEF Init
  <1>2. None \in Maybe(Heads) /\ None \in Maybe(Copies) /\ None \in Maybe(Nat)
    BY NoneIsMaybe
  <1>3. [presence |-> "present", removed |-> FALSE, head |-> None] \in Location
    BY <1>2 DEF Location, Places
  <1>4. NoSweep \in Sweep
    BY <1>2 DEF NoSweep, Sweep, Outcomes
  <1>5. Preferred \in Copies
    BY DebtAssumption
  <1>6. db \in Index
    <2>1. {} \in Items
      BY FS_EmptySet DEF Items
    <2> QED BY <1>1, <1>2, <1>3, <1>4, <1>5, <2>1 DEF Index
  <1>7. disk \in [Copies -> [place : Places, head : Heads]]
    BY <1>1 DEF Places
  <1>8. queue \subseteq Job /\ run \in [Workers -> Run] /\ paid \subseteq Sources
    BY DEF Init, Run
  <1> QED BY <1>6, <1>7, <1>8 DEF TypeOK

(* A step that only moves a worker on is typed, and closes nothing.        *)
LEMMA MovesOn ==
  ASSUME TypeOK, NEW w \in Workers, NEW r \in Run, run' = [run EXCEPT ![w] = r],
         UNCHANGED <<db, disk, paid>>, queue' \subseteq queue
  PROVE  TypeOK' /\ ClosesThere(db, db')
  <1>1. ClosesThere(db, db)
    BY SameItems, KeepingCloses DEF TypeOK
  <1>2. run' \in [Workers -> Run]
    BY DEF TypeOK
  <1> QED BY <1>1, <1>2 DEF TypeOK

(* So is one that ends a run.                                              *)
LEMMA EndsAreTyped ==
  ASSUME TypeOK, NEW w \in Workers, run[w].step \in Steps, NEW outcome \in Outcome,
         Ends(w, outcome), UNCHANGED <<db, disk, paid>>, queue' \subseteq queue
  PROVE  TypeOK' /\ ClosesThere(db, db')
  <1>1. run[w].copy \in Copies /\ run[w].since \in BOOLEAN
    BY RunsByStep, ReadingHolds
  <1>2. Settling("J7", run[w].copy, outcome, run[w].since) \in Run
    BY <1>1, SettlingIsARun
  <1> QED BY <1>2, MovesOn DEF Ends

(* What a transaction records is typed.                                    *)
LEMMA EarnsAreTyped ==
  ASSUME TypeOK, Earns \/ NothingEarned PROVE paid' \subseteq Sources
  BY DEF TypeOK, Earns, NothingEarned, Pays

(* A worker's step keeps the types, and closes only where the copy is.     *)
LEMMA WorksStep ==
  ASSUME TypeOK, NEW w \in Workers, Works(w)
  PROVE  TypeOK' /\ ClosesThere(db, db')
  <1>1. /\ db \in Index /\ disk \in [Copies -> [place : Places, head : Heads]]
        /\ queue \subseteq Job /\ run \in [Workers -> Run] /\ paid \subseteq Sources
    BY DEF TypeOK
  <1>2. ClosesThere(db, db)
    BY <1>1, SameItems, KeepingCloses
  <1>3. TRUE \in BOOLEAN
    OBVIOUS
  <1>4. ASSUME NEW c \in Copies, J1(w, c) PROVE TypeOK' /\ ClosesThere(db, db')
    <2>1. queue' \subseteq Job /\ disk' = disk /\ paid' = paid
      BY <1>1, <1>4 DEF J1, NothingEarned
    <2>2. CASE Here(c)
      <3>1. disk[c].head \in Heads
        BY <1>1
      <3>2. Some(disk[c].head) \in Maybe(Heads)
        BY <3>1, SomeIsMaybe
      <3> DEFINE head == Some(disk[c].head)
      <3>3. db' = [db EXCEPT !.loc[c].head = head]
        BY <1>4, <2>2 DEF J1
      <3> HIDE DEF head
      <3>4. db' \in Index /\ db'.items = db.items
        BY <1>1, <3>2, <3>3, ZenonT(30) DEF Index, Location, head
      <3>5. Settling("J1", c, Done, TRUE) \in Run
        BY OutcomesAreTyped, SettlingIsARun
      <3>6. run' \in [Workers -> Run]
        BY <1>1, <1>4, <2>2, <3>5 DEF J1
      <3> QED BY <1>1, <2>1, <3>4, <3>6, SameItems, KeepingCloses DEF TypeOK
    <2>3. CASE ~Here(c)
      <3>1. Settling("J1", c, HardFail, TRUE) \in Run
        BY OutcomesAreTyped, SettlingIsARun
      <3>2. run' \in [Workers -> Run] /\ db' = db
        BY <1>1, <1>4, <2>3, <3>1 DEF J1
      <3> QED BY <1>1, <1>2, <2>1, <3>2 DEF TypeOK
    <2> QED BY <2>2, <2>3
  <1>5. ASSUME NEW c \in Copies, J7Begins(w, c) PROVE TypeOK' /\ ClosesThere(db, db')
    <2>1. Started(c) \in Run
      BY OutcomesAreTyped DEF Started, Run, Reading, Steps, Treed, GatesRead
    <2> QED BY <1>5, <2>1, MovesOn DEF J7Begins, NothingEarned
  <1>6. ASSUME NEW c \in Copies, NEW k \in {"J1", "J7"}, TakeStale(w, <<k, c>>)
        PROVE  TypeOK' /\ ClosesThere(db, db')
    BY <1>1, <1>2, <1>6 DEF TakeStale, NothingEarned, TypeOK
  <1>7. ASSUME J7ReadsCursor(w) PROVE TypeOK' /\ ClosesThere(db, db')
    <2> DEFINE r == [run[w] EXCEPT !.step = "gates", !.from = CursorOrdinal]
    <2>1. run[w] \in Reading
      BY <1>7, RunsByStep DEF J7ReadsCursor, Is, Steps
    <2>2. CursorOrdinal \in Nat
      <3>1. db.cursor \in Maybe(Nat)
        BY <1>1 DEF Index
      <3> QED BY <3>1, MaybeHolds DEF CursorOrdinal
    <2>3. r \in Reading
      BY <2>1, <2>2 DEF Reading, Steps, Treed
    <2> QED BY <1>7, <2>3, MovesOn DEF J7ReadsCursor, OnlyReads, NothingEarned, Run
  <1>8. ASSUME J7ReadsGates(w) PROVE TypeOK' /\ ClosesThere(db, db')
    <2> DEFINE r == [run[w] EXCEPT !.step = "head", !.gates = Gates]
    <2>1. run[w] \in Reading
      BY <1>8, RunsByStep DEF J7ReadsGates, Is, Steps
    <2>2. Gates \in GatesRead
      BY <1>1 DEF Gates, GatesRead, Suppressed, Index
    <2>3. r \in Reading
      BY <2>1, <2>2 DEF Reading, Steps, Treed
    <2> QED BY <1>8, <2>3, MovesOn DEF J7ReadsGates, OnlyReads, NothingEarned, Run
  <1>9. ASSUME J7ReadsHead(w) PROVE TypeOK' /\ ClosesThere(db, db')
    <2> DEFINE h == db.loc[run[w].copy].head
               moved == db.scan # NoScan /\ db.scan.head # h
               next == IF CompleteAt(h) THEN "withdrawn" ELSE "tree"
               from == IF moved THEN 0 ELSE run[w].from
               r == [run[w] EXCEPT !.step = next, !.head = h[1], !.from = from]
    <2>1. run[w] \in Reading /\ run[w].step \in Steps
      BY <1>9, RunsByStep DEF J7ReadsHead, Is, Steps
    <2>2. run[w].copy \in Copies /\ run[w].from \in Nat
      BY <2>1, ReadingHolds
    <2>3. Ends(w, Done) \/ (h # None /\ run' = [run EXCEPT ![w] = r])
      BY <1>9, <2>1 DEF J7ReadsHead, Reading
    <2>4. UNCHANGED <<db, disk, paid, queue>>
      BY <1>9 DEF J7ReadsHead, OnlyReads, NothingEarned
    <2>5. ASSUME h # None PROVE r \in Run
      <3>1. h \in Maybe(Heads)
        BY <1>1, <2>2 DEF Index, Location
      <3>2. h[1] \in Heads
        BY <2>5, <3>1, MaybeHolds
      <3>3. next \in {"withdrawn", "tree"} /\ from \in Nat
        BY <2>2
      <3> HIDE DEF next, from, h
      <3>4. r \in Reading
        BY <2>1, <3>2, <3>3 DEF Reading, Steps, Treed
      <3> QED BY <3>4 DEF Run
    <2> HIDE DEF r, h
    <2> QED BY <2>1, <2>3, <2>4, <2>5, MovesOn, EndsAreTyped, OutcomesAreTyped
  <1>10. ASSUME J7ReadsSweep(w) PROVE TypeOK' /\ ClosesThere(db, db')
    <2> DEFINE r == [run[w] EXCEPT !.step = "restart"]
    <2>1. run[w] \in Reading /\ Is(w, "withdrawn") /\ run[w].step \in Steps
      BY <1>10, RunsByStep DEF J7ReadsSweep, Is, Steps
    <2>2. r \in Run
      BY <2>1 DEF Reading, Run, Is, Steps, Treed
    <2>3. Ends(w, Done) \/ run' = [run EXCEPT ![w] = r]
      BY <1>10 DEF J7ReadsSweep
    <2>4. UNCHANGED <<db, disk, paid, queue>>
      BY <1>10 DEF J7ReadsSweep, OnlyReads, NothingEarned
    <2> HIDE DEF r
    <2> QED BY <2>1, <2>2, <2>3, <2>4, MovesOn, EndsAreTyped, OutcomesAreTyped
  <1>11. ASSUME J7Restarts(w) PROVE TypeOK' /\ ClosesThere(db, db')
    <2> DEFINE r == [run[w] EXCEPT !.step = "tree", !.from = 0]
    <2>1. run[w] \in Reading /\ Is(w, "restart")
      BY <1>11, RunsByStep DEF J7Restarts, Is, Steps
    <2>2. r \in Run
      BY <2>1 DEF Reading, Run, Is, Steps, Treed
    <2>3. run' \in [Workers -> Run]
      BY <1>1, <1>11, <2>2 DEF J7Restarts
    <2>4. KeepsItems(db, db')
      BY <1>1, <1>11, RestartScanKeeps DEF J7Restarts
    <2> QED BY <1>1, <1>11, <2>3, <2>4, KeepingCloses
            DEF J7Restarts, NothingEarned, TypeOK, KeepsItems
  <1>12. ASSUME J7ReadsTree(w) PROVE TypeOK' /\ ClosesThere(db, db')
    <2> DEFINE h == disk[run[w].copy].head
               r == [run[w] EXCEPT !.step = "enumerate", !.tree = h]
    <2>1. run[w] \in Reading /\ Is(w, "tree")
      BY <1>12, RunsByStep DEF J7ReadsTree, Is, Steps
    <2>2. h \in Heads
      BY <1>1, <2>1, ReadingHolds
    <2> HIDE DEF h
    <2>3. r \in Run
      BY <2>1, <2>2 DEF Reading, Run, Is, Steps, Treed
    <2> QED BY <1>12, <2>3, MovesOn DEF J7ReadsTree, OnlyReads, NothingEarned, h
  <1>13. ASSUME J7TreeFails(w) PROVE TypeOK' /\ ClosesThere(db, db')
    <2>1. run[w] \in Reading /\ Is(w, "tree")
      BY <1>13, RunsByStep DEF J7TreeFails, Is, Steps
    <2>2. PICK outcome \in {HardFail, Transient} :
            run' = [run EXCEPT ![w] = [run[w] EXCEPT !.step = "not_read", !.outcome = outcome]]
      BY <1>13 DEF J7TreeFails
    <2> DEFINE r == [run[w] EXCEPT !.step = "not_read", !.outcome = outcome]
    <2>3. r \in Run
      <3>1. outcome \in Outcome
        BY OutcomesAreTyped
      <3> QED BY <2>1, <3>1 DEF Reading, Run, Is, Steps, Treed
    <2> QED BY <1>13, <2>2, <2>3, MovesOn DEF J7TreeFails, NothingEarned
  <1>14. ASSUME J7NotRead(w) PROVE TypeOK' /\ ClosesThere(db, db')
    <2>1. run[w] \in Reading /\ Is(w, "not_read") /\ run[w].step \in Steps
      BY <1>14, RunsByStep DEF J7NotRead, Is, Steps
    <2>2. run[w].head \in Heads /\ run[w].outcome \in Outcome
      BY <2>1, ReadingHolds DEF Is
    <2>3. KeepsItems(db, db')
      BY <1>1, <1>14, <2>2, NoneIsMaybe, WriteEnumerationKeeps DEF J7NotRead
    <2>4. run' \in [Workers -> Run]
      BY <1>14, <2>1, <2>2, EndsAreRuns DEF J7NotRead
    <2> QED BY <1>1, <1>14, <2>3, <2>4, KeepingCloses DEF J7NotRead, NothingEarned, TypeOK, KeepsItems
  <1>15. ASSUME J7Enumerates(w) PROVE TypeOK' /\ ClosesThere(db, db')
    <2> DEFINE h == run[w].tree
               readme == IF h \in HasReadme THEN "present" ELSE "absent"
               next == IF Window(w) = {} THEN "commit" ELSE "cache"
               r == [run[w] EXCEPT !.step = next]
    <2>1. run[w] \in Reading /\ Is(w, "enumerate") /\ run[w].step \in Treed
      BY <1>15, RunsByStep DEF J7Enumerates, Is, Steps, Treed
    <2>2. h \in Heads /\ run[w].head \in Heads
      BY <2>1, ReadingHolds DEF Is
    <2>3. Len(Tree[h]) \in Nat
      BY <2>2, DebtAssumption
    <2>4. Some(Len(Tree[h])) \in Maybe(Nat)
      BY <2>3, SomeIsMaybe
    <2>5. /\ db' = WriteEnumeration(db, run[w].head, readme, Some(Len(Tree[h])))
          /\ run' = [run EXCEPT ![w] = r]
          /\ UNCHANGED <<disk, queue, paid>>
      BY <1>15 DEF J7Enumerates, NothingEarned
    <2>6. readme \in {"present", "absent", "not_read"} /\ next \in {"commit", "cache"}
      OBVIOUS
    <2> HIDE DEF readme, next, h
    <2>7. r \in Run
      BY <2>1, <2>6 DEF Reading, Run, Is, Steps, Treed
    <2>8. KeepsItems(db, db')
      BY <1>1, <2>2, <2>4, <2>5, <2>6, WriteEnumerationKeeps
    <2>9. run' \in [Workers -> Run]
      BY <1>1, <2>5, <2>7
    <2> QED BY <1>1, <2>5, <2>8, <2>9, KeepingCloses DEF TypeOK, KeepsItems
  <1>16. ASSUME J7ReadsCache(w) PROVE TypeOK' /\ ClosesThere(db, db')
    <2> DEFINE r == [run[w] EXCEPT !.step = "blobs", !.reads = Wanted(w)]
    <2>1. run[w] \in Reading /\ Is(w, "cache") /\ run[w].step \in Steps \cap Treed
      BY <1>16, RunsByStep DEF J7ReadsCache, Is, Steps, Treed
    <2>2. Wanted(w) \in SUBSET Blobs
      BY <2>1, WindowIsTyped
    <2>3. r \in Run
      BY <2>1, <2>2 DEF Reading, Run, Is, Steps, Treed
    <2>4. Ends(w, Done) \/ run' = [run EXCEPT ![w] = r]
      BY <1>16 DEF J7ReadsCache
    <2>5. UNCHANGED <<db, disk, paid, queue>>
      BY <1>16 DEF J7ReadsCache, OnlyReads, NothingEarned
    <2> HIDE DEF r
    <2> QED BY <2>1, <2>3, <2>4, <2>5, MovesOn, EndsAreTyped, OutcomesAreTyped
  <1>17. ASSUME J7ReadsBlobs(w) PROVE TypeOK' /\ ClosesThere(db, db')
    <2> DEFINE r == [run[w] EXCEPT !.step = "commit"]
    <2>1. run[w] \in Reading /\ Is(w, "blobs")
      BY <1>17, RunsByStep DEF J7ReadsBlobs, Is, Steps, Treed
    <2>2. r \in Run
      BY <2>1 DEF Reading, Run, Is, Steps, Treed
    <2> QED BY <1>17, <2>2, MovesOn DEF J7ReadsBlobs, OnlyReads, NothingEarned
  <1>18. ASSUME J7BlobsFail(w) \/ J7Refused(w) PROVE TypeOK' /\ ClosesThere(db, db')
    <2>1. run[w].step \in Steps /\ UNCHANGED <<db, disk, queue, paid>>
      BY <1>18 DEF J7BlobsFail, J7Refused, NothingEarned, Is, Steps, Treed
    <2>2. Ends(w, HardFail) \/ Ends(w, Transient)
      BY <1>18 DEF J7BlobsFail, J7Refused
    <2> QED BY <2>1, <2>2, EndsAreTyped, OutcomesAreTyped
  <1>19. ASSUME J7Commits(w) PROVE TypeOK' /\ ClosesThere(db, db')
    <2>1. Is(w, "commit") /\ db' = Chunked(w) /\ UNCHANGED <<disk, queue>>
      BY <1>19 DEF J7Commits
    <2>2. ClosesThere(db, db')
      BY <2>1, ChunkedCloses
    <2>3. run[w].step \in Steps /\ run[w].step \in Treed
      BY <2>1 DEF Is, Steps, Treed
    <2> DEFINE reached == run[w].from + Cardinality(Window(w))
    <2>4. reached \in Nat
      BY <2>3, WindowIsTyped, RunsByStep, ReadingHolds
    <2>5. Finish(db', reached) \in Outcome /\ Ends(w, Finish(db', reached))
      BY <1>19, <2>4, OutcomesAreTyped DEF Finish, J7Commits
    <2>6. run' \in [Workers -> Run]
      BY <2>3, <2>5, EndsAreRuns
    <2>7. paid' \subseteq Sources
      BY <1>19, EarnsAreTyped DEF J7Commits
    <2> QED BY <1>1, <2>1, <2>2, <2>6, <2>7 DEF TypeOK, ClosesThere
  <1>20. ASSUME Settle(w) PROVE TypeOK' /\ ClosesThere(db, db')
    <2>1. Is(w, "settle") /\ run[w].kind \in {"J1", "J7"} /\ run[w].copy \in Copies
      BY <1>20, RunsByStep DEF Settle
    <2>2. ClosesThere(db, db')
      BY <1>2, <1>20, <2>1, SettledCloses DEF Settle
    <2>3. FollowUps(run[w]) \subseteq Job
      BY <2>1 DEF FollowUps, Job
    <2>4. queue' \subseteq Job /\ disk' = disk
      BY <1>1, <1>20, <2>3 DEF Settle
    <2>5. run' \in [Workers -> Run]
      BY <1>1, <1>20 DEF Settle, Run
    <2>6. paid' \subseteq Sources
      BY <1>20, EarnsAreTyped DEF Settle
    <2> QED BY <1>1, <2>2, <2>4, <2>5, <2>6 DEF TypeOK, ClosesThere
  <1> QED BY <1>4, <1>5, <1>6, <1>7, <1>8, <1>9, <1>10, <1>11, <1>12, <1>13, <1>14, <1>15, <1>16,
             <1>17, <1>18, <1>19, <1>20 DEF Works

LEMMA FoundIsTyped ==
  ASSUME NEW d \in Index, NEW c \in Copies
  PROVE  LET found == [d EXCEPT !.loc[c].presence = "present", !.loc[c].removed = FALSE]
         IN  found \in Index /\ found.items = d.items
  <1> DEFINE at == [[d.loc[c] EXCEPT !.presence = "present"] EXCEPT !.removed = FALSE]
             loc == [d.loc EXCEPT ![c] = at]
             found == [d EXCEPT !.loc[c].presence = "present", !.loc[c].removed = FALSE]
  <1>1. d.loc \in [Copies -> Location]
    BY DEF Index
  <1>2. at \in Location
    BY <1>1 DEF Location, Places
  <1>3. found = [d EXCEPT !.loc = loc]
    BY <1>1 DEF Index, Location
  <1> HIDE DEF at
  <1>4. loc \in [Copies -> Location]
    BY <1>1, <1>2
  <1> HIDE DEF loc, found
  <1>5. found \in Index /\ found.items = d.items
    BY <1>3, <1>4 DEF Index
  <1> QED BY <1>5 DEF found

(* An uninstall's mark on the copy, likewise.                              *)
LEMMA RemovedIsTyped ==
  ASSUME NEW d \in Index, NEW c \in Copies
  PROVE  LET removed == [d EXCEPT !.loc[c].removed = TRUE]
         IN  removed \in Index /\ removed.items = d.items
  <1> DEFINE at == [d.loc[c] EXCEPT !.removed = TRUE]
             loc == [d.loc EXCEPT ![c] = at]
             removed == [d EXCEPT !.loc[c].removed = TRUE]
  <1>1. d.loc \in [Copies -> Location]
    BY DEF Index
  <1>2. at \in Location
    BY <1>1 DEF Location
  <1>3. removed = [d EXCEPT !.loc = loc]
    BY <1>1 DEF Index, Location
  <1> HIDE DEF at
  <1>4. loc \in [Copies -> Location]
    BY <1>1, <1>2
  <1> HIDE DEF loc, removed
  <1>5. removed \in Index /\ removed.items = d.items
    BY <1>3, <1>4 DEF Index
  <1> QED BY <1>5 DEF removed

(* So do the walk, the user, the world and a crash: these close nothing.   *)
LEMMA OthersStep ==
  ASSUME TypeOK, Step, \A w \in Workers : ~Works(w)
  PROVE  TypeOK' /\ KeepsItems(db, db')
  <1>1. /\ db \in Index /\ disk \in [Copies -> [place : Places, head : Heads]]
        /\ queue \subseteq Job /\ run \in [Workers -> Run]
    BY DEF TypeOK
  <1>13. paid' \subseteq Sources
    BY DEF Step, OpenPage, SetGrant, SetArchived, Crash, SetSwitch, HandOff, ApplyPresence,
           Uninstall, Commit, Edited, Leaves, Returns, NothingEarned, TypeOK
  <1>2. KeepsItems(db, db)
    BY <1>1, SameItems
  <1>3. ASSUME NEW c \in Copies, HandOff(c) PROVE TypeOK' /\ KeepsItems(db, db')
    <2> DEFINE found == [db EXCEPT !.loc[c].presence = "present", !.loc[c].removed = FALSE]
    <2>1. found \in Index /\ found.items = db.items
      BY <1>1, FoundIsTyped
    <2>2. db' = found \/ db' = MarkRootUnobserved(found, c)
      BY <1>3 DEF HandOff
    <2> HIDE DEF found
    <2>3. KeepsItems(found, MarkRootUnobserved(found, c)) /\ KeepsItems(found, found)
      BY <2>1, MarkRootUnobservedKeeps, SameItems
    <2>4. KeepsItems(db, db')
      BY <2>1, <2>2, <2>3 DEF KeepsItems
    <2>5. queue' \subseteq Job /\ UNCHANGED <<disk, run>>
      BY <1>1, <1>3 DEF HandOff, Job
    <2> QED BY <1>1, <1>13, <2>4, <2>5 DEF TypeOK, KeepsItems
  <1>4. ASSUME NEW c \in Copies, ApplyPresence(c) PROVE TypeOK' /\ KeepsItems(db, db')
    <2>1. disk[c].place \in Places
      BY <1>1
    <2>2. db' = [db EXCEPT !.loc[c].presence = disk[c].place] /\ UNCHANGED <<disk, queue, run>>
      BY <1>4 DEF ApplyPresence
    <2>3. db' \in Index /\ db'.items = db.items
      BY <1>1, <2>1, <2>2, ZenonT(30) DEF Index, Location
    <2> QED BY <1>1, <1>13, <2>2, <2>3, SameItems DEF TypeOK
  <1>5. ASSUME OpenPage PROVE TypeOK' /\ KeepsItems(db, db')
    <2>1. KeepsItems(db, db') /\ disk' = disk
      BY <1>1, <1>5, StampKeeps DEF OpenPage
    <2>2. Primary(db) \in Copies
      BY <1>1, PrimaryIsACopy
    <2>3. queue' \subseteq Job
      BY <1>1, <1>5, <2>2 DEF OpenPage, Job
    <2>4. \A w \in Workers : ~Is(w, "free") => [run[w] EXCEPT !.since = FALSE] \in Run
      <3> DEFINE settles == [step : {"settle"}, kind : {"J1", "J7"}, copy : Copies,
                             outcome : Outcome, since : BOOLEAN]
      <3>1. \A r \in Reading : [r EXCEPT !.since = FALSE] \in Reading
        BY DEF Reading
      <3>2. \A r \in settles : [r EXCEPT !.since = FALSE] \in settles
        OBVIOUS
      <3>3. Run = {Free} \cup Reading \cup settles
        BY DEF Run
      <3> HIDE DEF settles
      <3>4. \A w \in Workers : ~Is(w, "free") => run[w] \in Reading \cup settles
        BY <1>1, <3>3 DEF Is, Free
      <3> QED BY <3>1, <3>2, <3>3, <3>4
    <2>5. run' \in [Workers -> Run]
      BY <1>1, <1>5, <2>4 DEF OpenPage
    <2> QED BY <1>1, <1>13, <2>1, <2>3, <2>5 DEF TypeOK, KeepsItems
  <1>6. ASSUME NEW c \in Copies, Uninstall(c) PROVE TypeOK' /\ KeepsItems(db, db')
    <2> DEFINE removed == [db EXCEPT !.loc[c].removed = TRUE]
    <2>1. removed \in Index /\ removed.items = db.items
      BY <1>1, RemovedIsTyped
    <2>2. db' = MarkUnverified(removed) /\ UNCHANGED <<queue, run>>
      BY <1>6 DEF Uninstall
    <2> HIDE DEF removed
    <2>3. KeepsItems(db, db')
      BY <2>1, <2>2, MarkUnverifiedKeeps DEF KeepsItems
    <2>4. disk' \in [Copies -> [place : Places, head : Heads]]
      BY <1>1, <1>6 DEF Uninstall, Places
    <2> QED BY <1>1, <1>13, <2>2, <2>3, <2>4 DEF TypeOK, KeepsItems
  <1>7. ASSUME SetGrant PROVE TypeOK' /\ KeepsItems(db, db')
    <2>1. [db EXCEPT !.granted = TRUE] \in Index /\ [db EXCEPT !.granted = TRUE].items = db.items
      BY <1>1 DEF Index
    <2>2. KeepsItems(db, [db EXCEPT !.granted = TRUE])
      BY <2>1, SameItems
    <2>3. KeepsItems(db, db')
      BY <1>1, <1>7, <2>2, RevokeKeeps DEF SetGrant
    <2> QED BY <1>1, <1>13, <1>7, <2>3 DEF SetGrant, TypeOK, KeepsItems
  <1>8. ASSUME NEW src \in Sources, SetSwitch(src) PROVE TypeOK' /\ KeepsItems(db, db')
    <2> DEFINE on == [db EXCEPT !.on = @ \cup {src}]
    <2>1. on \in Index /\ on.items = db.items
      BY <1>1 DEF Index
    <2>2. KeepsItems(db, on)
      BY <2>1, SameItems
    <2>3. KeepsItems(db, db')
      BY <1>1, <1>8, <2>2, SwitchOffKeeps DEF SetSwitch
    <2> QED BY <1>1, <1>13, <1>8, <2>3 DEF SetSwitch, TypeOK, KeepsItems
  <1>9. ASSUME SetArchived PROVE TypeOK' /\ KeepsItems(db, db')
    <2>1. db' = [db EXCEPT !.archived = ~@] /\ UNCHANGED <<disk, queue, run>>
      BY <1>9 DEF SetArchived
    <2>2. db' \in Index /\ db'.items = db.items
      BY <1>1, <2>1 DEF Index
    <2> QED BY <1>1, <1>13, <2>1, <2>2, SameItems DEF TypeOK
  <1>10. ASSUME NEW c \in Copies, Commit(c) \/ Leaves(c) \/ Returns(c)
         PROVE  TypeOK' /\ KeepsItems(db, db')
    <2>1. disk' \in [Copies -> [place : Places, head : Heads]]
      BY <1>1, <1>10 DEF Commit, Leaves, Returns, Places
    <2>2. UNCHANGED <<db, queue, run>>
      BY <1>10 DEF Commit, Leaves, Returns
    <2> QED BY <1>1, <1>13, <1>2, <2>1, <2>2 DEF TypeOK
  <1>11. ASSUME NEW c \in Copies, Edited(c) PROVE TypeOK' /\ KeepsItems(db, db')
    <2>1. db' = [db EXCEPT !.newest = c] /\ UNCHANGED <<disk, queue, run>>
      BY <1>11 DEF Edited
    <2>2. db' \in Index /\ db'.items = db.items
      BY <1>1, <2>1 DEF Index
    <2> QED BY <1>1, <1>13, <2>1, <2>2, SameItems DEF TypeOK
  <1>12. ASSUME Crash PROVE TypeOK' /\ KeepsItems(db, db')
    <2>1. queue' \subseteq Job /\ UNCHANGED <<db, disk>>
      BY <1>12 DEF Crash
    <2>2. run' \in [Workers -> Run]
      BY <1>12 DEF Crash, Run
    <2> QED BY <1>1, <1>13, <1>2, <2>1, <2>2 DEF TypeOK
  <1> QED BY <1>3, <1>4, <1>5, <1>6, <1>7, <1>8, <1>9, <1>10, <1>11, <1>12 DEF Step

(* Every step keeps the types, and closes an item only where its copy is.  *)
LEMMA NextStep ==
  ASSUME TypeOK, [Next]_vars PROVE TypeOK' /\ ClosesThere(db, db')
  <1>1. CASE UNCHANGED vars
    <2>1. ClosesThere(db, db)
      BY SameItems, KeepingCloses DEF TypeOK
    <2> QED BY <1>1, <2>1 DEF vars, TypeOK
  <1>2. CASE Next
    <2>1. Step
      BY <1>2 DEF Next
    <2>2. CASE \E w \in Workers : Works(w)
      BY <2>2, WorksStep
    <2>3. CASE \A w \in Workers : ~Works(w)
      BY <2>1, <2>3, OthersStep, KeepingCloses
    <2> QED BY <2>2, <2>3
  <1> QED BY <1>1, <1>2

(* The index, the copies, the queue and the runs keep to their types,      *)
(* whatever is lost, refused, moved, archived or switched between steps.   *)
THEOREM SpecTypeOK == Spec => []TypeOK
  <1>1. Init => TypeOK
    BY InitTypeOK
  <1>2. TypeOK /\ [Next]_vars => TypeOK'
    BY NextStep
  <1> QED BY <1>1, <1>2, PTL DEF Spec

(* For any copies, heads, trees and workers, and whatever happens between  *)
(* a run's reading and its write: an item is closed only by a complete     *)
(* sweep of the copy it was seen at, present and not removed.              *)
THEOREM SpecNothingClosesAway == Spec => NothingClosesAway
  <1>1. TypeOK /\ [Next]_vars =>
          [\A src \in Sources : \A i \in db.items[src] :
             i.key \in Closed(src) =>
               /\ Observable(db', i.at)
               /\ db'.sweep[src].outcome = "complete" /\ db'.sweep[src].at = Some(i.at)]_vars
    <2> SUFFICES ASSUME TypeOK, [Next]_vars, NEW src \in Sources, NEW i \in db.items[src],
                        i.key \in Closed(src)
                 PROVE  /\ Observable(db', i.at)
                        /\ db'.sweep[src].outcome = "complete" /\ db'.sweep[src].at = Some(i.at)
      OBVIOUS
    <2>1. ClosesThere(db, db')
      BY NextStep
    <2>2. i.key \notin KeysOf(db'.items[src])
      BY DEF Closed, ClosedKeys, KeysOf
    <2> QED BY <2>1, <2>2 DEF ClosesThere
  <1> QED BY <1>1, SpecTypeOK, PTL DEF Spec, NothingClosesAway

-----------------------------------------------------------------------------
(* The count of a scan, and what the cache holds of it.                    *)

(* Every blob of a head is in the cache.                                   *)
AllCached(d, h) == \A i \in DOMAIN Tree[h] : Tree[h][i] \in d.cache

Reached(h, n) == IF n < Len(Tree[h]) THEN n ELSE Len(Tree[h])

(* The row of a head is honest for a scan that stands at n: of the entries *)
(* before n, the last ones that it has counted down are in the cache.      *)
Counted(d, h, n) ==
  LET start == d.scan.pending[1] + Reached(h, n) - Len(Tree[h])
  IN \/ AllCached(d, h)
     \/ /\ start >= 0
        /\ \A i \in DOMAIN Tree[h] : start < i /\ i <= Reached(h, n) => Tree[h][i] \in d.cache

Pending(d) == d.scan.pending # None /\ d.scan.pending[1] \in Nat

(* The tree of a head is a sequence of blobs.                              *)
LEMMA TreesAreTyped ==
  ASSUME NEW h \in Heads
  PROVE  /\ Len(Tree[h]) \in Nat /\ DOMAIN Tree[h] = 1 .. Len(Tree[h])
         /\ \A i \in DOMAIN Tree[h] : Tree[h][i] \in Blobs
  BY DebtAssumption

(* A row that counts down to nothing has everything in the cache.          *)
LEMMA NothingLeft ==
  ASSUME NEW d, NEW h \in Heads, NEW n \in Nat, Counted(d, h, n), d.scan.pending[1] = 0
  PROVE  AllCached(d, h)
  <1>1. Len(Tree[h]) \in Nat /\ DOMAIN Tree[h] = 1 .. Len(Tree[h])
    BY TreesAreTyped
  <1> SUFFICES ASSUME ~AllCached(d, h) PROVE FALSE
    OBVIOUS
  <1>2. Reached(h, n) \in Nat /\ Reached(h, n) <= Len(Tree[h])
    BY <1>1 DEF Reached
  <1>5. 0 + Reached(h, n) - Len(Tree[h]) >= 0
    BY DEF Counted
  <1>3. Reached(h, n) = Len(Tree[h])
    BY <1>1, <1>2, <1>5
  <1>4. \A i \in DOMAIN Tree[h] : 0 < i /\ i <= Len(Tree[h]) => Tree[h][i] \in d.cache
    BY <1>1, <1>3 DEF Counted
  <1> QED BY <1>1, <1>4 DEF AllCached

(* A row that has counted nothing down is honest wherever the scan stands. *)
LEMMA FreshIsCounted ==
  ASSUME NEW d, NEW h \in Heads, NEW n \in Nat, d.scan.pending = Some(Len(Tree[h]))
  PROVE  Counted(d, h, n)
  <1>1. d.scan.pending[1] = Len(Tree[h])
    BY DEF Some
  <1> QED BY <1>1, TreesAreTyped DEF Counted, Reached

(* What a run at n reads next.                                             *)
WindowOf(h, n) == {i \in DOMAIN Tree[h] : n < i /\ i <= n + Chunk}

(* It is what is left of the tree, up to a chunk.                          *)
LEMMA WindowSize ==
  ASSUME NEW h \in Heads, NEW n \in Nat
  PROVE  /\ Cardinality(WindowOf(h, n)) \in Nat
         /\ n >= Len(Tree[h]) => Cardinality(WindowOf(h, n)) = 0
         /\ n < Len(Tree[h]) =>
              /\ n + Cardinality(WindowOf(h, n)) <= Len(Tree[h])
              /\ \A i \in DOMAIN Tree[h] :
                   n < i /\ i <= n + Cardinality(WindowOf(h, n)) => i \in WindowOf(h, n)
  <1> DEFINE last == Reached(h, n + Chunk)
  <1>1. /\ Len(Tree[h]) \in Nat /\ DOMAIN Tree[h] = 1 .. Len(Tree[h])
        /\ Chunk \in Nat \ {0}
    BY TreesAreTyped, ScanAssumption
  <1>2. last \in Nat /\ last <= n + Chunk /\ last <= Len(Tree[h])
    BY <1>1 DEF Reached
  <1>3. WindowOf(h, n) = (n + 1) .. last
    BY <1>1 DEF WindowOf, Reached
  <1>4. Cardinality(WindowOf(h, n)) = IF n + 1 > last THEN 0 ELSE last - n
    <2>1. n + 1 \in Int /\ last \in Int
      BY <1>2
    <2> HIDE DEF last
    <2>2. Cardinality((n + 1) .. last) = IF n + 1 > last THEN 0 ELSE last - (n + 1) + 1
      BY <2>1, FS_Interval
    <2> QED BY <1>2, <1>3, <2>2
  <1>5. n < Len(Tree[h]) => n + 1 <= last
    BY <1>1 DEF Reached
  <1>6. n >= Len(Tree[h]) => n + 1 > last
    BY <1>2, <1>1
  <1> HIDE DEF last
  <1> QED BY <1>1, <1>2, <1>3, <1>4, <1>5, <1>6

(* A chunk's write, at the head the row is of, keeps the row honest.       *)
LEMMA ChunkCounts ==
  ASSUME NEW d \in Index, NEW h \in Heads, NEW n \in Nat, d.scan.head = Some(h), Pending(d),
         Counted(d, h, n),
         NEW reads \in SUBSET Blobs, \A i \in WindowOf(h, n) : Tree[h][i] \in d.cache \cup reads
  PROVE  LET k == Cardinality(WindowOf(h, n))
             e == CommitChunk(d, h, reads, k)
         IN /\ Counted(e, h, n + k)
            /\ Pending(e) /\ e.scan.head = Some(h) /\ e.scan.total = d.scan.total
            /\ e.scan.pending = Some(Left(d.scan.pending, k))
            /\ e.scan.complete = (d.scan.complete \/ Left(d.scan.pending, k) = 0)
            /\ AllCached(d, h) => AllCached(e, h)
            /\ e.cursor = d.cursor /\ e.scan.readme = d.scan.readme
  <1> DEFINE k == Cardinality(WindowOf(h, n))
             left == Left(d.scan.pending, k)
             row == [d.scan EXCEPT !.pending = Some(left), !.complete = @ \/ left = 0]
             e == CommitChunk(d, h, reads, k)
             counted == [d EXCEPT !.cache = @ \cup reads, !.scan = row]
             p == d.scan.pending[1]
  <1>1. Len(Tree[h]) \in Nat /\ DOMAIN Tree[h] = 1 .. Len(Tree[h]) /\ k \in Nat /\ p \in Nat
    BY TreesAreTyped, WindowSize DEF Pending
  <1>2. left = IF p > k THEN p - k ELSE 0
    BY DEF Left, Pending
  <1>3. left \in Nat
    BY <1>1, <1>2
  <1>4. d.scan \in ScanRow
    <2>1. Some(h) # None
      BY SomeIsMaybe
    <2> QED BY <2>1 DEF Index, NoScan
  <1>5. e = counted
    BY DEF CommitChunk, Index
  <1>6. Some(left)[1] = left /\ Some(left) # None
    BY DEF Some, None
  <1> HIDE DEF left
  <1>7. /\ row.pending = Some(left) /\ row.head = d.scan.head /\ row.total = d.scan.total
        /\ row.complete = (d.scan.complete \/ left = 0) /\ row.readme = d.scan.readme
    BY <1>4 DEF ScanRow
  <1> HIDE DEF row
  <1>8. counted.scan = row /\ counted.cache = d.cache \cup reads /\ counted.cursor = d.cursor
    BY DEF Index
  <1> HIDE DEF counted, e
  <1>9. e.scan.pending[1] = left /\ Pending(e)
    BY <1>3, <1>5, <1>6, <1>7, <1>8 DEF Pending
  <1>10. AllCached(d, h) => AllCached(e, h)
    BY <1>5, <1>8 DEF AllCached
  <1>11. Counted(e, h, n + k)
    <2>1. CASE AllCached(d, h)
      BY <1>10, <2>1 DEF Counted
    <2>2. CASE ~AllCached(d, h) /\ n >= Len(Tree[h])
      <3>1. k = 0 /\ left = p
        <4>1. k = 0
          BY <2>2, WindowSize
        <4> HIDE DEF k, p
        <4> QED BY <1>1, <1>2, <4>1
      <3>2. n + k = n /\ e.scan.pending[1] = p
        BY <1>9, <3>1
      <3>3. /\ p + Reached(h, n) - Len(Tree[h]) >= 0
            /\ \A i \in DOMAIN Tree[h] :
                 p + Reached(h, n) - Len(Tree[h]) < i /\ i <= Reached(h, n) => Tree[h][i] \in d.cache
        BY <2>2 DEF Counted
      <3> HIDE DEF k, p
      <3>4. \A i \in DOMAIN Tree[h] :
              p + Reached(h, n) - Len(Tree[h]) < i /\ i <= Reached(h, n) => Tree[h][i] \in e.cache
        BY <1>5, <1>8, <3>3
      <3> QED BY <3>2, <3>3, <3>4 DEF Counted
    <2>3. CASE ~AllCached(d, h) /\ n < Len(Tree[h])
      <3>1. /\ n + k <= Len(Tree[h])
            /\ \A i \in DOMAIN Tree[h] : n < i /\ i <= n + k => i \in WindowOf(h, n)
        BY <2>3, WindowSize
      <3>2. /\ p + n - Len(Tree[h]) >= 0
            /\ \A i \in DOMAIN Tree[h] : p + n - Len(Tree[h]) < i /\ i <= n => Tree[h][i] \in d.cache
        BY <2>3 DEF Counted, Reached
      <3> HIDE DEF k, p
      <3>3. left + (n + k) - Len(Tree[h]) = p + n - Len(Tree[h])
        BY <1>1, <1>2, <3>1, <3>2
      <3>4. Reached(h, n + k) = n + k
        BY <1>1, <3>1 DEF Reached
      <3>5. ASSUME NEW i \in DOMAIN Tree[h], p + n - Len(Tree[h]) < i, i <= n + k
            PROVE  Tree[h][i] \in e.cache
        <4>1. CASE i <= n
          BY <1>5, <1>8, <3>2, <3>5, <4>1
        <4>2. CASE n < i
          BY <1>5, <1>8, <3>1, <3>5, <4>2
        <4>3. i \in Nat
          BY <1>1
        <4> QED BY <4>1, <4>2, <4>3
      <3>6. e.scan.pending[1] + Reached(h, n + k) - Len(Tree[h]) = p + n - Len(Tree[h])
        BY <1>9, <3>3, <3>4
      <3> QED BY <3>2, <3>4, <3>5, <3>6 DEF Counted
    <2> QED BY <2>1, <2>2, <2>3
  <1> QED BY <1>5, <1>7, <1>8, <1>9, <1>10, <1>11 DEF e, k, left, row

(* Once all its blobs are in the cache, a head's items are all there.      *)
LEMMA AllKeys ==
  ASSUME NEW d \in Index, NEW h \in Heads, AllCached(d, h)
  PROVE  Keys(d, h) = Keys([d EXCEPT !.cache = Blobs], h)
  <1> DEFINE full == [d EXCEPT !.cache = Blobs]
  <1>1. full.cache = Blobs
    BY DEF Index
  <1> HIDE DEF full
  <1>2. \A text \in Texts : Occurrences(d, h, text) = Occurrences(full, h, text)
    BY <1>1, TreesAreTyped DEF Occurrences, AllCached
  <1>3. Keys(d, h) = Keys(full, h)
    BY <1>2 DEF Keys
  <1> QED BY <1>3 DEF full

-----------------------------------------------------------------------------
(* What leaves the count alone.                                            *)

KeepsScan(d, e) == e.scan = d.scan /\ e.cache = d.cache /\ e.cursor = d.cursor

(* Writing two other fields keeps the scan.                                *)
LEMMA FieldsKeepScan ==
  ASSUME NEW d \in Index, NEW x, NEW y
  PROVE  /\ KeepsScan(d, [d EXCEPT !.sweep = x, !.items = y])
         /\ KeepsScan(d, [d EXCEPT !.enrolled = x, !.sweep = y])
         /\ KeepsScan(d, [d EXCEPT !.items = x])
         /\ KeepsScan(d, [d EXCEPT !.loc = x])
         /\ KeepsScan(d, [d EXCEPT !.newest = x])
         /\ KeepsScan(d, [d EXCEPT !.archived = x])
         /\ KeepsScan(d, [d EXCEPT !.granted = x])
         /\ KeepsScan(d, [d EXCEPT !.on = x])
         /\ KeepsScan(d, [d EXCEPT !.on = x, !.sweep = y])
  BY DEF KeepsScan, Index

(* So does an observation.                                                 *)
LEMMA ObserveKeepsScan ==
  ASSUME NEW d \in Index, NEW src, NEW sweep, NEW seen
  PROVE  KeepsScan(d, Observe(d, src, sweep, seen))
  <1> DEFINE missed == {i \in d.items[src] : i.key \notin seen}
             closed == {i \in missed : MayClose(i, sweep)}
             unreached == {i \in missed : Comparable(i, sweep) /\ sweep.outcome = "partial"}
             found == {[key |-> k, state |-> "open", at |-> sweep.at[1]] : k \in seen}
             new == found \cup unreached \cup Unverified(missed \ (closed \cup unreached))
             sweeps == [d.sweep EXCEPT ![src] = sweep]
             items == [d.items EXCEPT ![src] = new]
  <1>1. Observe(d, src, sweep, seen) = [d EXCEPT !.sweep[src] = sweep, !.items[src] = new]
    BY DEF Observe
  <1> HIDE DEF new
  <1>2. [d EXCEPT !.sweep[src] = sweep, !.items[src] = new]
          = [d EXCEPT !.sweep = sweeps, !.items = items]
    BY DEF Index
  <1>3. Observe(d, src, sweep, seen) = [d EXCEPT !.sweep = sweeps, !.items = items]
    BY <1>1, <1>2
  <1> HIDE DEF sweeps, items
  <1>4. KeepsScan(d, [d EXCEPT !.sweep = sweeps, !.items = items])
    BY FieldsKeepScan
  <1> QED BY <1>3, <1>4

(* A chunk's items, a settle's singletons, the two that doubt and the      *)
(* stamp.                                                                  *)
LEMMA ItemsKeepScan ==
  ASSUME NEW d \in Index
  PROVE  /\ \A c, h, gates, since : KeepsScan(d, BuildItems(d, c, h, gates, since))
         /\ KeepsScan(d, EvaluateSingletons(d))
         /\ KeepsScan(d, MarkUnverified(d))
         /\ \A c : KeepsScan(d, MarkRootUnobserved(d, c))
         /\ KeepsScan(d, StampAcknowledged(d))
  <1>1. KeepsScan(d, d)
    BY DEF KeepsScan
  <1>2. ASSUME NEW c, NEW h, NEW gates, NEW since
        PROVE  KeepsScan(d, BuildItems(d, c, h, gates, since))
    BY <1>1, ObserveKeepsScan DEF BuildItems
  <1>3. KeepsScan(d, EvaluateSingletons(d))
    BY <1>1, ObserveKeepsScan DEF EvaluateSingletons
  <1>4. KeepsScan(d, MarkUnverified(d))
    BY FieldsKeepScan DEF MarkUnverified
  <1>5. ASSUME NEW c PROVE KeepsScan(d, MarkRootUnobserved(d, c))
    BY FieldsKeepScan DEF MarkRootUnobserved
  <1>6. KeepsScan(d, StampAcknowledged(d))
    BY <1>1, FieldsKeepScan DEF StampAcknowledged
  <1> QED BY <1>2, <1>3, <1>4, <1>5, <1>6

(* The row is as honest as it was.                                         *)
LEMMA CountedKept ==
  ASSUME NEW d, NEW e, e.scan = d.scan, e.cache = d.cache, NEW h, NEW n
  PROVE  Counted(e, h, n) = Counted(d, h, n) /\ AllCached(e, h) = AllCached(d, h)
  BY DEF Counted, AllCached

-----------------------------------------------------------------------------
(* The invariant of an undisturbed scan.                                   *)

Ordinal(d) == IF d.cursor = None THEN 0 ELSE d.cursor[1]

(* What a run at one of its first steps has read of the cursor, and one    *)
(* that reads the tree of the head.                                        *)
Reads(r, h) ==
  r.step \in {"gates", "head"} \/ (r.step \in {"tree"} \cup Treed /\ r.head = h)

Pauses(r) == r.step = "settle" /\ r.kind = "J7" /\ r.outcome.is = "partial"

(* A run that has its tree has the head's; one that has stored its answers *)
(* finds the row of that head; and what it writes covers its window.       *)
Holds(d, r) ==
  /\ r.step \in Treed => r.tree = r.head
  /\ r.step \in {"cache", "blobs", "commit"} => d.scan.head = Some(r.head)
  /\ r.step \in {"blobs", "commit"} =>
       \A i \in WindowOf(r.tree, r.from) : Tree[r.tree][i] \in d.cache \cup r.reads

(* Of the head its row is of: the row has its total and its README; it is  *)
(* complete only with every blob in the cache; and it is honest where the  *)
(* next run would start, or where a run that is about to write the cursor  *)
(* got to, and where the run that reads it stands.                         *)
HeadCounts(d, runs, h) ==
  /\ d.scan.total = Some(Len(Tree[h])) /\ Pending(d)
  /\ d.scan.readme = IF h \in HasReadme THEN "present" ELSE "absent"
  /\ d.scan.complete => AllCached(d, h)
  /\ (\E w \in Workers : Pauses(runs[w])) \/ Counted(d, h, Ordinal(d))
  /\ \A w \in Workers : Reads(runs[w], h) => Counted(d, h, runs[w].from)
  /\ \A w \in Workers : Pauses(runs[w]) => Counted(d, h, runs[w].outcome.cursor)

OneScan(runs) == \A v, w \in Workers : InScan(runs[v]) /\ InScan(runs[w]) => v = w

RowsCount(d, runs) ==
  /\ OneScan(runs) /\ \A w \in Workers : Holds(d, runs[w])
  /\ \A h \in Heads : d.scan.head = Some(h) => HeadCounts(d, runs, h)

Budget == [moves : Nat, leaves : Nat, opens : Nat, walks : Nat, choices : Nat,
           faults : Nat, refusals : Nat, crashes : Nat]

ScanCounts == budget \in Budget /\ (steady => RowsCount(db, run))

(* Every step spends one event's budget, or none.                          *)
LEMMA StepSpends ==
  ASSUME budget \in Budget, Next
  PROVE  budget' \in Budget
  <1>1. Step
    BY DEF Next
  <1>2. CASE budget' = budget
    BY <1>2
  <1>3. CASE \E what \in {"moves", "leaves", "opens", "walks", "choices", "faults", "refusals",
                          "crashes"} : Spend(what)
    BY <1>3 DEF Spend, Budget
  <1>4. ASSUME NEW w \in Workers, Works(w) PROVE budget' \in Budget
    BY <1>2, <1>3, <1>4
       DEF Works, J1, J7Begins, TakeStale, J7ReadsCursor, J7ReadsGates, J7ReadsHead, J7ReadsSweep,
           J7Restarts, J7ReadsTree, J7TreeFails, J7NotRead, J7Enumerates, J7ReadsCache,
           J7ReadsBlobs, J7BlobsFail, J7Commits, J7Refused, Settle, OnlyReads
  <1>5. ASSUME OpenPage \/ SetGrant \/ SetArchived \/ Crash \/ \E src \in Sources : SetSwitch(src)
        PROVE  budget' \in Budget
    BY <1>3, <1>5 DEF OpenPage, SetGrant, SetArchived, Crash, SetSwitch
  <1>6. ASSUME NEW c \in Copies,
               HandOff(c) \/ ApplyPresence(c) \/ Uninstall(c) \/ Commit(c) \/ Edited(c)
                 \/ Leaves(c) \/ Returns(c)
        PROVE  budget' \in Budget
    BY <1>2, <1>3, <1>6 DEF HandOff, ApplyPresence, Uninstall, Commit, Edited, Leaves, Returns
  <1> QED BY <1>1, <1>4, <1>5, <1>6 DEF Step

(* What a step that leaves the scans undisturbed does not do.              *)
LEMMA Undisturbed ==
  ASSUME budget \in Budget, Next, steady'
  PROVE  /\ steady /\ OneScan(run')
         /\ \A what \in {"refusals", "crashes"} : ~Spend(what)
         /\ db'.scan # NoScan => db'.scan.total # None
         /\ \A w \in Workers : run'[w].step \in Treed => run'[w].tree = run'[w].head
         /\ db'.cursor # db.cursor /\ db'.cursor = None => db'.scan.pending = Some(0)
  <1>1. steady /\ ~Disturbs
    BY DEF Next
  <1>2. OneScan(run')
    <2> SUFFICES ASSUME NEW v \in Workers, NEW w \in Workers,
                        InScan(run'[v]), InScan(run'[w]), v # w
                 PROVE  FALSE
      BY DEF OneScan
    <2> DEFINE scans == {u \in Workers : InScan(run'[u])}
    <2>1. IsFiniteSet(scans) /\ {v, w} \subseteq scans
      BY ScanAssumption, FS_Subset
    <2>2. Cardinality(scans) \in Nat /\ Cardinality({v, w}) <= Cardinality(scans)
      BY <2>1, FS_Subset, FS_CardinalityType
    <2>3. Cardinality({v, w}) = 2
      <3>1. IsFiniteSet({v}) /\ Cardinality({v}) = 1
        BY FS_Singleton
      <3>2. {v, w} = {v} \cup {w} /\ w \notin {v}
        OBVIOUS
      <3> QED BY <3>1, <3>2, FS_AddElement
    <2>4. ~(Cardinality(scans) > 1)
      BY <1>1 DEF Disturbs
    <2> QED BY <2>2, <2>3, <2>4
  <1>3. \A what \in {"refusals", "crashes"} : ~Spend(what)
    BY <1>1 DEF Disturbs, Spend, Budget
  <1> QED BY <1>1, <1>2, <1>3 DEF Disturbs
Alike(r, s) ==
  /\ s.step = r.step
  /\ r.step \in Steps =>
       s.head = r.head /\ s.from = r.from /\ s.tree = r.tree /\ s.reads = r.reads
  /\ r.step = "settle" => s.kind = r.kind /\ s.outcome = r.outcome

(* A run that has read the cursor, has its tree, or pauses is in a scan.   *)
LEMMA ReadersScan ==
  ASSUME NEW r
  PROVE  /\ Pauses(r) => InScan(r) /\ r.step = "settle"
         /\ \A h : Reads(r, h) => InScan(r) /\ r.step \in Steps
         /\ r.step \in Treed => InScan(r)
         /\ ~InScan(r) => \A d : Holds(d, r)
         /\ Treed \subseteq Steps /\ {"cache", "blobs", "commit"} \subseteq Treed
  BY DEF Pauses, Reads, InScan, Holds, Steps, Treed

(* A step that keeps the scan, and at no worker changes where a scan is.   *)
LEMMA AlikeCounts ==
  ASSUME RowsCount(db, run), KeepsScan(db, db'), OneScan(run'),
         \A w \in Workers : \/ Alike(run[w], run'[w])
                            \/ ~InScan(run[w]) /\ ~InScan(run'[w])
  PROVE  RowsCount(db', run')
  <1>1. Ordinal(db') = Ordinal(db)
    BY DEF KeepsScan, Ordinal
  <1>2. \A h, n : Counted(db', h, n) = Counted(db, h, n) /\ AllCached(db', h) = AllCached(db, h)
    BY CountedKept DEF KeepsScan
  <1>3. \A w \in Workers : /\ Pauses(run[w]) => InScan(run[w])
                           /\ Pauses(run'[w]) => InScan(run'[w])
                           /\ \A h : Reads(run'[w], h) => InScan(run'[w])
    BY ReadersScan
  <1>4. \A w \in Workers : /\ Pauses(run'[w]) <=> Pauses(run[w])
                           /\ Pauses(run'[w]) => run'[w].outcome = run[w].outcome
    BY <1>3 DEF Alike, Pauses
  <1>5. \A w \in Workers : \A h :
          Reads(run'[w], h) => Reads(run[w], h) /\ run'[w].from = run[w].from
    BY <1>3, ReadersScan DEF Alike, Reads, Steps
  <1>6. ASSUME NEW w \in Workers PROVE Holds(db', run'[w])
    <2>1. CASE ~InScan(run'[w])
      BY <2>1, ReadersScan
    <2>2. CASE InScan(run'[w])
      <3>1. Alike(run[w], run'[w]) /\ Holds(db, run[w])
        BY <2>2 DEF RowsCount
      <3>2. db'.scan = db.scan /\ db'.cache = db.cache
        BY DEF KeepsScan
      <3>3. run'[w].step \in Treed =>
              /\ run'[w].head = run[w].head /\ run'[w].from = run[w].from
              /\ run'[w].tree = run[w].tree /\ run'[w].reads = run[w].reads
        BY <3>1, ReadersScan DEF Alike
      <3> QED BY <3>1, <3>2, <3>3, ReadersScan DEF Alike, Holds, Treed
    <2> QED BY <2>1, <2>2
  <1>7. ASSUME NEW h \in Heads, db'.scan.head = Some(h) PROVE HeadCounts(db', run', h)
    <2>1. HeadCounts(db, run, h) /\ db'.scan = db.scan
      BY <1>7 DEF RowsCount, KeepsScan
    <2> QED BY <1>1, <1>2, <1>4, <1>5, <2>1 DEF HeadCounts, Pending
  <1> QED BY <1>6, <1>7 DEF RowsCount

(* Where only one worker has a scan, the count is a matter of its run.     *)
LEMMA OnlyCounts ==
  ASSUME NEW d, NEW runs, NEW w \in Workers, NEW h,
         \A v \in Workers \ {w} : ~InScan(runs[v]),
         d.scan.total = Some(Len(Tree[h])), Pending(d),
         d.scan.readme = IF h \in HasReadme THEN "present" ELSE "absent",
         d.scan.complete => AllCached(d, h),
         Pauses(runs[w]) \/ Counted(d, h, Ordinal(d)),
         Reads(runs[w], h) => Counted(d, h, runs[w].from),
         Pauses(runs[w]) => Counted(d, h, runs[w].outcome.cursor)
  PROVE  HeadCounts(d, runs, h)
  <1>1. \A v \in Workers \ {w} : ~Pauses(runs[v]) /\ ~Reads(runs[v], h)
    BY ReadersScan
  <1> QED BY <1>1 DEF HeadCounts

(* A worker whose step begins, goes on with or ends a scan is the only one *)
(* that has one, before and after.                                         *)
LEMMA OthersAreIdle ==
  ASSUME TypeOK, OneScan(run), OneScan(run'), NEW w \in Workers, NEW r,
         run' = [run EXCEPT ![w] = r], InScan(run[w]) \/ InScan(r)
  PROVE  \A v \in Workers \ {w} : ~InScan(run[v]) /\ ~InScan(run'[v])
  <1>1. run'[w] = r /\ \A v \in Workers \ {w} : run'[v] = run[v]
    BY DEF TypeOK
  <1> QED BY <1>1 DEF OneScan

(* Before a step of a worker that is not about to write the cursor, and is *)
(* or will be the only one with a scan, the next run would start right.    *)
LEMMA CursorCounts ==
  ASSUME RowsCount(db, run), NEW w \in Workers, ~Pauses(run[w]),
         \A v \in Workers \ {w} : ~InScan(run[v]),
         NEW h \in Heads, db.scan.head = Some(h)
  PROVE  Counted(db, h, Ordinal(db))
  <1>1. \A v \in Workers \ {w} : ~Pauses(run[v])
    BY ReadersScan
  <1> QED BY <1>1 DEF RowsCount, HeadCounts
(* A run that goes on, or ends its scan without a cursor, leaves the count *)
(* as it was.                                                              *)
LEMMA GoesOn ==
  ASSUME TypeOK, RowsCount(db, run), OneScan(run'), NEW w \in Workers,
         KeepsScan(db, db'), ~Pauses(run[w]), NEW r, run' = [run EXCEPT ![w] = r],
         InScan(run[w]) \/ InScan(r), ~Pauses(r), Holds(db, r),
         \A h \in Heads : db.scan.head = Some(h) /\ Reads(r, h) => Counted(db, h, r.from)
  PROVE  RowsCount(db', run')
  <1>1. OneScan(run)
    BY DEF RowsCount
  <1>2. \A v \in Workers \ {w} : ~InScan(run[v]) /\ ~InScan(run'[v])
    BY <1>1, OthersAreIdle
  <1>3. run'[w] = r
    BY DEF TypeOK
  <1>4. db'.scan = db.scan /\ db'.cursor = db.cursor /\ db'.cache = db.cache
    BY DEF KeepsScan
  <1>5. \A v \in Workers : Holds(db', run'[v])
    <2>1. Holds(db', r)
      BY <1>4 DEF Holds
    <2> QED BY <1>2, <1>3, <2>1, ReadersScan
  <1>6. ASSUME NEW h \in Heads, db'.scan.head = Some(h) PROVE HeadCounts(db', run', h)
    <2>1. HeadCounts(db, run, h)
      BY <1>4, <1>6 DEF RowsCount
    <2>2. Counted(db, h, Ordinal(db))
      BY <1>2, <1>4, <1>6, CursorCounts
    <2>3. Ordinal(db') = Ordinal(db)
      BY <1>4 DEF Ordinal
    <2>4. /\ \A n : Counted(db', h, n) = Counted(db, h, n)
          /\ AllCached(db', h) = AllCached(db, h)
      BY <1>4, CountedKept
    <2>5. Reads(run'[w], h) => Counted(db', h, run'[w].from)
      BY <1>3, <1>4, <1>6, <2>4
    <2>6. /\ db'.scan.total = Some(Len(Tree[h])) /\ Pending(db')
          /\ db'.scan.complete => AllCached(db', h)
          /\ db'.scan.readme = IF h \in HasReadme THEN "present" ELSE "absent"
      BY <1>4, <2>1, <2>4 DEF HeadCounts, Pending
    <2> QED BY <1>2, <1>3, <2>2, <2>3, <2>4, <2>5, <2>6, OnlyCounts
  <1> QED BY <1>5, <1>6 DEF RowsCount

(* So does one that ends at once.                                          *)
LEMMA EndsCount ==
  ASSUME TypeOK, RowsCount(db, run), OneScan(run'), NEW w \in Workers, run[w].step \in Steps,
         KeepsScan(db, db'), NEW outcome \in {Done, HardFail, Transient}, Ends(w, outcome)
  PROVE  RowsCount(db', run')
  <1> DEFINE r == Settling("J7", run[w].copy, outcome, run[w].since)
  <1>1. r.step = "settle" /\ r.kind = "J7" /\ r.outcome = outcome
    BY DEF Settling
  <1>2. run' = [run EXCEPT ![w] = r]
    BY DEF Ends
  <1> HIDE DEF r
  <1>3. ~Pauses(r) /\ \A h : ~Reads(r, h)
    BY <1>1 DEF Pauses, Reads, Done, HardFail, Transient, Treed
  <1>4. Holds(db, r)
    BY <1>1 DEF Holds, Treed
  <1>5. InScan(run[w]) /\ ~Pauses(run[w])
    BY DEF InScan, Pauses, Steps, Treed
  <1> QED BY <1>2, <1>3, <1>4, <1>5, GoesOn

-----------------------------------------------------------------------------
(* The steps of a worker.                                                  *)

(* What the run of a worker holds, while the scans are undisturbed.        *)
LEMMA RunCounts ==
  ASSUME TypeOK, RowsCount(db, run), NEW w \in Workers, run[w].step \in Steps
  PROVE  /\ run[w] \in Reading /\ InScan(run[w]) /\ ~Pauses(run[w]) /\ Holds(db, run[w])
         /\ \A h \in Heads :
              db.scan.head = Some(h) /\ Reads(run[w], h) => Counted(db, h, run[w].from)
  BY RunsByStep, ReadersScan DEF RowsCount, HeadCounts, InScan, Steps, Treed

(* The reads before the tree's: the cursor, which is honest of the row,    *)
(* the gates, the head and the sweep.                                      *)
LEMMA FirstReadsCount ==
  ASSUME TypeOK, RowsCount(db, run), OneScan(run'), NEW w \in Workers,
         \/ \E c \in Copies : J7Begins(w, c)
         \/ J7ReadsCursor(w) \/ J7ReadsGates(w) \/ J7ReadsHead(w) \/ J7ReadsSweep(w)
         \/ J7TreeFails(w)
  PROVE  RowsCount(db', run')
  <1>1. KeepsScan(db, db')
    BY DEF KeepsScan, J7Begins, J7ReadsCursor, J7ReadsGates, J7ReadsHead, J7ReadsSweep, J7TreeFails,
           OnlyReads
  <1>2. ASSUME NEW c \in Copies, J7Begins(w, c) PROVE RowsCount(db', run')
    <2>1. Started(c).step = "cursor"
      BY DEF Started
    <2>2. ~Pauses(Started(c)) /\ Holds(db, Started(c)) /\ InScan(Started(c))
            /\ \A h : ~Reads(Started(c), h)
      BY <2>1 DEF Pauses, Holds, InScan, Reads, Steps, Treed
    <2>3. run[w].step = "free" /\ run' = [run EXCEPT ![w] = Started(c)]
      BY <1>2 DEF J7Begins, Is
    <2>4. ~Pauses(run[w])
      BY <2>3 DEF Pauses
    <2> QED BY <1>1, <2>2, <2>3, <2>4, GoesOn
  <1>3. ASSUME J7ReadsCursor(w) PROVE RowsCount(db', run')
    <2> DEFINE r == [run[w] EXCEPT !.step = "gates", !.from = CursorOrdinal]
    <2>1. run[w].step \in Steps /\ run' = [run EXCEPT ![w] = r]
      BY <1>3 DEF J7ReadsCursor, Is, Steps
    <2>2. run[w] \in Reading /\ InScan(run[w]) /\ ~Pauses(run[w])
      BY <2>1, RunCounts
    <2>3. r.step = "gates" /\ r.from = Ordinal(db)
      BY <2>2 DEF Reading, CursorOrdinal, Ordinal
    <2> HIDE DEF r
    <2>4. ~Pauses(r) /\ Holds(db, r) /\ InScan(r)
      BY <2>3 DEF Pauses, Holds, InScan, Steps, Treed
    <2>5. \A v \in Workers \ {w} : ~InScan(run[v])
      BY <2>2 DEF RowsCount, OneScan
    <2>6. \A h \in Heads : db.scan.head = Some(h) => Counted(db, h, r.from)
      BY <2>2, <2>3, <2>5, CursorCounts
    <2> QED BY <1>1, <2>1, <2>2, <2>4, <2>6, GoesOn
  <1>4. ASSUME J7ReadsGates(w) PROVE RowsCount(db', run')
    <2> DEFINE r == [run[w] EXCEPT !.step = "head", !.gates = Gates]
    <2>1. run[w].step \in Steps /\ run' = [run EXCEPT ![w] = r] /\ run[w].step = "gates"
      BY <1>4 DEF J7ReadsGates, Is, Steps
    <2>2. run[w] \in Reading /\ InScan(run[w]) /\ ~Pauses(run[w])
            /\ \A h \in Heads : db.scan.head = Some(h) => Counted(db, h, run[w].from)
      BY <2>1, RunCounts DEF Reads
    <2>3. r.step = "head" /\ r.from = run[w].from
      BY <2>2 DEF Reading
    <2> HIDE DEF r
    <2>4. ~Pauses(r) /\ Holds(db, r) /\ InScan(r)
      BY <2>3 DEF Pauses, Holds, InScan, Steps, Treed
    <2> QED BY <1>1, <2>1, <2>2, <2>3, <2>4, GoesOn
  <1>5. ASSUME J7ReadsHead(w) PROVE RowsCount(db', run')
    <2> DEFINE h == db.loc[run[w].copy].head
               moved == db.scan # NoScan /\ db.scan.head # h
               next == IF CompleteAt(h) THEN "withdrawn" ELSE "tree"
               from == IF moved THEN 0 ELSE run[w].from
               r == [run[w] EXCEPT !.step = next, !.head = h[1], !.from = from]
    <2>1. run[w].step \in Steps /\ run[w].step = "head"
      BY <1>5 DEF J7ReadsHead, Is, Steps
    <2>2. run[w] \in Reading /\ InScan(run[w]) /\ ~Pauses(run[w])
            /\ \A k \in Heads : db.scan.head = Some(k) => Counted(db, k, run[w].from)
      BY <2>1, RunCounts DEF Reads
    <2>3. CASE Ends(w, Done)
      BY <1>1, <2>1, <2>3, EndsCount
    <2>4. CASE h # None /\ run' = [run EXCEPT ![w] = r]
      <3>1. h \in Maybe(Heads)
        <4>1. run[w].copy \in Copies
          BY <2>2, ReadingHolds
        <4> QED BY <4>1 DEF TypeOK, Index, Location
      <3>2. h = Some(h[1])
        BY <2>4, <3>1, MaybeHolds
      <3>3. r.step = next /\ r.head = h[1] /\ r.from = from /\ next \in {"withdrawn", "tree"}
        BY <2>2 DEF Reading
      <3>4. ASSUME NEW k \in Heads, db.scan.head = Some(k), Reads(r, k) PROVE Counted(db, k, r.from)
        <4>1. r.head = k
          BY <3>3, <3>4 DEF Reads
        <4>2. db.scan.head = h
          BY <3>2, <3>3, <3>4, <4>1
        <4> HIDE DEF next, h
        <4>3. from = run[w].from
          BY <4>2
        <4> QED BY <2>2, <3>3, <3>4, <4>3
      <3> HIDE DEF r, next
      <3>5. ~Pauses(r) /\ Holds(db, r) /\ InScan(r)
        BY <3>3 DEF Pauses, Holds, InScan, Steps, Treed
      <3> QED BY <1>1, <2>2, <2>4, <3>4, <3>5, GoesOn
    <2>5. Ends(w, Done) \/ (h # None /\ run' = [run EXCEPT ![w] = r])
      BY <1>5 DEF J7ReadsHead
    <2> QED BY <2>3, <2>4, <2>5
  <1>6. ASSUME J7ReadsSweep(w) PROVE RowsCount(db', run')
    <2> DEFINE r == [run[w] EXCEPT !.step = "restart"]
    <2>1. run[w].step \in Steps
      BY <1>6 DEF J7ReadsSweep, Is, Steps
    <2>2. run[w] \in Reading /\ InScan(run[w]) /\ ~Pauses(run[w])
      BY <2>1, RunCounts
    <2>3. r.step = "restart"
      BY <2>2 DEF Reading
    <2>4. Ends(w, Done) \/ run' = [run EXCEPT ![w] = r]
      BY <1>6 DEF J7ReadsSweep
    <2> HIDE DEF r
    <2>5. ~Pauses(r) /\ Holds(db, r) /\ InScan(r) /\ \A h : ~Reads(r, h)
      BY <2>3 DEF Pauses, Holds, InScan, Reads, Steps, Treed
    <2> QED BY <1>1, <2>1, <2>2, <2>4, <2>5, GoesOn, EndsCount
  <1>7. ASSUME J7TreeFails(w) PROVE RowsCount(db', run')
    <2>1. run[w].step \in Steps
      BY <1>7 DEF J7TreeFails, Is, Steps
    <2>2. run[w] \in Reading /\ InScan(run[w]) /\ ~Pauses(run[w])
      BY <2>1, RunCounts
    <2>3. PICK outcome : run' = [run EXCEPT ![w] =
                             [run[w] EXCEPT !.step = "not_read", !.outcome = outcome]]
      BY <1>7 DEF J7TreeFails
    <2> DEFINE r == [run[w] EXCEPT !.step = "not_read", !.outcome = outcome]
    <2>4. r.step = "not_read"
      BY <2>2 DEF Reading
    <2> HIDE DEF r
    <2>5. ~Pauses(r) /\ Holds(db, r) /\ InScan(r) /\ \A h : ~Reads(r, h)
      BY <2>4 DEF Pauses, Holds, InScan, Reads, Steps, Treed
    <2> QED BY <1>1, <2>2, <2>3, <2>5, GoesOn DEF r
  <1> QED BY <1>2, <1>3, <1>4, <1>5, <1>6, <1>7

(* The reads of the tree, of the cache and of the blobs: what the write    *)
(* will cache covers the window.                                           *)
LEMMA LaterReadsCount ==
  ASSUME TypeOK, RowsCount(db, run), OneScan(run'), NEW w \in Workers,
         J7ReadsTree(w) \/ J7ReadsCache(w) \/ J7ReadsBlobs(w) \/ J7BlobsFail(w),
         run'[w].step \in Treed => run'[w].tree = run'[w].head
  PROVE  RowsCount(db', run')
  <1>1. KeepsScan(db, db') /\ run[w].step \in Steps
    BY DEF KeepsScan, J7ReadsTree, J7ReadsCache, J7ReadsBlobs, J7BlobsFail, OnlyReads, Is,
           Steps, Treed
  <1>2. /\ run[w] \in Reading /\ InScan(run[w]) /\ ~Pauses(run[w]) /\ Holds(db, run[w])
        /\ \A h \in Heads :
             db.scan.head = Some(h) /\ Reads(run[w], h) => Counted(db, h, run[w].from)
    BY <1>1, RunCounts
  <1>3. ASSUME J7ReadsTree(w) PROVE RowsCount(db', run')
    <2> DEFINE r == [run[w] EXCEPT !.step = "enumerate", !.tree = disk[run[w].copy].head]
    <2>1. run' = [run EXCEPT ![w] = r] /\ run[w].step = "tree"
      BY <1>3 DEF J7ReadsTree, Is
    <2>2. r.step = "enumerate" /\ r.head = run[w].head /\ r.from = run[w].from
      BY <1>2 DEF Reading
    <2> HIDE DEF r
    <2>3. run'[w] = r
      BY <2>1 DEF TypeOK
    <2>4. ~Pauses(r) /\ Holds(db, r) /\ InScan(r) /\ \A h : Reads(r, h) => Reads(run[w], h)
      BY <2>1, <2>2, <2>3 DEF Pauses, Holds, InScan, Reads, Steps, Treed
    <2> QED BY <1>1, <1>2, <2>1, <2>2, <2>4, GoesOn
  <1>4. ASSUME J7ReadsCache(w) PROVE RowsCount(db', run')
    <2> DEFINE r == [run[w] EXCEPT !.step = "blobs", !.reads = Wanted(w)]
    <2>1. CASE Ends(w, Done)
      BY <1>1, <2>1, EndsCount
    <2>2. CASE run' = [run EXCEPT ![w] = r]
      <3>1. run[w].step = "cache"
        BY <1>4 DEF J7ReadsCache, Is
      <3>2. /\ r.step = "blobs" /\ r.head = run[w].head /\ r.from = run[w].from
            /\ r.tree = run[w].tree /\ r.reads = Wanted(w)
        BY <1>2 DEF Reading
      <3> HIDE DEF r
      <3>3. \A i \in WindowOf(r.tree, r.from) : Tree[r.tree][i] \in db.cache \cup r.reads
        BY <3>2 DEF WindowOf, Window, Wanted
      <3>4. ~Pauses(r) /\ Holds(db, r) /\ InScan(r) /\ \A h : Reads(r, h) => Reads(run[w], h)
        BY <1>2, <3>1, <3>2, <3>3 DEF Pauses, Holds, InScan, Reads, Steps, Treed
      <3> QED BY <1>1, <1>2, <2>2, <3>2, <3>4, GoesOn
    <2> QED BY <1>4, <2>1, <2>2 DEF J7ReadsCache
  <1>5. ASSUME J7ReadsBlobs(w) PROVE RowsCount(db', run')
    <2> DEFINE r == [run[w] EXCEPT !.step = "commit"]
    <2>1. run' = [run EXCEPT ![w] = r] /\ run[w].step = "blobs"
      BY <1>5 DEF J7ReadsBlobs, Is
    <2>2. /\ r.step = "commit" /\ r.head = run[w].head /\ r.from = run[w].from
          /\ r.tree = run[w].tree /\ r.reads = run[w].reads
      BY <1>2 DEF Reading
    <2> HIDE DEF r
    <2>3. ~Pauses(r) /\ Holds(db, r) /\ InScan(r) /\ \A h : Reads(r, h) => Reads(run[w], h)
      BY <1>2, <2>1, <2>2 DEF Pauses, Holds, InScan, Reads, Steps, Treed
    <2> QED BY <1>1, <1>2, <2>1, <2>2, <2>3, GoesOn
  <1>6. ASSUME J7BlobsFail(w) PROVE RowsCount(db', run')
    <2>1. Ends(w, HardFail) \/ Ends(w, Transient)
      BY <1>6 DEF J7BlobsFail
    <2> QED BY <1>1, <2>1, EndsCount
  <1> QED BY <1>3, <1>4, <1>5, <1>6

(* A restart counts the whole tree again, and starts at its beginning.     *)
LEMMA RestartCounts ==
  ASSUME TypeOK, RowsCount(db, run), OneScan(run'), NEW w \in Workers, J7Restarts(w)
  PROVE  RowsCount(db', run')
  <1> DEFINE r == [run[w] EXCEPT !.step = "tree", !.from = 0]
  <1>1. run[w].step \in Steps /\ run' = [run EXCEPT ![w] = r] /\ db' = RestartScan(db)
    BY DEF J7Restarts, Is, Steps
  <1>2. run[w] \in Reading /\ InScan(run[w]) /\ ~Pauses(run[w]) /\ db \in Index
    BY <1>1, RunCounts DEF TypeOK
  <1>3. r.step = "tree" /\ r.from = 0
    BY <1>2 DEF Reading
  <1> HIDE DEF r
  <1>4. run'[w] = r
    BY <1>1 DEF TypeOK
  <1>5. \A v \in Workers \ {w} : ~InScan(run[v]) /\ ~InScan(run'[v])
    BY <1>1, <1>2, OthersAreIdle DEF RowsCount
  <1>6. \A v \in Workers : Holds(db', run'[v])
    BY <1>3, <1>4, <1>5, ReadersScan DEF Holds, Treed
  <1>7. ASSUME NEW k \in Heads, db'.scan.head = Some(k) PROVE HeadCounts(db', run', k)
    <2>1. db'.scan = [db.scan EXCEPT !.complete = FALSE, !.pending = db.scan.total]
            /\ db'.cursor = db.cursor
      BY <1>1, <1>2 DEF RestartScan, Index
    <2>2. db.scan \in ScanRow
      <3>1. Some(k) # None
        BY SomeIsMaybe
      <3>2. db.scan = NoScan => db'.scan.head = None
        BY <2>1 DEF NoScan
      <3> QED BY <1>2, <1>7, <3>1, <3>2 DEF Index
    <2>3. /\ db'.scan.complete = FALSE /\ db'.scan.pending = db.scan.total
          /\ db'.scan.head = db.scan.head /\ db'.scan.total = db.scan.total
          /\ db'.scan.readme = db.scan.readme
      BY <2>1, <2>2 DEF ScanRow
    <2>4. HeadCounts(db, run, k)
      BY <1>7, <2>3 DEF RowsCount
    <2>5. /\ db'.scan.total = Some(Len(Tree[k])) /\ db'.scan.pending = Some(Len(Tree[k]))
          /\ db'.scan.readme = IF k \in HasReadme THEN "present" ELSE "absent"
      BY <2>3, <2>4 DEF HeadCounts
    <2>6. Pending(db')
      BY <2>5, TreesAreTyped DEF Pending, Some, None
    <2>7. Ordinal(db') \in Nat
      <3>1. db.cursor \in Maybe(Nat)
        BY <1>2 DEF Index
      <3> QED BY <2>1, <3>1, MaybeHolds DEF Ordinal
    <2>8. Counted(db', k, 0) /\ Counted(db', k, Ordinal(db'))
      BY <2>5, <2>7, FreshIsCounted
    <2>9. ~Pauses(run'[w]) /\ run'[w].from = 0
      BY <1>3, <1>4 DEF Pauses
    <2> QED BY <1>5, <2>3, <2>5, <2>6, <2>8, <2>9, OnlyCounts
  <1> QED BY <1>6, <1>7 DEF RowsCount

(* An enumeration of the head it was asked for starts the count, unless    *)
(* the row was of that head already.                                       *)
LEMMA EnumeratesCounts ==
  ASSUME TypeOK, RowsCount(db, run), OneScan(run'), NEW w \in Workers, J7Enumerates(w)
  PROVE  RowsCount(db', run')
  <1> DEFINE h == run[w].head
             readme == IF h \in HasReadme THEN "present" ELSE "absent"
             next == IF Window(w) = {} THEN "commit" ELSE "cache"
             r == [run[w] EXCEPT !.step = next]
             same == db.scan.head = Some(h)
             total == Some(Len(Tree[h]))
             row == [head |-> Some(h), readme |-> readme, total |-> total,
                     complete |-> same /\ db.scan.complete,
                     pending |-> IF same THEN db.scan.pending ELSE total]
  <1>1. run[w].step = "enumerate" /\ run[w].step \in Steps
    BY DEF J7Enumerates, Is, Steps, Treed
  <1>2. /\ db \in Index /\ run[w] \in Reading /\ InScan(run[w]) /\ ~Pauses(run[w])
        /\ Holds(db, run[w])
        /\ \A k \in Heads :
             db.scan.head = Some(k) /\ Reads(run[w], k) => Counted(db, k, run[w].from)
    BY <1>1, RunCounts DEF TypeOK
  <1>3. h \in Heads /\ run[w].from \in Nat /\ run[w].tree = h
    BY <1>1, <1>2, ReadingHolds DEF Holds, Treed
  <1>4. db' = [db EXCEPT !.scan = row] /\ run' = [run EXCEPT ![w] = r]
    BY <1>3 DEF J7Enumerates, WriteEnumeration
  <1>5. run'[w] = r
    BY <1>4 DEF TypeOK
  <1>6. /\ r.step = next /\ next \in {"commit", "cache"} /\ r.head = h /\ r.from = run[w].from
        /\ r.tree = h /\ r.reads = run[w].reads
    BY <1>2, <1>3 DEF Reading
  <1>7. /\ row.head = Some(h) /\ row.total = Some(Len(Tree[h]))
        /\ row.complete = (same /\ db.scan.complete)
        /\ row.pending = IF same THEN db.scan.pending ELSE Some(Len(Tree[h]))
        /\ row.readme = readme
    OBVIOUS
  <1> HIDE DEF r, row
  <1>8. db'.scan = row /\ db'.cache = db.cache /\ db'.cursor = db.cursor
    BY <1>2, <1>4 DEF Index
  <1>9. InScan(r) /\ ~Pauses(r) /\ Reads(run[w], h)
    BY <1>1, <1>6 DEF InScan, Pauses, Reads, Steps, Treed
  <1>10. \A v \in Workers \ {w} : ~InScan(run[v]) /\ ~InScan(run'[v])
    BY <1>2, <1>4, OthersAreIdle DEF RowsCount
  <1>14. \A v \in Workers : Holds(db', run'[v])
    <2>1. next = "commit" => WindowOf(r.tree, r.from) = {}
      BY <1>3, <1>6 DEF WindowOf, Window
    <2> HIDE DEF next
    <2>2. Holds(db', r)
      BY <1>6, <1>7, <1>8, <2>1 DEF Holds
    <2> QED BY <1>5, <1>10, <2>2, ReadersScan
  <1>11. Ordinal(db') = Ordinal(db) /\ Ordinal(db) \in Nat
    <2>1. db.cursor \in Maybe(Nat)
      BY <1>2 DEF Index
    <2> QED BY <1>8, <2>1, MaybeHolds DEF Ordinal
  <1>12. /\ Pending(db') /\ Counted(db', h, Ordinal(db')) /\ Counted(db', h, run[w].from)
         /\ db'.scan.complete => AllCached(db', h)
    <2>1. CASE same
      <3>1. HeadCounts(db, run, h)
        BY <1>3, <2>1 DEF RowsCount
      <3>2. Counted(db, h, Ordinal(db)) /\ Counted(db, h, run[w].from)
        BY <1>2, <1>3, <1>9, <1>10, <2>1, CursorCounts
      <3>3. db'.scan.pending = db.scan.pending /\ db'.scan.complete = db.scan.complete
        <4>1. Some(h) # None
          BY SomeIsMaybe
        <4>2. db.scan \in ScanRow
          BY <1>2, <2>1, <4>1 DEF Index, NoScan
        <4>3. db.scan.complete \in BOOLEAN
          BY <4>2 DEF ScanRow
        <4> QED BY <1>7, <1>8, <2>1, <4>3
      <3>4. /\ \A n : Counted(db', h, n) = Counted(db, h, n)
            /\ AllCached(db', h) = AllCached(db, h)
        BY <1>8, <3>3 DEF Counted, AllCached
      <3> QED BY <1>11, <3>1, <3>2, <3>3, <3>4 DEF HeadCounts, Pending
    <2>2. CASE ~same
      <3>1. db'.scan.pending = Some(Len(Tree[h])) /\ db'.scan.complete = FALSE
        BY <1>7, <1>8, <2>2
      <3>2. Pending(db')
        BY <1>3, <3>1, TreesAreTyped DEF Pending, Some, None
      <3> QED BY <1>3, <1>11, <3>1, <3>2, FreshIsCounted
    <2> QED BY <2>1, <2>2
  <1>13. ASSUME NEW k \in Heads, db'.scan.head = Some(k) PROVE HeadCounts(db', run', k)
    <2>1. k = h
      BY <1>7, <1>8, <1>13, SomeIsInjective
    <2>2. db'.scan.total = Some(Len(Tree[h])) /\ ~Pauses(run'[w]) /\ run'[w].from = run[w].from
            /\ db'.scan.readme = readme
      BY <1>5, <1>6, <1>7, <1>8, <1>9
    <2> QED BY <1>10, <1>12, <2>1, <2>2, OnlyCounts
  <1> QED BY <1>13, <1>14 DEF RowsCount


(* The write of a chunk: what the row, the cache and the cursor are then.  *)
LEMMA ChunkedCounts ==
  ASSUME TypeOK, RowsCount(db, run), NEW w \in Workers, Is(w, "commit")
  PROVE  LET h == run[w].head
             k == Cardinality(Window(w))
             e == CommitChunk(db, h, run[w].reads, k)
         IN /\ h \in Heads /\ run[w].tree = h /\ e \in Index /\ k \in Nat
            /\ e.scan.head = Some(h) /\ e.scan.total = Some(Len(Tree[h])) /\ Pending(e)
            /\ e.scan.complete => AllCached(e, h)
            /\ Counted(e, h, run[w].from + k)
            /\ e.cursor = db.cursor
            /\ e.scan.readme = IF h \in HasReadme THEN "present" ELSE "absent"
  <1> DEFINE h == run[w].head
             n == run[w].from
             k == Cardinality(Window(w))
             e == CommitChunk(db, h, run[w].reads, k)
  <1>12. run[w].step = "commit" /\ run[w].step \in Steps
    BY DEF Is, Steps, Treed
  <1>1. db \in Index /\ h \in Heads /\ n \in Nat /\ run[w].reads \in SUBSET Blobs
    BY <1>12, RunCounts, ReadingHolds DEF TypeOK
  <1>2. /\ run[w].tree = h /\ db.scan.head = Some(h)
        /\ \A i \in WindowOf(h, n) : Tree[h][i] \in db.cache \cup run[w].reads
    BY <1>12, RunCounts DEF Holds, Treed
  <1>3. HeadCounts(db, run, h) /\ Reads(run[w], h)
    BY <1>1, <1>2, <1>12 DEF RowsCount, Reads, Treed
  <1>4. Pending(db) /\ Counted(db, h, n) /\ db.scan.total = Some(Len(Tree[h]))
          /\ (db.scan.complete => AllCached(db, h))
          /\ db.scan.readme = IF h \in HasReadme THEN "present" ELSE "absent"
    BY <1>3 DEF HeadCounts
  <1>5. Window(w) = WindowOf(h, n)
    BY <1>2 DEF Window, WindowOf
  <1>6. k \in Nat
    BY <1>12, WindowIsTyped DEF Treed
  <1>8. e \in Index
    BY <1>1, <1>6, CommitChunkKeeps DEF KeepsItems
  <1> DEFINE left == Left(db.scan.pending, k)
  <1>9. /\ Counted(e, h, n + k) /\ Pending(e) /\ e.scan.head = Some(h)
        /\ e.scan.total = db.scan.total /\ e.scan.pending = Some(left)
        /\ e.scan.complete = (db.scan.complete \/ left = 0)
        /\ AllCached(db, h) => AllCached(e, h)
        /\ e.cursor = db.cursor /\ e.scan.readme = db.scan.readme
    <2> DEFINE size == Cardinality(WindowOf(h, n))
               f == CommitChunk(db, h, run[w].reads, size)
               rest == Left(db.scan.pending, size)
    <2>1. /\ Counted(f, h, n + size) /\ Pending(f) /\ f.scan.head = Some(h)
          /\ f.scan.total = db.scan.total /\ f.scan.pending = Some(rest)
          /\ f.scan.complete = (db.scan.complete \/ rest = 0)
          /\ AllCached(db, h) => AllCached(f, h)
          /\ f.cursor = db.cursor /\ f.scan.readme = db.scan.readme
      <3> DEFINE reads == run[w].reads
      <3>1. reads \in SUBSET Blobs /\ \A i \in WindowOf(h, n) : Tree[h][i] \in db.cache \cup reads
        BY <1>1, <1>2
      <3>2. f = CommitChunk(db, h, reads, size)
        OBVIOUS
      <3> HIDE DEF h, n, reads, f
      <3> QED BY <1>1, <1>2, <1>4, <3>1, <3>2, ChunkCounts
    <2>2. k = size /\ e = f /\ left = rest
      BY <1>5
    <2> HIDE DEF size, f, rest, k, e, left
    <2> QED BY <2>1, <2>2
  <1>10. ASSUME left = 0 PROVE AllCached(e, h)
    <2>1. e.scan.pending[1] = 0
      BY <1>9, <1>10 DEF Some
    <2>2. n + k \in Nat
      BY <1>1, <1>6
    <2> HIDE DEF e
    <2> QED BY <1>1, <1>9, <2>1, <2>2, NothingLeft
  <1>11. e.scan.complete => AllCached(e, h)
    BY <1>4, <1>9, <1>10
  <1> QED BY <1>1, <1>2, <1>4, <1>6, <1>8, <1>9, <1>11

(* A chunk's write, and the run that is about to settle it.                *)
LEMMA CommitCounts ==
  ASSUME TypeOK, RowsCount(db, run), OneScan(run'), NEW w \in Workers, J7Commits(w)
  PROVE  RowsCount(db', run')
  <1> DEFINE h == run[w].head
             k == Cardinality(Window(w))
             n == run[w].from + k
             e == CommitChunk(db, h, run[w].reads, k)
             outcome == Finish(db', n)
             ended == Settling("J7", run[w].copy, outcome, run[w].since)
  <1>1. Is(w, "commit") /\ run[w].step \in Steps /\ run[w].from \in Nat
    BY RunsByStep, ReadingHolds DEF J7Commits, Is, Steps, Treed
  <1>2. /\ h \in Heads /\ e \in Index /\ k \in Nat
        /\ e.scan.head = Some(h) /\ e.scan.total = Some(Len(Tree[h])) /\ Pending(e)
        /\ e.scan.complete => AllCached(e, h)
        /\ Counted(e, h, n) /\ e.cursor = db.cursor
        /\ e.scan.readme = IF h \in HasReadme THEN "present" ELSE "absent"
    BY <1>1, ChunkedCounts
  <1>3. n \in Nat
    BY <1>1, <1>2
  <1>4. db' = BuildItems(e, run[w].copy, run[w].tree, run[w].gates, run[w].since)
    BY DEF J7Commits, Chunked
  <1>5. run' = [run EXCEPT ![w] = ended]
    BY DEF J7Commits, Ends
  <1> HIDE DEF e, n
  <1>6. db'.scan = e.scan /\ db'.cache = e.cache /\ db'.cursor = e.cursor
    BY <1>2, <1>4, ItemsKeepScan DEF KeepsScan
  <1>7. /\ Counted(db', h, n) /\ AllCached(db', h) = AllCached(e, h)
    BY <1>2, <1>6, CountedKept
  <1>8. run'[w] = ended
    BY <1>5 DEF TypeOK
  <1>9. ended.step = "settle" /\ ended.kind = "J7" /\ ended.outcome = outcome
    BY DEF Settling
  <1> HIDE DEF ended
  <1>10. \A v \in Workers \ {w} : ~InScan(run[v]) /\ ~InScan(run'[v])
    <2>1. InScan(run[w])
      BY <1>1 DEF InScan
    <2> QED BY <1>5, <2>1, OthersAreIdle DEF RowsCount
  <1>11. \A v \in Workers : Holds(db', run'[v])
    <2>1. Holds(db', ended)
      BY <1>9 DEF Holds, Treed
    <2> QED BY <1>8, <1>10, <2>1, ReadersScan
  <1>12. CASE db'.scan.pending[1] = 0
    <2>1. AllCached(db', h)
      BY <1>2, <1>3, <1>7, <1>12, NothingLeft
    <2>2. outcome = Done
      BY <1>12 DEF Finish
    <2>3. ~Pauses(run'[w]) /\ ~Reads(run'[w], h)
      BY <1>8, <1>9, <2>2 DEF Pauses, Reads, Done, Treed
    <2>4. Counted(db', h, Ordinal(db'))
      BY <2>1 DEF Counted
    <2>5. HeadCounts(db', run', h)
      BY <1>2, <1>6, <1>10, <2>1, <2>3, <2>4, OnlyCounts DEF Pending
    <2>6. \A j \in Heads : db'.scan.head = Some(j) => j = h
      BY <1>2, <1>6, SomeIsInjective
    <2> QED BY <1>11, <2>5, <2>6 DEF RowsCount
  <1>13. CASE db'.scan.pending[1] # 0
    <2>1. outcome = Partial(n)
      BY <1>2, <1>6, <1>13 DEF Finish, Pending
    <2>2. Pauses(run'[w]) /\ run'[w].outcome.cursor = n /\ ~Reads(run'[w], h)
      BY <1>8, <1>9, <2>1 DEF Pauses, Reads, Partial, Treed
    <2>3. db'.scan.complete => AllCached(db', h)
      BY <1>2, <1>6, <1>7
    <2>4. HeadCounts(db', run', h)
      BY <1>2, <1>6, <1>7, <1>10, <2>2, <2>3, OnlyCounts DEF Pending
    <2>5. \A j \in Heads : db'.scan.head = Some(j) => j = h
      BY <1>2, <1>6, SomeIsInjective
    <2> QED BY <1>11, <2>4, <2>5 DEF RowsCount
  <1> QED BY <1>12, <1>13

(* A settle that is written: a cursor that was honest, or none, which is   *)
(* honest of a row that has counted down.                                  *)
LEMMA SettleCounts ==
  ASSUME TypeOK, RowsCount(db, run), OneScan(run'), NEW w \in Workers, Settle(w),
         db' = EvaluateSingletons(Put(run[w])),
         db'.cursor # db.cursor /\ db'.cursor = None => db'.scan.pending = Some(0)
  PROVE  RowsCount(db', run')
  <1> DEFINE d == Put(run[w])
             outcome == run[w].outcome
  <1>1. /\ db \in Index /\ run[w].step = "settle" /\ run[w].kind \in {"J1", "J7"}
        /\ outcome \in Outcome
    BY RunsByStep DEF TypeOK, Settle, Is
  <1>2. d \in Index
    BY <1>1, PutIsTyped DEF Is
  <1>3. run' = [run EXCEPT ![w] = Free] /\ Free.step = "free" /\ ~InScan(Free)
    BY DEF Settle, Free, InScan, Steps, Treed
  <1>4. run'[w] = Free /\ \A v \in Workers \ {w} : run'[v] = run[v]
    BY <1>3 DEF TypeOK
  <1>5. CASE run[w].kind = "J1"
    <2>1. d = db
      BY <1>5 DEF Put
    <2>2. KeepsScan(db, db')
      BY <1>1, <2>1, ItemsKeepScan
    <2>3. \A v \in Workers : Alike(run[v], run'[v]) \/ (~InScan(run[v]) /\ ~InScan(run'[v]))
      BY <1>1, <1>3, <1>4, <1>5 DEF Alike, InScan, Steps, Treed
    <2> QED BY <2>2, <2>3, AlikeCounts
  <1>6. CASE run[w].kind = "J7"
    <2>1. d = [db EXCEPT !.cursor = CursorAfter(outcome)]
      BY <1>6 DEF Put
    <2> HIDE DEF outcome
    <2>2. d.scan = db.scan /\ d.cache = db.cache /\ d.cursor = CursorAfter(outcome)
      BY <1>1, <2>1 DEF Index
    <2> HIDE DEF d
    <2>3. db'.scan = db.scan /\ db'.cache = db.cache /\ db'.cursor = CursorAfter(outcome)
      BY <1>2, <2>2, ItemsKeepScan DEF KeepsScan, d
    <2>4. \A v \in Workers \ {w} : ~InScan(run[v]) /\ ~InScan(run'[v])
      <3>1. InScan(run[w])
        BY <1>1, <1>6 DEF InScan
      <3> QED BY <1>3, <3>1, OthersAreIdle DEF RowsCount
    <2>5. \A v \in Workers : Holds(db', run'[v])
      BY <1>3, <1>4, <2>4, ReadersScan
    <2>6. ASSUME NEW h \in Heads, db'.scan.head = Some(h) PROVE HeadCounts(db', run', h)
      <3>1. HeadCounts(db, run, h)
        BY <2>3, <2>6 DEF RowsCount
      <3>2. \A n : Counted(db', h, n) = Counted(db, h, n) /\ AllCached(db', h) = AllCached(db, h)
        BY <2>3, CountedKept
      <3>3. ~Pauses(run'[w]) /\ ~Reads(run'[w], h)
        BY <1>3, <1>4 DEF Pauses, Reads, Treed
      <3>4. Counted(db', h, Ordinal(db'))
        <4>1. CASE outcome.is = "partial"
          <5>1. Pauses(run[w])
            BY <1>1, <1>6, <4>1 DEF Pauses, outcome
          <5>2. Counted(db, h, outcome.cursor)
            BY <3>1, <5>1 DEF HeadCounts, outcome
          <5>3. db'.cursor = Some(outcome.cursor)
            BY <2>3, <4>1 DEF CursorAfter
          <5>4. Ordinal(db') = outcome.cursor
            BY <5>3 DEF Ordinal, Some, None
          <5> QED BY <3>2, <5>2, <5>4
        <4>2. CASE outcome.is # "partial"
          <5>1. Counted(db, h, Ordinal(db))
            <6>1. ~Pauses(run[w])
              BY <4>2 DEF Pauses, outcome
            <6> QED BY <2>3, <2>4, <2>6, <6>1, CursorCounts
          <5>2. Ordinal(db) \in Nat
            <6>1. db.cursor \in Maybe(Nat)
              BY <1>1 DEF Index
            <6> QED BY <6>1, MaybeHolds DEF Ordinal
          <5>3. CASE db'.cursor = db.cursor
            BY <3>2, <5>1, <5>3 DEF Ordinal
          <5>4. CASE db'.cursor # db.cursor
            <6>1. db'.cursor = None
              BY <2>3, <4>2, <5>4 DEF CursorAfter
            <6>2. db.scan.pending[1] = 0
              BY <2>3, <5>4, <6>1 DEF Some
            <6>3. AllCached(db, h)
              BY <5>1, <5>2, <6>2, NothingLeft
            <6> QED BY <3>2, <6>3 DEF Counted
          <5> QED BY <5>3, <5>4
        <4> QED BY <4>1, <4>2
      <3>5. /\ db'.scan.total = Some(Len(Tree[h])) /\ Pending(db')
            /\ db'.scan.complete => AllCached(db', h)
            /\ db'.scan.readme = IF h \in HasReadme THEN "present" ELSE "absent"
        BY <2>3, <3>1, <3>2 DEF HeadCounts, Pending
      <3> QED BY <2>4, <3>3, <3>4, <3>5, OnlyCounts
    <2> QED BY <2>5, <2>6 DEF RowsCount
  <1> QED BY <1>1, <1>5, <1>6


(* Every step of a worker.                                                 *)
LEMMA WorksCounts ==
  ASSUME TypeOK, RowsCount(db, run), OneScan(run'), NEW w \in Workers, Works(w),
         ~Spend("refusals"), db'.scan # NoScan => db'.scan.total # None,
         \A v \in Workers : run'[v].step \in Treed => run'[v].tree = run'[v].head,
         db'.cursor # db.cursor /\ db'.cursor = None => db'.scan.pending = Some(0)
  PROVE  RowsCount(db', run')
  <1>1. db \in Index /\ KeepsScan(db, db)
    BY DEF TypeOK, KeepsScan
  <1>2. \A v \in Workers : Alike(run[v], run[v])
    BY DEF Alike
  <1>3. ASSUME NEW c \in Copies, J1(w, c) PROVE RowsCount(db', run')
    <2>1. KeepsScan(db, db')
      BY <1>1, <1>3 DEF J1, KeepsScan, Index
    <2>2. /\ ~InScan(Settling("J1", c, Done, TRUE)) /\ ~InScan(Settling("J1", c, HardFail, TRUE))
          /\ ~InScan(run[w])
      BY <1>3 DEF Settling, InScan, J1, Is, Steps, Treed
    <2>3. run'[w] \in {Settling("J1", c, Done, TRUE), Settling("J1", c, HardFail, TRUE)}
            /\ \A v \in Workers \ {w} : run'[v] = run[v]
      BY <1>3 DEF J1, TypeOK
    <2>4. \A v \in Workers : Alike(run[v], run'[v]) \/ (~InScan(run[v]) /\ ~InScan(run'[v]))
      BY <1>2, <2>2, <2>3
    <2> QED BY <2>1, <2>4, AlikeCounts
  <1>4. ASSUME NEW c \in Copies, NEW k \in {"J1", "J7"}, TakeStale(w, <<k, c>>)
        PROVE  RowsCount(db', run')
    BY <1>1, <1>2, <1>4, AlikeCounts DEF TakeStale
  <1>6. ASSUME J7NotRead(w) PROVE RowsCount(db', run')
    <2> DEFINE h == run[w].head
               row == [head |-> Some(h), readme |-> "not_read", total |-> None,
                       complete |-> db.scan.head = Some(h) /\ db.scan.complete,
                       pending |-> IF db.scan.head = Some(h) THEN db.scan.pending ELSE None]
    <2>1. db' = [db EXCEPT !.scan = row]
      BY <1>6 DEF J7NotRead, WriteEnumeration
    <2>2. row.head = Some(h) /\ row.total = None
      OBVIOUS
    <2> HIDE DEF row
    <2>3. db'.scan = row
      BY <1>1, <2>1 DEF Index
    <2>4. Some(h) # NoScan.head
      BY DEF Some, NoScan, None
    <2> QED BY <2>2, <2>3, <2>4
  <1>7. ~J7Refused(w)
    BY DEF J7Refused
  <1>8. ASSUME Settle(w) PROVE RowsCount(db', run')
    <2>1. db' = EvaluateSingletons(Put(run[w]))
      BY <1>8 DEF Settle
    <2> QED BY <1>8, <2>1, SettleCounts
  <1> QED BY <1>3, <1>4, <1>6, <1>7, <1>8, FirstReadsCount, LaterReadsCount, RestartCounts,
             EnumeratesCounts, CommitCounts DEF Works

(* The steps of the walk, of the world and of the user: those that would   *)
(* clear a cache or a run disturb.                                         *)
LEMMA OthersCount ==
  ASSUME TypeOK, RowsCount(db, run), OneScan(run'), Step, \A w \in Workers : ~Works(w),
         \A what \in {"refusals", "crashes"} : ~Spend(what),
         db'.scan # NoScan => db'.scan.total # None
  PROVE  RowsCount(db', run')
  <1>1. db \in Index /\ KeepsScan(db, db)
    BY DEF TypeOK, KeepsScan
  <1>2. ASSUME run' = run, KeepsScan(db, db') PROVE RowsCount(db', run')
    <2>1. \A v \in Workers : Alike(run[v], run'[v])
      BY <1>2 DEF Alike
    <2> QED BY <1>2, <2>1, AlikeCounts
  <1>3. ASSUME NEW c \in Copies, HandOff(c) PROVE RowsCount(db', run')
    <2> DEFINE found == [db EXCEPT !.loc[c].presence = "present", !.loc[c].removed = FALSE]
    <2>1. found \in Index
      BY <1>1, FoundIsTyped
    <2>2. KeepsScan(db, found)
      BY <1>1 DEF KeepsScan, Index
    <2>3. run' = run /\ (db' = found \/ db' = MarkRootUnobserved(found, c))
      BY <1>3 DEF HandOff
    <2> HIDE DEF found
    <2>4. KeepsScan(found, MarkRootUnobserved(found, c))
      BY <2>1, ItemsKeepScan
    <2> QED BY <1>2, <2>2, <2>3, <2>4 DEF KeepsScan
  <1>4. ASSUME NEW c \in Copies, ApplyPresence(c) PROVE RowsCount(db', run')
    <2>1. KeepsScan(db, db') /\ run' = run
      BY <1>1, <1>4 DEF ApplyPresence, KeepsScan, Index
    <2> QED BY <1>2, <2>1
  <1>5. ASSUME OpenPage PROVE RowsCount(db', run')
    <2>1. KeepsScan(db, db')
      BY <1>1, <1>5, ItemsKeepScan DEF OpenPage
    <2>2. ASSUME NEW v \in Workers, run'[v] = [run[v] EXCEPT !.since = FALSE], ~Is(v, "free")
          PROVE  Alike(run[v], run'[v])
      <3> DEFINE settles == [step : {"settle"}, kind : {"J1", "J7"}, copy : Copies,
                             outcome : Outcome, since : BOOLEAN]
      <3>1. run[v] \in Reading \cup settles
        BY <2>2 DEF TypeOK, Run, Is, Free
      <3>2. \A r \in Reading : Alike(r, [r EXCEPT !.since = FALSE])
        BY DEF Reading, Alike, Steps, Treed
      <3>3. \A r \in settles : Alike(r, [r EXCEPT !.since = FALSE])
        BY DEF Alike, Steps, Treed
      <3> HIDE DEF settles
      <3> QED BY <2>2, <3>1, <3>2, <3>3
    <2>3. \A v \in Workers : Alike(run[v], run[v])
      BY DEF Alike
    <2>4. \A v \in Workers : Alike(run[v], run'[v])
      BY <1>5, <2>2, <2>3 DEF OpenPage
    <2> QED BY <2>1, <2>4, AlikeCounts
  <1>6. ASSUME NEW c \in Copies, Uninstall(c) PROVE RowsCount(db', run')
    <2> DEFINE removed == [db EXCEPT !.loc[c].removed = TRUE]
    <2>1. removed \in Index
      BY <1>1, RemovedIsTyped
    <2>2. KeepsScan(db, removed)
      BY <1>1 DEF KeepsScan, Index
    <2>3. db' = MarkUnverified(removed) /\ run' = run
      BY <1>6 DEF Uninstall
    <2> HIDE DEF removed
    <2> QED BY <1>2, <2>1, <2>2, <2>3, ItemsKeepScan DEF KeepsScan
  <1>7. ASSUME NEW c \in Copies, Commit(c) \/ Edited(c) \/ Leaves(c) \/ Returns(c)
        PROVE  RowsCount(db', run')
    <2>1. run' = run /\ (db' = db \/ db' = [db EXCEPT !.newest = c])
      BY <1>7 DEF Commit, Edited, Leaves, Returns
    <2>2. KeepsScan(db, db')
      BY <1>1, <2>1, FieldsKeepScan
    <2> QED BY <1>2, <2>1, <2>2
  <1>8. ASSUME NEW src \in Sources, SetSwitch(src) PROVE RowsCount(db', run')
    <2> DEFINE sweeps == [db.sweep EXCEPT ![src] = NoSweep]
    <2>1. SwitchOff(db, src) = [db EXCEPT !.on = db.on \ {src}, !.sweep = sweeps]
      BY <1>1 DEF SwitchOff, Index
    <2> HIDE DEF sweeps
    <2>2. KeepsScan(db, SwitchOff(db, src)) /\ KeepsScan(db, [db EXCEPT !.on = db.on \cup {src}])
      <3>1. \A S : KeepsScan(db, [db EXCEPT !.on = S])
        BY <1>1, FieldsKeepScan
      <3>2. \A S, T : KeepsScan(db, [db EXCEPT !.on = S, !.sweep = T])
        BY <1>1, FieldsKeepScan
      <3>3. KeepsScan(db, SwitchOff(db, src))
        <4>1. KeepsScan(db, [db EXCEPT !.on = db.on \ {src}, !.sweep = sweeps])
          BY <3>2
        <4> QED BY <2>1, <4>1
      <3>4. KeepsScan(db, [db EXCEPT !.on = db.on \cup {src}])
        BY <3>1
      <3> QED BY <3>3, <3>4
    <2>3. /\ run' = run
          /\ db' = SwitchOff(db, src) \/ db' = [db EXCEPT !.on = db.on \cup {src}]
      BY <1>8 DEF SetSwitch
    <2> QED BY <1>2, <2>2, <2>3
  <1>9. ASSUME SetArchived PROVE RowsCount(db', run')
    <2>1. run' = run /\ db' = [db EXCEPT !.archived = ~db.archived]
      BY <1>9 DEF SetArchived
    <2> QED BY <1>1, <1>2, <2>1, FieldsKeepScan
  <1>10. ASSUME SetGrant PROVE RowsCount(db', run')
    <2>1. CASE ~db.granted
      <3>1. run' = run /\ db' = [db EXCEPT !.granted = TRUE]
        BY <1>10, <2>1 DEF SetGrant
      <3> QED BY <1>1, <1>2, <3>1, FieldsKeepScan
    <2>2. CASE db.granted
      <3>1. run' = run /\ db' = RevokeContentScan(db)
        BY <1>10, <2>2 DEF SetGrant
      <3>2. db.scan = NoScan /\ db'.scan = NoScan
        <4>1. db'.scan = IF db.scan = NoScan THEN NoScan
                         ELSE [db.scan EXCEPT !.complete = FALSE, !.total = None, !.pending = None]
          BY <1>1, <3>1 DEF RevokeContentScan, Index
        <4>2. ASSUME db.scan # NoScan PROVE FALSE
          <5>1. db.scan \in ScanRow
            BY <1>1, <4>2 DEF Index
          <5>2. db'.scan \in ScanRow /\ db'.scan.total = None
            BY <4>1, <4>2, <5>1, NoneIsMaybe DEF ScanRow
          <5>3. db'.scan # NoScan
            BY <5>2 DEF ScanRow, NoScan
          <5> QED BY <5>2, <5>3
        <4> QED BY <4>1, <4>2
      <3>3. \A h \in Heads : db.scan.head # Some(h) /\ db'.scan.head # Some(h)
        BY <3>2 DEF NoScan, None, Some
      <3>4. ASSUME NEW w \in Workers PROVE Holds(db', run'[w])
        <4>1. run[w].step \in Treed => run[w].head \in Heads
          BY DEF TypeOK, Run, Reading, Free, Treed
        <4> QED BY <3>1, <3>3, <4>1 DEF RowsCount, Holds, Treed
      <3> QED BY <3>1, <3>3, <3>4 DEF RowsCount
    <2> QED BY <2>1, <2>2
  <1>11. ~Crash
    BY DEF Crash
  <1> QED BY <1>3, <1>4, <1>5, <1>6, <1>7, <1>8, <1>9, <1>10, <1>11 DEF Step

(* What an observation saw is among what it leaves, with its sweep.        *)

-----------------------------------------------------------------------------
(* What a sweep closes, and what it earns.                                 *)

(* What an observation saw is among what it leaves, with its sweep.        *)
LEMMA ObserveFinds ==
  ASSUME NEW d \in Index, NEW src \in Sources, NEW sweep, NEW seen
  PROVE  /\ seen \subseteq KeysOf(Observe(d, src, sweep, seen).items[src])
         /\ Observe(d, src, sweep, seen).sweep[src] = sweep
  <1> DEFINE missed == {i \in d.items[src] : i.key \notin seen}
             closed == {i \in missed : MayClose(i, sweep)}
             unreached == {i \in missed : Comparable(i, sweep) /\ sweep.outcome = "partial"}
             found == {[key |-> j, state |-> "open", at |-> sweep.at[1]] : j \in seen}
             others == unreached \cup Unverified(missed \ (closed \cup unreached))
             item(k) == [key |-> k, state |-> "open", at |-> sweep.at[1]]
  <1>1. Observe(d, src, sweep, seen)
          = [d EXCEPT !.sweep[src] = sweep, !.items[src] = found \cup others]
    BY DEF Observe
  <1>2. \A k \in seen : item(k) \in found /\ item(k).key = k
    OBVIOUS
  <1> HIDE DEF others, found, item
  <1>3. /\ Observe(d, src, sweep, seen).items[src] = found \cup others
        /\ Observe(d, src, sweep, seen).sweep[src] = sweep
    BY <1>1 DEF Index
  <1> QED BY <1>2, <1>3 DEF KeysOf

(* A complete sweep that leaves nothing in doubt leaves what it saw.       *)
LEMMA ObserveLeaves ==
  ASSUME NEW d \in Index, NEW src \in Sources, NEW sweep, NEW seen, sweep.outcome = "complete",
         \A i \in Observe(d, src, sweep, seen).items[src] : i.state # "unverified"
  PROVE  KeysOf(Observe(d, src, sweep, seen).items[src]) = seen
  <1> DEFINE missed == {i \in d.items[src] : i.key \notin seen}
             closed == {i \in missed : MayClose(i, sweep)}
             unreached == {i \in missed : Comparable(i, sweep) /\ sweep.outcome = "partial"}
             found == {[key |-> j, state |-> "open", at |-> sweep.at[1]] : j \in seen}
             doubted == missed \ (closed \cup unreached)
             new == found \cup unreached \cup Unverified(doubted)
  <1>1. Observe(d, src, sweep, seen) = [d EXCEPT !.sweep[src] = sweep, !.items[src] = new]
    BY DEF Observe
  <1>2. unreached = {}
    OBVIOUS
  <1>3. KeysOf(found) = seen
    <2>1. \A j \in seen : [key |-> j, state |-> "open", at |-> sweep.at[1]].key = j
      OBVIOUS
    <2> QED BY <2>1 DEF KeysOf
  <1>4. \A i \in Unverified(doubted) : i.state = "unverified"
    <2>1. doubted \in SUBSET d.items[src] /\ d.items[src] \in Items
      BY DEF Index
    <2> HIDE DEF doubted
    <2>2. doubted \in Items
      BY <2>1, ItemsMeet
    <2> QED BY <2>2, UnverifiedKeeps
  <1> HIDE DEF found, unreached, doubted
  <1>5. new = found \cup Unverified(doubted)
    BY <1>2
  <1> HIDE DEF new
  <1>6. Observe(d, src, sweep, seen).items[src] = new
    BY <1>1 DEF Index
  <1>7. new = found
    BY <1>4, <1>5, <1>6
  <1> QED BY <1>3, <1>6, <1>7

(* A layer falls only where a complete sweep leaves nothing in doubt, and  *)
(* fewer items than there were.                                            *)
LEMMA FallsAreWhole ==
  ASSUME NEW d \in Index, NEW e \in Index, NEW src \in Sources, Fell(d, e, src) > 0
  PROVE  /\ e.items[src] # d.items[src] /\ e.sweep[src].outcome = "complete"
         /\ \A i \in e.items[src] : i.state # "unverified"
  <1> DEFINE before == Cardinality(d.items[src])
             after == Cardinality(e.items[src])
  <1>1. before \in Nat /\ after \in Nat
    <2>1. d.items[src] \in Items /\ e.items[src] \in Items
      BY DEF Index
    <2> QED BY <2>1, FS_CardinalityType DEF Items
  <1>2. Admissible(d, e, src)
    BY DEF Fell
  <1>3. LayerValue(d, src) = Some(before) /\ LayerValue(e, src) = Some(after)
    BY <1>2 DEF Admissible, LayerValue
  <1>4. /\ e.sweep[src].outcome \in {"complete", "partial"}
        /\ \A i \in e.items[src] : i.state # "unverified"
    BY <1>2 DEF Admissible, LayerValue
  <1>5. LayerValue(d, src)[1] = before /\ LayerValue(e, src)[1] = after
    BY <1>3 DEF Some
  <1> HIDE DEF before, after
  <1>6. before - after > 0 /\ ~(e.sweep[src].outcome = "partial" /\ after < before)
    BY <1>2, <1>5 DEF Fell
  <1>7. after < before
    BY <1>1, <1>6
  <1>8. before # after
    BY <1>1, <1>7
  <1> QED BY <1>4, <1>6, <1>7, <1>8 DEF before, after

(* A complete sweep saw what a head owes, and nothing else.                *)
Saw(src, h) ==
  \E e \in Index : \E sweep \in Sweep :
    sweep.outcome = "complete" /\ db' = Observe(e, src, sweep, Owed(src, h))

(* What it earns is right.                                                 *)
LEMMA SawEarns ==
  ASSUME db \in Index, ClosesThere(db, db'), Earns, NEW src \in Sources, NEW h,
         db'.items[src] # db.items[src] /\ db'.sweep[src].outcome = "complete" => Saw(src, h)
  PROVE  EarnsRightly(src, h) /\ Closed(src) \cap Owed(src, h) = {}
  <1>1. db' \in Index
    BY DEF ClosesThere
  <1>2. ASSUME deltas'[src] > 0 PROVE KeysOf(db'.items[src]) = Owed(src, h)
    <2>1. Fell(db, db', src) > 0
      BY <1>2 DEF Earns, Deltas
    <2>2. /\ db'.items[src] # db.items[src] /\ db'.sweep[src].outcome = "complete"
          /\ \A i \in db'.items[src] : i.state # "unverified"
      BY <1>1, <2>1, FallsAreWhole
    <2>3. PICK e \in Index, sweep \in Sweep :
            sweep.outcome = "complete" /\ db' = Observe(e, src, sweep, Owed(src, h))
      BY <2>2 DEF Saw
    <2> QED BY <2>2, <2>3, ObserveLeaves
  <1>3. ASSUME NEW k \in Closed(src) PROVE k \notin Owed(src, h)
    <2>1. PICK i \in db.items[src] : i.key = k /\ i.key \notin KeysOf(db'.items[src])
      BY <1>3 DEF Closed, ClosedKeys, KeysOf
    <2>2. db'.items[src] # db.items[src] /\ db'.sweep[src].outcome = "complete"
      BY <2>1 DEF ClosesThere, KeysOf
    <2>3. PICK e \in Index, sweep \in Sweep :
            sweep.outcome = "complete" /\ db' = Observe(e, src, sweep, Owed(src, h))
      BY <2>2 DEF Saw
    <2>4. Owed(src, h) \subseteq KeysOf(db'.items[src])
      BY <2>3, ObserveFinds
    <2> QED BY <2>1, <2>4
  <1>4. ASSUME src \in paid' \ paid PROVE Closed(src) \ Owed(src, h) # {}
    <2>1. Closed(src) # {}
      BY <1>4 DEF Earns, Pays, Closed
    <2> QED BY <1>3, <2>1
  <1> QED BY <1>2, <1>3, <1>4 DEF EarnsRightly

(* A chunk that sweeps its copy completely saw the whole tree it read.     *)
LEMMA CommitSees ==
  ASSUME TypeOK, RowsCount(db, run), NEW w \in Workers, J7Commits(w),
         db'.items["todo"] # db.items["todo"], db'.sweep["todo"].outcome = "complete"
  PROVE  Saw("todo", run[w].tree)
  <1> DEFINE h == run[w].head
             e == CommitChunk(db, h, run[w].reads, Cardinality(Window(w)))
             proposed == SweepFromContent(e, run[w].gates)
             sweep == [outcome |-> OutcomeAtRoot(e, run[w].copy, proposed),
                       at |-> Some(run[w].copy), since |-> run[w].since]
  <1>1. Is(w, "commit") /\ db \in Index /\ h \in Heads /\ run[w] \in Reading
    BY RunsByStep, ReadingHolds DEF J7Commits, TypeOK, Is, Steps, Treed
  <1>2. e \in Index /\ run[w].tree = h /\ (e.scan.complete => AllCached(e, h))
    BY <1>1, ChunkedCounts
  <1>3. e.items = db.items
    <2>1. run[w].reads \in SUBSET Blobs /\ Cardinality(Window(w)) \in Nat
      BY <1>1, ReadingHolds, WindowIsTyped DEF Is, Treed
    <2> QED BY <1>1, <2>1, CommitChunkKeeps
  <1>4. db' = BuildItems(e, run[w].copy, h, run[w].gates, run[w].since)
    BY <1>2 DEF J7Commits, Chunked
  <1> HIDE DEF e
  <1>5. db' = Observe(e, "todo", sweep, Keys(e, h))
    <2>1. db' # e
      BY <1>3
    <2> QED BY <1>4, <2>1 DEF BuildItems
  <1>6. "todo" \in Sources
    BY DEF Sources
  <1>7. sweep.outcome = "complete" /\ sweep \in Sweep
    <2>1. Some(run[w].copy) \in Maybe(Copies) /\ run[w].since \in BOOLEAN
      BY <1>1, ReadingHolds, SomeIsMaybe
    <2>2. sweep \in Sweep
      BY <2>1 DEF Sweep, OutcomeAtRoot, SweepFromContent, Outcomes
    <2> HIDE DEF sweep
    <2>3. db'.sweep["todo"] = sweep
      BY <1>2, <1>5, <1>6, ObserveFinds
    <2> QED BY <2>2, <2>3
  <1>8. AllCached(e, h)
    <2>1. proposed = "complete"
      BY <1>7 DEF OutcomeAtRoot
    <2>2. ScanComplete(e)
      BY <2>1 DEF SweepFromContent
    <2> QED BY <1>2, <2>2 DEF ScanComplete
  <1>9. Keys(e, h) = WholeKeys(h)
    <2>1. Keys(e, h) = Keys([e EXCEPT !.cache = Blobs], h)
      BY <1>1, <1>2, <1>8, AllKeys
    <2>2. [e EXCEPT !.cache = Blobs].cache = Blobs /\ [db EXCEPT !.cache = Blobs].cache = Blobs
      BY <1>1, <1>2 DEF Index
    <2>3. \A x, y : x.cache = y.cache => Keys(x, h) = Keys(y, h)
      BY DEF Keys, Occurrences
    <2> QED BY <2>1, <2>2, <2>3 DEF WholeKeys
  <1>10. Owed("todo", run[w].tree) = Keys(e, h)
    BY <1>2, <1>9 DEF Owed
  <1> HIDE DEF sweep
  <1> QED BY <1>2, <1>5, <1>7, <1>10 DEF Saw

(* A settle that sweeps completely saw what the head of the row owes.      *)
LEMMA SettleSees ==
  ASSUME TypeOK, RowsCount(db, run), NEW w \in Workers, Is(w, "settle"),
         db' = EvaluateSingletons(Put(run[w])),
         db'.items["readme"] # db.items["readme"], db'.sweep["readme"].outcome = "complete"
  PROVE  Saw("readme", db.scan.head[1])
  <1> DEFINE d == Put(run[w])
             c == Primary(d)
             proposed == IF ReadmeReading(d) = "not_read" THEN "unobservable" ELSE "complete"
             seen == IF ReadmeReading(d) = "absent" THEN {<<"readme", 0>>} ELSE {}
             sweep == [outcome |-> OutcomeAtRoot(d, c, proposed), at |-> Some(c), since |-> TRUE]
  <1>1. d \in Index /\ d.items = db.items /\ d.scan = db.scan
    <2>1. d.scan = db.scan
      BY DEF Put, TypeOK, Index
    <2> QED BY <2>1, PutIsTyped
  <1> HIDE DEF d
  <1>2. db' = Observe(d, "readme", sweep, seen)
    <2>1. db' # d
      BY <1>1
    <2>2. db' = EvaluateSingletons(d)
      BY DEF d
    <2> QED BY <2>1, <2>2 DEF EvaluateSingletons
  <1>3. "readme" \in Sources
    BY DEF Sources
  <1>4. sweep.outcome = "complete" /\ sweep \in Sweep
    <2>1. Some(c) \in Maybe(Copies)
      BY <1>1, PrimaryIsACopy, SomeIsMaybe
    <2> HIDE DEF c
    <2>2. sweep \in Sweep
      BY <2>1 DEF Sweep, OutcomeAtRoot, Outcomes
    <2> HIDE DEF sweep
    <2>3. db'.sweep["readme"] = sweep
      BY <1>1, <1>2, <1>3, ObserveFinds
    <2> QED BY <2>2, <2>3
  <1>5. ReadmeReading(d) # "not_read"
    BY <1>4 DEF OutcomeAtRoot
  <1>6. db.scan \in ScanRow
    BY <1>1, <1>5 DEF ReadmeReading, Index
  <1>7. PICK h \in Heads : db.scan.head = Some(h)
    BY <1>6 DEF ScanRow
  <1>8. db.scan.readme = IF h \in HasReadme THEN "present" ELSE "absent"
    BY <1>7 DEF RowsCount, HeadCounts
  <1>9. ReadmeReading(d) = db.scan.readme
    BY <1>1, <1>5 DEF ReadmeReading
  <1>10. db.scan.head[1] = h
    BY <1>7 DEF Some
  <1>11. Owed("readme", db.scan.head[1]) = seen
    BY <1>8, <1>9, <1>10 DEF Owed
  <1> HIDE DEF sweep, seen
  <1> QED BY <1>1, <1>2, <1>4, <1>11 DEF Saw

(* A run that goes from its commit to its settle wrote the chunk, or       *)
(* nothing.                                                                *)
LEMMA CommitSettles ==
  ASSUME TypeOK, Next, NEW w \in Workers, Is(w, "commit"), run'[w].step = "settle"
  PROVE  (db' = db /\ NothingEarned) \/ J7Commits(w)
  <1>1. Step /\ run[w].step = "commit" /\ run[w] \in Run /\ run[w] \in Reading
    BY RunsByStep DEF Next, Is, TypeOK, Steps, Treed
  <1>2. ASSUME NEW v \in Workers, Works(v) PROVE (db' = db /\ NothingEarned) \/ J7Commits(w)
    <2>1. CASE v = w
      BY <1>1, <1>2, <2>1
         DEF Works, J1, J7Begins, TakeStale, J7ReadsCursor, J7ReadsGates, J7ReadsHead,
             J7ReadsSweep, J7Restarts, J7ReadsTree, J7TreeFails, J7NotRead, J7Enumerates,
             J7ReadsCache, J7ReadsBlobs, J7BlobsFail, J7Refused, Settle, Is
    <2>2. CASE v # w
      <3>1. run'[w] = run[w]
        BY <1>2, <2>2
           DEF TypeOK, Works, J1, J7Begins, TakeStale, J7ReadsCursor, J7ReadsGates, J7ReadsHead,
               J7ReadsSweep, J7Restarts, J7ReadsTree, J7TreeFails, J7NotRead, J7Enumerates,
               J7ReadsCache, J7ReadsBlobs, J7BlobsFail, J7Commits, J7Refused, Settle, Ends
      <3> QED BY <1>1, <3>1
    <2> QED BY <2>1, <2>2
  <1>3. CASE OpenPage
    <2>1. run'[w] \in {run[w], [run[w] EXCEPT !.since = FALSE]}
      BY <1>3 DEF OpenPage
    <2>2. [run[w] EXCEPT !.since = FALSE].step = run[w].step
      BY <1>1 DEF Reading
    <2> QED BY <1>1, <2>1, <2>2
  <1>4. CASE Crash
    BY <1>4 DEF Crash, Free
  <1>5. CASE run' = run
    BY <1>1, <1>5
  <1> QED BY <1>1, <1>2, <1>3, <1>4, <1>5
          DEF Step, SetGrant, SetArchived, SetSwitch, HandOff, ApplyPresence, Uninstall, Commit,
              Edited, Leaves, Returns

(* A run that settles and is free again settled, or died with the core.    *)
LEMMA SettleFrees ==
  ASSUME TypeOK, Next, NEW w \in Workers, Is(w, "settle"), run'[w].step = "free"
  PROVE  Settle(w) \/ Crash
  <1>1. Step /\ run[w].step = "settle" /\ run[w] \in Run
    BY DEF Next, Is, TypeOK
  <1>2. ASSUME NEW v \in Workers, Works(v) PROVE Settle(w)
    <2>1. CASE v = w
      BY <1>1, <1>2, <2>1
         DEF Works, J1, J7Begins, TakeStale, J7ReadsCursor, J7ReadsGates, J7ReadsHead,
             J7ReadsSweep, J7Restarts, J7ReadsTree, J7TreeFails, J7NotRead, J7Enumerates,
             J7ReadsCache, J7ReadsBlobs, J7BlobsFail, J7Commits, J7Refused, Is
    <2>2. CASE v # w
      <3>1. run'[w] = run[w]
        BY <1>2, <2>2
           DEF TypeOK, Works, J1, J7Begins, TakeStale, J7ReadsCursor, J7ReadsGates, J7ReadsHead,
               J7ReadsSweep, J7Restarts, J7ReadsTree, J7TreeFails, J7NotRead, J7Enumerates,
               J7ReadsCache, J7ReadsBlobs, J7BlobsFail, J7Commits, J7Refused, Settle, Ends
      <3> QED BY <1>1, <3>1
    <2> QED BY <2>1, <2>2
  <1>3. CASE OpenPage
    <2>1. run'[w] \in {run[w], [run[w] EXCEPT !.since = FALSE]}
      BY <1>3 DEF OpenPage
    <2>2. [run[w] EXCEPT !.since = FALSE].step = run[w].step
      <3>1. run[w] \notin {Free} \cup Reading
        BY <1>1 DEF Free, Reading, Steps, Treed
      <3> QED BY <1>1, <3>1 DEF Run
    <2> QED BY <1>1, <2>1, <2>2
  <1>4. CASE run' = run
    BY <1>1, <1>4
  <1> QED BY <1>1, <1>2, <1>3, <1>4
          DEF Step, SetGrant, SetArchived, SetSwitch, HandOff, ApplyPresence, Uninstall, Commit,
              Edited, Leaves, Returns

(* The rows count in every state.                                          *)
LEMMA SpecScanCounts == Spec => [](TypeOK /\ ScanCounts)
  <1>1. Init => ScanCounts
    <2> SUFFICES ASSUME Init PROVE ScanCounts
      OBVIOUS
    <2>1. budget \in Budget
      BY ScanAssumption DEF Init, Budget
    <2>2. db.scan = NoScan /\ \A w \in Workers : run[w] = Free
      BY DEF Init
    <2>3. \A h \in Heads : db.scan.head # Some(h)
      BY <2>2 DEF NoScan, None, Some
    <2>4. \A w \in Workers : ~InScan(run[w])
      BY <2>2 DEF InScan, Free, Steps, Treed
    <2> QED BY <2>1, <2>3, <2>4, ReadersScan DEF ScanCounts, RowsCount, OneScan
  <1>2. TypeOK /\ ScanCounts /\ [Next]_vars => ScanCounts'
    <2>1. ASSUME UNCHANGED vars, ScanCounts PROVE ScanCounts'
      BY <2>1 DEF vars, ScanCounts
    <2>2. ASSUME TypeOK, ScanCounts, Next PROVE ScanCounts'
      <3>1. budget' \in Budget
        BY <2>2, StepSpends DEF ScanCounts
      <3>2. ASSUME steady' PROVE RowsCount(db', run')
        <4>1. /\ steady /\ OneScan(run')
              /\ \A what \in {"refusals", "crashes"} : ~Spend(what)
              /\ db'.scan # NoScan => db'.scan.total # None
              /\ \A w \in Workers : run'[w].step \in Treed => run'[w].tree = run'[w].head
              /\ db'.cursor # db.cursor /\ db'.cursor = None => db'.scan.pending = Some(0)
          BY <2>2, <3>2, Undisturbed DEF ScanCounts
        <4>2. RowsCount(db, run)
          BY <2>2, <4>1 DEF ScanCounts
        <4>3. Step
          BY <2>2 DEF Next
        <4>4. CASE \E w \in Workers : Works(w)
          BY <2>2, <4>1, <4>2, <4>4, WorksCounts
        <4>5. CASE \A w \in Workers : ~Works(w)
          BY <2>2, <4>1, <4>2, <4>3, <4>5, OthersCount
        <4> QED BY <4>4, <4>5
      <3> QED BY <3>1, <3>2 DEF ScanCounts
    <2> QED BY <2>1, <2>2
  <1> QED BY <1>1, <1>2, SpecTypeOK, PTL DEF Spec

(* For any copies, heads, trees, markers and workers: while nothing        *)
(* disturbs the scans, an item closed as fixed is not in the tree that was *)
(* read, whole; for a row is complete only with every blob of its head in  *)
(* the cache, however runs fail, pause and begin again.                    *)
THEOREM SpecClosedIsGone == Spec => ClosedIsGone
  <1>1. TypeOK /\ ScanCounts /\ [Next]_vars =>
          [steady' => \A w \in Workers :
             Is(w, "commit") /\ run'[w].step = "settle"
               => Closed("todo") \cap WholeKeys(run[w].tree) = {}]_vars
    <2> SUFFICES ASSUME TypeOK, ScanCounts, Next, steady', NEW w \in Workers,
                        Is(w, "commit"), run'[w].step = "settle"
                 PROVE  Closed("todo") \cap WholeKeys(run[w].tree) = {}
      OBVIOUS
    <2>1. RowsCount(db, run)
      BY Undisturbed DEF ScanCounts
    <2>2. CASE db' = db
      BY <2>2 DEF Closed, ClosedKeys
    <2>3. CASE J7Commits(w)
      <3>1. ClosesThere(db, db') /\ db \in Index /\ Earns
        BY <2>3, ChunkedCloses DEF J7Commits, TypeOK
      <3>2. Closed("todo") \cap Owed("todo", run[w].tree) = {}
        BY <2>1, <2>3, <3>1, CommitSees, SawEarns DEF Sources
      <3> QED BY <3>2 DEF Owed
    <2>4. db' = db \/ J7Commits(w)
      BY CommitSettles
    <2> QED BY <2>2, <2>3, <2>4
  <1> QED BY <1>1, SpecScanCounts, PTL DEF Spec, ClosedIsGone

(* For any copies, heads, trees, markers and workers: while nothing        *)
(* disturbs the scans, a fall is recorded only down to what the head that  *)
(* was read owes, and a receipt of the day is written only when something  *)
(* closed is really gone from it.                                          *)
THEOREM SpecEarnedIsGone == Spec => EarnedIsGone
  <1>1. TypeOK /\ ScanCounts /\ [Next]_vars =>
          [steady' => \A w \in Workers :
             /\ Is(w, "commit") /\ run'[w].step = "settle" => EarnsRightly("todo", run[w].tree)
             /\ Is(w, "settle") /\ run'[w].step = "free"
                  => EarnsRightly("readme", db.scan.head[1])]_vars
    <2> SUFFICES ASSUME TypeOK, ScanCounts, Next, steady', NEW w \in Workers
                 PROVE  /\ Is(w, "commit") /\ run'[w].step = "settle"
                             => EarnsRightly("todo", run[w].tree)
                        /\ Is(w, "settle") /\ run'[w].step = "free"
                             => EarnsRightly("readme", db.scan.head[1])
      OBVIOUS
    <2>1. RowsCount(db, run) /\ db \in Index
      BY Undisturbed DEF ScanCounts, TypeOK
    <2>2. ASSUME NothingEarned, NEW src \in Sources, NEW h PROVE EarnsRightly(src, h)
      BY <2>2 DEF NothingEarned, NoDeltas, EarnsRightly
    <2>3. "todo" \in Sources /\ "readme" \in Sources
      BY DEF Sources
    <2>4. ASSUME Is(w, "commit"), run'[w].step = "settle" PROVE EarnsRightly("todo", run[w].tree)
      <3>1. CASE NothingEarned
        BY <2>2, <2>3, <3>1
      <3>2. CASE J7Commits(w)
        <4>1. ClosesThere(db, db') /\ Earns
          BY <2>4, <3>2, ChunkedCloses DEF J7Commits
        <4> QED BY <2>1, <2>3, <3>2, <4>1, CommitSees, SawEarns
      <3> QED BY <2>4, <3>1, <3>2, CommitSettles
    <2>5. ASSUME Is(w, "settle"), run'[w].step = "free"
          PROVE  EarnsRightly("readme", db.scan.head[1])
      <3>1. Settle(w)
        <4>1. ~Crash
          BY Undisturbed DEF ScanCounts, Crash
        <4> QED BY <2>5, <4>1, SettleFrees
      <3>2. CASE NothingEarned
        BY <2>2, <2>3, <3>2
      <3>3. CASE db' = EvaluateSingletons(Put(run[w])) /\ Earns
        <4>1. ClosesThere(db, db')
          BY <2>5, <3>3, SettledCloses
        <4> QED BY <2>1, <2>3, <2>5, <3>3, <4>1, SettleSees, SawEarns
      <3> QED BY <3>1, <3>2, <3>3 DEF Settle
    <2> QED BY <2>4, <2>5
  <1> QED BY <1>1, SpecScanCounts, PTL DEF Spec, EarnedIsGone
=============================================================================
