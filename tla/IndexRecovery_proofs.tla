------------------------ MODULE IndexRecovery_proofs ------------------------
(***************************************************************************)
(* Proofs about IndexRecovery, for any number of subjects, builds, deaths, *)
(* faults and corruptions: a corrupt index is kept, an undone rebuild      *)
(* leaves the directory as it found it, a record applies once, and what a  *)
(* readable sidecar has carried is not lost.                               *)
(***************************************************************************)
EXTENDS IndexRecovery, FiniteSetTheorems, SequenceTheorems, TLAPS

-----------------------------------------------------------------------------
(* What an index or a document knows.                                      *)

(* The larger of two numbers is one of them.                               *)
LEMMA MaxOfTwo ==
  ASSUME NEW a \in Int, NEW b \in Int
  PROVE  Max({a, b}) \in {a, b} /\ Max({a, b}) >= a /\ Max({a, b}) >= b
  <1>1. \E x \in {a, b} : \A y \in {a, b} : x >= y
    <2>1. CASE a >= b
      BY <2>1
    <2>2. CASE ~(a >= b)
      BY <2>2
    <2> QED BY <2>1, <2>2
  <1>2. Max({a, b}) \in {a, b} /\ \A y \in {a, b} : Max({a, b}) >= y
    BY <1>1 DEF Max
  <1> QED BY <1>2

(* A record is held or waits, never both, waits once, and is of a decision *)
(* already taken; what is restored without a scan is always held.          *)
Tidy(d, n) ==
    /\ \A x \in Items : d.held[x] <= n /\ (x[1] \in Globals => d.held[x] # Absent)
    /\ \A r \in d.pending : d.held[r.on] = Absent /\ r.value <= n
    /\ \A r, q \in d.pending : r.on = q.on => r = q

(* What can be tidy: an index that opens, or a document that reads.        *)
Content(d) == d.held \in Held /\ d.pending \subseteq Waiting

(* The values waiting for an item.                                         *)
Values(d, x) == {r.value : r \in {q \in d.pending : q.on = x}}

(* An item has at most one value waiting.                                  *)
LEMMA ValuesAre ==
  ASSUME NEW d, NEW n, Content(d), Tidy(d, n), NEW x \in Items
  PROVE  \/ Values(d, x) = {} /\ \A r \in d.pending : r.on # x
         \/ \E r \in d.pending : r.on = x /\ r.value \in Nat /\ Values(d, x) = {r.value}
  <1>1. CASE \A r \in d.pending : r.on # x
    BY <1>1 DEF Values
  <1>2. ASSUME NEW r \in d.pending, r.on = x
        PROVE  r.value \in Nat /\ Values(d, x) = {r.value}
    <2>1. \A q \in d.pending : q.on = x => q = r
      BY <1>2 DEF Tidy
    <2> QED BY <1>2, <2>1 DEF Values, Content, Waiting
  <1> QED BY <1>1, <1>2

(* An item is known to be at least k.                                      *)
Knows(d, x, k) == k = 0 \/ d.held[x] >= k \/ \E r \in d.pending : r.on = x /\ r.value >= k

(* What an item is known to be is held, or waits, or is nothing.           *)
LEMMA KnownIs ==
  ASSUME NEW d, NEW n, Content(d), Tidy(d, n), NEW x \in Items
  PROVE  \A k \in Nat : Known(d, x) >= k <=> Knows(d, x, k)
  <1>1. d.held[x] \in Nat \cup {Absent}
    BY DEF Content, Held
  <1>2. Known(d, x) = Max({0, d.held[x]} \cup Values(d, x))
    BY DEF Known, Values
  <1>3. CASE Values(d, x) = {} /\ \A r \in d.pending : r.on # x
    <2>1. {0, d.held[x]} \cup Values(d, x) = {0, d.held[x]} /\ 0 \in Int /\ d.held[x] \in Int
      BY <1>1, <1>3 DEF Absent
    <2>2. PICK m : m = Max({0, d.held[x]})
      OBVIOUS
    <2>3. m \in {0, d.held[x]} /\ m >= 0 /\ m >= d.held[x] /\ Known(d, x) = m
      BY <1>2, <2>1, <2>2, MaxOfTwo
    <2> QED BY <1>1, <1>3, <2>3 DEF Absent, Knows
  <1>4. ASSUME NEW r \in d.pending, r.on = x, r.value \in Nat, Values(d, x) = {r.value}
        PROVE  \A k \in Nat : Known(d, x) >= k <=> Knows(d, x, k)
    <2>1. d.held[x] = Absent /\ \A q \in d.pending : q.on = x => q = r
      BY <1>4 DEF Tidy
    <2>2. PICK m : m = Known(d, x)
      OBVIOUS
    <2>3. m = Max({0, Absent} \cup {r.value})
      BY <1>2, <1>4, <2>1, <2>2
    <2>4. m = r.value
      <3> DEFINE S == {0, Absent} \cup {r.value}
      <3>1. r.value \in S /\ \A y \in S : r.value >= y
        BY <1>4 DEF Absent
      <3>2. S \subseteq Int
        BY <1>4 DEF Absent
      <3>3. m \in S /\ \A y \in S : m >= y
        BY <2>3, <3>1 DEF Max
      <3> QED BY <1>4, <3>1, <3>2, <3>3
    <2> QED BY <1>4, <2>1, <2>2, <2>4 DEF Absent, Knows
  <1> QED BY <1>3, <1>4, ValuesAre

(* A match takes the value that waits, or starts the row at its default.   *)
LEMMA MatchTakes ==
  ASSUME NEW d, NEW n, Content(d), Tidy(d, n), NEW x \in Items
  PROVE  \/ Max({0} \cup Values(d, x)) = 0 /\ \A r \in d.pending : r.on # x
         \/ \E r \in d.pending : r.on = x /\ r.value \in Nat /\ Max({0} \cup Values(d, x)) = r.value
  <1>1. CASE Values(d, x) = {} /\ \A r \in d.pending : r.on # x
    <2>1. {0} \cup Values(d, x) = {0, 0}
      BY <1>1
    <2>2. PICK m : m = Max({0, 0})
      OBVIOUS
    <2>3. m \in {0, 0}
      BY <2>2, MaxOfTwo
    <2> QED BY <1>1, <2>1, <2>2, <2>3
  <1>2. ASSUME NEW r \in d.pending, r.on = x, r.value \in Nat, Values(d, x) = {r.value}
        PROVE  Max({0} \cup Values(d, x)) = r.value
    <2>1. PICK v \in Nat : v = r.value
      BY <1>2
    <2>2. PICK m : m = Max({0, v})
      OBVIOUS
    <2>3. m \in {0, v} /\ m >= 0 /\ m >= v
      BY <2>2, MaxOfTwo
    <2>4. {0} \cup Values(d, x) = {0, v}
      BY <1>2, <2>1
    <2> QED BY <2>1, <2>2, <2>3, <2>4
  <1> QED BY <1>1, <1>2, ValuesAre
-----------------------------------------------------------------------------
(* Types.                                                                  *)

Rebuilding == Building \cup {"undoing"}

(* Between its opening and its end a core has a sound index; while it      *)
(* migrates one, a backup of the same content can still be put back.       *)
Opened ==
    /\ run.at \in {"migrating", "restoring", "stamping", "serving", "exported"} => db.is = "sound"
    /\ run.at \in {"migrating", "restoring"} /\ run.from \in 1..(run.build - 1)
          => run.backup.is = "sound" /\ run.backup.held = db.held /\ run.backup.pending = db.pending
    /\ run.at = "migrating" => run.from <= db.version
    /\ run.at = "restoring" => run.from \in 1..(run.build - 1)
    /\ run.at = "exported" => sidecar.is = "present"

(* What is kept of this corruption is numbered by it, and nothing of it is *)
(* set aside outside a rebuild.                                            *)
AsideBefore ==
    /\ db.is = "corrupt" => db.id = corrupted
    /\ \A r \in aside : r.id <= corrupted
    /\ run.at \notin Rebuilding /\ db.is = "corrupt" => \A r \in aside : r.id < corrupted

This == [is |-> "corrupt", id |-> corrupted]
Its == [is |-> "journal", id |-> corrupted]
Copy == [is |-> "copy", id |-> corrupted]

(* The acts a rebuild has recorded are those that lead from the directory  *)
(* it found to the one there is, but for the files it created.             *)
Undoable ==
    LET was == run.found[5]
        kept == aside \ {Copy}
    IN  \/ run.undo = <<>> /\ db = This /\ journal = run.found[2] /\ kept = was
        \/ run.undo = <<"db">> /\ db = NoDb /\ journal = run.found[2] /\ kept = was \cup {This}
        \/ /\ run.undo = <<"db", "journal">> /\ db = NoDb /\ journal = FALSE
           /\ run.found[2] = TRUE /\ kept = was \cup {This, Its}
        \/ /\ run.undo = <<"db", "swap">> /\ db.is = "sound" /\ journal = FALSE
           /\ run.found[2] = FALSE /\ kept = was \cup {This}
        \/ /\ run.undo = <<"db", "journal", "swap">> /\ db.is = "sound" /\ journal = FALSE
           /\ run.found[2] = TRUE /\ kept = was \cup {This, Its}

(* Where a rebuild is, and which acts it has recorded there.               *)
Recorded ==
    /\ run.at \in {"build", "restore", "aside_db"} => run.undo = <<>>
    /\ run.at = "aside_journal" => run.undo = <<"db">>
    /\ run.at \in {"aside_sidecar", "swap"} => run.undo \in {<<"db">>, <<"db", "journal">>} /\ journal = FALSE
    /\ run.at = "reporting" => run.undo \in {<<"db", "swap">>, <<"db", "journal", "swap">>} /\ side = NoDb
    /\ run.at \in {"restore", "aside_db", "aside_journal", "aside_sidecar", "swap"} => side.is = "sound"

(* A rebuild holds the document that is on disk, and can be undone.        *)
Found ==
    run.at \in Rebuilding =>
        /\ run.doc = sidecar
        /\ run.found = <<This, run.found[2], NoDb, sidecar, run.found[5]>>
        /\ \A r \in run.found[5] : r.id < corrupted
        /\ Undoable
        /\ Recorded

FilesInv == TypeOK /\ Opened /\ AsideBefore /\ Found

(* Every index that opens and every document that reads is tidy.           *)
FilesTidy ==
    /\ db.is = "sound" => Tidy(db, decisions)
    /\ side.is = "sound" => Tidy(side, decisions)
    /\ sidecar.is = "present" => Tidy(sidecar, decisions)

(* What a process holds in hand goes by where it is.                       *)
LEMMA RunKinds ==
  ASSUME run \in Runs
  PROVE  /\ run.at = "exported" => run \in [at : {"exported"}, last : BOOLEAN]
         /\ run.at \in {"migrating", "restoring", "stamping"} =>
              run \in [at : {"migrating", "restoring", "stamping"}, build : 1..MaxBuild, from : Nat,
                      backup : {NoDb} \cup SoundFiles]
         /\ run.at \in Rebuilding =>
              run \in [at : Rebuilding, build : 1..MaxBuild, doc : Documents,
                      undo : Seq({"db", "journal", "swap"}),
                      found : CorruptFiles \X BOOLEAN \X {NoDb} \X Documents \X SUBSET SetAside]
  BY DEF Runs, Rebuilding, Building

(* A file goes by its kind.                                                *)
LEMMA FileKinds ==
  ASSUME TypeOK
  PROVE  /\ db.is = "none" <=> db = NoDb
         /\ db.is = "corrupt" <=> db \in CorruptFiles
         /\ db.is = "sound" <=> db \in SoundFiles
         /\ side.is = "sound" <=> side \in SoundFiles
         /\ side = NoDb <=> side.is # "sound"
         /\ sidecar.is = "present" <=>
              sidecar \in [is : {"present"}, gen : Nat, schema : Nat, held : Held, pending : SUBSET Waiting]
  BY DEF TypeOK, NoDb, CorruptFiles, SoundFiles, Documents, NoDoc, Unreadable

(* An index that holds nothing is sound.                                   *)
LEMMA EmptyIsSound == Empty \in SoundFiles
  BY DEF Empty, SoundFiles, Held, Waiting, Absent

(* What a step of a rebuild does to what the process holds.                *)
LEMMA RebuildHolds ==
  ASSUME run \in Runs, run.at \in Rebuilding, NEW label \in Rebuilding
  PROVE  /\ Goto(label) =>
              /\ run' \in Runs /\ run'.at = label /\ run'.undo = run.undo
              /\ run'.doc = run.doc /\ run'.found = run.found
         /\ \A act \in {"db", "journal", "swap"} : Acted(act, label) =>
              /\ run' \in Runs /\ run'.at = label /\ run'.undo = Append(run.undo, act)
              /\ run'.doc = run.doc /\ run'.found = run.found
  <1>1. run \in [at : Rebuilding, build : 1..MaxBuild, doc : Documents,
                 undo : Seq({"db", "journal", "swap"}),
                 found : CorruptFiles \X BOOLEAN \X {NoDb} \X Documents \X SUBSET SetAside]
    BY RunKinds
  <1> DEFINE F == CorruptFiles \X BOOLEAN \X {NoDb} \X Documents \X SUBSET SetAside
             R == [at : Rebuilding, build : 1..MaxBuild, doc : Documents,
                   undo : Seq({"db", "journal", "swap"}), found : F]
  <1>2. R \subseteq Runs
    BY DEF Runs, Rebuilding
  <1>3. run \in R
    BY <1>1
  <1> HIDE DEF F
  <1>4. ASSUME Goto(label)
        PROVE  run' \in R /\ run'.at = label /\ run'.undo = run.undo /\ run'.doc = run.doc /\ run'.found = run.found
    BY <1>3, <1>4 DEF Goto
  <1>5. ASSUME NEW act \in {"db", "journal", "swap"}, Acted(act, label)
        PROVE  /\ run' \in R /\ run'.at = label /\ run'.undo = Append(run.undo, act)
               /\ run'.doc = run.doc /\ run'.found = run.found
    <2>1. run' = [run EXCEPT !.at = label, !.undo = Append(run.undo, act)]
      BY <1>5 DEF Acted
    <2>2. Append(run.undo, act) \in Seq({"db", "journal", "swap"})
      BY <1>3
    <2> QED BY <1>3, <2>1, <2>2
  <1> HIDE DEF R
  <1> QED BY <1>2, <1>4, <1>5

(* A process that ended holds nothing.                                     *)
LEMMA EndedRuns ==
  /\ Down \in Runs /\ Serving \in Runs /\ Down.at = "down" /\ Serving.at = "serving"
  /\ "down" \notin Rebuilding /\ "serving" \notin Rebuilding
  BY DEF Down, Serving, Runs, Rebuilding, Building

(* Opening an index that is not corrupt.                                   *)
LEMMA OpenIndexStep ==
  ASSUME FilesInv, db.is # "corrupt", side = NoDb, NEW b \in 1..MaxBuild, OpenIndex(b),
         UNCHANGED <<side, sidecar, aside, histVars, bounds>>
  PROVE  FilesInv' /\ run'.at \notin Rebuilding
  <1> DEFINE d == IF db.is = "none" THEN Empty ELSE db
  <1>0. TypeOK /\ UNCHANGED <<side, sidecar, aside, corrupted, saved, torn, decisions, crashes, faults>>
    BY DEF FilesInv, histVars, bounds
  <1>1. d \in SoundFiles /\ d.is = "sound" /\ d.version \in Nat
    <2>1. d \in SoundFiles
      BY <1>0, EmptyIsSound, FileKinds DEF TypeOK
    <2> QED BY <2>1 DEF SoundFiles
  <1>2. db' = d /\ journal' = FALSE
    BY DEF OpenIndex
  <1>3. CASE d.version > b
    <2>1. run' = Down
      BY <1>3 DEF OpenIndex, Fail
    <2>2. run' \in Runs /\ run'.at = "down" /\ run'.at \notin Rebuilding
      BY <2>1, EndedRuns
    <2>3. TypeOK'
      BY <1>0, <1>1, <1>2, <2>2 DEF TypeOK
    <2>4. Opened' /\ Found'
      BY <2>2 DEF Opened, Found
    <2>5. AsideBefore'
      BY <1>0, <1>1, <1>2 DEF AsideBefore, FilesInv
    <2> QED BY <2>2, <2>3, <2>4, <2>5 DEF FilesInv
  <1>4. CASE ~(d.version > b)
    <2>1. run' = Opening(b, d.version, IF d.version \in 1..(b - 1) THEN d ELSE NoDb)
      BY <1>4 DEF OpenIndex
    <2> DEFINE copy == IF d.version \in 1..(b - 1) THEN d ELSE NoDb
    <2>2. copy \in {NoDb} \cup SoundFiles
      BY <1>1
    <2>3. copy = d \/ d.version \notin 1..(b - 1)
      OBVIOUS
    <2>4. run' = Opening(b, d.version, copy)
      BY <2>1
    <2> HIDE DEF copy, d
    <2>5. /\ run' = [at |-> "migrating", build |-> b, from |-> d.version, backup |-> copy]
      BY <2>4 DEF Opening
    <2>6. /\ run' \in Runs /\ run'.at = "migrating" /\ run'.at \notin Rebuilding
          /\ run'.build = b /\ run'.from = d.version /\ run'.backup = copy
      BY <1>1, <2>2, <2>5 DEF Runs, Rebuilding, Building
    <2>7. TypeOK'
      BY <1>0, <1>1, <1>2, <2>6 DEF TypeOK
    <2>8. Opened'
      BY <1>1, <1>2, <2>3, <2>6 DEF Opened
    <2>9. AsideBefore'
      BY <1>0, <1>1, <1>2 DEF AsideBefore, FilesInv
    <2> QED BY <2>6, <2>7, <2>8, <2>9 DEF FilesInv, Found
  <1> QED BY <1>3, <1>4

(* A start keeps the files in order.                                       *)
LEMMA StartFiles ==
  ASSUME FilesInv, NEW b \in 1..MaxBuild, StartOpen(b) \/ StartRebuild(b)
  PROVE  FilesInv'
  <1>a. TypeOK /\ run.at = "down" /\ run.at \notin Rebuilding
    BY EndedRuns DEF FilesInv, StartOpen, StartRebuild
  <1>0. TypeOK /\ run.at = "down" /\ side = NoDb /\ run.at \notin Rebuilding
    BY <1>a DEF TypeOK, Rebuilding
  <1>1. CASE StartOpen(b)
    <2>1. CASE db.is = "corrupt"
      <3>1. UNCHANGED <<db, journal, side, sidecar, aside, run, corrupted, saved, torn, decisions, crashes, faults>>
        BY <1>1, <2>1 DEF StartOpen, histVars, bounds
      <3> QED BY <3>1 DEF FilesInv, TypeOK, Opened, AsideBefore, Found, Undoable, Recorded, This, Its, Copy
    <2>2. CASE db.is # "corrupt"
      BY <1>0, <1>1, <2>2, OpenIndexStep DEF StartOpen
    <2> QED BY <2>1, <2>2
  <1>2. CASE StartRebuild(b)
    <2>0. UNCHANGED <<db, journal, side, sidecar, aside, corrupted, saved, torn, decisions, crashes, faults>>
          /\ db.is = "corrupt"
      BY <1>2 DEF StartRebuild, histVars, bounds
    <2>1. CASE run' = run
      BY <2>0, <2>1 DEF FilesInv, TypeOK, Opened, AsideBefore, Found, Undoable, Recorded, This, Its, Copy
    <2>2. CASE run' = Rebuild(b, sidecar, Dir)
      <3>1. run' = [at |-> "build", build |-> b, doc |-> sidecar, undo |-> <<>>,
                    found |-> <<db, journal, side, sidecar, aside>>]
        BY <2>2 DEF Rebuild, Dir
      <3>2. db \in CorruptFiles /\ db = This
        BY <1>0, <2>0, FileKinds DEF CorruptFiles, FilesInv, AsideBefore, This
      <3>3. <<db, journal, side, sidecar, aside>> \in
               CorruptFiles \X BOOLEAN \X {NoDb} \X Documents \X SUBSET SetAside
        BY <1>0, <3>2 DEF TypeOK
      <3>4. run' \in Runs
        BY <1>0, <3>1, <3>3 DEF Runs, Building, TypeOK
      <3>5. /\ run'.at = "build" /\ run'.doc = sidecar /\ run'.undo = <<>>
            /\ run'.found = <<db, journal, side, sidecar, aside>>
            /\ run'.found[2] = journal /\ run'.found[5] = aside
        BY <3>1
      <3>6. \A r \in aside : r.id < corrupted
        BY <1>0, <2>0 DEF FilesInv, AsideBefore
      <3>7. TypeOK'
        BY <1>0, <2>0, <3>4, <3>5 DEF TypeOK
      <3>8. Opened' /\ AsideBefore'
        BY <2>0, <3>5, <3>6 DEF Opened, AsideBefore, FilesInv
      <3>9. Copy \notin aside
        BY <1>0, <3>6 DEF Copy, TypeOK
      <3>10. Undoable'
        BY <2>0, <3>2, <3>5, <3>9 DEF Undoable, This, Copy
      <3>11. Found'
        BY <1>0, <2>0, <3>2, <3>5, <3>6, <3>10 DEF Found, Recorded, This
      <3> QED BY <3>7, <3>8, <3>11 DEF FilesInv
    <2> QED BY <1>2, <2>1, <2>2 DEF StartRebuild
  <1> QED BY <1>1, <1>2

(* A step of an opening keeps the files in order.                          *)
LEMMA OpenFiles ==
  ASSUME FilesInv, Open
  PROVE  FilesInv'
  <1>0. TypeOK /\ Opened /\ AsideBefore
    BY DEF FilesInv
  <1> DEFINE R == [at : {"migrating", "restoring", "stamping"}, build : 1..MaxBuild, from : Nat,
                   backup : {NoDb} \cup SoundFiles]
  <1>1. run.at \in {"migrating", "restoring", "stamping"}
    BY DEF Open, Migrate, CheckMirror, Stamp, MigrateFails, RestoreBackup, RestoreCut
  <1>2. run \in R /\ run.at \notin Rebuilding /\ R \subseteq Runs
    BY <1>0, <1>1, RunKinds DEF TypeOK, Rebuilding, Building, Runs
  <1>3. db \in SoundFiles /\ db.is = "sound"
    BY <1>0, <1>1, FileKinds DEF Opened
  <1>4. side = NoDb
    BY <1>0, <1>2 DEF TypeOK, Rebuilding
  <1>5. ASSUME NEW label \in {"restoring", "stamping"}, Goto(label)
        PROVE  /\ run' \in Runs /\ run'.at = label /\ run'.at \notin Rebuilding
               /\ run'.build = run.build /\ run'.from = run.from /\ run'.backup = run.backup
    <2>1. run' = [run EXCEPT !.at = label]
      BY <1>5 DEF Goto
    <2>2. run' \in R /\ run'.at = label /\ run'.build = run.build /\ run'.from = run.from /\ run'.backup = run.backup
      BY <1>2, <2>1
    <2> QED BY <1>2, <2>2 DEF Rebuilding, Building
  <1> HIDE DEF R
  <1>6. \A why : Fail(why) => run' = Down
    BY DEF Fail
  <1>7. CASE Migrate
    <2>1. /\ db' = [db EXCEPT !.version = @ + 1] /\ run.at = "migrating"
          /\ UNCHANGED <<journal, side, sidecar, aside, run, corrupted, saved, torn, decisions, crashes, faults>>
      BY <1>7 DEF Migrate, histVars, bounds
    <2>2. /\ db' \in SoundFiles /\ db'.is = "sound" /\ db'.held = db.held /\ db'.pending = db.pending
          /\ db'.version = db.version + 1 /\ db.version \in Nat
      BY <1>3, <2>1 DEF SoundFiles
    <2>3. TypeOK'
      BY <1>0, <2>1, <2>2 DEF TypeOK
    <2>4. run.from \in Nat
      BY <1>1, <1>0, RunKinds DEF TypeOK
    <2>5. Opened'
      BY <1>0, <2>1, <2>2, <2>4 DEF Opened
    <2> QED BY <1>0, <1>2, <2>1, <2>2, <2>3, <2>5 DEF FilesInv, AsideBefore, Found
  <1>8. CASE CheckMirror
    <2>1. /\ UNCHANGED <<db, journal, side, sidecar, aside, corrupted, saved, torn, decisions, crashes, faults>>
          /\ side = NoDb /\ (Goto("stamping") \/ run' = Down)
      BY <1>4, <1>6, <1>8 DEF CheckMirror, histVars, bounds
    <2>2. run' \in Runs /\ run'.at \in {"stamping", "down"} /\ run'.at \notin Rebuilding
      BY <1>5, <2>1, EndedRuns
    <2>3. TypeOK' /\ Opened' /\ AsideBefore'
      BY <1>0, <1>3, <2>1, <2>2 DEF TypeOK, Opened, AsideBefore
    <2> QED BY <2>2, <2>3 DEF FilesInv, Found
  <1>9. CASE Stamp
    <2>1. /\ UNCHANGED <<journal, side, sidecar, aside, corrupted, saved, torn, decisions, crashes, faults>>
          /\ side = NoDb /\ run' = Serving /\ db' = [db EXCEPT !.mirror = db.version]
      BY <1>4, <1>9 DEF Stamp, histVars, bounds
    <2>2. run' \in Runs /\ run'.at = "serving" /\ run'.at \notin Rebuilding
      BY <2>1, EndedRuns
    <2>3. db' \in SoundFiles /\ db'.is = "sound"
      BY <1>3, <2>1 DEF SoundFiles
    <2>4. TypeOK' /\ Opened' /\ AsideBefore'
      BY <1>0, <2>1, <2>2, <2>3 DEF TypeOK, Opened, AsideBefore
    <2> QED BY <2>2, <2>4 DEF FilesInv, Found
  <1>10. CASE MigrateFails
    <2>1. /\ UNCHANGED <<db, journal, side, sidecar, aside, corrupted, saved, torn, decisions, crashes>>
          /\ side = NoDb /\ faults' = faults + 1 /\ run.at = "migrating" /\ db.version < run.build
          /\ (run.from > 0 /\ Goto("restoring")) \/ run' = Down
      BY <1>4, <1>6, <1>10 DEF MigrateFails, histVars
    <2>2. run' \in Runs /\ run'.at \in {"restoring", "down"} /\ run'.at \notin Rebuilding
      BY <1>5, <2>1, EndedRuns
    <2>3. TypeOK'
      BY <1>0, <2>1, <2>2 DEF TypeOK
    <2>4. run.from \in Nat /\ run.build \in Nat /\ db.version \in Nat /\ run.from <= db.version
      BY <1>0, <1>1, <1>3, <2>1, RunKinds DEF TypeOK, SoundFiles, Opened
    <2>5. Opened'
      <3>1. CASE run' = Down
        BY <3>1, EndedRuns DEF Opened
      <3>2. CASE run.from > 0 /\ Goto("restoring")
        <4>1. run.from \in 1..(run.build - 1)
          BY <2>1, <2>4, <3>2
        <4>2. /\ run'.at = "restoring" /\ run'.build = run.build /\ run'.from = run.from
              /\ run'.backup = run.backup
          BY <1>5, <3>2
        <4>3. run.backup.is = "sound" /\ run.backup.held = db.held /\ run.backup.pending = db.pending
          BY <1>0, <2>1, <4>1 DEF Opened
        <4> QED BY <1>3, <2>1, <4>1, <4>2, <4>3 DEF Opened
      <3> QED BY <2>1, <3>1, <3>2
    <2>6. AsideBefore'
      BY <1>3, <1>0, <2>1 DEF AsideBefore
    <2> QED BY <2>2, <2>3, <2>5, <2>6 DEF FilesInv, Found
  <1>11. CASE RestoreBackup
    <2>1. /\ UNCHANGED <<journal, side, sidecar, aside, corrupted, saved, torn, decisions, crashes, faults>>
          /\ run' = Down /\ db' = run.backup /\ run.at = "restoring"
      BY <1>6, <1>11 DEF RestoreBackup, histVars, bounds
    <2>2. run.backup \in SoundFiles
      <3>1. run.backup.is = "sound" /\ run.backup \in {NoDb} \cup SoundFiles
        BY <1>0, <1>1, <2>1, RunKinds DEF Opened, TypeOK
      <3> QED BY <3>1 DEF NoDb
    <2>3. run' \in Runs /\ run'.at = "down" /\ run'.at \notin Rebuilding
      BY <2>1, EndedRuns
    <2> QED BY <1>0, <1>4, <2>1, <2>2, <2>3 DEF FilesInv, TypeOK, Opened, AsideBefore, Found, SoundFiles
  <1>12. CASE RestoreCut
    <2>1. /\ UNCHANGED <<journal, side, sidecar, aside, saved, torn, decisions, faults>>
          /\ run' = Down /\ crashes' = crashes + 1
          /\ \/ db' = [is |-> "corrupt", id |-> corrupted + 1] /\ corrupted' = corrupted + 1
             \/ db' = db /\ corrupted' = corrupted
      BY <1>12 DEF RestoreCut, Corrupted
    <2>2. run' \in Runs /\ run'.at = "down" /\ run'.at \notin Rebuilding
      BY <2>1, EndedRuns
    <2>3. Opened' /\ Found'
      BY <2>2 DEF Opened, Found
    <2>4. AsideBefore'
      BY <1>0, <1>3, <2>1 DEF AsideBefore, TypeOK, SetAside
    <2> QED BY <1>0, <1>4, <2>1, <2>2, <2>3, <2>4 DEF FilesInv, TypeOK, CorruptFiles
  <1> QED BY <1>7, <1>8, <1>9, <1>10, <1>11, <1>12 DEF Open

(* A step of a serving core keeps the files in order.                      *)
LEMMA ServingFiles ==
  ASSUME FilesInv,
         \/ \E x \in Items : Appear(x) \/ Decide(x)
         \/ \E last \in BOOLEAN : WriteSidecar(last)
         \/ StampGeneration \/ ShutDownUnsaved,
         FilesTidy
  PROVE  FilesInv'
  <1>0. TypeOK /\ Opened /\ AsideBefore
    BY DEF FilesInv
  <1>1. run.at \in {"serving", "exported"} /\ run.at \notin Rebuilding
    BY EndedRuns DEF Appear, Decide, WriteSidecar, StampGeneration, ShutDownUnsaved, Rebuilding, Building
  <1>2. side = NoDb /\ db \in SoundFiles /\ db.is = "sound"
    BY <1>0, <1>1, FileKinds DEF TypeOK, Opened, Rebuilding
  <1>3. Content(db) /\ Tidy(db, decisions)
    BY <1>2 DEF FilesTidy, SoundFiles, Content
  <1>4. ASSUME NEW x \in Items, Appear(x)
        PROVE  FilesInv'
    <2>1. /\ db' = [db EXCEPT !.held[x] = Max({0} \cup Values(db, x)),
                              !.pending = {q \in db.pending : q.on # x}]
          /\ UNCHANGED <<journal, side, sidecar, aside, run, corrupted, saved, torn, decisions, crashes, faults>>
      BY <1>4 DEF Appear, Match, Values, histVars, bounds
    <2>2. PICK v : v = Max({0} \cup Values(db, x))
      OBVIOUS
    <2>3. v \in Nat
      BY <1>3, <2>2, MatchTakes
    <2>4. db' \in SoundFiles /\ db'.is = "sound"
      <3>1. [db.held EXCEPT ![x] = v] \in Held
        BY <1>3, <2>3 DEF Held, Content
      <3>2. {q \in db.pending : q.on # x} \in SUBSET Waiting
        BY <1>3 DEF Content
      <3>3. db' = [db EXCEPT !.held = [db.held EXCEPT ![x] = v], !.pending = {q \in db.pending : q.on # x}]
        BY <1>2, <2>1, <2>2 DEF SoundFiles
      <3> QED BY <1>2, <3>1, <3>2, <3>3 DEF SoundFiles
    <2> QED BY <1>0, <1>1, <1>2, <2>1, <2>4 DEF FilesInv, TypeOK, Opened, AsideBefore, Found
  <1>5. ASSUME NEW x \in Items, Decide(x)
        PROVE  FilesInv'
    <2>1. /\ db' = [db EXCEPT !.held[x] = decisions + 1] /\ decisions' = decisions + 1
          /\ UNCHANGED <<journal, side, sidecar, aside, run, corrupted, saved, torn, crashes, faults>>
      BY <1>5 DEF Decide, histVars
    <2>2. db' \in SoundFiles /\ db'.is = "sound"
      <3>1. [db.held EXCEPT ![x] = decisions + 1] \in Held
        BY <1>0, <1>3 DEF Held, Content, TypeOK
      <3>2. db' = [db EXCEPT !.held = [db.held EXCEPT ![x] = decisions + 1]]
        BY <1>2, <2>1 DEF SoundFiles
      <3> QED BY <1>2, <3>1, <3>2 DEF SoundFiles
    <2>3. run.at = "serving"
      BY <1>5, EndedRuns DEF Decide
    <2> QED BY <1>0, <1>1, <1>2, <2>1, <2>2, <2>3 DEF FilesInv, TypeOK, Opened, AsideBefore, Found
  <1>6. ASSUME NEW last \in BOOLEAN, WriteSidecar(last)
        PROVE  FilesInv'
    <2>1. /\ sidecar' = Export(db) /\ saved' = [x \in Items |-> Max({saved[x], db.held[x]})]
          /\ run' = [at |-> "exported", last |-> last]
          /\ UNCHANGED <<db, journal, side, aside, corrupted, torn, decisions, crashes, faults>>
      BY <1>6 DEF WriteSidecar, bounds
    <2>2. sidecar' \in Documents /\ sidecar'.is = "present"
      BY <1>2, <2>1 DEF Documents, Export, SoundFiles
    <2>3. saved' \in [Items -> Nat]
      <3>1. ASSUME NEW x \in Items PROVE Max({saved[x], db.held[x]}) \in Nat
        <4>1. PICK s \in Nat : s = saved[x]
          BY <1>0 DEF TypeOK
        <4>2. PICK h \in Int : h = db.held[x]
          BY <1>3 DEF Content, Held, Absent
        <4>3. PICK m : m = Max({s, h})
          OBVIOUS
        <4>4. m \in {s, h} /\ m >= s
          BY <4>3, MaxOfTwo
        <4> QED BY <4>1, <4>2, <4>3, <4>4
      <3> QED BY <2>1, <3>1
    <2>4. run' \in Runs /\ run'.at = "exported" /\ run'.at \notin Rebuilding
      BY <2>1 DEF Runs, Rebuilding, Building
    <2> QED BY <1>0, <1>2, <2>1, <2>2, <2>3, <2>4 DEF FilesInv, TypeOK, Opened, AsideBefore, Found
  <1>7. CASE StampGeneration
    <2>1. /\ db' = [db EXCEPT !.gen = sidecar.gen] /\ run' \in {Down, Serving} /\ run.at = "exported"
          /\ UNCHANGED <<journal, side, sidecar, aside, corrupted, saved, torn, decisions, crashes, faults>>
      BY <1>7 DEF StampGeneration, histVars, bounds
    <2>2. sidecar.gen \in Nat
      BY <1>0, <2>1, FileKinds DEF Opened
    <2>3. db' \in SoundFiles /\ db'.is = "sound"
      BY <1>2, <2>1, <2>2 DEF SoundFiles
    <2>4. run' \in Runs /\ run'.at \in {"down", "serving"} /\ run'.at \notin Rebuilding
      BY <2>1, EndedRuns
    <2> QED BY <1>0, <1>2, <2>1, <2>3, <2>4 DEF FilesInv, TypeOK, Opened, AsideBefore, Found
  <1>8. CASE ShutDownUnsaved
    <2>1. /\ run' = Down /\ faults' = faults + 1
          /\ UNCHANGED <<db, journal, side, sidecar, aside, corrupted, saved, torn, decisions, crashes>>
      BY <1>8 DEF ShutDownUnsaved, histVars
    <2>2. run' \in Runs /\ run'.at = "down" /\ run'.at \notin Rebuilding
      BY <2>1, EndedRuns
    <2> QED BY <1>0, <1>2, <2>1, <2>2 DEF FilesInv, TypeOK, Opened, AsideBefore, Found
  <1> QED BY <1>4, <1>5, <1>6, <1>7, <1>8

(* What befalls the files keeps them in order.                             *)
LEMMA FateFiles ==
  ASSUME FilesInv, Crash \/ Corrupt \/ Rot
  PROVE  FilesInv'
  <1>0. TypeOK /\ Opened /\ AsideBefore /\ Found
    BY DEF FilesInv
  <1>1. CASE Crash
    <2>1. /\ run' = Down /\ side' = NoDb /\ crashes' = crashes + 1 /\ torn' = (torn \/ db.is = "none")
          /\ aside' = IF db.is = "corrupt" THEN aside \ {Copy} ELSE aside
          /\ UNCHANGED <<db, journal, sidecar, corrupted, saved, decisions, faults>>
      BY <1>1 DEF Crash, Copy
    <2>2. run' \in Runs /\ run'.at = "down" /\ run'.at \notin Rebuilding
      BY <2>1, EndedRuns
    <2>3. aside' \subseteq aside
      BY <2>1
    <2>4. TypeOK' /\ Opened' /\ Found'
      BY <1>0, <2>1, <2>2, <2>3 DEF TypeOK, Opened, Found
    <2>5. db.is = "corrupt" => \A r \in aside' : r.id < corrupted
      <3>1. CASE run.at \in Rebuilding /\ db.is = "corrupt"
        <4>1. aside \ {Copy} = run.found[5] /\ \A r \in run.found[5] : r.id < corrupted
          BY <1>0, <3>1 DEF Found, Undoable, NoDb
        <4> QED BY <2>1, <3>1, <4>1
      <3>2. CASE run.at \notin Rebuilding
        BY <1>0, <2>3, <3>2 DEF AsideBefore
      <3> QED BY <3>1, <3>2
    <2>6. AsideBefore'
      BY <1>0, <2>1, <2>3, <2>5 DEF AsideBefore
    <2> QED BY <2>4, <2>6 DEF FilesInv
  <1>2. CASE Corrupt
    <2>1. /\ run' = run /\ run.at = "down" /\ run.at \notin Rebuilding /\ db.is = "sound"
          /\ corrupted' = corrupted + 1 /\ db' = [is |-> "corrupt", id |-> corrupted + 1]
          /\ journal' \in BOOLEAN
          /\ UNCHANGED <<side, sidecar, aside, saved, torn, decisions, crashes, faults>>
      BY <1>2, EndedRuns DEF Corrupt, Corrupted, bounds
    <2>2. TypeOK'
      BY <1>0, <2>1 DEF TypeOK, CorruptFiles
    <2>3. AsideBefore'
      BY <1>0, <2>1 DEF AsideBefore, TypeOK, SetAside
    <2> QED BY <2>1, <2>2, <2>3 DEF FilesInv, Opened, Found
  <1>3. CASE Rot
    <2>1. /\ run' = run /\ run.at = "down" /\ run.at \notin Rebuilding /\ sidecar' = Unreadable
          /\ saved' = [x \in Items |-> 0] /\ faults' = faults + 1
          /\ UNCHANGED <<db, journal, side, aside, corrupted, torn, decisions, crashes>>
      BY <1>3, EndedRuns DEF Rot
    <2> QED BY <1>0, <2>1 DEF FilesInv, TypeOK, Documents, Opened, AsideBefore, Found
  <1> QED BY <1>1, <1>2, <1>3

(* A document's records, staged, are records, and the global half is held. *)
LEMMA RestoredIsSound ==
  ASSUME NEW d \in [is : {"present"}, gen : Nat, schema : Nat, held : Held, pending : SUBSET Waiting],
         NEW s \in SoundFiles
  PROVE  /\ Restored(d, s) \in SoundFiles
         /\ Restored(d, s).pending = Staged(d)
         /\ Restored(d, s).held = [x \in Items |-> IF x[1] \in Globals THEN d.held[x] ELSE Absent]
  <1>1. Staged(d) \in SUBSET Waiting
    <2>1. \A x \in Items : d.held[x] # Absent => [on |-> x, gen |-> d.gen, value |-> d.held[x]] \in Waiting
      BY DEF Waiting, Held
    <2> QED BY <2>1 DEF Staged
  <1>2. [x \in Items |-> IF x[1] \in Globals THEN d.held[x] ELSE Absent] \in Held
    BY DEF Held
  <1>3. Restored(d, s) = [s EXCEPT !.pending = Staged(d), !.gen = d.gen,
                            !.held = [x \in Items |-> IF x[1] \in Globals THEN d.held[x] ELSE Absent]]
    BY DEF Restored
  <1> QED BY <1>1, <1>2, <1>3 DEF SoundFiles

(* One more element at the end, and one less.                              *)
LEMMA AppendTo ==
  ASSUME NEW S, NEW s \in Seq(S), NEW e \in S, NEW t \in Seq(S), Len(t) = Len(s) + 1,
         t[Len(s) + 1] = e, \A i \in 1..Len(s) : t[i] = s[i]
  PROVE  Append(s, e) = t /\ Front(t) = s
  <1>0. Len(s) \in Nat
    OBVIOUS
  <1>1. Append(s, e) = t
    <2> DEFINE u == Append(s, e)
    <2>1. u \in Seq(S) /\ Len(u) = Len(s) + 1 /\ u[Len(s) + 1] = e /\ \A i \in 1..Len(s) : u[i] = s[i]
      BY AppendProperties
    <2> HIDE DEF u
    <2>2. \A i \in 1..Len(u) : u[i] = t[i]
      BY <1>0, <2>1
    <2>3. u = t
      BY <2>1, <2>2, SeqEqual
    <2> QED BY <2>3 DEF u
  <1>2. Front(t) = s
    <2> DEFINE u == SubSeq(t, 1, Len(s))
    <2>0. \A i \in 1..Len(s) : t[i] \in S
      BY <1>0
    <2>1. u \in Seq(S) /\ Len(u) = Len(s) /\ \A i \in 1..Len(s) : u[i] = t[i]
      BY <1>0, <2>0, SubSeqProperties
    <2>2. Front(t) = u
      BY <1>0 DEF Front
    <2> HIDE DEF u
    <2>3. \A i \in 1..Len(u) : u[i] = s[i]
      BY <1>0, <2>1
    <2> QED BY <2>1, <2>2, <2>3, SeqEqual
  <1> QED BY <1>1, <1>2

(* The same of short sequences.                                            *)
LEMMA ShortSeqs ==
  ASSUME NEW S, NEW a \in S, NEW b \in S, NEW c \in S
  PROVE  /\ Append(<<a, b>>, c) = <<a, b, c>> /\ Front(<<a, b, c>>) = <<a, b>>
         /\ Append(<<a>>, b) = <<a, b>> /\ Front(<<a, b>>) = <<a>>
  <1>1. <<a>> \in Seq(S) /\ <<a, b>> \in Seq(S) /\ <<a, b, c>> \in Seq(S)
    OBVIOUS
  <1>2. ASSUME NEW s \in Seq(S), NEW t \in Seq(S), s = <<a>>, t = <<a, b>>
        PROVE  Append(s, b) = t /\ Front(t) = s
    <2>1. Len(s) = 1 /\ Len(t) = 2 /\ t[1] = a /\ s[1] = a /\ t[2] = b
      BY <1>2
    <2>2. Len(t) = Len(s) + 1 /\ t[Len(s) + 1] = b /\ \A i \in 1..Len(s) : t[i] = s[i]
      BY <2>1
    <2> QED BY <2>2, AppendTo
  <1>3. ASSUME NEW s \in Seq(S), NEW t \in Seq(S), s = <<a, b>>, t = <<a, b, c>>
        PROVE  Append(s, c) = t /\ Front(t) = s
    <2>1. Len(s) = 2 /\ Len(t) = 3 /\ t[1] = a /\ s[1] = a /\ s[2] = b /\ t[2] = b /\ t[3] = c
      BY <1>3
    <2>2. Len(t) = Len(s) + 1 /\ t[Len(s) + 1] = c /\ \A i \in 1..Len(s) : t[i] = s[i]
      BY <2>1
    <2> QED BY <2>2, AppendTo
  <1> QED BY <1>1, <1>2, <1>3, Zenon

(* The acts of a rebuild, added and taken back at their end.               *)
LEMMA Acts ==
  /\ Append(<<>>, "db") = <<"db">> /\ Append(<<"db">>, "journal") = <<"db", "journal">>
  /\ Append(<<"db">>, "swap") = <<"db", "swap">>
  /\ Append(<<"db", "journal">>, "swap") = <<"db", "journal", "swap">>
  /\ Last(<<"db">>) = "db" /\ Last(<<"db", "journal">>) = "journal" /\ Last(<<"db", "swap">>) = "swap"
  /\ Last(<<"db", "journal", "swap">>) = "swap"
  /\ Front(<<"db">>) = <<>> /\ Front(<<"db", "journal">>) = <<"db">> /\ Front(<<"db", "swap">>) = <<"db">>
  /\ Front(<<"db", "journal", "swap">>) = <<"db", "journal">>
  <1>1. Append(<<>>, "db") = <<"db">>
    OBVIOUS
  <1>2. Last(<<"db">>) = "db" /\ Front(<<"db">>) = <<>>
    BY DEF Front, Last
  <1>3. Last(<<"db", "journal">>) = "journal" /\ Last(<<"db", "swap">>) = "swap"
    BY DEF Last
  <1>4. Last(<<"db", "journal", "swap">>) = "swap"
    BY DEF Last
  <1> DEFINE S == {"db", "journal", "swap"}
  <1>5. "db" \in S /\ "journal" \in S /\ "swap" \in S
    OBVIOUS
  <1> HIDE DEF S
  <1>6. /\ Append(<<"db">>, "journal") = <<"db", "journal">> /\ Front(<<"db", "journal">>) = <<"db">>
        /\ Append(<<"db", "journal">>, "swap") = <<"db", "journal", "swap">>
        /\ Front(<<"db", "journal", "swap">>) = <<"db", "journal">>
    BY <1>5, ShortSeqs, Zenon
  <1>7. Append(<<"db">>, "swap") = <<"db", "swap">> /\ Front(<<"db", "swap">>) = <<"db">>
    BY <1>5, ShortSeqs, Zenon
  <1> QED BY <1>1, <1>2, <1>3, <1>4, <1>6, <1>7, Zenon

(* A place of a rebuild is no place of an opened index.                    *)
LEMMA RebuildPlaces ==
  /\ Building \subseteq Rebuilding
  /\ Rebuilding \cap {"down", "migrating", "restoring", "stamping", "serving", "exported"} = {}
  BY DEF Rebuilding, Building

(* A step of a rebuild that is not undone keeps the files in order.        *)
LEMMA BuildFiles ==
  ASSUME FilesInv,
         \/ BuildBeside \/ RestoreBeside \/ AsideDb \/ AsideJournal \/ AsideSidecar \/ Swap
         \/ RebuildFails
  PROVE  FilesInv'
  <1>0. TypeOK /\ Opened /\ AsideBefore /\ Found
    BY DEF FilesInv
  <1>1. run.at \in Building /\ run.at \in Rebuilding
    BY DEF BuildBeside, RestoreBeside, AsideDb, AsideJournal, AsideSidecar, Swap, RebuildFails, Rebuilding, Building
  <1>2. /\ run.doc = sidecar /\ Undoable /\ Recorded
        /\ run.found = <<This, run.found[2], NoDb, sidecar, run.found[5]>>
        /\ \A r \in run.found[5] : r.id < corrupted
    BY <1>0, <1>1 DEF Found
  <1>3. \A label \in Rebuilding :
          /\ Goto(label) =>
               /\ run' \in Runs /\ run'.at = label /\ run'.undo = run.undo
               /\ run'.doc = run.doc /\ run'.found = run.found
          /\ \A act \in {"db", "journal", "swap"} : Acted(act, label) =>
               /\ run' \in Runs /\ run'.at = label /\ run'.undo = Append(run.undo, act)
               /\ run'.doc = run.doc /\ run'.found = run.found
    BY <1>0, <1>1, RebuildHolds DEF TypeOK
  <1>4. ASSUME TypeOK', run'.at \in Rebuilding, run'.doc = run.doc, run'.found = run.found,
               UNCHANGED <<sidecar, corrupted>>, Undoable', Recorded',
               \A r \in aside' : r.id <= corrupted, db'.is = "corrupt" => db' = db
        PROVE  FilesInv'
    <2>1. Opened'
      BY <1>4, RebuildPlaces DEF Opened
    <2>2. AsideBefore'
      BY <1>0, <1>4 DEF AsideBefore
    <2>3. Found'
      BY <1>2, <1>4 DEF Found, This
    <2> QED BY <1>4, <2>1, <2>2, <2>3 DEF FilesInv
  <1>5. \A r \in aside : r.id <= corrupted
    BY <1>0 DEF AsideBefore
  <1>6. /\ {"restore", "aside_db", "aside_journal", "aside_sidecar", "swap", "reporting", "undoing"} \subseteq Rebuilding
    BY DEF Rebuilding, Building
  <1>7. CASE BuildBeside
    <2>1. /\ side' = [Empty EXCEPT !.version = run.build, !.mirror = run.build] /\ Goto("restore")
          /\ run.at = "build"
          /\ UNCHANGED <<db, journal, sidecar, aside, corrupted, saved, torn, decisions, crashes, faults>>
      BY <1>7 DEF BuildBeside, histVars, bounds
    <2>2. run' \in Runs /\ run'.at = "restore" /\ run'.undo = run.undo /\ run'.doc = run.doc /\ run'.found = run.found
      BY <1>3, <1>6, <2>1
    <2>3. side' \in SoundFiles /\ side'.is = "sound"
      <3>1. run.build \in Nat
        BY <1>0, <1>1, RunKinds DEF TypeOK
      <3> QED BY <2>1, <3>1, EmptyIsSound DEF SoundFiles
    <2>4. TypeOK'
      BY <1>0, <1>6, <2>1, <2>2, <2>3 DEF TypeOK, Rebuilding
    <2>5. Undoable' /\ Recorded'
      BY <1>2, <2>1, <2>2, <2>3 DEF Undoable, Recorded, This, Its, Copy
    <2> QED BY <1>4, <1>5, <1>6, <2>1, <2>2, <2>4, <2>5
  <1>8. CASE RestoreBeside
    <2>1. /\ side' = (IF run.doc.is = "present" THEN Restored(run.doc, side) ELSE side) /\ Goto("aside_db")
          /\ run.at = "restore"
          /\ UNCHANGED <<db, journal, sidecar, aside, corrupted, saved, torn, decisions, crashes, faults>>
      BY <1>8 DEF RestoreBeside, histVars, bounds
    <2>2. run' \in Runs /\ run'.at = "aside_db" /\ run'.undo = run.undo /\ run'.doc = run.doc /\ run'.found = run.found
      BY <1>3, <1>6, <2>1
    <2>3. side \in SoundFiles
      BY <1>0, <1>2, <2>1, FileKinds DEF Recorded
    <2>4. side' \in SoundFiles
      <3>1. CASE sidecar.is = "present"
        BY <1>0, <1>2, <2>1, <2>3, <3>1, FileKinds, RestoredIsSound
      <3>2. CASE sidecar.is # "present"
        BY <1>2, <2>1, <2>3, <3>2
      <3> QED BY <3>1, <3>2
    <2>5. side'.is = "sound"
      BY <2>4 DEF SoundFiles
    <2>6. TypeOK'
      BY <1>0, <1>6, <2>1, <2>2, <2>4 DEF TypeOK, Rebuilding
    <2>7. Undoable' /\ Recorded'
      BY <1>2, <2>1, <2>2, <2>5 DEF Undoable, Recorded, This, Its, Copy
    <2> QED BY <1>4, <1>5, <1>6, <2>1, <2>2, <2>6, <2>7
  <1>9. CASE AsideDb
    <2>1. /\ aside' = aside \cup {db} /\ db' = NoDb /\ Acted("db", "aside_journal") /\ run.at = "aside_db"
          /\ UNCHANGED <<journal, side, sidecar, corrupted, saved, torn, decisions, crashes, faults>>
      BY <1>9 DEF AsideDb, histVars, bounds
    <2>2. /\ run' \in Runs /\ run'.at = "aside_journal" /\ run'.undo = Append(run.undo, "db")
          /\ run'.doc = run.doc /\ run'.found = run.found
      BY <1>3, <1>6, <2>1
    <2>3. run.undo = <<>> /\ run'.undo = <<"db">> /\ side.is = "sound"
      BY <1>2, <2>1, <2>2, Acts DEF Recorded
    <2>4. db = This /\ journal = run.found[2] /\ aside \ {Copy} = run.found[5] /\ This # Copy
      BY <1>2, <2>3 DEF Undoable, This, Copy
    <2>5. This \in SetAside /\ This.id = corrupted
      BY <1>0 DEF This, SetAside, TypeOK
    <2>6. TypeOK'
      BY <1>0, <1>6, <2>1, <2>2, <2>4, <2>5 DEF TypeOK, Rebuilding
    <2>7. Undoable'
      <3>1. aside' \ {Copy} = run.found[5] \cup {This}
        BY <2>1, <2>4
      <3> QED BY <2>1, <2>2, <2>3, <2>4, <3>1 DEF Undoable, This, Copy
    <2>8. Recorded'
      BY <2>1, <2>2, <2>3 DEF Recorded
    <2>9. \A r \in aside' : r.id <= corrupted
      BY <1>0, <1>5, <2>1, <2>4, <2>5 DEF TypeOK
    <2> QED BY <1>4, <1>6, <2>1, <2>2, <2>6, <2>7, <2>8, <2>9 DEF NoDb
  <1>10. CASE AsideJournal
    <2>1. /\ journal' = FALSE /\ run.at = "aside_journal"
          /\ \/ journal = TRUE /\ aside' = aside \cup {Its} /\ Acted("journal", "aside_sidecar")
             \/ journal = FALSE /\ aside' = aside /\ Goto("aside_sidecar")
          /\ UNCHANGED <<db, side, sidecar, corrupted, saved, torn, decisions, crashes, faults>>
      BY <1>0, <1>10 DEF AsideJournal, histVars, bounds, TypeOK, Its
    <2>2. /\ run' \in Runs /\ run'.at = "aside_sidecar" /\ run'.doc = run.doc /\ run'.found = run.found
          /\ \/ journal = TRUE /\ aside' = aside \cup {Its} /\ run'.undo = Append(run.undo, "journal")
             \/ journal = FALSE /\ aside' = aside /\ run'.undo = run.undo
      BY <1>3, <1>6, <2>1
    <2>3. run.undo = <<"db">> /\ side.is = "sound"
      BY <1>2, <2>1 DEF Recorded
    <2>4. /\ db = NoDb /\ journal = run.found[2] /\ aside \ {Copy} = run.found[5] \cup {This}
          /\ Its # Copy
      BY <1>2, <2>3 DEF Undoable, Its, Copy
    <2>5. Its \in SetAside /\ Its.id = corrupted
      BY <1>0 DEF Its, SetAside, TypeOK
    <2>6. TypeOK'
      BY <1>0, <1>6, <2>1, <2>2, <2>5 DEF TypeOK, Rebuilding
    <2>7. Undoable'
      <3>1. CASE journal = TRUE
        <4>1. run'.undo = <<"db", "journal">> /\ aside' \ {Copy} = run.found[5] \cup {This, Its}
          BY <2>2, <2>3, <2>4, <3>1, Acts
        <4> QED BY <2>1, <2>2, <2>4, <3>1, <4>1 DEF Undoable, This, Its, Copy
      <3>2. CASE journal = FALSE
        BY <2>1, <2>2, <2>3, <2>4, <3>2 DEF Undoable, This, Its, Copy
      <3> QED BY <2>1, <3>1, <3>2
    <2>8. Recorded'
      BY <2>1, <2>2, <2>3, Acts DEF Recorded
    <2>9. \A r \in aside' : r.id <= corrupted
      BY <1>0, <1>5, <2>2, <2>5 DEF TypeOK
    <2> QED BY <1>4, <1>6, <2>1, <2>2, <2>6, <2>7, <2>8, <2>9
  <1>11. CASE AsideSidecar
    <2>1. /\ aside' \in {aside, aside \cup {Copy}} /\ Goto("swap") /\ run.at = "aside_sidecar"
          /\ UNCHANGED <<db, journal, side, sidecar, corrupted, saved, torn, decisions, crashes, faults>>
      BY <1>11 DEF AsideSidecar, histVars, bounds, Copy
    <2>2. run' \in Runs /\ run'.at = "swap" /\ run'.undo = run.undo /\ run'.doc = run.doc /\ run'.found = run.found
      BY <1>3, <1>6, <2>1
    <2>3. Copy \in SetAside /\ Copy.id = corrupted
      BY <1>0 DEF Copy, SetAside, TypeOK
    <2>4. TypeOK'
      BY <1>0, <1>6, <2>1, <2>2, <2>3 DEF TypeOK, Rebuilding
    <2>5. aside' \ {Copy} = aside \ {Copy}
      BY <2>1
    <2>6. Undoable'
      BY <1>2, <2>1, <2>2, <2>5 DEF Undoable, This, Its, Copy
    <2>7. Recorded'
      BY <1>2, <2>1, <2>2 DEF Recorded
    <2>8. \A r \in aside' : r.id <= corrupted
      BY <1>0, <1>5, <2>1, <2>3 DEF TypeOK
    <2> QED BY <1>4, <1>6, <2>1, <2>2, <2>4, <2>6, <2>7, <2>8
  <1>12. CASE Swap
    <2>1. /\ db' = side /\ side' = NoDb /\ Acted("swap", "reporting") /\ run.at = "swap"
          /\ UNCHANGED <<journal, sidecar, aside, corrupted, saved, torn, decisions, crashes, faults>>
      BY <1>12 DEF Swap, histVars, bounds
    <2>2. /\ run' \in Runs /\ run'.at = "reporting" /\ run'.undo = Append(run.undo, "swap")
          /\ run'.doc = run.doc /\ run'.found = run.found
      BY <1>3, <1>6, <2>1
    <2>3. run.undo \in {<<"db">>, <<"db", "journal">>} /\ journal = FALSE /\ db'.is = "sound" /\ db' \in SoundFiles
      BY <1>0, <1>2, <2>1, FileKinds DEF Recorded
    <2>4. TypeOK'
      BY <1>0, <1>6, <2>1, <2>2, <2>3 DEF TypeOK, Rebuilding
    <2>5. Undoable'
      <3>1. CASE run.undo = <<"db">>
        <4>1. run'.undo = <<"db", "swap">> /\ run.found[2] = FALSE /\ aside \ {Copy} = run.found[5] \cup {This}
          BY <1>2, <2>2, <2>3, <3>1, Acts DEF Undoable
        <4> QED BY <2>1, <2>2, <2>3, <4>1 DEF Undoable, This, Copy
      <3>2. CASE run.undo = <<"db", "journal">>
        <4>1. /\ run'.undo = <<"db", "journal", "swap">> /\ run.found[2] = TRUE
              /\ aside \ {Copy} = run.found[5] \cup {This, Its}
          BY <1>2, <2>2, <2>3, <3>2, Acts DEF Undoable
        <4> QED BY <2>1, <2>2, <2>3, <4>1 DEF Undoable, This, Its, Copy
      <3> QED BY <2>3, <3>1, <3>2
    <2>6. Recorded'
      BY <2>1, <2>2, <2>3, Acts DEF Recorded
    <2> QED BY <1>4, <1>5, <1>6, <2>1, <2>2, <2>3, <2>4, <2>5, <2>6
  <1>13. CASE RebuildFails
    <2>1. /\ Goto("undoing") /\ faults' = faults + 1
          /\ UNCHANGED <<db, journal, side, sidecar, aside, corrupted, saved, torn, decisions, crashes>>
      BY <1>13 DEF RebuildFails, histVars
    <2>2. run' \in Runs /\ run'.at = "undoing" /\ run'.undo = run.undo /\ run'.doc = run.doc /\ run'.found = run.found
      BY <1>3, <1>6, <2>1
    <2>3. TypeOK'
      BY <1>0, <1>6, <2>1, <2>2 DEF TypeOK, Rebuilding
    <2>4. Undoable' /\ Recorded'
      BY <1>2, <2>1, <2>2 DEF Undoable, Recorded, This, Its, Copy
    <2> QED BY <1>4, <1>5, <1>6, <2>1, <2>2, <2>3, <2>4
  <1> QED BY <1>7, <1>8, <1>9, <1>10, <1>11, <1>12, <1>13

(* Taking an act back leads to the directory there was before it.          *)
LEMMA UndoFiles ==
  ASSUME FilesInv, UndoRename
  PROVE  FilesInv'
  <1>0. TypeOK /\ Opened /\ AsideBefore /\ Found
    BY DEF FilesInv
  <1>1. run.at = "undoing" /\ run.at \in Rebuilding
    BY DEF UndoRename, Rebuilding
  <1>2. /\ run.doc = sidecar /\ Undoable
        /\ run.found = <<This, run.found[2], NoDb, sidecar, run.found[5]>>
        /\ \A r \in run.found[5] : r.id < corrupted
    BY <1>0, <1>1 DEF Found
  <1>3. /\ run.undo # <<>> /\ TakeBack(Last(run.undo)) /\ run' = [run EXCEPT !.undo = Front(run.undo)]
        /\ UNCHANGED <<sidecar, corrupted, saved, torn, decisions, crashes, faults>>
    BY DEF UndoRename, histVars, bounds
  <1>4. /\ run.undo \in Seq({"db", "journal", "swap"}) /\ run \in Runs
        /\ run.found \in CorruptFiles \X BOOLEAN \X {NoDb} \X Documents \X SUBSET SetAside
    BY <1>0, <1>1, RunKinds DEF TypeOK
  <1>5. ASSUME NEW u \in Seq({"db", "journal", "swap"}), Front(run.undo) = u
        PROVE  run' \in Runs /\ run'.at = "undoing" /\ run'.undo = u /\ run'.doc = run.doc /\ run'.found = run.found
    <2> DEFINE F == CorruptFiles \X BOOLEAN \X {NoDb} \X Documents \X SUBSET SetAside
               R == [at : Building \cup {"undoing"}, build : 1..MaxBuild, doc : Documents,
                     undo : Seq({"db", "journal", "swap"}), found : F]
    <2>1. run \in R
      BY <1>1, <1>4, RunKinds DEF Rebuilding
    <2> HIDE DEF F
    <2>2. run' \in R /\ run'.at = "undoing" /\ run'.undo = u /\ run'.doc = run.doc /\ run'.found = run.found
      BY <1>1, <1>3, <1>5, <2>1
    <2>3. R \subseteq Runs
      BY DEF Runs, F
    <2> QED BY <2>2, <2>3
  <1>6. /\ <<>> \in Seq({"db", "journal", "swap"}) /\ <<"db">> \in Seq({"db", "journal", "swap"})
        /\ <<"db", "journal">> \in Seq({"db", "journal", "swap"})
    OBVIOUS
  <1>7. This \in SetAside /\ Its \in SetAside /\ This.id = corrupted /\ Its.id = corrupted /\ This \in CorruptFiles
    BY <1>0 DEF This, Its, SetAside, TypeOK, CorruptFiles
  <1>8. This # Its /\ This # Copy /\ Its # Copy /\ This # NoDb
    BY DEF This, Its, Copy, NoDb
  <1>9. This \notin run.found[5] /\ Its \notin run.found[5]
    BY <1>0, <1>2, <1>7 DEF TypeOK
  <1>10. ASSUME TypeOK', run'.at = "undoing", run'.doc = run.doc, run'.found = run.found, Undoable',
                aside' \subseteq aside, db'.is = "corrupt" => db' = This
         PROVE  FilesInv'
    <2>1. Opened' /\ Recorded'
      BY <1>10, RebuildPlaces DEF Opened, Recorded
    <2>2. run'.at \in Rebuilding
      BY <1>10 DEF Rebuilding
    <2>3. AsideBefore'
      BY <1>0, <1>3, <1>7, <1>10, <2>2 DEF AsideBefore
    <2>4. Found'
      BY <1>2, <1>3, <1>10, <2>1 DEF Found, This
    <2> QED BY <1>10, <2>1, <2>3, <2>4 DEF FilesInv
  <1>11. CASE run.undo = <<"db">>
    <2>1. /\ db = NoDb /\ journal = run.found[2] /\ aside \ {Copy} = run.found[5] \cup {This}
      BY <1>2, <1>11 DEF Undoable
    <2>2. /\ db' = This /\ aside' = aside \ {This} /\ side' = side /\ journal' = journal
      <3>1. TakeBack("db")
        BY <1>3, <1>11, Acts
      <3> QED BY <3>1 DEF TakeBack, This
    <2>3. /\ run' \in Runs /\ run'.at = "undoing" /\ run'.undo = <<>> /\ run'.doc = run.doc
          /\ run'.found = run.found
      BY <1>5, <1>6, <1>11, Acts
    <2>4. aside' \ {Copy} = run.found[5]
      BY <1>9, <2>1, <2>2
    <2>5. TypeOK'
      BY <1>0, <1>3, <1>7, <2>2, <2>3 DEF TypeOK, Building
    <2>6. Undoable'
      BY <1>3, <2>1, <2>2, <2>3, <2>4 DEF Undoable, This, Copy
    <2> QED BY <1>10, <2>2, <2>3, <2>5, <2>6
  <1>12. CASE run.undo = <<"db", "journal">>
    <2>1. /\ db = NoDb /\ run.found[2] = TRUE /\ aside \ {Copy} = run.found[5] \cup {This, Its}
      BY <1>2, <1>12 DEF Undoable
    <2>2. /\ db' = NoDb /\ aside' = aside \ {Its} /\ side' = side /\ journal' = TRUE
      <3>1. TakeBack("journal")
        BY <1>3, <1>12, Acts
      <3> QED BY <2>1, <3>1 DEF TakeBack, Its
    <2>3. /\ run' \in Runs /\ run'.at = "undoing" /\ run'.undo = <<"db">> /\ run'.doc = run.doc
          /\ run'.found = run.found
      BY <1>5, <1>6, <1>12, Acts
    <2>4. aside' \ {Copy} = run.found[5] \cup {This}
      BY <1>8, <1>9, <2>1, <2>2
    <2>5. TypeOK'
      BY <1>0, <1>3, <1>7, <2>2, <2>3 DEF TypeOK, Building
    <2>6. Undoable'
      BY <1>3, <2>1, <2>2, <2>3, <2>4 DEF Undoable, This, Copy
    <2> QED BY <1>10, <2>2, <2>3, <2>5, <2>6 DEF NoDb
  <1>13. ASSUME TakeBack("swap"), NEW u \in {<<"db">>, <<"db", "journal">>}, Front(run.undo) = u,
                db.is = "sound", journal = FALSE, run.found[2] = (u = <<"db", "journal">>),
                aside \ {Copy} = run.found[5] \cup (IF u = <<"db">> THEN {This} ELSE {This, Its})
         PROVE  FilesInv'
    <2>1. /\ db' = NoDb /\ side' = db /\ journal' = FALSE /\ aside' = aside
      BY <1>13 DEF TakeBack
    <2>2. /\ run' \in Runs /\ run'.at = "undoing" /\ run'.undo = u /\ run'.doc = run.doc
          /\ run'.found = run.found
      BY <1>5, <1>6, <1>13
    <2>3. TypeOK'
      BY <1>0, <1>3, <1>13, <2>1, <2>2, FileKinds DEF TypeOK, Building
    <2>4. <<"db">> # <<"db", "journal">>
      OBVIOUS
    <2>5. Undoable'
      <3>1. CASE u = <<"db">>
        <4>1. run.found[2] = FALSE /\ aside \ {Copy} = run.found[5] \cup {This}
          BY <1>13, <2>4, <3>1
        <4> QED BY <1>3, <2>1, <2>2, <3>1, <4>1 DEF Undoable, This, Copy
      <3>2. CASE u = <<"db", "journal">>
        <4>1. run.found[2] = TRUE /\ aside \ {Copy} = run.found[5] \cup {This, Its}
          BY <1>13, <2>4, <3>2
        <4> QED BY <1>3, <2>1, <2>2, <3>2, <4>1 DEF Undoable, This, Its, Copy
      <3> QED BY <1>13, <3>1, <3>2
    <2> QED BY <1>10, <2>1, <2>2, <2>3, <2>5 DEF NoDb
  <1>14. CASE run.undo = <<"db", "swap">>
    <2>1. /\ db.is = "sound" /\ journal = FALSE /\ run.found[2] = FALSE
          /\ aside \ {Copy} = run.found[5] \cup {This}
      BY <1>2, <1>14 DEF Undoable
    <2>2. TakeBack("swap") /\ Front(run.undo) = <<"db">> /\ <<"db">> # <<"db", "journal">>
      BY <1>3, <1>14, Acts
    <2> QED BY <1>13, <2>1, <2>2
  <1>15. CASE run.undo = <<"db", "journal", "swap">>
    <2>1. /\ db.is = "sound" /\ journal = FALSE /\ run.found[2] = TRUE
          /\ aside \ {Copy} = run.found[5] \cup {This, Its}
      BY <1>2, <1>15 DEF Undoable
    <2>2. TakeBack("swap") /\ Front(run.undo) = <<"db", "journal">> /\ <<"db">> # <<"db", "journal">>
      BY <1>3, <1>15, Acts
    <2> QED BY <1>13, <2>1, <2>2
  <1> QED BY <1>2, <1>3, <1>11, <1>12, <1>14, <1>15 DEF Undoable

(* The last step of an undo leaves the directory as it was found.          *)
LEMMA UndoneFiles ==
  ASSUME FilesInv, UndoCreated
  PROVE  FilesInv' /\ Dir' = run.found
  <1>0. TypeOK /\ Opened /\ AsideBefore /\ Found
    BY DEF FilesInv
  <1>1. run.at = "undoing" /\ run.at \in Rebuilding /\ run.undo = <<>>
    BY DEF UndoCreated, Rebuilding
  <1>2. /\ run.found = <<This, run.found[2], NoDb, sidecar, run.found[5]>>
        /\ \A r \in run.found[5] : r.id < corrupted
        /\ db = This /\ journal = run.found[2] /\ aside \ {Copy} = run.found[5]
    BY <1>0, <1>1 DEF Found, Undoable
  <1>3. /\ side' = NoDb /\ aside' = aside \ {Copy} /\ run' = Down
        /\ UNCHANGED <<db, journal, sidecar, corrupted, saved, torn, decisions, crashes, faults>>
    BY DEF UndoCreated, Fail, Copy, histVars, bounds
  <1>4. run' \in Runs /\ run'.at = "down" /\ run'.at \notin Rebuilding
    BY <1>3, EndedRuns
  <1>5. Dir' = run.found
    <2>1. Dir' = <<This, run.found[2], NoDb, sidecar, run.found[5]>>
      BY <1>2, <1>3 DEF Dir
    <2> QED BY <1>2, <2>1, Zenon
  <1>6. TypeOK' /\ Opened' /\ Found'
    BY <1>0, <1>3, <1>4 DEF TypeOK, Opened, Found
  <1>7. AsideBefore'
    BY <1>0, <1>2, <1>3 DEF AsideBefore
  <1> QED BY <1>5, <1>6, <1>7 DEF FilesInv

(* A core reports a rebuild by opening what it swapped in.                 *)
LEMMA ReportFiles ==
  ASSUME FilesInv, WriteReport
  PROVE  FilesInv'
  <1>1. run.at = "reporting" /\ run.at \in Rebuilding
    BY DEF WriteReport, Rebuilding, Building
  <1>2. side = NoDb /\ db.is = "sound"
    BY <1>1, Acts DEF FilesInv, Found, Recorded, Undoable
  <1>3. run.build \in 1..MaxBuild
    BY <1>1, RunKinds DEF FilesInv, TypeOK
  <1> QED BY <1>2, <1>3, OpenIndexStep DEF WriteReport

-----------------------------------------------------------------------------
(* What is known.                                                          *)

(* What has the same content is as tidy, and knows the same.               *)
LEMMA SameContent ==
  ASSUME NEW d, NEW e, NEW n, e.held = d.held, e.pending = d.pending, Tidy(d, n)
  PROVE  Tidy(e, n) /\ \A x \in Items, k \in Nat : Knows(d, x, k) => Knows(e, x, k)
  BY DEF Tidy, Knows

(* A fresh index is tidy.                                                  *)
LEMMA EmptyTidy ==
  ASSUME NEW e, e.held = Empty.held, e.pending = Empty.pending, NEW n \in Nat
  PROVE  Tidy(e, n)
  BY DEF Tidy, Empty, Absent

(* A match keeps an index tidy, and forgets nothing.                       *)
LEMMA MatchKeeps ==
  ASSUME NEW d, NEW e, NEW n \in Nat, NEW x \in Items, Content(d), Tidy(d, n), d.held[x] = Absent,
         e.held = [d.held EXCEPT ![x] = Max({0} \cup Values(d, x))],
         e.pending = {q \in d.pending : q.on # x}
  PROVE  Tidy(e, n) /\ \A y \in Items, k \in Nat : Knows(d, y, k) => Knows(e, y, k)
  <1>1. PICK v : v = Max({0} \cup Values(d, x))
    OBVIOUS
  <1>2. \/ v = 0 /\ \A r \in d.pending : r.on # x
        \/ \E r \in d.pending : r.on = x /\ r.value \in Nat /\ v = r.value
    BY <1>1, MatchTakes
  <1>3. v \in Nat /\ v <= n
    BY <1>2 DEF Tidy
  <1>4. e.held \in Held /\ e.held[x] = v /\ \A y \in Items \ {x} : e.held[y] = d.held[y]
    BY <1>1, <1>3 DEF Content, Held
  <1>5. \A r \in d.pending : r.on \in Items
    BY DEF Content, Waiting
  <1>6. Tidy(e, n)
    BY <1>3, <1>4, <1>5 DEF Tidy, Absent
  <1>7. ASSUME NEW y \in Items, NEW k \in Nat, Knows(d, y, k)
        PROVE  Knows(e, y, k)
    <2>1. CASE y # x
      BY <1>4, <1>7, <2>1 DEF Knows
    <2>2. CASE y = x
      <3>1. k = 0 \/ \E r \in d.pending : r.on = x /\ r.value >= k
        BY <1>7, <2>2 DEF Knows, Absent
      <3>2. k = 0 \/ v >= k
        <4>1. ASSUME NEW r \in d.pending, r.on = x, r.value >= k PROVE v >= k
          <5>1. \A q \in d.pending : q.on = x => q = r
            BY <4>1 DEF Tidy
          <5> QED BY <1>2, <4>1, <5>1
        <4> QED BY <3>1, <4>1
      <3> QED BY <1>4, <2>2, <3>2 DEF Knows
    <2> QED BY <2>1, <2>2
  <1> QED BY <1>6, <1>7

(* A decision is of what is held, and is later than all before it.         *)
LEMMA DecideKeeps ==
  ASSUME NEW d, NEW e, NEW n \in Nat, NEW x \in Items, Content(d), Tidy(d, n), d.held[x] # Absent,
         e.held = [d.held EXCEPT ![x] = n + 1], e.pending = d.pending
  PROVE  /\ Tidy(e, n + 1)
         /\ \A y \in Items, k \in Nat : Knows(d, y, k) /\ k <= n => Knows(e, y, k)
  <1>1. e.held[x] = n + 1 /\ \A y \in Items \ {x} : e.held[y] = d.held[y]
    BY DEF Content, Held
  <1>2. \A r \in d.pending : r.on \in Items /\ r.on # x /\ r.value \in Nat
    BY DEF Content, Waiting, Tidy
  <1>3. \A y \in Items : d.held[y] \in Nat \cup {Absent}
    BY DEF Content, Held
  <1>4. Tidy(e, n + 1)
    BY <1>1, <1>2, <1>3 DEF Tidy, Absent
  <1>5. \A y \in Items, k \in Nat : Knows(d, y, k) /\ k <= n => Knows(e, y, k)
    BY <1>1 DEF Knows
  <1> QED BY <1>4, <1>5

(* A tidy document of earlier decisions is one of these.                   *)
LEMMA LaterTidy ==
  ASSUME NEW d, NEW n \in Nat, Content(d), Tidy(d, n)
  PROVE  Tidy(d, n + 1)
  <1>1. \A r \in d.pending : r.value \in Nat
    BY DEF Content, Waiting
  <1>2. \A y \in Items : d.held[y] \in Nat \cup {Absent}
    BY DEF Content, Held
  <1> QED BY <1>1, <1>2 DEF Tidy, Absent

(* Staging a document keeps all its records, each once.                    *)
LEMMA StagedKeeps ==
  ASSUME NEW d, NEW e, NEW n \in Nat, Content(d), Tidy(d, n),
         e.held = [x \in Items |-> IF x[1] \in Globals THEN d.held[x] ELSE Absent],
         e.pending = Staged(d)
  PROVE  Tidy(e, n) /\ \A y \in Items, k \in Nat : Knows(d, y, k) => Knows(e, y, k)
  <1>1. \A r \in d.pending : r.on \in Items /\ r.value \in Nat
    BY DEF Content, Waiting
  <1>2. \A x \in Items : d.held[x] \in Nat \cup {Absent}
    BY DEF Content, Held
  <1>3. ASSUME NEW r \in Staged(d)
        PROVE  /\ r.on \in Items /\ r.value <= n /\ r.on[1] \notin Globals
               /\ r \in d.pending \/ (d.held[r.on] # Absent /\ r = [on |-> r.on, gen |-> d.gen, value |-> d.held[r.on]])
    <2>1. CASE r \in d.pending
      BY <1>1, <2>1 DEF Tidy
    <2>2. ASSUME NEW y \in Items, y[1] \notin Globals, d.held[y] # Absent,
                 r = [on |-> y, gen |-> d.gen, value |-> d.held[y]]
          PROVE  r.on = y /\ r.value = d.held[y] /\ d.held[y] <= n
      BY <2>2 DEF Tidy
    <2> QED BY <2>1, <2>2 DEF Staged
  <1>4. \A r \in e.pending : e.held[r.on] = Absent /\ r.value <= n
    BY <1>3
  <1>5. ASSUME NEW r \in Staged(d), NEW q \in Staged(d), r.on = q.on
        PROVE  r = q
    BY <1>3, <1>5 DEF Tidy
  <1>6. \A x \in Items : e.held[x] <= n /\ (x[1] \in Globals => e.held[x] # Absent)
    BY <1>2 DEF Tidy, Absent
  <1>7. Tidy(e, n)
    BY <1>4, <1>5, <1>6 DEF Tidy
  <1>8. ASSUME NEW y \in Items, NEW k \in Nat, Knows(d, y, k)
        PROVE  Knows(e, y, k)
    <2>1. ASSUME NEW r \in d.pending, r.on = y, r.value >= k PROVE Knows(e, y, k)
      <3>1. r \in e.pending
        BY DEF Staged
      <3> QED BY <2>1, <3>1 DEF Knows
    <2>2. CASE k # 0 /\ d.held[y] >= k
      <3>1. d.held[y] # Absent
        BY <2>2 DEF Absent
      <3>2. CASE y[1] \in Globals
        BY <2>2, <3>2 DEF Knows
      <3>3. CASE y[1] \notin Globals
        <4> DEFINE r == [on |-> y, gen |-> d.gen, value |-> d.held[y]]
        <4>1. r \in e.pending /\ r.on = y /\ r.value = d.held[y]
          BY <3>1, <3>3 DEF Staged
        <4> HIDE DEF r
        <4> QED BY <2>2, <4>1 DEF Knows
      <3> QED BY <3>2, <3>3
    <2>3. CASE k = 0
      BY <2>3 DEF Knows
    <2> QED BY <1>8, <2>1, <2>2, <2>3 DEF Knows
  <1> QED BY <1>7, <1>8

(* While a rebuild sets files aside, the index that will replace them is   *)
(* already restored.                                                       *)
Restoring == {"aside_db", "aside_journal", "aside_sidecar", "swap"}

(* What a readable sidecar has carried: the document knows it, and so do a *)
(* sound index and the one about to be swapped in; where there is no index *)
(* at all there was nothing to lose.                                       *)
Carried ==
    ~torn => \A x \in Items :
        /\ saved[x] > 0 => sidecar.is = "present" /\ Knows(sidecar, x, saved[x])
        /\ db.is = "sound" => Knows(db, x, saved[x])
        /\ run.at \in Restoring => Knows(side, x, saved[x])
        /\ run.at = "down" /\ db = NoDb => saved[x] = 0

ContentInv ==
    /\ FilesTidy
    /\ \A x \in Items : saved[x] <= decisions
    /\ Carried

(* A step that changes no file's content.                                  *)
LEMMA ContentKept ==
  ASSUME TypeOK, ContentInv, UNCHANGED <<sidecar, saved, decisions>>, torn => torn',
         db'.is = "sound" => db.is = "sound" /\ db'.held = db.held /\ db'.pending = db.pending,
         side'.is = "sound" => side.is = "sound" /\ side'.held = side.held /\ side'.pending = side.pending,
         run'.at \in Restoring => run.at \in Restoring /\ side'.is = "sound",
         run'.at = "down" /\ db' = NoDb /\ ~torn' => run.at = "down" /\ db = NoDb,
         torn' \in BOOLEAN
  PROVE  ContentInv'
  <1>1. \A x \in Items : saved[x] \in Nat
    BY DEF TypeOK
  <1>2. PICK n : n = decisions
    OBVIOUS
  <1>3. /\ db'.is = "sound" => Tidy(db', n)
        /\ side'.is = "sound" => Tidy(side', n)
        /\ sidecar'.is = "present" => Tidy(sidecar', n)
    <2>1. ASSUME db'.is = "sound" PROVE Tidy(db', n)
      BY <1>2, <2>1, SameContent DEF ContentInv, FilesTidy
    <2>2. ASSUME side'.is = "sound" PROVE Tidy(side', n)
      BY <1>2, <2>2, SameContent DEF ContentInv, FilesTidy
    <2> QED BY <1>2, <2>1, <2>2 DEF ContentInv, FilesTidy
  <1>4. FilesTidy'
    BY <1>2, <1>3 DEF FilesTidy
  <1>5. Carried'
    <2> SUFFICES ASSUME ~torn', NEW x \in Items
                 PROVE  /\ saved'[x] > 0 => sidecar'.is = "present" /\ Knows(sidecar', x, saved'[x])
                        /\ db'.is = "sound" => Knows(db', x, saved'[x])
                        /\ run'.at \in Restoring => Knows(side', x, saved'[x])
                        /\ run'.at = "down" /\ db' = NoDb => saved'[x] = 0
      BY DEF Carried, Restoring
    <2>1. PICK k \in Nat : k = saved[x] /\ k = saved'[x]
      BY <1>1
    <2>2. /\ k > 0 => sidecar.is = "present" /\ Knows(sidecar, x, k)
          /\ db.is = "sound" => Knows(db, x, k)
          /\ run.at \in Restoring => Knows(side, x, k)
          /\ run.at = "down" /\ db = NoDb => k = 0
      BY <2>1 DEF ContentInv, Carried
    <2>3. db'.is = "sound" => Knows(db', x, k)
      BY <2>2, SameContent DEF ContentInv, FilesTidy
    <2>4. run'.at \in Restoring => Knows(side', x, k)
      BY <2>2, SameContent DEF ContentInv, FilesTidy
    <2> QED BY <2>1, <2>2, <2>3, <2>4
  <1> QED BY <1>4, <1>5 DEF ContentInv

(* An opening keeps what an index holds; with no index there is nothing to *)
(* keep.                                                                   *)
LEMMA OpenIndexContent ==
  ASSUME FilesInv, ContentInv, db.is # "corrupt", NEW b \in 1..MaxBuild, OpenIndex(b),
         run.at = "down" \/ db.is = "sound", side = NoDb,
         UNCHANGED <<side, sidecar, aside, histVars, bounds>>
  PROVE  ContentInv'
  <1>0. /\ TypeOK /\ UNCHANGED <<side, sidecar, saved, torn, decisions>>
        /\ run'.at \notin Rebuilding
    BY OpenIndexStep DEF FilesInv, histVars, bounds
  <1>1. run'.at \notin Restoring /\ torn' \in BOOLEAN
    BY <1>0 DEF Restoring, Rebuilding, Building, TypeOK
  <1>2. CASE db.is = "sound"
    <2>1. db' = db
      BY <1>2 DEF OpenIndex
    <2>2. db' # NoDb
      BY <1>2, <2>1 DEF NoDb
    <2> QED BY <1>0, <1>1, <1>2, <2>1, <2>2, ContentKept
  <1>3. CASE db.is # "sound"
    <2>1. db.is = "none" /\ db = NoDb /\ run.at = "down"
      BY <1>0, <1>3, FileKinds DEF TypeOK, NoDb, CorruptFiles, SoundFiles
    <2>2. db' = Empty
      BY <2>1 DEF OpenIndex
    <2>3. PICK n \in Nat : n = decisions
      BY <1>0 DEF TypeOK
    <2>4. Tidy(db', n)
      BY <2>2, EmptyTidy
    <2>5. FilesTidy'
      BY <1>0, <2>3, <2>4 DEF FilesTidy, ContentInv
    <2>6. db'.is = "sound" /\ db' # NoDb
      BY <2>2 DEF Empty, NoDb
    <2>7. ~torn => \A x \in Items : saved[x] = 0
      BY <2>1 DEF ContentInv, Carried
    <2>8. Carried'
      BY <1>0, <1>1, <2>6, <2>7 DEF Carried, Knows
    <2> QED BY <1>0, <2>5, <2>8 DEF ContentInv
  <1> QED BY <1>2, <1>3

(* A start, an opening and a rebuild's report keep what is known.          *)
LEMMA StartContent ==
  ASSUME FilesInv, ContentInv,
         (\E b \in 1..MaxBuild : StartOpen(b) \/ StartRebuild(b)) \/ Open \/ WriteReport
  PROVE  ContentInv'
  <1>0. TypeOK /\ Opened /\ Found
    BY DEF FilesInv
  <1>1. ASSUME NEW b \in 1..MaxBuild, StartOpen(b)
        PROVE  ContentInv'
    <2>0. run.at = "down" /\ side = NoDb
      BY <1>0, <1>1, EndedRuns DEF StartOpen, TypeOK, Rebuilding
    <2>1. CASE db.is = "corrupt"
      <3>1. UNCHANGED <<db, side, sidecar, run, saved, torn, decisions>>
        BY <1>1, <2>1 DEF StartOpen, histVars, bounds
      <3> QED BY <1>0, <2>0, <3>1, ContentKept DEF Restoring, TypeOK
    <2>2. CASE db.is # "corrupt"
      BY <1>1, <2>0, <2>2, OpenIndexContent DEF StartOpen
    <2> QED BY <2>1, <2>2
  <1>2. ASSUME NEW b \in 1..MaxBuild, StartRebuild(b)
        PROVE  ContentInv'
    <2>1. /\ UNCHANGED <<db, side, sidecar, saved, torn, decisions>> /\ db.is = "corrupt"
          /\ run.at = "down" /\ (run' = run \/ run' = Rebuild(b, sidecar, Dir))
      BY <1>2 DEF StartRebuild, histVars, bounds
    <2>2. run'.at \in {"down", "build"} /\ db # NoDb
      BY <2>1 DEF Rebuild, NoDb
    <2> QED BY <1>0, <2>1, <2>2, ContentKept DEF Restoring, TypeOK
  <1>3. CASE Open
    <2>1. /\ run.at \in {"migrating", "restoring", "stamping"}
          /\ UNCHANGED <<side, sidecar, saved, torn, decisions>>
      BY <1>3 DEF Open, Migrate, CheckMirror, Stamp, MigrateFails, RestoreBackup, RestoreCut, histVars, bounds
    <2>2. db \in SoundFiles /\ db.is = "sound" /\ db # NoDb
      BY <1>0, <2>1, FileKinds DEF Opened, NoDb
    <2>3. /\ run'.at \notin Restoring
          /\ db' # NoDb
          /\ db'.is = "sound" => db'.held = db.held /\ db'.pending = db.pending
      <3>1. CASE Migrate
        <4>1. run' = run /\ db' = [db EXCEPT !.version = db.version + 1]
          BY <3>1 DEF Migrate
        <4> QED BY <2>1, <2>2, <4>1 DEF SoundFiles, Restoring, NoDb
      <3>2. CASE Stamp
        <4>1. run' = Serving /\ db' = [db EXCEPT !.mirror = db.version]
          BY <3>2 DEF Stamp
        <4> QED BY <2>2, <4>1, EndedRuns DEF SoundFiles, Restoring, NoDb
      <3>3. CASE CheckMirror \/ MigrateFails
        <4>1. db' = db /\ (run' = Down \/ Goto("stamping") \/ Goto("restoring"))
          BY <3>3 DEF CheckMirror, MigrateFails, Fail
        <4>2. \A label : Goto(label) => run'.at = label
          BY <1>0, <2>1, RunKinds DEF Goto, TypeOK
        <4> QED BY <2>2, <4>1, <4>2, EndedRuns DEF Restoring
      <3>4. CASE RestoreBackup
        <4>1. run' = Down /\ db' = run.backup /\ run.at = "restoring"
          BY <3>4 DEF RestoreBackup, Fail
        <4>2. run.backup.is = "sound" /\ run.backup.held = db.held /\ run.backup.pending = db.pending
          BY <1>0, <4>1 DEF Opened
        <4> QED BY <4>1, <4>2, EndedRuns DEF Restoring, NoDb
      <3>5. CASE RestoreCut
        <4>1. run' = Down /\ (db' = Corrupted \/ db' = db)
          BY <3>5 DEF RestoreCut
        <4> QED BY <2>2, <4>1, EndedRuns DEF Restoring, Corrupted, NoDb
      <3> QED BY <1>3, <3>1, <3>2, <3>3, <3>4, <3>5 DEF Open
    <2> QED BY <1>0, <2>1, <2>2, <2>3, ContentKept DEF TypeOK
  <1>4. CASE WriteReport
    <2>1. run.at = "reporting" /\ run.at \in Rebuilding
      BY <1>4 DEF WriteReport, Rebuilding, Building
    <2>2. side = NoDb /\ db.is = "sound"
      BY <1>0, <2>1, Acts DEF Found, Recorded, Undoable
    <2>3. run.build \in 1..MaxBuild
      BY <1>0, <2>1, RunKinds DEF TypeOK
    <2> QED BY <1>4, <2>2, <2>3, OpenIndexContent DEF WriteReport
  <1> QED BY <1>1, <1>2, <1>3, <1>4

(* A rebuild restores what the document carried, and its undoing touches   *)
(* neither the document nor the index it set aside.                        *)
LEMMA RebuildContent ==
  ASSUME FilesInv, ContentInv, RebuildStep
  PROVE  ContentInv'
  <1>0. TypeOK /\ Opened /\ Found /\ UNCHANGED <<sidecar, saved, torn, decisions>> /\ torn' \in BOOLEAN
    BY DEF FilesInv, RebuildStep, BuildBeside, RestoreBeside, AsideDb, AsideJournal, AsideSidecar, Swap, WriteReport,
           RebuildFails, UndoRename, UndoCreated, histVars, bounds, TypeOK
  <1>1. CASE WriteReport
    BY <1>1, StartContent
  <1>2. ASSUME ~WriteReport PROVE run.at \in Rebuilding
    BY <1>2 DEF RebuildStep, BuildBeside, RestoreBeside, AsideDb, AsideJournal, AsideSidecar, Swap, RebuildFails,
                UndoRename, UndoCreated, Rebuilding, Building
  <1>3. ASSUME run.at \in Rebuilding
        PROVE  /\ run.doc = sidecar /\ Undoable /\ Recorded
               /\ \A label : Goto(label) => run'.at = label
               /\ \A act, label : Acted(act, label) => run'.at = label
    <2>1. run.doc = sidecar /\ Undoable /\ Recorded
      BY <1>0, <1>3 DEF Found
    <2>2. run \in [at : Rebuilding, build : 1..MaxBuild, doc : Documents,
                   undo : Seq({"db", "journal", "swap"}),
                   found : CorruptFiles \X BOOLEAN \X {NoDb} \X Documents \X SUBSET SetAside]
      BY <1>0, <1>3, RunKinds DEF TypeOK
    <2> QED BY <2>1, <2>2 DEF Goto, Acted
  <1>4. PICK n \in Nat : n = decisions
    BY <1>0 DEF TypeOK
  <1>5. CASE BuildBeside
    <2>1. /\ db' = db /\ side' = [Empty EXCEPT !.version = run.build, !.mirror = run.build]
          /\ Goto("restore") /\ run.at = "build"
      BY <1>5 DEF BuildBeside
    <2>2. side'.held = Empty.held /\ side'.pending = Empty.pending
      BY <2>1 DEF Empty
    <2>3. Tidy(side', n) /\ run'.at = "restore"
      BY <1>3, <2>1, <2>2, EmptyTidy DEF Rebuilding, Building
    <2>4. FilesTidy'
      BY <1>0, <1>4, <2>1, <2>3 DEF ContentInv, FilesTidy
    <2>5. Carried'
      BY <1>0, <2>1, <2>3 DEF ContentInv, Carried, Restoring
    <2> QED BY <1>0, <2>4, <2>5 DEF ContentInv
  <1>6. CASE RestoreBeside
    <2>1. /\ db' = db /\ side' = (IF run.doc.is = "present" THEN Restored(run.doc, side) ELSE side)
          /\ Goto("aside_db") /\ run.at = "restore"
      BY <1>6 DEF RestoreBeside
    <2>2. run.doc = sidecar /\ run'.at = "aside_db" /\ side.is = "sound"
      BY <1>3, <2>1 DEF Rebuilding, Building, Recorded
    <2>3. side \in SoundFiles
      BY <1>0, <2>2, FileKinds
    <2>4. CASE sidecar.is = "present"
      <3>1. sidecar \in [is : {"present"}, gen : Nat, schema : Nat, held : Held, pending : SUBSET Waiting]
        BY <1>0, <2>4, FileKinds
      <3>2. Content(sidecar) /\ Tidy(sidecar, n)
        BY <1>4, <2>4, <3>1 DEF ContentInv, FilesTidy, Content
      <3>3. /\ side'.pending = Staged(sidecar)
            /\ side'.held = [x \in Items |-> IF x[1] \in Globals THEN sidecar.held[x] ELSE Absent]
        BY <2>1, <2>2, <2>3, <2>4, <3>1, RestoredIsSound
      <3>4. Tidy(side', n) /\ \A y \in Items, k \in Nat : Knows(sidecar, y, k) => Knows(side', y, k)
        BY <3>2, <3>3, StagedKeeps
      <3>5. FilesTidy'
        BY <1>0, <1>4, <2>1, <3>4 DEF ContentInv, FilesTidy
      <3>6. \A x \in Items : saved[x] \in Nat
        BY <1>0 DEF TypeOK
      <3>7. ~torn => \A x \in Items : Knows(side', x, saved[x])
        <4> SUFFICES ASSUME ~torn, NEW x \in Items PROVE Knows(side', x, saved[x])
          OBVIOUS
        <4>1. CASE saved[x] = 0
          BY <4>1 DEF Knows
        <4>2. CASE saved[x] > 0
          BY <3>4, <3>6, <4>2 DEF ContentInv, Carried
        <4> QED BY <3>6, <4>1, <4>2
      <3>8. Carried'
        BY <1>0, <2>1, <2>2, <3>7 DEF ContentInv, Carried
      <3> QED BY <1>0, <3>5, <3>8 DEF ContentInv
    <2>5. CASE sidecar.is # "present"
      <3>1. side' = side
        BY <2>1, <2>2, <2>5
      <3>2. \A x \in Items : saved[x] \in Nat
        BY <1>0 DEF TypeOK
      <3>3. ~torn => \A x \in Items : saved[x] = 0
        BY <2>5, <3>2 DEF ContentInv, Carried
      <3>4. Carried'
        BY <1>0, <2>1, <2>2, <3>1, <3>3 DEF ContentInv, Carried, Knows
      <3> QED BY <1>0, <2>1, <3>1, <3>4 DEF ContentInv, FilesTidy
    <2> QED BY <2>4, <2>5
  <1>7. CASE AsideDb
    <2>1. db' = NoDb /\ side' = side /\ Acted("db", "aside_journal") /\ run.at = "aside_db"
      BY <1>7 DEF AsideDb
    <2>2. run'.at = "aside_journal" /\ side.is = "sound"
      BY <1>3, <2>1 DEF Rebuilding, Building, Recorded
    <2> QED BY <1>0, <2>1, <2>2, ContentKept DEF Restoring, NoDb
  <1>8. CASE AsideJournal \/ AsideSidecar
    <2>1. /\ db' = db /\ side' = side /\ run.at \in {"aside_journal", "aside_sidecar"}
          /\ (Acted("journal", "aside_sidecar") \/ Goto("aside_sidecar") \/ Goto("swap"))
      BY <1>8 DEF AsideJournal, AsideSidecar
    <2>2. run'.at \in {"aside_sidecar", "swap"} /\ side.is = "sound"
      BY <1>3, <2>1 DEF Rebuilding, Building, Recorded
    <2> QED BY <1>0, <2>1, <2>2, ContentKept DEF Restoring
  <1>9. CASE Swap
    <2>1. db' = side /\ side' = NoDb /\ Acted("swap", "reporting") /\ run.at = "swap"
      BY <1>9 DEF Swap
    <2>2. run'.at = "reporting" /\ side.is = "sound"
      BY <1>3, <2>1 DEF Rebuilding, Building, Recorded
    <2>3. FilesTidy'
      BY <1>0, <2>1, <2>2 DEF ContentInv, FilesTidy, NoDb
    <2>4. Carried'
      BY <1>0, <2>1, <2>2 DEF ContentInv, Carried, Restoring
    <2> QED BY <1>0, <2>3, <2>4 DEF ContentInv
  <1>10. CASE RebuildFails
    <2>1. db' = db /\ side' = side /\ Goto("undoing") /\ run.at \in Building
      BY <1>10 DEF RebuildFails
    <2>2. run'.at = "undoing"
      BY <1>3, <2>1 DEF Rebuilding
    <2> QED BY <1>0, <2>1, <2>2, ContentKept DEF Restoring
  <1>11. CASE UndoRename
    <2>1. run.at = "undoing" /\ TakeBack(Last(run.undo)) /\ run' = [run EXCEPT !.undo = Front(run.undo)]
      BY <1>11 DEF UndoRename
    <2>2. run.at \in Rebuilding
      BY <2>1 DEF Rebuilding
    <2>3. run'.at = "undoing"
      <3>1. run \in [at : Rebuilding, build : 1..MaxBuild, doc : Documents,
                     undo : Seq({"db", "journal", "swap"}),
                     found : CorruptFiles \X BOOLEAN \X {NoDb} \X Documents \X SUBSET SetAside]
        BY <1>0, <2>2, RunKinds DEF TypeOK
      <3> QED BY <2>1, <3>1
    <2>4. CASE side' = db /\ db' = NoDb
      <3>1. db.is = "sound" \/ side'.is # "sound"
        BY <2>4
      <3>2. FilesTidy'
        BY <1>0, <2>4 DEF ContentInv, FilesTidy, NoDb
      <3>3. Carried'
        BY <1>0, <2>3, <2>4 DEF ContentInv, Carried, Restoring, NoDb
      <3> QED BY <1>0, <3>2, <3>3 DEF ContentInv
    <2>5. CASE side' = side /\ (db' = db \/ db'.is = "corrupt")
      BY <1>0, <2>3, <2>5, ContentKept DEF Restoring
    <2>6. \/ side' = db /\ db' = NoDb
          \/ side' = side /\ db' = db
          \/ side' = side /\ db' = [is |-> "corrupt", id |-> corrupted]
      BY <2>1 DEF TakeBack
    <2>7. db' = [is |-> "corrupt", id |-> corrupted] => db'.is = "corrupt"
      OBVIOUS
    <2> QED BY <2>4, <2>5, <2>6, <2>7
  <1>12. CASE UndoCreated
    <2>1. db' = db /\ side' = NoDb /\ run' = Down /\ run.undo = <<>> /\ run.at = "undoing"
      BY <1>12 DEF UndoCreated, Fail
    <2>2. db = This /\ run'.at = "down"
      BY <1>3, <2>1, EndedRuns DEF Undoable, Rebuilding
    <2> QED BY <1>0, <2>1, <2>2, ContentKept DEF Restoring, NoDb, This
  <1> QED BY <1>1, <1>5, <1>6, <1>7, <1>8, <1>9, <1>10, <1>11, <1>12 DEF RebuildStep

(* A serving core forgets nothing, and its export carries all it knows.    *)
LEMMA ServingContent ==
  ASSUME FilesInv, ContentInv,
         \/ \E x \in Items : Appear(x) \/ Decide(x)
         \/ \E last \in BOOLEAN : WriteSidecar(last)
         \/ StampGeneration \/ ShutDownUnsaved
  PROVE  ContentInv'
  <1>0. TypeOK /\ Opened /\ torn \in BOOLEAN /\ \A x \in Items : saved[x] \in Nat
    BY DEF FilesInv, TypeOK
  <1>1. PICK n \in Nat : n = decisions
    BY <1>0 DEF TypeOK
  <1>2. run = Serving \/ run.at = "exported"
    BY DEF Appear, Decide, WriteSidecar, StampGeneration, ShutDownUnsaved
  <1>3. db.is = "sound" /\ db \in SoundFiles /\ Content(db) /\ Tidy(db, n)
    <2>1. db.is = "sound"
      BY <1>0, <1>2, EndedRuns DEF Opened
    <2>2. db \in SoundFiles
      BY <1>0, <2>1, FileKinds
    <2> QED BY <1>1, <2>1, <2>2 DEF ContentInv, FilesTidy, SoundFiles, Content
  <1>4. run.at \notin Restoring
    BY <1>2, EndedRuns DEF Restoring
  <1>5. ASSUME NEW x \in Items, Appear(x)
        PROVE  ContentInv'
    <2>1. /\ db' = Match(db, x) /\ run' = run /\ db.held[x] = Absent
          /\ UNCHANGED <<side, sidecar, saved, torn, decisions>>
      BY <1>5 DEF Appear, histVars, bounds
    <2>2. /\ db'.is = "sound" /\ db'.held = [db.held EXCEPT ![x] = Max({0} \cup Values(db, x))]
          /\ db'.pending = {q \in db.pending : q.on # x}
      BY <1>3, <2>1 DEF Match, SoundFiles, Values
    <2>3. Tidy(db', n) /\ \A y \in Items, k \in Nat : Knows(db, y, k) => Knows(db', y, k)
      BY <1>3, <2>1, <2>2, MatchKeeps
    <2>4. FilesTidy'
      BY <1>1, <2>1, <2>3 DEF ContentInv, FilesTidy
    <2>5. db' # NoDb
      BY <2>2 DEF NoDb
    <2>6. Carried'
      BY <1>0, <1>3, <1>4, <2>1, <2>3, <2>5 DEF ContentInv, Carried
    <2> QED BY <2>1, <2>4, <2>6 DEF ContentInv
  <1>6. ASSUME NEW x \in Items, Decide(x)
        PROVE  ContentInv'
    <2>1. /\ decisions' = n + 1 /\ db.held[x] # Absent /\ run' = run
          /\ UNCHANGED <<side, sidecar, saved, torn>>
      BY <1>1, <1>6 DEF Decide, histVars
    <2>2. db' = [db EXCEPT !.held[x] = n + 1]
      BY <1>1, <1>6 DEF Decide
    <2>3. /\ db'.is = "sound" /\ db'.held = [db.held EXCEPT ![x] = n + 1] /\ db'.pending = db.pending
      BY <1>3, <2>2 DEF SoundFiles
    <2>4. Tidy(db', n + 1) /\ \A y \in Items, k \in Nat : Knows(db, y, k) /\ k <= n => Knows(db', y, k)
      BY <1>3, <2>1, <2>3, DecideKeeps
    <2>5. side.is = "sound" => Tidy(side, n + 1)
      <3>1. ASSUME side.is = "sound" PROVE Tidy(side, n + 1)
        <4>1. side \in SoundFiles
          BY <1>0, <3>1, FileKinds
        <4>2. Content(side) /\ Tidy(side, n)
          BY <1>1, <3>1, <4>1 DEF ContentInv, FilesTidy, SoundFiles, Content
        <4> QED BY <4>2, LaterTidy
      <3> QED BY <3>1
    <2>6. sidecar.is = "present" => Tidy(sidecar, n + 1)
      <3>1. ASSUME sidecar.is = "present" PROVE Tidy(sidecar, n + 1)
        <4>1. sidecar \in [is : {"present"}, gen : Nat, schema : Nat, held : Held, pending : SUBSET Waiting]
          BY <1>0, <3>1, FileKinds
        <4>2. Content(sidecar) /\ Tidy(sidecar, n)
          BY <1>1, <3>1, <4>1 DEF ContentInv, FilesTidy, Content
        <4> QED BY <4>2, LaterTidy
      <3> QED BY <3>1
    <2>7. FilesTidy'
      BY <2>1, <2>4, <2>5, <2>6 DEF FilesTidy
    <2>8. \A y \in Items : saved[y] <= n /\ saved[y] <= n + 1
      BY <1>0, <1>1 DEF ContentInv
    <2>9. db' # NoDb
      BY <2>3 DEF NoDb
    <2>10. Carried'
      BY <1>0, <1>3, <1>4, <2>1, <2>4, <2>8, <2>9 DEF ContentInv, Carried
    <2> QED BY <2>1, <2>7, <2>8, <2>10 DEF ContentInv
  <1>7. ASSUME NEW last \in BOOLEAN, WriteSidecar(last)
        PROVE  ContentInv'
    <2>1. /\ saved' = [x \in Items |-> Max({saved[x], db.held[x]})]
          /\ sidecar' = Export(db) /\ run' = [at |-> "exported", last |-> last]
          /\ UNCHANGED <<db, side, torn, decisions>>
      BY <1>7 DEF WriteSidecar, bounds
    <2>2. sidecar'.is = "present" /\ sidecar'.held = db.held /\ sidecar'.pending = db.pending
      BY <2>1 DEF Export
    <2>3. Tidy(sidecar', n) /\ \A x \in Items, k \in Nat : Knows(db, x, k) => Knows(sidecar', x, k)
      BY <1>3, <2>2, SameContent
    <2>4. FilesTidy'
      BY <1>1, <2>1, <2>3 DEF ContentInv, FilesTidy
    <2>5. ASSUME NEW x \in Items
          PROVE  saved'[x] \in Nat /\ saved'[x] \in {saved[x], db.held[x]}
      <3>1. saved[x] \in Int /\ db.held[x] \in Int /\ saved[x] >= 0
        BY <1>0, <1>3 DEF Content, Held, Absent
      <3>2. PICK m : m = Max({saved[x], db.held[x]})
        OBVIOUS
      <3>3. m \in {saved[x], db.held[x]} /\ m >= saved[x]
        BY <3>1, <3>2, MaxOfTwo
      <3> QED BY <2>1, <3>1, <3>2, <3>3
    <2>6. \A x \in Items : saved'[x] <= decisions'
      <3>1. \A x \in Items : saved[x] <= n /\ db.held[x] <= n
        BY <1>1, <1>3 DEF ContentInv, Tidy
      <3>2. \A x \in Items : saved'[x] <= n
        BY <2>5, <3>1
      <3> QED BY <1>1, <2>1, <3>2
    <2>7. ASSUME ~torn, NEW x \in Items
          PROVE  Knows(db, x, saved'[x])
      BY <1>3, <2>5, <2>7 DEF ContentInv, Carried, Knows
    <2>8. ASSUME ~torn, NEW x \in Items
          PROVE  Knows(sidecar', x, saved'[x])
      BY <2>3, <2>5, <2>7, <2>8
    <2>9. Carried'
      BY <2>1, <2>2, <2>7, <2>8 DEF Carried, Restoring
    <2> QED BY <2>1, <2>4, <2>6, <2>9 DEF ContentInv
  <1>8. CASE StampGeneration
    <2>1. /\ db' = [db EXCEPT !.gen = sidecar.gen] /\ (run' = Down \/ run' = Serving)
          /\ UNCHANGED <<side, sidecar, saved, torn, decisions>>
      BY <1>8 DEF StampGeneration, histVars, bounds
    <2>2. db'.is = "sound" /\ db'.held = db.held /\ db'.pending = db.pending /\ db' # NoDb
      BY <1>3, <2>1 DEF SoundFiles, NoDb
    <2>3. run'.at \notin Restoring
      BY <2>1, EndedRuns DEF Restoring
    <2> QED BY <1>0, <1>3, <2>1, <2>2, <2>3, ContentKept
  <1>9. CASE ShutDownUnsaved
    <2>1. UNCHANGED <<db, side, sidecar, saved, torn, decisions>> /\ run' = Down
      BY <1>9 DEF ShutDownUnsaved, histVars
    <2>2. run'.at \notin Restoring /\ db # NoDb
      BY <1>3, <2>1, EndedRuns DEF Restoring, NoDb
    <2> QED BY <1>0, <2>1, <2>2, ContentKept
  <1> QED BY <1>5, <1>6, <1>7, <1>8, <1>9

(* A death, a corruption and a document gone bad lose only what is promised *)
(* no more.                                                                 *)
LEMMA FateContent ==
  ASSUME FilesInv, ContentInv, Crash \/ Corrupt \/ Rot
  PROVE  ContentInv'
  <1>0. TypeOK /\ torn \in BOOLEAN
    BY DEF FilesInv, TypeOK
  <1>1. CASE Crash
    <2>1. /\ run' = Down /\ side' = NoDb /\ torn' = (torn \/ db.is = "none")
          /\ UNCHANGED <<db, sidecar, saved, decisions>>
      BY <1>1 DEF Crash
    <2>2. run'.at \notin Restoring /\ side'.is # "sound"
      BY <2>1, EndedRuns DEF Restoring, NoDb
    <2>3. db = NoDb => db.is = "none"
      BY DEF NoDb
    <2>4. torn' \in BOOLEAN /\ (torn => torn')
      BY <1>0, <2>1
    <2>5. ~torn' => db' # NoDb
      BY <2>1, <2>3, Zenon
    <2> QED BY <1>0, <2>1, <2>2, <2>4, <2>5, ContentKept
  <1>2. CASE Corrupt
    <2>1. db' = Corrupted /\ UNCHANGED <<run, side, sidecar, saved, torn, decisions>> /\ run = Down
      BY <1>2 DEF Corrupt, bounds
    <2>2. db'.is = "corrupt" /\ db' # NoDb /\ run'.at \notin Restoring
      BY <2>1, EndedRuns DEF Corrupted, NoDb, Restoring
    <2> QED BY <1>0, <2>1, <2>2, ContentKept
  <1>3. CASE Rot
    <2>1. /\ sidecar' = Unreadable /\ saved' = [x \in Items |-> 0] /\ run = Down
          /\ UNCHANGED <<db, side, run, torn, decisions>>
      BY <1>3 DEF Rot
    <2>2. sidecar'.is # "present"
      BY <2>1 DEF Unreadable
    <2>3. \A x \in Items : saved'[x] = 0
      BY <2>1
    <2>4. FilesTidy'
      BY <2>1, <2>2 DEF ContentInv, FilesTidy
    <2>5. decisions \in Nat
      BY <1>0 DEF TypeOK
    <2>6. Carried'
      BY <2>3 DEF Carried, Knows
    <2> QED BY <2>1, <2>3, <2>4, <2>5, <2>6 DEF ContentInv
  <1> QED BY <1>1, <1>2, <1>3

-----------------------------------------------------------------------------
(* A corrupt index is kept, and its journal leaves its place with it.      *)

Kept ==
    /\ \A k \in 1..corrupted : [is |-> "corrupt", id |-> k] \in aside \cup {db}
    /\ db.is = "sound" => ~journal

IInv == FilesInv /\ ContentInv /\ Kept

(* The files at the first start.                                           *)
LEMMA InitHolds == Init => IInv
  <1> SUFFICES ASSUME Init PROVE IInv
    OBVIOUS
  <1> USE DEF Init
  <1>1. run \in Runs /\ run.at = "down" /\ run.at \notin Rebuilding /\ run.at \notin Restoring
    BY EndedRuns DEF Restoring
  <1>2. TypeOK
    BY <1>1 DEF TypeOK, Documents
  <1>3. db.is = "none" /\ side.is = "none" /\ sidecar.is = "absent"
    BY DEF NoDb, NoDoc
  <1>4. FilesInv
    BY <1>1, <1>2, <1>3 DEF FilesInv, Opened, AsideBefore, Found
  <1>5. ContentInv
    BY <1>1, <1>3 DEF ContentInv, FilesTidy, Carried, Knows
  <1>6. Kept
    BY <1>3 DEF Kept
  <1> QED BY <1>4, <1>5, <1>6 DEF IInv

(* No step loses a corrupt index, or leaves its journal beside a sound one. *)
LEMMA KeptStep ==
  ASSUME FilesInv, FilesInv', Kept, Next
  PROVE  Kept'
  <1>0. TypeOK /\ Opened /\ AsideBefore /\ Found /\ corrupted \in Nat /\ journal \in BOOLEAN
    BY DEF FilesInv, TypeOK
  <1>1. ASSUME corrupted' = corrupted,
               \A k \in 1..corrupted : [is |-> "corrupt", id |-> k] \in aside \cup {db} =>
                                        [is |-> "corrupt", id |-> k] \in aside' \cup {db'},
               db'.is = "sound" => ~journal'
        PROVE  Kept'
    BY <1>1 DEF Kept
  <1>2. \A k \in Nat : [is |-> "corrupt", id |-> k] \notin {NoDb, Its, Copy}
    BY DEF NoDb, Its, Copy
  <1>3. ASSUME NEW b \in 1..MaxBuild, OpenIndex(b), UNCHANGED <<side, sidecar, aside, histVars, bounds>>,
               db.is # "corrupt"
        PROVE  Kept'
    <2>1. journal' = FALSE /\ aside' = aside /\ corrupted' = corrupted
      BY <1>3 DEF OpenIndex, histVars
    <2>2. \A k \in 1..corrupted : [is |-> "corrupt", id |-> k] # db
      BY <1>3
    <2> QED BY <1>1, <2>1, <2>2
  <1>4. CASE Start
    <2>1. PICK b \in 1..MaxBuild : StartOpen(b) \/ StartRebuild(b)
      BY <1>4 DEF Start
    <2>2. CASE StartOpen(b) /\ db.is # "corrupt"
      BY <1>3, <2>2 DEF StartOpen
    <2>3. CASE StartOpen(b) /\ db.is = "corrupt"
      <3>1. UNCHANGED <<db, journal, aside, corrupted>>
        BY <2>3 DEF StartOpen, histVars
      <3> QED BY <3>1 DEF Kept
    <2>4. CASE StartRebuild(b)
      <3>1. UNCHANGED <<db, journal, aside, corrupted>>
        BY <2>4 DEF StartRebuild, histVars
      <3> QED BY <3>1 DEF Kept
    <2> QED BY <2>1, <2>2, <2>3, <2>4
  <1>5. CASE Open
    <2>1. run.at \in {"migrating", "restoring", "stamping"} /\ UNCHANGED <<journal, aside>>
      BY <1>5 DEF Open, Migrate, CheckMirror, Stamp, MigrateFails, RestoreBackup, RestoreCut
    <2>2. db.is = "sound" /\ ~journal
      BY <1>0, <2>1 DEF Opened, Kept
    <2>3. \A k \in Nat : [is |-> "corrupt", id |-> k] # db
      BY <2>2
    <2>4. CASE corrupted' = corrupted
      BY <1>1, <2>1, <2>2, <2>3, <2>4
    <2>5. CASE RestoreCut /\ db' = Corrupted /\ corrupted' = corrupted + 1
      BY <1>0, <2>1, <2>3, <2>5 DEF Kept, Corrupted
    <2>6. corrupted' = corrupted \/ (RestoreCut /\ db' = Corrupted /\ corrupted' = corrupted + 1)
      BY <1>5 DEF Open, Migrate, CheckMirror, Stamp, MigrateFails, RestoreBackup, RestoreCut, histVars
    <2> QED BY <2>4, <2>5, <2>6
  <1>6. CASE BuildBeside \/ RestoreBeside \/ AsideSidecar \/ RebuildFails
    <2>1. UNCHANGED <<db, journal, corrupted>> /\ aside \subseteq aside'
      BY <1>6 DEF BuildBeside, RestoreBeside, AsideSidecar, RebuildFails, histVars
    <2> QED BY <1>1, <2>1 DEF Kept
  <1>7. CASE AsideDb
    <2>1. aside' = aside \cup {db} /\ db' = NoDb /\ UNCHANGED <<journal, corrupted>>
      BY <1>7 DEF AsideDb, histVars
    <2>2. db'.is # "sound"
      BY <2>1 DEF NoDb
    <2> QED BY <1>1, <2>1, <2>2
  <1>8. CASE AsideJournal
    <2>1. db' = db /\ journal' = FALSE /\ corrupted' = corrupted /\ aside \subseteq aside'
      BY <1>8 DEF AsideJournal, histVars
    <2> QED BY <1>1, <2>1
  <1>9. CASE Swap
    <2>1. db' = side /\ run.at = "swap" /\ UNCHANGED <<journal, aside, corrupted>>
      BY <1>9 DEF Swap, histVars
    <2>2. run.at \in Rebuilding
      BY <2>1 DEF Rebuilding, Building
    <2>3. db = NoDb /\ ~journal
      BY <1>0, <2>1, <2>2, Acts DEF Found, Undoable, Recorded
    <2> QED BY <1>1, <1>2, <2>1, <2>3
  <1>10. CASE WriteReport
    <2>1. run.at = "reporting" /\ run.at \in Rebuilding
      BY <1>10 DEF WriteReport, Rebuilding, Building
    <2>2. db.is = "sound"
      BY <1>0, <2>1, Acts DEF Found, Recorded, Undoable
    <2>3. run.build \in 1..MaxBuild
      BY <1>0, <2>1, RunKinds DEF TypeOK
    <2> QED BY <1>3, <1>10, <2>2, <2>3 DEF WriteReport
  <1>11. CASE UndoRename
    <2>0. TakeBack(Last(run.undo)) /\ corrupted' = corrupted /\ run.at = "undoing"
      BY <1>11 DEF UndoRename, histVars
    <2>1. CASE side' = db /\ db' = NoDb /\ UNCHANGED <<journal, aside>> /\ Last(run.undo) = "swap"
      <3>1. run.at \in Rebuilding
        BY <2>0 DEF Rebuilding
      <3>2. db.is = "sound" /\ db'.is # "sound"
        BY <1>0, <2>1, <3>1, Acts, <1>11 DEF Found, Undoable, UndoRename, NoDb
      <3> QED BY <1>1, <2>0, <2>1, <3>2
    <2>2. CASE journal' = TRUE /\ aside' = aside \ {Its} /\ UNCHANGED <<db, side>> /\ Last(run.undo) = "journal"
      <3>1. run.at \in Rebuilding
        BY <2>0 DEF Rebuilding
      <3>2. db.is # "sound"
        BY <1>0, <2>2, <3>1, Acts, <1>11 DEF Found, Undoable, UndoRename, NoDb
      <3> QED BY <1>1, <1>2, <2>0, <2>2, <3>2
    <2>3. CASE db' = This /\ aside' = aside \ {This} /\ UNCHANGED <<side, journal>> /\ Last(run.undo) = "db"
      <3>1. run.at \in Rebuilding
        BY <2>0 DEF Rebuilding
      <3>2. db = NoDb
        BY <1>0, <2>3, <3>1, Acts, <1>11 DEF Found, Undoable, UndoRename
      <3>3. db'.is # "sound"
        BY <2>3 DEF This
      <3> QED BY <1>1, <1>2, <2>0, <2>3, <3>2, <3>3
    <2> QED BY <2>0, <2>1, <2>2, <2>3 DEF TakeBack, This, Its
  <1>12. CASE UndoCreated
    <2>1. UNCHANGED <<db, journal, corrupted>> /\ aside' = aside \ {Copy}
      BY <1>12 DEF UndoCreated, Copy, histVars
    <2> QED BY <1>1, <1>2, <2>1 DEF Kept
  <1>13. CASE \/ \E x \in Items : Appear(x) \/ Decide(x)
              \/ \E last \in BOOLEAN : WriteSidecar(last)
              \/ StampGeneration \/ ShutDownUnsaved
    <2>1. /\ run = Serving \/ run.at = "exported"
          /\ UNCHANGED <<journal, aside, corrupted>>
      BY <1>13 DEF Appear, Decide, WriteSidecar, StampGeneration, ShutDownUnsaved, histVars
    <2>2. db.is = "sound" /\ ~journal
      BY <1>0, <2>1, EndedRuns DEF Opened, Kept
    <2> QED BY <1>1, <2>1, <2>2
  <1>14. CASE Crash
    <2>1. UNCHANGED <<db, journal, corrupted>> /\ (aside' = aside \/ aside' = aside \ {Copy})
      BY <1>14 DEF Crash, Copy
    <2> QED BY <1>1, <1>2, <2>1 DEF Kept
  <1>15. CASE Corrupt
    <2>1. db' = Corrupted /\ corrupted' = corrupted + 1 /\ aside' = aside /\ db.is = "sound"
      BY <1>15 DEF Corrupt
    <2>2. \A k \in Nat : [is |-> "corrupt", id |-> k] # db
      BY <2>1
    <2> QED BY <1>0, <2>1, <2>2 DEF Kept, Corrupted
  <1>16. CASE Rot
    <2>1. UNCHANGED <<db, journal, corrupted, aside>>
      BY <1>16 DEF Rot
    <2> QED BY <2>1 DEF Kept
  <1> QED BY <1>4, <1>5, <1>6, <1>7, <1>8, <1>9, <1>10, <1>11, <1>12, <1>13, <1>14, <1>15, <1>16
          DEF Next, RebuildStep

(* Every step keeps the files in order, what is known, and what is set     *)
(* aside.                                                                  *)
LEMMA StepHolds == IInv /\ [Next]_vars => IInv'
  <1> SUFFICES ASSUME IInv, [Next]_vars PROVE IInv'
    OBVIOUS
  <1>0. FilesInv /\ ContentInv /\ Kept /\ FilesTidy
    BY DEF IInv, ContentInv
  <1>1. CASE UNCHANGED vars
    BY <1>0, <1>1 DEF IInv, FilesInv, TypeOK, Opened, AsideBefore, Found, Undoable, Recorded, This, Its, Copy,
                      ContentInv, FilesTidy, Carried, Kept, vars, histVars, bounds
  <1>2. CASE Next
    <2>1. FilesInv'
      BY <1>0, <1>2, StartFiles, OpenFiles, BuildFiles, UndoFiles, UndoneFiles, ReportFiles, ServingFiles, FateFiles
         DEF Next, Start, RebuildStep
    <2>2. ContentInv'
      BY <1>0, <1>2, StartContent, RebuildContent, ServingContent, FateContent DEF Next, Start
    <2> QED BY <1>0, <1>2, <2>1, <2>2, KeptStep DEF IInv
  <1> QED BY <1>1, <1>2

(* TypeOK always: every file is of its kind, and no start that ended by    *)
(* itself leaves a half-built index; a rebuild's record of its acts always *)
(* leads back to the directory it found (recovery.rs, rebuild.rs).         *)
THEOREM SpecTypeOK == Spec => [](TypeOK /\ Found)
  <1>1. IInv => TypeOK /\ Found
    BY DEF IInv, FilesInv
  <1> QED BY <1>1, InitHolds, StepHolds, PTL DEF Spec

(* CorruptIsKept always: a corrupt database is never deleted (recovery.rs), *)
(* and none of its journal stands beside a sound one.                      *)
THEOREM SpecCorruptIsKept == Spec => []CorruptIsKept
  <1>1. IInv => CorruptIsKept
    BY DEF IInv, Kept, CorruptIsKept
  <1> QED BY <1>1, InitHolds, StepHolds, PTL DEF Spec

(* AppliesOnce always: a record is held or waits, never both (pending.rs). *)
THEOREM SpecAppliesOnce == Spec => []AppliesOnce
  <1>1. ASSUME IInv, db.is = "sound", NEW x \in Items
        PROVE  Cardinality({r \in db.pending : r.on = x}) <= IF db.held[x] = Absent THEN 1 ELSE 0
    <2> DEFINE W == {r \in db.pending : r.on = x}
    <2>1. Tidy(db, decisions)
      BY <1>1 DEF IInv, ContentInv, FilesTidy
    <2>2. CASE db.held[x] # Absent
      <3>1. W = {}
        BY <2>1, <2>2 DEF Tidy
      <3>2. Cardinality(W) = 0
        BY <3>1, FS_EmptySet
      <3> QED BY <2>2, <3>2
    <2>3. CASE db.held[x] = Absent
      <3>1. W = {} \/ \E r : W = {r}
        BY <2>1 DEF Tidy
      <3>2. Cardinality(W) \in {0, 1}
        BY <3>1, FS_EmptySet, FS_Singleton
      <3> QED BY <2>3, <3>2
    <2> QED BY <2>2, <2>3
  <1>2. IInv => AppliesOnce
    BY <1>1 DEF AppliesOnce
  <1> QED BY <1>2, InitHolds, StepHolds, PTL DEF Spec

(* SavedIsNotLost always: what a readable sidecar has carried is held, or  *)
(* waits, or stands in the document, through any number of corruptions,    *)
(* deaths and rebuilds, but for a death between set-aside and swap.        *)
THEOREM SpecSavedIsNotLost == Spec => []SavedIsNotLost
  <1>1. ASSUME IInv, ~torn, NEW x \in Items
        PROVE  IF db.is = "sound" THEN Known(db, x) >= saved[x]
               ELSE saved[x] > 0 => sidecar.is = "present" /\ Known(sidecar, x) >= saved[x]
    <2>1. TypeOK /\ FilesTidy /\ Carried
      BY <1>1 DEF IInv, FilesInv, ContentInv
    <2>2. PICK k \in Nat : k = saved[x]
      BY <2>1 DEF TypeOK
    <2>3. CASE db.is = "sound"
      <3>1. db \in SoundFiles
        BY <2>1, <2>3, FileKinds
      <3>2. Content(db) /\ Tidy(db, decisions) /\ Knows(db, x, k)
        BY <1>1, <2>1, <2>2, <2>3, <3>1 DEF SoundFiles, Content, FilesTidy, Carried
      <3> QED BY <2>2, <2>3, <3>2, KnownIs
    <2>4. CASE db.is # "sound"
      <3>1. k > 0 => sidecar.is = "present" /\ Knows(sidecar, x, k)
        BY <1>1, <2>1, <2>2 DEF Carried
      <3>2. ASSUME sidecar.is = "present" PROVE Content(sidecar) /\ Tidy(sidecar, decisions)
        <4>1. sidecar \in [is : {"present"}, gen : Nat, schema : Nat, held : Held, pending : SUBSET Waiting]
          BY <2>1, <3>2, FileKinds
        <4> QED BY <2>1, <3>2, <4>1 DEF Content, FilesTidy
      <3> QED BY <2>2, <2>4, <3>1, <3>2, KnownIs
    <2> QED BY <2>3, <2>4
  <1>2. IInv => SavedIsNotLost
    BY <1>1 DEF SavedIsNotLost
  <1> QED BY <1>2, InitHolds, StepHolds, PTL DEF Spec

(* UndoneLeavesAsFound always: a rebuild that fails leaves the directory as *)
(* it found it, wherever it failed (Undo::after).                          *)
THEOREM SpecUndoneLeavesAsFound == Spec => UndoneLeavesAsFound
  <1>1. ASSUME IInv, [Next]_vars, run.at = "undoing", run' = Down, crashes' = crashes
        PROVE  Dir' = run.found
    <2>0. run # Down /\ run # Serving
      BY <1>1, EndedRuns
    <2>1. run' # run
      BY <1>1, <2>0
    <2>2. Next /\ run' # run
      BY <1>1, <2>1 DEF vars
    <2>3. ~Start /\ ~Open
      BY <1>1 DEF Start, StartOpen, StartRebuild, Open, Migrate, CheckMirror, Stamp, MigrateFails, RestoreBackup, RestoreCut
    <2>4. ~(\E x \in Items : Appear(x) \/ Decide(x)) /\ ~(\E last \in BOOLEAN : WriteSidecar(last))
          /\ ~StampGeneration /\ ~ShutDownUnsaved /\ ~Corrupt /\ ~Rot
      BY <1>1, <2>0 DEF Appear, Decide, WriteSidecar, StampGeneration, ShutDownUnsaved, Corrupt, Rot
    <2>5. ~Crash
      <3>1. crashes \in Nat
        BY <1>1 DEF IInv, FilesInv, TypeOK
      <3> QED BY <1>1, <3>1 DEF Crash
    <2>6. ~(BuildBeside \/ RestoreBeside \/ AsideDb \/ AsideJournal \/ AsideSidecar \/ Swap \/ WriteReport \/ RebuildFails)
      BY <1>1 DEF BuildBeside, RestoreBeside, AsideDb, AsideJournal, AsideSidecar, Swap, WriteReport, RebuildFails, Building
    <2>7. ~UndoRename
      <3>1. ASSUME UndoRename PROVE FALSE
        <4>1. run' = [run EXCEPT !.undo = Front(run.undo)] /\ run.at \in Rebuilding
          BY <1>1, <3>1 DEF UndoRename, Rebuilding
        <4>2. run \in [at : Rebuilding, build : 1..MaxBuild, doc : Documents,
                       undo : Seq({"db", "journal", "swap"}),
                       found : CorruptFiles \X BOOLEAN \X {NoDb} \X Documents \X SUBSET SetAside]
          BY <1>1, <4>1, RunKinds DEF IInv, FilesInv, TypeOK
        <4>3. run'.at = "undoing"
          BY <1>1, <4>1, <4>2
        <4> QED BY <1>1, <4>3, EndedRuns
      <3> QED BY <3>1
    <2>8. UndoCreated
      BY <2>2, <2>3, <2>4, <2>5, <2>6, <2>7 DEF Next, RebuildStep
    <2> QED BY <1>1, <2>8, UndoneFiles DEF IInv
  <1>2. IInv /\ [Next]_vars => [run.at = "undoing" /\ run' = Down /\ crashes' = crashes => Dir' = run.found]_vars
    BY <1>1
  <1> QED BY <1>2, InitHolds, StepHolds, PTL DEF Spec, UndoneLeavesAsFound
=============================================================================
