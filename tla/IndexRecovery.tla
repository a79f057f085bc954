----------------------------- MODULE IndexRecovery -----------------------------
(***************************************************************************)
(* The index on disk and what brings it back: a start probes, opens and    *)
(* migrates it (startup.rs, index/mod.rs, migrate.rs, backup.rs); a        *)
(* serving core exports the sidecar (sidecar.rs); a start with --rebuild   *)
(* builds a fresh index beside a corrupt one, restores the sidecar into    *)
(* it, sets the corrupt files aside and swaps it in (rebuild.rs,           *)
(* recovery.rs); records no project holds yet wait in sidecar_pending      *)
(* (pending.rs).  The process may die between any two steps.               *)
(*                                                                         *)
(* A user's decision is a number, larger when it is later.  "row" stands   *)
(* for what hangs off a project's own record (its flags, note, sessions),  *)
(* "ruling" for a section row, which needs the evaluator's rows first.     *)
(*                                                                         *)
(* Abstracted: the columns and sections themselves, hex, checksums (a      *)
(* document reads or it does not), SQL; a subject several live projects    *)
(* hold, whose records stay pending; two rebuilds in one second; the       *)
(* backups and index.db.rebuild-<now> files an earlier run left, which     *)
(* carry another time in their name and are not read again.                *)
(***************************************************************************)
EXTENDS Integers, SequencesExt

CONSTANTS
    Subjects,        \* what records are keyed on
    Globals,         \* those restored without a scan: settings, no-scan projects
    MaxBuild,        \* schema versions; a build supports the versions up to its own
    MaxDecisions,    \* bound
    MaxGeneration,   \* bound: exports one after the other
    MaxCrashes,      \* bound
    MaxFaults,       \* bound: steps that fail, documents that rot
    MaxCorruptions   \* bound

ASSUME IndexRecoveryAssumption ==
    /\ Globals \subseteq Subjects
    /\ MaxBuild \in Nat \ {0}
    /\ {MaxDecisions, MaxGeneration, MaxCrashes, MaxFaults, MaxCorruptions} \subseteq Nat

Items == (Subjects \X {"row"}) \cup ((Subjects \ Globals) \X {"ruling"})
Absent == -1

VARIABLES
    db,         \* index.db
    journal,    \* a corrupt index's -wal and -shm stand beside index.db
    side,       \* index.db.rebuild-<now>
    sidecar,    \* index-sidecar.json
    aside,      \* the .corrupt-<now> set: databases, journals, sidecar copies
    run,        \* the process: where it is, and what it holds in hand there
    report,     \* what the shell reads of the last start
    corrupted,  \* history: corruptions so far
    saved,      \* history: the newest decision a readable sidecar has carried
    torn,       \* history: a death fell between the set-aside and the swap
    decisions, crashes, faults   \* bounds

histVars == <<corrupted, saved, torn>>
bounds == <<decisions, crashes, faults>>
vars == <<db, journal, side, sidecar, aside, run, report, histVars, bounds>>

NoDb == [is |-> "none"]
Empty == [is |-> "sound", version |-> 0, mirror |-> 0, gen |-> 0,
          held |-> [x \in Items |-> IF x[1] \in Globals THEN 0 ELSE Absent],
          pending |-> {}]
NoDoc == [is |-> "absent"]
Unreadable == [is |-> "unreadable"]

Down == [at |-> "down"]
Serving == [at |-> "serving"]
Opening(b, v, copy) == [at |-> "migrating", build |-> b, from |-> v, backup |-> copy]
Rebuild(b, d, f) == [at |-> "build", build |-> b, doc |-> d, undo |-> <<>>, found |-> f]

Dir == <<db, journal, side, sidecar, aside>>

-----------------------------------------------------------------------------
(* The document and the pending table.                                      *)

\* An export that leaves the waiting records to the database.
ExportWithoutPending(d) == [is |-> "present", gen |-> d.gen + 1, schema |-> d.version,
                            held |-> d.held, pending |-> {}]

\* export: what each subject holds, and every pending record as it stands.
Export(d) == [is |-> "present", gen |-> d.gen + 1, schema |-> d.version, held |-> d.held,
              pending |-> d.pending]

\* stage_pending: the document's own pending records verbatim, then its per-subject records.
Staged(d) == d.pending \cup
    {[on |-> x, gen |-> d.gen, value |-> d.held[x]] :
        x \in {y \in Items : y[1] \notin Globals /\ d.held[y] # Absent}}

\* restore: the global half now, the rest staged, and the generation the document continues.
Restored(d, s) == [s EXCEPT !.pending = Staged(d), !.gen = d.gen,
    !.held = [x \in Items |-> IF x[1] \in Globals THEN d.held[x] ELSE Absent]]

\* match_pending that applies a record and keeps it.
MatchKeeping(d, x) == [d EXCEPT
    !.held[x] = Max({0} \cup {r.value : r \in {q \in d.pending : q.on = x}})]

\* match_pending: a record is applied in the transaction that deletes it.
Match(d, x) == [d EXCEPT
    !.held[x] = Max({0} \cup {r.value : r \in {q \in d.pending : q.on = x}}),
    !.pending = {q \in @ : q.on # x}]

\* inspect calls a document of a newer schema newer, and nothing is restored from it.
Newer(s, b) == s.is = "present" /\ s.schema > b

-----------------------------------------------------------------------------
(* A start.                                                                 *)

Fail(why) == run' = Down /\ report' = why
Goto(label) == run' = [run EXCEPT !.at = label]

\* open_with_migrations up to the migrations: the file is made when there is none, an index from
\* the future is refused, and one to be migrated is copied first.  SQLite drops a journal that
\* stands beside no database.
OpenIndex(b) ==
    LET d == IF db.is = "none" THEN Empty ELSE db IN
    /\ db' = d
    /\ journal' = FALSE
    /\ IF d.version > b
       THEN Fail("schema_from_future")
       ELSE /\ run' = Opening(b, d.version, IF d.version \in 1..(b - 1) THEN d ELSE NoDb)
            /\ UNCHANGED report

\* open_index.  The probe meets a corrupt index before an open could touch its journal.
StartOpen(b) ==
    /\ run.at = "down"
    /\ IF db.is = "corrupt"
       THEN report' = "corrupt_index" /\ UNCHANGED <<db, journal, run>>
       ELSE OpenIndex(b)
    /\ UNCHANGED <<side, sidecar, aside, histVars, bounds>>

\* rebuild_index up to the first act; one that opens is opened.
StartRebuild(b) ==
    /\ run.at = "down"
    /\ db.is = "corrupt"
    /\ IF Newer(sidecar, b)
       THEN report' = "sidecar_newer" /\ UNCHANGED run
       ELSE run' = Rebuild(b, sidecar, Dir) /\ UNCHANGED report
    /\ UNCHANGED <<db, journal, side, sidecar, aside, histVars, bounds>>

\* apply_one or apply_rebuild: one migration, one transaction.
Migrate ==
    /\ run.at = "migrating"
    /\ db.version < run.build
    /\ db' = [db EXCEPT !.version = @ + 1]
    /\ UNCHANGED <<journal, side, sidecar, aside, run, report, histVars, bounds>>

\* A migration fails; the ones before it stay, until the backup is put back.
MigrateFails ==
    /\ run.at = "migrating"
    /\ db.version < run.build
    /\ faults < MaxFaults
    /\ faults' = faults + 1
    /\ IF run.from > 0 THEN Goto("restoring") /\ UNCHANGED report ELSE Fail("migration_failed")
    /\ UNCHANGED <<db, journal, side, sidecar, aside, histVars, decisions, crashes>>

\* restore_over.
RestoreBackup ==
    /\ run.at = "restoring"
    /\ db' = run.backup
    /\ Fail("migration_failed")
    /\ UNCHANGED <<journal, side, sidecar, aside, histVars, bounds>>

\* The version a mirror is compared with: the one found on disk.
FoundVersion == run.from

MirrorAgrees == db.mirror \in {0, FoundVersion}

\* The check that follows the migrations.
CheckMirror ==
    /\ run.at = "migrating"
    /\ db.version = run.build
    /\ IF MirrorAgrees THEN Goto("stamping") /\ UNCHANGED report ELSE Fail("mirror_mismatch")
    /\ UNCHANGED <<db, journal, side, sidecar, aside, histVars, bounds>>

\* stamp_schema_mirror, after which the start is over and a stale report goes.
Stamp ==
    /\ run.at = "stamping"
    /\ db' = [db EXCEPT !.mirror = db.version]
    /\ run' = Serving
    /\ report' = "none"
    /\ UNCHANGED <<journal, side, sidecar, aside, histVars, bounds>>

-----------------------------------------------------------------------------
(* A rebuild.  Each act is recorded before or as it is done.                 *)

\* Where a rebuild may still fail.
Building == {"build", "restore", "aside_db", "aside_journal", "aside_sidecar", "swap", "reporting"}

Acted(act, label) == run' = [run EXCEPT !.at = label, !.undo = Append(@, act)]

\* rebuild_beside: the fresh index, migrated and stamped, beside the corrupt one.
BuildBeside ==
    /\ run.at = "build"
    /\ side' = [Empty EXCEPT !.version = run.build, !.mirror = run.build]
    /\ Goto("restore")
    /\ UNCHANGED <<db, journal, sidecar, aside, report, histVars, bounds>>

\* The restore transaction; an index with no document to read starts empty.
RestoreBeside ==
    /\ run.at = "restore"
    /\ side' = IF run.doc.is = "present" THEN Restored(run.doc, side) ELSE side
    /\ Goto("aside_db")
    /\ UNCHANGED <<db, journal, sidecar, aside, report, histVars, bounds>>

\* quarantine_set: the database.
AsideDb ==
    /\ run.at = "aside_db"
    /\ aside' = aside \cup {db}
    /\ db' = NoDb
    /\ Acted("db", "aside_journal")
    /\ UNCHANGED <<journal, side, sidecar, report, histVars, bounds>>

\* quarantine_set that leaves the journal where it was.
AsideJournalSkipped ==
    /\ run.at = "aside_journal"
    /\ Goto("aside_sidecar")
    /\ UNCHANGED <<db, journal, side, sidecar, aside, report, histVars, bounds>>

\* quarantine_set: its journal, where there is one.
AsideJournal ==
    /\ run.at = "aside_journal"
    /\ journal' = FALSE
    /\ IF journal
       THEN /\ aside' = aside \cup {[is |-> "journal", id |-> corrupted]}
            /\ Acted("journal", "aside_sidecar")
       ELSE Goto("aside_sidecar") /\ UNCHANGED aside
    /\ UNCHANGED <<db, side, sidecar, report, histVars, bounds>>

\* quarantine_set: a copy of the sidecar, whether it reads or not.
AsideSidecar ==
    /\ run.at = "aside_sidecar"
    /\ aside' = IF sidecar.is = "absent" THEN aside
                ELSE aside \cup {[is |-> "copy", id |-> corrupted]}
    /\ Goto("swap")
    /\ UNCHANGED <<db, journal, side, sidecar, report, histVars, bounds>>

Swap ==
    /\ run.at = "swap"
    /\ db' = side
    /\ side' = NoDb
    /\ Acted("swap", "reporting")
    /\ UNCHANGED <<journal, sidecar, aside, report, histVars, bounds>>

\* write_report, then an ordinary open.
WriteReport ==
    /\ run.at = "reporting"
    /\ OpenIndex(run.build)
    /\ UNCHANGED <<side, sidecar, aside, histVars, bounds>>

\* Any act before the report is written may fail, before it has changed anything.
RebuildFails ==
    /\ run.at \in Building
    /\ faults < MaxFaults
    /\ faults' = faults + 1
    /\ Goto("undoing")
    /\ UNCHANGED <<db, journal, side, sidecar, aside, report, histVars, decisions, crashes>>

\* One rename of Undo::after, taken back.
TakeBack(act) ==
    \/ /\ act = "swap"
       /\ side' = db
       /\ db' = NoDb
       /\ UNCHANGED <<journal, aside>>
    \/ /\ act = "journal"
       /\ journal' = TRUE
       /\ aside' = aside \ {[is |-> "journal", id |-> corrupted]}
       /\ UNCHANGED <<db, side>>
    \/ /\ act = "db"
       /\ db' = [is |-> "corrupt", id |-> corrupted]
       /\ aside' = aside \ {db'}
       /\ UNCHANGED <<side, journal>>

\* Undo::after that takes the renames back oldest first.
UndoRenameOldest ==
    /\ run.at = "undoing"
    /\ run.undo # <<>>
    /\ run' = [run EXCEPT !.undo = Tail(@)]
    /\ TakeBack(Head(run.undo))
    /\ UNCHANGED <<sidecar, report, histVars, bounds>>

\* Undo::after: the renames, newest first.
UndoRename ==
    /\ run.at = "undoing"
    /\ run.undo # <<>>
    /\ run' = [run EXCEPT !.undo = Front(@)]
    /\ TakeBack(Last(run.undo))
    /\ UNCHANGED <<sidecar, report, histVars, bounds>>

\* Undo::after: then every file created, the renamed index among them; the process exits.
UndoCreated ==
    /\ run.at = "undoing"
    /\ run.undo = <<>>
    /\ side' = NoDb
    /\ aside' = aside \ {[is |-> "copy", id |-> corrupted]}
    /\ Fail("rebuild_failed")
    /\ UNCHANGED <<db, journal, sidecar, histVars, bounds>>

-----------------------------------------------------------------------------
(* A serving core.                                                          *)

\* A hand-off finds a subject's copy, or an evaluator writes a project's rows for the first time:
\* either way the row starts at its default and the records waiting for it are matched.
Appear(x) ==
    /\ run = Serving
    /\ db.held[x] = Absent
    /\ x[2] = "ruling" => db.held[<<x[1], "row">>] # Absent
    /\ db' = Match(db, x)
    /\ UNCHANGED <<journal, side, sidecar, aside, run, report, histVars, bounds>>

\* The user decides something about what the index holds.
Decide(x) ==
    /\ run = Serving
    /\ db.held[x] # Absent
    /\ decisions < MaxDecisions
    /\ decisions' = decisions + 1
    /\ db' = [db EXCEPT !.held[x] = decisions']
    /\ UNCHANGED <<journal, side, sidecar, aside, run, report, histVars, crashes, faults>>

\* export_sidecar, hourly or as the last act of a clean shutdown: the document is written and
\* renamed into place ...
WriteSidecar(last) ==
    /\ run = Serving
    /\ db.gen < MaxGeneration
    /\ sidecar' = Export(db)
    /\ saved' = [x \in Items |-> Max({saved[x], db.held[x]})]
    /\ run' = [at |-> "exported", last |-> last]
    /\ UNCHANGED <<db, journal, side, aside, report, corrupted, torn, bounds>>

\* ... and its generation recorded after it.
StampGeneration ==
    /\ run.at = "exported"
    /\ db' = [db EXCEPT !.gen = sidecar.gen]
    /\ run' = IF run.last THEN Down ELSE Serving
    /\ UNCHANGED <<journal, side, sidecar, aside, report, histVars, bounds>>

\* A shutdown whose export fails says so and ends.
ShutDownUnsaved ==
    /\ run = Serving
    /\ faults < MaxFaults
    /\ faults' = faults + 1
    /\ run' = Down
    /\ UNCHANGED <<db, journal, side, sidecar, aside, report, histVars, decisions, crashes>>

-----------------------------------------------------------------------------
(* What befalls it.                                                         *)

Corrupted == [is |-> "corrupt", id |-> corrupted + 1]

\* The process dies between two steps.  The index it was building and the copy of the sidecar stay
\* under a time no later start repeats, and nothing reads them.
Crash ==
    /\ run # Down
    /\ crashes < MaxCrashes
    /\ crashes' = crashes + 1
    /\ run' = Down
    /\ side' = NoDb
    /\ aside' = IF db.is = "corrupt" THEN aside \ {[is |-> "copy", id |-> corrupted]} ELSE aside
    /\ torn' = (torn \/ db.is = "none")
    /\ UNCHANGED <<db, journal, sidecar, report, corrupted, saved, decisions, faults>>

\* The copy over the database is cut short, by a death or a full disk, or does not begin: one
\* more of the crashes.
RestoreCut ==
    /\ run.at = "restoring"
    /\ crashes < MaxCrashes
    /\ crashes' = crashes + 1
    /\ run' = Down
    /\ \/ /\ db' = Corrupted
          /\ corrupted' = corrupted + 1
       \/ UNCHANGED <<db, corrupted>>
    /\ UNCHANGED <<journal, side, sidecar, aside, report, saved, torn, decisions, faults>>

\* The database goes bad while no core runs.
Corrupt ==
    /\ run = Down
    /\ db.is = "sound"
    /\ corrupted < MaxCorruptions
    /\ corrupted' = corrupted + 1
    /\ db' = Corrupted
    /\ journal' \in BOOLEAN
    /\ UNCHANGED <<side, sidecar, aside, run, report, saved, torn, bounds>>

\* The document goes bad, and what it carried is promised no more.
Rot ==
    /\ run = Down
    /\ sidecar.is = "present"
    /\ faults < MaxFaults
    /\ faults' = faults + 1
    /\ sidecar' = Unreadable
    /\ saved' = [x \in Items |-> 0]
    /\ UNCHANGED <<db, journal, side, aside, run, report, corrupted, torn, decisions, crashes>>

-----------------------------------------------------------------------------
Init ==
    /\ db = NoDb /\ journal = FALSE /\ side = NoDb /\ sidecar = NoDoc /\ aside = {}
    /\ run = Down /\ report = "none"
    /\ corrupted = 0 /\ torn = FALSE /\ saved = [x \in Items |-> 0]
    /\ decisions = 0 /\ crashes = 0 /\ faults = 0

Start == \E b \in 1..MaxBuild : StartOpen(b) \/ StartRebuild(b)

Open == Migrate \/ CheckMirror \/ Stamp \/ MigrateFails \/ RestoreBackup \/ RestoreCut

RebuildStep ==
    \/ BuildBeside \/ RestoreBeside \/ AsideDb \/ AsideJournal \/ AsideSidecar \/ Swap \/ WriteReport
    \/ RebuildFails \/ UndoRename \/ UndoCreated

Next ==
    \/ Start \/ Open \/ RebuildStep
    \/ \E x \in Items : Appear(x) \/ Decide(x)
    \/ (\E last \in BOOLEAN : WriteSidecar(last)) \/ StampGeneration \/ ShutDownUnsaved
    \/ Crash \/ Corrupt \/ Rot

Spec == Init /\ [][Next]_vars

-----------------------------------------------------------------------------
(* Properties.                                                               *)

Held == [Items -> Nat \cup {Absent}]
Waiting == [on : Items, gen : Nat, value : Nat]
SoundFiles == [is : {"sound"}, version : Nat, mirror : Nat, gen : Nat, held : Held, pending : SUBSET Waiting]
CorruptFiles == [is : {"corrupt"}, id : Nat]
Documents == {NoDoc, Unreadable}
    \cup [is : {"present"}, gen : Nat, schema : Nat, held : Held, pending : SUBSET Waiting]
SetAside == [is : {"corrupt", "journal", "copy"}, id : Nat]

Runs == [at : {"down", "serving"}] \cup [at : {"exported"}, last : BOOLEAN]
    \cup [at : {"migrating", "restoring", "stamping"}, build : 1..MaxBuild, from : Nat,
          backup : {NoDb} \cup SoundFiles]
    \cup [at : Building \cup {"undoing"}, build : 1..MaxBuild, doc : Documents, undo : Seq({"db", "journal", "swap"}),
          found : CorruptFiles \X BOOLEAN \X {NoDb} \X Documents \X SUBSET SetAside]

\* Every file is of its kind, and none is left half built by a start that ended by itself.
TypeOK ==
    /\ db \in {NoDb} \cup CorruptFiles \cup SoundFiles
    /\ side \in {NoDb} \cup SoundFiles
    /\ run.at \notin Building \cup {"undoing"} => side = NoDb
    /\ journal \in BOOLEAN
    /\ sidecar \in Documents
    /\ aside \subseteq SetAside
    /\ run \in Runs
    /\ corrupted \in Nat /\ saved \in [Items -> Nat] /\ torn \in BOOLEAN
    /\ decisions \in Nat /\ crashes \in Nat /\ faults \in Nat

\* What an item is known to be by an index or a document.
Known(d, x) == Max({0, d.held[x]} \cup {r.value : r \in {q \in d.pending : q.on = x}})

\* What a readable sidecar has carried is not lost by any number of corruptions and rebuilds, a
\* second one before every subject returned among them (pending.rs:33): a sound index holds it
\* or has it waiting, and while the index is not sound the document does.  A death between
\* the set-aside and the swap is the exception: the next start makes an empty index.
SavedIsNotLost ==
    ~torn =>
        \A x \in Items :
            IF db.is = "sound" THEN Known(db, x) >= saved[x]
            ELSE saved[x] > 0 => sidecar.is = "present" /\ Known(sidecar, x) >= saved[x]

\* A record is held or waits, never both, so it applies once (pending.rs:265).
AppliesOnce ==
    db.is = "sound" => \A x \in Items :
        LET waiting == {r \in db.pending : r.on = x} IN
        Cardinality(waiting) <= IF db.held[x] = Absent THEN 1 ELSE 0

\* A rebuild that fails, wherever it fails, leaves the directory as it found it (rebuild.rs:6).
UndoneLeavesAsFound ==
    [][run.at = "undoing" /\ run' = Down /\ crashes' = crashes => Dir' = run.found]_vars

\* A corrupt database is never deleted: it stands in place or was set aside (recovery.rs:49),
\* and none of its journal stands beside a sound one, to be replayed into it (recovery.rs:5).
CorruptIsKept ==
    /\ \A n \in 1..corrupted : [is |-> "corrupt", id |-> n] \in aside \cup {db}
    /\ db.is = "sound" => ~journal

=============================================================================
