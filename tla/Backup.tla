------------------------------- MODULE Backup -------------------------------
(***************************************************************************)
(* Backup, migrate-on-start, restore and rollback of the control-plane     *)
(* database: control_plane/backup.py, control_plane/db.py, the entrypoint  *)
(* and the commands of control_plane/cli.py that touch the files.          *)
(*                                                                         *)
(* A bundle is a database, its write-ahead log (-wal and -shm as one       *)
(* member) and its worker-pause marker.  There are three: the canonical    *)
(* one, the candidate a restore stages, and the name a rollback moves the  *)
(* superseded one to.  A file is what it holds: the schema revision and    *)
(* the writes; the log holds the frames committed since the last           *)
(* checkpoint, and opening a database beside a log replays it.             *)
(*                                                                         *)
(* A restore and a rollback go file by file; a machine crash, a failing    *)
(* file operation and a command that takes no writer lock come between.    *)
(* A directory entry that was not synced survives or not: losing the last  *)
(* of them is the crash one step earlier.                                  *)
(***************************************************************************)
EXTENDS Naturals, Sequences, FiniteSets

CONSTANTS
  Write,      \* writes of the service
  ToolWrite,  \* writes of the commands that take no lock (invite, reconcile...)
  Targets,    \* the bundles a restore may be asked to write
  Retain,     \* BOOT_ARCHIVE_RETAIN
  Plans       \* what the operator does, in order; the faults and the release

ASSUME BackupAssumption ==
  /\ Write \cap ToolWrite = {}
  /\ Targets \subseteq {"live", "cand"}
  /\ Retain \in Nat \ {0}
  /\ \A p \in Plans :
       /\ \A i \in DOMAIN p.script :
            p.script[i] \in {"deploy", "backup", "free", "restore", "install", "resume"}
       /\ p.faults \in Nat /\ p.release \in 1 .. 2
       /\ p.tools \subseteq ToolWrite

AnyWrite == Write \cup ToolWrite

\* Revision 0 has no ledger; the older image ships migrations up to 1, the
\* newer one up to 2.
Revision == 0 .. 2
Image == [rev : Revision, writes : SUBSET AnyWrite]
Empty == [rev |-> 0, writes |-> {}]

Member == {"db", "wal", "mark"}
Path == {"live", "cand", "aside"}

\* The lineage of a file: the service's own, or restored from an archive and not
\* yet reconciled by the operator.
Lineage == {"own", "restored"}
File == [of : Lineage \cup {"mark", "none"}, rev : Revision, writes : SUBSET AnyWrite]
NoFile == [of |-> "none", rev |-> 0, writes |-> {}]
Mark == [of |-> "mark", rev |-> 0, writes |-> {}]
FileOf(lineage, image) == [of |-> lineage, rev |-> image.rev, writes |-> image.writes]

Present(file) == file.of # "none"
Bundle == [Member -> File]
NoBundle == [m \in Member |-> NoFile]

\* A snapshot: before a migration, or an operator's; n tells two of one name apart.
Snapshot == [kind : {"pre", "operator"}, n : 0 .. 1, image : Image]

VARIABLES
  disk,      \* path -> member -> file
  kept,      \* the pre-migrate snapshots and the operator's archives
  boots,     \* the boot archives, oldest first
  due,       \* the newest boot archive is older than the interval
  release,   \* the newest revision the deployed image ships
  svc,       \* where the entrypoint and serve are
  task,       \* what the operator's command is doing
  stage,      \* its next file operation
  read,      \* what it read before the first one
  moved,     \* the journal of a rollback
  stuck,     \* a move could not be put back
  report,    \* how the last rollback ended
  script,    \* the operator's commands still to come
  tools,     \* the writes of lock-free commands still to come
  acked,     \* writes committed so far
  faults     \* the bound: operations, migrations and processes that still fail

backupVars == <<disk, kept, boots, due, release, svc, task, stage, read, moved, stuck,
          report, script, tools, acked, faults>>
command == <<task, stage, read, moved, stuck, report>>
written == <<tools, acked>>
archives == <<kept, boots, due>>

NoRead == [path |-> "live", image |-> Empty, migrate |-> FALSE,
           cand |-> NoBundle, live |-> NoBundle]

Move == [from : Path, to : Path, member : Member, file : File, removed : BOOLEAN]

BackupTypeOK ==
  /\ disk \in [Path -> Bundle]
  /\ kept \subseteq Snapshot
  /\ boots \in Seq(Image) /\ Len(boots) <= Retain
  /\ due \in BOOLEAN /\ stuck \in BOOLEAN
  /\ release \in 1 .. 2 /\ stage \in 1 .. 8 /\ faults \in Nat
  /\ svc \in {"down", "snapshot", "migrate", "archive", "ready", "serving"}
  /\ task \in {"idle", "restore", "install", "undo"}
  /\ read \in [path : Path, image : Image, migrate : BOOLEAN, cand : Bundle, live : Bundle]
  /\ moved \in Seq(Move)
  /\ report \in {"none", "installed", "reversed", "incomplete", "unpaused"}
  /\ acked \subseteq AnyWrite /\ tools \subseteq ToolWrite

-----------------------------------------------------------------------------
(* Opening and closing a database. *)

Larger(a, b) == IF a > b THEN a ELSE b

\* What a connection sees: the database with the frames of the log beside it.
\* A log beside no database is dropped when SQLite creates the file.
OpenedBundle(b) ==
  IF Present(b.db)
    THEN [rev |-> Larger(b.db.rev, b.wal.rev), writes |-> b.db.writes \cup b.wal.writes]
    ELSE Empty
Opened(p) == OpenedBundle(disk[p])

LineageOf(p) == IF Present(disk[p].db) THEN disk[p].db.of ELSE "own"

\* The last connection to close leaves everything in the database and no log.
Closed(p, image) ==
  [disk EXCEPT ![p].db = FileOf(LineageOf(p), image), ![p].wal = NoFile]

\* Another connection stays open: the frames go to the log.
Framed(p, image) ==
  [disk EXCEPT ![p].db = FileOf(LineageOf(p), IF Present(disk[p].db) THEN disk[p].db ELSE Empty),
               ![p].wal = FileOf(LineageOf(p), image)]

\* The service's connection is open from the snapshot on, and closed between
\* the entrypoint's two commands; a restore that migrates keeps one to its end.
Connected == svc \notin {"down", "ready"}
Migrating == task = "restore" /\ read.path = "live" /\ read.migrate /\ stage = 4
Stored(p, image) ==
  IF p = "live" /\ (Connected \/ Migrating) THEN Framed(p, image) ELSE Closed(p, image)

Holds(p) ==
  \/ p = "live" /\ Connected
  \/ task = "restore" /\ read.path = p
  \/ task \in {"install", "undo"} /\ p \in {"live", "cand"}

\* acquire_process_lock fails at once when somebody holds the lock.
Free(p) == ~Holds(p)

\* require_control_plane_database: a ledger of this schema, at any revision.
Ledgered(p) == Present(disk[p].db) /\ Opened(p).rev > 0

\* The operator's next command, one at a time.
Asked(what) == task = "idle" /\ script # <<>> /\ Head(script) = what /\ script' = Tail(script)
Paused == Present(disk["live"].mark)

\* migrate: the whole pending batch, or nothing.
Migrated(image) == [image EXCEPT !.rev = Larger(image.rev, release)]
Pending(image) == image.rev < release

Fault == faults > 0 /\ faults' = faults - 1
NoFault == UNCHANGED faults

-----------------------------------------------------------------------------
(* Archives. *)

\* create_backup never overwrites: a second archive takes the next suffix.
Archived(kind, image) ==
  {[kind |-> kind, n |-> IF [kind |-> kind, n |-> 0, image |-> image] \in kept
                           THEN 1 ELSE 0, image |-> image]}

\* Slip: reuse by revision alone.
ReusableByRevision(image) ==
  \E s \in kept : s.kind = "pre" /\ s.image.rev = image.rev
\* _reusable_pre_migrate_backup compares contents, at the same revision.
Reusable(image) ==
  \E s \in kept : s.kind = "pre" /\ s.image = image

\* _prune_boot_archives keeps the newest.
Newest(archive) ==
  IF Len(archive) > Retain THEN SubSeq(archive, Len(archive) - Retain + 1, Len(archive))
                           ELSE archive

\* create_boot_archive: skipped within the interval, and never fatal.
BootArchive ==
  \/ ~due /\ UNCHANGED archives /\ NoFault
  \/ /\ due
     /\ boots' = Newest(Append(boots, Opened("live")))
     /\ due' = FALSE
     /\ UNCHANGED kept /\ NoFault
  \/ due /\ UNCHANGED archives /\ Fault

-----------------------------------------------------------------------------
(* The entrypoint, db.main migrate, and serve. *)

Boot ==
  /\ svc = "down" /\ Free("live")
  /\ svc' = "snapshot"
  /\ UNCHANGED <<disk, archives, release, command, script, written, faults>>

\* create_pre_migrate_backup; a snapshot that fails stops the container.
TakeSnapshot ==
  /\ svc = "snapshot"
  /\ \/ /\ svc' = "migrate"
        /\ disk' = IF Present(disk["live"].db) THEN disk ELSE Closed("live", Empty)
        /\ kept' = IF Pending(Opened("live")) /\ ~Reusable(Opened("live"))
                     THEN kept \cup Archived("pre", Opened("live"))
                     ELSE kept
        /\ NoFault
     \/ /\ Pending(Opened("live")) /\ ~Reusable(Opened("live"))
        /\ svc' = "down"
        /\ disk' = Closed("live", Opened("live"))
        /\ UNCHANGED kept /\ Fault
  /\ UNCHANGED <<boots, due, release, command, script, written>>

Migrate ==
  /\ svc = "migrate"
  /\ \/ /\ svc' = "archive"
        /\ disk' = IF Pending(Opened("live")) THEN Framed("live", Migrated(Opened("live"))) ELSE disk
        /\ NoFault
     \/ /\ Pending(Opened("live"))
        /\ svc' = "down"
        /\ disk' = Closed("live", Opened("live"))
        /\ Fault
  /\ UNCHANGED <<archives, release, command, script, written>>

\* The entrypoint ends: its connection closes, its lock goes.
ArchiveAtBoot ==
  /\ svc = "archive"
  /\ BootArchive
  /\ svc' = "ready"
  /\ disk' = Closed("live", Opened("live"))
  /\ UNCHANGED <<release, command, script, written>>

\* serve builds the container: the lock, and migrate again, with no snapshot.
Serve ==
  /\ svc = "ready"
  /\ \/ /\ Free("live")
        /\ svc' = "serving"
        /\ disk' = Framed("live", Migrated(Opened("live")))
     \/ /\ ~Free("live")
        /\ svc' = "down"
        /\ UNCHANGED disk
  /\ UNCHANGED <<archives, release, command, script, written, faults>>

Commit(w) ==
  /\ svc = "serving" /\ w \in Write \ acked
  /\ disk' = Framed("live", [Opened("live") EXCEPT !.writes = @ \cup {w}])
  /\ acked' = acked \cup {w}
  /\ UNCHANGED <<archives, release, svc, command, script, tools, faults>>

\* The worker loop's maintenance, skipped while the workers are paused.
PeriodicArchive ==
  /\ svc = "serving" /\ ~Paused
  /\ BootArchive
  /\ UNCHANGED <<disk, release, svc, command, script, written>>

IntervalPasses ==
  /\ ~due /\ due' = TRUE
  /\ UNCHANGED <<disk, kept, boots, release, svc, command, script, written, faults>>

Stop ==
  /\ svc = "serving" /\ svc' = "down"
  /\ disk' = Closed("live", Opened("live"))
  /\ UNCHANGED <<archives, release, command, script, written, faults>>

Deploy ==
  /\ Asked("deploy") /\ svc = "down"
  /\ release' = 3 - release
  /\ UNCHANGED <<disk, archives, svc, command, written, faults>>

\* Every process dies where it stands; a candidate staged off the volume is gone.
Crash ==
  /\ svc # "down" \/ task # "idle"
  /\ svc' = "down" /\ task' = "idle" /\ stage' = 1
  /\ read' = NoRead /\ moved' = <<>> /\ stuck' = FALSE
  /\ disk' \in {disk, [disk EXCEPT !["cand"] = NoBundle]}
  /\ Fault
  /\ UNCHANGED <<archives, release, report, script, written>>

-----------------------------------------------------------------------------
(* Commands beside the service. *)

\* _container(lock=False): build migrates, the command commits, and closes.
Tool(t) ==
  /\ t \in tools /\ tools' = tools \ {t}
  /\ disk' = Stored("live", [Migrated(Opened("live")) EXCEPT !.writes = @ \cup {t}])
  /\ acked' = acked \cup {t}
  /\ UNCHANGED <<archives, release, svc, command, script, faults>>

\* The backup command refuses a database without a ledger, and a writer.
OperatorBackup ==
  /\ Asked("backup") /\ Free("live")
  /\ Ledgered("live")
  /\ kept' = kept \cup {[kind |-> "operator", n |-> 0, image |-> Opened("live")]}
  /\ kept' # kept
  /\ disk' = Closed("live", Opened("live"))
  /\ UNCHANGED <<boots, due, release, svc, command, written, faults>>

\* resume-jobs, after the operator has reconciled what was restored.
Resume ==
  /\ Asked("resume") /\ Free("live") /\ Paused
  /\ disk' = [disk EXCEPT !["live"] =
                [NoBundle EXCEPT !.db = FileOf("own", Migrated(Opened("live")))]]
  /\ UNCHANGED <<archives, release, svc, command, written, faults>>

\* The runbook's steps 1 to 2: an archive off the machine, then rm, which compares
\* nothing with it.
FreeTarget ==
  /\ Asked("free") /\ svc = "down"
  /\ \E s \in kept : s.kind = "operator"
  /\ disk' = [disk EXCEPT !["live"] = NoBundle]
  /\ UNCHANGED <<archives, release, svc, command, written, faults>>

-----------------------------------------------------------------------------
(* restore. *)

\* _require_free_bundle: every member, not the database alone.
\* Slip: only the database is asked for.
FreeDatabase(p) == ~Present(disk[p].db)
FreeBundle(p) == disk[p] = NoBundle

RestoreBegin(p, image, migrate) ==
  /\ Asked("restore") /\ Free(p) /\ FreeBundle(p)
  /\ task' = "restore" /\ stage' = 1
  /\ read' = [NoRead EXCEPT !.path = p, !.image = image, !.migrate = migrate]
  /\ UNCHANGED <<disk, archives, release, svc, moved, stuck, report, written, faults>>

EndRestore == task' = "idle" /\ stage' = 1 /\ read' = NoRead

\* The marker goes first.  A bundle that is no longer free refuses.
RestoreMarker ==
  /\ task = "restore" /\ stage = 1
  /\ \/ /\ FreeBundle(read.path)
        /\ disk' = [disk EXCEPT ![read.path].mark = Mark]
        /\ stage' = 2 /\ UNCHANGED <<task, read>> /\ NoFault
     \/ /\ ~FreeBundle(read.path) /\ NoFault
        /\ EndRestore /\ UNCHANGED disk
     \/ /\ Fault /\ EndRestore
        \* AmbiguousPublication: there or not.
        /\ \/ UNCHANGED disk
           \/ FreeBundle(read.path) /\ disk' = [disk EXCEPT ![read.path].mark = Mark]
  /\ UNCHANGED <<archives, release, svc, moved, stuck, report, script, written>>

\* _withdraw_pause: a database that arrived meanwhile keeps the marker.
PauseWithdrawn(p) ==
  IF Present(disk[p].db) THEN disk ELSE [disk EXCEPT ![p].mark = NoFile]

RestoreDatabase ==
  LET p == read.path
      restored == [disk EXCEPT ![p].db = FileOf("restored", read.image)]
  IN
  /\ task = "restore" /\ stage = 2
  /\ \/ /\ ~Present(disk[p].db)
        /\ disk' = restored
        /\ stage' = 3 /\ UNCHANGED <<task, read>> /\ NoFault
     \/ /\ Present(disk[p].db) /\ NoFault
        /\ disk' = PauseWithdrawn(p) /\ EndRestore
     \/ /\ Fault /\ EndRestore
        /\ \/ disk' = PauseWithdrawn(p)
           \* AmbiguousPublication: there or not, the marker stays.
           \/ ~Present(disk[p].db) /\ disk' \in {disk, restored}
  /\ UNCHANGED <<archives, release, svc, moved, stuck, report, script, written>>

RestoreMigrate ==
  LET p == read.path IN
  /\ task = "restore" /\ stage = 3
  /\ \/ /\ disk' = IF read.migrate THEN Framed(p, Migrated(Opened(p))) ELSE disk
        /\ stage' = 4 /\ UNCHANGED <<task, read>> /\ NoFault
     \/ read.migrate /\ Fault /\ EndRestore /\ UNCHANGED disk
  /\ UNCHANGED <<archives, release, svc, moved, stuck, report, script, written>>

\* pause_workers, and the connection closes if one was opened.
RestoreEnd ==
  LET p == read.path
      closed == IF read.migrate THEN Closed(p, Opened(p)) ELSE disk
  IN
  /\ task = "restore" /\ stage = 4
  /\ disk' = [closed EXCEPT ![p].mark = Mark]
  /\ EndRestore
  /\ UNCHANGED <<archives, release, svc, moved, stuck, report, script, written, faults>>

-----------------------------------------------------------------------------
(* install-rollback. *)

\* The superseded bundle goes aside; then the marker, the log, the database.
AsideOrder == <<"db", "wal", "mark">>
\* Slip: the log is left behind.
InWithoutLog == <<"mark", "db">>
InOrder == <<"mark", "wal", "db">>

\* _preflight; a target that is not there must have been freed entirely.
InstallBegin ==
  /\ Asked("install") /\ Free("live") /\ Free("cand")
  /\ Present(disk["cand"].db) /\ Present(disk["cand"].mark)
  /\ Present(disk["live"].db) \/ FreeBundle("live")
  /\ FreeBundle("aside")
  /\ task' = "install" /\ stage' = 1
  /\ read' = [NoRead EXCEPT !.cand = disk["cand"], !.live = disk["live"]]
  /\ UNCHANGED <<disk, archives, release, svc, moved, stuck, report, written, faults>>

Undoing == task' = "undo" /\ UNCHANGED <<stage, read, stuck>>
NextStep == stage' = stage + 1 /\ UNCHANGED <<task, read, moved, stuck>>

Claimed(from, to, m) == [disk EXCEPT ![to][m] = disk[from][m], ![from][m] = NoFile]

\* _claim: a link that refuses an existing name, the journal, then the unlink,
\* which can fail on its own; _rename_or_exdev syncs after it.
Claim(from, to, m) ==
  LET record(removed) == [from |-> from, to |-> to, member |-> m,
                          file |-> disk[from][m], removed |-> removed] IN
  \/ /\ ~Present(disk[to][m])
     /\ disk' = Claimed(from, to, m)
     /\ moved' = Append(moved, record(TRUE))
     /\ \/ stage' = stage + 1 /\ UNCHANGED <<task, read, stuck>> /\ NoFault
        \/ to = "live" /\ Undoing /\ Fault
  \/ /\ ~Present(disk[to][m])
     /\ disk' = [disk EXCEPT ![to][m] = disk[from][m]]
     /\ moved' = Append(moved, record(FALSE))
     /\ Undoing /\ Fault
  \/ Present(disk[to][m]) /\ Undoing /\ UNCHANGED <<disk, moved>> /\ NoFault
  \/ Undoing /\ UNCHANGED <<disk, moved>> /\ Fault

MoveAside ==
  /\ task = "install" /\ stage \in 1 .. 3
  /\ LET m == AsideOrder[stage] IN
       IF Present(disk["live"][m]) THEN Claim("live", "aside", m)
                                   ELSE NextStep /\ UNCHANGED disk /\ NoFault
  /\ UNCHANGED <<archives, release, svc, report, script, written>>

NothingRemains ==
  /\ task = "install" /\ stage = 4
  /\ IF FreeBundle("live") THEN NextStep ELSE Undoing /\ UNCHANGED moved
  /\ UNCHANGED <<disk, archives, release, svc, report, script, written, faults>>

\* Nobody else writes a locked candidate: each member is still the one read.
MoveIn ==
  /\ task = "install" /\ stage \in 5 .. 4 + Len(InOrder)
  /\ LET m == InOrder[stage - 4] IN
       IF Present(disk["cand"][m]) THEN Claim("cand", "live", m)
                                   ELSE NextStep /\ UNCHANGED disk /\ NoFault
  /\ UNCHANGED <<archives, release, svc, report, script, written>>

EndInstall(how) ==
  /\ task' = "idle" /\ stage' = 1 /\ read' = NoRead /\ moved' = <<>> /\ stuck' = FALSE
  /\ report' = how

Verify ==
  /\ task = "install" /\ stage = 5 + Len(InOrder)
  /\ IF /\ \A i \in DOMAIN InOrder :
             Present(read.cand[InOrder[i]]) => disk["live"][InOrder[i]] = read.cand[InOrder[i]]
        /\ \A m \in Member : Present(read.live[m]) => disk["aside"][m] = read.live[m]
       THEN EndInstall("installed")
       ELSE Undoing /\ UNCHANGED <<moved, report>>
  /\ UNCHANGED <<disk, archives, release, svc, script, written, faults>>

\* _undo: newest first, and only what this command put there.  A source that
\* still stands is the generation: the destination goes away.
UndoNext == moved[Len(moved)]
\* Slip: the destination goes away whether the source stands or not.
PutBackByRemoval(m) == [disk EXCEPT ![m.to][m.member] = NoFile]
PutBack(m) == IF m.removed THEN Claimed(m.to, m.from, m.member)
                           ELSE [disk EXCEPT ![m.to][m.member] = NoFile]

Undo ==
  LET m == UndoNext
      at == disk[m.to][m.member]
      back == disk[m.from][m.member]
  IN
  /\ task = "undo" /\ moved # <<>>
  /\ \/ /\ ~Present(at)
        /\ stuck' = (stuck \/ (m.removed /\ ~Present(back)))
        /\ UNCHANGED disk /\ NoFault
     \/ /\ Present(at)
        /\ at # m.file \/ (m.removed /\ Present(back))
        /\ stuck' = TRUE /\ UNCHANGED disk /\ NoFault
     \/ /\ at = m.file /\ (m.removed => ~Present(back))
        /\ disk' = PutBack(m)
        /\ UNCHANGED stuck /\ NoFault
     \* It fails, or the directory cannot be synced after it.
     \/ /\ stuck' = TRUE /\ Fault
        /\ \/ UNCHANGED disk
           \/ at = m.file /\ (m.removed => ~Present(back)) /\ disk' = PutBack(m)
  /\ moved' = SubSeq(moved, 1, Len(moved) - 1)
  /\ UNCHANGED <<archives, release, svc, task, stage, read, report, script, written>>

\* IncompleteReversal pauses whatever is at the target, if it can.
Failsafe == [disk EXCEPT !["live"].mark = Mark]

UndoEnd ==
  /\ task = "undo" /\ moved = <<>>
  /\ \/ ~stuck /\ EndInstall("reversed") /\ UNCHANGED disk /\ NoFault
     \/ stuck /\ EndInstall("incomplete") /\ disk' = Failsafe /\ NoFault
     \/ stuck /\ ~Paused /\ EndInstall("unpaused") /\ UNCHANGED disk /\ Fault
  /\ UNCHANGED <<archives, release, svc, script, written>>

-----------------------------------------------------------------------------
BackupInit ==
  /\ disk = [[p \in Path |-> NoBundle] EXCEPT
               !["live"].db = FileOf("own", [rev |-> 1, writes |-> {}])]
  /\ kept = {} /\ boots = <<>> /\ due = TRUE /\ svc = "down"
  /\ task = "idle" /\ stage = 1 /\ read = NoRead /\ moved = <<>> /\ stuck = FALSE
  /\ report = "none" /\ acked = {}
  /\ \E p \in Plans :
       script = p.script /\ tools = p.tools /\ faults = p.faults /\ release = p.release

Service ==
  \/ Boot \/ TakeSnapshot \/ Migrate \/ ArchiveAtBoot \/ Serve

Command ==
  \/ RestoreMarker \/ RestoreDatabase \/ RestoreMigrate \/ RestoreEnd
  \/ MoveAside \/ NothingRemains \/ MoveIn \/ Verify \/ Undo \/ UndoEnd

Images == {s.image : s \in kept} \cup {boots[i] : i \in DOMAIN boots}

BackupNext ==
  \/ Service \/ Command
  \/ \E w \in Write : Commit(w)
  \/ PeriodicArchive \/ IntervalPasses \/ Stop \/ Deploy \/ Crash
  \/ \E t \in ToolWrite : Tool(t)
  \/ OperatorBackup \/ Resume \/ FreeTarget
  \/ \E p \in Targets, image \in Images, migrate \in BOOLEAN : RestoreBegin(p, image, migrate)
  \/ InstallBegin

BackupSpec == BackupInit /\ [][BackupNext]_backupVars

\* The Machine restarts its container, the worker loop keeps turning, and a
\* command that was started runs on.
BackupFairSpec ==
  BackupSpec /\ WF_backupVars(Service) /\ WF_backupVars(Command) /\ WF_backupVars(PeriodicArchive)

-----------------------------------------------------------------------------
(* Properties. *)

\* Frames of one generation come to lie beside the database of another, ready
\* to be replayed into it, only where a rollback was given up: it reported that
\* it could not be reversed, or the machine died under it, unless it had found
\* them so (_require_free_bundle, _undo, IncompleteReversal).
MixedBundle(b) == Present(b.db) /\ Present(b.wal) /\ b.db.of # b.wal.of
MixedIsReported ==
  [][LET rolling == task \in {"install", "undo"} IN
     MixedBundle(disk["live"])' =>
       /\ MixedBundle(disk["live"]) \/ rolling
       /\ rolling /\ task' = "idle" =>
            MixedBundle(read.live) \/ Crash \/ report' \in {"incomplete", "unpaused"}]_backupVars

\* What the entrypoint migrates is in a pre-migrate snapshot, as it was; serve
\* migrates without one only what a rollback installed after the entrypoint
\* ended, and that came from an archive (create_pre_migrate_backup, db.main).
MigratesFromASnapshot ==
  [][LET before == Opened("live") IN
     /\ svc \in {"migrate", "ready"} /\ svc' \in {"archive", "serving"}
     /\ Present(disk["live"].db) /\ Pending(before)
     => \/ \E s \in kept : s.kind = "pre" /\ s.image = before
        \/ svc = "ready" /\ disk["live"].db.of = "restored"]_backupVars

\* The boot archives rotate, so they are not counted on.
Everywhere ==
  (UNION {disk[p][m].writes : p \in Path, m \in Member}) \cup (UNION {s.image.writes : s \in kept})

\* Nothing the operator archived holds what the database holds now.
WrittenSinceArchived ==
  ~\E s \in kept : s.kind = "operator" /\ Opened("live").writes \subseteq s.image.writes

\* A committed write leaves the machine in four ways: somebody opens the
\* canonical path when a crash or a rollback has taken the database from beside
\* its log, and SQLite drops the log; a reversal takes the log's second name
\* away when that has happened to its first; a crash takes a candidate with
\* what a rotated boot archive brought back (_claim, _undo, _restore_locked); or
\* the operator deletes a database that was written to after it was archived.
LossNeedsAnOrphanLog ==
  [][~ (acked \cap Everywhere \subseteq Everywhere') =>
     \/ ~Present(disk["live"].db) /\ Present(disk["live"].wal)
     \/ /\ task = "undo" /\ moved # <<>> /\ UndoNext.member = "wal" /\ ~UndoNext.removed
        /\ Present(disk["live"].db) /\ ~Present(disk["live"].wal)
     \/ WrittenSinceArchived /\ FreeTarget
     \/ Crash]_backupVars

\* A rollback that ends ends whole: installed, with the candidate's last commit
\* and the superseded bundle aside; or reversed, with nothing missing on either
\* side; or the target is paused or reported unpaused (_install_rollback_locked).
InstallIsAllOrNothing ==
  [][(task \in {"install", "undo"} /\ task' = "idle") =>
     \/ /\ report' = "installed"
        /\ Opened("live")' = OpenedBundle(read.cand) /\ Paused'
        /\ Present(read.live.db) => OpenedBundle(disk["aside"])' = OpenedBundle(read.live)
     \/ /\ report' = "reversed"
        /\ disk'["cand"] = read.cand
        /\ OpenedBundle(read.live).writes \subseteq Opened("live")'.writes
     \/ report' = "incomplete" /\ Paused'
     \/ report' = "unpaused"
     \/ Crash]_backupVars

=============================================================================
