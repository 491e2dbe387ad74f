------------------------------ MODULE DataHome ------------------------------
(***************************************************************************)
(* A data home (LEARNINGOS_HOME) and what maintains it: the versioned      *)
(* migrations (platform/backend/app/db/migrations.py), backup and restore  *)
(* (db/backup.py), the artifact store (core/artifact_store.py), and the    *)
(* tools update.py and rollback.py (tools/platform).                       *)
(*                                                                         *)
(* The server and the update tool are processes of their own over the same *)
(* home.  Each is modelled step by step where the other can come in        *)
(* between, and may be killed at any of its steps.  A home has a database  *)
(* and artifacts; the rows of the database that matter here are the ones   *)
(* that cite an artifact.                                                  *)
(***************************************************************************)
EXTENDS Naturals, Sequences

CONSTANTS
  Home,         \* directories outside the worktree
  First,        \* the home the installation starts with
  Artifact,     \* contents that may be stored
  MaxVersion,   \* migrations the project will ever ship
  MaxArchives,  \* Bound: archives written
  None

ASSUME DataHomeAssumption ==
  /\ First \in Home
  /\ MaxVersion \in Nat \ {0}
  /\ MaxArchives \in Nat
  /\ None \notin [ran : [1..MaxVersion -> Nat], cites : SUBSET Artifact]

VARIABLES
  code,      \* migrations the checked out code ships: 1..code
  live,      \* the home LEARNINGOS_HOME names
  home,      \* [Home -> content]
  archives,  \* the files in the backups/ of the homes, oldest first
  pointer,   \* [Home -> index of the archive in pre_update_latest, 0: no name]
  job,       \* [Process -> what it is doing]
  told       \* [Home -> index of the archive a rollback reported restored there, 0]

vars == <<code, live, home, archives, pointer, job, told>>

Server  == "server"
Update  == "update"
Process == {Server, Update}
Version == 1..MaxVersion

(***************************************************************************)
(* ran[v] counts how often the statements of migration v took effect.      *)
(* Sound is history: the content does not come from an archive whose       *)
(* writing was cut short.                                                  *)
(***************************************************************************)
Db      == [ran : [Version -> Nat], cites : SUBSET Artifact]
EmptyDb == [ran |-> [v \in Version |-> 0], cites |-> {}]
Content == [db : Db \cup {None}, arts : SUBSET Artifact, sound : BOOLEAN]
NoContent == [db |-> None, arts |-> {}, sound |-> TRUE]

Label   == {"manual", "pre_update", "pre_migration"}
\* "torn": the process died while it wrote, and the file cannot be read.
\* "cut": writing failed, and the file reads as a shorter archive.
Archive == [home : Home, label : Label, db : Db, arts : SUBSET Artifact, sound : BOOLEAN,
            status : {"torn", "cut", "complete"}]

Place ==
  {"DOWN", "UP", "PUT", "IDLE", "MIGRATE", "DUMP", "LIST", "PACK", "POINT", "APPLY", "RECORD",
   "DONE"}
\* What a process is doing, to which home, and what it remembers of it.
Job ==
  [at : Place, home : Home, label : Label, pending : SUBSET Version, dump : Db,
   listed : SUBSET Artifact, seen : {"none", "temp", "gone"}, slot : Nat,
   put : Artifact \cup {None}, backup : Nat, applied : SUBSET Version]

Rest(p) == IF p = Server THEN "UP" ELSE "IDLE"
Doing(at, h) ==
  [at |-> at, home |-> h, label |-> "manual", pending |-> {}, dump |-> EmptyDb,
   listed |-> {}, seen |-> "none", slot |-> 0, put |-> None, backup |-> 0, applied |-> {}]

Init ==
  /\ code = 1
  /\ live = First
  /\ home = [h \in Home |-> NoContent]
  /\ archives = <<>>
  /\ pointer = [h \in Home |-> 0]
  /\ job = [p \in Process |-> Doing(IF p = Server THEN "DOWN" ELSE "IDLE", First)]
  /\ told = [h \in Home |-> 0]

At(p, at)   == job[p].at = at
Go(p, at)   == job' = [job EXCEPT ![p].at = at]
\* An exception: start-up swallows it, a handler answers 503, the tool exits.
Fail(p)     == job' = [job EXCEPT ![p] = Doing(Rest(p), job[p].home)]

-----------------------------------------------------------------------------
(* Migrations                                                              *)

\* Start-up is over; update goes on, and remembers its archive.
Migrated(p) ==
  IF p = Server THEN Doing("UP", job[p].home)
  ELSE [Doing("RECORD", job[p].home) EXCEPT !.backup = job[p].backup]

\* run_migrations opens the database, which creates the file, and reads what
\* was applied.  It takes a snapshot first if the file existed.
Migrate(p) ==
  LET h == job[p].home
      existed == home[h].db # None
      db == IF existed THEN home[h].db ELSE EmptyDb
      pending == {v \in 1..code : db.ran[v] = 0} IN
  /\ At(p, "MIGRATE")
  /\ home' = [home EXCEPT ![h].db = db]
  /\ job' = [job EXCEPT ![p] =
       IF pending = {} THEN Migrated(p)
       ELSE [Doing(IF existed THEN "DUMP" ELSE "APPLY", h) EXCEPT
               !.label = "pre_migration", !.pending = pending, !.backup = job[p].backup]]
  /\ UNCHANGED <<code, live, archives, pointer, told>>

\* _schema_migrations has the version as its primary key: a version that
\* somebody else applied since Migrate rolls the whole transaction back.
Mutant_NoKey(db, pending) == TRUE
Appliable(db, pending) == \A v \in pending : db.ran[v] = 0

Apply(p) ==
  LET h == job[p].home pending == job[p].pending IN
  /\ At(p, "APPLY")
  /\ Appliable(home[h].db, pending)
  /\ home' = [home EXCEPT ![h].db.ran =
                [v \in Version |-> IF v \in pending THEN @[v] + 1 ELSE @[v]]]
  /\ job' = [job EXCEPT ![p] = [Migrated(p) EXCEPT !.applied = pending]]
  /\ UNCHANGED <<code, live, archives, pointer, told>>

\* A statement of the migration or the key fails: nothing of it remains.
ApplyFails(p) ==
  /\ At(p, "APPLY")
  /\ Fail(p)
  /\ UNCHANGED <<code, live, home, archives, pointer, told>>

-----------------------------------------------------------------------------
(* create_backup                                                           *)

Dump(p) ==
  /\ At(p, "DUMP")
  /\ job' = [job EXCEPT ![p].at = "LIST", ![p].dump = home[job[p].home].db]
  /\ UNCHANGED <<code, live, home, archives, pointer, told>>

\* The archive is opened and the database added; then tar.add walks artifacts/.
List(p) ==
  LET h == job[p].home IN
  /\ At(p, "LIST")
  /\ Len(archives) < MaxArchives
  /\ archives' = Append(archives,
       [home |-> h, label |-> job[p].label, db |-> job[p].dump, arts |-> {},
        sound |-> FALSE, status |-> "torn"])
  /\ job' = [job EXCEPT
       ![p].at = "PACK", ![p].slot = Len(archives) + 1, ![p].listed = home[h].arts,
       ![p].seen = IF At(Server, "PUT") /\ job[Server].home = h THEN "temp" ELSE "none"]
  /\ UNCHANGED <<code, live, home, pointer, told>>

\* What create_backup's caller does next.
After(p) ==
  CASE job[p].label = "manual"        -> Doing("UP", job[p].home)
    [] job[p].label = "pre_update"    -> [Doing("POINT", job[p].home) EXCEPT !.slot = job[p].slot]
    [] job[p].label = "pre_migration" -> [Doing("APPLY", job[p].home) EXCEPT
                                            !.pending = job[p].pending, !.backup = job[p].backup]

\* What was stored when the walk began is in; what came later may be.
Mutant_PackLiveDb(p, S) ==
  LET h == job[p].home IN
  /\ At(p, "PACK")
  /\ job[p].listed \subseteq S
  /\ archives' = [archives EXCEPT ![job[p].slot] =
       [@ EXCEPT !.arts = S, !.status = "complete", !.sound = home[h].sound, !.db = home[h].db]]
  /\ job' = [job EXCEPT ![p] = After(p)]
  /\ UNCHANGED <<code, live, home, pointer, told>>
Pack(p, S) ==
  LET h == job[p].home IN
  /\ At(p, "PACK")
  /\ job[p].listed \subseteq S
  /\ archives' = [archives EXCEPT ![job[p].slot] =
       [@ EXCEPT !.arts = S, !.status = "complete", !.sound = home[h].sound]]
  /\ job' = [job EXCEPT ![p] = After(p)]
  /\ UNCHANGED <<code, live, home, pointer, told>>

\* The walk listed the temporary file of a put that was renamed before the walk
\* came to it.  The exception closes the file without the end of an archive,
\* which readers do not miss, and nothing removes it.
PackFails(p, S) ==
  /\ At(p, "PACK")
  /\ job[p].seen = "gone"
  /\ archives' = [archives EXCEPT ![job[p].slot] =
       [@ EXCEPT !.arts = S, !.status = "cut", !.sound = FALSE]]
  /\ Fail(p)
  /\ UNCHANGED <<code, live, home, pointer, told>>

-----------------------------------------------------------------------------
(* The server: one thing at a time                                         *)

StartServer ==
  /\ At(Server, "DOWN")
  /\ job' = [job EXCEPT ![Server] = Doing("MIGRATE", live)]
  /\ UNCHANGED <<code, live, home, archives, pointer, told>>

\* ArtifactStore.put of new content: a temporary file, then a rename.  A walk
\* that is under way may list either.
Put(a) ==
  LET h == job[Server].home IN
  /\ At(Server, "UP")
  /\ a \notin home[h].arts
  /\ job' = [job EXCEPT
       ![Server].at = "PUT", ![Server].put = a,
       ![Update].seen = IF At(Update, "PACK") /\ job[Update].home = h /\ @ = "none"
                          THEN "temp" ELSE @]
  /\ UNCHANGED <<code, live, home, archives, pointer, told>>

FinishPut ==
  LET h == job[Server].home IN
  /\ At(Server, "PUT")
  /\ home' = [home EXCEPT ![h].arts = @ \cup {job[Server].put}]
  /\ job' = [job EXCEPT
       ![Server] = Doing("UP", h),
       ![Update].seen = IF job[Update].home = h /\ @ = "temp" THEN "gone" ELSE @]
  /\ UNCHANGED <<code, live, archives, pointer, told>>

\* A learner submits work whose claim carries the hash of an upload.  The hash
\* comes from the client; that it names one of its uploads is assumed.
Cite(a) ==
  LET h == job[Server].home IN
  /\ At(Server, "UP")
  /\ home[h].db # None
  /\ home[h].db.ran[1] > 0
  /\ a \in home[h].arts
  /\ home' = [home EXCEPT ![h].db.cites = @ \cup {a}]
  /\ UNCHANGED <<code, live, archives, pointer, job, told>>

\* POST /system/backup
BackUp ==
  /\ At(Server, "UP")
  /\ home[job[Server].home].db # None
  /\ Go(Server, "DUMP")
  /\ UNCHANGED <<code, live, home, archives, pointer, told>>

-----------------------------------------------------------------------------
(* The update tool                                                         *)

StartUpdate ==
  /\ job[Update].at \in {"IDLE", "DONE"}
  /\ home[live].db # None
  /\ job' = [job EXCEPT ![Update] = [Doing("DUMP", live) EXCEPT !.label = "pre_update"]]
  /\ UNCHANGED <<code, live, home, archives, pointer, told>>

\* write_pre_update_pointer
Mutant_PointOnce ==
  LET h == job[Update].home slot == job[Update].slot IN
  /\ At(Update, "POINT")
  /\ pointer' = [pointer EXCEPT ![h] = IF @ = 0 THEN slot ELSE @]
  /\ job' = [job EXCEPT ![Update] = [Doing("MIGRATE", h) EXCEPT !.backup = slot]]
  /\ UNCHANGED <<code, live, home, archives, told>>
Point ==
  LET h == job[Update].home slot == job[Update].slot IN
  /\ At(Update, "POINT")
  /\ pointer' = [pointer EXCEPT ![h] = slot]
  /\ job' = [job EXCEPT ![Update] = [Doing("MIGRATE", h) EXCEPT !.backup = slot]]
  /\ UNCHANGED <<code, live, home, archives, told>>

\* _record_update_metadata writes config.json, which nothing here reads.
Record ==
  /\ At(Update, "RECORD")
  /\ Go(Update, "DONE")
  /\ UNCHANGED <<code, live, home, archives, pointer, told>>

-----------------------------------------------------------------------------
(* Rollback: restore_backup of an archive, into a home that is not live    *)

\* latest_pre_update_archive: the archive the pointer names, or the newest.
PreUpdate(h) ==
  {i \in DOMAIN archives : archives[i].home = h /\ archives[i].label = "pre_update"}
Latest(h) ==
  IF pointer[h] # 0 THEN pointer[h]
  ELSE IF PreUpdate(h) = {} THEN 0
  ELSE CHOOSE i \in PreUpdate(h) : \A j \in PreUpdate(h) : j <= i

\* The archive is the default, Latest(live), or the one that --archive names.  A
\* torn one is refused before anything is extracted, and so is a destination
\* that has content.
Mutant_Anywhere(h) == TRUE
Clean(h) == home[h].db = None /\ home[h].arts = {}

Restorable(dest, i) ==
  /\ dest # live
  /\ Clean(dest)
  /\ archives[i].status # "torn"

\* rollback_to_dest, and POST /system/restore with a dest_home: the live home has
\* directories from its first start on and is refused there too.  The checksums
\* of what was extracted are verified at the end; content is abstract here and
\* always matches its name.
Rollback(dest, i) ==
  /\ Restorable(dest, i)
  /\ home' = [home EXCEPT ![dest] =
       [@ EXCEPT !.db = archives[i].db, !.arts = home[dest].arts \cup archives[i].arts, !.sound = archives[i].sound]]
  /\ told' = [told EXCEPT ![dest] = i]
  /\ UNCHANGED <<code, live, archives, pointer, job>>

\* The tool is killed while it extracts; the database comes first.
RollbackDies(dest, i, S) ==
  /\ Restorable(dest, i)
  /\ S \subseteq archives[i].arts
  /\ home' = [home EXCEPT ![dest] =
       [@ EXCEPT !.db = archives[i].db, !.arts = home[dest].arts \cup S, !.sound = FALSE]]
  /\ UNCHANGED <<code, live, archives, pointer, job, told>>

-----------------------------------------------------------------------------
(* The environment                                                         *)

\* A process is killed, or the server stopped.  What it was writing is left:
\* a torn archive is there already, an empty pointer names nothing.
Kill(p) ==
  /\ job[p].at \notin {"DOWN", "IDLE", "DONE"}
  /\ job' = [job EXCEPT ![p] = Doing(IF p = Server THEN "DOWN" ELSE "IDLE", job[p].home)]
  /\ pointer' \in IF At(p, "POINT") THEN {pointer, [pointer EXCEPT ![job[p].home] = 0]}
                  ELSE {pointer}
  /\ UNCHANGED <<code, live, home, archives, told>>

\* A new version of the code, with one more migration, is checked out.
Upgrade ==
  /\ code < MaxVersion
  /\ code' = code + 1
  /\ UNCHANGED <<live, home, archives, pointer, job, told>>

\* After a rollback, with nothing running, LEARNINGOS_HOME is pointed there.
Switch(h) ==
  /\ At(Server, "DOWN")
  /\ job[Update].at \in {"IDLE", "DONE"}
  /\ told[h] # 0
  /\ live' = h
  /\ told' = [told EXCEPT ![h] = 0]
  /\ UNCHANGED <<code, home, archives, pointer, job>>

Work(p) ==
  \/ Migrate(p) \/ Apply(p) \/ ApplyFails(p) \/ Dump(p) \/ List(p)
  \/ \E S \in SUBSET home[job[p].home].arts : Pack(p, S) \/ PackFails(p, S)
  \/ Kill(p)

Next ==
  \/ \E p \in Process : Work(p)
  \/ StartServer \/ FinishPut \/ BackUp
  \/ \E a \in Artifact : Put(a) \/ Cite(a)
  \/ StartUpdate \/ Point \/ Record
  \/ \E h \in Home : Switch(h)
  \/ \E h \in Home, i \in DOMAIN archives :
       Rollback(h, i) \/ \E S \in SUBSET Artifact : RollbackDies(h, i, S)
  \/ Upgrade

Spec == Init /\ [][Next]_vars

-----------------------------------------------------------------------------
(* Properties                                                              *)

\* Databases, archives and jobs have their shape, and the pointer of a home
\* names an archive it has: update refuses a home without a database.
TypeOK ==
  /\ code \in Version
  /\ live \in Home
  /\ home \in [Home -> Content]
  /\ archives \in Seq(Archive)
  /\ pointer \in [Home -> Nat]
  /\ \A h \in Home : pointer[h] <= Len(archives)
  /\ job \in [Process -> Job]
  /\ told \in [Home -> Nat]
  /\ \A h \in Home : told[h] <= Len(archives)

\* Whoever backs up while learners work: an archive that was written to its end,
\* and a home restored from one, have every artifact their rows cite
\* (create_backup copies the database before artifacts/).
Closed(db, arts) == db # None => db.cites \subseteq arts
ArchiveClosed ==
  /\ \A h \in Home : home[h].sound => Closed(home[h].db, home[h].arts)
  /\ \A i \in DOMAIN archives :
       archives[i].sound => Closed(archives[i].db, archives[i].arts)

\* No migration takes effect twice and none before an older one, in a live, a
\* restored or an archived database, although the server and the update tool
\* read what is pending before they take the lock, and either may die.
InOrder(db) ==
  db # None =>
    /\ \A v \in Version : db.ran[v] <= 1
    /\ \A v, w \in Version : v < w => db.ran[w] <= db.ran[v]
MigratedOnce ==
  /\ \A h \in Home : InOrder(home[h].db)
  /\ \A i \in DOMAIN archives : InOrder(archives[i].db)

\* From its first change on, what an update did can be undone: the archive that
\* rollback takes by default is the one this update wrote, to its end, and holds
\* no migration that the update applied (apply_update backs up first).
Changing ==
  \/ job[Update].at \in {"MIGRATE", "APPLY", "RECORD", "DONE"}
  \/ job[Update].at \in {"DUMP", "LIST", "PACK"} /\ job[Update].label = "pre_migration"
Undoes(h, i, applied) ==
  /\ Latest(h) = i
  /\ archives[i].home = h
  /\ archives[i].label = "pre_update"
  /\ archives[i].status = "complete"
  /\ \A v \in applied : archives[i].db.ran[v] = 0
DefaultUndoes ==
  Changing => Undoes(job[Update].home, job[Update].backup, job[Update].applied)

\* A home that rollback reported restored is the archive and nothing else, until
\* it is used, whatever earlier rollbacks left half done.
RestoredExactly ==
  \A h \in Home : told[h] # 0 =>
    /\ home[h].db = archives[told[h]].db
    /\ home[h].arts = archives[told[h]].arts

\* rollback.py:2 and :53: a rollback that reports success restored the backup: the
\* home has the artifacts that its rows cite.
RestoredWhole ==
  \A h \in Home : told[h] # 0 => Closed(home[h].db, home[h].arts)
=============================================================================
