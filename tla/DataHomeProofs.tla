--------------------------- MODULE DataHomeProofs ---------------------------
(***************************************************************************)
(* Proofs about DataHome for every set of homes and artifacts and any      *)
(* number of migrations and archives.                                      *)
(*                                                                         *)
(* The inductive invariant Inv has a part for each process, JobInv(p), and *)
(* parts on what the processes share.  No home but the live one is worked  *)
(* on, so every step adds to the live home (HomeGrows) and leaves other    *)
(* processes' copies of it no newer than it is.                            *)
(***************************************************************************)
EXTENDS DataHome, TLAPS

-----------------------------------------------------------------------------
(* The inductive invariant                                                 *)

\* p is at work on a home.
Active(p) == job[p].at \notin {"DOWN", "IDLE", "DONE"}
\* Places p comes to only after it found or made a database.
Opened    == {"DUMP", "LIST", "PACK", "POINT", "APPLY", "RECORD"}
\* Places on the way to applying what is pending.
Before    == {"DUMP", "LIST", "PACK", "APPLY"}

\* Every migration that took effect in db1 did in db2.
AtMost(db1, db2) == \A v \in Version : db1.ran[v] <= db2.ran[v]

\* Where each process may be, and that it works on the live home.
Placed(p) ==
  /\ p = Server => job[p].at \notin {"IDLE", "POINT", "RECORD", "DONE"} /\ job[p].label # "pre_update"
  /\ p = Update => job[p].at \notin {"DOWN", "UP", "PUT"}
  /\ p = Update /\ job[p].at \in {"DUMP", "LIST", "PACK"} => job[p].label # "manual"
  /\ At(p, "PUT") => job[p].put \in Artifact
  /\ At(p, "UP") => job[p].pending = {}
  /\ Active(p) => job[p].home = live
  /\ job[p].at \in Opened => home[live].db # None

\* Archive i is a backup the update tool took of its home, written to its end.
Finished(i) ==
  /\ i \in DOMAIN archives
  /\ archives[i].home = job[Update].home
  /\ archives[i].label = "pre_update"
  /\ archives[i].status = "complete"

\* The archive that p writes is still the one it began.
Packing(p) ==
  At(p, "PACK") =>
    /\ job[p].slot \in DOMAIN archives
    /\ archives[job[p].slot].home = job[p].home
    /\ archives[job[p].slot].label = job[p].label
    /\ archives[job[p].slot].db = job[p].dump
    /\ archives[job[p].slot].status = "torn"

\* The two processes write to archives of their own.
Apart == At(Server, "PACK") /\ At(Update, "PACK") => job[Server].slot # job[Update].slot

\* What p has copied of the database cites nothing that p has not copied or listed.
Copying(p) ==
  home[live].sound =>
    /\ At(p, "LIST") => job[p].dump.cites \subseteq home[live].arts
    /\ At(p, "PACK") => job[p].dump.cites \subseteq job[p].listed

\* The copy that p has taken is in order and no newer than the live database.
Dumped(p) ==
  job[p].at \in {"LIST", "PACK"} => InOrder(job[p].dump) /\ AtMost(job[p].dump, home[live].db)

\* Older migrations than a pending one are pending or took effect.
Pending(p) ==
  job[p].at \in Before =>
    \A v, w \in Version : v < w /\ w \in job[p].pending =>
      v \in job[p].pending \/ home[live].db.ran[v] >= 1

\* The archive the update tool is about to point at is no newer than the home.
Pointing == At(Update, "POINT") =>
  Finished(job[Update].slot) /\ AtMost(archives[job[Update].slot].db, home[live].db)

\* DefaultUndoes, and why it stays so: the backup is no newer than the live home.
Undoing == Changing =>
  /\ Finished(job[Update].backup)
  /\ pointer[job[Update].home] = job[Update].backup
  /\ \A v \in job[Update].applied : archives[job[Update].backup].db.ran[v] = 0
  /\ Active(Update) => home[live].db # None /\ AtMost(archives[job[Update].backup].db, home[live].db)

\* RestoredExactly, and why it stays so: restored homes are not live and their
\* archives not being written.
Restored ==
  /\ told[live] = 0
  /\ \A h \in Home : told[h] # 0 => archives[told[h]].status # "torn"
  /\ RestoredExactly

\* The part of the invariant that is about one process.
JobInv(p) == Placed(p) /\ Packing(p) /\ Copying(p) /\ Dumped(p) /\ Pending(p)
\* The inductive invariant.
Inv ==
  /\ TypeOK /\ Apart /\ ArchiveClosed /\ MigratedOnce /\ Pointing /\ Undoing /\ Restored
  /\ \A p \in Process : JobInv(p)

-----------------------------------------------------------------------------
\* Appending to a sequence and replacing one of its elements.
LEMMA SeqFacts ==
  ASSUME NEW S, NEW s \in Seq(S), NEW e \in S
  PROVE  /\ DOMAIN s = 1..Len(s) /\ Len(s) \in Nat
         /\ \A i \in DOMAIN s : s[i] \in S
         /\ Append(s, e) \in Seq(S)
         /\ Len(Append(s, e)) = Len(s) + 1
         /\ \A i \in DOMAIN s : Append(s, e)[i] = s[i]
         /\ Append(s, e)[Len(s) + 1] = e
         /\ \A i \in DOMAIN s : /\ [s EXCEPT ![i] = e] \in Seq(S)
                                /\ Len([s EXCEPT ![i] = e]) = Len(s)
  OBVIOUS

\* The record of a process that has just turned to something.
LEMMA DoingTyped ==
  ASSUME NEW at \in Place, NEW h \in Home
  PROVE  Doing(at, h) \in Job
  BY DEF Doing, Job, Label, EmptyDb, Db, Version

\* What follows run_migrations (migrations.py:69).
LEMMA MigratedTyped ==
  ASSUME TypeOK, NEW p \in Process
  PROVE  Migrated(p) \in Job
<1>1. job[p] \in Job /\ job[p].home \in Home /\ job[p].backup \in Nat
  BY DEF TypeOK, Job
<1>2. Doing("UP", job[p].home) \in Job /\ Doing("RECORD", job[p].home) \in Job
  BY <1>1, DoingTyped DEF Place
<1> QED
  BY <1>1, <1>2 DEF Migrated, Job

\* run_migrations reads what is pending (migrations.py:75-93).
LEMMA MigrateTyped ==
  ASSUME Inv, NEW p \in Process, Migrate(p)
  PROVE  TypeOK'
<1> DEFINE h == job[p].home
           db == IF home[h].db # None THEN home[h].db ELSE EmptyDb
           pending == {v \in 1..code : db.ran[v] = 0}
           at == IF home[h].db # None THEN "DUMP" ELSE "APPLY"
           j == [Doing(at, h) EXCEPT !.label = "pre_migration", !.pending = pending, !.backup = job[p].backup]
<1>1. h \in Home /\ home[h] \in Content /\ job[p] \in Job
  BY DEF Inv, TypeOK, Job
<1>2. db \in Db
  BY <1>1 DEF Content, EmptyDb, Db, Version
<1>3. home' \in [Home -> Content]
  BY <1>1, <1>2 DEF Inv, TypeOK, Migrate, Content
<1>4. j \in Job
  <2>1. Doing(at, h) \in Job
    BY <1>1, DoingTyped DEF Place
  <2>2. pending \in SUBSET Version
    BY DataHomeAssumption DEF Inv, TypeOK, Version
  <2> QED
    BY <1>1, <2>1, <2>2 DEF Job, Label
<1>5. Migrated(p) \in Job
  BY MigratedTyped DEF Inv
<1>6. job' \in [Process -> Job]
  <2>1. job' = [job EXCEPT ![p] = IF pending = {} THEN Migrated(p) ELSE j]
    BY DEF Migrate
  <2> QED
    BY <1>4, <1>5, <2>1 DEF Inv, TypeOK
<1> QED
  BY <1>3, <1>6 DEF Inv, TypeOK, Migrate

\* The transaction of run_migrations (migrations.py:94-107).
LEMMA ApplyTyped ==
  ASSUME Inv, NEW p \in Process, Apply(p)
  PROVE  TypeOK'
<1> DEFINE h == job[p].home
           ran == [v \in Version |-> IF v \in job[p].pending THEN home[h].db.ran[v] + 1 ELSE home[h].db.ran[v]]
           db == [home[h].db EXCEPT !.ran = ran]
           c == [home[h] EXCEPT !.db = db]
<1>1. h \in Home /\ home[h] \in Content /\ home[h].db \in Db
  BY DEF Inv, JobInv, Placed, Apply, At, Active, Opened, TypeOK, Job, Content
<1>2. home' = [home EXCEPT ![h] = c]
  BY <1>1 DEF Apply, Inv, TypeOK, Content, Db
<1>3. c \in Content
  <2>1. ran \in [Version -> Nat]
    BY <1>1 DEF Db
  <2>2. db \in Db
    BY <1>1, <2>1 DEF Db
  <2> QED
    BY <1>1, <2>2 DEF Content
<1>4. job' \in [Process -> Job]
  <2>1. [Migrated(p) EXCEPT !.applied = job[p].pending] \in Job
    BY MigratedTyped DEF Inv, TypeOK, Job
  <2> QED
    BY <2>1 DEF Apply, Inv, TypeOK
<1>5. home' \in [Home -> Content]
  BY <1>1, <1>2, <1>3 DEF Inv, TypeOK
<1> QED
  BY <1>4, <1>5 DEF Inv, TypeOK, Apply

\* An exception ends what p is doing.
LEMMA FailTyped ==
  ASSUME TypeOK, NEW p \in Process, Fail(p)
  PROVE  job' \in [Process -> Job]
<1>1. job[p].home \in Home /\ Rest(p) \in Place
  BY DEF TypeOK, Job, Rest, Place
<1>2. Doing(Rest(p), job[p].home) \in Job
  BY <1>1, DoingTyped
<1> QED
  BY <1>2 DEF Fail, TypeOK

\* The transaction is rolled back (migrations.py:108-110).
LEMMA ApplyFailsTyped ==
  ASSUME Inv, NEW p \in Process, ApplyFails(p)
  PROVE  TypeOK'
BY FailTyped DEF Inv, ApplyFails, TypeOK

\* create_backup copies the database (backup.py:57-70).
LEMMA DumpTyped ==
  ASSUME Inv, NEW p \in Process, Dump(p)
  PROVE  TypeOK'
<1>1. job[p].home \in Home /\ home[job[p].home].db \in Db
  BY DEF Inv, JobInv, Placed, Dump, At, Active, Opened, TypeOK, Job, Content
<1>2. [job[p] EXCEPT !.at = "LIST", !.dump = home[job[p].home].db] \in Job
  BY <1>1 DEF Inv, TypeOK, Job, Place
<1>3. job' = [job EXCEPT ![p] = [@ EXCEPT !.at = "LIST", !.dump = home[job[p].home].db]]
  BY DEF Dump
<1> QED
  BY <1>2, <1>3 DEF Inv, TypeOK, Dump

\* create_backup opens the archive and walks artifacts/ (backup.py:72-78).
LEMMA ListTyped ==
  ASSUME Inv, NEW p \in Process, List(p)
  PROVE  TypeOK'
<1> DEFINE h == job[p].home
           e == [home |-> h, label |-> job[p].label, db |-> job[p].dump, arts |-> {},
                 sound |-> FALSE, status |-> "torn"]
           seen == IF At(Server, "PUT") /\ job[Server].home = h THEN "temp" ELSE "none"
           j == [job[p] EXCEPT !.at = "PACK", !.slot = Len(archives) + 1, !.listed = home[h].arts, !.seen = seen]
<1>1. h \in Home /\ home[h].arts \in SUBSET Artifact /\ job[p] \in Job
  BY DEF Inv, TypeOK, Job, Content
<1>2. e \in Archive
  BY <1>1 DEF Archive, Job
<1>3. archives' \in Seq(Archive) /\ Len(archives') = Len(archives) + 1 /\ Len(archives) \in Nat
  BY <1>2, SeqFacts DEF List, Inv, TypeOK
<1>4. j \in Job
  <2>1. seen \in {"none", "temp", "gone"}
    OBVIOUS
  <2>2. Len(archives) + 1 \in Nat
    BY <1>3
  <2> HIDE DEF seen
  <2> QED
    BY <1>1, <2>1, <2>2 DEF Job, Place
<1>5. job' = [job EXCEPT ![p] = j]
  BY DEF List
<1>6. job' \in [Process -> Job]
  BY <1>4, <1>5 DEF Inv, TypeOK
<1> QED
  BY <1>3, <1>6 DEF Inv, TypeOK, List

\* What follows create_backup.
LEMMA AfterTyped ==
  ASSUME TypeOK, NEW p \in Process
  PROVE  After(p) \in Job
<1>1. job[p] \in Job /\ job[p].home \in Home
  BY DEF TypeOK, Job
<1>2. /\ Doing("UP", job[p].home) \in Job
      /\ Doing("POINT", job[p].home) \in Job
      /\ Doing("APPLY", job[p].home) \in Job
  BY <1>1, DoingTyped DEF Place
<1> QED
  BY <1>1, <1>2 DEF After, Job, Label

\* What Pack and PackFails leave of the archive that was begun.
LEMMA PackedTyped ==
  ASSUME Inv, NEW p \in Process, At(p, "PACK"), NEW S \in SUBSET Artifact,
         NEW status \in {"cut", "complete"}, NEW sound \in BOOLEAN,
         archives' = [archives EXCEPT ![job[p].slot] =
                        [@ EXCEPT !.arts = S, !.status = status, !.sound = sound]]
  PROVE  archives' \in Seq(Archive) /\ Len(archives') = Len(archives)
<1>1. job[p].slot \in DOMAIN archives /\ archives \in Seq(Archive)
  BY DEF Inv, JobInv, Packing, TypeOK
<1>2. archives[job[p].slot] \in Archive
  BY <1>1
<1>3. [archives[job[p].slot] EXCEPT !.arts = S, !.status = status, !.sound = sound] \in Archive
  BY <1>2 DEF Archive
<1> QED
  BY <1>1, <1>3, SeqFacts

\* The archive is written to its end (backup.py:73-88).
LEMMA PackTyped ==
  ASSUME Inv, NEW p \in Process, NEW S \in SUBSET Artifact, Pack(p, S)
  PROVE  TypeOK'
<1>1. archives' \in Seq(Archive) /\ Len(archives') = Len(archives)
  BY PackedTyped DEF Pack, Inv, TypeOK, Job, Content
<1>2. job' \in [Process -> Job]
  BY AfterTyped DEF Pack, Inv, TypeOK
<1> QED
  BY <1>1, <1>2 DEF Inv, TypeOK, Pack

\* The walk meets a file that is gone (backup.py:78).
LEMMA PackFailsTyped ==
  ASSUME Inv, NEW p \in Process, NEW S \in SUBSET Artifact, PackFails(p, S)
  PROVE  TypeOK'
<1>1. archives' \in Seq(Archive) /\ Len(archives') = Len(archives)
  BY PackedTyped DEF PackFails
<1>2. job' \in [Process -> Job]
  BY FailTyped DEF PackFails, Inv
<1> QED
  BY <1>1, <1>2 DEF Inv, TypeOK, PackFails

\* attempt_storage_init (config.py:187).
LEMMA StartServerTyped ==
  ASSUME Inv, StartServer
  PROVE  TypeOK'
<1>1. Doing("MIGRATE", live) \in Job
  BY DoingTyped DEF Inv, TypeOK, Place
<1> QED
  BY <1>1 DEF Inv, TypeOK, StartServer, Process

\* _atomic_write makes its temporary file (artifact_store.py:22).
LEMMA PutTyped ==
  ASSUME Inv, NEW a \in Artifact, Put(a)
  PROVE  TypeOK'
<1> DEFINE s == [job[Server] EXCEPT !.at = "PUT", !.put = a]
<1>1. job[Server] \in Job /\ job[Update] \in Job /\ s \in Job
  BY DEF Inv, TypeOK, Process, Job, Place
<1> DEFINE seen == IF At(Update, "PACK") /\ job[Update].home = job[Server].home /\ job[Update].seen = "none"
                     THEN "temp" ELSE job[Update].seen
<1>2. job' = [job EXCEPT ![Server] = s, ![Update] = [job[Update] EXCEPT !.seen = seen]]
  BY <1>1 DEF Put, Server, Update, Inv, TypeOK, Process
<1>3. [job[Update] EXCEPT !.seen = seen] \in Job
  BY <1>1 DEF Job
<1>4. job' \in [Process -> Job]
  BY <1>1, <1>2, <1>3 DEF Inv, TypeOK, Process, Server, Update
<1> QED
  BY <1>4 DEF Inv, TypeOK, Put

\* _atomic_write renames it (artifact_store.py:29).
LEMMA FinishPutTyped ==
  ASSUME Inv, FinishPut
  PROVE  TypeOK'
<1> DEFINE h == job[Server].home
<1>1. job[Server] \in Job /\ job[Update] \in Job /\ h \in Home /\ job[Server].put \in Artifact
  BY DEF Inv, TypeOK, Process, Job, JobInv, Placed, FinishPut
<1>2. Doing("UP", h) \in Job
  BY <1>1, DoingTyped DEF Place
<1>3. PICK seen \in {"none", "temp", "gone"} :
        job' = [job EXCEPT ![Server] = Doing("UP", h), ![Update] = [@ EXCEPT !.seen = seen]]
  BY <1>1 DEF FinishPut, Server, Update, Job
<1>4. [job[Update] EXCEPT !.seen = seen] \in Job
  BY <1>1 DEF Job
<1>5. job' \in [Process -> Job]
  BY <1>2, <1>3, <1>4 DEF Inv, TypeOK, Process, Server, Update
<1>6. home' \in [Home -> Content]
  BY <1>1 DEF FinishPut, Inv, TypeOK, Content
<1> QED
  BY <1>5, <1>6 DEF Inv, TypeOK, FinishPut

\* A learner's work cites an artifact.
LEMMA CiteTyped ==
  ASSUME Inv, NEW a \in Artifact, Cite(a)
  PROVE  TypeOK'
<1> DEFINE h == job[Server].home
           db == [home[h].db EXCEPT !.cites = home[h].db.cites \cup {a}]
           c == [home[h] EXCEPT !.db = db]
<1>1. h \in Home /\ home[h] \in Content /\ home[h].db \in Db
  BY DEF Inv, TypeOK, Process, Job, Content, Cite
<1>2. home' = [home EXCEPT ![h] = c]
  BY <1>1 DEF Cite, Inv, TypeOK, Content, Db
<1>3. db \in Db
  BY <1>1 DEF Db
<1>4. c \in Content
  BY <1>1, <1>3 DEF Content
<1>5. home' \in [Home -> Content]
  BY <1>1, <1>2, <1>4 DEF Inv, TypeOK
<1> QED
  BY <1>5 DEF Inv, TypeOK, Cite

\* p goes on to another place.
LEMMA GoTyped ==
  ASSUME TypeOK, NEW p \in Process, NEW at \in Place, Go(p, at)
  PROVE  job' \in [Process -> Job]
<1>1. [job[p] EXCEPT !.at = at] \in Job
  BY DEF TypeOK, Job
<1> QED
  BY <1>1 DEF Go, TypeOK

\* POST /system/backup (routes.py:574).
LEMMA BackUpTyped ==
  ASSUME Inv, BackUp
  PROVE  TypeOK'
BY GoTyped DEF Inv, TypeOK, BackUp, Place, Process

\* _record_update_metadata (update.py:172).
LEMMA RecordTyped ==
  ASSUME Inv, Record
  PROVE  TypeOK'
BY GoTyped DEF Inv, TypeOK, Record, Place, Process

\* apply_update finds a database (update.py:229-235).
LEMMA StartUpdateTyped ==
  ASSUME Inv, StartUpdate
  PROVE  TypeOK'
<1>1. Doing("DUMP", live) \in Job
  BY DoingTyped DEF Inv, TypeOK, Place
<1>2. [Doing("DUMP", live) EXCEPT !.label = "pre_update"] \in Job
  BY <1>1 DEF Job, Label
<1> QED
  BY <1>2 DEF Inv, TypeOK, StartUpdate, Process

\* write_pre_update_pointer (update.py:103).
LEMMA PointTyped ==
  ASSUME Inv, Point
  PROVE  TypeOK'
<1>1. /\ job[Update] \in Job /\ job[Update].home \in Home
      /\ job[Update].slot \in Nat /\ job[Update].slot <= Len(archives)
  BY SeqFacts DEF Inv, TypeOK, Process, Job, Pointing, Finished, Point
<1>2. Doing("MIGRATE", job[Update].home) \in Job
  BY <1>1, DoingTyped DEF Place
<1>3. [Doing("MIGRATE", job[Update].home) EXCEPT !.backup = job[Update].slot] \in Job
  BY <1>1, <1>2 DEF Job
<1>4. job' \in [Process -> Job]
  BY <1>3 DEF Inv, TypeOK, Point
<1> QED
  BY <1>1, <1>4 DEF Inv, TypeOK, Point

\* A process is killed.
LEMMA KillTyped ==
  ASSUME Inv, NEW p \in Process, Kill(p)
  PROVE  TypeOK'
<1>1. job[p].home \in Home
  BY DEF Inv, TypeOK, Job
<1>2. Doing(IF p = Server THEN "DOWN" ELSE "IDLE", job[p].home) \in Job
  BY <1>1, DoingTyped DEF Place
<1>3. job' \in [Process -> Job]
  BY <1>2 DEF Inv, TypeOK, Kill
<1>4. pointer' = pointer \/ pointer' = [pointer EXCEPT ![job[p].home] = 0]
  BY DEF Kill
<1>5. Len(archives) \in Nat
  BY SeqFacts DEF Inv, TypeOK
<1>6. pointer' \in [Home -> Nat] /\ \A h \in Home : pointer'[h] <= Len(archives)
  <2>1. pointer \in [Home -> Nat] /\ \A h \in Home : pointer[h] <= Len(archives)
    BY DEF Inv, TypeOK
  <2>2. CASE pointer' = pointer
    BY <2>1, <2>2
  <2>3. CASE pointer' = [pointer EXCEPT ![job[p].home] = 0]
    BY <1>1, <1>5, <2>1, <2>3
  <2> QED
    BY <1>4, <2>2, <2>3
<1> QED
  BY <1>3, <1>6 DEF Inv, TypeOK, Kill

\* What a rollback puts into its destination, whether or not it gets to the end.
LEMMA RestoredTyped ==
  ASSUME Inv, NEW h \in Home, NEW i \in DOMAIN archives, NEW S \in SUBSET archives[i].arts,
         NEW sound \in BOOLEAN,
         home' = [home EXCEPT ![h] =
                    [@ EXCEPT !.db = archives[i].db, !.arts = home[h].arts \cup S, !.sound = sound]]
  PROVE  home' \in [Home -> Content]
<1>1. archives[i] \in Archive /\ home[h] \in Content
  BY DEF Inv, TypeOK
<1>2. archives[i].db \in Db /\ archives[i].arts \in SUBSET Artifact
  BY <1>1 DEF Archive
<1>3. [home[h] EXCEPT !.db = archives[i].db, !.arts = home[h].arts \cup S, !.sound = sound] \in Content
  BY <1>1, <1>2 DEF Content
<1> QED
  BY <1>3 DEF Inv, TypeOK

\* rollback_to_dest (rollback.py:105).
LEMMA RollbackTyped ==
  ASSUME Inv, NEW h \in Home, NEW i \in DOMAIN archives, Rollback(h, i)
  PROVE  TypeOK'
<1>1. archives[i] \in Archive
  BY DEF Inv, TypeOK
<1>2. home' \in [Home -> Content]
  <2>1. archives[i].sound \in BOOLEAN
    BY <1>1 DEF Archive
  <2>2. home' = [home EXCEPT ![h] = [@ EXCEPT !.db = archives[i].db, !.arts = home[h].arts \cup archives[i].arts, !.sound = archives[i].sound]]
    BY DEF Rollback
  <2> QED
    BY <2>1, <2>2, RestoredTyped
<1>3. i \in Nat /\ i <= Len(archives)
  BY <1>1, SeqFacts DEF Inv, TypeOK
<1> QED
  BY <1>2, <1>3 DEF Inv, TypeOK, Rollback

\* rollback_to_dest is killed while it extracts.
LEMMA RollbackDiesTyped ==
  ASSUME Inv, NEW h \in Home, NEW i \in DOMAIN archives, NEW S \in SUBSET Artifact,
         RollbackDies(h, i, S)
  PROVE  TypeOK'
<1>1. home' \in [Home -> Content]
  BY RestoredTyped DEF RollbackDies
<1> QED
  BY <1>1 DEF Inv, TypeOK, RollbackDies

\* Newer code is checked out.
LEMMA UpgradeTyped ==
  ASSUME Inv, Upgrade
  PROVE  TypeOK'
BY DataHomeAssumption DEF Inv, TypeOK, Upgrade, Version

\* LEARNINGOS_HOME is pointed elsewhere.
LEMMA SwitchTyped ==
  ASSUME Inv, NEW h \in Home, Switch(h)
  PROVE  TypeOK'
BY SeqFacts DEF Inv, TypeOK, Switch

\* Every step keeps the types.
LEMMA TypedStep ==
  ASSUME Inv, Next
  PROVE  TypeOK'
<1>1. CASE \E p \in Process : Work(p)
  <2>1. PICK p \in Process : Work(p)
    BY <1>1
  <2>2. SUBSET home[job[p].home].arts \subseteq SUBSET Artifact
    BY DEF Inv, TypeOK, Job, Content
  <2> QED
    BY <2>1, <2>2, MigrateTyped, ApplyTyped, ApplyFailsTyped, DumpTyped, ListTyped, PackTyped,
       PackFailsTyped, KillTyped DEF Work
<1>2. CASE ~\E p \in Process : Work(p)
  BY <1>2, StartServerTyped, FinishPutTyped, BackUpTyped, PutTyped, CiteTyped, StartUpdateTyped,
     PointTyped, RecordTyped, SwitchTyped, RollbackTyped, RollbackDiesTyped, UpgradeTyped DEF Next
<1> QED
  BY <1>1, <1>2

-----------------------------------------------------------------------------
(* What every step but Switch leaves of the live home and of the archives  *)

\* What no step changes in an archive.
Kept(i) ==
  /\ i \in DOMAIN archives'
  /\ archives'[i].home = archives[i].home
  /\ archives'[i].label = archives[i].label
  /\ archives'[i].db = archives[i].db

\* No archive is lost or mistaken for another.
ArchivesKept == \A i \in DOMAIN archives : Kept(i)

\* The live home stays live and only gains.
HomeGrows ==
  /\ live' = live
  /\ home'[live].sound = home[live].sound
  /\ home[live].arts \subseteq home'[live].arts
  /\ home[live].db # None => home'[live].db # None /\ AtMost(home[live].db, home'[live].db)

\* The live home has a typed content.
LEMMA HomeTyped ==
  ASSUME TypeOK
  PROVE  /\ home[live] \in Content
         /\ home[live].db # None => home[live].db \in Db
         /\ AtMost(home[live].db, home[live].db) \/ home[live].db = None
  BY DEF TypeOK, Content, Db, AtMost

\* A step that does not write to a home.
LEMMA GrowsIfSame ==
  ASSUME TypeOK, live' = live, home' = home
  PROVE  HomeGrows
  BY HomeTyped DEF HomeGrows, TypeOK, Content, Db, AtMost

\* Opening a database that is not there creates an empty one.
LEMMA MigrateGrows ==
  ASSUME Inv, NEW p \in Process, Migrate(p)
  PROVE  HomeGrows
<1>1. job[p].home = live /\ live \in Home /\ home \in [Home -> Content]
  BY DEF Inv, TypeOK, JobInv, Placed, Active, Migrate, At
<1>2. live' = live /\ home' = [home EXCEPT ![live].db = IF home[live].db # None THEN home[live].db ELSE EmptyDb]
  BY <1>1 DEF Migrate
<1> QED
  BY <1>1, <1>2, HomeTyped DEF Inv, HomeGrows, Content

\* A migration changes what ran in the live database and nothing else.
LEMMA ApplyEffect ==
  ASSUME Inv, NEW p \in Process, Apply(p)
  PROVE  /\ live' = live /\ live \in Home /\ job[p].home = live
         /\ home[live].db \in Db /\ home'[live].db \in Db
         /\ \A v \in Version : home'[live].db.ran[v] =
              IF v \in job[p].pending THEN home[live].db.ran[v] + 1 ELSE home[live].db.ran[v]
         /\ home'[live].db.cites = home[live].db.cites
         /\ home'[live].arts = home[live].arts
         /\ home'[live].sound = home[live].sound
         /\ \A h \in Home : h # live => home'[h] = home[h]
<1> DEFINE ran == [v \in Version |-> IF v \in job[p].pending THEN home[live].db.ran[v] + 1 ELSE home[live].db.ran[v]]
           db == [home[live].db EXCEPT !.ran = ran]
<1>1. /\ job[p].home = live /\ live \in Home /\ home \in [Home -> Content] /\ home[live].db \in Db
      /\ live' = live
  BY HomeTyped DEF Inv, TypeOK, JobInv, Placed, Active, Opened, Apply, At
<1>2. home' = [home EXCEPT ![live] = [home[live] EXCEPT !.db = db]]
  BY <1>1 DEF Apply, Content, Db
<1>3. ran \in [Version -> Nat]
  BY <1>1 DEF Db
<1>4. db \in Db /\ db.ran = ran /\ db.cites = home[live].db.cites
  BY <1>1, <1>3 DEF Db
<1> HIDE DEF db
<1>5. /\ home'[live].db = db
      /\ home'[live].arts = home[live].arts /\ home'[live].sound = home[live].sound
      /\ \A h \in Home : h # live => home'[h] = home[h]
  BY <1>1, <1>2 DEF Content
<1> QED
  BY <1>1, <1>4, <1>5

\* A citation changes what the live database cites and nothing else.
LEMMA CiteEffect ==
  ASSUME Inv, NEW a \in Artifact, Cite(a)
  PROVE  /\ live' = live /\ live \in Home
         /\ home[live].db \in Db /\ home'[live].db \in Db
         /\ home'[live].db.ran = home[live].db.ran
         /\ home'[live].db.cites = home[live].db.cites \cup {a}
         /\ home'[live].arts = home[live].arts /\ a \in home[live].arts
         /\ home'[live].sound = home[live].sound
         /\ \A h \in Home : h # live => home'[h] = home[h]
<1> DEFINE db == [home[live].db EXCEPT !.cites = home[live].db.cites \cup {a}]
<1>1. /\ job[Server].home = live /\ live \in Home /\ home \in [Home -> Content] /\ home[live].db \in Db
      /\ live' = live /\ a \in home[live].arts
  BY HomeTyped DEF Inv, TypeOK, JobInv, Placed, Active, Cite, At, Process
<1>2. home' = [home EXCEPT ![live] = [home[live] EXCEPT !.db = db]]
  BY <1>1 DEF Cite, Content, Db
<1>3. db \in Db /\ db.ran = home[live].db.ran /\ db.cites = home[live].db.cites \cup {a}
  BY <1>1 DEF Db
<1> HIDE DEF db
<1>4. /\ home'[live].db = db
      /\ home'[live].arts = home[live].arts /\ home'[live].sound = home[live].sound
      /\ \A h \in Home : h # live => home'[h] = home[h]
  BY <1>1, <1>2 DEF Content
<1> QED
  BY <1>1, <1>3, <1>4

\* A rollback writes its destination, which is not the live home.  Only one that
\* got to the end leaves a sound home, and then the home is the archive.
LEMMA RestoreEffect ==
  ASSUME Inv, NEW h \in Home, NEW i \in DOMAIN archives,
         Rollback(h, i) \/ \E S \in SUBSET Artifact : RollbackDies(h, i, S)
  PROVE  /\ h # live /\ live' = live
         /\ archives[i] \in Archive /\ archives[i].db \in Db /\ archives[i].status # "torn"
         /\ home'[h].db = archives[i].db
         /\ Rollback(h, i) \/ home'[h].sound
              => home'[h].arts = archives[i].arts /\ home'[h].sound = archives[i].sound
         /\ \A g \in Home : g # h => home'[g] = home[g]
<1>1. archives[i] \in Archive /\ home \in [Home -> Content] /\ h # live /\ live' = live
      /\ archives[i].status # "torn" /\ home[h].arts = {}
  <2>1. archives[i] \in Archive /\ home \in [Home -> Content]
    BY DEF Inv, TypeOK
  <2>2. Restorable(h, i) /\ live' = live
    BY DEF Rollback, RollbackDies
  <2> QED
    BY <2>1, <2>2 DEF Restorable, Clean
<1>2. archives[i].db \in Db
  BY <1>1 DEF Archive
<1>3. CASE Rollback(h, i)
  <2>1. home'[h] = [home[h] EXCEPT !.db = archives[i].db, !.arts = home[h].arts \cup archives[i].arts, !.sound = archives[i].sound]
    BY <1>1, <1>3 DEF Rollback
  <2>2. \A g \in Home : g # h => home'[g] = home[g]
    BY <1>1, <1>3 DEF Rollback
  <2> QED
    BY <1>1, <1>2, <2>1, <2>2 DEF Content
<1>4. ASSUME NEW S \in SUBSET Artifact, RollbackDies(h, i, S), ~Rollback(h, i)
      PROVE  /\ home'[h].db = archives[i].db
             /\ home'[h].sound = FALSE
             /\ \A g \in Home : g # h => home'[g] = home[g]
  <2>1. home'[h] = [home[h] EXCEPT !.db = archives[i].db, !.arts = home[h].arts \cup S, !.sound = FALSE]
    BY <1>1, <1>4 DEF RollbackDies
  <2>2. \A g \in Home : g # h => home'[g] = home[g]
    BY <1>1, <1>4 DEF RollbackDies
  <2> QED
    BY <1>1, <2>1, <2>2 DEF Content
<1> QED
  BY <1>1, <1>2, <1>3, <1>4

\* Migrations only add to the live home.
LEMMA ApplyGrows ==
  ASSUME Inv, NEW p \in Process, Apply(p)
  PROVE  HomeGrows
<1>1. home'[live].db # None
  BY ApplyEffect, DataHomeAssumption DEF Db, Version
<1>2. AtMost(home[live].db, home'[live].db)
  <2>1. \A v \in Version : home[live].db.ran[v] \in Nat
    BY ApplyEffect DEF Db
  <2> QED
    BY <2>1, ApplyEffect DEF AtMost
<1> QED
  BY <1>1, <1>2, ApplyEffect DEF HomeGrows

\* Citations only add to the live home.
LEMMA CiteGrows ==
  ASSUME Inv, NEW a \in Artifact, Cite(a)
  PROVE  HomeGrows
BY CiteEffect, DataHomeAssumption DEF HomeGrows, AtMost, Db, Version

\* Artifacts only add to the live home.
LEMMA FinishPutGrows ==
  ASSUME Inv, FinishPut
  PROVE  HomeGrows
<1>1. /\ job[Server].home = live /\ live \in Home /\ home \in [Home -> Content]
      /\ live' = live
  BY DEF Inv, TypeOK, JobInv, Placed, Active, FinishPut, At, Process
<1>2. home' = [home EXCEPT ![live].arts = @ \cup {job[Server].put}]
  BY <1>1 DEF FinishPut
<1> QED
  BY <1>1, <1>2, HomeTyped DEF Inv, HomeGrows, Content

\* A rollback leaves the live home alone.
LEMMA RestoreElsewhere ==
  ASSUME Inv, NEW h \in Home, NEW i \in DOMAIN archives,
         Rollback(h, i) \/ \E S \in SUBSET Artifact : RollbackDies(h, i, S)
  PROVE  HomeGrows
<1>1. live \in Home /\ h # live /\ live' = live /\ home'[live] = home[live]
  BY DEF Inv, TypeOK, Rollback, RollbackDies, Restorable
<1> QED
  BY <1>1, HomeTyped DEF Inv, HomeGrows

\* What is in the live home stays there, until another one is live.
LEMMA Grows ==
  ASSUME Inv, Next, ~\E h \in Home : Switch(h)
  PROVE  HomeGrows
<1>1. CASE live' = live /\ home' = home
  BY <1>1, GrowsIfSame DEF Inv
<1>2. CASE \E p \in Process : Migrate(p) \/ Apply(p)
  BY <1>2, MigrateGrows, ApplyGrows
<1>3. CASE FinishPut \/ \E a \in Artifact : Cite(a)
  BY <1>3, FinishPutGrows, CiteGrows
<1>4. CASE \E h \in Home, i \in DOMAIN archives :
             Rollback(h, i) \/ \E S \in SUBSET Artifact : RollbackDies(h, i, S)
  BY <1>4, RestoreElsewhere
<1>5. QED
  BY <1>1, <1>2, <1>3, <1>4 DEF Next, Work, ApplyFails, Dump, List, Pack, PackFails, Kill,
     StartServer, BackUp, Put, StartUpdate, Point, Record, Upgrade

\* The end of create_backup changes the archive it began and no other.
LEMMA PackEffect ==
  ASSUME Inv, NEW p \in Process, NEW S, Pack(p, S) \/ PackFails(p, S)
  PROVE  LET i == job[p].slot IN
         /\ i \in DOMAIN archives /\ DOMAIN archives' = DOMAIN archives
         /\ job[p].home = live /\ live' = live
         /\ archives[i].status = "torn"
         /\ archives'[i].home = archives[i].home
         /\ archives'[i].label = archives[i].label
         /\ archives'[i].db = archives[i].db
         /\ archives'[i].status \in {"cut", "complete"}
         /\ Pack(p, S) => archives'[i].status = "complete" /\ archives'[i].arts = S
         /\ archives'[i].sound => Pack(p, S) /\ home[live].sound /\ archives'[i].arts = S
         /\ \A j \in DOMAIN archives : j # i => archives'[j] = archives[j]
<1> DEFINE i == job[p].slot
<1>1. i \in DOMAIN archives /\ archives[i] \in Archive /\ archives[i].status = "torn"
      /\ job[p].home = live /\ live' = live
  <2>1. At(p, "PACK") /\ live' = live
    BY DEF Pack, PackFails
  <2>2. i \in DOMAIN archives /\ archives[i].status = "torn" /\ job[p].home = live
    BY <2>1 DEF Inv, JobInv, Packing, Placed, Active, At
  <2> QED
    BY <2>1, <2>2 DEF Inv, TypeOK
<1>2. DOMAIN archives' = DOMAIN archives /\ \A j \in DOMAIN archives : j # i => archives'[j] = archives[j]
  BY DEF Inv, TypeOK, Pack, PackFails
<1>3. CASE Pack(p, S)
  <2>1. archives'[i] = [archives[i] EXCEPT !.arts = S, !.status = "complete", !.sound = home[live].sound]
    BY <1>1, <1>3 DEF Pack, Inv, TypeOK
  <2> QED
    BY <1>1, <1>2, <1>3, <2>1 DEF Archive
<1>4. CASE ~Pack(p, S)
  <2>1. archives'[i] = [archives[i] EXCEPT !.arts = S, !.status = "cut", !.sound = FALSE]
    BY <1>1, <1>4 DEF PackFails, Inv, TypeOK
  <2> QED
    BY <1>1, <1>2, <1>4, <2>1 DEF Archive
<1> QED
  BY <1>3, <1>4

\* create_backup adds one archive.
LEMMA ListEffect ==
  ASSUME Inv, NEW p \in Process, List(p)
  PROVE  /\ Len(archives) \in Nat
         /\ Len(archives) + 1 \notin DOMAIN archives
         /\ DOMAIN archives' = DOMAIN archives \cup {Len(archives) + 1}
         /\ \A i \in DOMAIN archives : archives'[i] = archives[i]
         /\ archives'[Len(archives) + 1].db = job[p].dump
         /\ archives'[Len(archives) + 1].sound = FALSE
         /\ job'[p].slot = Len(archives) + 1
<1> DEFINE e == [home |-> live, label |-> job[p].label, db |-> job[p].dump, arts |-> {},
                 sound |-> FALSE, status |-> "torn"]
<1>1. job[p].home = live /\ live \in Home /\ job[p] \in Job
  BY DEF Inv, TypeOK, JobInv, Placed, Active, List, At
<1>2. archives' = Append(archives, e) /\ archives \in Seq(Archive)
  BY <1>1 DEF List, Inv, TypeOK
<1>3. e \in Archive
  BY <1>1 DEF Archive, Job
<1>4. job'[p].slot = Len(archives) + 1
  BY <1>1 DEF List, Inv, TypeOK, Job
<1> HIDE DEF e
<1>5. /\ DOMAIN archives = 1..Len(archives) /\ Len(archives) \in Nat
      /\ DOMAIN archives' = 1..Len(archives) + 1
      /\ \A i \in DOMAIN archives : archives'[i] = archives[i]
      /\ archives'[Len(archives) + 1] = e
  BY <1>2, <1>3, SeqFacts
<1>6. e.db = job[p].dump /\ e.sound = FALSE
  BY DEF e
<1> QED
  BY <1>4, <1>5, <1>6

\* No archive changes its home, its label or its database.
LEMMA Keeps ==
  ASSUME Inv, Next
  PROVE  ArchivesKept
<1>1. CASE archives' = archives
  BY <1>1 DEF ArchivesKept, Kept
<1>2. ASSUME NEW p \in Process, List(p)
      PROVE  ArchivesKept
  BY <1>2, ListEffect DEF ArchivesKept, Kept
<1>3. ASSUME NEW p \in Process, NEW S, Pack(p, S) \/ PackFails(p, S)
      PROVE  ArchivesKept
  BY <1>3, PackEffect DEF ArchivesKept, Kept
<1> QED
  BY <1>1, <1>2, <1>3 DEF Next, Work, Migrate, Apply, ApplyFails, Dump, Kill,
     StartServer, FinishPut, BackUp, Put, Cite, StartUpdate, Point, Record, Switch, Rollback, RollbackDies, Upgrade

-----------------------------------------------------------------------------
(* The invariant of each process                                           *)

\* All that JobInv reads of a job.
SameJob(q) ==
  /\ job'[q].at = job[q].at
  /\ job'[q].home = job[q].home
  /\ job'[q].label = job[q].label
  /\ job'[q].pending = job[q].pending
  /\ job'[q].dump = job[q].dump
  /\ job'[q].listed = job[q].listed
  /\ job'[q].slot = job[q].slot
  /\ job'[q].put = job[q].put
  /\ job'[q].backup = job[q].backup
  /\ job'[q].applied = job[q].applied

\* A process that another one's step leaves alone.
LEMMA Undisturbed ==
  ASSUME Inv, TypeOK', HomeGrows, ArchivesKept, NEW q \in Process, SameJob(q),
         At(q, "PACK") => archives'[job[q].slot].status = "torn"
  PROVE  JobInv(q)'
<1>1. live \in Home /\ live' = live
  BY DEF Inv, TypeOK, HomeGrows
<1>2. Placed(q)'
  BY <1>1 DEF SameJob, HomeGrows, Inv, JobInv, Placed, Active, At
<1>3. Packing(q)'
  BY DEF SameJob, ArchivesKept, Kept, Inv, JobInv, Packing, At
<1>4. Copying(q)'
  BY <1>1 DEF SameJob, HomeGrows, Inv, JobInv, Copying, At
<1>5. Dumped(q)'
  <2>1. ASSUME job[q].at \in {"LIST", "PACK"}
        PROVE  AtMost(job[q].dump, home'[live].db)
    <3>1. home[live].db \in Db /\ home'[live].db \in Db /\ job[q].dump \in Db
      BY <1>1, <2>1, HomeTyped DEF Inv, TypeOK, JobInv, Placed, Opened, HomeGrows, Content, Job
    <3>2. AtMost(job[q].dump, home[live].db) /\ AtMost(home[live].db, home'[live].db)
      BY <2>1, <3>1, DataHomeAssumption
      DEF Inv, JobInv, Dumped, HomeGrows, Db, Version, Placed, Opened
    <3> QED
      BY <3>1, <3>2 DEF AtMost, Db
  <2> QED
    BY <1>1, <2>1 DEF SameJob, Inv, JobInv, Dumped, InOrder
<1>6. Pending(q)'
  <2>1. ASSUME job[q].at \in Before, NEW v \in Version, home[live].db.ran[v] >= 1
        PROVE  home'[live].db.ran[v] >= 1
    <3>1. home[live].db \in Db /\ home'[live].db \in Db
      BY <1>1, <2>1, HomeTyped DEF Inv, TypeOK, JobInv, Placed, Opened, Before, HomeGrows, Content
    <3>2. AtMost(home[live].db, home'[live].db)
      BY <2>1 DEF Inv, JobInv, HomeGrows, Placed, Opened, Before
    <3> QED
      BY <2>1, <3>1, <3>2 DEF AtMost, Db
  <2> QED
    BY <1>1, <2>1 DEF SameJob, Inv, JobInv, Pending
<1> QED
  BY <1>2, <1>3, <1>4, <1>5, <1>6 DEF JobInv

\* A process that starts, ends or fails: nothing is under way.
LEMMA AtRest ==
  ASSUME Inv, TypeOK', NEW q \in Process, NEW at \in {"DOWN", "UP", "IDLE", "MIGRATE", "RECORD", "DONE"},
         job'[q].at = at, job'[q].label # "pre_update",
         q = Server => at \in {"DOWN", "UP", "MIGRATE"},
         q = Update => at \in {"IDLE", "MIGRATE", "RECORD", "DONE"},
         at \in {"UP", "MIGRATE", "RECORD"} => job'[q].home = live',
         at = "RECORD" => home'[live'].db # None,
         at = "UP" => job'[q].pending = {}
  PROVE  JobInv(q)'
BY DEF JobInv, Placed, Packing, Copying, Dumped, Pending, Active, Opened, Before, At

\* What run_migrations leaves pending is closed under older versions.
LEMMA MigrateActs ==
  ASSUME Inv, TypeOK', NEW p \in Process, Migrate(p)
  PROVE  JobInv(p)'
<1> DEFINE db == IF home[live].db # None THEN home[live].db ELSE EmptyDb
           pending == {v \in 1..code : db.ran[v] = 0}
<1>1. /\ job[p].home = live /\ live \in Home /\ home \in [Home -> Content] /\ code \in Version
      /\ live' = live /\ job \in [Process -> Job]
  BY DEF Inv, TypeOK, JobInv, Placed, Active, Migrate, At
<1>2. home' = [home EXCEPT ![live].db = db]
  BY <1>1 DEF Migrate
<1>3. db \in Db /\ home'[live].db = db /\ db # None
  BY <1>1, <1>2, DataHomeAssumption DEF Content, Db, EmptyDb, Version
<1>4. CASE pending = {}
  <2>1. job'[p] = Migrated(p)
    BY <1>1, <1>4 DEF Migrate
  <2> QED
    BY <1>1, <1>3, <2>1, AtRest DEF Migrated, Doing, Process, Server, Update
<1>5. CASE pending # {}
  <2>1. job'[p] = [Doing(IF home[live].db # None THEN "DUMP" ELSE "APPLY", live) EXCEPT
                     !.label = "pre_migration", !.pending = pending, !.backup = job[p].backup]
    BY <1>1, <1>5 DEF Migrate
  <2>2. /\ job'[p].at \in {"DUMP", "APPLY"} /\ job'[p].home = live
        /\ job'[p].label = "pre_migration" /\ job'[p].pending = pending
    BY <2>1 DEF Doing
  <2>3. \A v, w \in Version : v < w /\ w \in pending => v \in pending \/ db.ran[v] >= 1
    BY <1>1, <1>3, DataHomeAssumption DEF Db, Version
  <2> HIDE DEF db, pending
  <2> QED
    BY <1>1, <1>3, <2>2, <2>3
    DEF JobInv, Placed, Packing, Copying, Dumped, Pending, Active, Opened, Before, At
<1> QED
  BY <1>4, <1>5

\* After its migrations p does what they were for.
LEMMA ApplyActs ==
  ASSUME Inv, TypeOK', HomeGrows, NEW p \in Process, Apply(p)
  PROVE  JobInv(p)'
<1>1. job[p].home = live /\ home'[live].db # None /\ live' = live
  BY DEF Inv, JobInv, Placed, Active, Opened, Apply, At, HomeGrows
<1>2. job'[p] = [Migrated(p) EXCEPT !.applied = job[p].pending]
  BY DEF Apply, Inv, TypeOK
<1>3. /\ job'[p].at = IF p = Server THEN "UP" ELSE "RECORD"
      /\ job'[p].home = live /\ job'[p].label = "manual" /\ job'[p].pending = {}
  BY <1>1, <1>2 DEF Migrated, Doing
<1> QED
  BY <1>1, <1>3, AtRest DEF Process, Server, Update

\* A process that failed is at rest.
LEMMA FailActs ==
  ASSUME Inv, TypeOK', live' = live, NEW p \in Process, Active(p), Fail(p)
  PROVE  JobInv(p)'
<1>1. job[p].home = live
  BY DEF Inv, JobInv, Placed
<1>2. job'[p] = Doing(Rest(p), live)
  BY <1>1 DEF Fail, Inv, TypeOK
<1> QED
  BY <1>2, AtRest DEF Doing, Rest, Process, Server, Update

\* The copy of the database is in order and no newer than the database.
LEMMA DumpActs ==
  ASSUME Inv, TypeOK', NEW p \in Process, Dump(p)
  PROVE  JobInv(p)'
<1>1. /\ job[p].home = live /\ live \in Home /\ live' = live /\ home' = home /\ home[live].db \in Db
      /\ job \in [Process -> Job]
  BY HomeTyped DEF Inv, TypeOK, JobInv, Placed, Active, Opened, Dump, At
<1>2. job'[p] = [job[p] EXCEPT !.at = "LIST", !.dump = home[live].db]
  BY <1>1 DEF Dump
<1>3. /\ job'[p].at = "LIST" /\ job'[p].dump = home[live].db
      /\ job'[p].home = live /\ job'[p].label = job[p].label /\ job'[p].pending = job[p].pending
  BY <1>1, <1>2 DEF Job
<1>4. InOrder(home[live].db) /\ AtMost(home[live].db, home[live].db)
  BY <1>1 DEF Inv, MigratedOnce, AtMost, Db
<1>5. home[live].sound => home[live].db.cites \subseteq home[live].arts
  BY <1>1, DataHomeAssumption DEF Inv, ArchiveClosed, Closed, Db, Version
<1>6. Placed(p)'
  BY <1>1, <1>3, DataHomeAssumption DEF Inv, JobInv, Placed, Active, Opened, Dump, At, Db, Version
<1>7. Packing(p)' /\ Copying(p)'
  BY <1>1, <1>3, <1>5 DEF Packing, Copying, At
<1>8. Dumped(p)'
  BY <1>1, <1>3, <1>4 DEF Dumped, InOrder, AtMost
<1>9. Pending(p)'
  BY <1>1, <1>3 DEF Inv, JobInv, Pending, Before, Dump, At
<1> QED
  BY <1>6, <1>7, <1>8, <1>9 DEF JobInv

\* The list of artifacts covers what the copy cites.
LEMMA ListActs ==
  ASSUME Inv, TypeOK', NEW p \in Process, List(p)
  PROVE  JobInv(p)'
<1> DEFINE e == [home |-> live, label |-> job[p].label, db |-> job[p].dump, arts |-> {},
                 sound |-> FALSE, status |-> "torn"]
<1>1. /\ job[p].home = live /\ live \in Home /\ live' = live /\ home' = home
      /\ job \in [Process -> Job]
  BY DEF Inv, TypeOK, JobInv, Placed, Active, List, At
<1>2. archives' = Append(archives, e)
  BY <1>1 DEF List
<1>3. e \in Archive
  BY <1>1 DEF Archive, Job
<1>4. Len(archives) + 1 \in DOMAIN archives' /\ archives'[Len(archives) + 1] = e
  BY <1>2, <1>3, SeqFacts DEF Inv, TypeOK
<1>5. /\ job'[p].at = "PACK" /\ job'[p].slot = Len(archives) + 1 /\ job'[p].listed = home[live].arts
      /\ job'[p].home = live /\ job'[p].label = job[p].label /\ job'[p].pending = job[p].pending
      /\ job'[p].dump = job[p].dump
  BY <1>1 DEF List, Job
<1>6. Placed(p)'
  BY <1>1, <1>5 DEF Inv, JobInv, Placed, Active, Opened, List, At
<1>7. Packing(p)'
  BY <1>4, <1>5 DEF Packing, At
<1>8. Copying(p)' /\ Dumped(p)' /\ Pending(p)'
  BY <1>1, <1>5 DEF Inv, JobInv, Copying, Dumped, Pending, List, At, Before
<1> QED
  BY <1>6, <1>7, <1>8 DEF JobInv

\* After its archive p does what it was for.
LEMMA PackActs ==
  ASSUME Inv, TypeOK', NEW p \in Process, NEW S, Pack(p, S)
  PROVE  JobInv(p)'
<1>1. /\ job[p].home = live /\ live' = live /\ home' = home
      /\ home[live].db # None /\ job[p].label \in Label /\ job'[p] = After(p)
  BY DEF Inv, TypeOK, JobInv, Placed, Active, Opened, Pack, At, Job
<1>2. CASE job[p].label = "manual"
  BY <1>1, <1>2, AtRest DEF After, Doing, Inv, JobInv, Placed, Pack, At, Process, Server, Update
<1>3. CASE job[p].label = "pre_update"
  <2>1. job'[p].at = "POINT" /\ job'[p].home = live /\ p # Server
    BY <1>1, <1>3 DEF After, Doing, Inv, JobInv, Placed
  <2> QED
    BY <1>1, <2>1
    DEF JobInv, Placed, Packing, Copying, Dumped, Pending, Active, Opened, Before, At
<1>4. CASE job[p].label = "pre_migration"
  <2>1. /\ job'[p].at = "APPLY" /\ job'[p].home = live /\ job'[p].pending = job[p].pending
        /\ job'[p].label = "manual"
    BY <1>1, <1>4 DEF After, Doing
  <2>2. Pending(p)'
    BY <1>1, <2>1 DEF Inv, JobInv, Pending, Pack, At, Before
  <2> QED
    BY <1>1, <2>1, <2>2 DEF JobInv, Placed, Packing, Copying, Dumped, Active, Opened, At
<1> QED
  BY <1>1, <1>2, <1>3, <1>4 DEF Label

\* A killed process is at rest.
LEMMA KillActs ==
  ASSUME Inv, TypeOK', NEW p \in Process, Kill(p)
  PROVE  JobInv(p)'
<1>1. job'[p] = Doing(IF p = Server THEN "DOWN" ELSE "IDLE", job[p].home)
  BY DEF Kill, Inv, TypeOK
<1> QED
  BY <1>1, AtRest DEF Doing, Process, Server, Update

\* A put has something to put.
LEMMA PutActs ==
  ASSUME Inv, TypeOK', NEW a \in Artifact, Put(a)
  PROVE  JobInv(Server)'
<1>1. /\ job[Server].home = live /\ live' = live /\ home' = home /\ job \in [Process -> Job]
  BY DEF Inv, TypeOK, JobInv, Placed, Active, Put, At, Process
<1>2. /\ job'[Server].at = "PUT" /\ job'[Server].put = a /\ job'[Server].home = live
      /\ job'[Server].label = job[Server].label
  BY <1>1 DEF Put, Process, Job, Server, Update
<1>3. Placed(Server)'
  BY <1>1, <1>2 DEF Inv, JobInv, Placed, Active, Opened, At, Process, Server, Update
<1> QED
  BY <1>2, <1>3 DEF JobInv, Packing, Copying, Dumped, Pending, Before, At

\* A backup of the server has no migrations pending.
LEMMA BackUpActs ==
  ASSUME Inv, TypeOK', BackUp
  PROVE  JobInv(Server)'
<1>1. /\ job[Server].home = live /\ live' = live /\ home' = home /\ job \in [Process -> Job]
      /\ home[live].db # None
  BY DEF Inv, TypeOK, JobInv, Placed, Active, BackUp, At, Process
<1>2. /\ job'[Server].at = "DUMP" /\ job'[Server].home = live
      /\ job'[Server].label = job[Server].label /\ job'[Server].pending = job[Server].pending
  BY <1>1 DEF BackUp, Go, Process, Job
<1>3. job[Server].pending = {} /\ job[Server].label # "pre_update"
  BY DEF Inv, JobInv, Placed, BackUp, At, Process
<1>4. Placed(Server)'
  BY <1>1, <1>2, <1>3 DEF Placed, Active, Opened, At, Server, Update
<1>5. Pending(Server)'
  BY <1>2, <1>3 DEF Pending
<1> QED
  BY <1>2, <1>4, <1>5 DEF JobInv, Packing, Copying, Dumped, At

\* Start-up works on the live home.
LEMMA StartServerActs ==
  ASSUME Inv, TypeOK', StartServer
  PROVE  JobInv(Server)'
<1>1. job'[Server] = Doing("MIGRATE", live) /\ live' = live
  BY DEF StartServer, Inv, TypeOK, Process
<1> QED
  BY <1>1, AtRest DEF Doing, Process, Server, Update

\* The server is up again after a put.
LEMMA FinishPutActs ==
  ASSUME Inv, TypeOK', FinishPut
  PROVE  JobInv(Server)'
<1>1. job[Server].home = live /\ live' = live
  BY DEF Inv, JobInv, Placed, Active, FinishPut, At, Process
<1>2. job'[Server] = Doing("UP", live)
  BY <1>1 DEF FinishPut, Inv, TypeOK, Process, Server, Update
<1> QED
  BY <1>1, <1>2, AtRest DEF Doing, Process, Server, Update

\* An update starts with its backup.
LEMMA StartUpdateActs ==
  ASSUME Inv, TypeOK', StartUpdate
  PROVE  JobInv(Update)'
<1>1. /\ live' = live /\ home' = home /\ home[live].db # None
      /\ job'[Update] = [Doing("DUMP", live) EXCEPT !.label = "pre_update"]
  BY DEF StartUpdate, Inv, TypeOK, Process
<1>2. /\ job'[Update].at = "DUMP" /\ job'[Update].home = live /\ job'[Update].pending = {}
      /\ job'[Update].label = "pre_update"
  BY <1>1 DEF Doing
<1> QED
  BY <1>1, <1>2
  DEF JobInv, Placed, Packing, Copying, Dumped, Pending, Active, Opened, Before, At, Server, Update

\* The update tool migrates the live home.
LEMMA PointActs ==
  ASSUME Inv, TypeOK', Point
  PROVE  JobInv(Update)'
<1>1. job[Update].home = live /\ live' = live
  BY DEF Inv, JobInv, Placed, Active, Point, At, Process
<1>2. job'[Update] = [Doing("MIGRATE", live) EXCEPT !.backup = job[Update].slot]
  BY <1>1 DEF Point, Inv, TypeOK, Process
<1>3. job'[Update].at = "MIGRATE" /\ job'[Update].home = live /\ job'[Update].label = "manual"
  BY <1>2 DEF Doing
<1> QED
  BY <1>1, <1>3, AtRest DEF Process, Server, Update

\* An update that is done holds nothing.
LEMMA RecordActs ==
  ASSUME Inv, TypeOK', Record
  PROVE  JobInv(Update)'
<1>1. job' = [job EXCEPT ![Update].at = "DONE"] /\ job[Update] \in Job
  BY DEF Record, Go, Inv, TypeOK, Process
<1>2. job'[Update].at = "DONE"
  BY <1>1 DEF Inv, TypeOK, Process, Job
<1> QED
  BY <1>2
  DEF JobInv, Placed, Packing, Copying, Dumped, Pending, Active, Opened, Before, At, Server,
      Update

\* The live home changes when nothing runs.
LEMMA SwitchActs ==
  ASSUME Inv, TypeOK', NEW h \in Home, Switch(h)
  PROVE  \A p \in Process : JobInv(p)'
<1>1. job' = job /\ \A p \in Process : job[p].at \in {"DOWN", "IDLE", "DONE"}
  BY DEF Switch, At, Process
<1> QED
  BY <1>1 DEF Inv, JobInv, Placed, Packing, Copying, Dumped, Pending, Active, Opened, Before, At

\* What a step of p leaves to another process.
LEMMA WorkLeavesOthers ==
  ASSUME Inv, NEW p \in Process, Work(p), NEW q \in Process, q # p
  PROVE  SameJob(q) /\ (At(q, "PACK") => archives'[job[q].slot].status = "torn")
<1>1. job'[q] = job[q]
  BY DEF Work, Migrate, Apply, ApplyFails, Fail, Dump, List, Pack, PackFails, Kill, Inv, TypeOK
<1>2. ASSUME At(q, "PACK")
      PROVE  archives'[job[q].slot].status = "torn"
  <2>1. job[q].slot \in DOMAIN archives /\ archives[job[q].slot].status = "torn"
    BY <1>2 DEF Inv, JobInv, Packing
  <2>2. CASE archives' = archives
    BY <2>1, <2>2
  <2>3. CASE List(p)
    BY <2>1, <2>3, SeqFacts DEF List, Inv, TypeOK
  <2>4. CASE \E S : Pack(p, S) \/ PackFails(p, S)
    <3>1. job[p].slot # job[q].slot
      BY <1>2, <2>4 DEF Pack, PackFails, Inv, Apart, Process
    <3> QED
      BY <2>1, <2>4, <3>1 DEF Pack, PackFails, Inv, TypeOK
  <2> QED
    BY <2>2, <2>3, <2>4 DEF Work, Migrate, Apply, ApplyFails, Dump, Kill
<1> QED
  BY <1>1, <1>2 DEF SameJob

\* Neither migrations nor a backup are followed by a backup.
LEMMA MigratedAfter ==
  ASSUME TypeOK, NEW p \in Process
  PROVE  Migrated(p).at \in {"UP", "RECORD"} /\ After(p).at \in {"UP", "POINT", "APPLY"}
<1>1. job[p].label \in Label
  BY DEF TypeOK, Job
<1> QED
  BY <1>1 DEF Migrated, After, Doing, Label

\* Every step of p keeps the invariant of p.
LEMMA WorkActs ==
  ASSUME Inv, TypeOK', HomeGrows, NEW p \in Process, Work(p)
  PROVE  JobInv(p)'
<1>1. CASE Migrate(p) \/ Apply(p) \/ Dump(p) \/ List(p) \/ Kill(p) \/ \E S : Pack(p, S)
  BY <1>1, MigrateActs, ApplyActs, DumpActs, ListActs, KillActs, PackActs
<1>2. CASE ApplyFails(p) \/ \E S : PackFails(p, S)
  <2>1. Fail(p) /\ Active(p) /\ live' = live
    BY <1>2 DEF ApplyFails, PackFails, Active, At
  <2> QED
    BY <2>1, FailActs
<1> QED
  BY <1>1, <1>2 DEF Work

\* The server's own steps leave the update tool's job as it was.
LEMMA ServerLeavesUpdate ==
  ASSUME Inv, StartServer \/ BackUp \/ FinishPut \/ \E a \in Artifact : Put(a)
  PROVE  SameJob(Update) /\ (At(Update, "PACK") => archives'[job[Update].slot].status = "torn")
<1>1. archives' = archives /\ job \in [Process -> Job] /\ JobInv(Update)
  BY DEF StartServer, BackUp, FinishPut, Put, Inv, TypeOK, Process
<1>2. ASSUME StartServer \/ BackUp
      PROVE  SameJob(Update)
  <2>1. job'[Update] = job[Update]
    BY <1>1, <1>2 DEF StartServer, BackUp, Go, Process, Server, Update
  <2> QED
    BY <2>1 DEF SameJob
<1>3. ASSUME FinishPut \/ \E a \in Artifact : Put(a)
      PROVE  SameJob(Update)
  <2>1. job[Update] \in Job
    BY <1>1 DEF Process
  <2>2. PICK seen : job'[Update] = [job[Update] EXCEPT !.seen = seen]
    <3>1. CASE FinishPut
      BY <1>1, <3>1 DEF FinishPut, Process, Server, Update
    <3>2. CASE \E a \in Artifact : Put(a)
      BY <1>1, <3>2 DEF Put, Process, Server, Update
    <3> QED
      BY <1>3, <3>1, <3>2
  <2> QED
    BY <2>1, <2>2 DEF SameJob, Job
<1>4. SameJob(Update)
  BY <1>2, <1>3
<1> QED
  BY <1>1, <1>4 DEF JobInv, Packing

\* The update tool's own steps leave the server's job as it was.
LEMMA UpdateLeavesServer ==
  ASSUME Inv, StartUpdate \/ Point \/ Record
  PROVE  SameJob(Server) /\ (At(Server, "PACK") => archives'[job[Server].slot].status = "torn")
<1>1. archives' = archives /\ job \in [Process -> Job] /\ JobInv(Server)
  BY DEF StartUpdate, Point, Record, Inv, TypeOK, Process
<1>2. SameJob(Server)
  BY <1>1 DEF StartUpdate, Point, Record, Go, SameJob, Process, Server, Update
<1> QED
  BY <1>1, <1>2 DEF JobInv, Packing

\* Every step keeps the invariant of both processes.
LEMMA JobsStep ==
  ASSUME Inv, TypeOK', Next
  PROVE  \A p \in Process : JobInv(p)'
<1>1. CASE \E h \in Home : Switch(h)
  BY <1>1, SwitchActs
<1>2. CASE ~\E h \in Home : Switch(h)
  <2>1. HomeGrows /\ ArchivesKept
    BY <1>2, Grows, Keeps
  <2>2. CASE \E p \in Process : Work(p)
    BY <2>1, <2>2, WorkActs, WorkLeavesOthers, Undisturbed
  <2>3. CASE StartServer \/ BackUp \/ FinishPut \/ \E a \in Artifact : Put(a)
    <3>1. JobInv(Server)'
      BY <2>3, StartServerActs, BackUpActs, FinishPutActs, PutActs
    <3>2. JobInv(Update)'
      BY <2>1, <2>3, ServerLeavesUpdate, Undisturbed DEF Process
    <3> QED
      BY <3>1, <3>2 DEF Process
  <2>4. CASE StartUpdate \/ Point \/ Record
    <3>1. JobInv(Update)'
      BY <2>4, StartUpdateActs, PointActs, RecordActs
    <3>2. JobInv(Server)'
      BY <2>1, <2>4, UpdateLeavesServer, Undisturbed DEF Process
    <3> QED
      BY <3>1, <3>2 DEF Process
  <2>5. CASE job' = job /\ archives' = archives
    BY <2>1, <2>5, Undisturbed DEF SameJob, Inv, JobInv, Packing
  <2> QED
    BY <1>2, <2>2, <2>3, <2>4, <2>5 DEF Next, Cite, Rollback, RollbackDies, Upgrade
<1> QED
  BY <1>1, <1>2

-----------------------------------------------------------------------------
(* What is shared                                                          *)

\* Two processes never write to one archive: each begins its own.
LEMMA ApartStep ==
  ASSUME Inv, Next
  PROVE  Apart'
<1>1. ASSUME NEW p \in Process, NEW q \in Process, q # p, List(p), job'[q].at = "PACK"
      PROVE  job'[p].slot # job'[q].slot
  <2>1. job'[q] = job[q] /\ job'[p].slot = Len(archives) + 1
    BY <1>1 DEF List, Inv, TypeOK, Job
  <2>2. job[q].slot \in DOMAIN archives /\ DOMAIN archives = 1..Len(archives) /\ Len(archives) \in Nat
    BY <1>1, <2>1, SeqFacts DEF Inv, TypeOK, JobInv, Packing, At
  <2> QED
    BY <2>1, <2>2
<1>2. CASE \E p \in Process : List(p)
  BY <1>1, <1>2 DEF Apart, At, Process, Server, Update
<1>3. ASSUME NEW q \in Process, job'[q].at = "PACK", ~List(q)
      PROVE  At(q, "PACK") /\ job'[q].slot = job[q].slot
  <2>1. job[q] \in Job /\ job \in [Process -> Job]
    BY DEF Inv, TypeOK
  <2>2. CASE Work(q)
    <3>1. ASSUME Migrate(q)
          PROVE  job'[q].at # "PACK"
      BY <2>1, <3>1, MigratedAfter DEF Migrate, Doing, Inv
    <3>2. ASSUME Apply(q)
          PROVE  job'[q].at # "PACK"
      <4>1. Migrated(q) \in Job /\ Migrated(q).at # "PACK"
        BY MigratedTyped, MigratedAfter DEF Inv
      <4>2. job'[q] = [Migrated(q) EXCEPT !.applied = job[q].pending]
        BY <2>1, <3>2 DEF Apply
      <4> QED
        BY <4>1, <4>2 DEF Job
    <3>3. ASSUME ApplyFails(q) \/ Kill(q) \/ \E S : PackFails(q, S)
          PROVE  job'[q].at # "PACK"
      <4>1. job'[q] = Doing(Rest(q), job[q].home) \/ job'[q] = Doing(IF q = Server THEN "DOWN" ELSE "IDLE", job[q].home)
        BY <2>1, <3>3 DEF ApplyFails, Kill, PackFails, Fail
      <4> QED
        BY <4>1 DEF Rest, Doing
    <3>4. ASSUME Dump(q)
          PROVE  job'[q].at # "PACK"
      BY <2>1, <3>4 DEF Dump, Job
    <3>5. ASSUME NEW S, Pack(q, S)
          PROVE  job'[q].at # "PACK"
      BY <2>1, <3>5, MigratedAfter DEF Pack, Inv
    <3> QED
      BY <1>3, <2>2, <3>1, <3>2, <3>3, <3>4, <3>5 DEF Work
  <2>3. CASE \E p \in Process : p # q /\ Work(p)
    BY <1>3, <2>3, WorkLeavesOthers DEF SameJob, At
  <2>4. CASE job' = job
    BY <1>3, <2>4 DEF At
  <2>5. CASE StartServer \/ FinishPut \/ BackUp \/ \E a \in Artifact : Put(a)
    <3>1. job'[Server].at \in {"MIGRATE", "UP", "DUMP", "PUT"}
      BY <2>5
      DEF StartServer, FinishPut, BackUp, Put, Go, Doing, Inv, TypeOK, Process, Server, Update,
          Job
    <3> QED
      BY <1>3, <2>5, <3>1, ServerLeavesUpdate DEF SameJob, At, Process
  <2>6. CASE StartUpdate \/ Point \/ Record
    <3>1. job'[Update].at \in {"DUMP", "MIGRATE", "DONE"}
      BY <2>6 DEF StartUpdate, Point, Record, Go, Doing, Inv, TypeOK, Process, Server, Update, Job
    <3> QED
      BY <1>3, <2>6, <3>1, UpdateLeavesServer DEF SameJob, At, Process
  <2> QED
    BY <2>2, <2>3, <2>4, <2>5, <2>6 DEF Next, Cite, Switch, Rollback, RollbackDies, Upgrade
<1> QED
  BY <1>2, <1>3 DEF Apart, At, Inv, Process


\* Every step leaves sound homes and archives with all the artifacts they cite.
LEMMA ArchiveClosedStep ==
  ASSUME Inv, TypeOK', Next
  PROVE  ArchiveClosed'
<1> DEFINE HomesClosed == \A h \in Home : home[h].sound => Closed(home[h].db, home[h].arts)
           FilesClosed == \A i \in DOMAIN archives : archives[i].sound => Closed(archives[i].db, archives[i].arts)
<1>1. HomesClosed /\ FilesClosed
  BY DEF Inv, ArchiveClosed
<1>2. HomesClosed'
  <2>1. CASE home' = home
    BY <1>1, <2>1 DEF Closed
  <2>2. ASSUME NEW p \in Process, Migrate(p)
        PROVE  HomesClosed'
    BY <1>1, <2>2 DEF Migrate, Closed, EmptyDb, Inv, TypeOK, Content, Job
  <2>3. ASSUME NEW p \in Process, Apply(p)
        PROVE  HomesClosed'
    BY <1>1, <2>3, ApplyEffect, DataHomeAssumption DEF Closed, Db, Version
  <2>4. CASE FinishPut
    BY <1>1, <2>4 DEF FinishPut, Closed, Inv, TypeOK, Content
  <2>5. ASSUME NEW a \in Artifact, Cite(a)
        PROVE  HomesClosed'
    BY <1>1, <2>5, CiteEffect, DataHomeAssumption DEF Closed, Db, Version
  <2>6. ASSUME NEW h \in Home, NEW i \in DOMAIN archives,
               Rollback(h, i) \/ \E S \in SUBSET Artifact : RollbackDies(h, i, S)
        PROVE  HomesClosed'
    <3>1. ASSUME NEW g \in Home, home'[g].sound
          PROVE  Closed(home'[g].db, home'[g].arts)
      BY <1>1, <2>6, <3>1, RestoreEffect DEF Closed
    <3> QED
      BY <3>1 DEF Closed
  <2> QED
    BY <2>1, <2>2, <2>3, <2>4, <2>5, <2>6
    DEF Next, Work, ApplyFails, Dump, List, Pack, PackFails, Kill,
       StartServer, BackUp, Put, StartUpdate, Point, Record, Switch, Upgrade
<1>3. FilesClosed'
  <2>1. CASE archives' = archives
    BY <1>1, <2>1 DEF Closed
  <2>2. ASSUME NEW p \in Process, List(p)
        PROVE  FilesClosed'
    <3>1. ASSUME NEW i \in DOMAIN archives', archives'[i].sound
          PROVE  i \in DOMAIN archives /\ archives'[i] = archives[i]
      <4>1. archives'[Len(archives) + 1].sound = FALSE
        BY <2>2, ListEffect
      <4> QED
        BY <2>2, <3>1, <4>1, ListEffect
    <3> QED
      BY <1>1, <3>1 DEF Closed
  <2>3. ASSUME NEW p \in Process, NEW S, Pack(p, S) \/ PackFails(p, S)
        PROVE  FilesClosed'
    <3>1. archives[job[p].slot].db = job[p].dump
      BY <2>3 DEF Pack, PackFails, Inv, JobInv, Packing
    <3>2. home[live].sound => job[p].dump.cites \subseteq job[p].listed
      BY <2>3 DEF Pack, PackFails, Inv, JobInv, Copying
    <3>3. Pack(p, S) => job[p].listed \subseteq S
      BY DEF Pack
    <3>4. ASSUME NEW i \in DOMAIN archives', archives'[i].sound
          PROVE  Closed(archives'[i].db, archives'[i].arts)
      BY <1>1, <2>3, <3>1, <3>2, <3>3, <3>4, PackEffect DEF Closed
    <3> QED
      BY <3>4 DEF Closed
  <2> QED
    BY <2>1, <2>2, <2>3 DEF Next, Work, Migrate, Apply, ApplyFails, Dump, Kill,
       StartServer, FinishPut, BackUp, Put, Cite, StartUpdate, Point, Record, Switch, Rollback, RollbackDies, Upgrade
<1> QED
  BY <1>2, <1>3 DEF ArchiveClosed

\* Work on the live home leaves the others alone.
LEMMA OtherHomesStay ==
  ASSUME Inv, Next, NEW h \in Home, h # live,
         ~\E i \in DOMAIN archives : Rollback(h, i) \/ \E S \in SUBSET Artifact : RollbackDies(h, i, S)
  PROVE  home'[h] = home[h]
<1>1. \A p \in Process : Migrate(p) => job[p].home = live
  BY DEF Inv, JobInv, Placed, Active, Migrate, At
<1>2. FinishPut => job[Server].home = live
  BY DEF Inv, JobInv, Placed, Active, FinishPut, At, Process
<1>3. CASE \E p \in Process : Migrate(p) \/ Apply(p)
  <2>1. ASSUME NEW p \in Process, Migrate(p)
        PROVE  home'[h] = home[h]
    <3>1. job[p].home = live /\ home \in [Home -> Content]
      BY <1>1, <2>1 DEF Inv, TypeOK
    <3>2. home' = [home EXCEPT ![live].db = IF home[live].db # None THEN home[live].db ELSE EmptyDb]
      BY <2>1, <3>1 DEF Migrate
    <3> QED
      BY <3>1, <3>2
  <2> QED
    BY <1>3, <2>1, ApplyEffect
<1>4. CASE FinishPut \/ \E a \in Artifact : Cite(a)
  BY <1>2, <1>4, CiteEffect DEF FinishPut, Inv, TypeOK
<1>5. CASE \E g \in Home, i \in DOMAIN archives :
             Rollback(g, i) \/ \E S \in SUBSET Artifact : RollbackDies(g, i, S)
  BY <1>5, RestoreEffect
<1> QED
  BY <1>3, <1>4, <1>5 DEF Next, Work, ApplyFails, Dump, List, Pack, PackFails, Kill,
     StartServer, BackUp, Put, StartUpdate, Point, Record, Switch, Upgrade

\* An archive that is not being written does not change.
LEMMA ArchivesStay ==
  ASSUME Inv, Next, NEW i \in DOMAIN archives, archives[i].status # "torn"
  PROVE  i \in DOMAIN archives' /\ archives'[i] = archives[i]
<1>1. CASE \E p \in Process : List(p)
  BY <1>1, ListEffect
<1>2. CASE \E p \in Process : \E S \in SUBSET home[job[p].home].arts : Pack(p, S) \/ PackFails(p, S)
  BY <1>2, PackEffect
<1> QED
  BY <1>1, <1>2 DEF Next, Work, Migrate, Apply, ApplyFails, Dump, Kill,
     StartServer, FinishPut, BackUp, Put, Cite, StartUpdate, Point, Record, Switch, Rollback, RollbackDies, Upgrade

\* Migrations that nobody applied in between, and whose older ones all ran or are
\* pending, leave a database in order.
LEMMA ApplyInOrder ==
  ASSUME Inv, NEW p \in Process, Apply(p)
  PROVE  InOrder(home'[live].db)
<1> DEFINE pending == job[p].pending
           ran == home[live].db.ran
<1>1. \A v \in Version : /\ ran[v] \in Nat
                         /\ home'[live].db.ran[v] = IF v \in pending THEN ran[v] + 1 ELSE ran[v]
  BY ApplyEffect DEF Db
<1>2. \A v \in Version : v \in pending => ran[v] = 0
  BY ApplyEffect DEF Apply, Appliable
<1>3. \A v, w \in Version : v < w /\ w \in pending => v \in pending \/ ran[v] >= 1
  BY DEF Inv, JobInv, Pending, Apply, At, Before
<1>4. /\ \A v \in Version : ran[v] <= 1
      /\ \A v, w \in Version : v < w => ran[w] <= ran[v]
  BY ApplyEffect, DataHomeAssumption DEF Inv, MigratedOnce, InOrder, Db, Version
<1> HIDE DEF pending, ran
<1>5. \A v \in Version : home'[live].db.ran[v] <= 1
  BY <1>1, <1>2, <1>4
<1>6. \A v, w \in Version : v < w => home'[live].db.ran[w] <= home'[live].db.ran[v]
  BY <1>1, <1>2, <1>3, <1>4
<1> QED
  BY <1>5, <1>6 DEF InOrder

\* Every step leaves every database in order.
LEMMA MigratedOnceStep ==
  ASSUME Inv, Next
  PROVE  MigratedOnce'
<1>1. /\ \A h \in Home : InOrder(home[h].db)
      /\ \A i \in DOMAIN archives : InOrder(archives[i].db)
  BY DEF Inv, MigratedOnce
<1>2. ASSUME NEW h \in Home
      PROVE  InOrder(home'[h].db)
  <2>1. CASE home'[h] = home[h]
    BY <1>1, <2>1
  <2>2. ASSUME NEW p \in Process, Migrate(p)
        PROVE  InOrder(home'[h].db)
    <3>1. home'[h].db \in {home[h].db, EmptyDb}
      BY <2>2 DEF Migrate, Inv, TypeOK, Content, Job
    <3>2. InOrder(EmptyDb)
      BY DEF InOrder, EmptyDb, Version
    <3> QED
      BY <1>1, <3>1, <3>2
  <2>3. ASSUME NEW p \in Process, Apply(p)
        PROVE  InOrder(home'[h].db)
    BY <1>1, <2>3, ApplyEffect, ApplyInOrder
  <2>4. CASE FinishPut
    BY <1>1, <2>4 DEF FinishPut, Inv, TypeOK, Content
  <2>5. ASSUME NEW a \in Artifact, Cite(a)
        PROVE  InOrder(home'[h].db)
    <3>1. InOrder(home'[live].db)
      BY <1>1, <2>5, CiteEffect, DataHomeAssumption DEF InOrder, Db, Version
    <3> QED
      BY <1>1, <2>5, <3>1, CiteEffect
  <2>6. ASSUME NEW g \in Home, NEW i \in DOMAIN archives,
               Rollback(g, i) \/ \E S \in SUBSET Artifact : RollbackDies(g, i, S)
        PROVE  InOrder(home'[h].db)
    BY <1>1, <2>6, RestoreEffect
  <2> QED
    BY <2>1, <2>2, <2>3, <2>4, <2>5, <2>6
    DEF Next, Work, ApplyFails, Dump, List, Pack, PackFails, Kill,
       StartServer, BackUp, Put, StartUpdate, Point, Record, Switch, Upgrade
<1>3. ASSUME NEW i \in DOMAIN archives'
      PROVE  InOrder(archives'[i].db)
  <2>1. CASE \E p \in Process : List(p)
    <3>1. PICK p \in Process : List(p)
      BY <2>1
    <3>2. InOrder(job[p].dump)
      BY <3>1 DEF Inv, JobInv, Dumped, List, At
    <3> QED
      BY <1>1, <3>1, <3>2, ListEffect
  <2>2. CASE ~\E p \in Process : List(p)
    <3>1. DOMAIN archives' = DOMAIN archives
      BY <2>2, PackEffect DEF Next, Work, Migrate, Apply, ApplyFails, Dump, Kill,
         StartServer, FinishPut, BackUp, Put, Cite, StartUpdate, Point, Record, Switch, Rollback, RollbackDies, Upgrade
    <3> QED
      BY <1>1, <3>1, Keeps DEF ArchivesKept, Kept
  <2> QED
    BY <2>1, <2>2
<1> QED
  BY <1>2, <1>3 DEF MigratedOnce

\* Every step leaves restored homes as their archives are.
LEMMA RestoredStep ==
  ASSUME Inv, Next
  PROVE  Restored'
<1>1. /\ told[live] = 0 /\ told \in [Home -> Nat] /\ live \in Home
      /\ \A h \in Home : told[h] # 0 =>
           /\ told[h] \in DOMAIN archives
           /\ archives[told[h]].status # "torn"
           /\ home[h].db = archives[told[h]].db
           /\ home[h].arts = archives[told[h]].arts
  <2>1. DOMAIN archives = 1..Len(archives) /\ Len(archives) \in Nat
    BY SeqFacts DEF Inv, TypeOK
  <2> QED
    BY <2>1 DEF Inv, TypeOK, Restored, RestoredExactly
<1>2. \A h \in Home : told[h] # 0 =>
        archives'[told[h]] = archives[told[h]]
  BY <1>1, ArchivesStay
<1>3. CASE \E g \in Home : Switch(g)
  BY <1>1, <1>3 DEF Switch, Restored, RestoredExactly
<1>4. ASSUME NEW g \in Home, NEW i \in DOMAIN archives, Rollback(g, i)
      PROVE  Restored'
  <2>1. told' = [told EXCEPT ![g] = i] /\ archives' = archives
    BY <1>4 DEF Rollback
  <2> QED
    BY <1>1, <1>4, <2>1, RestoreEffect DEF Restored, RestoredExactly
<1>5. ASSUME NEW g \in Home, NEW i \in DOMAIN archives, NEW S \in SUBSET Artifact, RollbackDies(g, i, S)
      PROVE  Restored'
  <2>1. told[g] = 0
    <3>1. ASSUME NEW j \in DOMAIN archives
          PROVE  archives[j].db # None
      <4>1. archives[j] \in Archive
        BY DEF Inv, TypeOK
      <4> QED
        BY <4>1, DataHomeAssumption DEF Archive, Db, Version
    <3> QED
      BY <1>1, <1>5, <3>1 DEF RollbackDies, Restorable, Clean, Inv, TypeOK
  <2>2. told' = told /\ archives' = archives
    BY <1>5 DEF RollbackDies
  <2> QED
    BY <1>1, <1>5, <2>1, <2>2, RestoreEffect DEF Restored, RestoredExactly
<1>6. CASE ~ \/ \E g \in Home : Switch(g)
             \/ \E g \in Home, i \in DOMAIN archives :
                  Rollback(g, i) \/ \E S \in SUBSET Artifact : RollbackDies(g, i, S)
  <2>1. told' = told /\ live' = live
    BY <1>6 DEF Next, Work, Migrate, Apply, ApplyFails, Dump, List, Pack, PackFails, Kill,
       StartServer, FinishPut, BackUp, Put, Cite, StartUpdate, Point, Record, Upgrade
  <2>2. \A h \in Home : h # live => home'[h] = home[h]
    BY <1>6, OtherHomesStay
  <2> QED
    BY <1>1, <1>2, <2>1, <2>2 DEF Restored, RestoredExactly
<1> QED
  BY <1>3, <1>4, <1>5, <1>6

\* AtMost is transitive.
LEMMA AtMostTrans ==
  ASSUME NEW d1 \in Db, NEW d2 \in Db, NEW d3 \in Db, AtMost(d1, d2), AtMost(d2, d3)
  PROVE  AtMost(d1, d3)
BY DEF AtMost, Db

\* An archive that is no newer than the live home stays so.
LEMMA StillAtMost ==
  ASSUME Inv, TypeOK', HomeGrows, NEW d \in Db, home[live].db # None, AtMost(d, home[live].db)
  PROVE  AtMost(d, home'[live].db)
<1>1. home[live].db \in Db /\ home'[live].db \in Db
  BY HomeTyped DEF Inv, TypeOK, HomeGrows, Content
<1> QED
  BY <1>1, AtMostTrans DEF HomeGrows

\* Where the update tool does not act, its job and the pointer stay.
LEMMA ServerActs ==
  ASSUME Inv, Next, ~Work(Update), ~StartUpdate, ~Point, ~Record
  PROVE  SameJob(Update) /\ pointer' = pointer
<1>1. CASE Work(Server)
  <2>1. ~At(Server, "POINT")
    BY DEF Inv, JobInv, Placed, At, Process
  <2>2. pointer' = pointer
    BY <1>1, <2>1 DEF Work, Migrate, Apply, ApplyFails, Dump, List, Pack, PackFails, Kill
  <2> QED
    BY <1>1, <2>2, WorkLeavesOthers DEF Process, Server, Update
<1>2. CASE StartServer \/ BackUp \/ FinishPut \/ \E a \in Artifact : Put(a)
  BY <1>2, ServerLeavesUpdate DEF StartServer, BackUp, FinishPut, Put
<1>3. CASE job' = job /\ pointer' = pointer
  BY <1>3 DEF SameJob
<1> QED
  BY <1>1, <1>2, <1>3 DEF Next, Process, Cite, Switch, Rollback, RollbackDies, Upgrade

\* The update tool is about to point at a finished archive of its own.
LEMMA PointingStep ==
  ASSUME Inv, TypeOK', Next
  PROVE  Pointing'
<1> SUFFICES ASSUME job'[Update].at = "POINT"
             PROVE  /\ Finished(job[Update].slot)'
                    /\ AtMost(archives'[job'[Update].slot].db, home'[live'].db)
  BY DEF Pointing, At
<1>1. Update \in Process /\ Update # Server
  BY DEF Process, Server, Update
<1>2. ASSUME NEW S, Pack(Update, S)
      PROVE  /\ Finished(job[Update].slot)'
             /\ AtMost(archives'[job'[Update].slot].db, home'[live'].db)
  <2>1. /\ job'[Update] = After(Update) /\ home' = home /\ live' = live
        /\ archives[job[Update].slot].home = job[Update].home
        /\ archives[job[Update].slot].label = job[Update].label
        /\ archives[job[Update].slot].db = job[Update].dump
        /\ AtMost(job[Update].dump, home[live].db)
        /\ job[Update].label \in Label
    BY <1>1, <1>2 DEF Pack, Inv, TypeOK, JobInv, Packing, Dumped, At, Job
  <2>2. /\ job[Update].label = "pre_update" /\ job'[Update].slot = job[Update].slot
        /\ job'[Update].home = job[Update].home
    BY <2>1 DEF After, Doing, Label
  <2> QED
    BY <1>1, <1>2, <2>1, <2>2, PackEffect DEF Finished
<1>3. ASSUME SameJob(Update)
      PROVE  /\ Finished(job[Update].slot)'
             /\ AtMost(archives'[job'[Update].slot].db, home'[live'].db)
  <2>1. /\ At(Update, "POINT") /\ Finished(job[Update].slot)
        /\ AtMost(archives[job[Update].slot].db, home[live].db)
        /\ home[live].db # None
        /\ job'[Update].slot = job[Update].slot /\ job'[Update].home = job[Update].home
    BY <1>1, <1>3 DEF SameJob, Inv, Pointing, JobInv, Placed, Opened, At
  <2>2. job[Update].slot \in DOMAIN archives' /\ archives'[job[Update].slot] = archives[job[Update].slot]
    BY <2>1, ArchivesStay DEF Finished
  <2>3. ~\E h \in Home : Switch(h)
    BY <2>1 DEF Switch, At
  <2>4. HomeGrows /\ live' = live
    BY <2>3, Grows DEF HomeGrows
  <2>5. archives[job[Update].slot].db \in Db
    <3>1. archives[job[Update].slot] \in Archive
      BY <2>1 DEF Finished, Inv, TypeOK
    <3> QED
      BY <3>1 DEF Archive
  <2> QED
    BY <2>1, <2>2, <2>4, <2>5, StillAtMost DEF Finished
<1>4. ASSUME Work(Update)
      PROVE  \E S : Pack(Update, S)
  <2>1. job[Update] \in Job /\ job \in [Process -> Job]
    BY <1>1 DEF Inv, TypeOK
  <2>2. ~Migrate(Update)
    <3>1. Migrated(Update).at # "POINT"
      BY <1>1, MigratedAfter DEF Inv
    <3>2. ASSUME Migrate(Update)
          PROVE  job'[Update] = Migrated(Update) \/ job'[Update].at \in {"DUMP", "APPLY"}
      BY <1>1, <2>1, <3>2 DEF Migrate, Doing
    <3> QED
      BY <3>1, <3>2
  <2>3. ~Apply(Update)
    <3>1. Migrated(Update) \in Job /\ Migrated(Update).at = "RECORD"
      BY <1>1, MigratedTyped DEF Inv, Migrated, Doing
    <3> QED
      BY <1>1, <2>1, <3>1 DEF Apply, Job
  <2>4. ~Dump(Update) /\ ~List(Update)
    BY <1>1, <2>1 DEF Dump, List, Job
  <2>5. ~ApplyFails(Update) /\ ~Kill(Update) /\ ~\E S : PackFails(Update, S)
    <3>1. ASSUME ApplyFails(Update) \/ Kill(Update) \/ \E S : PackFails(Update, S)
          PROVE  job'[Update] = Doing("IDLE", job[Update].home)
      <4>1. Rest(Update) = "IDLE"
        BY <1>1 DEF Rest
      <4> QED
        BY <1>1, <2>1, <3>1, <4>1 DEF ApplyFails, Kill, PackFails, Fail
    <3> QED
      BY <3>1 DEF Doing
  <2> QED
    BY <1>4, <2>2, <2>3, <2>4, <2>5 DEF Work
<1>5. ~StartUpdate /\ ~Point /\ ~Record
  <2>1. job[Update] \in Job /\ job \in [Process -> Job]
    BY <1>1 DEF Inv, TypeOK
  <2> QED
    BY <1>1, <2>1 DEF StartUpdate, Point, Record, Go, Doing, Job
<1> QED
  BY <1>2, <1>3, <1>4, <1>5, ServerActs

\* What Undoing says of a job of the update tool, in the next state.
Undone ==
  /\ Finished(job[Update].backup)'
  /\ pointer'[job'[Update].home] = job'[Update].backup
  /\ \A v \in job'[Update].applied : archives'[job'[Update].backup].db.ran[v] = 0
  /\ Active(Update)' => /\ home'[live'].db # None
                         /\ AtMost(archives'[job'[Update].backup].db, home'[live'].db)

\* The archive of an update that is changing the home lasts.
LEMMA BackupLasts ==
  ASSUME Inv, TypeOK', Next, Changing
  PROVE  LET i == job[Update].backup IN
         /\ i \in DOMAIN archives' /\ archives'[i] = archives[i]
         /\ archives[i].home = job[Update].home
         /\ archives[i].label = "pre_update"
         /\ archives[i].status = "complete"
         /\ archives[i].db \in Db
         /\ pointer[job[Update].home] = i
         /\ Active(Update) /\ (~\E h \in Home : Switch(h)) =>
              AtMost(archives[i].db, home'[live].db) /\ live' = live /\ home'[live].db # None
<1> DEFINE i == job[Update].backup
<1>1. Finished(i) /\ pointer[job[Update].home] = i
  BY DEF Inv, Undoing
<1>2. i \in DOMAIN archives' /\ archives'[i] = archives[i]
  BY <1>1, ArchivesStay DEF Finished
<1>3. archives[i].db \in Db
  <2>1. archives[i] \in Archive
    BY <1>1 DEF Finished, Inv, TypeOK
  <2> QED
    BY <2>1 DEF Archive
<1>4. ASSUME Active(Update), ~\E h \in Home : Switch(h)
      PROVE  AtMost(archives[i].db, home'[live].db) /\ live' = live /\ home'[live].db # None
  <2>1. HomeGrows
    BY <1>4, Grows
  <2>2. home[live].db # None /\ AtMost(archives[i].db, home[live].db)
    BY <1>4 DEF Inv, Undoing
  <2> QED
    BY <1>3, <2>1, <2>2, StillAtMost DEF HomeGrows
<1> QED
  BY <1>1, <1>2, <1>3, <1>4 DEF Finished

\* The update goes on with the same archive, and what it applied so far.
LEMMA UpdateGoesOn ==
  ASSUME Inv, TypeOK', Next, Changing, ~\E h \in Home : Switch(h), pointer' = pointer,
         job'[Update].home = job[Update].home, job'[Update].backup = job[Update].backup,
         job'[Update].applied \in {{}, job[Update].applied}, Active(Update)' => Active(Update)
  PROVE  Undone
<1> DEFINE i == job[Update].backup
<1>1. \A v \in job[Update].applied : archives[i].db.ran[v] = 0
  BY DEF Inv, Undoing
<1>2. Finished(job[Update].backup)'
  BY BackupLasts DEF Finished
<1> QED
  BY <1>1, <1>2, BackupLasts DEF Undone

\* Pointing LEARNINGOS_HOME elsewhere leaves the old home its backup.
LEMMA SwitchUndoes ==
  ASSUME Inv, TypeOK', Next, Changing, NEW h \in Home, Switch(h)
  PROVE  Undone
<1>1. job' = job /\ pointer' = pointer /\ archives' = archives /\ ~Active(Update) /\ ~Active(Update)'
  BY DEF Switch, Active, At
<1> QED
  BY <1>1 DEF Undone, Inv, Undoing, Finished

\* What an update applies is not in its backup, which is no newer than the home was.
LEMMA ApplyUndoes ==
  ASSUME Inv, TypeOK', Next, Apply(Update)
  PROVE  Undone
<1> DEFINE i == job[Update].backup
<1>1. Update \in Process /\ Changing /\ Active(Update) /\ (~\E h \in Home : Switch(h)) /\ pointer' = pointer
  BY DEF Process, Apply, Changing, Active, At, Switch, Server, Update
<1>2. job'[Update] = [Migrated(Update) EXCEPT !.applied = job[Update].pending]
  BY <1>1 DEF Apply, Inv, TypeOK
<1>3. /\ job'[Update].home = job[Update].home /\ job'[Update].backup = i
      /\ job'[Update].applied = job[Update].pending
  BY <1>2 DEF Migrated, Doing, Server, Update
<1>4. ASSUME NEW v \in job[Update].pending
      PROVE  archives[i].db.ran[v] = 0
  <2>1. v \in Version /\ home[live].db \in Db /\ job[Update].home = live
    BY <1>1, ApplyEffect DEF Inv, TypeOK, Job
  <2>2. home[live].db.ran[v] = 0
    BY <2>1 DEF Apply, Appliable
  <2>3. AtMost(archives[i].db, home[live].db) /\ archives[i].db \in Db
    BY <1>1, BackupLasts DEF Inv, Undoing
  <2> QED
    BY <2>1, <2>2, <2>3 DEF AtMost, Db
<1>5. Finished(job[Update].backup)'
  BY <1>1, <1>3, BackupLasts DEF Finished
<1> QED
  BY <1>1, <1>3, <1>4, <1>5, BackupLasts DEF Undone

\* From the pointer on, the backup of this update is the default.
LEMMA PointUndoes ==
  ASSUME Inv, TypeOK', Next, Point
  PROVE  Undone
<1> DEFINE i == job[Update].slot
<1>1. Update \in Process /\ At(Update, "POINT") /\ live' = live /\ archives' = archives /\ home' = home
  BY DEF Process, Point
<1>2. /\ Finished(i) /\ AtMost(archives[i].db, home[live].db)
      /\ job[Update].home = live /\ home[live].db # None
  BY <1>1 DEF Inv, Pointing, JobInv, Placed, Active, Opened, At
<1>3. job'[Update] = [Doing("MIGRATE", live) EXCEPT !.backup = i] /\ pointer' = [pointer EXCEPT ![live] = i]
  BY <1>1, <1>2 DEF Point, Inv, TypeOK
<1>4. job'[Update].home = live /\ job'[Update].backup = i /\ job'[Update].applied = {}
  BY <1>3 DEF Doing
<1> QED
  BY <1>1, <1>2, <1>3, <1>4 DEF Undone, Finished, Inv, TypeOK

\* Every step leaves a changing update with its backup.
LEMMA UndoingStep ==
  ASSUME Inv, TypeOK', Next
  PROVE  Undoing'
<1> SUFFICES ASSUME Changing'
             PROVE  Undone
  BY DEF Undoing, Undone
<1>1. Update \in Process /\ Update # Server /\ job[Update] \in Job /\ job \in [Process -> Job]
  BY DEF Process, Server, Update, Inv, TypeOK
<1>2. CASE \E h \in Home : Switch(h)
  <2>1. job' = job
    BY <1>2 DEF Switch
  <2>2. Changing
    BY <2>1 DEF Changing
  <2> QED
    BY <1>2, <2>2, SwitchUndoes
<1>3. CASE Apply(Update)
  BY <1>3, ApplyUndoes
<1>4. CASE Point
  BY <1>4, PointUndoes
<1>5. CASE SameJob(Update) /\ pointer' = pointer /\ ~\E h \in Home : Switch(h)
  <2>1. Changing /\ (Active(Update)' => Active(Update))
    BY <1>5 DEF Changing, SameJob, Active
  <2> QED
    BY <1>5, <2>1, UpdateGoesOn DEF SameJob
<1>6. CASE StartUpdate
  <2>1. job'[Update].at = "DUMP" /\ job'[Update].label = "pre_update"
    BY <1>1, <1>6 DEF StartUpdate, Doing
  <2> QED
    BY <2>1 DEF Changing
<1>7. CASE Record
  <2>1. Changing /\ (~\E h \in Home : Switch(h)) /\ pointer' = pointer
    BY <1>7 DEF Record, Changing, At, Switch
  <2>2. /\ job'[Update].home = job[Update].home /\ job'[Update].backup = job[Update].backup
        /\ job'[Update].applied = job[Update].applied /\ job'[Update].at = "DONE"
    BY <1>1, <1>7 DEF Record, Go, Job
  <2> QED
    BY <2>1, <2>2, UpdateGoesOn DEF Active
<1>8. ASSUME Migrate(Update)
      PROVE  Undone
  <2>1. Changing /\ Active(Update) /\ (~\E h \in Home : Switch(h)) /\ pointer' = pointer
    BY <1>8 DEF Migrate, Changing, Active, At, Switch
  <2>2. job'[Update].home = job[Update].home /\ job'[Update].backup = job[Update].backup /\ job'[Update].applied = {}
    BY <1>1, <1>8 DEF Migrate, Migrated, Doing
  <2> QED
    BY <2>1, <2>2, UpdateGoesOn
<1>9. ASSUME Dump(Update) \/ List(Update)
      PROVE  Undone
  <2>1. /\ job'[Update].home = job[Update].home /\ job'[Update].backup = job[Update].backup
        /\ job'[Update].applied = job[Update].applied /\ job'[Update].label = job[Update].label
        /\ job[Update].at \in {"DUMP", "LIST"} /\ job'[Update].at \in {"LIST", "PACK"}
    BY <1>1, <1>9 DEF Dump, List, Job, At
  <2>2. Changing /\ Active(Update) /\ (~\E h \in Home : Switch(h)) /\ pointer' = pointer
    BY <1>9, <2>1 DEF Dump, List, Changing, Active, At, Switch
  <2> QED
    BY <2>1, <2>2, UpdateGoesOn
<1>10. ASSUME NEW S, Pack(Update, S)
       PROVE  Undone
  <2>1. job'[Update] = After(Update) /\ job[Update].label \in Label /\ job[Update].label # "manual" /\ At(Update, "PACK")
    BY <1>1, <1>10 DEF Pack, Job, Inv, JobInv, Placed, At
  <2>2. job[Update].label = "pre_migration"
    BY <2>1 DEF After, Doing, Label, Changing
  <2>3. job'[Update].home = job[Update].home /\ job'[Update].backup = job[Update].backup /\ job'[Update].applied = {}
    BY <2>1, <2>2 DEF After, Doing
  <2>4. Changing /\ Active(Update) /\ (~\E h \in Home : Switch(h)) /\ pointer' = pointer
    BY <1>10, <2>1, <2>2 DEF Pack, Changing, Active, At, Switch
  <2> QED
    BY <2>3, <2>4, UpdateGoesOn
<1>11. ASSUME ApplyFails(Update) \/ Kill(Update) \/ \E S : PackFails(Update, S)
       PROVE  FALSE
  <2>1. job'[Update] = Doing("IDLE", job[Update].home)
    <3>1. Rest(Update) = "IDLE"
      BY <1>1 DEF Rest
    <3> QED
      BY <1>1, <1>11, <3>1 DEF ApplyFails, Kill, PackFails, Fail
  <2>2. job'[Update].at = "IDLE"
    BY <2>1 DEF Doing
  <2> QED
    BY <2>2 DEF Changing
<1> QED
  BY <1>2, <1>3, <1>4, <1>5, <1>6, <1>7, <1>8, <1>9, <1>10, <1>11, ServerActs DEF Work

-----------------------------------------------------------------------------
(* The theorems                                                            *)

\* An installation starts with an empty home and no archive.
LEMMA InitInv ==
  ASSUME Init
  PROVE  Inv
<1>1. TypeOK
  <2>1. NoContent \in Content
    BY DEF NoContent, Content
  <2>2. \A p \in Process : Doing(IF p = Server THEN "DOWN" ELSE "IDLE", First) \in Job
    BY DataHomeAssumption, DoingTyped DEF Place
  <2> QED
    BY <2>1, <2>2, DataHomeAssumption DEF Init, TypeOK, Version
<1>2. Restored /\ ArchiveClosed /\ MigratedOnce
  BY DataHomeAssumption
  DEF Init, Restored, RestoredExactly, ArchiveClosed, Closed, MigratedOnce, InOrder, NoContent
<1>3. \A p \in Process : job[p].at = (IF p = Server THEN "DOWN" ELSE "IDLE") /\ job[p].label = "manual"
  BY DEF Init, Doing
<1>4. Apart /\ Pointing /\ Undoing
  BY <1>3 DEF Apart, Pointing, Undoing, Changing, At, Process, Server, Update
<1>5. \A p \in Process : JobInv(p)
  BY <1>3
  DEF JobInv, Placed, Packing, Copying, Dumped, Pending, Active, Opened, Before, At, Process,
      Server, Update
<1> QED
  BY <1>1, <1>2, <1>4, <1>5 DEF Inv

\* The invariant is inductive.
LEMMA StepInv ==
  ASSUME Inv, [Next]_vars
  PROVE  Inv'
<1>1. CASE Next
  <2>1. TypeOK'
    BY <1>1, TypedStep
  <2> QED
    BY <1>1, <2>1, JobsStep, ApartStep, ArchiveClosedStep, MigratedOnceStep, PointingStep, UndoingStep,
       RestoredStep DEF Inv
<1>2. CASE UNCHANGED vars
  BY <1>2
  DEF vars, Inv, TypeOK, Apart, ArchiveClosed, Closed, MigratedOnce, InOrder, Pointing,
      Undoing, Changing,
     Finished, AtMost, Restored, RestoredExactly, JobInv, Placed, Packing, Copying, Dumped, Pending,
     Active, At
<1> QED
  BY <1>1, <1>2

\* The invariant holds in every reachable state.
LEMMA Invariance == Spec => []Inv
BY InitInv, StepInv, PTL DEF Spec

\* For any set of homes, any number of migrations, and however often processes are
\* killed, homes, archives and jobs keep their shape and the pointer names an archive.
THEOREM TypeCorrect == Spec => []TypeOK
BY Invariance, PTL DEF Inv

\* A backup taken while learners work (create_backup, backup.py:46) holds every
\* artifact its rows cite, for any set of artifacts.
THEOREM ArchiveClosedHolds == Spec => []ArchiveClosed
BY Invariance, PTL DEF Inv

\* No migration takes effect twice or out of order (run_migrations, migrations.py:69),
\* for any number of migrations.
THEOREM MigratedOnceHolds == Spec => []MigratedOnce
BY Invariance, PTL DEF Inv

\* An update can be undone by the default rollback from its first change on
\* (apply_update, update.py:222; latest_pre_update_archive, update.py:125).
THEOREM DefaultUndoesHolds == Spec => []DefaultUndoes
<1>1. ASSUME Inv, Changing
      PROVE  Undoes(job[Update].home, job[Update].backup, job[Update].applied)
  <2>1. job[Update].backup # 0
    BY <1>1, SeqFacts DEF Inv, TypeOK, Undoing, Finished
  <2> QED
    BY <1>1, <2>1 DEF Inv, Undoing, Finished, Undoes, Latest
<1>2. Inv => DefaultUndoes
  BY <1>1 DEF DefaultUndoes
<1> QED
  BY <1>2, Invariance, PTL

\* What rollback reports restored is the archive (restore_backup, backup.py:91).
THEOREM RestoredExactlyHolds == Spec => []RestoredExactly
<1>1. Inv => RestoredExactly
  BY DEF Inv, Restored
<1> QED
  BY <1>1, Invariance, PTL
=============================================================================
