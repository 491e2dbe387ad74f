------------------------------- MODULE V2Import -------------------------------
(***************************************************************************)
(* The importer of V2 learners (tools/platform/v2_migrate.py) beside the   *)
(* backend, both on the ledger of EventLedger and on the table of learners.*)
(*                                                                         *)
(* import_source reads which ids and usernames are taken, one bundle after *)
(* the other, and writes what it decided later, bundle by bundle: a commit *)
(* of the learner and its levels, then one commit per event.  No           *)
(* transaction covers two of these steps, so the backend, another import   *)
(* and a kill come in between.  Bundles are the exported states of V2      *)
(* learners; two of them may be of the same learner, at two moments.       *)
(*                                                                         *)
(* Of the backend there are the three things that share a row with an      *)
(* import: creating a learner, appending an event, and the read and the    *)
(* write of a level by a gate (increment_competencies, which reads before  *)
(* the first write opens its transaction).  A learner has one competency.  *)
(***************************************************************************)
EXTENDS EventLedger, SequencesExt

CONSTANTS
  Importer, Backend,   \* the Writers
  Native,              \* Learner ids the backend hands out
  Bundle,
  Desired,             \* [Bundle -> Learner], _namespaced_id
  BaseName,            \* [Bundle -> user name], _sanitize_username
  LevelIn,             \* [Bundle -> level], _competency_level
  Log,                 \* [Bundle -> the bodies of its events, v2_import first]
  UserName,            \* names the backend's learners choose
  Activity,            \* bodies of the backend's events
  Top,                 \* highest level, 5 in the code
  Exports,             \* bound: the V2 sources, as sequences of bundles
  MaxRuns              \* bound: imports ever started

ASSUME ImportAssumption ==
  /\ Backend \notin Importer /\ Writer = Importer \cup {Backend}
  /\ Native \subseteq Learner
  /\ Desired \in [Bundle -> Learner \ Native]
  /\ Top \in Nat /\ LevelIn \in [Bundle -> 0..Top]
  /\ Exports \subseteq Seq(Bundle) \ {<<>>}
  /\ Activity \subseteq Body
  /\ Log \in [Bundle -> Seq(Body)] /\ \A b \in Bundle : Log[b] # <<>>

VARIABLES
  learners,  \* learners and competency_mastery: [id -> name, profile, level]
  imports,   \* [Importer -> the run of import_source]
  runs,      \* imports started so far
  raising    \* the level a gate has read and not written yet, or NoGate

importVars == <<rows, pending, learners, imports, runs, raising>>

Absent == -1            \* no row in competency_mastery
V3 == [source |-> "V3"] \* the profile of a learner the backend created
NoGate == [learner |-> Genesis]
Idle == [pc |-> "idle"]

Names(table) == {table[l].name : l \in DOMAIN table}
Higher(a, b) == IF a > b THEN a ELSE b
Lower(a, b) == IF a < b THEN a ELSE b

\* _unique_username: the base, or the base with the first free suffix.
UniqueName(base, own) ==
  LET free(n) == <<base, n>> \notin Names([l \in DOMAIN learners \ own |-> learners[l]])
  IN  <<base, CHOOSE n \in 1..(Cardinality(DOMAIN learners) + 1) :
                free(n) /\ \A m \in 1..(n - 1) : ~free(m)>>

\* Ids that uuid4 may mint: nobody has them or has planned with them.
Unused ==
  Learner \ (DOMAIN learners \cup Native \cup {Desired[b] : b \in Bundle}
             \cup UNION {{p.id : p \in ToSet(imports[i].plan)} :
                           i \in {j \in Importer : imports[j].pc # "idle"}})

-----------------------------------------------------------------------------
(* The importer                                                            *)

Start(i, force, bundles) ==
  /\ imports[i].pc \in {"idle", "told"} /\ runs < MaxRuns
  /\ runs' = runs + 1
  /\ imports' = [imports EXCEPT ![i] =
       [pc |-> "allocate", force |-> force, bundles |-> bundles, plan |-> <<>>,
        at |-> 1, sent |-> 0, saved |-> {}, from |-> Len(rows)]]
  /\ UNCHANGED <<rows, pending, learners, raising>>

\* _allocate_identity for the next bundle.
Mutant_TakesExisting(b, force) ==
  IF Desired[b] \in DOMAIN learners
  THEN {[id |-> Desired[b], over |-> TRUE]}
  ELSE {[id |-> Desired[b], over |-> FALSE]}
Identities(b, force) ==
  IF Desired[b] \notin DOMAIN learners THEN {[id |-> Desired[b], over |-> FALSE]}
  ELSE IF force THEN {[id |-> Desired[b], over |-> TRUE]}
  ELSE {[id |-> l, over |-> FALSE] : l \in Unused}

AfterAllocation(force, plan, bundles) ==
  IF Len(plan) < Len(bundles) THEN "allocate"
  ELSE IF \E p \in ToSet(plan) : p.over THEN "snapshot" ELSE "write"

Allocate(i) ==
  LET run == imports[i] IN
  /\ run.pc = "allocate"
  /\ LET b == run.bundles[Len(run.plan) + 1] IN
     \E identity \in Identities(b, run.force) :
       LET own  == IF identity.over THEN {identity.id} ELSE {}
           plan == Append(run.plan, [bundle |-> b, id |-> identity.id,
                     over |-> identity.over, name |-> UniqueName(BaseName[b], own)])
       IN  imports' = [imports EXCEPT
             ![i].plan = plan,
             ![i].pc = AfterAllocation(run.force, plan, run.bundles)]
  /\ UNCHANGED <<rows, pending, learners, raising, runs>>

\* _snapshot: an archive of the database as it is.
Snapshot(i) ==
  /\ imports[i].pc = "snapshot"
  /\ imports' = [imports EXCEPT ![i].pc = "write",
                                ![i].saved = DOMAIN learners]
  /\ UNCHANGED <<rows, pending, learners, raising, runs>>

\* What the UPDATE, or the INSERT, and the upsert of the levels leave.
Mutant_PlainLevel(p) ==
  [name |-> p.name, profile |-> p.bundle, level |-> LevelIn[p.bundle]]
Imported(p) ==
  [name |-> p.name, profile |-> p.bundle,
   level |-> IF p.over THEN Higher(learners[p.id].level, LevelIn[p.bundle])
             ELSE LevelIn[p.bundle]]

\* The PRIMARY KEY and the UNIQUE username.
RowAccepted(p) ==
  /\ p.over \/ p.id \notin DOMAIN learners
  /\ \A l \in DOMAIN learners \ {p.id} : learners[l].name # p.name

\* _upsert_learner, _upsert_competencies, commit.
Write(i) ==
  LET run == imports[i] IN
  /\ run.pc = "write"
  /\ LET p == run.plan[run.at] IN
     /\ RowAccepted(p)
     /\ learners' = [l \in DOMAIN learners \cup {p.id} |->
                       IF l = p.id THEN Imported(p) ELSE learners[l]]
  /\ imports' = [imports EXCEPT ![i].pc = "append", ![i].sent = 0]
  /\ UNCHANGED <<rows, pending, raising, runs>>

\* _append_event up to the INSERT, and the INSERT.
ReadForEvent(i) ==
  LET run == imports[i] p == run.plan[run.at] IN
  /\ run.pc = "append"
  /\ ReadLatest(i, p.id, Log[p.bundle][run.sent + 1])
  /\ UNCHANGED <<learners, imports, raising, runs>>

Mutant_ToldEarly(run) ==
  IF run.at = Len(run.plan) THEN [run EXCEPT !.pc = "told"]
  ELSE [run EXCEPT !.pc = "write", !.at = @ + 1]
AfterEvent(run) ==
  IF run.sent + 1 < Len(Log[run.plan[run.at].bundle])
  THEN [run EXCEPT !.sent = @ + 1]
  ELSE IF run.at < Len(run.plan) THEN [run EXCEPT !.pc = "write", !.at = @ + 1]
  ELSE [run EXCEPT !.pc = "told"]

InsertEvent(i) ==
  /\ imports[i].pc = "append"
  /\ Insert(i)
  /\ imports' = [imports EXCEPT ![i] = AfterEvent(@)]
  /\ UNCHANGED <<learners, raising, runs>>

\* A constraint, a file that cannot be read, a locked database, a kill.
Abort(i) ==
  /\ imports[i].pc \notin {"idle", "told"}
  /\ imports' = [imports EXCEPT ![i] = Idle]
  /\ pending' = [pending EXCEPT ![i] = Nothing]
  /\ UNCHANGED <<rows, learners, raising, runs>>

-----------------------------------------------------------------------------
(* The backend                                                             *)

\* create_learner
Register(l, name) ==
  /\ l \notin DOMAIN learners
  /\ name \notin Names(learners)
  /\ learners' = [m \in DOMAIN learners \cup {l} |->
       IF m = l THEN [name |-> name, profile |-> V3, level |-> Absent]
       ELSE learners[m]]
  /\ UNCHANGED <<rows, pending, imports, raising, runs>>

\* increment_competencies: the SELECT.
ReadLevel(l) ==
  /\ raising = NoGate
  /\ raising' = [learner |-> l, level |-> learners[l].level]
  /\ UNCHANGED <<rows, pending, learners, imports, runs>>

\* The UPDATE of a row that was there.
RaiseLevel ==
  /\ raising # NoGate
  /\ raising.level # Absent
  /\ learners' = [learners EXCEPT ![raising.learner].level =
                    Lower(Top, raising.level + 1)]
  /\ raising' = NoGate
  /\ UNCHANGED <<rows, pending, imports, runs>>

\* The INSERT of a row that was not; it fails if there is one by now.
FirstLevel ==
  /\ raising # NoGate
  /\ raising.level = Absent
  /\ learners' = [learners EXCEPT ![raising.learner].level =
                    IF @ = Absent THEN Lower(Top, 1) ELSE @]
  /\ raising' = NoGate
  /\ UNCHANGED <<rows, pending, imports, runs>>

BackendAppend ==
  /\ \/ \E l \in DOMAIN learners, body \in Activity : ReadLatest(Backend, l, body)
     \/ Insert(Backend)
     \/ Lose(Backend)
  /\ UNCHANGED <<learners, imports, raising, runs>>

-----------------------------------------------------------------------------
ImportInit ==
  /\ Init
  /\ learners = <<>>
  /\ imports = [i \in Importer |-> Idle]
  /\ runs = 0
  /\ raising = NoGate

ImportNext ==
  \/ \E i \in Importer :
        \/ \E force \in BOOLEAN, bundles \in Exports : Start(i, force, bundles)
        \/ Allocate(i) \/ Snapshot(i) \/ Write(i)
        \/ ReadForEvent(i) \/ InsertEvent(i) \/ Abort(i)
  \/ \E l \in Native, name \in UserName : Register(l, name)
  \/ \E l \in DOMAIN learners : ReadLevel(l)
  \/ RaiseLevel \/ FirstLevel \/ BackendAppend

ImportSpec == ImportInit /\ [][ImportNext]_importVars

-----------------------------------------------------------------------------
(* Properties                                                              *)

(***************************************************************************)
(* "Import is additive: colliding V3 learner rows are not overwritten      *)
(* unless --force, which snapshots first" (v2_migrate.py:17-18).  A step   *)
(* of an import changes the row of a learner that was there only in a      *)
(* forced run that has an archive with that learner, and never lowers a    *)
(* level - whatever was registered, imported or raised since the import    *)
(* looked which ids are taken.                                             *)
(***************************************************************************)
Additive ==
  [][\A i \in Importer, l \in DOMAIN learners :
       imports'[i] # imports[i] /\ learners'[l] # learners[l] =>
         /\ imports[i].force /\ l \in imports[i].saved
         /\ learners'[l].level >= learners[l].level]_importVars

(***************************************************************************)
(* An import that printed its map of ids is whole: each learner it names   *)
(* is there, and the events of each bundle are in that learner's ledger,   *)
(* after the import began and in their order, through aborts of other      *)
(* runs, twins, and writers in between.                                    *)
(***************************************************************************)
Logged(p, from) ==
  \E at \in [DOMAIN Log[p.bundle] -> (from + 1)..Len(rows)] :
     \A k \in DOMAIN Log[p.bundle] :
        /\ rows[at[k]].learner = p.id
        /\ rows[at[k]].hash = EventHash(p.id, Log[p.bundle][k], rows[at[k]].prev)
        /\ \A j \in 1..(k - 1) : at[j] < at[k]

WholeWhenTold ==
  \A i \in Importer : imports[i].pc = "told" =>
    \A p \in ToSet(imports[i].plan) :
       p.id \in DOMAIN learners /\ Logged(p, imports[i].from)

(***************************************************************************)
(* Unless some import is forced, what a gate has read is what it is about  *)
(* to overwrite, so no level an import brings is lost to a gate: imports   *)
(* keep off each learner the backend may be working for.  With --force the *)
(* gate may write its own sum over the import's higher level.              *)
(***************************************************************************)
Unforced == \A i \in Importer : imports[i].pc # "idle" => ~imports[i].force

ReadIsCurrent ==
  raising # NoGate => learners[raising.learner].level = raising.level

LevelsKept == []Unforced => []ReadIsCurrent
=============================================================================
