----------------------------- MODULE EventLedger -----------------------------
(***************************************************************************)
(* The learning ledger: table learning_events and EventLedger.append       *)
(* (platform/backend/app/db/ledger.py), which chains each event of a       *)
(* learner to the learner's latest event by its SHA-256.                   *)
(*                                                                         *)
(* append reads the latest hash in autocommit mode and then inserts in a   *)
(* transaction of its own, so a second connection may insert in between.   *)
(* A Writer is a connection that appends one event at a time: the backend  *)
(* process, which is one however many requests it serves, and the importer *)
(* of V2 data (tools/platform/v2_migrate.py), which nothing stops from     *)
(* running beside it.                                                      *)
(*                                                                         *)
(* The learners of the model exist; nothing deletes a learner.             *)
(***************************************************************************)
EXTENDS Sequences, Integers, FiniteSets

CONSTANTS
  Learner, Writer,
  Body,      \* what the hash covers besides learner and prev: type, payload, time
  Genesis,   \* GENESIS_PREV_HASH, 64 zeros
  MaxRows    \* bound: events ever appended

ASSUME MaxRowsAssumption == MaxRows \in Nat

VARIABLES
  rows,      \* learning_events in the order of their rowids
  pending    \* [Writer -> the event whose predecessor was read, or Nothing]

vars == <<rows, pending>>

Nothing == [learner |-> Genesis]

\* SHA-256 of the canonical envelope, taken as free of collisions.
EventHash(l, body, prev) == <<l, body, prev>>

RowsOf(l) == {i \in DOMAIN rows : rows[i].learner = l}

\* SELECT event_hash ... WHERE learner_id = ? ORDER BY rowid DESC LIMIT 1
Mutant_Oldest(l) ==
  IF RowsOf(l) = {} THEN Genesis
  ELSE rows[CHOOSE i \in RowsOf(l) : \A j \in RowsOf(l) : i <= j].hash
Mutant_AnyLearner(l) == IF rows = <<>> THEN Genesis ELSE rows[Len(rows)].hash
LatestHash(l) ==
  IF RowsOf(l) = {} THEN Genesis
  ELSE rows[CHOOSE i \in RowsOf(l) : \A j \in RowsOf(l) : j <= i].hash

-----------------------------------------------------------------------------
\* append up to the INSERT.
ReadLatest(w, l, body) ==
  /\ pending[w] = Nothing
  /\ pending' = [pending EXCEPT ![w] =
       [learner |-> l, body |-> body, prev |-> LatestHash(l)]]
  /\ UNCHANGED rows

RowOf(event) ==
  [learner |-> event.learner, prev |-> event.prev,
   hash |-> EventHash(event.learner, event.body, event.prev)]

\* event_hash is UNIQUE: a twin of a row is refused.
HashIsNew(hash) == \A i \in DOMAIN rows : rows[i].hash # hash

\* INSERT and commit.
Insert(w) ==
  /\ pending[w] # Nothing
  /\ Len(rows) < MaxRows
  /\ HashIsNew(RowOf(pending[w]).hash)
  /\ rows' = Append(rows, RowOf(pending[w]))
  /\ pending' = [pending EXCEPT ![w] = Nothing]

\* The INSERT fails and is rolled back - a twin, a locked database - or the
\* process dies before it.
Lose(w) ==
  /\ pending[w] # Nothing
  /\ pending' = [pending EXCEPT ![w] = Nothing]
  /\ UNCHANGED rows

Init ==
  /\ rows = <<>>
  /\ pending = [w \in Writer |-> Nothing]

Next ==
  \E w \in Writer :
     \/ \E l \in Learner, body \in Body : ReadLatest(w, l, body)
     \/ Insert(w)
     \/ Lose(w)

Spec == Init /\ [][Next]_vars

-----------------------------------------------------------------------------
(* Properties                                                              *)

(***************************************************************************)
(* However many connections write, each event hangs on the ledger by its   *)
(* prev_hash: that is the hash of exactly one row, of the same learner and *)
(* older than the event, or the event is a first one.  So from each event  *)
(* one path leads back to the genesis hash, and a verifier that follows it *)
(* meets neither a cycle, nor a missing row, nor another learner's.        *)
(***************************************************************************)
Hangs(i) ==
  \/ rows[i].prev = Genesis
  \/ \E j \in 1..(i - 1) :
        /\ rows[j].hash = rows[i].prev
        /\ rows[j].learner = rows[i].learner
        /\ \A k \in DOMAIN rows : rows[k].hash = rows[i].prev => k = j

ChainRooted == \A i \in DOMAIN rows : Hangs(i)

(***************************************************************************)
(* Append-only (the title of ledger.py and of migration 0002): a row keeps *)
(* its rowid and its content for ever, through twins and failures.         *)
(***************************************************************************)
AppendOnly ==
  [][/\ Len(rows) <= Len(rows')
     /\ \A i \in DOMAIN rows : rows'[i] = rows[i]]_vars

(***************************************************************************)
(* As long as only one connection appends, the ledger of a learner is one  *)
(* chain: each event names the latest one before it, as                    *)
(* test_append_hash_chain expects (platform/backend/tests/storage/         *)
(* test_ledger.py:41), through lost inserts and twins.                     *)
(***************************************************************************)
LatestBefore(i) ==
  LET older == {j \in RowsOf(rows[i].learner) : j < i} IN
  IF older = {} THEN Genesis
  ELSE rows[CHOOSE j \in older : \A k \in older : k <= j].hash

ChainLinear == \A i \in DOMAIN rows : rows[i].prev = LatestBefore(i)

Alone(w) == \A v \in Writer \ {w} : pending[v] = Nothing

LinearFor(w) == []Alone(w) => []ChainLinear

LinearAlone == \A w \in Writer : LinearFor(w)
=============================================================================
