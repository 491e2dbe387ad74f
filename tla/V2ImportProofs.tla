--------------------------- MODULE V2ImportProofs ---------------------------
(***************************************************************************)
(* Proofs about EventLedger, for any learners, writers and contents, and   *)
(* about V2Import, for any bundles, logs, importers and numbers of runs.   *)
(*                                                                         *)
(* The ledger's inductive invariant says that what a writer has read still *)
(* hangs on the ledger when it is inserted: rows stay (AppendOnly) and     *)
(* UNIQUE keeps their hashes apart.  With a single writer nothing is       *)
(* inserted in between, so what was read is still the latest.              *)
(*                                                                         *)
(* To the ledger the import is one writer among others: ImportSpec         *)
(* implements EventLedger's Spec, and inherits what is proved there.  That *)
(* an import is additive rests on what it has planned: an identity that    *)
(* overwrites comes from a forced run, was taken when it was planned, and  *)
(* is in the archive when it is written, since no learner is ever deleted. *)
(* That a told import is whole rests on how far the run has come.          *)
(***************************************************************************)
EXTENDS V2Import, SequenceTheorems, WellFoundedInduction, TLAPS

-----------------------------------------------------------------------------
(* The ledger                                                              *)

\* No set holds every hash, so the type of rows names none.
IsTable == \E S : rows \in Seq(S)

HashesApart ==
  \A i \in DOMAIN rows, j \in DOMAIN rows : rows[i].hash = rows[j].hash => i = j

PendingHangs ==
  \A w \in Writer : pending[w] # Nothing =>
     \/ pending[w].prev = Genesis
     \/ \E j \in DOMAIN rows :
           rows[j].hash = pending[w].prev /\ rows[j].learner = pending[w].learner

OldRowsHang ==
  \A i \in DOMAIN rows :
     \/ rows[i].prev = Genesis
     \/ \E j \in 1..(i - 1) :
           rows[j].hash = rows[i].prev /\ rows[j].learner = rows[i].learner

Inv ==
  /\ IsTable
  /\ pending = [w \in Writer |-> pending[w]]
  /\ HashesApart
  /\ PendingHangs
  /\ OldRowsHang

-----------------------------------------------------------------------------
LEMMA Inserted ==
  ASSUME IsTable, NEW w \in Writer, Insert(w)
  PROVE  /\ IsTable'
         /\ Len(rows) \in Nat
         /\ Len(rows') = Len(rows) + 1
         /\ DOMAIN rows = 1..Len(rows)
         /\ DOMAIN rows' = 1..(Len(rows) + 1)
         /\ \A i \in DOMAIN rows : rows'[i] = rows[i]
         /\ rows'[Len(rows) + 1] = RowOf(pending[w])
<1>1. PICK S : rows \in Seq(S)
  BY DEF IsTable
<1> DEFINE row == RowOf(pending[w])
<1>2. rows \in Seq(S \cup {row})
  BY <1>1
<1>3. rows' = Append(rows, row)
  BY DEF Insert
<1> HIDE DEF row
<1>4. rows' \in Seq(S \cup {row})
  BY <1>2, <1>3
<1> QED
  BY <1>2, <1>3, <1>4 DEF IsTable, row

\* A bounded non-empty set of positions has a last one.
LEMMA LastExists ==
  ASSUME NEW n \in Nat, NEW T, T \subseteq 1..n, T # {}
  PROVE  \E x \in T : \A y \in T : y <= x
<1> DEFINE Dist == {n - t : t \in T}
<1>0. \A t \in T : n - t \in Nat
  OBVIOUS
<1>1. Dist \subseteq Nat /\ Dist # {}
  BY <1>0
<1>2. \E d \in Dist : \A e \in Dist : ~ (<<e, d>> \in OpToRel(<, Nat))
  <2> HIDE DEF Dist
  <2> QED BY <1>1, NatLessThanWellFounded, WFMin
<1>3. PICK d \in Dist : \A e \in Dist : ~ (e < d)
  BY <1>1, <1>2 DEF OpToRel
<1>4. PICK x \in T : d = n - x
  OBVIOUS
<1>5. ASSUME NEW y \in T PROVE y <= x
  <2>1. n - y \in Dist
    OBVIOUS
  <2>2. ~ (n - y < n - x)
    BY <1>3, <1>4, <2>1
  <2>3. x \in Int /\ y \in Int
    OBVIOUS
  <2> QED
    BY <2>2, <2>3
<1> QED
  BY <1>5

LEMMA TableShape ==
  ASSUME IsTable
  PROVE  Len(rows) \in Nat /\ DOMAIN rows = 1..Len(rows)
BY DEF IsTable

LEMMA LatestHashHangs ==
  ASSUME IsTable, NEW l
  PROVE  \/ LatestHash(l) = Genesis
         \/ \E j \in DOMAIN rows : rows[j].hash = LatestHash(l) /\ rows[j].learner = l
<1>1. CASE RowsOf(l) = {}
  BY <1>1 DEF LatestHash
<1>2. CASE RowsOf(l) # {}
  <2>1. \E i \in RowsOf(l) : \A j \in RowsOf(l) : j <= i
    BY <1>2, TableShape, LastExists DEF RowsOf
  <2> QED
    BY <1>2, <2>1 DEF LatestHash, RowsOf
<1> QED
  BY <1>1, <1>2

-----------------------------------------------------------------------------
LEMMA InvInit == Init => Inv
<1> SUFFICES ASSUME Init PROVE Inv
  OBVIOUS
<1>1. rows \in Seq({})
  BY DEF Init
<1>2. DOMAIN rows = {}
  BY DEF Init
<1>3. pending = [w \in Writer |-> pending[w]] /\ \A w \in Writer : pending[w] = Nothing
  BY DEF Init
<1> QED
  BY <1>1, <1>2, <1>3 DEF Inv, IsTable, HashesApart, PendingHangs, OldRowsHang

LEMMA InvNext == Inv /\ [Next]_vars => Inv'
<1> SUFFICES ASSUME Inv, [Next]_vars PROVE Inv'
  OBVIOUS
<1>1. CASE UNCHANGED vars
  BY <1>1 DEF vars, Inv, IsTable, HashesApart, PendingHangs, OldRowsHang
<1>2. ASSUME NEW w \in Writer, NEW l \in Learner, NEW body \in Body,
             ReadLatest(w, l, body)
      PROVE  Inv'
  <2>1. pending'[w] = [learner |-> l, body |-> body, prev |-> LatestHash(l)]
    BY <1>2 DEF ReadLatest, Inv
  <2>2. \A v \in Writer : v # w => pending'[v] = pending[v]
    BY <1>2 DEF ReadLatest, Inv
  <2>3. rows' = rows /\ IsTable
    BY <1>2 DEF ReadLatest, Inv
  <2>4. PendingHangs'
    BY <2>1, <2>2, <2>3, LatestHashHangs DEF PendingHangs, Inv
  <2>5. (pending = [v \in Writer |-> pending[v]])'
    BY <1>2 DEF ReadLatest, Inv
  <2> QED
    BY <2>3, <2>4, <2>5 DEF Inv, IsTable, HashesApart, OldRowsHang
<1>3. ASSUME NEW w \in Writer, Insert(w)
      PROVE  Inv'
  <2> DEFINE n == Len(rows)
  <2>1. /\ IsTable' /\ n \in Nat
        /\ DOMAIN rows = 1..n /\ DOMAIN rows' = 1..(n + 1)
        /\ \A i \in DOMAIN rows : rows'[i] = rows[i]
        /\ rows'[n + 1] = RowOf(pending[w])
    BY <1>3, Inserted DEF Inv
  <2> HIDE DEF n
  <2>2. HashesApart'
    <3>1. \A i \in DOMAIN rows : rows[i].hash # RowOf(pending[w]).hash
      BY <1>3 DEF Insert, HashIsNew
    <3> QED
      BY <2>1, <3>1 DEF HashesApart, Inv
  <2>3. /\ (pending = [v \in Writer |-> pending[v]])'
        /\ pending'[w] = Nothing
        /\ \A v \in Writer : v # w => pending'[v] = pending[v]
    BY <1>3 DEF Insert, Inv
  <2>4. PendingHangs'
    BY <2>1, <2>3 DEF PendingHangs, Inv
  <2>5. \/ RowOf(pending[w]).prev = Genesis
        \/ \E j \in 1..n : /\ rows[j].hash = RowOf(pending[w]).prev
                           /\ rows[j].learner = RowOf(pending[w]).learner
    <3>1. \/ pending[w].prev = Genesis
          \/ \E j \in 1..n : /\ rows[j].hash = pending[w].prev
                             /\ rows[j].learner = pending[w].learner
      BY <1>3, <2>1 DEF Insert, PendingHangs, Inv
    <3> QED
      BY <3>1 DEF RowOf
  <2>6. OldRowsHang'
    <3> SUFFICES ASSUME NEW i \in 1..(n + 1), rows'[i].prev # Genesis
                 PROVE  \E j \in 1..(i - 1) : /\ rows'[j].hash = rows'[i].prev
                                              /\ rows'[j].learner = rows'[i].learner
      BY <2>1 DEF OldRowsHang
    <3>1. CASE i = n + 1
      BY <2>1, <2>5, <3>1
    <3>2. CASE i \in 1..n
      BY <2>1, <3>2 DEF OldRowsHang, Inv
    <3> QED
      BY <2>1, <3>1, <3>2
  <2> QED
    BY <2>1, <2>2, <2>3, <2>4, <2>6 DEF Inv
<1>4. ASSUME NEW w \in Writer, Lose(w)
      PROVE  Inv'
  <2>1. /\ pending'[w] = Nothing
        /\ \A v \in Writer : v # w => pending'[v] = pending[v]
        /\ (pending = [v \in Writer |-> pending[v]])'
        /\ rows' = rows
    BY <1>4 DEF Lose, Inv
  <2> QED
    BY <2>1 DEF Inv, IsTable, HashesApart, PendingHangs, OldRowsHang
<1> QED
  BY <1>1, <1>2, <1>3, <1>4 DEF Next

(***************************************************************************)
(* Every event of the ledger hangs on it, whatever the writers do          *)
(* (db/ledger.py, EventLedger.append).                                     *)
(***************************************************************************)
THEOREM ChainRootedHolds == Spec => []ChainRooted
<1>1. Inv => ChainRooted
  <2> SUFFICES ASSUME Inv, NEW i \in DOMAIN rows, rows[i].prev # Genesis
               PROVE  Hangs(i)
    BY DEF ChainRooted, Hangs
  <2>1. PICK j \in 1..(i - 1) :
          rows[j].hash = rows[i].prev /\ rows[j].learner = rows[i].learner
    BY DEF Inv, OldRowsHang
  <2>2. j \in DOMAIN rows
    BY TableShape DEF Inv
  <2>3. \A k \in DOMAIN rows : rows[k].hash = rows[i].prev => k = j
    BY <2>1, <2>2 DEF Inv, HashesApart
  <2> QED
    BY <2>1, <2>3 DEF Hangs
<1> QED
  BY <1>1, InvInit, InvNext, PTL DEF Spec

(***************************************************************************)
(* Nothing rewrites the ledger.                                            *)
(***************************************************************************)
THEOREM AppendOnlyHolds == Spec => AppendOnly
<1>1. ASSUME Inv, [Next]_vars
      PROVE  [/\ Len(rows) <= Len(rows')
              /\ \A i \in DOMAIN rows : rows'[i] = rows[i]]_vars
  <2>1. IsTable /\ Len(rows) \in Nat
    BY <1>1, TableShape DEF Inv
  <2>2. CASE rows' = rows
    BY <2>1, <2>2
  <2>3. ASSUME NEW w \in Writer, Insert(w)
        PROVE  Len(rows) <= Len(rows') /\ \A i \in DOMAIN rows : rows'[i] = rows[i]
    BY <2>1, <2>3, Inserted
  <2> QED
    BY <1>1, <2>2, <2>3 DEF Next, ReadLatest, Lose, vars
<1> QED
  BY <1>1, InvInit, InvNext, PTL DEF Spec, AppendOnly

-----------------------------------------------------------------------------
(* One writer                                                              *)

\* The hash of the last of a set of positions.
HashOfLast(T) ==
  IF T = {} THEN Genesis ELSE rows[CHOOSE i \in T : \A j \in T : j <= i].hash

PendingIsLatest ==
  \A w \in Writer :
     pending[w] # Nothing => pending[w].prev = LatestHash(pending[w].learner)

LinearInv == Inv /\ ChainLinear /\ PendingIsLatest

LEMMA HashOfLastKept ==
  ASSUME IsTable, NEW w \in Writer, Insert(w), NEW T, T \subseteq DOMAIN rows
  PROVE  HashOfLast(T)' = HashOfLast(T)
<1>1. CASE T = {}
  BY <1>1 DEF HashOfLast
<1>2. CASE T # {}
  <2>1. \E i \in T : \A j \in T : j <= i
    BY <1>2, TableShape, LastExists
  <2>2. PICK last : last = (CHOOSE i \in T : \A j \in T : j <= i)
    OBVIOUS
  <2>3. last \in DOMAIN rows
    BY <2>1, <2>2
  <2>4. rows'[last] = rows[last]
    BY <2>3, Inserted
  <2> QED
    BY <1>2, <2>2, <2>4 DEF HashOfLast
<1> QED
  BY <1>1, <1>2

\* The only writer that has read anything is the one that inserts.
LEMMA NothingLeft ==
  ASSUME NEW u \in Writer, Alone(u), Alone(u)', LinearInv, NEW w \in Writer, Insert(w)
  PROVE  PendingIsLatest'
<1>1. w = u
  BY DEF Alone, Insert
<1>2. pending'[w] = Nothing
  BY DEF Insert, LinearInv, Inv
<1>3. \A v \in Writer : pending'[v] = Nothing
  BY <1>1, <1>2 DEF Alone
<1> QED
  BY <1>3 DEF PendingIsLatest

LEMMA LinearNext ==
  ASSUME NEW u \in Writer, Alone(u), Alone(u)', LinearInv, [Next]_vars, Inv'
  PROVE  ChainLinear' /\ PendingIsLatest'
<1> DEFINE Older(i) == {j \in RowsOf(rows[i].learner) : j < i}
<1>0. IsTable
  BY DEF LinearInv, Inv
<1>1. CASE rows' = rows
  <2>1. ChainLinear'
    <3>1. \A i : LatestBefore(i)' = LatestBefore(i)
      BY <1>1 DEF LatestBefore, RowsOf
    <3>2. \A i \in DOMAIN rows : rows[i].prev = LatestBefore(i)
      BY DEF LinearInv, ChainLinear
    <3> SUFFICES ASSUME NEW i \in DOMAIN rows
                 PROVE  rows[i].prev = LatestBefore(i)'
      BY <1>1 DEF ChainLinear
    <3> QED
      BY <3>1, <3>2
  <2>2. \A l : LatestHash(l)' = LatestHash(l)
    BY <1>1 DEF LatestHash, RowsOf
  <2>3. ASSUME UNCHANGED vars PROVE PendingIsLatest'
    BY <2>2, <2>3 DEF vars, LinearInv, PendingIsLatest
  <2>4. ASSUME NEW w \in Writer, NEW l \in Learner, NEW body \in Body,
               ReadLatest(w, l, body)
        PROVE  PendingIsLatest'
    <3>1. pending'[w] = [learner |-> l, body |-> body, prev |-> LatestHash(l)]
      BY <2>4 DEF ReadLatest, LinearInv, Inv
    <3>2. \A v \in Writer \ {w} : pending'[v] = pending[v]
      BY <2>4 DEF ReadLatest, LinearInv, Inv
    <3> QED
      BY <2>2, <3>1, <3>2 DEF PendingIsLatest, LinearInv
  <2>5. ASSUME NEW w \in Writer, Lose(w)
        PROVE  PendingIsLatest'
    <3>1. \A v \in Writer : pending'[v] \in {pending[v], Nothing}
      BY <2>5 DEF Lose, LinearInv, Inv
    <3> QED
      BY <2>2, <3>1 DEF PendingIsLatest, LinearInv
  <2>6. ASSUME NEW w \in Writer, Insert(w)
        PROVE  PendingIsLatest'
    BY <2>6, NothingLeft
  <2> QED
    BY <2>1, <2>3, <2>4, <2>5, <2>6 DEF Next
<1>2. ASSUME NEW w \in Writer, Insert(w)
      PROVE  ChainLinear' /\ PendingIsLatest'
  <2>1. PICK n \in Nat :
        /\ DOMAIN rows = 1..n /\ DOMAIN rows' = 1..(n + 1)
        /\ \A i \in DOMAIN rows : rows'[i] = rows[i]
        /\ rows'[n + 1] = RowOf(pending[w])
    BY <1>0, <1>2, Inserted
  <2>2. PendingIsLatest'
    BY <1>2, NothingLeft
  <2>3. ASSUME NEW i \in 1..n
        PROVE  rows'[i].prev = LatestBefore(i)'
    <3>1. Older(i)' = Older(i)
      BY <2>1 DEF RowsOf
    <3>2. Older(i) \subseteq DOMAIN rows
      BY DEF RowsOf
    <3>3. HashOfLast(Older(i))' = HashOfLast(Older(i))
      <4> HIDE DEF Older
      <4>1. ASSUME NEW T, T = Older(i) PROVE HashOfLast(T)' = HashOfLast(T)
        BY <1>0, <1>2, <3>2, <4>1, HashOfLastKept
      <4> QED
        BY <3>1, <4>1 DEF HashOfLast
    <3>4. LatestBefore(i) = HashOfLast(Older(i)) /\ LatestBefore(i)' = HashOfLast(Older(i))'
      BY DEF LatestBefore, HashOfLast
    <3>5. rows[i].prev = LatestBefore(i)
      BY <2>1 DEF LinearInv, ChainLinear
    <3> QED
      BY <2>1, <3>3, <3>4, <3>5
  <2>4. rows'[n + 1].prev = LatestBefore(n + 1)'
    <3> DEFINE l == pending[w].learner
    <3>1. rows'[n + 1].learner = l /\ rows'[n + 1].prev = pending[w].prev
      BY <2>1 DEF RowOf
    <3>2. Older(n + 1)' = RowsOf(l)
      <4>1. RowsOf(l) = {j \in 1..n : rows[j].learner = l}
        BY <2>1 DEF RowsOf
      <4>2. Older(n + 1)' = {j \in 1..(n + 1) : rows'[j].learner = l /\ j < n + 1}
        BY <2>1, <3>1 DEF RowsOf
      <4> HIDE DEF l, Older
      <4> QED
        BY <2>1, <4>1, <4>2
    <3>3. pending[w].prev = HashOfLast(RowsOf(l))
      BY <1>2 DEF Insert, LinearInv, PendingIsLatest, LatestHash, HashOfLast
    <3>4. ASSUME NEW T, T = RowsOf(l) PROVE HashOfLast(T)' = HashOfLast(T)
      BY <1>0, <1>2, <3>4, HashOfLastKept DEF RowsOf
    <3>5. LatestBefore(n + 1)' = HashOfLast(Older(n + 1))'
      BY DEF LatestBefore, HashOfLast
    <3> HIDE DEF l, Older
    <3> QED
      BY <3>1, <3>2, <3>3, <3>4, <3>5 DEF HashOfLast
  <2>5. ChainLinear'
    <3> SUFFICES ASSUME NEW i \in 1..(n + 1)
                 PROVE  rows'[i].prev = LatestBefore(i)'
      BY <2>1 DEF ChainLinear
    <3>1. i \in 1..n \/ i = n + 1
      BY <2>1
    <3> QED
      BY <2>3, <2>4, <3>1
  <2> QED
    BY <2>2, <2>5
<1> QED
  BY <1>1, <1>2 DEF Next, ReadLatest, Lose, vars

(***************************************************************************)
(* As long as one connection alone writes - the backend, and no importer   *)
(* beside it - the events of each learner form one chain in the order of   *)
(* their rowids.                                                           *)
(***************************************************************************)
THEOREM LinearAloneHolds == Spec => LinearAlone
<1>1. Init => LinearInv
  <2> SUFFICES ASSUME Init PROVE ChainLinear /\ PendingIsLatest
    BY InvInit DEF LinearInv
  <2> QED
    BY DEF Init, ChainLinear, PendingIsLatest
<1>2. LinearInv => ChainLinear
  BY DEF LinearInv
<1>3. ASSUME NEW u \in Writer
      PROVE  Spec => LinearFor(u)
  <2>1. LinearInv /\ Alone(u) /\ Alone(u)' /\ [Next]_vars => LinearInv'
    BY InvNext, LinearNext DEF LinearInv
  <2> QED
    BY <1>1, <1>2, <2>1, PTL DEF Spec, LinearFor
<1> QED
  BY <1>3 DEF LinearAlone

-----------------------------------------------------------------------------
(* The import                                                              *)

IsSeq(s) == \E S : s \in Seq(S)

Fields == {"pc", "force", "bundles", "plan", "at", "sent", "saved", "from"}
IsRun(run) == DOMAIN run = Fields /\ run = [x \in Fields |-> run[x]]

\* An identity as the plan of a run has it, when the learners are ids.
ItemOK(run, p, ids) ==
  /\ p.bundle \in Bundle /\ p.id \in Learner /\ p.over \in BOOLEAN
  /\ p.over => /\ run.force /\ p.id \in ids
               /\ run.pc \in {"allocate", "snapshot"} \/ p.id \in run.saved

ActiveRun(run, ids) ==
  /\ IsRun(run)
  /\ run.pc \in {"allocate", "snapshot", "write", "append", "told"}
  /\ run.force \in BOOLEAN /\ run.bundles \in Seq(Bundle) /\ IsSeq(run.plan)
  /\ run.at \in Nat \ {0} /\ run.sent \in Nat
  /\ \A k \in DOMAIN run.plan : ItemOK(run, run.plan[k], ids)
  /\ run.pc = "allocate" => Len(run.plan) < Len(run.bundles)
  /\ run.pc \in {"allocate", "snapshot"} => run.at = 1
  /\ run.pc = "snapshot" => run.plan # <<>>
  /\ run.pc \in {"write", "append"} => run.at \in DOMAIN run.plan
  /\ run.pc = "append" => run.sent < Len(Log[run.plan[run.at].bundle])

RunOK(run, ids) == run = Idle \/ ActiveRun(run, ids)

TableOK ==
  /\ learners = [l \in DOMAIN learners |-> learners[l]]
  /\ DOMAIN learners \subseteq Learner
  /\ \A l \in DOMAIN learners :
       learners[l] = [name |-> learners[l].name, profile |-> learners[l].profile,
                      level |-> learners[l].level] /\ learners[l].level \in Int

GateOK ==
  raising # NoGate =>
    /\ raising.learner \in DOMAIN learners /\ raising.level \in Int

ImportInv ==
  /\ pending = [w \in Writer |-> pending[w]]
  /\ imports = [i \in Importer |-> imports[i]]
  /\ \A i \in Importer : RunOK(imports[i], DOMAIN learners)
  /\ TableOK /\ GateOK

-----------------------------------------------------------------------------
(* The invariant                                                           *)

\* Nobody deletes a learner, so a run stays as it was.
LEMMA RunKept ==
  ASSUME NEW ids, NEW more, ids \subseteq more, NEW run, RunOK(run, ids)
  PROVE  RunOK(run, more)
<1>1. CASE run = Idle
  BY <1>1 DEF RunOK
<1>2. CASE ActiveRun(run, ids)
  <2>1. \A k \in DOMAIN run.plan : ItemOK(run, run.plan[k], more)
    BY <1>2 DEF ActiveRun, ItemOK
  <2> QED BY <1>2, <2>1 DEF RunOK, ActiveRun
<1> QED BY <1>1, <1>2 DEF RunOK

LEMMA RunsKept ==
  ASSUME ImportInv, NEW i \in Importer, NEW run, imports' = [imports EXCEPT ![i] = run],
         RunOK(run, DOMAIN learners'), DOMAIN learners \subseteq DOMAIN learners'
  PROVE  /\ imports' = [j \in Importer |-> imports'[j]]
         /\ \A j \in Importer : RunOK(imports'[j], DOMAIN learners')
         /\ imports'[i] = run /\ \A j \in Importer \ {i} : imports'[j] = imports[j]
<1>1. /\ imports' = [j \in Importer |-> imports'[j]] /\ imports'[i] = run
      /\ \A j \in Importer \ {i} : imports'[j] = imports[j]
  BY DEF ImportInv
<1>2. ASSUME NEW j \in Importer \ {i} PROVE RunOK(imports'[j], DOMAIN learners')
  <2>1. RunOK(imports[j], DOMAIN learners)
    BY DEF ImportInv
  <2>2. RunOK(imports[j], DOMAIN learners')
    BY <2>1, RunKept
  <2> QED BY <1>1, <2>2
<1> QED BY <1>1, <1>2

\* Steps of others.
LEMMA ImportsKept ==
  ASSUME ImportInv, imports' = imports, DOMAIN learners \subseteq DOMAIN learners'
  PROVE  /\ imports' = [j \in Importer |-> imports'[j]]
         /\ \A j \in Importer : RunOK(imports'[j], DOMAIN learners')
<1>1. \A j \in Importer : RunOK(imports[j], DOMAIN learners)
  BY DEF ImportInv
<1>2. \A j \in Importer : RunOK(imports[j], DOMAIN learners')
  BY <1>1, RunKept
<1> QED BY <1>2 DEF ImportInv

LEMMA RunType ==
  ASSUME ImportInv, NEW i \in Importer, imports[i].pc \notin {"idle", "told"}
  PROVE  ActiveRun(imports[i], DOMAIN learners)
BY DEF ImportInv, RunOK, Idle

\* The identity a plan is extended with.
LEMMA IdentityType ==
  ASSUME ImportInv, NEW b \in Bundle, NEW force \in BOOLEAN, NEW identity \in Identities(b, force)
  PROVE  /\ identity.id \in Learner /\ identity.over \in BOOLEAN
         /\ identity.over => force /\ identity.id \in DOMAIN learners
<1>1. Desired[b] \in Learner
  BY ImportAssumption
<1>2. Unused \subseteq Learner
  BY DEF Unused
<1>3. CASE Desired[b] \notin DOMAIN learners
  <2>1. identity = [id |-> Desired[b], over |-> FALSE]
    BY <1>3 DEF Identities
  <2>2. identity.id = Desired[b] /\ identity.over = FALSE
    BY <2>1
  <2> QED BY <1>1, <2>2
<1>4. CASE Desired[b] \in DOMAIN learners /\ force
  <2>1. identity = [id |-> Desired[b], over |-> TRUE]
    BY <1>4 DEF Identities
  <2>2. identity.id = Desired[b] /\ identity.over = TRUE
    BY <2>1
  <2> QED BY <1>1, <1>4, <2>2
<1>5. CASE Desired[b] \in DOMAIN learners /\ ~force
  <2>1. PICK l \in Unused : identity = [id |-> l, over |-> FALSE]
    BY <1>5 DEF Identities
  <2>2. identity.id = l /\ identity.over = FALSE
    BY <2>1
  <2> QED BY <1>2, <2>2
<1> QED BY <1>3, <1>4, <1>5

LEMMA StartOK ==
  ASSUME ImportInv, NEW i \in Importer, NEW force \in BOOLEAN, NEW bundles \in Exports,
         Start(i, force, bundles)
  PROVE  ImportInv'
<1> DEFINE run == [pc |-> "allocate", force |-> force, bundles |-> bundles, plan |-> <<>>,
                   at |-> 1, sent |-> 0, saved |-> {}, from |-> Len(rows)]
<1>1. bundles \in Seq(Bundle) /\ Len(bundles) > 0
  BY ImportAssumption
<1>2. IsSeq(<<>>)
  BY DEF IsSeq
<1>3. ActiveRun(run, DOMAIN learners)
  <2>1. IsRun(run)
    BY DEF IsRun, Fields
  <2> QED BY <1>1, <1>2, <2>1 DEF ActiveRun
<1>4. imports' = [imports EXCEPT ![i] = run] /\ UNCHANGED <<pending, learners, raising>>
  BY DEF Start
<1> HIDE DEF run
<1>5. RunOK(run, DOMAIN learners')
  BY <1>3, <1>4 DEF RunOK
<1> QED BY <1>4, <1>5, RunsKept DEF ImportInv, TableOK, GateOK

LEMMA AllocateOK ==
  ASSUME ImportInv, NEW i \in Importer, Allocate(i)
  PROVE  ImportInv'
<1> DEFINE old == imports[i]
           b == old.bundles[Len(old.plan) + 1]
<1>1. ActiveRun(old, DOMAIN learners) /\ old.pc = "allocate"
  BY RunType DEF Allocate
<1>0. PICK identity \in Identities(b, old.force) : \E name :
        LET plan == Append(old.plan, [bundle |-> b, id |-> identity.id,
                                      over |-> identity.over, name |-> name])
        IN  imports' = [imports EXCEPT
              ![i].plan = plan, ![i].pc = AfterAllocation(old.force, plan, old.bundles)]
  BY DEF Allocate
<1>2. PICK name :
        LET plan == Append(old.plan, [bundle |-> b, id |-> identity.id,
                                      over |-> identity.over, name |-> name])
        IN  imports' = [imports EXCEPT
              ![i].plan = plan, ![i].pc = AfterAllocation(old.force, plan, old.bundles)]
  BY <1>0
<1> DEFINE item == [bundle |-> b, id |-> identity.id, over |-> identity.over, name |-> name]
           plan == Append(old.plan, item)
           pc == AfterAllocation(old.force, plan, old.bundles)
           run == [old EXCEPT !.plan = plan, !.pc = pc]
<1>3. PICK S : old.plan \in Seq(S)
  BY <1>1 DEF ActiveRun, IsSeq
<1>4. b \in Bundle
  BY <1>1, <1>3 DEF ActiveRun
<1>5. /\ item.bundle \in Bundle /\ item.id \in Learner /\ item.over \in BOOLEAN
      /\ item.over => old.force /\ item.id \in DOMAIN learners
  <2>1. old.force \in BOOLEAN
    BY <1>1 DEF ActiveRun
  <2>2. /\ identity.id \in Learner /\ identity.over \in BOOLEAN
        /\ identity.over => old.force /\ identity.id \in DOMAIN learners
    BY <1>4, <2>1, IdentityType
  <2>3. item.bundle = b /\ item.id = identity.id /\ item.over = identity.over
    OBVIOUS
  <2> QED BY <1>4, <2>2, <2>3
<1> HIDE DEF item
<1>6. plan \in Seq(S \cup {item}) /\ Len(plan) = Len(old.plan) + 1 /\ Len(plan) \in Nat
      /\ DOMAIN plan = 1..Len(plan) /\ plan # <<>>
      /\ \A k \in DOMAIN plan : 
           plan[k] = item \/ (k \in DOMAIN old.plan /\ plan[k] = old.plan[k])
  BY <1>3, AppendProperties
<1> HIDE DEF plan
<1>7. /\ pc \in {"allocate", "snapshot", "write"}
      /\ pc = "allocate" => Len(plan) < Len(old.bundles)
      /\ pc = "write" => \A k \in DOMAIN plan : ~plan[k].over
  <2>1. ToSet(plan) = {plan[k] : k \in DOMAIN plan}
    BY DEF ToSet
  <2> QED BY <2>1 DEF AfterAllocation
<1> HIDE DEF pc
<1>8. /\ IsRun(run) /\ run.pc = pc /\ run.plan = plan /\ run.force = old.force
      /\ run.bundles = old.bundles /\ run.at = old.at /\ run.sent = old.sent
      /\ run.saved = old.saved
  BY <1>1 DEF ActiveRun, IsRun, Fields
<1> HIDE DEF run
<1>9. \A k \in DOMAIN plan : ItemOK(run, plan[k], DOMAIN learners)
  <2> SUFFICES ASSUME NEW k \in DOMAIN plan PROVE ItemOK(run, plan[k], DOMAIN learners)
    OBVIOUS
  <2>1. /\ plan[k].bundle \in Bundle /\ plan[k].id \in Learner /\ plan[k].over \in BOOLEAN
        /\ plan[k].over => old.force /\ plan[k].id \in DOMAIN learners
    BY <1>1, <1>5, <1>6 DEF ActiveRun, ItemOK
  <2> QED BY <1>7, <1>8, <2>1 DEF ItemOK
<1>10. IsSeq(plan)
  BY <1>6 DEF IsSeq
<1>11. old.at = 1 /\ old.sent \in Nat /\ old.force \in BOOLEAN /\ old.bundles \in Seq(Bundle) /\ 1 \in DOMAIN plan
  BY <1>1, <1>6 DEF ActiveRun
<1>12. ActiveRun(run, DOMAIN learners)
  BY <1>6, <1>7, <1>8, <1>9, <1>10, <1>11 DEF ActiveRun
<1>13. imports' = [imports EXCEPT ![i] = run] /\ UNCHANGED <<pending, learners, raising>>
  BY <1>2 DEF Allocate, run, plan, pc, item, ImportInv
<1> QED BY <1>12, <1>13, RunsKept DEF ImportInv, TableOK, GateOK, RunOK

LEMMA SnapshotOK ==
  ASSUME ImportInv, NEW i \in Importer, Snapshot(i)
  PROVE  ImportInv'
<1> DEFINE old == imports[i]
           run == [old EXCEPT !.pc = "write", !.saved = DOMAIN learners]
<1>1. ActiveRun(old, DOMAIN learners) /\ old.pc = "snapshot"
  BY RunType DEF Snapshot
<1>2. /\ IsRun(run) /\ run.pc = "write" /\ run.plan = old.plan /\ run.force = old.force
      /\ run.bundles = old.bundles /\ run.at = old.at /\ run.sent = old.sent
      /\ run.saved = DOMAIN learners
  BY <1>1 DEF ActiveRun, IsRun, Fields
<1>3. old.at \in DOMAIN old.plan
  <2>1. PICK S : old.plan \in Seq(S)
    BY <1>1 DEF ActiveRun, IsSeq
  <2>2. old.at = 1 /\ old.plan # <<>>
    BY <1>1 DEF ActiveRun
  <2> QED BY <2>1, <2>2
<1>4. imports' = [imports EXCEPT ![i] = run] /\ UNCHANGED <<pending, learners, raising>>
  BY DEF Snapshot, ImportInv
<1> HIDE DEF run
<1>5. ActiveRun(run, DOMAIN learners)
  BY <1>1, <1>2, <1>3 DEF ActiveRun, ItemOK
<1> QED BY <1>4, <1>5, RunsKept DEF ImportInv, TableOK, GateOK, RunOK

\* The row that an import leaves.
LEMMA ImportedType ==
  ASSUME ImportInv, NEW p, p.bundle \in Bundle, p.over => p.id \in DOMAIN learners
  PROVE  /\ Imported(p) = [name |-> Imported(p).name, profile |-> Imported(p).profile,
                           level |-> Imported(p).level]
         /\ Imported(p).level \in Int
         /\ p.over => Imported(p).level >= learners[p.id].level
<1>1. LevelIn[p.bundle] \in Int /\ (p.over => learners[p.id].level \in Int)
  BY ImportAssumption DEF ImportInv, TableOK
<1> QED BY <1>1 DEF Imported, Higher

LEMMA WriteOK ==
  ASSUME ImportInv, NEW i \in Importer, Write(i)
  PROVE  /\ ImportInv'
         /\ DOMAIN learners \subseteq DOMAIN learners'
         /\ \A l \in DOMAIN learners : learners'[l] # learners[l] =>
               /\ imports[i].force /\ l \in imports[i].saved
               /\ learners'[l].level >= learners[l].level
<1> DEFINE old == imports[i]
           p == old.plan[old.at]
           run == [old EXCEPT !.pc = "append", !.sent = 0]
<1>1. ActiveRun(old, DOMAIN learners) /\ old.pc = "write"
  BY RunType DEF Write
<1>2. ItemOK(old, p, DOMAIN learners) /\ old.at \in DOMAIN old.plan
  BY <1>1 DEF ActiveRun
<1>3. /\ IsRun(run) /\ run.pc = "append" /\ run.plan = old.plan /\ run.force = old.force
      /\ run.bundles = old.bundles /\ run.at = old.at /\ run.sent = 0
      /\ run.saved = old.saved
  BY <1>1 DEF ActiveRun, IsRun, Fields
<1>4. /\ RowAccepted(p)
      /\ learners' = [l \in DOMAIN learners \cup {p.id} |->
                        IF l = p.id THEN Imported(p) ELSE learners[l]]
      /\ imports' = [imports EXCEPT ![i] = run] /\ UNCHANGED <<pending, raising>>
  BY DEF Write, ImportInv
<1>5. p.bundle \in Bundle /\ p.id \in Learner /\ (p.over => p.id \in DOMAIN learners)
  BY <1>2 DEF ItemOK
<1> HIDE DEF run, p
<1>6. DOMAIN learners' = DOMAIN learners \cup {p.id}
  BY <1>4
<1>7. Len(Log[p.bundle]) > 0
  BY <1>5, ImportAssumption
<1>8. \A k \in DOMAIN old.plan : ItemOK(run, old.plan[k], DOMAIN learners')
  BY <1>1, <1>3, <1>6 DEF ActiveRun, ItemOK
<1>9. ActiveRun(run, DOMAIN learners')
  BY <1>1, <1>2, <1>3, <1>7, <1>8 DEF ActiveRun, p
<1>10. TableOK'
  BY <1>4, <1>5, <1>6, ImportedType DEF ImportInv, TableOK
<1>11. GateOK'
  BY <1>4, <1>6 DEF ImportInv, GateOK
<1>12. ImportInv'
  BY <1>4, <1>6, <1>9, <1>10, <1>11, RunsKept DEF ImportInv, RunOK
<1>13. ASSUME NEW l \in DOMAIN learners, learners'[l] # learners[l]
       PROVE  /\ old.force /\ l \in old.saved
              /\ learners'[l].level >= learners[l].level
  <2>1. l = p.id /\ learners'[l] = Imported(p)
    BY <1>4, <1>13
  <2>2. p.over
    BY <1>4, <2>1 DEF RowAccepted
  <2> QED BY <1>1, <1>2, <1>5, <2>1, <2>2, ImportedType DEF ItemOK
<1> QED BY <1>6, <1>12, <1>13

LEMMA InsertEventOK ==
  ASSUME ImportInv, NEW i \in Importer, InsertEvent(i)
  PROVE  ImportInv'
<1> DEFINE old == imports[i]
           run == AfterEvent(old)
<1>1. ActiveRun(old, DOMAIN learners) /\ old.pc = "append"
  BY RunType DEF InsertEvent
<1>2. PICK S : old.plan \in Seq(S)
  BY <1>1 DEF ActiveRun, IsSeq
<1>3. CASE old.sent + 1 < Len(Log[old.plan[old.at].bundle])
  <2>1. /\ IsRun(run) /\ run.pc = "append" /\ run.plan = old.plan /\ run.force = old.force
        /\ run.bundles = old.bundles /\ run.at = old.at /\ run.sent = old.sent + 1
        /\ run.saved = old.saved
    BY <1>1, <1>3 DEF ActiveRun, AfterEvent, IsRun, Fields
  <2> QED
    <3> HIDE DEF run
    <3>1. ActiveRun(run, DOMAIN learners)
      BY <1>1, <1>3, <2>1 DEF ActiveRun, ItemOK
    <3>2. pending' = [w \in Writer |-> pending'[w]]
      BY DEF InsertEvent, Insert, ImportInv
    <3>3. imports' = [imports EXCEPT ![i] = run] /\ UNCHANGED <<learners, raising>>
      BY DEF InsertEvent, run
    <3> QED BY <3>1, <3>2, <3>3, RunsKept DEF ImportInv, TableOK, GateOK, RunOK
<1>4. CASE ~(old.sent + 1 < Len(Log[old.plan[old.at].bundle]))
  <2>1. /\ IsRun(run) /\ run.plan = old.plan /\ run.force = old.force
        /\ run.bundles = old.bundles /\ run.sent = old.sent /\ run.saved = old.saved
        /\ \/ run.pc = "write" /\ run.at = old.at + 1 /\ old.at < Len(old.plan)
           \/ run.pc = "told" /\ run.at = old.at
    BY <1>1, <1>4 DEF ActiveRun, AfterEvent, IsRun, Fields
  <2>0. run.pc = "write" => run.at \in DOMAIN old.plan
    BY <1>1, <1>2, <2>1 DEF ActiveRun
  <2> HIDE DEF run
  <2>2. ActiveRun(run, DOMAIN learners)
    BY <1>1, <2>0, <2>1 DEF ActiveRun, ItemOK
  <2>3. pending' = [w \in Writer |-> pending'[w]]
    BY DEF InsertEvent, Insert, ImportInv
  <2>4. imports' = [imports EXCEPT ![i] = run] /\ UNCHANGED <<learners, raising>>
    BY DEF InsertEvent, run
  <2> QED BY <2>2, <2>3, <2>4, RunsKept DEF ImportInv, TableOK, GateOK, RunOK
<1> QED BY <1>3, <1>4

LEMMA AbortOK ==
  ASSUME ImportInv, NEW i \in Importer, Abort(i)
  PROVE  ImportInv'
<1>1. imports' = [imports EXCEPT ![i] = Idle] /\ UNCHANGED <<learners, raising>>
  BY DEF Abort
<1>2. pending' = [w \in Writer |-> pending'[w]]
  BY DEF Abort, ImportInv
<1>3. RunOK(Idle, DOMAIN learners')
  BY DEF RunOK
<1> QED BY <1>1, <1>2, <1>3, RunsKept DEF ImportInv, TableOK, GateOK

LEMMA BackendOK ==
  ASSUME ImportInv,
         \/ \E l \in Native, name \in UserName : Register(l, name)
         \/ \E l \in DOMAIN learners : ReadLevel(l)
         \/ RaiseLevel \/ FirstLevel
  PROVE  ImportInv' /\ imports' = imports /\ pending' = pending /\ rows' = rows
         /\ DOMAIN learners \subseteq DOMAIN learners'
<1>1. ASSUME NEW l \in Native, NEW name \in UserName, Register(l, name)
      PROVE  TableOK' /\ GateOK' /\ DOMAIN learners \subseteq DOMAIN learners'
  <2>1. l \in Learner /\ Absent \in Int
    BY ImportAssumption DEF Absent
  <2>2. DOMAIN learners' = DOMAIN learners \cup {l}
    BY <1>1 DEF Register
  <2> QED BY <1>1, <2>1, <2>2 DEF Register, ImportInv, TableOK, GateOK
<1>2. ASSUME NEW l \in DOMAIN learners, ReadLevel(l)
      PROVE  TableOK' /\ GateOK' /\ learners' = learners
  BY <1>2 DEF ReadLevel, ImportInv, TableOK, GateOK
<1>3. ASSUME RaiseLevel \/ FirstLevel
      PROVE  TableOK' /\ GateOK' /\ DOMAIN learners \subseteq DOMAIN learners'
  <2> DEFINE l == raising.learner
  <2>1. l \in DOMAIN learners /\ raising.level \in Int /\ learners[l].level \in Int
    BY <1>3 DEF RaiseLevel, FirstLevel, ImportInv, GateOK, TableOK
  <2>2. PICK level \in Int : learners' = [learners EXCEPT ![l].level = level]
    <3>1. CASE RaiseLevel
      <4>1. Lower(Top, raising.level + 1) \in Int
        BY <2>1, ImportAssumption DEF Lower
      <4> QED BY <3>1, <4>1 DEF RaiseLevel
    <3>2. CASE FirstLevel
      <4>1. (IF learners[l].level = Absent THEN Lower(Top, 1) ELSE learners[l].level) \in Int
        BY <2>1, ImportAssumption DEF Lower
      <4>2. learners' = [learners EXCEPT ![l].level =
                           IF learners[l].level = Absent THEN Lower(Top, 1)
                           ELSE learners[l].level]
        BY <2>1, <3>2 DEF FirstLevel
      <4> QED BY <4>1, <4>2
    <3> QED BY <1>3, <3>1, <3>2
  <2>3. DOMAIN learners' = DOMAIN learners /\ raising' = NoGate
    BY <1>3, <2>2 DEF RaiseLevel, FirstLevel
  <2>4. /\ learners' = [m \in DOMAIN learners' |-> learners'[m]]
        /\ learners'[l] = [learners[l] EXCEPT !.level = level]
        /\ \A m \in DOMAIN learners \ {l} : learners'[m] = learners[m]
    BY <2>1, <2>2 DEF ImportInv, TableOK
  <2>5. learners'[l] = [name |-> learners[l].name, profile |-> learners[l].profile,
                        level |-> level]
    BY <2>1, <2>4 DEF ImportInv, TableOK
  <2>6. TableOK'
    BY <2>2, <2>3, <2>4, <2>5 DEF ImportInv, TableOK
  <2> QED BY <2>3, <2>6 DEF GateOK
<1>4. imports' = imports /\ pending' = pending /\ rows' = rows
  BY DEF Register, ReadLevel, RaiseLevel, FirstLevel
<1>5. TableOK' /\ GateOK' /\ DOMAIN learners \subseteq DOMAIN learners'
  BY <1>1, <1>2, <1>3
<1> QED BY <1>4, <1>5, ImportsKept DEF ImportInv

LEMMA ImportInvInit == ImportInit => ImportInv
<1> SUFFICES ASSUME ImportInit PROVE ImportInv
  OBVIOUS
<1>1. DOMAIN learners = {} /\ learners = [l \in {} |-> learners[l]]
  BY DEF ImportInit
<1>2. raising = NoGate
  BY DEF ImportInit
<1>3. pending = [w \in Writer |-> pending[w]] /\ imports = [i \in Importer |-> imports[i]]
  BY DEF ImportInit, Init
<1>4. \A i \in Importer : RunOK(imports[i], DOMAIN learners)
  BY DEF ImportInit, RunOK
<1> QED BY <1>1, <1>2, <1>3, <1>4 DEF ImportInv, TableOK, GateOK

\* What a step leaves of the learners.
RowsOnlyForced ==
  \A i \in Importer, l \in DOMAIN learners :
     imports'[i] # imports[i] /\ learners'[l] # learners[l] =>
       /\ imports[i].force /\ l \in imports[i].saved
       /\ learners'[l].level >= learners[l].level

\* The gate's part of a step.
LEMMA ImportStep ==
  ASSUME ImportInv, [ImportNext]_importVars
  PROVE  /\ ImportInv' /\ DOMAIN learners \subseteq DOMAIN learners'
         /\ [Next]_vars /\ RowsOnlyForced
<1>1. CASE UNCHANGED importVars
  <2>1. UNCHANGED <<imports, learners, pending, raising, rows>>
    BY <1>1 DEF importVars
  <2>2. \A j \in Importer : RunOK(imports'[j], DOMAIN learners')
    BY <2>1 DEF ImportInv
  <2> QED BY <2>1, <2>2 DEF ImportInv, TableOK, GateOK, vars, RowsOnlyForced
<1>2. ASSUME NEW i \in Importer,
             \/ \E force \in BOOLEAN, bundles \in Exports : Start(i, force, bundles)
             \/ Allocate(i) \/ Snapshot(i)
      PROVE  /\ ImportInv' /\ DOMAIN learners \subseteq DOMAIN learners'
             /\ [Next]_vars /\ RowsOnlyForced
  <2>1. ImportInv'
    BY <1>2, StartOK, AllocateOK, SnapshotOK
  <2>2. UNCHANGED <<rows, pending, learners>>
    BY <1>2 DEF Start, Allocate, Snapshot
  <2> QED BY <2>1, <2>2 DEF vars, RowsOnlyForced
<1>3. ASSUME NEW i \in Importer, Write(i)
      PROVE  /\ ImportInv' /\ DOMAIN learners \subseteq DOMAIN learners'
             /\ [Next]_vars /\ RowsOnlyForced
  <2>1. UNCHANGED <<rows, pending>>
    BY <1>3 DEF Write
  <2>2. \A j \in Importer \ {i} : imports'[j] = imports[j]
    BY <1>3 DEF Write, ImportInv
  <2>3. RowsOnlyForced
    BY <1>3, <2>2, WriteOK DEF RowsOnlyForced
  <2> QED BY <1>3, <2>1, <2>3, WriteOK DEF vars
<1>4. ASSUME NEW i \in Importer, ReadForEvent(i)
      PROVE  /\ ImportInv' /\ DOMAIN learners \subseteq DOMAIN learners'
             /\ [Next]_vars /\ RowsOnlyForced
  <2> DEFINE run == imports[i]
             p == run.plan[run.at]
             body == Log[p.bundle][run.sent + 1]
  <2>1. ActiveRun(run, DOMAIN learners) /\ run.pc = "append"
    BY <1>4, RunType DEF ReadForEvent
  <2>2. p.bundle \in Bundle /\ p.id \in Learner /\ run.sent \in Nat
        /\ run.sent < Len(Log[p.bundle])
    BY <2>1 DEF ActiveRun, ItemOK
  <2>3. Log[p.bundle] \in Seq(Body)
    BY <2>2, ImportAssumption
  <2>4. body \in Body
    BY <2>2, <2>3
  <2>5. ReadLatest(i, p.id, body) /\ UNCHANGED <<learners, imports, raising>>
    BY <1>4 DEF ReadForEvent
  <2> HIDE DEF p, body
  <2>6. [Next]_vars
    BY <2>2, <2>4, <2>5, ImportAssumption DEF Next
  <2>7. pending' = [w \in Writer |-> pending'[w]]
    BY <2>5 DEF ReadLatest, ImportInv
  <2>8. ImportInv'
    BY <2>5, <2>7, ImportsKept DEF ImportInv, TableOK, GateOK
  <2> QED BY <2>5, <2>6, <2>8 DEF RowsOnlyForced
<1>5. ASSUME NEW i \in Importer, InsertEvent(i)
      PROVE  /\ ImportInv' /\ DOMAIN learners \subseteq DOMAIN learners'
             /\ [Next]_vars /\ RowsOnlyForced
  <2>1. Insert(i) /\ learners' = learners
    BY <1>5 DEF InsertEvent
  <2>2. [Next]_vars
    BY <2>1, ImportAssumption DEF Next
  <2> QED BY <1>5, <2>1, <2>2, InsertEventOK DEF RowsOnlyForced
<1>6. ASSUME NEW i \in Importer, Abort(i)
      PROVE  /\ ImportInv' /\ DOMAIN learners \subseteq DOMAIN learners'
             /\ [Next]_vars /\ RowsOnlyForced
  <2>1. UNCHANGED <<learners, rows>> /\ pending' = [pending EXCEPT ![i] = Nothing]
    BY <1>6 DEF Abort
  <2>2. Lose(i) \/ UNCHANGED vars
    <3>1. CASE pending[i] = Nothing
      BY <2>1, <3>1 DEF ImportInv, vars
    <3>2. CASE pending[i] # Nothing
      BY <2>1, <3>2 DEF Lose
    <3> QED BY <3>1, <3>2
  <2>3. [Next]_vars
    BY <2>2, ImportAssumption DEF Next
  <2> QED BY <1>6, <2>1, <2>3, AbortOK DEF RowsOnlyForced
<1>7. ASSUME \/ \E l \in Native, name \in UserName : Register(l, name)
             \/ \E l \in DOMAIN learners : ReadLevel(l)
             \/ RaiseLevel \/ FirstLevel
      PROVE  /\ ImportInv' /\ DOMAIN learners \subseteq DOMAIN learners'
             /\ [Next]_vars /\ RowsOnlyForced
  <2>1. /\ ImportInv' /\ imports' = imports /\ pending' = pending /\ rows' = rows
        /\ DOMAIN learners \subseteq DOMAIN learners'
    BY <1>7, BackendOK
  <2> QED BY <2>1 DEF vars, RowsOnlyForced
<1>8. ASSUME BackendAppend
      PROVE  /\ ImportInv' /\ DOMAIN learners \subseteq DOMAIN learners'
             /\ [Next]_vars /\ RowsOnlyForced
  <2>1. UNCHANGED <<learners, imports, raising>>
    BY <1>8 DEF BackendAppend
  <2>2. DOMAIN learners \subseteq Learner /\ Activity \subseteq Body /\ Backend \in Writer
    BY ImportAssumption DEF ImportInv, TableOK
  <2>3. [Next]_vars
    BY <1>8, <2>2 DEF BackendAppend, Next
  <2>4. pending' = [w \in Writer |-> pending'[w]]
    BY <1>8 DEF BackendAppend, ReadLatest, Insert, Lose, ImportInv
  <2>5. ImportInv'
    BY <2>1, <2>4, ImportsKept DEF ImportInv, TableOK, GateOK
  <2> QED BY <2>1, <2>3, <2>5 DEF RowsOnlyForced
<1> QED
  BY <1>1, <1>2, <1>3, <1>4, <1>5, <1>6, <1>7, <1>8 DEF ImportNext

-----------------------------------------------------------------------------
(* Theorems                                                                *)

LEMMA ImportImplementsLedger == ImportSpec => Spec
<1>1. ImportInit => Init
  BY DEF ImportInit
<1> QED
  BY <1>1, ImportInvInit, ImportStep, PTL DEF ImportSpec, Spec

(***************************************************************************)
(* The events an import writes (v2_migrate.py, _append_event) hang on the  *)
(* ledger beside those of the backend, through aborts and lost inserts.    *)
(***************************************************************************)
THEOREM ImportChainRooted == ImportSpec => []ChainRooted
BY ImportImplementsLedger, ChainRootedHolds, PTL

(***************************************************************************)
(* While one importer alone appends, or the backend alone does, each       *)
(* learner's ledger is one chain.                                          *)
(***************************************************************************)
THEOREM ImportLinearAlone == ImportSpec => LinearAlone
BY ImportImplementsLedger, LinearAloneHolds, PTL

(***************************************************************************)
(* An import is additive (v2_migrate.py, import_source): it touches the    *)
(* row of a learner that was there only in a forced run with that learner  *)
(* in its archive, and lowers no level.                                    *)
(***************************************************************************)
THEOREM ImportAdditive == ImportSpec => Additive
<1>1. ImportInv /\ [ImportNext]_importVars => ImportInv'
  BY ImportStep
<1>2. ASSUME ImportInv, [ImportNext]_importVars
      PROVE  [\A i \in Importer, l \in DOMAIN learners :
                imports'[i] # imports[i] /\ learners'[l] # learners[l] =>
                  /\ imports[i].force /\ l \in imports[i].saved
                  /\ learners'[l].level >= learners[l].level]_importVars
  BY <1>2, ImportStep DEF RowsOnlyForced
<1> QED BY <1>1, <1>2, ImportInvInit, PTL DEF ImportSpec, Additive

\* With no forced run only the backend writes to a learner who is there.
LEMMA GateStep ==
  ASSUME ImportInv, Unforced, ReadIsCurrent, [ImportNext]_importVars
  PROVE  ReadIsCurrent'
<1>1. CASE UNCHANGED <<learners, raising>>
  BY <1>1 DEF ReadIsCurrent
<1>2. CASE raising' = NoGate
  BY <1>2 DEF ReadIsCurrent
<1>3. ASSUME NEW i \in Importer, Write(i)
      PROVE  ReadIsCurrent'
  <2>1. imports[i].pc # "idle" /\ raising' = raising
    BY <1>3 DEF Write
  <2>2. ~imports[i].force
    BY <2>1 DEF Unforced
  <2>3. \A l \in DOMAIN learners : learners'[l] = learners[l]
    BY <1>3, <2>2, WriteOK
  <2> QED BY <2>1, <2>3 DEF ReadIsCurrent, ImportInv, GateOK
<1>4. ASSUME NEW l \in Native, NEW name \in UserName, Register(l, name)
      PROVE  ReadIsCurrent'
  <2>1. \A m \in DOMAIN learners : learners'[m] = learners[m]
    BY <1>4 DEF Register
  <2>2. raising' = raising
    BY <1>4 DEF Register
  <2> QED BY <2>1, <2>2 DEF ReadIsCurrent, ImportInv, GateOK
<1>5. ASSUME NEW l \in DOMAIN learners, ReadLevel(l)
      PROVE  ReadIsCurrent'
  BY <1>5 DEF ReadLevel, ReadIsCurrent
<1> QED
  BY <1>1, <1>2, <1>3, <1>4, <1>5
     DEF ImportNext, importVars, Start, Allocate, Snapshot, ReadForEvent, InsertEvent, Abort,
         RaiseLevel, FirstLevel, BackendAppend

(***************************************************************************)
(* As long as no import is forced, what a gate has read is what it         *)
(* overwrites (gates.py, increment_competencies), whatever is imported in  *)
(* between.                                                                *)
(***************************************************************************)
THEOREM ImportKeepsLevels == ImportSpec => LevelsKept
<1>1. ImportInit => ReadIsCurrent
  BY DEF ImportInit, ReadIsCurrent
<1>2. ImportInv /\ [ImportNext]_importVars => ImportInv'
  BY ImportStep
<1>3. ImportInv /\ Unforced /\ ReadIsCurrent /\ [ImportNext]_importVars => ReadIsCurrent'
  BY GateStep
<1> QED BY <1>1, <1>2, <1>3, ImportInvInit, PTL DEF ImportSpec, LevelsKept

-----------------------------------------------------------------------------
(* How far a run has come                                                  *)

\* The first n events of p are in the ledger, in their order.
LoggedTo(p, from, n) ==
  \E at \in [1..n -> (from + 1)..Len(rows)] :
     \A k \in 1..n :
        /\ rows[at[k]].learner = p.id
        /\ rows[at[k]].hash = EventHash(p.id, Log[p.bundle][k], rows[at[k]].prev)
        /\ \A j \in 1..(k - 1) : at[j] < at[k]

Whole(p, from) == p.id \in DOMAIN learners /\ Logged(p, from)

\* A run, and the event it has read the predecessor of.
Progress(run, mine) ==
  /\ run.pc # "append" => mine = Nothing
  /\ run.pc # "idle" => run.from \in Nat /\ run.from <= Len(rows)
  /\ run.pc \in {"write", "append"} =>
       \A k \in 1..(run.at - 1) : Whole(run.plan[k], run.from)
  /\ run.pc = "append" =>
       LET p == run.plan[run.at] IN
       /\ p.id \in DOMAIN learners /\ LoggedTo(p, run.from, run.sent)
       /\ mine # Nothing =>
            mine.learner = p.id /\ mine.body = Log[p.bundle][run.sent + 1]
  /\ run.pc = "told" => \A k \in DOMAIN run.plan : Whole(run.plan[k], run.from)

WholeInv ==
  /\ ImportInv /\ Inv
  /\ \A i \in Importer : Progress(imports[i], pending[i])

\* Nothing is taken out of the ledger or of the learners.
Grows ==
  /\ Len(rows) \in Nat /\ Len(rows') \in Nat /\ Len(rows) <= Len(rows')
  /\ DOMAIN rows = 1..Len(rows) /\ \A n \in DOMAIN rows : rows'[n] = rows[n]
  /\ DOMAIN learners \subseteq DOMAIN learners'

LEMMA StepGrows ==
  ASSUME ImportInv, Inv, [ImportNext]_importVars
  PROVE  Grows
<1>1. [Next]_vars /\ DOMAIN learners \subseteq DOMAIN learners'
  BY ImportStep
<1>2. IsTable /\ Len(rows) \in Nat /\ DOMAIN rows = 1..Len(rows)
  BY TableShape DEF Inv
<1>3. CASE rows' = rows
  BY <1>1, <1>2, <1>3 DEF Grows
<1>4. ASSUME NEW w \in Writer, Insert(w) PROVE Grows
  BY <1>1, <1>2, <1>4, Inserted DEF Grows
<1> QED BY <1>1, <1>3, <1>4 DEF Next, ReadLatest, Lose, vars

LEMMA LoggedKept ==
  ASSUME Grows, NEW p, NEW from \in Nat, NEW n \in Nat, LoggedTo(p, from, n)
  PROVE  LoggedTo(p, from, n)'
<1>1. PICK at \in [1..n -> (from + 1)..Len(rows)] :
        \A k \in 1..n :
           /\ rows[at[k]].learner = p.id
           /\ rows[at[k]].hash = EventHash(p.id, Log[p.bundle][k], rows[at[k]].prev)
           /\ \A j \in 1..(k - 1) : at[j] < at[k]
  BY DEF LoggedTo
<1>2. \A k \in 1..n : at[k] \in DOMAIN rows
  BY DEF Grows
<1>3. \A k \in 1..n : rows'[at[k]] = rows[at[k]]
  BY <1>2 DEF Grows
<1>4. at \in [1..n -> (from + 1)..Len(rows')]
  BY DEF Grows
<1>5. \A k \in 1..n :
        /\ rows'[at[k]].learner = p.id
        /\ rows'[at[k]].hash = EventHash(p.id, Log[p.bundle][k], rows'[at[k]].prev)
        /\ \A j \in 1..(k - 1) : at[j] < at[k]
  BY <1>1, <1>3
<1> QED BY <1>4, <1>5 DEF LoggedTo

LEMMA LogShape ==
  ASSUME NEW b \in Bundle
  PROVE  /\ Len(Log[b]) \in Nat /\ Len(Log[b]) > 0 /\ DOMAIN Log[b] = 1..Len(Log[b])
         /\ \A k \in 1..Len(Log[b]) : Log[b][k] \in Body
BY ImportAssumption

LEMMA WholeKept ==
  ASSUME Grows, NEW p, p.bundle \in Bundle, NEW from \in Nat, Whole(p, from)
  PROVE  Whole(p, from)'
<1>1. LoggedTo(p, from, Len(Log[p.bundle]))
  BY LogShape DEF Whole, Logged, LoggedTo
<1>2. LoggedTo(p, from, Len(Log[p.bundle]))'
  BY <1>1, LogShape, LoggedKept
<1> QED BY <1>2, LogShape DEF Whole, Logged, LoggedTo, Grows

\* The event a run inserts is the next one of its bundle.
LEMMA LoggedMore ==
  ASSUME IsTable, Grows, NEW i \in Writer, Insert(i), NEW p, NEW from \in Nat, NEW n \in Nat,
         from <= Len(rows), LoggedTo(p, from, n),
         pending[i].learner = p.id, pending[i].body = Log[p.bundle][n + 1]
  PROVE  LoggedTo(p, from, n + 1)'
<1>1. PICK at \in [1..n -> (from + 1)..Len(rows)] :
        \A k \in 1..n :
           /\ rows[at[k]].learner = p.id
           /\ rows[at[k]].hash = EventHash(p.id, Log[p.bundle][k], rows[at[k]].prev)
           /\ \A j \in 1..(k - 1) : at[j] < at[k]
  BY DEF LoggedTo
<1> DEFINE last == Len(rows) + 1
           to == [k \in 1..(n + 1) |-> IF k = n + 1 THEN last ELSE at[k]]
<1>2. /\ Len(rows) \in Nat /\ DOMAIN rows = 1..Len(rows) /\ Len(rows') = last
      /\ \A k \in DOMAIN rows : rows'[k] = rows[k]
      /\ rows'[last] = RowOf(pending[i])
  BY Inserted
<1>3. to \in [1..(n + 1) -> (from + 1)..Len(rows')]
  BY <1>2
<1>4. to[n + 1] = last /\ \A k \in 1..n : to[k] = at[k] /\ at[k] \in DOMAIN rows /\ at[k] < last
  BY <1>2
<1>5. /\ rows'[last].learner = p.id
      /\ rows'[last].hash = EventHash(p.id, Log[p.bundle][n + 1], rows'[last].prev)
  BY <1>2 DEF RowOf
<1> HIDE DEF to, last
<1>6. ASSUME NEW k \in 1..(n + 1)
      PROVE  /\ rows'[to[k]].learner = p.id
             /\ rows'[to[k]].hash = EventHash(p.id, Log[p.bundle][k], rows'[to[k]].prev)
             /\ \A j \in 1..(k - 1) : to[j] < to[k]
  <2>1. CASE k = n + 1
    BY <1>4, <1>5, <2>1
  <2>2. CASE k \in 1..n
    <3>1. rows'[to[k]] = rows[at[k]]
      BY <1>2, <1>4, <2>2
    <3>2. \A j \in 1..(k - 1) : to[j] < to[k]
      BY <1>1, <1>4, <2>2
    <3> QED BY <1>1, <2>2, <3>1, <3>2
  <2> QED BY <2>1, <2>2
<1> QED BY <1>3, <1>6 DEF LoggedTo

LEMMA ProgressKept ==
  ASSUME Grows, NEW run, NEW mine, NEW ids, RunOK(run, ids), Progress(run, mine)
  PROVE  Progress(run, mine)'
<1>1. CASE run = Idle
  BY <1>1 DEF Progress, Idle
<1>2. CASE ActiveRun(run, ids)
  <2>1. run.from \in Nat /\ run.from <= Len(rows')
    BY <1>2 DEF Progress, ActiveRun, Grows
  <2>2. \A k \in DOMAIN run.plan : run.plan[k].bundle \in Bundle
    BY <1>2 DEF ActiveRun, ItemOK
  <2>3. PICK S : run.plan \in Seq(S)
    BY <1>2 DEF ActiveRun, IsSeq
  <2>4. run.at \in Nat /\ run.sent \in Nat
    BY <1>2 DEF ActiveRun
  <2>5. ASSUME run.pc \in {"write", "append"}
        PROVE  \A k \in 1..(run.at - 1) : Whole(run.plan[k], run.from)'
    <3>1. run.at \in DOMAIN run.plan
      BY <1>2, <2>5 DEF ActiveRun
    <3>2. \A k \in 1..(run.at - 1) : k \in DOMAIN run.plan
      BY <2>3, <2>4, <3>1
    <3>3. \A k \in 1..(run.at - 1) : Whole(run.plan[k], run.from)
      BY <2>5 DEF Progress
    <3> QED BY <2>1, <2>2, <3>2, <3>3, WholeKept
  <2>6. ASSUME run.pc = "told"
        PROVE  \A k \in DOMAIN run.plan : Whole(run.plan[k], run.from)'
    BY <2>1, <2>2, <2>6, WholeKept DEF Progress
  <2>7. ASSUME run.pc = "append"
        PROVE  LoggedTo(run.plan[run.at], run.from, run.sent)'
    BY <2>1, <2>4, <2>7, LoggedKept DEF Progress
  <2> QED BY <2>1, <2>5, <2>6, <2>7 DEF Progress, Grows
<1> QED BY <1>1, <1>2 DEF RunOK

\* A step that is not this run's.
LEMMA OthersProgress ==
  ASSUME WholeInv, Grows, NEW j \in Importer, imports'[j] = imports[j], pending'[j] = pending[j]
  PROVE  Progress(imports[j], pending[j])'
<1>1. PICK run : run = imports[j]
  OBVIOUS
<1>2. PICK mine : mine = pending[j]
  OBVIOUS
<1>3. PICK ids : ids = DOMAIN learners
  OBVIOUS
<1>4. RunOK(run, ids) /\ Progress(run, mine)
  BY <1>1, <1>2, <1>3 DEF WholeInv, ImportInv
<1>5. Progress(run, mine)'
  BY <1>4, ProgressKept
<1> QED BY <1>1, <1>2, <1>5

\* What a run knew before its step holds after it.
LEMMA OldProgress ==
  ASSUME WholeInv, Grows, NEW i \in Importer, imports[i].pc \notin {"idle", "told"},
         NEW old, old = imports[i]
  PROVE  /\ IsRun(old) /\ IsSeq(old.plan) /\ old.at \in Nat \ {0} /\ old.sent \in Nat
         /\ old.from \in Nat /\ old.from <= Len(rows)
         /\ \A k \in DOMAIN old.plan : old.plan[k].bundle \in Bundle
         /\ old.pc \in {"allocate", "snapshot"} => old.at = 1
         /\ old.pc # "append" => pending[i] = Nothing
         /\ old.pc \in {"write", "append"} =>
              /\ old.at \in DOMAIN old.plan
              /\ \A k \in 1..(old.at - 1) : Whole(old.plan[k], old.from)'
         /\ old.pc = "append" =>
              LET p == old.plan[old.at] IN
              /\ old.sent < Len(Log[p.bundle]) /\ p.id \in DOMAIN learners
              /\ LoggedTo(p, old.from, old.sent) /\ LoggedTo(p, old.from, old.sent)'
              /\ pending[i] # Nothing =>
                   /\ pending[i].learner = p.id
                   /\ pending[i].body = Log[p.bundle][old.sent + 1]
<1>1. PICK mine : mine = pending[i]
  OBVIOUS
<1>2. PICK ids : ids = DOMAIN learners
  OBVIOUS
<1>3. ActiveRun(old, ids) /\ Progress(old, mine)
  BY <1>1, <1>2, RunType DEF WholeInv
<1>4. Progress(old, mine)'
  BY <1>3, ProgressKept DEF RunOK
<1>5. \A k \in DOMAIN old.plan : old.plan[k].bundle \in Bundle
  BY <1>3 DEF ActiveRun, ItemOK
<1>6. /\ IsRun(old) /\ IsSeq(old.plan) /\ old.at \in Nat \ {0} /\ old.sent \in Nat
      /\ old.pc \in {"allocate", "snapshot"} => old.at = 1
      /\ old.pc \in {"write", "append"} => old.at \in DOMAIN old.plan
      /\ old.pc = "append" => old.sent < Len(Log[old.plan[old.at].bundle])
  BY <1>3 DEF ActiveRun
<1>7. old.pc # "idle"
  OBVIOUS
<1> QED BY <1>1, <1>3, <1>4, <1>5, <1>6, <1>7 DEF Progress

LEMMA EarlyProgress ==
  ASSUME WholeInv, Grows, NEW i \in Importer,
         \/ \E force \in BOOLEAN, bundles \in Exports : Start(i, force, bundles)
         \/ Allocate(i) \/ Snapshot(i) \/ Abort(i)
  PROVE  Progress(imports[i], pending[i])'
<1>1. PICK new : new = imports'[i]
  OBVIOUS
<1>0. PICK mine : mine = pending'[i]
  OBVIOUS
<1>2. i \in Writer /\ imports = [j \in Importer |-> imports[j]]
      /\ pending = [w \in Writer |-> pending[w]]
  BY ImportAssumption DEF WholeInv, ImportInv
<1>3. ASSUME NEW force \in BOOLEAN, NEW bundles \in Exports, Start(i, force, bundles)
      PROVE  Progress(new, mine)'
  <2>1. new.pc = "allocate" /\ new.from = Len(rows) /\ pending' = pending
    BY <1>1, <1>2, <1>3 DEF Start
  <2>2. pending[i] = Nothing
    BY <1>3 DEF Start, WholeInv, Progress
  <2> QED BY <1>0, <2>1, <2>2 DEF Progress, Grows
<1>4. ASSUME Allocate(i) \/ Snapshot(i)
      PROVE  Progress(new, mine)'
  <2>1. PICK old : old = imports[i]
    OBVIOUS
  <2>2. old.pc \in {"allocate", "snapshot"} /\ pending' = pending
    BY <1>4, <2>1 DEF Allocate, Snapshot
  <2>3. IsRun(old) /\ old.at = 1 /\ old.from \in Nat /\ old.from <= Len(rows)
        /\ pending[i] = Nothing
    BY <2>1, <2>2, OldProgress
  <2>4. /\ new.from = old.from /\ new.at = old.at
        /\ new.pc \in {"allocate", "snapshot", "write"}
    <3>1. CASE Allocate(i)
      <4>1. PICK plan :
              imports' = [imports EXCEPT ![i].plan = plan,
                            ![i].pc = AfterAllocation(old.force, plan, old.bundles)]
        BY <2>1, <3>1 DEF Allocate
      <4>2. PICK pc : pc = AfterAllocation(old.force, plan, old.bundles)
        OBVIOUS
      <4>3. pc \in {"allocate", "snapshot", "write"}
        BY <4>2 DEF AfterAllocation
      <4>4. new = [old EXCEPT !.plan = plan, !.pc = pc]
        BY <1>1, <1>2, <2>1, <4>1, <4>2
      <4> QED BY <2>3, <4>3, <4>4 DEF IsRun, Fields
    <3>2. CASE Snapshot(i)
      BY <1>1, <1>2, <2>1, <2>3, <3>2 DEF Snapshot, IsRun, Fields
    <3> QED BY <1>4, <3>1, <3>2
  <2> QED BY <1>0, <2>2, <2>3, <2>4 DEF Progress, Grows
<1>5. ASSUME Abort(i)
      PROVE  Progress(new, mine)'
  <2>1. new = Idle /\ pending'[i] = Nothing
    BY <1>1, <1>2, <1>5 DEF Abort
  <2> QED BY <1>0, <2>1 DEF Progress, Idle
<1> QED BY <1>0, <1>1, <1>3, <1>4, <1>5

LEMMA WriteProgress ==
  ASSUME WholeInv, Grows, NEW i \in Importer, Write(i)
  PROVE  Progress(imports[i], pending[i])'
<1>1. PICK old : old = imports[i]
  OBVIOUS
<1>2. PICK new : new = imports'[i]
  OBVIOUS
<1>3. old.pc = "write" /\ rows' = rows /\ pending' = pending
      /\ old.plan[old.at].id \in DOMAIN learners'
  BY <1>1 DEF Write
<1>4. /\ IsRun(old) /\ old.from \in Nat /\ old.from <= Len(rows) /\ pending[i] = Nothing
      /\ \A k \in 1..(old.at - 1) : Whole(old.plan[k], old.from)'
  BY <1>1, <1>3, OldProgress
<1>5. /\ new.pc = "append" /\ new.plan = old.plan /\ new.at = old.at /\ new.sent = 0
      /\ new.from = old.from
  BY <1>1, <1>2, <1>4 DEF Write, WholeInv, ImportInv, IsRun, Fields
<1>6. LoggedTo(old.plan[old.at], old.from, 0)'
  <2>1. 1..0 = {}
    OBVIOUS
  <2>2. [k \in {} |-> k] \in [1..0 -> (old.from + 1)..Len(rows')]
    BY <2>1
  <2> QED BY <2>1, <2>2 DEF LoggedTo
<1>7. Progress(new, Nothing)'
  BY <1>3, <1>4, <1>5, <1>6 DEF Progress, Grows
<1> QED BY <1>2, <1>3, <1>4, <1>7

LEMMA ReadProgress ==
  ASSUME WholeInv, Grows, NEW i \in Importer, ReadForEvent(i)
  PROVE  Progress(imports[i], pending[i])'
<1>1. PICK old : old = imports[i]
  OBVIOUS
<1>2. PICK mine : mine = pending'[i]
  OBVIOUS
<1>3. old.pc = "append" /\ imports' = imports /\ learners' = learners
  BY <1>1 DEF ReadForEvent
<1>4. /\ old.from \in Nat /\ old.from <= Len(rows)
      /\ \A k \in 1..(old.at - 1) : Whole(old.plan[k], old.from)'
      /\ old.plan[old.at].id \in DOMAIN learners
      /\ LoggedTo(old.plan[old.at], old.from, old.sent)'
  BY <1>1, <1>3, OldProgress
<1>5. /\ mine.learner = old.plan[old.at].id
      /\ mine.body = Log[old.plan[old.at].bundle][old.sent + 1]
  BY <1>1, <1>2, ImportAssumption DEF ReadForEvent, ReadLatest, WholeInv, ImportInv
<1>6. Progress(old, mine)'
  BY <1>3, <1>4, <1>5 DEF Progress, Grows
<1> QED BY <1>1, <1>2, <1>3, <1>6

LEMMA InsertProgress ==
  ASSUME WholeInv, Grows, NEW i \in Importer, InsertEvent(i)
  PROVE  Progress(imports[i], pending[i])'
<1>1. PICK old : old = imports[i]
  OBVIOUS
<1>2. PICK new : new = imports'[i]
  OBVIOUS
<1> DEFINE p == old.plan[old.at]
<1>3. old.pc = "append" /\ Insert(i) /\ learners' = learners /\ i \in Writer
      /\ imports' = [imports EXCEPT ![i] = AfterEvent(old)]
  BY <1>1, ImportAssumption DEF InsertEvent
<1>4. pending[i] # Nothing /\ pending'[i] = Nothing
  BY <1>3 DEF Insert, WholeInv, ImportInv
<1>5. /\ IsRun(old) /\ IsSeq(old.plan) /\ old.at \in Nat \ {0} /\ old.sent \in Nat
      /\ old.from \in Nat /\ old.from <= Len(rows) /\ old.at \in DOMAIN old.plan
      /\ p.bundle \in Bundle /\ p.id \in DOMAIN learners
      /\ \A k \in 1..(old.at - 1) : Whole(old.plan[k], old.from)'
      /\ old.sent < Len(Log[p.bundle]) /\ LoggedTo(p, old.from, old.sent)
      /\ pending[i].learner = p.id /\ pending[i].body = Log[p.bundle][old.sent + 1]
  BY <1>1, <1>3, <1>4, OldProgress
<1>6. LoggedTo(p, old.from, old.sent + 1)'
  <2> HIDE DEF p
  <2> QED BY <1>3, <1>5, LoggedMore DEF WholeInv, Inv
<1>7. new = AfterEvent(old)
  BY <1>2, <1>3 DEF WholeInv, ImportInv
<1>8. old.from <= Len(rows')
  BY <1>5 DEF Grows
<1>9. CASE old.sent + 1 < Len(Log[p.bundle])
  <2>1. /\ new.pc = "append" /\ new.plan = old.plan /\ new.at = old.at
        /\ new.sent = old.sent + 1 /\ new.from = old.from
    BY <1>3, <1>5, <1>7, <1>9 DEF AfterEvent, IsRun, Fields
  <2>2. Progress(new, Nothing)'
    BY <1>3, <1>5, <1>6, <1>8, <2>1 DEF Progress
  <2> QED BY <1>2, <1>4, <2>2
<1>10. CASE ~(old.sent + 1 < Len(Log[p.bundle]))
  <2>1. Whole(p, old.from)'
    <3> HIDE DEF p
    <3>1. Len(Log[p.bundle]) = old.sent + 1 /\ DOMAIN Log[p.bundle] = 1..(old.sent + 1)
      BY <1>5, <1>10, LogShape
    <3> QED BY <1>3, <1>5, <1>6, <3>1 DEF Whole, Logged, LoggedTo
  <2>2. \A k \in 1..old.at : Whole(old.plan[k], old.from)'
    <3> SUFFICES ASSUME NEW k \in 1..old.at PROVE Whole(old.plan[k], old.from)'
      OBVIOUS
    <3>1. k = old.at \/ k \in 1..(old.at - 1)
      BY <1>5
    <3> QED BY <1>5, <2>1, <3>1
  <2>3. CASE old.at < Len(old.plan)
    <3>1. /\ new.pc = "write" /\ new.plan = old.plan /\ new.at = old.at + 1
          /\ new.from = old.from
      BY <1>5, <1>7, <1>10, <2>3 DEF AfterEvent, IsRun, Fields
    <3>2. 1..(new.at - 1) = 1..old.at
      BY <1>5, <3>1
    <3>3. Progress(new, Nothing)'
      BY <1>5, <1>8, <2>2, <3>1, <3>2 DEF Progress
    <3> QED BY <1>2, <1>4, <3>3
  <2>4. CASE ~(old.at < Len(old.plan))
    <3>1. new.pc = "told" /\ new.plan = old.plan /\ new.from = old.from
      BY <1>5, <1>7, <1>10, <2>4 DEF AfterEvent, IsRun, Fields
    <3>2. DOMAIN old.plan = 1..old.at
      <4>1. PICK S : old.plan \in Seq(S)
        BY <1>5 DEF IsSeq
      <4> QED BY <1>5, <2>4, <4>1
    <3>3. Progress(new, Nothing)'
      BY <1>5, <1>8, <2>2, <3>1, <3>2 DEF Progress
    <3> QED BY <1>2, <1>4, <3>3
  <2> QED BY <2>3, <2>4
<1> QED BY <1>9, <1>10

LEMMA WholeNext ==
  ASSUME WholeInv, [ImportNext]_importVars
  PROVE  WholeInv'
<1>1. ImportInv' /\ Inv' /\ Grows
  BY ImportStep, InvNext, StepGrows DEF WholeInv
<1>2. SUFFICES ASSUME NEW i \in Importer PROVE Progress(imports[i], pending[i])'
  BY <1>1 DEF WholeInv
<1>3. imports = [j \in Importer |-> imports[j]] /\ pending = [w \in Writer |-> pending[w]]
      /\ Backend \notin Importer /\ Importer \subseteq Writer
  BY ImportAssumption DEF WholeInv, ImportInv
<1>4. CASE UNCHANGED importVars
  BY <1>1, <1>4, OthersProgress DEF importVars
<1>5. ASSUME NEW j \in Importer,
             \/ \E force \in BOOLEAN, bundles \in Exports : Start(j, force, bundles)
             \/ Allocate(j) \/ Snapshot(j) \/ Write(j)
             \/ ReadForEvent(j) \/ InsertEvent(j) \/ Abort(j)
      PROVE  Progress(imports[i], pending[i])'
  <2>1. CASE j = i
    BY <1>1, <1>5, <2>1, EarlyProgress, WriteProgress, ReadProgress, InsertProgress
  <2>2. CASE j # i
    <3>1. imports'[i] = imports[i]
      BY <1>3, <1>5, <2>2
         DEF Start, Allocate, Snapshot, Write, ReadForEvent, InsertEvent, Abort
    <3>2. pending'[i] = pending[i]
      BY <1>3, <1>5, <2>2
         DEF Start, Allocate, Snapshot, Write, ReadForEvent, InsertEvent, Abort,
             ReadLatest, Insert
    <3> QED BY <1>1, <3>1, <3>2, OthersProgress
  <2> QED BY <2>1, <2>2
<1>6. ASSUME \/ \E l \in Native, name \in UserName : Register(l, name)
             \/ \E l \in DOMAIN learners : ReadLevel(l)
             \/ RaiseLevel \/ FirstLevel
      PROVE  Progress(imports[i], pending[i])'
  BY <1>1, <1>6, OthersProgress DEF Register, ReadLevel, RaiseLevel, FirstLevel
<1>7. ASSUME BackendAppend
      PROVE  Progress(imports[i], pending[i])'
  <2>1. imports' = imports
    BY <1>7 DEF BackendAppend
  <2>2. pending'[i] = pending[i]
    BY <1>3, <1>7 DEF BackendAppend, ReadLatest, Insert, Lose
  <2> QED BY <1>1, <2>1, <2>2, OthersProgress
<1> QED BY <1>4, <1>5, <1>6, <1>7 DEF ImportNext

(***************************************************************************)
(* An import that told its ids is whole: every learner is there with every *)
(* event of the bundle, in order (v2_migrate.py, import_source), whatever  *)
(* other runs, their aborts and the backend did meanwhile.                 *)
(***************************************************************************)
THEOREM ImportWholeWhenTold == ImportSpec => []WholeWhenTold
<1>1. ImportInit => WholeInv
  <2> SUFFICES ASSUME ImportInit PROVE WholeInv
    OBVIOUS
  <2>1. \A i \in Importer : imports[i] = Idle /\ pending[i] = Nothing
    BY ImportAssumption DEF ImportInit, Init
  <2>2. \A i \in Importer : Progress(imports[i], pending[i])
    BY <2>1 DEF Progress, Idle
  <2> QED BY <2>2, ImportInvInit, InvInit DEF WholeInv, ImportInit
<1>2. WholeInv => WholeWhenTold
  <2> SUFFICES ASSUME WholeInv, NEW i \in Importer, imports[i].pc = "told",
                      NEW p \in ToSet(imports[i].plan)
               PROVE  p.id \in DOMAIN learners /\ Logged(p, imports[i].from)
    BY DEF WholeWhenTold
  <2>1. PICK k \in DOMAIN imports[i].plan : p = imports[i].plan[k]
    BY DEF ToSet
  <2> QED BY <2>1 DEF WholeInv, Progress, Whole
<1> QED BY <1>1, <1>2, WholeNext, PTL DEF ImportSpec
=============================================================================
