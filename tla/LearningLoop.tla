---------------------------- MODULE LearningLoop ----------------------------
(***************************************************************************)
(* The V2 runtime (learning_os): missions, evidence, gate, competencies,   *)
(* the autonomy ratchet, spaced retention and side quests, kept in JSON    *)
(* files under tracking/.                                                  *)
(*                                                                         *)
(* A call is a list of steps.  A step reads one file whole and may rewrite *)
(* it, and what it read decides which steps follow.  Reading, truncating   *)
(* and writing are three moments of their own: the command line runs one   *)
(* command after the other, while the dashboard server answers requests in *)
(* threads of another process, and nothing locks the files.                *)
(***************************************************************************)
EXTENDS Integers, Sequences, FiniteSets

CONSTANTS
  Mission, Competency,
  Competencies,    \* [Mission -> Seq(Competency)], of the catalog
  Records,         \* the evidence a learner may hand in
  HandSignals,     \* what may be given to `autonomy evaluate` by hand
  INTERVALS_DAYS,  \* days until the retrieval of each stage
  REPAIR_DAYS,     \* days until a failed one is tried again
  Levels,          \* the autonomy levels of the policy are 1..Levels
  Dashboard,       \* request threads of the dashboard server
  MaxCalls,        \* Bound: commands and cuts, and requests twice
  MaxDay,          \* Bound: the last day
  Torn, None

VARIABLES
  file,    \* [File -> content, or Torn when it cannot be parsed]
  call,    \* [Caller -> the call it is in]
  day,     \* the clock
  count,   \* how much of MaxCalls is spent
  told,    \* history: what finished commands have reported
  harmed   \* history: a call was cut short, or a stale copy was written back

vars == <<file, call, day, count, told, harmed>>

Cli    == "cli"
Caller == {Cli} \cup Dashboard
File   == {"learner", "sessions", "evidence", "model", "retention", "quests", "autonomy"}

Record == [mission : Mission, type : STRING, explanation : BOOLEAN, transfer : BOOLEAN,
           no_ai : BOOLEAN, competencies : SUBSET Competency]
Stage  == 0..(Len(INTERVALS_DAYS) - 1)
Open   == {"SCHEDULED", "DUE"}
Learner == [current : Mission \cup {None}, status : [Mission -> {"NEW", "IN_PROGRESS", "PASSED"}]]

ASSUME LoopAssumption ==
  /\ Competencies \in [Mission -> Seq(Competency)]
  /\ Records \subseteq Record
  /\ INTERVALS_DAYS \in Seq(Nat) /\ Len(INTERVALS_DAYS) > 0
  /\ REPAIR_DAYS \in Nat
  /\ Levels \in Nat \ {0}
  /\ {MaxCalls, MaxDay} \subseteq Nat
  /\ None \notin Mission /\ Cli \notin Dashboard

(***************************************************************************)
(* The gate and the levels, as functions of evidence.                      *)
(***************************************************************************)

Deliverable == {"artifact", "lab", "build", "review"}

ForMission(evidence, m) ==
  {evidence[i] : i \in {j \in DOMAIN evidence : evidence[j].mission = m}}

Shows(r, x) ==
  \/ x = "artifact"    /\ r.type \in Deliverable
  \/ x = "explanation" /\ r.explanation
  \/ x = "transfer"    /\ r.transfer
  \/ x = "no_ai"       /\ r.no_ai

Missing(rs) ==
  {x \in {"artifact", "explanation", "transfer", "no_ai"} : \A r \in rs : ~Shows(r, x)}

Evaluate(evidence, m) ==
  LET rs == ForMission(evidence, m) IN
  CASE Missing(rs) = {} -> "PASS"
    [] Missing(rs) # {} /\ rs # {} /\ Cardinality(Missing(rs)) <= 2 -> "PARTIAL"
    [] OTHER -> "FAIL"

Increase == {"successful_no_ai_gate", "successful_transfer", "successful_review"}
Decrease == {"dependency_without_understanding", "failed_transfer", "repeated_gate_failure"}

GateSignals(rs) ==
  {s \in Increase : \E r \in rs :
     \/ s = "successful_no_ai_gate" /\ r.no_ai
     \/ s = "successful_transfer"   /\ r.transfer
     \/ s = "successful_review"     /\ r.type \in {"review", "design"}}

Ratchet(level, signals) ==
  IF signals \cap Decrease # {} THEN IF level > 1 THEN level - 1 ELSE 1
  ELSE IF Increase \subseteq signals /\ level < Levels THEN level + 1 ELSE level

EvidenceLevel(r) ==
  IF r.no_ai /\ r.transfer /\ r.explanation
  THEN IF r.type \in {"review", "design"} THEN 5 ELSE 4
  ELSE IF r.type \in Deliverable \cup {"design"} THEN 3
  ELSE IF r.explanation THEN 2 ELSE 1

(***************************************************************************)
(* The content of a file after a step.                                     *)
(***************************************************************************)

Mutant_LatestLevel(model, r) ==
  [model EXCEPT
     !.records[r.mission] = @ + 1,
     !.depth = [c \in Competency |-> IF c \in r.competencies THEN EvidenceLevel(r) ELSE @[c]]]

Ingest(model, r) ==
  [model EXCEPT
     !.records[r.mission] = @ + 1,
     !.depth = [c \in Competency |->
                  IF c \in r.competencies /\ EvidenceLevel(r) > @[c] THEN EvidenceLevel(r)
                  ELSE @[c]]]

RecordGate(model, m, verdict) ==
  [model EXCEPT !.passes[m]   = IF verdict = "PASS" THEN @ + 1 ELSE @,
                !.failures[m] = IF verdict = "FAIL" THEN @ + 1 ELSE @]

\* An event of (c, m) that waits to be completed.
IsOpen(e, c, m) == e.competency = c /\ e.mission = m /\ e.status \in Open

Mutant_NotYetDue(events, c, m) ==
  \E i \in DOMAIN events : IsOpen(events[i], c, m) /\ events[i].status = "SCHEDULED"

Scheduled(events, c, m) == \E i \in DOMAIN events : IsOpen(events[i], c, m)

Schedule(events, e) ==
  IF Scheduled(events, e.competency, e.mission) THEN events ELSE Append(events, e)

Ripe(e) == e.status \in Open /\ e.due_at <= day
Due(events) ==
  [i \in DOMAIN events |->
     IF Ripe(events[i]) THEN [events[i] EXCEPT !.status = "DUE"] ELSE events[i]]

NewEvent(c, m, stage, days) ==
  [competency |-> c, mission |-> m, stage |-> stage, due_at |-> day + days,
   status |-> "SCHEDULED"]

OpenQuests(quests) == {i \in DOMAIN quests : quests[i].status = "OPEN"}
CloseQuest(quests, id, verdict) ==
  IF verdict = "PASS" THEN [quests EXCEPT ![id].status = "CLOSED"] ELSE quests

(***************************************************************************)
(* Steps.  op says what a step does, arg to what.                          *)
(***************************************************************************)

Step(op, arg) == [op |-> op, arg |-> arg]

FileOf(op) ==
  CASE op \in {"begin", "pass", "glance", "decide"}  -> "learner"
    [] op = "session"                                -> "sessions"
    [] op \in {"add", "judge", "reward"}             -> "evidence"
    [] op \in {"schedule", "due", "complete"}        -> "retention"
    [] op \in {"open", "close"}                      -> "quests"
    [] op = "log"                                    -> "autonomy"
    [] OTHER                                         -> "model"

Effect(s, x) ==
  CASE s.op = "begin"    -> [x EXCEPT !.current = s.arg, !.status[s.arg] = "IN_PROGRESS"]
    [] s.op = "pass"     -> [x EXCEPT !.status[s.arg] = "PASSED"]
    [] s.op = "focus"    -> [x EXCEPT !.current = s.arg]
    [] s.op = "add"      -> Append(x, s.arg)
    [] s.op = "ingest"   -> Ingest(x, s.arg)
    [] s.op = "tally"    -> RecordGate(x, s.arg.mission, s.arg.verdict)
    [] s.op = "ratchet"  -> [x EXCEPT !.level = Ratchet(@, s.arg), !.history = @ + 1]
    [] s.op = "schedule" -> Schedule(x, s.arg)
    [] s.op = "due"      -> Due(x)
    [] s.op = "complete" -> [x EXCEPT ![s.arg.id].status = s.arg.verdict]
    [] s.op = "open"     -> Append(x, [mission |-> s.arg, status |-> "OPEN"])
    [] s.op = "close"    -> CloseQuest(x, s.arg.id, s.arg.verdict)
    [] s.op = "sync"     -> [x EXCEPT !.open = s.arg]
    [] s.op \in {"session", "log"} -> x + 1
    [] OTHER             -> x

\* schedule and due write only when there is something to write.
Rewrites(s, x) ==
  CASE s.op \in {"glance", "decide", "judge", "reward"} -> FALSE
    [] s.op \in {"schedule", "due"} -> Effect(s, x) # x
    [] OTHER -> TRUE

AfterJudge(evidence, m) ==
  LET v == Evaluate(evidence, m)
  IN  <<Step(IF v = "PASS" THEN "pass" ELSE "glance", m),
        Step("tally", [mission |-> m, verdict |-> v])>>

AfterTally(model, m, verdict) ==
  CASE verdict = "PASS" -> <<Step("reward", m)>>
    [] verdict = "FAIL" /\ model.failures[m] + 1 >= 2 ->
         <<Step("ratchet", {"repeated_gate_failure"})>>
    [] OTHER -> <<>>

AfterReward(evidence, m) ==
  [i \in DOMAIN Competencies[m] |->
     Step("schedule", NewEvent(Competencies[m][i], m, 0, INTERVALS_DAYS[1]))]
    \o <<Step("ratchet", GateSignals(ForMission(evidence, m)))>>

Mutant_NoRetry(e, verdict) ==
  (IF verdict = "PASSED" /\ e.stage + 1 \in Stage
   THEN <<Step("schedule", NewEvent(e.competency, e.mission, e.stage + 1,
                                    INTERVALS_DAYS[e.stage + 2]))>>
   ELSE <<>>) \o <<Step("refresh", TRUE)>>

AfterComplete(e, verdict) ==
  LET again(stage, days) ==
        <<Step("schedule", NewEvent(e.competency, e.mission, stage, days))>>
  IN  (CASE verdict = "FAILED" -> again(e.stage, REPAIR_DAYS)
         [] verdict = "PASSED" /\ e.stage + 1 \in Stage ->
              again(e.stage + 1, INTERVALS_DAYS[e.stage + 2])
         [] OTHER -> <<>>) \o <<Step("refresh", TRUE)>>

\* `step` stops at an open side quest, and before that when no mission is chosen.
AfterDecide(learner, m) ==
  LET mid == IF m = None THEN learner.current ELSE m IN
  IF mid = None \/ \E i \in OpenQuests(file["quests"]) : file["quests"][i].mission = mid
  THEN <<>> ELSE <<Step("due", None)>>

\* The steps that a step brings about, from what it read.
Follow(s, x) ==
  CASE s.op = "judge"    -> AfterJudge(x, s.arg)
    [] s.op = "tally"    -> AfterTally(x, s.arg.mission, s.arg.verdict)
    [] s.op = "reward"   -> AfterReward(x, s.arg)
    [] s.op = "ratchet"  -> <<Step("log", None)>>
    [] s.op = "complete" -> AfterComplete(x[s.arg.id], s.arg.verdict)
    [] s.op = "schedule" -> IF Rewrites(s, x) THEN <<Step("refresh", TRUE)>> ELSE <<>>
    [] s.op = "due"      -> <<Step("refresh", Rewrites(s, x))>>
    [] s.op = "decide"   -> AfterDecide(x, s.arg)
    [] s.op \in {"open", "close"} -> <<Step("sync", OpenQuests(Effect(s, x)))>>
    [] OTHER             -> <<>>

\* The file as a learner begins with it.
Default(f) ==
  CASE f = "learner" -> [current |-> None, status |-> [m \in Mission |-> "NEW"]]
    [] f = "model" ->
         [current |-> None, level |-> 1, depth |-> [c \in Competency |-> 0],
          records |-> [m \in Mission |-> 0], passes |-> [m \in Mission |-> 0],
          failures |-> [m \in Mission |-> 0], open |-> {}, history |-> 0]
    [] f \in {"sessions", "autonomy"} -> 0
    [] OTHER -> <<>>

(***************************************************************************)
(* Calls.  at is the moment within the first step of todo, mem what it has *)
(* read, begun whether the call has written anything, and over whether     *)
(* somebody else has written the file since the call truncated it.         *)
(***************************************************************************)

Idle == [todo |-> <<>>, at |-> "read", mem |-> None, begun |-> FALSE, over |-> FALSE]
Busy(c) == call[c].todo # <<>>

\* What a call takes of the bound.
Cost(c) == IF c = Cli THEN 1 ELSE 2

Issue(c, steps) ==
  /\ ~Busy(c) /\ count + Cost(c) <= MaxCalls
  /\ count' = count + Cost(c)
  /\ call' = [call EXCEPT ![c].todo = steps]
  /\ UNCHANGED <<file, day, told, harmed>>

Command(steps) == Issue(Cli, steps)

Tell(what, arg) == Step("tell", [what |-> what, arg |-> arg])

Start(m)  == Command(<<Step("begin", m), Step("session", None), Step("focus", m)>>)
Hand(r)   == Command(<<Step("add", r), Step("ingest", r), Tell("evidence", r)>>)
Gate(m)   == Command(<<Step("judge", m)>>)
Retention == Command(<<Step("due", None)>>)
Complete(id, v) ==
  /\ file["retention"] # Torn /\ id \in DOMAIN file["retention"]
  /\ Command(<<Step("complete", [id |-> id, verdict |-> v]),
               Tell("verdict", [id |-> id, verdict |-> v])>>)
EvaluateByHand(signals) == Command(<<Step("ratchet", signals)>>)
OpenQuest(m) == Command(<<Step("open", m)>>)
Close(id, v) ==
  /\ file["quests"] # Torn /\ id \in DOMAIN file["quests"]
  /\ Command(<<Step("close", [id |-> id, verdict |-> v])>>)
Advise == Command(<<Step("decide", None)>>)

\* /api/step, and /api/dashboard, which looks for due events before it decides.
Request(d, m, snapshot) ==
  /\ Issue(d, (IF snapshot THEN <<Step("due", None)>> ELSE <<>>) \o <<Step("decide", m)>>)

(***************************************************************************)
(* One step of a call.                                                     *)
(***************************************************************************)

Current(c) == Head(call[c].todo)
Reading(c) == Busy(c) /\ call[c].at = "read" /\ Current(c).op # "tell"

Mutant_DefaultWhenTorn(c) ==
  LET f == FileOf(Current(c).op) IN IF file[f] = Torn THEN Default(f) ELSE file[f]

Content(c) == file[FileOf(Current(c).op)]

\* What a step reads besides the file it is about.
Others(s) ==
  CASE s.op = "decide"               -> {"quests", "evidence"}
    [] s.op = "refresh" /\ s.arg     -> {"retention"}
    [] OTHER                         -> {}

Refused(s, x) ==
  \/ x = Torn
  \/ \E f \in Others(s) : file[f] = Torn
  \/ x # Torn /\ s.op = "complete" /\ s.arg.id \notin DOMAIN x

\* json.load or a lookup raises: the call ends, and keeps what it has written.
Raise(c) ==
  /\ Reading(c)
  /\ Refused(Current(c), Content(c))
  /\ call' = [call EXCEPT ![c] = Idle]
  /\ harmed' = (harmed \/ call[c].begun)
  /\ UNCHANGED <<file, day, count, told>>

Proceed(c, x, begun) ==
  [todo |-> Follow(Current(c), x) \o Tail(call[c].todo), at |-> "read", mem |-> None,
   begun |-> begun, over |-> FALSE]

Read(c) ==
  /\ Reading(c)
  /\ ~Refused(Current(c), Content(c))
  /\ call' = [call EXCEPT ![c] =
                IF Rewrites(Current(c), Content(c))
                THEN [@ EXCEPT !.at = "open", !.mem = Content(c)]
                ELSE Proceed(c, Content(c), @.begun)]
  /\ UNCHANGED <<file, day, count, told, harmed>>

\* open(..., "w") empties the file.
Truncate(c) ==
  /\ call[c].at = "open"
  /\ file' = [file EXCEPT ![FileOf(Current(c).op)] = Torn]
  /\ call' = [call EXCEPT ![c].at = "close"]
  /\ harmed' = (harmed \/ Content(c) # call[c].mem)
  /\ UNCHANGED <<day, count, told>>

\* The text reaches the file when it is closed. Over a longer text that
\* somebody else has written meanwhile, the end of that text remains.
Write(c) ==
  LET f == FileOf(Current(c).op)
      new == Effect(Current(c), call[c].mem)
  IN  /\ call[c].at = "close"
      /\ \E x \in {new} \cup (IF call[c].over THEN {Torn} ELSE {}) : file' = [file EXCEPT ![f] = x]
      /\ call' = [d \in Caller |->
                    IF d = c THEN Proceed(c, call[c].mem, TRUE)
                    ELSE IF call[d].at = "close" /\ FileOf(Current(d).op) = f
                    THEN [call[d] EXCEPT !.over = TRUE] ELSE call[d]]
      /\ harmed' = (harmed \/ call[c].over)
      /\ UNCHANGED <<day, count, told>>

\* The command prints its result and ends.
Report(c) ==
  LET say == Current(c).arg
  IN  /\ Busy(c) /\ Current(c).op = "tell"
      /\ told' = CASE say.what = "evidence" -> [told EXCEPT !.evidence = @ \cup {say.arg}]
                   [] say.what = "verdict" ->
                        [told EXCEPT !.verdict = {v \in @ : v.id # say.arg.id} \cup {say.arg}]
      /\ call' = [call EXCEPT ![c] = Idle]
      /\ UNCHANGED <<file, day, count, harmed>>

\* Interrupted, or the process is killed, at any moment.
Cut(c) ==
  /\ Busy(c) /\ count < MaxCalls
  /\ count' = count + 1
  /\ call' = [call EXCEPT ![c] = Idle]
  /\ harmed' = TRUE
  /\ UNCHANGED <<file, day, told>>

\* A day passes between calls.
Tick ==
  /\ day < MaxDay /\ \A c \in Caller : ~Busy(c)
  /\ day' = day + 1
  /\ UNCHANGED <<file, call, count, told, harmed>>

Init ==
  /\ file = [f \in File |-> Default(f)]
  /\ call = [c \in Caller |-> Idle]
  /\ day = 0
  /\ count = 0
  /\ told = [evidence |-> {}, verdict |-> {}]
  /\ harmed = FALSE

CommandLine ==
  \/ \E m \in Mission : Start(m) \/ Gate(m) \/ OpenQuest(m)
  \/ \E r \in Records : Hand(r)
  \/ \E id \in 1..(MaxCalls * Cardinality(Competency)), v \in {"PASSED", "FAILED"} : Complete(id, v)
  \/ \E id \in 1..MaxCalls, v \in {"PASS", "FAIL"} : Close(id, v)
  \/ \E signals \in HandSignals : EvaluateByHand(signals)
  \/ Retention \/ Advise

Server == \E d \in Dashboard, m \in Mission \cup {None}, b \in BOOLEAN : Request(d, m, b)

Work(c) == Raise(c) \/ Read(c) \/ Truncate(c) \/ Write(c) \/ Report(c)

Next == CommandLine \/ Server \/ (\E c \in Caller : Work(c) \/ Cut(c)) \/ Tick

Spec == Init /\ [][Next]_vars

(***************************************************************************)
(* Properties.                                                             *)
(***************************************************************************)

\* A competency of a mission has at most one retrieval waiting, even when stale
\* copies are written back and events completed again (retention_engine.py:33).
OneOpenEvent ==
  file["retention"] # Torn =>
    \A c \in Competency, m \in Mission : \A i, j \in DOMAIN file["retention"] :
      IsOpen(file["retention"][i], c, m) /\ IsOpen(file["retention"][j], c, m) => i = j

\* Evidence is never forgotten silently. A command that is cut between emptying
\* evidence.json and writing it loses all of it (storage.py:28): the file is Torn,
\* every later command that needs it raises, and none puts a default or a shorter
\* list in its place. So a file that can be read has all evidence that was
\* reported recorded, and what every PASSED mission passed its gate with.
ToldStaysTrue ==
  file["evidence"] # Torn =>
    /\ \A r \in told.evidence : \E i \in DOMAIN file["evidence"] : file["evidence"][i] = r
    /\ file["learner"] # Torn =>
         \A m \in Mission : file["learner"].status[m] = "PASSED" =>
           Evaluate(file["evidence"], m) = "PASS"

AtRest == ~harmed /\ \A c \in Caller : ~Busy(c)

\* As long as no call was cut short and no stale copy written back, the learner
\* model agrees at rest with the files it is derived from (learner_model.py:9).
ModelAgrees ==
  AtRest =>
    LET model == file["model"]
        evidence == file["evidence"]
        of(m) == {i \in DOMAIN evidence : evidence[i].mission = m}
        for(c) == {i \in DOMAIN evidence : c \in evidence[i].competencies}
    IN  /\ model.current = file["learner"].current
        /\ \A m \in Mission : model.records[m] = Cardinality(of(m))
        /\ \A c \in Competency :
             /\ \A i \in for(c) : EvidenceLevel(evidence[i]) <= model.depth[c]
             /\ model.depth[c] # 0 => \E i \in for(c) : EvidenceLevel(evidence[i]) = model.depth[c]
        /\ model.open = OpenQuests(file["quests"])
        /\ model.history = file["autonomy"]
        /\ \A m \in Mission : file["learner"].status[m] = "PASSED" => model.passes[m] > 0

\* Under the same condition the retention ladder is kept: what a passed gate
\* covers is scheduled, nothing is forgotten before its last stage is passed,
\* a stage comes after the one before it, and reported verdicts stand.
LadderKept ==
  AtRest =>
    LET events == file["retention"]
        of(c, m) == {i \in DOMAIN events : events[i].competency = c /\ events[i].mission = m}
    IN  /\ \A m \in Mission : file["learner"].status[m] = "PASSED" =>
             \A k \in DOMAIN Competencies[m] : of(Competencies[m][k], m) # {}
        /\ \A i \in DOMAIN events :
             LET mine == of(events[i].competency, events[i].mission) IN
             /\ \E j \in mine :
                  \/ events[j].status \in Open
                  \/ events[j].status = "PASSED" /\ events[j].stage + 1 \notin Stage
             /\ events[i].stage > 0 => \E j \in mine : j < i /\ events[j].stage = events[i].stage - 1
        /\ \A v \in told.verdict : v.id \in DOMAIN events /\ events[v.id].status = v.verdict
=============================================================================
