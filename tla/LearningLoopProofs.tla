------------------------- MODULE LearningLoopProofs -------------------------
(***************************************************************************)
(* Proofs about LearningLoop, for any missions, evidence, catalog,         *)
(* intervals and number of dashboard threads.                              *)
(*                                                                         *)
(* A call writes back what it read, however old that is.  So what holds of *)
(* a file is kept in two places: in the file, and in each copy a call      *)
(* holds.  For the events both are written by anybody, and each has at     *)
(* most one event waiting.  The evidence and the progress of the learner   *)
(* are written by the command line alone, so while it holds a copy nobody  *)
(* else changes them.                                                      *)
(*                                                                         *)
(* The last two theorems are about runs in which nobody was harmed: no     *)
(* copy was stale when it was written and no call was cut short.  There a  *)
(* file changes when it is written and at no other time, and what the      *)
(* files owe each other is found in what is left of the command.           *)
(***************************************************************************)
EXTENDS LearningLoop, SequenceTheorems, FiniteSetTheorems, TLAPS

IsSeq(s) == \E S : s \in Seq(S)

EventFields == {"competency", "mission", "stage", "due_at", "status"}
IsEvent(e) == DOMAIN e = EventFields /\ e = [k \in EventFields |-> e[k]]

OneEach(events) ==
  \A i, j \in DOMAIN events :
     /\ events[i].status \in Open /\ events[j].status \in Open
     /\ events[i].competency = events[j].competency /\ events[i].mission = events[j].mission
     => i = j

EventsOK(events) ==
  /\ IsSeq(events)
  /\ \A i \in DOMAIN events : IsEvent(events[i])
  /\ OneEach(events)

MissionOps == {"begin", "pass", "glance", "judge", "reward"}
Ops == MissionOps \cup
       {"decide", "session", "add", "schedule", "due", "complete", "open", "close", "log",
        "focus", "ingest", "tally", "ratchet", "sync", "refresh", "tell"}

StepOK(c, s) ==
  /\ s.op \in Ops
  /\ c \in Dashboard => s.op \in {"due", "decide", "refresh"}
  /\ s.op \in MissionOps => s.arg \in Mission
  /\ s.op = "tally" => s.arg.mission \in Mission
  /\ s.op = "schedule" => IsEvent(s.arg)
  /\ s.op = "complete" => s.arg.verdict \in {"PASSED", "FAILED"}
  /\ s.op = "tell" => s.arg.what \in {"evidence", "verdict"}

CallFields == {"todo", "at", "mem", "begun", "over"}

CallOK(c, k) ==
  /\ DOMAIN k = CallFields /\ k = [x \in CallFields |-> k[x]]
  /\ IsSeq(k.todo) /\ \A i \in DOMAIN k.todo : StepOK(c, k.todo[i])
  /\ k.at \in {"read", "open", "close"}
  /\ k.at # "read" =>
       /\ k.todo # <<>> /\ Head(k.todo).op \notin {"glance", "decide", "judge", "reward", "tell"}
       /\ FileOf(Head(k.todo).op) = "retention" => EventsOK(k.mem)
       /\ FileOf(Head(k.todo).op) = "learner" => k.mem \in Learner

LoopInv ==
  /\ file = [f \in File |-> file[f]]
  /\ file["retention"] # Torn => EventsOK(file["retention"])
  /\ file["learner"] # Torn => file["learner"] \in Learner
  /\ call = [c \in Caller |-> call[c]]
  /\ \A c \in Caller : CallOK(c, call[c])

-----------------------------------------------------------------------------
(* Steps                                                                   *)

LEMMA FileOfOp ==
  ASSUME NEW op \in Ops
  PROVE  /\ FileOf(op) \in File
         /\ FileOf(op) = "retention" <=> op \in {"schedule", "due", "complete"}
         /\ FileOf(op) = "learner" <=> op \in {"begin", "pass", "glance", "decide"}
         /\ FileOf(op) = "evidence" <=> op \in {"add", "judge", "reward"}
BY DEF Ops, MissionOps, FileOf, File

LEMMA Singleton ==
  ASSUME NEW x
  PROVE  IsSeq(<<x>>) /\ DOMAIN <<x>> = {1} /\ <<x>>[1] = x
<1>1. <<x>> \in Seq({x})
  OBVIOUS
<1>2. Len(<<x>>) = 1 /\ 1..1 = {1}
  OBVIOUS
<1>3. DOMAIN <<x>> = 1..1
  BY <1>1, <1>2
<1>4. <<x>>[1] = x
  OBVIOUS
<1> QED BY <1>1, <1>2, <1>3, <1>4 DEF IsSeq

LEMMA Joined ==
  ASSUME NEW s, NEW t, IsSeq(s), IsSeq(t)
  PROVE  /\ IsSeq(s \o t)
         /\ \A i \in DOMAIN (s \o t) :
              \/ i \in DOMAIN s /\ (s \o t)[i] = s[i]
              \/ \E j \in DOMAIN t : i = Len(s) + j /\ (s \o t)[i] = t[j]
<1>1. PICK S, T : s \in Seq(S) /\ t \in Seq(T)
  BY DEF IsSeq
<1>2. s \in Seq(S \cup T) /\ t \in Seq(S \cup T)
  BY <1>1
<1>3. s \o t \in Seq(S \cup T) /\ Len(s \o t) = Len(s) + Len(t)
  BY <1>2, ConcatProperties
<1>4. \A i \in 1..(Len(s) + Len(t)) : (s \o t)[i] = IF i <= Len(s) THEN s[i] ELSE t[i - Len(s)]
  BY <1>2, ConcatProperties
<1>5. ASSUME NEW i \in DOMAIN (s \o t)
      PROVE  \/ i \in DOMAIN s /\ (s \o t)[i] = s[i]
             \/ \E j \in DOMAIN t : i = Len(s) + j /\ (s \o t)[i] = t[j]
  <2>1. i \in 1..(Len(s) + Len(t)) /\ Len(s) \in Nat /\ Len(t) \in Nat
    BY <1>2, <1>3
  <2>2. CASE i <= Len(s)
    BY <1>2, <1>4, <2>1, <2>2
  <2>3. CASE ~(i <= Len(s))
    <3>1. i - Len(s) \in DOMAIN t /\ i = Len(s) + (i - Len(s))
      BY <1>2, <2>1, <2>3
    <3> QED BY <1>4, <2>1, <2>3, <3>1
  <2> QED BY <2>2, <2>3
<1> QED BY <1>3, <1>5 DEF IsSeq

LEMMA JoinOK ==
  ASSUME NEW c, NEW t, NEW u, IsSeq(t), IsSeq(u),
         \A i \in DOMAIN t : StepOK(c, t[i]), \A i \in DOMAIN u : StepOK(c, u[i])
  PROVE  IsSeq(t \o u) /\ \A i \in DOMAIN (t \o u) : StepOK(c, (t \o u)[i])
<1>1. /\ IsSeq(t \o u)
      /\ \A n \in DOMAIN (t \o u) :
           \/ n \in DOMAIN t /\ (t \o u)[n] = t[n]
           \/ \E j \in DOMAIN u : n = Len(t) + j /\ (t \o u)[n] = u[j]
  BY Joined
<1> QED BY <1>1

LEMMA TailOf ==
  ASSUME NEW s, IsSeq(s), s # <<>>
  PROVE  /\ IsSeq(Tail(s)) /\ 1 \in DOMAIN s /\ Head(s) = s[1]
         /\ \A i \in DOMAIN Tail(s) : i + 1 \in DOMAIN s /\ Tail(s)[i] = s[i + 1]
<1>1. PICK S : s \in Seq(S)
  BY DEF IsSeq
<1> QED BY <1>1, HeadTailProperties DEF IsSeq

LEMMA NewEventIs ==
  ASSUME NEW c, NEW m, NEW stage, NEW days
  PROVE  IsEvent(NewEvent(c, m, stage, days))
BY DEF NewEvent, IsEvent, EventFields

\* What a step brings about: nothing that only a command begins with, and a
\* pass only in front.
Brought(c, s, t) ==
  /\ IsSeq(t)
  /\ \A i \in DOMAIN t :
       /\ StepOK(c, t[i]) /\ t[i].op \notin {"add", "ingest", "tell", "begin"}
       /\ t[i].op = "pass" => i = 1 /\ s.op = "judge" /\ t[i].arg = s.arg

LEMMA NoneBrought ==
  ASSUME NEW c, NEW s PROVE Brought(c, s, <<>>)
<1>1. <<>> \in Seq({}) /\ DOMAIN <<>> = {}
  OBVIOUS
<1> QED BY <1>1 DEF Brought, IsSeq

LEMMA OneBrought ==
  ASSUME NEW c, NEW s, NEW op, NEW arg, StepOK(c, Step(op, arg)),
         op \notin {"add", "ingest", "tell", "begin", "pass"}
  PROVE  Brought(c, s, <<Step(op, arg)>>)
<1>1. Step(op, arg).op = op
  BY DEF Step
<1> QED BY <1>1, Singleton DEF Brought

LEMMA JoinBrought ==
  ASSUME NEW c, NEW s, NEW t, NEW u, Brought(c, s, t), Brought(c, s, u), s.op # "judge"
  PROVE  Brought(c, s, t \o u)
<1>1. /\ IsSeq(t) /\ IsSeq(u)
      /\ \A i \in DOMAIN t : StepOK(c, t[i]) /\ t[i].op \notin {"add", "ingest", "tell", "begin", "pass"}
      /\ \A i \in DOMAIN u : StepOK(c, u[i]) /\ u[i].op \notin {"add", "ingest", "tell", "begin", "pass"}
  BY DEF Brought
<1>2. IsSeq(t \o u)
  BY <1>1, Joined
<1>3. ASSUME NEW i \in DOMAIN (t \o u)
      PROVE  \/ i \in DOMAIN t /\ (t \o u)[i] = t[i]
             \/ \E j \in DOMAIN u : (t \o u)[i] = u[j]
  BY <1>1, Joined
<1>4. \A i \in DOMAIN (t \o u) :
        StepOK(c, (t \o u)[i]) /\ (t \o u)[i].op \notin {"add", "ingest", "tell", "begin", "pass"}
  BY <1>1, <1>3
<1> QED BY <1>2, <1>4 DEF Brought

\* The steps that judge, tally, reward and complete bring about.
LEMMA JudgeBrings ==
  ASSUME NEW s, s.op = "judge", s.arg \in Mission, NEW x
  PROVE  Brought(Cli, s, AfterJudge(x, s.arg))
<1> DEFINE v == Evaluate(x, s.arg)
           first == Step(IF v = "PASS" THEN "pass" ELSE "glance", s.arg)
           second == Step("tally", [mission |-> s.arg, verdict |-> v])
           t == <<first, second>>
<1>1. AfterJudge(x, s.arg) = t
  BY DEF AfterJudge
<1>2. /\ first.op \in {"pass", "glance"} /\ first.arg = s.arg
      /\ second.op = "tally" /\ second.arg.mission = s.arg
  BY DEF Step
<1> HIDE DEF first, second
<1>3. t \in Seq({first, second}) /\ Len(t) = 2 /\ t[1] = first /\ t[2] = second
  OBVIOUS
<1>4. DOMAIN t = {1, 2}
  BY <1>3
<1>5. Cli \notin Dashboard
  BY LoopAssumption
<1> HIDE DEF t
<1>6. StepOK(Cli, first) /\ StepOK(Cli, second)
  BY <1>2, <1>5 DEF StepOK, Ops, MissionOps
<1>7. \A i \in DOMAIN t : (i = 1 /\ t[i] = first) \/ (i = 2 /\ t[i] = second)
  BY <1>3, <1>4
<1> QED BY <1>1, <1>2, <1>3, <1>6, <1>7 DEF Brought, IsSeq

LEMMA TallyBrings ==
  ASSUME NEW s, s.op = "tally", NEW m \in Mission, NEW model, NEW verdict
  PROVE  Brought(Cli, s, AfterTally(model, m, verdict))
<1>1. StepOK(Cli, Step("reward", m)) /\ StepOK(Cli, Step("ratchet", {"repeated_gate_failure"}))
  BY LoopAssumption DEF StepOK, Step, Ops, MissionOps
<1> QED BY <1>1, NoneBrought, OneBrought DEF AfterTally

LEMMA RewardBrings ==
  ASSUME NEW s, s.op = "reward", NEW m \in Mission, NEW x
  PROVE  Brought(Cli, s, AfterReward(x, m))
<1> DEFINE event(i) == NewEvent(Competencies[m][i], m, 0, INTERVALS_DAYS[1])
           t == [i \in DOMAIN Competencies[m] |-> Step("schedule", event(i))]
           last == Step("ratchet", GateSignals(ForMission(x, m)))
<1>1. AfterReward(x, m) = t \o <<last>>
  BY DEF AfterReward
<1>2. Cli \notin Dashboard /\ Competencies[m] \in Seq(Competency)
  BY LoopAssumption
<1>3. Brought(Cli, s, <<last>>)
  <2>1. StepOK(Cli, last)
    BY <1>2 DEF StepOK, Step, Ops, MissionOps
  <2> QED BY <2>1, OneBrought
<1>4. ASSUME NEW i \in DOMAIN t
      PROVE  StepOK(Cli, t[i]) /\ t[i].op = "schedule"
  <2>1. t[i].op = "schedule" /\ t[i].arg = event(i)
    BY DEF Step
  <2>2. IsEvent(event(i))
    BY NewEventIs
  <2> HIDE DEF t, event
  <2> QED BY <1>2, <2>1, <2>2 DEF StepOK, Ops, MissionOps
<1>5. IsSeq(t)
  <2>1. Len(Competencies[m]) \in Nat /\ DOMAIN Competencies[m] = 1..Len(Competencies[m])
    BY <1>2
  <2>2. DOMAIN t = 1..Len(Competencies[m]) /\ t = [i \in DOMAIN t |-> t[i]]
    BY <2>1
  <2> HIDE DEF t
  <2>3. PICK R : R = {t[i] : i \in DOMAIN t}
    OBVIOUS
  <2>4. t \in [1..Len(Competencies[m]) -> R]
    BY <2>2, <2>3
  <2>5. t \in Seq(R)
    BY <2>1, <2>4, SeqDef
  <2> QED BY <2>5 DEF IsSeq
<1> HIDE DEF t, last
<1>6. Brought(Cli, s, t)
  BY <1>4, <1>5 DEF Brought
<1> QED BY <1>1, <1>3, <1>6, JoinBrought

LEMMA CompleteBrings ==
  ASSUME NEW s, s.op = "complete", NEW e, NEW verdict
  PROVE  Brought(Cli, s, AfterComplete(e, verdict))
<1> DEFINE again(stage, days) ==
             <<Step("schedule", NewEvent(e.competency, e.mission, stage, days))>>
           last == <<Step("refresh", TRUE)>>
<1>1. Brought(Cli, s, last)
  <2>1. StepOK(Cli, Step("refresh", TRUE))
    BY LoopAssumption DEF StepOK, Step, Ops, MissionOps
  <2> QED BY <2>1, OneBrought
<1>2. ASSUME NEW stage, NEW days PROVE Brought(Cli, s, again(stage, days))
  <2>1. StepOK(Cli, Step("schedule", NewEvent(e.competency, e.mission, stage, days)))
    BY LoopAssumption, NewEventIs DEF StepOK, Step, Ops, MissionOps
  <2> QED BY <2>1, OneBrought
<1>3. Brought(Cli, s, <<>>)
  BY NoneBrought
<1>4. \/ AfterComplete(e, verdict) = <<>> \o last
      \/ \E stage, days : AfterComplete(e, verdict) = again(stage, days) \o last
  BY DEF AfterComplete
<1> HIDE DEF again, last
<1> QED BY <1>1, <1>2, <1>3, <1>4, JoinBrought

\* Dashboards go from decide to due, and from due to refresh.
LEMMA FollowBrings ==
  ASSUME NEW c \in Caller, NEW s, StepOK(c, s), s.op # "tell", NEW x
  PROVE  Brought(c, s, Follow(s, x))
<1>1. c = Cli \/ c \in Dashboard
  BY DEF Caller
<1>2. ASSUME NEW op \in {"log", "refresh", "due", "sync"}, NEW arg,
             c \in Dashboard => op \in {"refresh", "due"}
      PROVE  Brought(c, s, <<Step(op, arg)>>)
  <2>1. StepOK(c, Step(op, arg))
    BY <1>2 DEF StepOK, Step, Ops, MissionOps
  <2> QED BY <2>1, OneBrought
<1>3. Brought(c, s, <<>>)
  BY NoneBrought
<1>4. ASSUME c \in Dashboard PROVE Brought(c, s, Follow(s, x))
  <2>1. CASE s.op = "decide"
    BY <1>2, <1>3, <1>4, <2>1 DEF Follow, AfterDecide
  <2>2. CASE s.op = "due"
    BY <1>2, <1>4, <2>2 DEF Follow
  <2>3. CASE s.op = "refresh"
    BY <1>3, <2>3 DEF Follow
  <2> QED BY <1>4, <2>1, <2>2, <2>3 DEF StepOK
<1>5. ASSUME c = Cli PROVE Brought(c, s, Follow(s, x))
  <2>0. c \notin Dashboard
    BY <1>5, LoopAssumption
  <2>1. CASE s.op = "judge"
    BY <1>5, <2>1, JudgeBrings DEF Follow, StepOK, MissionOps
  <2>2. CASE s.op = "tally"
    BY <1>5, <2>2, TallyBrings DEF Follow, StepOK
  <2>3. CASE s.op = "reward"
    BY <1>5, <2>3, RewardBrings DEF Follow, StepOK, MissionOps
  <2>4. CASE s.op = "complete"
    BY <1>5, <2>4, CompleteBrings DEF Follow
  <2>5. CASE s.op = "decide"
    BY <1>2, <1>3, <2>0, <2>5 DEF Follow, AfterDecide
  <2>6. CASE s.op \in {"ratchet", "schedule", "due", "open", "close"}
    BY <1>2, <1>3, <2>0, <2>6 DEF Follow
  <2>7. CASE s.op \in Ops \ {"judge", "tally", "reward", "complete", "decide", "ratchet",
                             "schedule", "due", "open", "close"}
    BY <1>3, <2>7 DEF Follow, Ops, MissionOps
  <2> QED BY <2>1, <2>2, <2>3, <2>4, <2>5, <2>6, <2>7 DEF StepOK
<1> QED BY <1>1, <1>4, <1>5

-----------------------------------------------------------------------------
(* The files                                                               *)

LEMMA ScheduleKeeps ==
  ASSUME NEW x, EventsOK(x), NEW e, IsEvent(e)
  PROVE  EventsOK(Schedule(x, e))
<1>1. CASE Scheduled(x, e.competency, e.mission)
  BY <1>1 DEF Schedule
<1>2. CASE ~Scheduled(x, e.competency, e.mission)
  <2>1. PICK S : x \in Seq(S)
    BY DEF EventsOK, IsSeq
  <2> DEFINE y == Append(x, e)
  <2>2. /\ y \in Seq(S \cup {e}) /\ Len(x) \in Nat /\ DOMAIN x = 1..Len(x)
        /\ DOMAIN y = 1..(Len(x) + 1) /\ y[Len(x) + 1] = e
        /\ \A i \in 1..Len(x) : y[i] = x[i]
    BY <2>1, AppendProperties
  <2>3. Schedule(x, e) = y
    BY <1>2 DEF Schedule
  <2> HIDE DEF y
  <2>4. \A i \in DOMAIN y : i = Len(x) + 1 \/ i \in DOMAIN x
    BY <2>2
  <2>5. \A i \in DOMAIN y : IsEvent(y[i])
    BY <2>2, <2>4 DEF EventsOK
  <2>6. \A i \in DOMAIN x :
          ~(/\ x[i].status \in Open /\ x[i].competency = e.competency
            /\ x[i].mission = e.mission)
    BY <1>2 DEF Scheduled, IsOpen
  <2>7. OneEach(y)
    <3> SUFFICES ASSUME NEW i \in DOMAIN y, NEW j \in DOMAIN y,
                        y[i].status \in Open, y[j].status \in Open,
                        y[i].competency = y[j].competency, y[i].mission = y[j].mission
                 PROVE  i = j
      BY DEF OneEach
    <3>1. CASE i \in DOMAIN x /\ j \in DOMAIN x
      BY <2>2, <3>1 DEF EventsOK, OneEach
    <3>2. CASE i = Len(x) + 1 /\ j \in DOMAIN x
      BY <2>2, <2>6, <3>2
    <3>3. CASE j = Len(x) + 1 /\ i \in DOMAIN x
      BY <2>2, <2>6, <3>3
    <3> QED BY <2>4, <3>1, <3>2, <3>3
  <2> QED BY <2>2, <2>3, <2>5, <2>7 DEF EventsOK, IsSeq
<1> QED BY <1>1, <1>2

\* A list of events that differs in their status alone, and opens none.
LEMMA StatusKeeps ==
  ASSUME NEW x, EventsOK(x), NEW y, DOMAIN y = DOMAIN x, y = [i \in DOMAIN x |-> y[i]],
         \A i \in DOMAIN x : IsEvent(y[i]) /\ y[i].competency = x[i].competency
                             /\ y[i].mission = x[i].mission,
         \A i \in DOMAIN x : y[i].status \in Open => x[i].status \in Open
  PROVE  EventsOK(y)
<1>1. IsSeq(y)
  <2>1. PICK S : x \in Seq(S)
    BY DEF EventsOK, IsSeq
  <2>2. Len(x) \in Nat /\ DOMAIN x = 1..Len(x)
    BY <2>1
  <2>3. PICK R : R = {y[i] : i \in DOMAIN x}
    OBVIOUS
  <2>4. y \in [1..Len(x) -> R]
    BY <2>2, <2>3
  <2>5. y \in Seq(R)
    BY <2>2, <2>4, SeqDef
  <2> QED BY <2>5 DEF IsSeq
<1>2. OneEach(y)
  BY DEF EventsOK, OneEach
<1> QED BY <1>1, <1>2 DEF EventsOK

LEMMA DueKeeps ==
  ASSUME NEW x, EventsOK(x) PROVE EventsOK(Due(x))
<1>1. \A i \in DOMAIN x : IsEvent(x[i])
  BY DEF EventsOK
<1>2. PICK y : y = Due(x)
  OBVIOUS
<1>3. DOMAIN y = DOMAIN x /\ y = [i \in DOMAIN x |-> y[i]]
  BY <1>2 DEF Due
<1>4. ASSUME NEW i \in DOMAIN x
      PROVE  /\ IsEvent(y[i]) /\ y[i].competency = x[i].competency
             /\ y[i].mission = x[i].mission
             /\ y[i].status \in Open => x[i].status \in Open
  <2>1. CASE Ripe(x[i])
    <3>1. y[i] = [x[i] EXCEPT !.status = "DUE"]
      BY <1>2, <2>1 DEF Due
    <3>2. x[i].status \in Open
      BY <2>1 DEF Ripe
    <3> QED BY <1>1, <3>1, <3>2 DEF IsEvent, EventFields
  <2>2. CASE ~Ripe(x[i])
    BY <1>1, <1>2, <2>2 DEF Due
  <2> QED BY <2>1, <2>2
<1> QED BY <1>2, <1>3, <1>4, StatusKeeps

LEMMA CompleteKeeps ==
  ASSUME NEW x, EventsOK(x), NEW id, NEW verdict \in {"PASSED", "FAILED"}
  PROVE  EventsOK([x EXCEPT ![id].status = verdict])
<1>0. \A i \in DOMAIN x : IsEvent(x[i])
  BY DEF EventsOK
<1>1. x = [i \in DOMAIN x |-> x[i]]
  <2>1. PICK S : x \in Seq(S)
    BY DEF EventsOK, IsSeq
  <2> QED BY <2>1, LenProperties
<1>2. PICK y : y = [x EXCEPT ![id].status = verdict]
  OBVIOUS
<1>3. DOMAIN y = DOMAIN x /\ y = [i \in DOMAIN x |-> y[i]]
  BY <1>1, <1>2
<1>4. ASSUME NEW i \in DOMAIN x
      PROVE  /\ IsEvent(y[i]) /\ y[i].competency = x[i].competency
             /\ y[i].mission = x[i].mission
             /\ y[i].status \in Open => x[i].status \in Open
  <2>1. CASE i = id
    <3>1. y[i] = [x[i] EXCEPT !.status = verdict]
      BY <1>1, <1>2, <2>1
    <3>2. verdict \notin Open
      BY DEF Open
    <3> QED BY <1>0, <3>1, <3>2 DEF IsEvent, EventFields
  <2>2. CASE i # id
    BY <1>0, <1>1, <1>2, <2>2
  <2> QED BY <2>1, <2>2
<1> QED BY <1>2, <1>3, <1>4, StatusKeeps

LEMMA EffectKeeps ==
  ASSUME NEW c, NEW s, StepOK(c, s), NEW x,
         s.op \notin {"glance", "decide", "judge", "reward", "tell"}
  PROVE  /\ FileOf(s.op) = "retention" /\ EventsOK(x) => EventsOK(Effect(s, x))
         /\ FileOf(s.op) = "learner" /\ x \in Learner => Effect(s, x) \in Learner
<1>1. s.op \in Ops
  BY DEF StepOK
<1>2. ASSUME FileOf(s.op) = "retention", EventsOK(x) PROVE EventsOK(Effect(s, x))
  <2>1. CASE s.op = "schedule"
    <3>1. Effect(s, x) = Schedule(x, s.arg)
      BY <2>1 DEF Effect
    <3> QED BY <1>2, <2>1, <3>1, ScheduleKeeps DEF StepOK
  <2>2. CASE s.op = "due"
    <3>1. Effect(s, x) = Due(x)
      BY <2>2 DEF Effect
    <3> QED BY <1>2, <3>1, DueKeeps
  <2>3. CASE s.op = "complete"
    <3>1. Effect(s, x) = [x EXCEPT ![s.arg.id].status = s.arg.verdict]
      BY <2>3 DEF Effect
    <3>2. s.arg.verdict \in {"PASSED", "FAILED"}
      BY <2>3 DEF StepOK
    <3>3. EventsOK([x EXCEPT ![s.arg.id].status = s.arg.verdict])
      BY <1>2, <3>2, CompleteKeeps
    <3> QED BY <3>1, <3>3
  <2> QED BY <1>1, <1>2, <2>1, <2>2, <2>3, FileOfOp
<1>3. ASSUME FileOf(s.op) = "learner", x \in Learner PROVE Effect(s, x) \in Learner
  <2>0. s.op \in {"begin", "pass"} /\ s.arg \in Mission
    BY <1>1, <1>3, FileOfOp DEF StepOK, MissionOps
  <2>3. /\ x.current \in Mission \cup {None}
        /\ \A status \in {"NEW", "IN_PROGRESS", "PASSED"} :
              [x.status EXCEPT ![s.arg] = status] \in [Mission -> {"NEW", "IN_PROGRESS", "PASSED"}]
    BY <1>3 DEF Learner
  <2>1. CASE s.op = "begin"
    <3>1. Effect(s, x) = [x EXCEPT !.current = s.arg, !.status[s.arg] = "IN_PROGRESS"]
      BY <2>1 DEF Effect
    <3>2. Effect(s, x) = [current |-> s.arg, status |-> [x.status EXCEPT ![s.arg] = "IN_PROGRESS"]]
      BY <1>3, <3>1 DEF Learner
    <3> QED BY <2>0, <2>3, <3>2 DEF Learner
  <2>2. CASE s.op = "pass"
    <3>1. Effect(s, x) = [x EXCEPT !.status[s.arg] = "PASSED"]
      BY <2>2 DEF Effect
    <3>2. Effect(s, x) = [current |-> x.current, status |-> [x.status EXCEPT ![s.arg] = "PASSED"]]
      BY <1>3, <3>1 DEF Learner
    <3> QED BY <2>0, <2>3, <3>2 DEF Learner
  <2> QED BY <2>0, <2>1, <2>2
<1> QED BY <1>2, <1>3

-----------------------------------------------------------------------------
(* The invariant                                                           *)

LEMMA IdleOK == ASSUME NEW c PROVE CallOK(c, Idle)
<1>1. Idle.todo = <<>> /\ Idle.at = "read" /\ DOMAIN Idle = CallFields
      /\ Idle = [x \in CallFields |-> Idle[x]]
  BY DEF Idle, CallFields
<1>2. <<>> \in Seq({}) /\ DOMAIN <<>> = {}
  OBVIOUS
<1> QED BY <1>1, <1>2 DEF CallOK, IsSeq

\* The plans of the commands and requests.
LEMMA PlanOK ==
  ASSUME NEW c, NEW a, StepOK(c, a)
  PROVE  /\ IsSeq(<<a>>) /\ \A i \in DOMAIN <<a>> : StepOK(c, <<a>>[i])
         /\ \A b : StepOK(c, b) =>
              IsSeq(<<a, b>>) /\ \A i \in DOMAIN <<a, b>> : StepOK(c, <<a, b>>[i])
         /\ \A b, d : StepOK(c, b) /\ StepOK(c, d) =>
              IsSeq(<<a, b, d>>) /\ \A i \in DOMAIN <<a, b, d>> : StepOK(c, <<a, b, d>>[i])
<1>1. IsSeq(<<a>>) /\ \A i \in DOMAIN <<a>> : StepOK(c, <<a>>[i])
  BY Singleton
<1>2. ASSUME NEW b, StepOK(c, b)
      PROVE  IsSeq(<<a, b>>) /\ \A i \in DOMAIN <<a, b>> : StepOK(c, <<a, b>>[i])
  <2>1. <<a, b>> \in Seq({a, b}) /\ Len(<<a, b>>) = 2
    OBVIOUS
  <2>2. \A i \in DOMAIN <<a, b>> : <<a, b>>[i] \in {a, b}
    BY <2>1, ElementOfSeq, LenProperties
  <2> QED BY <1>2, <2>1, <2>2 DEF IsSeq
<1>3. ASSUME NEW b, NEW d, StepOK(c, b), StepOK(c, d)
      PROVE  IsSeq(<<a, b, d>>) /\ \A i \in DOMAIN <<a, b, d>> : StepOK(c, <<a, b, d>>[i])
  <2>1. <<a, b, d>> \in Seq({a, b, d}) /\ Len(<<a, b, d>>) = 3
    OBVIOUS
  <2>2. \A i \in DOMAIN <<a, b, d>> : <<a, b, d>>[i] \in {a, b, d}
    BY <2>1, ElementOfSeq, LenProperties
  <2> QED BY <1>3, <2>1, <2>2 DEF IsSeq
<1> QED BY <1>1, <1>2, <1>3

LEMMA IssueOK ==
  ASSUME LoopInv, NEW c \in Caller, NEW steps, Issue(c, steps),
         IsSeq(steps), \A i \in DOMAIN steps : StepOK(c, steps[i])
  PROVE  LoopInv'
<1>1. PICK k : k = [call[c] EXCEPT !.todo = steps]
  OBVIOUS
<1>2. call' = [call EXCEPT ![c] = k] /\ file' = file
  BY <1>1 DEF Issue, LoopInv
<1>3. CallOK(c, call[c]) /\ call[c].at = "read"
  <2>1. CallOK(c, call[c]) /\ call[c].todo = <<>>
    BY DEF LoopInv, Issue, Busy
  <2> QED BY <2>1 DEF CallOK
<1>4. k.todo = steps /\ k.at = "read" /\ DOMAIN k = CallFields /\ k = [x \in CallFields |-> k[x]]
  BY <1>1, <1>3 DEF CallOK, CallFields
<1>5. CallOK(c, k)
  BY <1>4 DEF CallOK
<1> QED BY <1>2, <1>5 DEF LoopInv

LEMMA CommandOK ==
  ASSUME LoopInv, CommandLine PROVE LoopInv'
<1>0. Cli \in Caller /\ Cli \notin Dashboard
  BY LoopAssumption DEF Caller
<1>1. ASSUME NEW op \in Ops \ {"tally", "schedule", "complete", "tell"}, NEW arg,
             op \in MissionOps => arg \in Mission
      PROVE  StepOK(Cli, Step(op, arg))
  BY <1>0, <1>1 DEF StepOK, Step
<1>2. Ops \ {"tally", "schedule", "complete", "tell"} =
        {"begin", "pass", "glance", "judge", "reward", "decide", "session", "add", "due", "open",
         "close", "log", "focus", "ingest", "ratchet", "sync", "refresh"}
  BY DEF Ops, MissionOps
<1>3. \A what \in {"evidence", "verdict"} : \A arg : StepOK(Cli, Tell(what, arg))
  BY <1>0 DEF Tell, Step, StepOK, Ops, MissionOps
<1>4. ASSUME NEW m \in Mission, Start(m) PROVE LoopInv'
  <2>1. StepOK(Cli, Step("begin", m)) /\ StepOK(Cli, Step("session", None))
        /\ StepOK(Cli, Step("focus", m))
    BY <1>1, <1>2 DEF MissionOps
  <2> QED BY <1>0, <1>4, <2>1, PlanOK, IssueOK DEF Start, Command
<1>5. ASSUME NEW r, Hand(r) PROVE LoopInv'
  <2>1. StepOK(Cli, Step("add", r)) /\ StepOK(Cli, Step("ingest", r))
        /\ StepOK(Cli, Tell("evidence", r))
    BY <1>1, <1>2, <1>3 DEF MissionOps
  <2> QED BY <1>0, <1>5, <2>1, PlanOK, IssueOK DEF Hand, Command
<1>6. ASSUME NEW op \in {"judge", "due", "ratchet", "open", "close", "decide"}, NEW arg,
             op = "judge" => arg \in Mission, Command(<<Step(op, arg)>>)
      PROVE  LoopInv'
  <2>1. StepOK(Cli, Step(op, arg))
    BY <1>1, <1>2, <1>6 DEF MissionOps
  <2> QED BY <1>0, <1>6, <2>1, PlanOK, IssueOK DEF Command
<1>7. ASSUME NEW id, NEW v \in {"PASSED", "FAILED"}, Complete(id, v) PROVE LoopInv'
  <2>1. StepOK(Cli, Step("complete", [id |-> id, verdict |-> v]))
    BY <1>0 DEF StepOK, Step, Ops, MissionOps
  <2>2. StepOK(Cli, Tell("verdict", [id |-> id, verdict |-> v]))
    BY <1>3
  <2> QED BY <1>0, <1>7, <2>1, <2>2, PlanOK, IssueOK DEF Complete, Command
<1> QED
  BY <1>4, <1>5, <1>6, <1>7
     DEF CommandLine, Gate, OpenQuest, Close, EvaluateByHand, Retention, Advise

LEMMA ServerOK ==
  ASSUME LoopInv, Server PROVE LoopInv'
<1>1. PICK d \in Dashboard, m \in Mission \cup {None}, b \in BOOLEAN : Request(d, m, b)
  BY DEF Server
<1>2. d \in Caller
  BY DEF Caller
<1>3. StepOK(d, Step("due", None)) /\ StepOK(d, Step("decide", m))
  BY DEF StepOK, Step, Ops, MissionOps
<1>4. CASE b
  <2>1. PICK t : t = <<Step("due", None)>>
    OBVIOUS
  <2>2. PICK u : u = <<Step("decide", m)>>
    OBVIOUS
  <2>3. /\ IsSeq(t) /\ \A i \in DOMAIN t : StepOK(d, t[i])
        /\ IsSeq(u) /\ \A i \in DOMAIN u : StepOK(d, u[i])
    BY <1>3, <2>1, <2>2, PlanOK
  <2>4. IsSeq(t \o u) /\ \A i \in DOMAIN (t \o u) : StepOK(d, (t \o u)[i])
    BY <2>3, JoinOK
  <2>5. Issue(d, t \o u)
    BY <1>1, <1>4, <2>1, <2>2 DEF Request
  <2> QED BY <1>2, <2>4, <2>5, IssueOK
<1>5. CASE ~b
  <2>1. <<>> \o <<Step("decide", m)>> = <<Step("decide", m)>>
    OBVIOUS
  <2>2. Issue(d, <<Step("decide", m)>>)
    BY <1>1, <1>5, <2>1 DEF Request
  <2> QED BY <1>2, <1>3, <2>2, PlanOK, IssueOK
<1> QED BY <1>4, <1>5

\* What a call does next, once a step is done.
LEMMA ProceedOK ==
  ASSUME NEW c \in Caller, CallOK(c, call[c]), Busy(c), Current(c).op # "tell",
         NEW x, NEW begun
  PROVE  /\ CallOK(c, Proceed(c, x, begun))
         /\ Proceed(c, x, begun).at = "read"
         /\ Brought(c, Current(c), Follow(Current(c), x))
<1> DEFINE s == Current(c)
           t == Follow(s, x)
           u == Tail(call[c].todo)
           k == Proceed(c, x, begun)
<1>1. /\ IsSeq(call[c].todo) /\ call[c].todo # <<>>
      /\ \A i \in DOMAIN call[c].todo : StepOK(c, call[c].todo[i])
  BY DEF CallOK, Busy
<1>2. StepOK(c, s) /\ IsSeq(u) /\ \A i \in DOMAIN u : StepOK(c, u[i])
  BY <1>1, TailOf DEF Current
<1>3. Brought(c, s, t)
  BY <1>2, FollowBrings
<1>4. k.todo = t \o u /\ k.at = "read" /\ DOMAIN k = CallFields
      /\ k = [y \in CallFields |-> k[y]]
  BY DEF Proceed, CallFields
<1> HIDE DEF s, t, u, k
<1>5. IsSeq(t) /\ \A i \in DOMAIN t : StepOK(c, t[i])
  BY <1>3 DEF Brought
<1>6. IsSeq(t \o u) /\ \A i \in DOMAIN (t \o u) : StepOK(c, (t \o u)[i])
  BY <1>2, <1>5, JoinOK
<1>7. CallOK(c, k)
  BY <1>4, <1>6 DEF CallOK
<1> QED BY <1>3, <1>4, <1>7 DEF k, s, t

LEMMA NewCallOK ==
  ASSUME LoopInv, NEW c \in Caller, NEW k, CallOK(c, k), call' = [call EXCEPT ![c] = k],
         file' = [f \in File |-> file'[f]],
         file'["retention"] \in {Torn, file["retention"]},
         file'["learner"] \in {Torn, file["learner"]}
  PROVE  LoopInv'
<1>1. call' = [d \in Caller |-> call'[d]] /\ \A d \in Caller : CallOK(d, call'[d])
  BY DEF LoopInv
<1> QED BY <1>1 DEF LoopInv

LEMMA WorkOK ==
  ASSUME LoopInv, NEW c \in Caller, Work(c)
  PROVE  LoopInv'
<1> DEFINE s == Current(c)
           f == FileOf(s.op)
<1>0. /\ CallOK(c, call[c]) /\ call = [d \in Caller |-> call[d]]
      /\ file = [g \in File |-> file[g]]
  BY DEF LoopInv
<1>1. CASE Raise(c)
  BY <1>0, <1>1, IdleOK, NewCallOK DEF Raise
<1>2. CASE Report(c)
  BY <1>0, <1>2, IdleOK, NewCallOK DEF Report
<1>3. ASSUME Busy(c)
      PROVE  StepOK(c, s) /\ s.op \in Ops /\ s = Head(call[c].todo)
  <2>1. 1 \in DOMAIN call[c].todo /\ Head(call[c].todo) = call[c].todo[1]
    BY <1>0, <1>3, TailOf DEF CallOK, Busy
  <2>2. StepOK(c, Head(call[c].todo))
    BY <1>0, <2>1 DEF CallOK
  <2> QED BY <2>2 DEF Current, StepOK
<1>4. CASE Read(c)
  <2>1. Busy(c) /\ s.op # "tell" /\ call[c].at = "read" /\ Content(c) = file[f] /\ Content(c) # Torn
    BY <1>4 DEF Read, Reading, Refused, Content
  <2>2. CASE Rewrites(s, Content(c))
    <3>1. PICK k : k = [call[c] EXCEPT !.at = "open", !.mem = Content(c)]
      OBVIOUS
    <3>2. /\ k.at = "open" /\ k.mem = Content(c) /\ k.todo = call[c].todo
          /\ DOMAIN k = CallFields /\ k = [x \in CallFields |-> k[x]]
      BY <1>0, <3>1 DEF CallOK, CallFields
    <3>3. s.op \notin {"glance", "decide", "judge", "reward", "tell"}
      BY <2>1, <2>2 DEF Rewrites
    <3>4. f = "retention" => EventsOK(k.mem)
      BY <2>1, <3>2 DEF LoopInv
    <3>5. f = "learner" => k.mem \in Learner
      BY <2>1, <3>2 DEF LoopInv
    <3>6. CallOK(c, k)
      BY <1>0, <1>3, <2>1, <3>2, <3>3, <3>4, <3>5 DEF CallOK, Busy
    <3>7. call' = [call EXCEPT ![c] = k] /\ file' = file
      BY <1>0, <1>4, <2>2, <3>1 DEF Read
    <3> QED BY <1>0, <3>6, <3>7, NewCallOK
  <2>3. CASE ~Rewrites(s, Content(c))
    <3>1. CallOK(c, Proceed(c, Content(c), call[c].begun))
      BY <1>0, <2>1, ProceedOK
    <3>2. call' = [call EXCEPT ![c] = Proceed(c, Content(c), call[c].begun)] /\ file' = file
      BY <1>0, <1>4, <2>3 DEF Read
    <3> QED BY <1>0, <3>1, <3>2, NewCallOK
  <2> QED BY <2>2, <2>3
<1>5. CASE Truncate(c)
  <2>1. PICK k : k = [call[c] EXCEPT !.at = "close"]
    OBVIOUS
  <2>2. /\ k.at = "close" /\ k.mem = call[c].mem /\ k.todo = call[c].todo
        /\ DOMAIN k = CallFields /\ k = [x \in CallFields |-> k[x]]
    BY <1>0, <2>1 DEF CallOK, CallFields
  <2>3. CallOK(c, k)
    BY <1>0, <1>5, <2>2 DEF CallOK, Truncate
  <2>4. call' = [call EXCEPT ![c] = k] /\ file' = [file EXCEPT ![f] = Torn]
    BY <1>0, <1>5, <2>1 DEF Truncate
  <2> QED BY <1>0, <2>3, <2>4, NewCallOK DEF File
<1>6. CASE Write(c)
  <2> DEFINE new == Effect(s, call[c].mem)
  <2>1. call[c].at = "close" /\ \E x \in {new, Torn} : file' = [file EXCEPT ![f] = x]
    BY <1>6 DEF Write
  <2>2. Busy(c)
    BY <1>0, <2>1 DEF CallOK, Busy
  <2>3. /\ s.op \notin {"glance", "decide", "judge", "reward", "tell"}
        /\ f = "retention" => EventsOK(call[c].mem)
        /\ f = "learner" => call[c].mem \in Learner
    BY <1>0, <2>1 DEF CallOK, Current
  <2>4. /\ f = "retention" => EventsOK(new)
        /\ f = "learner" => new \in Learner
    <3> HIDE DEF s
    <3> QED BY <1>3, <2>2, <2>3, EffectKeeps
  <2>5. f \in File
    BY <1>3, <2>2, FileOfOp
  <2>6. PICK x \in {new, Torn} : file' = [file EXCEPT ![f] = x]
    BY <2>1
  <2> HIDE DEF new, f
  <2>7. /\ file' = [g \in File |-> file'[g]]
        /\ file'["retention"] # Torn => EventsOK(file'["retention"])
        /\ file'["learner"] # Torn => file'["learner"] \in Learner
    BY <1>0, <2>4, <2>5, <2>6 DEF LoopInv
  <2>8. CallOK(c, Proceed(c, call[c].mem, TRUE))
    BY <1>0, <2>2, <2>3, ProceedOK
  <2>9. call' = [d \in Caller |->
                    IF d = c THEN Proceed(c, call[c].mem, TRUE)
                    ELSE IF call[d].at = "close" /\ FileOf(Current(d).op) = f
                    THEN [call[d] EXCEPT !.over = TRUE] ELSE call[d]]
    BY <1>6 DEF Write, f
  <2>10. ASSUME NEW d \in Caller PROVE CallOK(d, call'[d])
    <3>1. CASE d = c
      BY <2>8, <2>9, <3>1
    <3>2. CASE d # c
      <4>1. CallOK(d, call[d])
        BY DEF LoopInv
      <4>2. PICK k : k = [call[d] EXCEPT !.over = TRUE]
        OBVIOUS
      <4>3. /\ k.at = call[d].at /\ k.mem = call[d].mem /\ k.todo = call[d].todo
            /\ DOMAIN k = CallFields /\ k = [y \in CallFields |-> k[y]]
        BY <4>1, <4>2 DEF CallOK, CallFields
      <4>4. CallOK(d, k)
        BY <4>1, <4>3 DEF CallOK
      <4> QED BY <2>9, <3>2, <4>1, <4>2, <4>4
    <3> QED BY <3>1, <3>2
  <2>11. call' = [d \in Caller |-> call'[d]]
    BY <2>9
  <2> QED BY <2>7, <2>10, <2>11 DEF LoopInv
<1> QED BY <1>1, <1>2, <1>4, <1>5, <1>6 DEF Work

LEMMA LoopInvInit == Init => LoopInv
<1> SUFFICES ASSUME Init PROVE LoopInv
  OBVIOUS
<1>1. file = [f \in File |-> Default(f)] /\ call = [c \in Caller |-> Idle]
  BY DEF Init
<1>2. EventsOK(<<>>)
  <2>1. <<>> \in Seq({}) /\ DOMAIN <<>> = {}
    OBVIOUS
  <2> QED BY <2>1 DEF EventsOK, IsSeq, OneEach
<1>3. file["retention"] = <<>>
  BY <1>1 DEF File, Default
<1>4. file["learner"] \in Learner
  BY <1>1 DEF File, Default, Learner
<1> QED BY <1>1, <1>2, <1>3, <1>4, IdleOK DEF LoopInv

LEMMA LoopInvNext == LoopInv /\ [Next]_vars => LoopInv'
<1> SUFFICES ASSUME LoopInv, [Next]_vars PROVE LoopInv'
  OBVIOUS
<1>1. CASE UNCHANGED <<file, call>>
  BY <1>1 DEF LoopInv
<1>2. ASSUME NEW c \in Caller, Cut(c) PROVE LoopInv'
  BY <1>2, IdleOK, NewCallOK DEF Cut, LoopInv
<1> QED BY <1>1, <1>2, CommandOK, ServerOK, WorkOK DEF Next, vars, Tick

(***************************************************************************)
(* A competency of a mission never has two retrievals waiting              *)
(* (retention_engine.py, schedule_initial and complete_event), through     *)
(* stale copies written back, torn files and calls cut short.              *)
(***************************************************************************)
THEOREM OneOpenEventHolds == Spec => []OneOpenEvent
<1>1. LoopInv => OneOpenEvent
  BY DEF LoopInv, EventsOK, OneEach, OneOpenEvent, IsOpen
<1> QED BY <1>1, LoopInvInit, LoopInvNext, PTL DEF Spec

-----------------------------------------------------------------------------
(* What was told, and what it rests on                                     *)

In(r, ev) == \E i \in DOMAIN ev : ev[i] = r
Backed(x, ev) == \A m \in Mission : x.status[m] = "PASSED" => Evaluate(ev, m) = "PASS"

\* The evidence there is: while the command line rewrites the file, its copy.
Evidence ==
  IF call[Cli].at = "close" /\ Head(call[Cli].todo).op = "add" THEN call[Cli].mem
  ELSE file["evidence"]

\* What is left to do of a command.
PlanTrue(todo, ev) ==
  /\ \A k \in DOMAIN todo : todo[k].op \in {"add", "pass"} => k = 1
  /\ ev # Torn => \A k \in DOMAIN todo :
       /\ todo[k].op = "tell" /\ todo[k].arg.what = "evidence" =>
            \/ In(todo[k].arg.arg, ev)
            \/ todo[1].op = "add" /\ todo[1].arg = todo[k].arg.arg
       /\ todo[k].op = "pass" => Evaluate(ev, todo[k].arg) = "PASS"

CopyTrue(k, ev) ==
  k.at # "read" =>
    /\ Head(k.todo).op = "add" => k.mem = ev /\ ev # Torn
    /\ Head(k.todo).op \in {"begin", "pass"} /\ ev # Torn => Backed(k.mem, ev)

TruthInv ==
  /\ LoopInv
  /\ DOMAIN told = {"evidence", "verdict"} /\ told = [x \in DOMAIN told |-> told[x]]
  /\ Evidence # Torn =>
       /\ IsSeq(Evidence)
       /\ \A r \in told.evidence : In(r, Evidence)
       /\ file["learner"] # Torn => Backed(file["learner"], Evidence)
  /\ PlanTrue(call[Cli].todo, Evidence)
  /\ CopyTrue(call[Cli], Evidence)
  /\ call[Cli].at = "close" /\ Head(call[Cli].todo).op = "add" => file["evidence"] = Torn

LEMMA PassMeans ==
  ASSUME NEW ev, NEW m
  PROVE  Evaluate(ev, m) = "PASS" <=> Missing(ForMission(ev, m)) = {}
BY DEF Evaluate

LEMMA EvidenceGrows ==
  ASSUME NEW ev, IsSeq(ev), NEW r
  PROVE  /\ IsSeq(Append(ev, r)) /\ In(r, Append(ev, r))
         /\ \A q : In(q, ev) => In(q, Append(ev, r))
         /\ \A m : Evaluate(ev, m) = "PASS" => Evaluate(Append(ev, r), m) = "PASS"
<1>1. PICK S : ev \in Seq(S)
  BY DEF IsSeq
<1> DEFINE more == Append(ev, r)
<1>2. /\ more \in Seq(S \cup {r}) /\ Len(ev) \in Nat /\ DOMAIN ev = 1..Len(ev)
      /\ DOMAIN more = 1..(Len(ev) + 1) /\ more[Len(ev) + 1] = r
      /\ \A i \in 1..Len(ev) : more[i] = ev[i]
  BY <1>1, AppendProperties
<1> HIDE DEF more
<1>3. IsSeq(more) /\ In(r, more) /\ \A q : In(q, ev) => In(q, more)
  BY <1>2 DEF IsSeq, In
<1>4. ASSUME NEW m, Evaluate(ev, m) = "PASS" PROVE Evaluate(more, m) = "PASS"
  <2>1. ForMission(ev, m) \subseteq ForMission(more, m)
    BY <1>2 DEF ForMission
  <2>2. Missing(ForMission(more, m)) \subseteq Missing(ForMission(ev, m))
    BY <2>1 DEF Missing
  <2> QED BY <1>4, <2>2, PassMeans
<1> QED BY <1>3, <1>4 DEF more

LEMMA JudgedTrue ==
  ASSUME NEW s, s.op = "judge", NEW x, NEW i \in DOMAIN Follow(s, x),
         Follow(s, x)[i].op = "pass"
  PROVE  Evaluate(x, s.arg) = "PASS"
<1> SUFFICES ASSUME Evaluate(x, s.arg) # "PASS" PROVE FALSE
  OBVIOUS
<1> DEFINE first == Step("glance", s.arg)
           second == Step("tally", [mission |-> s.arg, verdict |-> Evaluate(x, s.arg)])
<1>1. Follow(s, x) = <<first, second>>
  BY DEF Follow, AfterJudge
<1>2. first.op = "glance" /\ second.op = "tally"
  BY DEF Step
<1> HIDE DEF first, second
<1>3. <<first, second>> \in Seq({first, second})
  OBVIOUS
<1>4. <<first, second>>[i] \in {first, second}
  BY <1>1, <1>3, ElementOfSeq, LenProperties
<1> QED BY <1>1, <1>2, <1>4

\* A step is done: the plan is what it brings about and the rest.
LEMMA PlanGoesOn ==
  ASSUME NEW todo, IsSeq(todo), todo # <<>>, NEW ev, NEW more,
         PlanTrue(todo, ev), ev # Torn \/ more = Torn,
         more # Torn =>
           /\ \A q : In(q, ev) => In(q, more)
           /\ Head(todo).op = "add" => In(Head(todo).arg, more),
         NEW c, NEW t, Brought(c, Head(todo), t),
         \A i \in DOMAIN t :
            t[i].op = "pass" /\ more # Torn => Evaluate(more, t[i].arg) = "PASS"
  PROVE  PlanTrue(t \o Tail(todo), more)
<1> DEFINE u == Tail(todo)
           w == t \o u
<1>1. /\ IsSeq(u) /\ 1 \in DOMAIN todo /\ Head(todo) = todo[1]
      /\ \A i \in DOMAIN u : i + 1 \in DOMAIN todo /\ u[i] = todo[i + 1] /\ i \in Nat \ {0}
  <2>1. PICK S : todo \in Seq(S)
    BY DEF IsSeq
  <2>2. u \in Seq(S)
    BY <2>1
  <2> QED BY <2>2, TailOf
<1>2. /\ IsSeq(t)
      /\ \A i \in DOMAIN t : t[i].op \notin {"add", "tell"} /\ (t[i].op = "pass" => i = 1)
  BY DEF Brought
<1> HIDE DEF u
<1>3. \A n \in DOMAIN w :
        \/ n \in DOMAIN t /\ w[n] = t[n]
        \/ \E j \in DOMAIN u : n = Len(t) + j /\ w[n] = u[j]
  <2>1. \A a, b : IsSeq(a) /\ IsSeq(b) =>
          \A n \in DOMAIN (a \o b) :
            \/ n \in DOMAIN a /\ (a \o b)[n] = a[n]
            \/ \E j \in DOMAIN b : n = Len(a) + j /\ (a \o b)[n] = b[j]
    BY Joined
  <2> QED BY <1>1, <1>2, <2>1
<1>4. \A j \in DOMAIN u : u[j].op \notin {"add", "pass"}
  BY <1>1 DEF PlanTrue
<1>5. ASSUME more # Torn, NEW j \in DOMAIN u, u[j].op = "tell", u[j].arg.what = "evidence"
      PROVE  In(u[j].arg.arg, more)
  BY <1>1, <1>5 DEF PlanTrue
<1> HIDE DEF w
<1>6. \A n \in DOMAIN w : w[n].op \in {"add", "pass"} => n = 1
  BY <1>2, <1>3, <1>4
<1>7. ASSUME more # Torn, NEW n \in DOMAIN w
      PROVE  /\ w[n].op = "tell" /\ w[n].arg.what = "evidence" => In(w[n].arg.arg, more)
             /\ w[n].op = "pass" => Evaluate(more, w[n].arg) = "PASS"
  <2>1. CASE n \in DOMAIN t /\ w[n] = t[n]
    BY <1>2, <1>7, <2>1
  <2>2. ASSUME NEW j \in DOMAIN u, w[n] = u[j]
        PROVE  /\ w[n].op = "tell" /\ w[n].arg.what = "evidence" => In(w[n].arg.arg, more)
               /\ w[n].op = "pass" => Evaluate(more, w[n].arg) = "PASS"
    BY <1>4, <1>5, <1>7, <2>2
  <2> QED BY <1>3, <2>1, <2>2
<1> QED BY <1>6, <1>7 DEF PlanTrue, w, u

\* What others do leaves the command line, its files and what it told alone.
LEMMA TruthKept ==
  ASSUME TruthInv, LoopInv', told' = told,
         file'["evidence"] = file["evidence"], file'["learner"] = file["learner"],
         call'[Cli].todo = call[Cli].todo, call'[Cli].at = call[Cli].at,
         call'[Cli].mem = call[Cli].mem
  PROVE  TruthInv'
<1>1. Evidence' = Evidence
  BY DEF Evidence
<1> QED BY <1>1 DEF TruthInv, CopyTrue

\* Between two steps of the command line.
LEMMA TruthAtRead ==
  ASSUME TruthInv, LoopInv', NEW k, call'[Cli] = k, k.at = "read", NEW ev, ev = file'["evidence"],
         DOMAIN told' = {"evidence", "verdict"}, told' = [x \in DOMAIN told' |-> told'[x]],
         ev # Torn => /\ IsSeq(ev) /\ \A r \in told'.evidence : In(r, ev)
                      /\ file'["learner"] # Torn => Backed(file'["learner"], ev),
         PlanTrue(k.todo, ev)
  PROVE  TruthInv'
<1>1. Evidence' = ev
  BY DEF Evidence
<1> QED BY <1>1 DEF TruthInv, CopyTrue

LEMMA PlainPlan ==
  ASSUME NEW todo, NEW ev, \A k \in DOMAIN todo : todo[k].op \notin {"add", "pass", "tell"}
  PROVE  PlanTrue(todo, ev)
BY DEF PlanTrue

LEMMA IdleTrue == ASSUME NEW ev PROVE PlanTrue(Idle.todo, ev) /\ Idle.at = "read"
<1>1. Idle.todo = <<>> /\ DOMAIN <<>> = {} /\ Idle.at = "read"
  BY DEF Idle
<1> QED BY <1>1 DEF PlanTrue

LEMMA CallTruth ==
  ASSUME TruthInv, LoopInv', NEW steps, Command(steps), PlanTrue(steps, file["evidence"])
  PROVE  TruthInv'
<1>0. Cli \in Caller
  BY DEF Caller
<1>1. CallOK(Cli, call[Cli]) /\ call = [d \in Caller |-> call[d]]
  BY <1>0 DEF TruthInv, LoopInv
<1>2. call[Cli].at = "read"
  BY <1>1 DEF CallOK, Command, Issue, Busy
<1>3. PICK k : k = [call[Cli] EXCEPT !.todo = steps]
  OBVIOUS
<1>4. call'[Cli] = k /\ file' = file /\ told' = told
  BY <1>0, <1>1, <1>3 DEF Command, Issue
<1>5. k.at = "read" /\ k.todo = steps
  BY <1>1, <1>2, <1>3 DEF CallOK, CallFields
<1>6. Evidence = file["evidence"]
  BY <1>2 DEF Evidence
<1> QED BY <1>4, <1>5, <1>6, TruthAtRead DEF TruthInv

LEMMA CommandTruth ==
  ASSUME TruthInv, LoopInv', CommandLine PROVE TruthInv'
<1> DEFINE ev == file["evidence"]
<1>1. ASSUME NEW op, op \notin {"add", "pass", "tell"}, NEW arg, Command(<<Step(op, arg)>>)
      PROVE  TruthInv'
  <2>1. Step(op, arg).op = op
    BY DEF Step
  <2>2. PlanTrue(<<Step(op, arg)>>, ev)
    BY <1>1, <2>1, Singleton, PlainPlan
  <2> QED BY <1>1, <2>2, CallTruth
<1>2. ASSUME NEW m \in Mission, Start(m) PROVE TruthInv'
  <2>1. PICK todo : todo = <<Step("begin", m), Step("session", None), Step("focus", m)>>
    OBVIOUS
  <2>2. todo \in Seq({Step("begin", m), Step("session", None), Step("focus", m)})
    BY <2>1
  <2>3. \A k \in DOMAIN todo :
           todo[k] \in {Step("begin", m), Step("session", None), Step("focus", m)}
    BY <2>2, ElementOfSeq, LenProperties
  <2>4. PlanTrue(todo, ev)
    BY <2>3, PlainPlan DEF Step
  <2> QED BY <1>2, <2>1, <2>4, CallTruth DEF Start
<1>3. ASSUME NEW r, Hand(r) PROVE TruthInv'
  <2> DEFINE a == Step("add", r)
             b == Step("ingest", r)
             d == Tell("evidence", r)
  <2>1. /\ a.op = "add" /\ a.arg = r /\ b.op = "ingest"
        /\ d.op = "tell" /\ d.arg.arg = r
    BY DEF Step, Tell
  <2>2. Hand(r) = Command(<<a, b, d>>)
    BY DEF Hand
  <2> HIDE DEF a, b, d
  <2>3. PICK todo : todo = <<a, b, d>>
    OBVIOUS
  <2>4. todo \in Seq({a, b, d}) /\ Len(todo) = 3 /\ todo[1] = a /\ todo[2] = b /\ todo[3] = d
    BY <2>3
  <2>5. \A k \in DOMAIN todo : k = 1 \/ k = 2 \/ k = 3
    BY <2>4
  <2>6. PlanTrue(todo, ev)
    BY <2>1, <2>4, <2>5 DEF PlanTrue
  <2> QED BY <1>3, <2>2, <2>3, <2>6, CallTruth
<1>4. ASSUME NEW id, NEW v, Complete(id, v) PROVE TruthInv'
  <2> DEFINE a == Step("complete", [id |-> id, verdict |-> v])
             d == Tell("verdict", [id |-> id, verdict |-> v])
  <2>1. a.op = "complete" /\ d.op = "tell" /\ d.arg.what = "verdict"
    BY DEF Step, Tell
  <2>2. Command(<<a, d>>)
    BY <1>4 DEF Complete
  <2> HIDE DEF a, d
  <2>3. PICK todo : todo = <<a, d>>
    OBVIOUS
  <2>4. todo \in Seq({a, d})
    BY <2>3
  <2>5. \A k \in DOMAIN todo : todo[k] \in {a, d}
    BY <2>4, ElementOfSeq, LenProperties
  <2>6. PlanTrue(todo, ev)
    BY <2>1, <2>5 DEF PlanTrue
  <2> QED BY <2>2, <2>3, <2>6, CallTruth
<1> QED
  BY <1>1, <1>2, <1>3, <1>4
     DEF CommandLine, Gate, OpenQuest, Close, EvaluateByHand, Retention, Advise

\* A dashboard thread writes events and the model, never evidence or learner.
LEMMA ThreadTruth ==
  ASSUME TruthInv, LoopInv', NEW d \in Dashboard,
         Work(d) \/ Cut(d) \/ (\E m, b : Request(d, m, b))
  PROVE  TruthInv'
<1>0. d \in Caller /\ Cli \in Caller /\ d # Cli
  BY LoopAssumption DEF Caller
<1>1. /\ CallOK(d, call[d]) /\ CallOK(Cli, call[Cli])
      /\ call = [c \in Caller |-> call[c]] /\ file = [g \in File |-> file[g]]
  BY <1>0 DEF TruthInv, LoopInv
<1>2. Busy(d) => Current(d).op \in {"due", "decide", "refresh"}
  <2> SUFFICES ASSUME Busy(d) PROVE Current(d).op \in {"due", "decide", "refresh"}
    OBVIOUS
  <2>1. 1 \in DOMAIN call[d].todo /\ Head(call[d].todo) = call[d].todo[1]
    BY <1>1, TailOf DEF CallOK, Busy
  <2> QED BY <1>1, <2>1 DEF CallOK, StepOK, Current
<1>3. call[d].at # "read" => Busy(d) /\ Current(d).op \in {"due", "refresh"}
  BY <1>1, <1>2 DEF CallOK, Busy, Current
<1>4. told' = told
  <2>1. ~Report(d)
    BY <1>2 DEF Report
  <2> QED BY <2>1 DEF Work, Raise, Read, Truncate, Write, Cut, Request, Issue
<1>5. /\ file'["evidence"] = file["evidence"] /\ file'["learner"] = file["learner"]
  <2>1. \A x : \A f \in {"retention", "model"} :
          /\ [file EXCEPT ![f] = x]["evidence"] = file["evidence"]
          /\ [file EXCEPT ![f] = x]["learner"] = file["learner"]
    BY <1>1
  <2>2. FileOf("due") = "retention" /\ FileOf("refresh") = "model"
    BY DEF FileOf
  <2>3. CASE Truncate(d)
    BY <1>3, <2>1, <2>2, <2>3 DEF Truncate
  <2>4. CASE Write(d)
    BY <1>3, <2>1, <2>2, <2>4 DEF Write
  <2> QED BY <2>3, <2>4 DEF Work, Raise, Read, Report, Cut, Request, Issue
<1>6. /\ call'[Cli].todo = call[Cli].todo /\ call'[Cli].at = call[Cli].at
      /\ call'[Cli].mem = call[Cli].mem
  <2>1. CASE Write(d)
    <3>1. call'[Cli] \in {call[Cli], [call[Cli] EXCEPT !.over = TRUE]}
      BY <1>0, <2>1 DEF Write
    <3> QED BY <1>1, <3>1 DEF CallOK, CallFields
  <2>2. CASE ~Write(d)
    <3>1. call'[Cli] = call[Cli]
      BY <1>0, <1>1, <2>2 DEF Work, Raise, Read, Truncate, Report, Cut, Request, Issue
    <3> QED BY <3>1
  <2> QED BY <2>1, <2>2
<1> QED BY <1>4, <1>5, <1>6, TruthKept

\* The head of the plan, and what the invariant says of it.
LEMMA HeadTrue ==
  ASSUME TruthInv, Busy(Cli)
  PROVE  LET s == Current(Cli) todo == call[Cli].todo IN
         /\ Cli \in Caller /\ CallOK(Cli, call[Cli]) /\ IsSeq(todo) /\ todo # <<>>
         /\ 1 \in DOMAIN todo /\ s = todo[1] /\ s = Head(todo)
         /\ StepOK(Cli, s) /\ s.op \in Ops
<1>0. Cli \in Caller
  BY DEF Caller
<1>1. CallOK(Cli, call[Cli])
  BY <1>0 DEF TruthInv, LoopInv
<1>2. IsSeq(call[Cli].todo) /\ call[Cli].todo # <<>>
  BY <1>1 DEF CallOK, Busy
<1>3. 1 \in DOMAIN call[Cli].todo /\ Head(call[Cli].todo) = call[Cli].todo[1]
  BY <1>2, TailOf
<1>4. StepOK(Cli, call[Cli].todo[1])
  BY <1>1, <1>3 DEF CallOK
<1> QED BY <1>0, <1>1, <1>2, <1>3, <1>4 DEF Current, StepOK

LEMMA StopTruth ==
  ASSUME TruthInv, LoopInv', Raise(Cli) \/ Cut(Cli) PROVE TruthInv'
<1>0. Cli \in Caller /\ call = [d \in Caller |-> call[d]]
  BY DEF Caller, TruthInv, LoopInv
<1>1. call'[Cli] = Idle /\ file' = file /\ told' = told
  BY <1>0 DEF Raise, Cut
<1>2. file["evidence"] # Torn => Evidence = file["evidence"]
  BY DEF TruthInv, Evidence
<1>3. PICK k : k = Idle
  OBVIOUS
<1>4. PlanTrue(k.todo, file["evidence"]) /\ k.at = "read"
  BY <1>3, IdleTrue
<1>5. file["evidence"] # Torn =>
        /\ IsSeq(file["evidence"]) /\ \A r \in told'.evidence : In(r, file["evidence"])
        /\ file'["learner"] # Torn => Backed(file'["learner"], file["evidence"])
  BY <1>1, <1>2 DEF TruthInv
<1>6. DOMAIN told' = {"evidence", "verdict"} /\ told' = [x \in DOMAIN told' |-> told'[x]]
  BY <1>1 DEF TruthInv
<1> QED BY <1>1, <1>3, <1>4, <1>5, <1>6, TruthAtRead

LEMMA ReportTruth ==
  ASSUME TruthInv, LoopInv', Report(Cli) PROVE TruthInv'
<1> DEFINE say == Current(Cli).arg
           todo == call[Cli].todo
<1>0. Busy(Cli) /\ Current(Cli).op = "tell" /\ file' = file
  BY DEF Report
<1>1. /\ CallOK(Cli, call[Cli]) /\ StepOK(Cli, Current(Cli)) /\ Cli \in Caller
      /\ 1 \in DOMAIN todo /\ Current(Cli) = todo[1] /\ Current(Cli) = Head(todo)
  BY <1>0, HeadTrue
<1>2. call[Cli].at = "read"
  BY <1>0, <1>1 DEF CallOK
<1>3. Evidence = file["evidence"] /\ say.what \in {"evidence", "verdict"}
  BY <1>0, <1>1, <1>2 DEF Evidence, StepOK
<1>4. call'[Cli] = Idle
  BY <1>1 DEF Report, TruthInv, LoopInv
<1>5. CASE say.what = "verdict"
  <2>1. told' = [told EXCEPT !.verdict = {v \in @ : v.id # say.arg.id} \cup {say.arg}]
    BY <1>5 DEF Report
  <2>2. /\ DOMAIN told' = {"evidence", "verdict"} /\ told' = [x \in DOMAIN told' |-> told'[x]]
        /\ told'.evidence = told.evidence
    BY <2>1 DEF TruthInv
  <2> QED BY <1>0, <1>3, <1>4, <2>2, IdleTrue, TruthAtRead DEF TruthInv
<1>6. CASE say.what = "evidence"
  <2>1. told' = [told EXCEPT !.evidence = @ \cup {say.arg}]
    BY <1>6 DEF Report
  <2>2. /\ DOMAIN told' = {"evidence", "verdict"} /\ told' = [x \in DOMAIN told' |-> told'[x]]
        /\ told'.evidence = told.evidence \cup {say.arg}
    BY <2>1 DEF TruthInv
  <2>3. Evidence # Torn => In(say.arg, Evidence)
    BY <1>0, <1>1, <1>6 DEF TruthInv, PlanTrue
  <2> QED BY <1>0, <1>3, <1>4, <2>2, <2>3, IdleTrue, TruthAtRead DEF TruthInv
<1> QED BY <1>3, <1>5, <1>6

LEMMA ReadTruth ==
  ASSUME TruthInv, LoopInv', Read(Cli) PROVE TruthInv'
<1> DEFINE s == Current(Cli)
           todo == call[Cli].todo
           x == Content(Cli)
           ev == file["evidence"]
<1>0. Busy(Cli) /\ s.op # "tell" /\ call[Cli].at = "read" /\ file' = file /\ told' = told
      /\ x # Torn
  BY DEF Read, Reading, Refused
<1>1. /\ CallOK(Cli, call[Cli]) /\ StepOK(Cli, s) /\ Cli \in Caller /\ s.op \in Ops
      /\ IsSeq(todo) /\ todo # <<>> /\ 1 \in DOMAIN todo /\ s = todo[1] /\ s = Head(todo)
  BY <1>0, HeadTrue
<1>2. Evidence = ev
  BY <1>0 DEF Evidence
<1>3. CASE Rewrites(s, x)
  <2>1. PICK k : k = [call[Cli] EXCEPT !.at = "open", !.mem = x]
    OBVIOUS
  <2>2. k.at = "open" /\ k.mem = x /\ k.todo = todo
    BY <1>1, <2>1 DEF CallOK, CallFields
  <2>3. call'[Cli] = k
    BY <1>1, <1>3, <2>1 DEF Read, TruthInv, LoopInv
  <2>4. Evidence' = ev
    BY <1>0, <2>2, <2>3 DEF Evidence
  <2>5. s.op = "add" => x = ev
    BY FileOfOp, <1>1 DEF Content
  <2>6. s.op \in {"begin", "pass"} => x = file["learner"]
    BY FileOfOp, <1>1 DEF Content
  <2>7. CopyTrue(k, ev)
    <3>1. s.op \in {"begin", "pass"} /\ ev # Torn => Backed(x, ev)
      BY <1>0, <1>2, <2>6 DEF TruthInv
    <3> HIDE DEF x, ev
    <3> QED BY <1>0, <1>1, <2>2, <2>5, <3>1 DEF CopyTrue
  <2>8. PlanTrue(k.todo, ev)
    BY <1>2, <2>2 DEF TruthInv
  <2> HIDE DEF ev
  <2> QED BY <1>0, <1>2, <2>2, <2>3, <2>4, <2>7, <2>8 DEF TruthInv
<1>4. CASE ~Rewrites(s, x)
  <2> DEFINE t == Follow(s, x)
             k == Proceed(Cli, x, call[Cli].begun)
  <2>1. call'[Cli] = k
    BY <1>1, <1>4 DEF Read, TruthInv, LoopInv
  <2>2. k.at = "read" /\ k.todo = t \o Tail(todo)
    BY DEF Proceed
  <2>3. Brought(Cli, Head(todo), t)
    BY <1>0, <1>1, ProceedOK
  <2>4. s.op # "add"
    BY <1>4 DEF Rewrites
  <2>5. ASSUME NEW i \in DOMAIN t, t[i].op = "pass" PROVE Evaluate(ev, t[i].arg) = "PASS"
    <3>1. s.op = "judge" /\ t[i].arg = s.arg
      BY <1>1, <2>3, <2>5 DEF Brought
    <3>2. x = ev
      BY <3>1, <1>1, FileOfOp DEF Content
    <3>3. Evaluate(x, s.arg) = "PASS"
      BY <2>5, <3>1, JudgedTrue
    <3> QED BY <3>1, <3>2, <3>3
  <2> HIDE DEF t, k
  <2>6. PlanTrue(todo, ev)
    BY <1>2 DEF TruthInv
  <2>7. PlanTrue(k.todo, ev)
    <3> HIDE DEF ev, todo
    <3>1. s.op # "add" => Head(todo).op # "add"
      BY <1>1
    <3> QED BY <1>1, <2>2, <2>3, <2>4, <2>5, <2>6, <3>1, PlanGoesOn
  <2> QED BY <1>0, <1>2, <2>1, <2>2, <2>7, TruthAtRead DEF TruthInv
<1> QED BY <1>3, <1>4

LEMMA TruncateTruth ==
  ASSUME TruthInv, LoopInv', Truncate(Cli) PROVE TruthInv'
<1> DEFINE s == Current(Cli)
           f == FileOf(s.op)
<1>0. call[Cli].at = "open" /\ file' = [file EXCEPT ![f] = Torn] /\ told' = told
  BY DEF Truncate
<1>1. Busy(Cli)
  <2>1. CallOK(Cli, call[Cli])
    BY DEF TruthInv, LoopInv, Caller
  <2> QED BY <1>0, <2>1 DEF CallOK, Busy
<1>2. /\ CallOK(Cli, call[Cli]) /\ Cli \in Caller /\ s = Head(call[Cli].todo) /\ s.op \in Ops
  BY <1>1, HeadTrue
<1>3. PICK k : k = [call[Cli] EXCEPT !.at = "close"]
  OBVIOUS
<1>4. k.at = "close" /\ k.mem = call[Cli].mem /\ k.todo = call[Cli].todo
  BY <1>2, <1>3 DEF CallOK, CallFields
<1>5. call'[Cli] = k
  BY <1>2, <1>3 DEF Truncate, TruthInv, LoopInv
<1>6. Evidence = file["evidence"] /\ (s.op = "add" => call[Cli].mem = Evidence)
  BY <1>0, <1>2 DEF Evidence, TruthInv, CopyTrue
<1>7. file = [g \in File |-> file[g]] /\ f \in File
      /\ (f = "evidence" <=> s.op \in {"add", "judge", "reward"})
  BY <1>2, FileOfOp DEF TruthInv, LoopInv
<1>8. s.op \notin {"judge", "reward"}
  BY <1>0, <1>2 DEF CallOK
<1>9. Evidence' = Evidence
  <2>1. CASE s.op = "add"
    BY <1>2, <1>4, <1>5, <1>6, <2>1 DEF Evidence
  <2>2. CASE s.op # "add"
    <3>1. file'["evidence"] = file["evidence"]
      BY <1>0, <1>7, <1>8, <2>2 DEF File
    <3> QED BY <1>2, <1>4, <1>5, <1>6, <2>2, <3>1 DEF Evidence
  <2> QED BY <2>1, <2>2
<1>10. file'["learner"] \in {Torn, file["learner"]}
  BY <1>0, <1>7 DEF File
<1>11. s.op = "add" => file'["evidence"] = Torn
  BY <1>0, <1>7 DEF File
<1>12. CopyTrue(k, Evidence)
  BY <1>0, <1>4 DEF TruthInv, CopyTrue
<1>13. Head(k.todo) = s
  BY <1>2, <1>4
<1> HIDE DEF s, f
<1> QED BY <1>0, <1>4, <1>5, <1>9, <1>10, <1>11, <1>12, <1>13 DEF TruthInv

LEMMA WriteTruth ==
  ASSUME TruthInv, LoopInv', Write(Cli) PROVE TruthInv'
<1> DEFINE s == Current(Cli)
           f == FileOf(s.op)
           todo == call[Cli].todo
           mem == call[Cli].mem
           t == Follow(s, mem)
           k == Proceed(Cli, mem, TRUE)
           more == file'["evidence"]
<1>0. call[Cli].at = "close" /\ told' = told
  BY DEF Write
<1>1. Busy(Cli)
  <2>1. CallOK(Cli, call[Cli])
    BY DEF TruthInv, LoopInv, Caller
  <2> QED BY <1>0, <2>1 DEF CallOK, Busy
<1>2. /\ CallOK(Cli, call[Cli]) /\ StepOK(Cli, s) /\ Cli \in Caller /\ s.op \in Ops
      /\ IsSeq(todo) /\ todo # <<>> /\ 1 \in DOMAIN todo /\ s = todo[1] /\ s = Head(todo)
  BY <1>1, HeadTrue
<1>3. s.op \notin {"glance", "decide", "judge", "reward", "tell"}
  BY <1>0, <1>2 DEF CallOK
<1>4. PICK x \in {Effect(s, mem), Torn} : file' = [file EXCEPT ![f] = x]
  BY DEF Write
<1>5. file = [g \in File |-> file[g]] /\ f \in File
      /\ (f = "evidence" <=> s.op = "add") /\ (f = "learner" <=> s.op \in {"begin", "pass"})
  BY <1>2, <1>3, FileOfOp DEF TruthInv, LoopInv
<1>6. call'[Cli] = k /\ k.at = "read" /\ k.todo = t \o Tail(todo)
  BY <1>2 DEF Write, Proceed
<1>7. Brought(Cli, Head(todo), t)
  BY <1>1, <1>2, <1>3, ProceedOK
<1>8. \A i \in DOMAIN t : t[i].op # "pass"
  BY <1>2, <1>3, <1>7 DEF Brought
<1>9. /\ Evidence # Torn \/ more = Torn
      /\ more # Torn =>
           /\ IsSeq(more) /\ \A q : In(q, Evidence) => In(q, more)
           /\ \A m : Evaluate(Evidence, m) = "PASS" => Evaluate(more, m) = "PASS"
           /\ s.op = "add" => In(s.arg, more)
  <2>1. CASE s.op = "add"
    <3>1. Evidence = mem /\ Effect(s, mem) = Append(mem, s.arg) /\ more = x
      BY <1>0, <1>2, <1>4, <1>5, <2>1 DEF Evidence, Effect, File
    <3>2. Evidence # Torn
      <4>1. CopyTrue(call[Cli], Evidence)
        BY DEF TruthInv
      <4> QED BY <1>0, <1>2, <2>1, <4>1 DEF CopyTrue
    <3>3. IsSeq(Evidence)
      BY <3>2 DEF TruthInv
    <3>4. more = Torn \/ more = Append(Evidence, s.arg)
      BY <1>4, <3>1
    <3> HIDE DEF s, mem, more
    <3>5. CASE more = Torn
      BY <3>5
    <3>6. CASE more = Append(Evidence, s.arg)
      BY <3>2, <3>3, <3>6, EvidenceGrows
    <3> QED BY <3>4, <3>5, <3>6
  <2>2. CASE s.op # "add"
    <3>1. Evidence = file["evidence"] /\ more = file["evidence"]
      BY <1>2, <1>4, <1>5, <2>2 DEF Evidence, File
    <3> QED BY <2>2, <3>1 DEF TruthInv
  <2> QED BY <2>1, <2>2
<1>10. ASSUME more # Torn, file'["learner"] # Torn PROVE Backed(file'["learner"], more)
  <2>0. Evidence # Torn
    BY <1>9, <1>10
  <2>1. CASE s.op \in {"begin", "pass"}
    <3>1. file'["learner"] = Effect(s, mem)
      BY <1>4, <1>5, <1>10, <2>1 DEF File
    <3>2. mem \in Learner /\ s.arg \in Mission
      BY <1>0, <1>2, <1>5, <2>1 DEF CallOK, StepOK, MissionOps
    <3>3. Backed(mem, Evidence)
      BY <1>0, <1>2, <2>0, <2>1 DEF TruthInv, CopyTrue
    <3>4. s.op = "pass" => Evaluate(Evidence, s.arg) = "PASS"
      BY <1>2, <2>0 DEF TruthInv, PlanTrue
    <3>5. ASSUME NEW m \in Mission, Effect(s, mem).status[m] = "PASSED"
          PROVE  mem.status[m] = "PASSED" \/ (s.op = "pass" /\ m = s.arg)
      <4>1. mem.status = [n \in Mission |-> mem.status[n]] /\ DOMAIN mem = {"current", "status"}
        BY <3>2 DEF Learner
      <4>2. CASE s.op = "begin"
        <5>1. Effect(s, mem) = [mem EXCEPT !.current = s.arg, !.status[s.arg] = "IN_PROGRESS"]
          BY <4>2 DEF Effect
        <5>2. Effect(s, mem).status = [mem.status EXCEPT ![s.arg] = "IN_PROGRESS"]
          BY <4>1, <5>1
        <5> QED BY <3>5, <4>1, <5>2
      <4>3. CASE s.op = "pass"
        <5>1. Effect(s, mem) = [mem EXCEPT !.status[s.arg] = "PASSED"]
          BY <4>3 DEF Effect
        <5>2. Effect(s, mem).status = [mem.status EXCEPT ![s.arg] = "PASSED"]
          BY <4>1, <5>1
        <5> QED BY <3>5, <4>1, <4>3, <5>2
      <4> QED BY <2>1, <4>2, <4>3
    <3>6. Backed(Effect(s, mem), more)
      <4> HIDE DEF s, mem, more
      <4> QED BY <1>9, <1>10, <3>3, <3>4, <3>5 DEF Backed
    <3> QED BY <3>1, <3>6
  <2>2. CASE s.op \notin {"begin", "pass"}
    <3>1. file'["learner"] = file["learner"]
      BY <1>4, <1>5, <2>2 DEF File
    <3>2. Backed(file["learner"], Evidence)
      BY <1>10, <2>0, <3>1 DEF TruthInv
    <3> HIDE DEF more
    <3> QED BY <1>9, <1>10, <3>1, <3>2 DEF Backed
  <2> QED BY <2>1, <2>2
<1>11. PlanTrue(k.todo, more)
  <2>1. PlanTrue(todo, Evidence)
    BY DEF TruthInv
  <2>2. more # Torn => (Head(todo).op = "add" => In(Head(todo).arg, more))
    BY <1>2, <1>9
  <2> HIDE DEF t, k, more, todo, s
  <2> QED BY <1>2, <1>6, <1>7, <1>8, <1>9, <2>1, <2>2, PlanGoesOn
<1>12. more # Torn => IsSeq(more) /\ \A r \in told'.evidence : In(r, more)
  BY <1>0, <1>9 DEF TruthInv
<1>13. DOMAIN told' = {"evidence", "verdict"} /\ told' = [y \in DOMAIN told' |-> told'[y]]
  BY <1>0 DEF TruthInv
<1> HIDE DEF k
<1> QED BY <1>6, <1>10, <1>11, <1>12, <1>13, TruthAtRead

LEMMA TruthInit == Init => TruthInv
<1> SUFFICES ASSUME Init PROVE TruthInv
  OBVIOUS
<1>1. /\ file = [f \in File |-> Default(f)] /\ call[Cli] = Idle
      /\ told = [evidence |-> {}, verdict |-> {}]
  BY DEF Init, Caller
<1>2. Evidence = <<>>
  BY <1>1, IdleTrue DEF Evidence, Idle, File, Default
<1>3. <<>> \in Seq({})
  OBVIOUS
<1>4. \A m \in Mission : file["learner"].status[m] = "NEW"
  BY <1>1 DEF File, Default
<1>5. DOMAIN told = {"evidence", "verdict"} /\ told = [x \in DOMAIN told |-> told[x]]
      /\ told.evidence = {}
  BY <1>1
<1>6. IsSeq(Evidence) /\ Backed(file["learner"], Evidence)
  BY <1>2, <1>3, <1>4 DEF IsSeq, Backed
<1> QED BY <1>1, <1>5, <1>6, LoopInvInit, IdleTrue DEF TruthInv, CopyTrue

LEMMA TruthNext == TruthInv /\ [Next]_vars => TruthInv'
<1> SUFFICES ASSUME TruthInv, [Next]_vars PROVE TruthInv'
  OBVIOUS
<1>0. LoopInv'
  BY LoopInvNext DEF TruthInv
<1>1. CASE UNCHANGED vars \/ Tick
  BY <1>0, <1>1, TruthKept DEF vars, Tick
<1>2. ASSUME NEW c \in Caller, Work(c) \/ Cut(c) PROVE TruthInv'
  <2>1. CASE c = Cli
    BY <1>0, <1>2, <2>1, StopTruth, ReportTruth, ReadTruth, TruncateTruth, WriteTruth DEF Work
  <2>2. CASE c \in Dashboard
    BY <1>0, <1>2, <2>2, ThreadTruth
  <2> QED BY <2>1, <2>2 DEF Caller
<1>3. CASE Server
  BY <1>0, <1>3, ThreadTruth DEF Server
<1>4. CASE CommandLine
  BY <1>0, <1>4, CommandTruth
<1> QED BY <1>1, <1>2, <1>3, <1>4 DEF Next

(***************************************************************************)
(* An evidence file that can be read (evidence_engine.py, storage.py) has  *)
(* all evidence that a command reported recorded, and with it what each    *)
(* PASSED mission passed its gate with (gate_engine.py), for any calls in  *)
(* any order. A command cut while it rewrites the file loses it; no later  *)
(* one replaces the Torn file.                                             *)
(***************************************************************************)
THEOREM ToldStaysTrueHolds == Spec => []ToldStaysTrue
<1>1. TruthInv => ToldStaysTrue
  <2> SUFFICES ASSUME TruthInv, file["evidence"] # Torn PROVE ToldStaysTrue
    BY DEF ToldStaysTrue
  <2>1. Evidence = file["evidence"]
    BY DEF TruthInv, Evidence
  <2> QED BY <2>1 DEF TruthInv, ToldStaysTrue, In, Backed
<1> QED BY <1>1, TruthInit, TruthNext, PTL DEF Spec

(***************************************************************************)
(* What the files hold while nobody is harmed. A call that is rewriting a  *)
(* file has truncated it, but holds what it will write in its place: Held  *)
(* puts back the text the call read, so that a file changes at once, when  *)
(* it is written, and truncating it changes nothing. Calm says that no     *)
(* copy is stale.                                                          *)
(***************************************************************************)

CallCalm(files, k) ==
  /\ k.over = FALSE /\ k.begun \in BOOLEAN
  /\ k.at # "read" =>
       /\ k.mem # Torn /\ FileOf(Head(k.todo).op) \in File
       /\ Head(k.todo).op = "complete" => Head(k.todo).arg.id \in DOMAIN k.mem
  /\ k.at = "close" => files[FileOf(Head(k.todo).op)] = Torn

Rewriting(k, f) == k.at = "close" /\ FileOf(Head(k.todo).op) = f

Calm(files, calls) ==
  /\ \A c \in Caller : CallCalm(files, calls[c])
  /\ \A c, d \in Caller, f \in File : Rewriting(calls[c], f) /\ Rewriting(calls[d], f) => c = d

Held(files, calls) ==
  [f \in File |-> IF \E c \in Caller : Rewriting(calls[c], f)
                  THEN calls[CHOOSE c \in Caller : Rewriting(calls[c], f)].mem
                  ELSE files[f]]

Now == Held(file, call)

CalmInv == LoopInv /\ (~harmed => Calm(file, call))

LEMMA HeldIs ==
  ASSUME NEW files, NEW calls, Calm(files, calls), NEW f \in File
  PROVE  /\ Held(files, calls) = [g \in File |-> Held(files, calls)[g]]
         /\ \A c \in Caller : Rewriting(calls[c], f) => Held(files, calls)[f] = calls[c].mem
         /\ (\A c \in Caller : ~Rewriting(calls[c], f)) => Held(files, calls)[f] = files[f]
         /\ files[f] # Torn => Held(files, calls)[f] = files[f]
<1>1. Held(files, calls) = [g \in File |-> Held(files, calls)[g]]
  BY DEF Held
<1>2. ASSUME NEW c \in Caller, Rewriting(calls[c], f)
      PROVE  Held(files, calls)[f] = calls[c].mem
  <2>1. (CHOOSE d \in Caller : Rewriting(calls[d], f)) = c
    BY <1>2 DEF Calm
  <2> QED BY <1>2, <2>1 DEF Held
<1>3. (\A c \in Caller : ~Rewriting(calls[c], f)) => Held(files, calls)[f] = files[f]
  BY DEF Held
<1>4. files[f] # Torn => \A c \in Caller : ~Rewriting(calls[c], f)
  BY DEF Calm, CallCalm, Rewriting
<1> QED BY <1>1, <1>2, <1>3, <1>4

LEMMA SameHeld ==
  ASSUME NEW files, NEW calls, NEW files2, NEW calls2,
         \A f \in File : Held(files2, calls2)[f] = Held(files, calls)[f]
  PROVE  Held(files2, calls2) = Held(files, calls)
<1>1. /\ Held(files2, calls2) = [f \in File |-> Held(files2, calls2)[f]]
      /\ Held(files, calls) = [f \in File |-> Held(files, calls)[f]]
  BY DEF Held
<1> QED BY <1>1

\* A call that neither begins nor ends a rewriting.
LEMMA MoveHeld ==
  ASSUME NEW files, NEW calls, NEW calls2, Calm(files, calls), NEW c \in Caller,
         \A d \in Caller \ {c} : calls2[d] = calls[d],
         calls[c].at # "close", calls2[c].at # "close", CallCalm(files, calls2[c])
  PROVE  Calm(files, calls2) /\ Held(files, calls2) = Held(files, calls)
<1>1. \A d \in Caller, f \in File : Rewriting(calls2[d], f) <=> Rewriting(calls[d], f)
  BY DEF Rewriting
<1>2. Calm(files, calls2)
  BY <1>1 DEF Calm
<1>3. ASSUME NEW f \in File PROVE Held(files, calls2)[f] = Held(files, calls)[f]
  <2>1. CASE \E d \in Caller : Rewriting(calls[d], f)
    <3>1. PICK d \in Caller : Rewriting(calls[d], f)
      BY <2>1
    <3>2. Rewriting(calls2[d], f) /\ d # c
      BY <1>1, <3>1 DEF Rewriting
    <3> QED BY <1>2, <3>1, <3>2, HeldIs
  <2>2. CASE ~\E d \in Caller : Rewriting(calls[d], f)
    BY <1>1, <1>2, <2>2, HeldIs
  <2> QED BY <2>1, <2>2
<1> QED BY <1>2, <1>3, SameHeld

\* Call c empties file g, or writes x to it.
Truncating(files, calls, files2, calls2, c, g) ==
  /\ Calm(files, calls) /\ c \in Caller /\ g \in File /\ FileOf(Head(calls[c].todo).op) = g
  /\ \A f \in File : files2[f] = IF f = g THEN Torn ELSE files[f]
  /\ \A d \in Caller \ {c} : calls2[d] = calls[d]
  /\ calls[c].at = "open" /\ calls2[c].at = "close" /\ files[g] = calls[c].mem
  /\ calls2[c].todo = calls[c].todo /\ calls2[c].mem = calls[c].mem
  /\ calls2[c].begun = calls[c].begun /\ calls2[c].over = FALSE

Writing(files, calls, files2, calls2, c, g, x) ==
  /\ Calm(files, calls) /\ c \in Caller /\ g \in File /\ FileOf(Head(calls[c].todo).op) = g
  /\ \A f \in File : files2[f] = IF f = g THEN x ELSE files[f]
  /\ \A d \in Caller \ {c} : calls2[d] = calls[d]
  /\ calls[c].at = "close" /\ calls2[c].at = "read"
  /\ calls2[c].begun \in BOOLEAN /\ calls2[c].over = FALSE

LEMMA TruncateHeld ==
  ASSUME NEW files, NEW calls, NEW files2, NEW calls2, NEW c, NEW g,
         Truncating(files, calls, files2, calls2, c, g)
  PROVE  Calm(files2, calls2) /\ Held(files2, calls2) = Held(files, calls)
<1> USE DEF Truncating
<1>1. \A d \in Caller : ~Rewriting(calls[d], g)
  BY DEF Calm, CallCalm, Rewriting
<1>2. \A d \in Caller, f \in File :
        Rewriting(calls2[d], f) <=> IF d = c THEN f = g ELSE Rewriting(calls[d], f)
  BY DEF Rewriting
<1>3. \A d \in Caller : CallCalm(files2, calls2[d])
  <2> SUFFICES ASSUME NEW d \in Caller PROVE CallCalm(files2, calls2[d])
    OBVIOUS
  <2>1. CASE d = c
    BY <2>1 DEF Calm, CallCalm
  <2>2. CASE d # c
    <3>1. CallCalm(files, calls[d]) /\ calls2[d] = calls[d]
      BY <2>2 DEF Calm
    <3>2. calls[d].at = "close" => files2[FileOf(Head(calls[d].todo).op)] = Torn
      BY <3>1 DEF CallCalm
    <3> QED BY <3>1, <3>2 DEF CallCalm
  <2> QED BY <2>1, <2>2
<1>4. Calm(files2, calls2)
  <2>1. ASSUME NEW d \in Caller, NEW e \in Caller, NEW f \in File,
               Rewriting(calls2[d], f), Rewriting(calls2[e], f)
        PROVE  d = e
    BY <1>1, <1>2, <2>1 DEF Calm
  <2> QED BY <1>3, <2>1 DEF Calm
<1>5. ASSUME NEW f \in File PROVE Held(files2, calls2)[f] = Held(files, calls)[f]
  <2>1. CASE f = g
    <3>1. Rewriting(calls2[c], f)
      BY <1>2, <2>1
    <3> QED BY <1>1, <1>4, <2>1, <3>1, HeldIs
  <2>2. CASE f # g /\ \E d \in Caller : Rewriting(calls[d], f)
    <3>1. PICK d \in Caller : Rewriting(calls[d], f)
      BY <2>2
    <3>2. Rewriting(calls2[d], f) /\ d # c
      BY <1>2, <3>1 DEF Rewriting
    <3> QED BY <1>4, <3>1, <3>2, HeldIs
  <2>3. CASE f # g /\ ~\E d \in Caller : Rewriting(calls[d], f)
    <3>1. \A d \in Caller : ~Rewriting(calls2[d], f)
      BY <1>2, <2>3
    <3> QED BY <1>4, <2>3, <3>1, HeldIs
  <2> QED BY <2>1, <2>2, <2>3
<1>6. Held(files2, calls2) = Held(files, calls)
  BY <1>5, SameHeld
<1> QED BY <1>4, <1>6

LEMMA WriteHeld ==
  ASSUME NEW files, NEW calls, NEW files2, NEW calls2, NEW c, NEW g, NEW x,
         Writing(files, calls, files2, calls2, c, g, x)
  PROVE  /\ Calm(files2, calls2)
         /\ \A f \in File : Held(files2, calls2)[f] = IF f = g THEN x ELSE Held(files, calls)[f]
<1> USE DEF Writing
<1>1. \A d \in Caller : Rewriting(calls[d], g) => d = c
  BY DEF Calm, Rewriting
<1>2. \A d \in Caller, f \in File : Rewriting(calls2[d], f) <=> d # c /\ Rewriting(calls[d], f)
  BY DEF Rewriting
<1>3. \A d \in Caller : CallCalm(files2, calls2[d])
  <2> SUFFICES ASSUME NEW d \in Caller PROVE CallCalm(files2, calls2[d])
    OBVIOUS
  <2>1. CASE d = c
    BY <2>1 DEF CallCalm
  <2>2. CASE d # c
    <3>1. CallCalm(files, calls[d]) /\ calls2[d] = calls[d]
      BY <2>2 DEF Calm
    <3>2. calls[d].at = "close" => FileOf(Head(calls[d].todo).op) # g
      BY <1>1, <2>2 DEF Rewriting
    <3> QED BY <3>1, <3>2 DEF CallCalm
  <2> QED BY <2>1, <2>2
<1>4. Calm(files2, calls2)
  BY <1>2, <1>3 DEF Calm
<1>5. ASSUME NEW f \in File
      PROVE  Held(files2, calls2)[f] = IF f = g THEN x ELSE Held(files, calls)[f]
  <2>1. CASE f = g
    <3>1. \A d \in Caller : ~Rewriting(calls2[d], f)
      BY <1>1, <1>2, <2>1
    <3> QED BY <1>4, <2>1, <3>1, HeldIs
  <2>2. CASE f # g /\ \E d \in Caller : Rewriting(calls[d], f)
    <3>1. PICK d \in Caller : Rewriting(calls[d], f)
      BY <2>2
    <3>2. Rewriting(calls2[d], f) /\ d # c
      BY <1>2, <2>2, <3>1 DEF Rewriting
    <3> QED BY <1>4, <2>2, <3>1, <3>2, HeldIs
  <2>3. CASE f # g /\ ~\E d \in Caller : Rewriting(calls[d], f)
    <3>1. \A d \in Caller : ~Rewriting(calls2[d], f)
      BY <1>2, <2>3
    <3> QED BY <1>4, <2>3, <3>1, HeldIs
  <2> QED BY <2>1, <2>2, <2>3
<1> QED BY <1>4, <1>5

(***************************************************************************)
(* Every step of an unharmed run is one of these: it does what its call's  *)
(* first step is to do, the call fails before it has written anything, it  *)
(* reports, a call begins, or nothing happens to what the files hold.      *)
(***************************************************************************)

\* What a step does to what the files hold, apart from how it is done.
Took(c) ==
  LET s == Current(c)
      x == Now[FileOf(s.op)]
  IN  /\ Busy(c) /\ s.op # "tell" /\ StepOK(c, s) /\ s = Head(call[c].todo)
      /\ s.op = "complete" => s.arg.id \in DOMAIN x
      /\ call'[c].todo = Follow(s, x) \o Tail(call[c].todo)
      /\ Now' = [Now EXCEPT ![FileOf(s.op)] = Effect(s, x)]
      /\ \/ call'[c].begun = TRUE
         \/ call'[c].begun = call[c].begun /\ ~Rewrites(s, x)
      /\ told' = told

Failed(c) ==
  /\ Busy(c) /\ Current(c).op # "tell" /\ call'[c].todo = <<>> /\ call[c].begun = FALSE
  /\ Now' = Now /\ told' = told

Told(c) == Busy(c) /\ Report(c) /\ call'[c].todo = <<>> /\ Now' = Now

Issued == (CommandLine \/ Server) /\ Now' = Now

OnlyBy(c) == \A d \in Caller \ {c} : call'[d] = call[d]

SamePlan(c) == call'[c].todo = call[c].todo /\ call'[c].begun = call[c].begun
Quiet == Now' = Now /\ told' = told /\ \A c \in Caller : SamePlan(c)

LEMMA UnwrittenEffect ==
  ASSUME NEW s, s.op \in Ops, NEW x, ~Rewrites(s, x)
  PROVE  Effect(s, x) = x
<1>1. s.op \in {"glance", "decide", "judge", "reward", "schedule", "due"}
  BY DEF Rewrites
<1>2. CASE s.op \in {"schedule", "due"}
  BY <1>2 DEF Rewrites
<1>3. CASE s.op \in {"glance", "decide", "judge", "reward"}
  BY <1>3 DEF Effect
<1> QED BY <1>1, <1>2, <1>3

LEMMA HeadOK ==
  ASSUME LoopInv, NEW c \in Caller, Busy(c)
  PROVE  LET s == Current(c) todo == call[c].todo IN
         /\ CallOK(c, call[c]) /\ IsSeq(todo) /\ todo # <<>>
         /\ 1 \in DOMAIN todo /\ s = todo[1] /\ s = Head(todo)
         /\ StepOK(c, s) /\ s.op \in Ops /\ FileOf(s.op) \in File
<1>1. CallOK(c, call[c])
  BY DEF LoopInv
<1>2. IsSeq(call[c].todo) /\ call[c].todo # <<>>
  BY <1>1 DEF CallOK, Busy
<1>3. 1 \in DOMAIN call[c].todo /\ Head(call[c].todo) = call[c].todo[1]
  BY <1>2, TailOf
<1>4. StepOK(c, call[c].todo[1])
  BY <1>1, <1>3 DEF CallOK
<1>5. call[c].todo[1].op \in Ops
  BY <1>4 DEF StepOK
<1> QED BY <1>1, <1>2, <1>3, <1>4, <1>5, FileOfOp DEF Current

LEMMA NowOf ==
  ASSUME CalmInv, ~harmed
  PROVE  /\ Calm(file, call) /\ Now = [f \in File |-> Now[f]]
         /\ file = [f \in File |-> file[f]] /\ call = [c \in Caller |-> call[c]]
         /\ \A f \in File : file[f] # Torn => Now[f] = file[f]
<1>1. Calm(file, call)
  BY DEF CalmInv
<1>2. Now = [f \in File |-> Now[f]]
  BY DEF Now, Held
<1> QED BY <1>1, <1>2, HeldIs DEF CalmInv, LoopInv, Now

\* A call that neither begins nor ends a rewriting leaves what the files hold.
LEMMA MoveCalm ==
  ASSUME CalmInv, ~harmed, NEW c \in Caller, file' = file, call'= [call EXCEPT ![c] = call'[c]],
         call[c].at # "close", call'[c].at # "close", CallCalm(file, call'[c])
  PROVE  Calm(file', call') /\ Now' = Now /\ OnlyBy(c)
<1>1. Calm(file, call) /\ call = [d \in Caller |-> call[d]]
  BY NowOf
<1>2. \A d \in Caller \ {c} : call'[d] = call[d]
  BY <1>1
<1>3. Calm(file, call') /\ Held(file, call') = Held(file, call)
  BY <1>1, <1>2, MoveHeld
<1> QED BY <1>2, <1>3 DEF Now, OnlyBy

LEMMA IssueCalm ==
  ASSUME CalmInv, ~harmed, NEW c \in Caller, NEW steps, Issue(c, steps)
  PROVE  /\ Calm(file', call') /\ Now' = Now /\ OnlyBy(c)
         /\ call[c].todo = <<>> /\ call'[c].todo = steps
<1>1. PICK k : k = [call[c] EXCEPT !.todo = steps]
  OBVIOUS
<1>2. CallOK(c, call[c]) /\ call = [d \in Caller |-> call[d]] /\ CallCalm(file, call[c])
  BY NowOf DEF CalmInv, LoopInv, Calm
<1>3. call[c].todo = <<>> /\ call[c].at = "read"
  BY <1>2 DEF Issue, Busy, CallOK
<1>4. k.todo = steps /\ k.at = "read" /\ k.over = call[c].over /\ k.begun = call[c].begun
  BY <1>1, <1>2, <1>3 DEF CallOK, CallFields
<1>5. call' = [call EXCEPT ![c] = k] /\ file' = file
  BY <1>1, <1>2 DEF Issue
<1>6. call'[c] = k /\ CallCalm(file, k)
  BY <1>2, <1>4, <1>5 DEF CallCalm
<1> QED BY <1>3, <1>4, <1>5, <1>6, MoveCalm

LEMMA IdleCalm == CallCalm(file, Idle) /\ Idle.at = "read" /\ Idle.todo = <<>>
BY DEF CallCalm, Idle

LEMMA RaiseCalm ==
  ASSUME CalmInv, ~harmed, NEW c \in Caller, Raise(c), ~harmed'
  PROVE  Calm(file', call') /\ OnlyBy(c) /\ Failed(c)
<1>1. CallCalm(file, call[c]) /\ call = [d \in Caller |-> call[d]]
  BY NowOf DEF Calm
<1>2. /\ Busy(c) /\ call[c].at = "read" /\ Current(c).op # "tell" /\ told' = told
      /\ file' = file /\ call' = [call EXCEPT ![c] = Idle]
  BY DEF Raise, Reading
<1>3. call[c].begun = FALSE
  BY <1>1 DEF Raise, CallCalm
<1>4. call'[c] = Idle
  BY <1>1, <1>2
<1> QED BY <1>2, <1>3, <1>4, IdleCalm, MoveCalm DEF Failed

LEMMA ReportCalm ==
  ASSUME CalmInv, ~harmed, NEW c \in Caller, Report(c)
  PROVE  Calm(file', call') /\ OnlyBy(c) /\ Told(c)
<1>1. CallOK(c, call[c]) /\ call = [d \in Caller |-> call[d]]
  BY DEF CalmInv, LoopInv
<1>2. Busy(c) /\ Current(c).op = "tell" /\ file' = file /\ call' = [call EXCEPT ![c] = Idle]
  BY DEF Report
<1>3. call[c].at = "read"
  BY <1>1, <1>2 DEF CallOK, Current
<1>4. call'[c] = Idle
  BY <1>1, <1>2
<1> QED BY <1>2, <1>3, <1>4, IdleCalm, MoveCalm DEF Told

LEMMA ReadCalm ==
  ASSUME CalmInv, ~harmed, NEW c \in Caller, Read(c)
  PROVE  Calm(file', call') /\ (Quiet \/ (OnlyBy(c) /\ Took(c)))
<1> DEFINE s == Current(c)
           f == FileOf(s.op)
           x == file[f]
<1>1. /\ Calm(file, call) /\ CallCalm(file, call[c]) /\ call = [d \in Caller |-> call[d]]
      /\ Now = [g \in File |-> Now[g]] /\ CallOK(c, call[c])
  BY NowOf DEF CalmInv, LoopInv, Calm
<1>2. Busy(c) /\ call[c].at = "read" /\ s.op # "tell" /\ file' = file /\ told' = told
  BY DEF Read, Reading
<1>3. /\ StepOK(c, s) /\ s = Head(call[c].todo) /\ s.op \in Ops /\ f \in File
  BY <1>2, HeadOK DEF CalmInv
<1>4. x # Torn /\ (s.op = "complete" => s.arg.id \in DOMAIN x) /\ Content(c) = x
  BY DEF Read, Refused, Content
<1>5. Now[f] = x
  BY <1>3, <1>4, NowOf
<1>6. CASE Rewrites(s, x)
  <2>1. PICK k : k = [call[c] EXCEPT !.at = "open", !.mem = x]
    OBVIOUS
  <2>2. /\ k.todo = call[c].todo /\ k.at = "open" /\ k.mem = x
        /\ k.begun = call[c].begun /\ k.over = call[c].over
    BY <1>1, <2>1 DEF CallOK, CallFields
  <2>3. call' = [call EXCEPT ![c] = k]
    BY <1>1, <1>4, <1>6, <2>1 DEF Read
  <2>4. call'[c] = k /\ CallCalm(file, k)
    BY <1>1, <1>3, <1>4, <2>2, <2>3 DEF CallCalm
  <2>5. Calm(file', call') /\ Now' = Now /\ OnlyBy(c)
    BY <1>2, <2>2, <2>3, <2>4, MoveCalm
  <2>6. Quiet
    BY <1>2, <2>2, <2>4, <2>5 DEF Quiet, SamePlan, OnlyBy
  <2> QED BY <2>5, <2>6
<1>7. CASE ~Rewrites(s, x)
  <2>1. PICK k : k = Proceed(c, x, call[c].begun)
    OBVIOUS
  <2>2. /\ k.todo = Follow(s, x) \o Tail(call[c].todo) /\ k.at = "read"
        /\ k.begun = call[c].begun /\ k.over = FALSE
    BY <2>1 DEF Proceed
  <2>3. call' = [call EXCEPT ![c] = k]
    BY <1>1, <1>4, <1>7, <2>1 DEF Read
  <2>4. call'[c] = k /\ CallCalm(file, k)
    BY <1>1, <2>2, <2>3 DEF CallCalm
  <2>5. Calm(file', call') /\ Now' = Now /\ OnlyBy(c)
    BY <1>2, <2>2, <2>3, <2>4, MoveCalm
  <2>6. Effect(s, x) = x
    BY <1>3, <1>7, UnwrittenEffect
  <2>7. Now = [Now EXCEPT ![f] = Effect(s, x)]
    BY <1>1, <1>5, <2>6
  <2> HIDE DEF s
  <2>8. Took(c)
    BY <1>2, <1>3, <1>4, <1>5, <1>7, <2>2, <2>4, <2>5, <2>7 DEF Took, s
  <2> QED BY <2>5, <2>8
<1> QED BY <1>6, <1>7

LEMMA TruncateCalm ==
  ASSUME CalmInv, ~harmed, NEW c \in Caller, Truncate(c), ~harmed'
  PROVE  Calm(file', call') /\ Quiet
<1> DEFINE f == FileOf(Current(c).op)
<1>1. /\ Calm(file, call) /\ CallCalm(file, call[c]) /\ call = [d \in Caller |-> call[d]]
      /\ file = [g \in File |-> file[g]] /\ CallOK(c, call[c])
  BY NowOf DEF CalmInv, LoopInv, Calm
<1>2. call[c].at = "open" /\ told' = told /\ file' = [file EXCEPT ![f] = Torn]
  BY DEF Truncate
<1>3. Busy(c)
  BY <1>1, <1>2 DEF CallOK, Busy
<1>4. f \in File /\ Current(c) = Head(call[c].todo)
  BY <1>3, HeadOK DEF CalmInv
<1>5. file[f] = call[c].mem
  BY DEF Truncate, Content
<1>6. PICK k : k = [call[c] EXCEPT !.at = "close"]
  OBVIOUS
<1>7. /\ k.todo = call[c].todo /\ k.at = "close" /\ k.mem = call[c].mem
      /\ k.begun = call[c].begun /\ k.over = FALSE
  BY <1>1, <1>6 DEF CallOK, CallFields, CallCalm
<1>8. call' = [call EXCEPT ![c] = k]
  BY <1>1, <1>6 DEF Truncate
<1>9. call'[c] = k /\ \A d \in Caller \ {c} : call'[d] = call[d]
  BY <1>1, <1>8
<1>12. FileOf(Head(call[c].todo).op) = f
  BY <1>4
<1>13. \A g \in File : file'[g] = IF g = f THEN Torn ELSE file[g]
  BY <1>1, <1>2, <1>4
<1> HIDE DEF f
<1>14. Truncating(file, call, file', call', c, f)
  BY <1>1, <1>2, <1>4, <1>5, <1>7, <1>9, <1>12, <1>13 DEF Truncating
<1>10. Calm(file', call') /\ Held(file', call') = Held(file, call)
  BY <1>14, TruncateHeld
<1>11. Quiet
  BY <1>2, <1>7, <1>9, <1>10 DEF Quiet, SamePlan, Now
<1> QED BY <1>10, <1>11

LEMMA WriteCalm ==
  ASSUME CalmInv, ~harmed, NEW c \in Caller, Write(c), ~harmed'
  PROVE  Calm(file', call') /\ OnlyBy(c) /\ Took(c)
<1> DEFINE s == Current(c)
           f == FileOf(s.op)
           x == call[c].mem
           k == Proceed(c, x, TRUE)
<1>1. /\ Calm(file, call) /\ CallCalm(file, call[c]) /\ call = [d \in Caller |-> call[d]]
      /\ file = [g \in File |-> file[g]] /\ CallOK(c, call[c])
  BY NowOf DEF CalmInv, LoopInv, Calm
<1>2. call[c].at = "close" /\ told' = told /\ call[c].over = FALSE
  BY <1>1 DEF Write, CallCalm
<1>3. Busy(c)
  BY <1>1, <1>2 DEF CallOK, Busy
<1>4. f \in File /\ s = Head(call[c].todo) /\ StepOK(c, s) /\ s.op \in Ops
  BY <1>3, HeadOK DEF CalmInv
<1>5. s.op # "tell" /\ (s.op = "complete" => s.arg.id \in DOMAIN x)
  BY <1>1, <1>2, <1>4 DEF CallOK, CallCalm
<1>6. file' = [file EXCEPT ![f] = Effect(s, x)]
  BY <1>2 DEF Write
<1>7. \A d \in Caller \ {c} : ~Rewriting(call[d], f)
  BY <1>1, <1>2, <1>4 DEF Calm, Rewriting
<1>8. call' = [d \in Caller |->
                 IF d = c THEN k
                 ELSE IF call[d].at = "close" /\ FileOf(Current(d).op) = f
                 THEN [call[d] EXCEPT !.over = TRUE] ELSE call[d]]
  BY DEF Write
<1>9. /\ k.todo = Follow(s, x) \o Tail(call[c].todo) /\ k.at = "read"
      /\ k.begun = TRUE /\ k.begun \in BOOLEAN /\ k.over = FALSE
  BY DEF Proceed
<1> HIDE DEF k
<1>10. call'[c] = k /\ \A d \in Caller \ {c} : call'[d] = call[d]
  BY <1>7, <1>8 DEF Rewriting, Current
<1>14. FileOf(Head(call[c].todo).op) = f
  BY <1>4
<1>15. \A g \in File : file'[g] = IF g = f THEN Effect(s, x) ELSE file[g]
  BY <1>1, <1>4, <1>6
<1>17. PICK new : new = Effect(s, x)
  OBVIOUS
<1> HIDE DEF f, s, x
<1>18. Writing(file, call, file', call', c, f, new)
  BY <1>1, <1>2, <1>4, <1>9, <1>10, <1>14, <1>15, <1>17 DEF Writing
<1>11. /\ Calm(file', call')
       /\ \A g \in File : Held(file', call')[g] = IF g = f THEN Effect(s, x) ELSE Held(file, call)[g]
  BY <1>17, <1>18, WriteHeld
<1>12. Now[f] = x
  BY <1>1, <1>2, <1>4, <1>14, HeldIs DEF Now, Rewriting, x
<1>16. Now' = [Now EXCEPT ![f] = Effect(s, x)]
  <2>1. Now = [g \in File |-> Now[g]] /\ Now' = [g \in File |-> Now'[g]]
    BY DEF Now, Held
  <2> QED BY <1>4, <1>11, <2>1 DEF Now
<1>13. Took(c)
  BY <1>2, <1>3, <1>4, <1>5, <1>9, <1>10, <1>12, <1>16 DEF Took, s, f
<1> QED BY <1>10, <1>11, <1>13 DEF OnlyBy

LEMMA CalmInit == Init => CalmInv
<1> SUFFICES ASSUME Init PROVE CalmInv
  OBVIOUS
<1>1. call = [c \in Caller |-> Idle]
  BY DEF Init
<1>2. \A c \in Caller : CallCalm(file, call[c]) /\ call[c].at = "read"
  BY <1>1, IdleCalm
<1> QED BY <1>2, LoopInvInit DEF CalmInv, Calm, Rewriting

\* Every step of an unharmed run is one of these.
LEMMA CalmSteps ==
  ASSUME CalmInv, [Next]_vars, ~harmed'
  PROVE  /\ ~harmed /\ Calm(file', call')
         /\ \/ Quiet
            \/ \E c \in Caller : OnlyBy(c) /\ (Took(c) \/ Failed(c) \/ Told(c))
            \/ Issued
<1>1. CASE UNCHANGED vars \/ Tick
  <2>1. UNCHANGED <<file, call, told, harmed>>
    BY <1>1 DEF vars, Tick
  <2> QED BY <2>1, NowOf DEF Quiet, SamePlan, Now
<1>2. CASE CommandLine
  <2>1. PICK steps : Issue(Cli, steps)
    BY <1>2 DEF CommandLine, Start, Gate, OpenQuest, Hand, Complete, Close, EvaluateByHand,
                Retention, Advise, Command
  <2>2. ~harmed /\ Cli \in Caller
    BY <2>1 DEF Issue, Caller
  <2> QED BY <1>2, <2>1, <2>2, IssueCalm DEF Issued
<1>3. CASE Server
  <2>1. PICK d \in Dashboard : \E steps : Issue(d, steps)
    BY <1>3 DEF Server, Request
  <2>2. ~harmed /\ d \in Caller
    BY <2>1 DEF Issue, Caller
  <2> QED BY <1>3, <2>1, <2>2, IssueCalm DEF Issued
<1>4. ASSUME NEW c \in Caller, Work(c) \/ Cut(c)
      PROVE  /\ ~harmed /\ Calm(file', call')
             /\ Quiet \/ (OnlyBy(c) /\ (Took(c) \/ Failed(c) \/ Told(c)))
  <2>1. Work(c)
    BY <1>4 DEF Cut
  <2>2. ~harmed
    BY <2>1 DEF Work, Raise, Read, Truncate, Write, Report
  <2> QED BY <2>1, <2>2, RaiseCalm, ReadCalm, TruncateCalm, WriteCalm, ReportCalm DEF Work
<1> QED BY <1>1, <1>2, <1>3, <1>4 DEF Next

LEMMA CalmNext == CalmInv /\ [Next]_vars => CalmInv'
<1> SUFFICES ASSUME CalmInv, [Next]_vars PROVE CalmInv'
  OBVIOUS
<1>1. LoopInv'
  BY LoopInvNext DEF CalmInv
<1> QED BY <1>1, CalmSteps DEF CalmInv

(***************************************************************************)
(* What is left of a command at any moment. Plan says it by the step the   *)
(* command is at, and that a step which repairs an agreement between files *)
(* comes after a write.                                                    *)
(***************************************************************************)

\* The steps that gates and retrievals bring about, in any number.
Links(rest, begun) ==
  /\ IsSeq(rest)
  /\ \A i \in DOMAIN rest :
       /\ rest[i].op \in {"schedule", "refresh", "ratchet"}
       /\ rest[i].op = "schedule" => begun = TRUE

Tallied(m, verdict) == Step("tally", [mission |-> m, verdict |-> verdict])
Again == Step("refresh", TRUE)

\* What is left of a command, by the step it is at. A step that owes another
\* one something has been written.
Plan(todo, begun) ==
  todo # <<>> =>
    LET s == Head(todo)
        rest == Tail(todo)
    IN  /\ s.op \in {"session", "focus", "ingest", "reward", "schedule", "log", "sync"} =>
             begun = TRUE
        /\ s.op = "tally" /\ s.arg.verdict = "PASS" => begun = TRUE
        /\ s.op = "begin" => rest = <<Step("session", None), Step("focus", s.arg)>>
        /\ s.op = "session" => \E m \in Mission : rest = <<Step("focus", m)>>
        /\ s.op = "add" =>
             s.arg \in Records /\ rest = <<Step("ingest", s.arg), Tell("evidence", s.arg)>>
        /\ s.op = "ingest" => s.arg \in Records /\ rest = <<Tell("evidence", s.arg)>>
        /\ s.op = "pass" => rest = <<Tallied(s.arg, "PASS")>>
        /\ s.op = "glance" => \E v \in {"PARTIAL", "FAIL"} : rest = <<Tallied(s.arg, v)>>
        /\ s.op = "complete" => rest = <<Tell("verdict", s.arg)>>
        /\ s.op = "schedule" =>
             Links(rest, begun) \/ \E a : rest = <<Again, Tell("verdict", a)>>
        /\ s.op = "refresh" =>
             Links(rest, begun) \/ \E a : rest \in {<<Tell("verdict", a)>>, <<Again, Tell("verdict", a)>>}
        /\ s.op \in {"ratchet", "log"} => Links(rest, begun)
        /\ s.op \in {"focus", "tell", "judge", "tally", "reward", "due", "decide", "open", "close",
                     "sync"} => rest = <<>>

LEMMA Tuple1 == ASSUME NEW a PROVE <<a>> # <<>> /\ Head(<<a>>) = a /\ Tail(<<a>>) = <<>>
OBVIOUS

LEMMA Tuple2 ==
  ASSUME NEW a, NEW b PROVE <<a, b>> # <<>> /\ Head(<<a, b>>) = a /\ Tail(<<a, b>>) = <<b>>
OBVIOUS

LEMMA Tuple3 ==
  ASSUME NEW a, NEW b, NEW c
  PROVE  <<a, b, c>> # <<>> /\ Head(<<a, b, c>>) = a /\ Tail(<<a, b, c>>) = <<b, c>>
OBVIOUS

LEMMA JoinEmpty ==
  ASSUME NEW s, IsSeq(s) PROVE <<>> \o s = s /\ s \o <<>> = s
BY DEF IsSeq

LEMMA Join11 ==
  ASSUME NEW a, NEW b PROVE <<a>> \o <<b>> = <<a, b>>
<1> DEFINE S == {a, b}
           p == <<a>>
           q == <<b>>
           r == <<a, b>>
<1>1. p \in Seq(S) /\ q \in Seq(S) /\ r \in Seq(S)
      /\ Len(p) = 1 /\ Len(q) = 1 /\ Len(r) = 2
  OBVIOUS
<1>2. p[1] = a /\ q[1] = b /\ r[1] = a /\ r[2] = b
  OBVIOUS
<1> HIDE DEF S, p, q, r
<1>3. p \o q \in Seq(S) /\ Len(p \o q) = Len(p) + Len(q)
      /\ \A i \in 1..(Len(p) + Len(q)) : (p \o q)[i] = IF i <= Len(p) THEN p[i] ELSE q[i - Len(p)]
  BY <1>1, ConcatProperties
<1>4. \A i \in 1..2 : (p \o q)[i] = r[i]
  BY <1>1, <1>2, <1>3
<1>5. p \o q = r
  BY <1>1, <1>3, <1>4, SeqEqual
<1> QED BY <1>5 DEF p, q, r

LEMMA Join12 ==
  ASSUME NEW a, NEW b, NEW c PROVE <<a>> \o <<b, c>> = <<a, b, c>>
<1> DEFINE S == {a, b, c}
           p == <<a>>
           q == <<b, c>>
           r == <<a, b, c>>
<1>1. p \in Seq(S) /\ q \in Seq(S) /\ r \in Seq(S)
      /\ Len(p) = 1 /\ Len(q) = 2 /\ Len(r) = 3
  OBVIOUS
<1>2. p[1] = a /\ q[1] = b /\ q[2] = c /\ r[1] = a /\ r[2] = b /\ r[3] = c
  OBVIOUS
<1> HIDE DEF S, p, q, r
<1>3. p \o q \in Seq(S) /\ Len(p \o q) = Len(p) + Len(q)
      /\ \A i \in 1..(Len(p) + Len(q)) : (p \o q)[i] = IF i <= Len(p) THEN p[i] ELSE q[i - Len(p)]
  BY <1>1, ConcatProperties
<1>4. \A i \in 1..3 : (p \o q)[i] = r[i]
  BY <1>1, <1>2, <1>3
<1>5. p \o q = r
  BY <1>1, <1>3, <1>4, SeqEqual
<1> QED BY <1>5 DEF p, q, r

LEMMA Join21 ==
  ASSUME NEW a, NEW b, NEW c PROVE <<a, b>> \o <<c>> = <<a, b, c>>
<1> DEFINE S == {a, b, c}
           p == <<a, b>>
           q == <<c>>
           r == <<a, b, c>>
<1>1. p \in Seq(S) /\ q \in Seq(S) /\ r \in Seq(S)
      /\ Len(p) = 2 /\ Len(q) = 1 /\ Len(r) = 3
  OBVIOUS
<1>2. p[1] = a /\ p[2] = b /\ q[1] = c /\ r[1] = a /\ r[2] = b /\ r[3] = c
  OBVIOUS
<1> HIDE DEF S, p, q, r
<1>3. p \o q \in Seq(S) /\ Len(p \o q) = Len(p) + Len(q)
      /\ \A i \in 1..(Len(p) + Len(q)) : (p \o q)[i] = IF i <= Len(p) THEN p[i] ELSE q[i - Len(p)]
  BY <1>1, ConcatProperties
<1>4. \A i \in 1..3 : (p \o q)[i] = r[i]
  BY <1>1, <1>2, <1>3
<1>5. p \o q = r
  BY <1>1, <1>3, <1>4, SeqEqual
<1> QED BY <1>5 DEF p, q, r

\* A step before the rest.
LEMMA Push ==
  ASSUME NEW a, NEW rest, IsSeq(rest)
  PROVE  LET t == <<a>> \o rest IN t # <<>> /\ Head(t) = a /\ Tail(t) = rest
<1>1. PICK S : rest \in Seq(S)
  BY DEF IsSeq
<1>2. PICK T : T = S \cup {a}
  OBVIOUS
<1>3. <<a>> \in Seq(T) /\ rest \in Seq(T) /\ Len(<<a>>) = 1 /\ <<a>>[1] = a
  BY <1>1, <1>2
<1>4. PICK t : t = <<a>> \o rest
  OBVIOUS
<1>5. t \in Seq(T) /\ Len(t) = Len(<<a>>) + Len(rest)
      /\ \A i \in 1..(Len(<<a>>) + Len(rest)) : t[i] = IF i <= Len(<<a>>) THEN <<a>>[i] ELSE rest[i - Len(<<a>>)]
  BY <1>3, <1>4, ConcatProperties
<1>6. Len(rest) \in Nat /\ Len(t) = 1 + Len(rest) /\ t[1] = a
      /\ \A i \in 1..Len(rest) : t[i + 1] = rest[i]
  <2>1. Len(rest) \in Nat
    BY <1>3
  <2> QED BY <1>3, <1>5, <2>1
<1>7. t # <<>> /\ Head(t) = a /\ Tail(t) \in Seq(T) /\ Len(Tail(t)) = Len(rest)
      /\ \A i \in 1..Len(rest) : Tail(t)[i] = rest[i]
  <2>1. t # <<>>
    BY <1>5, <1>6, EmptySeq
  <2> QED BY <1>5, <1>6, <2>1, HeadTailProperties
<1>8. Tail(t) = rest
  BY <1>3, <1>7, SeqEqual
<1> QED BY <1>4, <1>7, <1>8

\* w is t and then the rest of todo: nothing is dropped but the first step.
Onward(w, t, todo) ==
  /\ IsSeq(w)
  /\ \A i \in DOMAIN w :
       (\E j \in DOMAIN t : w[i] = t[j]) \/ (\E j \in DOMAIN Tail(todo) : w[i] = Tail(todo)[j])
  /\ \A j \in DOMAIN t : \E i \in DOMAIN w : w[i] = t[j]
  /\ \A j \in DOMAIN todo : todo[j] = Head(todo) \/ \E i \in DOMAIN w : w[i] = todo[j]

LEMMA Elements ==
  ASSUME NEW todo, IsSeq(todo), todo # <<>>, NEW t, IsSeq(t)
  PROVE  Onward(t \o Tail(todo), t, todo)
<1> DEFINE u == Tail(todo)
<1>1. IsSeq(u) /\ Head(todo) = todo[1] /\ \A i \in DOMAIN u : i + 1 \in DOMAIN todo /\ u[i] = todo[i + 1]
  BY TailOf
<1>2. PICK S, T : todo \in Seq(S) /\ t \in Seq(T)
  BY DEF IsSeq
<1>3. u \in Seq(S) /\ Len(u) = Len(todo) - 1 /\ Len(todo) \in Nat
  BY <1>2, HeadTailProperties
<1>4. t \in Seq(S \cup T) /\ u \in Seq(S \cup T)
  BY <1>2, <1>3
<1> HIDE DEF u
<1>5. t \o u \in Seq(S \cup T) /\ Len(t \o u) = Len(t) + Len(u) /\ Len(t) \in Nat /\ Len(u) \in Nat
      /\ \A i \in 1..(Len(t) + Len(u)) : (t \o u)[i] = IF i <= Len(t) THEN t[i] ELSE u[i - Len(t)]
  BY <1>4, ConcatProperties
<1>6. DOMAIN (t \o u) = 1..(Len(t) + Len(u)) /\ DOMAIN t = 1..Len(t) /\ DOMAIN u = 1..Len(u)
      /\ DOMAIN todo = 1..Len(todo)
  BY <1>2, <1>4, <1>5
<1>7. \A i \in DOMAIN (t \o u) :
         (\E j \in DOMAIN t : (t \o u)[i] = t[j]) \/ (\E j \in DOMAIN u : (t \o u)[i] = u[j])
  <2>1. \A i \in DOMAIN (t \o u) :
          \/ i \in DOMAIN t /\ (t \o u)[i] = t[i]
          \/ \E j \in DOMAIN u : (t \o u)[i] = u[j]
    BY <1>1, Joined DEF IsSeq, u
  <2> QED BY <1>1, <2>1
<1>8. ASSUME NEW j \in DOMAIN t PROVE \E i \in DOMAIN (t \o u) : (t \o u)[i] = t[j]
  BY <1>5, <1>6
<1>9. ASSUME NEW j \in DOMAIN todo, j # 1 PROVE \E i \in DOMAIN (t \o u) : (t \o u)[i] = todo[j]
  <2>1. j - 1 \in DOMAIN u /\ u[j - 1] = todo[j]
    BY <1>1, <1>3, <1>6, <1>9
  <2>2. Len(t) + (j - 1) \in DOMAIN (t \o u) /\ (t \o u)[Len(t) + (j - 1)] = u[j - 1]
    <3>1. j - 1 \in 1..Len(u)
      BY <1>6, <2>1
    <3>2. Len(t) + (j - 1) \in 1..(Len(t) + Len(u)) /\ ~(Len(t) + (j - 1) <= Len(t))
          /\ Len(t) + (j - 1) - Len(t) = j - 1
      BY <1>5, <1>6, <3>1
    <3> QED BY <1>5, <1>6, <3>2
  <2> QED BY <2>1, <2>2
<1>10. IsSeq(t \o u)
  BY <1>5 DEF IsSeq
<1>11. \A j \in DOMAIN todo : todo[j] = Head(todo) \/ \E i \in DOMAIN (t \o u) : (t \o u)[i] = todo[j]
  BY <1>1, <1>9
<1> QED BY <1>7, <1>8, <1>10, <1>11 DEF Onward, u

LEMMA NoLinks == ASSUME NEW begun PROVE Links(<<>>, begun)
<1>1. <<>> \in Seq({}) /\ DOMAIN <<>> = {}
  OBVIOUS
<1> QED BY <1>1 DEF Links, IsSeq

LEMMA LinkOne ==
  ASSUME NEW begun, NEW s, s.op \in {"refresh", "ratchet"} PROVE Links(<<s>>, begun)
BY Singleton DEF Links

LEMMA JoinLinks ==
  ASSUME NEW begun, NEW t, NEW u, Links(t, begun), Links(u, begun) PROVE Links(t \o u, begun)
<1>1. IsSeq(t) /\ IsSeq(u)
  BY DEF Links
<1>2. IsSeq(t \o u) /\ \A i \in DOMAIN (t \o u) :
        (i \in DOMAIN t /\ (t \o u)[i] = t[i]) \/ \E j \in DOMAIN u : (t \o u)[i] = u[j]
  BY <1>1, Joined
<1> QED BY <1>2 DEF Links

\* Such steps are a plan.
LEMMA LinksPlan ==
  ASSUME NEW begun, NEW rest, Links(rest, begun) PROVE Plan(rest, begun)
<1> SUFFICES ASSUME rest # <<>> PROVE Plan(rest, begun)
  BY DEF Plan
<1> DEFINE s == Head(rest)
<1>1. IsSeq(rest) /\ IsSeq(Tail(rest)) /\ 1 \in DOMAIN rest /\ s = rest[1]
      /\ \A i \in DOMAIN Tail(rest) : i + 1 \in DOMAIN rest /\ Tail(rest)[i] = rest[i + 1]
  BY TailOf DEF Links
<1>2. s.op \in {"schedule", "refresh", "ratchet"} /\ (s.op = "schedule" => begun = TRUE)
  BY <1>1 DEF Links
<1>3. Links(Tail(rest), begun)
  BY <1>1 DEF Links
<1> QED BY <1>2, <1>3 DEF Plan

LEMMA EmptyPlan == ASSUME NEW begun PROVE Plan(<<>>, begun)
BY DEF Plan

\* One step, after which nothing comes.
Last(s, begun) ==
  /\ s.op \in {"judge", "due", "decide", "open", "close", "ratchet", "refresh", "tell", "reward",
               "log", "sync", "focus"}
  /\ s.op \in {"reward", "log", "sync", "focus"} => begun = TRUE

LEMMA LastPlan ==
  ASSUME NEW s, NEW begun, Last(s, begun) PROVE Plan(<<s>>, begun)
<1>1. Head(<<s>>) = s /\ Tail(<<s>>) = <<>>
  OBVIOUS
<1> QED BY <1>1, NoLinks DEF Plan, Last

(***************************************************************************)
(* The plan goes on as the steps bring about others.                       *)
(***************************************************************************)

LEMMA LinksGrow ==
  ASSUME NEW begun, NEW begun2, begun = TRUE => begun2 = TRUE, NEW rest, Links(rest, begun)
  PROVE  Links(rest, begun2)
BY DEF Links

LEMMA StepIs ==
  ASSUME NEW op, NEW arg PROVE Step(op, arg).op = op /\ Step(op, arg).arg = arg
BY DEF Step

LEMMA AgainIs == Again.op = "refresh"
BY DEF Again, Step

LEMMA TalliedIs ==
  ASSUME NEW m, NEW v
  PROVE  /\ Tallied(m, v).op = "tally" /\ Tallied(m, v).arg.mission = m
         /\ Tallied(m, v).arg.verdict = v
BY DEF Tallied, Step

\* Retrievals of a competency each, then one step of the ratchet.
LEMMA RewardLinks ==
  ASSUME NEW m \in Mission, NEW x, NEW begun, begun = TRUE
  PROVE  Links(AfterReward(x, m), begun)
<1> DEFINE event(i) == NewEvent(Competencies[m][i], m, 0, INTERVALS_DAYS[1])
           t == [i \in DOMAIN Competencies[m] |-> Step("schedule", event(i))]
           last == Step("ratchet", GateSignals(ForMission(x, m)))
<1>1. AfterReward(x, m) = t \o <<last>>
  BY DEF AfterReward
<1>2. Links(<<last>>, begun)
  <2>1. last.op \in {"refresh", "ratchet"}
    BY DEF Step
  <2> HIDE DEF last
  <2> QED BY <2>1, Singleton DEF Links
<1>3. \A i \in DOMAIN t : t[i].op = "schedule"
  BY DEF Step
<1>4. IsSeq(t)
  <2>1. Competencies[m] \in Seq(Competency)
    BY LoopAssumption
  <2>2. Len(Competencies[m]) \in Nat /\ DOMAIN Competencies[m] = 1..Len(Competencies[m])
    BY <2>1
  <2>3. DOMAIN t = 1..Len(Competencies[m]) /\ t = [i \in DOMAIN t |-> t[i]]
    BY <2>2
  <2> HIDE DEF t
  <2>4. PICK R : R = {t[i] : i \in DOMAIN t}
    OBVIOUS
  <2>5. t \in [1..Len(Competencies[m]) -> R]
    BY <2>3, <2>4
  <2> QED BY <2>2, <2>5, SeqDef DEF IsSeq
<1> HIDE DEF t, last
<1>5. Links(t, begun)
  BY <1>3, <1>4 DEF Links
<1> QED BY <1>1, <1>2, <1>5, JoinLinks

LEMMA PlanGoesOnAnyway ==
  ASSUME NEW todo, IsSeq(todo), todo # <<>>, NEW begun \in BOOLEAN, Plan(todo, begun),
         NEW s, s = Head(todo), StepOK(Cli, s), s.op # "tell",
         NEW x, NEW begun2, begun2 = TRUE \/ (begun2 = begun /\ ~Rewrites(s, x))
  PROVE  Plan(Follow(s, x) \o Tail(todo), begun2)
<1> DEFINE rest == Tail(todo)
           t == Follow(s, x) \o rest
<1>0. s.op \in Ops /\ IsSeq(rest)
  BY TailOf DEF StepOK
<1>1. begun = TRUE => begun2 = TRUE
  OBVIOUS
<1>2. s.op \in {"begin", "pass", "focus", "add", "ingest", "complete", "session", "open", "close"}
        => begun2 = TRUE
  BY DEF Rewrites
<1>3. <<>> \o rest = rest
  BY <1>0 DEF IsSeq
<1>6. CASE s.op \in {"begin", "session", "focus", "add", "ingest", "pass", "glance", "log"}
  <2>1. Follow(s, x) = <<>>
    BY <1>6 DEF Follow
  <2>2. t = rest
    BY <1>3, <2>1
  <2>3. CASE s.op = "begin"
    <3>1. rest = <<Step("session", None), Step("focus", s.arg)>> /\ s.arg \in Mission
      BY <2>3 DEF Plan, StepOK, MissionOps
    <3>2. Head(rest) = Step("session", None) /\ Tail(rest) = <<Step("focus", s.arg)>>
      BY <3>1, Tuple2
    <3>3. Head(rest).op = "session"
      BY <3>2, StepIs
    <3> QED BY <1>2, <2>2, <2>3, <3>1, <3>2, <3>3 DEF Plan
  <2>4. CASE s.op = "session"
    <3>1. PICK m \in Mission : rest = <<Step("focus", m)>>
      BY <2>4 DEF Plan
    <3>2. Last(Step("focus", m), begun2)
      BY <1>2, <2>4 DEF Last, Step
    <3> QED BY <2>2, <3>1, <3>2, LastPlan
  <2>5. CASE s.op = "add"
    <3>1. s.arg \in Records /\ rest = <<Step("ingest", s.arg), Tell("evidence", s.arg)>>
      BY <2>5 DEF Plan
    <3>2. Head(rest) = Step("ingest", s.arg) /\ Tail(rest) = <<Tell("evidence", s.arg)>>
      BY <3>1, Tuple2
    <3>3. Head(rest).op = "ingest" /\ Head(rest).arg = s.arg
      BY <3>2, StepIs
    <3> QED BY <1>2, <2>2, <2>5, <3>1, <3>2, <3>3 DEF Plan
  <2>6. CASE s.op = "ingest"
    <3>1. rest = <<Tell("evidence", s.arg)>>
      BY <2>6 DEF Plan
    <3>2. Last(Tell("evidence", s.arg), begun2)
      BY DEF Last, Step, Tell
    <3> QED BY <2>2, <3>1, <3>2, LastPlan
  <2>7. CASE s.op \in {"pass", "glance"}
    <3>1. PICK v : rest = <<Tallied(s.arg, v)>> /\ (v = "PASS" => s.op = "pass")
      BY <2>7 DEF Plan
    <3>2. Head(rest) = Tallied(s.arg, v) /\ Tail(rest) = <<>>
      BY <3>1, Tuple1
    <3>3. Head(rest).op = "tally" /\ Head(rest).arg.verdict = v
      <4> HIDE DEF rest
      <4> QED BY <3>2, TalliedIs
    <3> QED BY <1>2, <2>2, <3>1, <3>2, <3>3 DEF Plan
  <2>8. CASE s.op = "log"
    <3>1. Links(rest, begun)
      BY <2>8 DEF Plan
    <3> QED BY <1>1, <2>2, <3>1, LinksGrow, LinksPlan
  <2>9. CASE s.op = "focus"
    <3>1. rest = <<>>
      BY <2>9 DEF Plan
    <3> QED BY <2>2, <3>1, EmptyPlan
  <2> QED BY <1>6, <2>3, <2>4, <2>5, <2>6, <2>7, <2>8, <2>9
<1>7. CASE s.op = "judge"
  <2>1. rest = <<>>
    BY <1>7 DEF Plan
  <2> DEFINE v == Evaluate(x, s.arg)
             first == Step(IF v = "PASS" THEN "pass" ELSE "glance", s.arg)
  <2>2. Follow(s, x) = <<first, Tallied(s.arg, v)>>
    BY <1>7 DEF Follow, AfterJudge, Tallied
  <2>3. t = <<first, Tallied(s.arg, v)>>
    <3>1. IsSeq(Follow(s, x))
      BY <1>7, FollowBrings DEF Brought, Caller
    <3> QED BY <2>1, <2>2, <3>1, JoinEmpty
  <2>4. Head(t) = first /\ Tail(t) = <<Tallied(s.arg, v)>>
    <3> HIDE DEF t, first, v
    <3> QED BY <2>3, Tuple2
  <2>5. v \in {"PASS", "PARTIAL", "FAIL"}
    BY DEF Evaluate
  <2>6. first.op = (IF v = "PASS" THEN "pass" ELSE "glance") /\ first.arg = s.arg
    BY DEF Step
  <2> HIDE DEF first, v, t
  <2> QED BY <2>4, <2>5, <2>6 DEF Plan, t
<1>8. CASE s.op = "tally"
  <2>1. rest = <<>> /\ (s.arg.verdict = "PASS" => begun = TRUE)
    BY <1>8 DEF Plan
  <2> DEFINE u == AfterTally(x, s.arg.mission, s.arg.verdict)
  <2>2. t = u \o <<>>
    BY <1>8, <2>1 DEF Follow
  <2>6. t = u
    <3>1. IsSeq(u)
      BY <1>8, FollowBrings DEF Follow, Brought, Caller
    <3> QED BY <2>2, <3>1, JoinEmpty
  <2>3. CASE u = <<>>
    BY <2>6, <2>3, EmptyPlan
  <2>4. CASE u = <<Step("ratchet", {"repeated_gate_failure"})>>
    <3>1. Last(Step("ratchet", {"repeated_gate_failure"}), begun2)
      BY DEF Last, Step
    <3>2. Plan(u, begun2)
      <4> HIDE DEF u
      <4> QED BY <2>4, <3>1, LastPlan
    <3> QED BY <2>6, <3>2
  <2>5. CASE u = <<Step("reward", s.arg.mission)>> /\ s.arg.verdict = "PASS"
    <3>1. Last(Step("reward", s.arg.mission), begun2)
      BY <1>1, <2>1, <2>5 DEF Last, Step
    <3>2. Plan(u, begun2)
      <4> HIDE DEF u
      <4> QED BY <2>5, <3>1, LastPlan
    <3> QED BY <2>6, <3>2
  <2> QED BY <2>3, <2>4, <2>5 DEF AfterTally
<1>9. CASE s.op = "reward"
  <2>1. rest = <<>> /\ begun = TRUE /\ s.arg \in Mission
    BY <1>9 DEF Plan, StepOK, MissionOps
  <2>2. Links(Follow(s, x), begun2)
    BY <1>1, <1>9, <2>1, RewardLinks DEF Follow
  <2>3. Links(t, begun2)
    BY <2>1, <2>2, NoLinks, JoinLinks
  <2> QED BY <2>3, LinksPlan
<1>10. CASE s.op = "schedule"
  <2>1. Follow(s, x) = <<Again>> \/ Follow(s, x) = <<>>
    BY <1>10 DEF Follow, Again
  <2>2. CASE Links(rest, begun)
    <3>1. Links(rest, begun2)
      BY <1>1, <2>2, LinksGrow
    <3>2. Links(<<Again>>, begun2) /\ Links(<<>>, begun2)
      BY NoLinks, LinkOne DEF Again, Step
    <3>3. Links(t, begun2)
      BY <2>1, <3>1, <3>2, JoinLinks
    <3> QED BY <3>3, LinksPlan
  <2>3. CASE ~Links(rest, begun)
    <3>1. PICK a : rest = <<Again, Tell("verdict", a)>>
      BY <1>10, <2>3 DEF Plan
    <3>2. CASE Follow(s, x) = <<>>
      <4>1. t = rest
        BY <1>3, <3>2
      <4>2. Head(t) = Again /\ Tail(t) = <<Tell("verdict", a)>>
        BY <3>1, <4>1, Tuple2
      <4>3. Head(t).op = "refresh"
        <5> HIDE DEF t
        <5> QED BY <4>2, AgainIs
      <4> QED BY <4>2, <4>3 DEF Plan
    <3>3. CASE Follow(s, x) = <<Again>>
      <4>1. Head(t) = Again /\ Tail(t) = rest
        BY <1>0, <3>3, Push
      <4>2. Head(t).op = "refresh"
        <5> HIDE DEF t
        <5> QED BY <4>1, AgainIs
      <4> QED BY <3>1, <4>1, <4>2 DEF Plan
    <3> QED BY <2>1, <3>2, <3>3
  <2> QED BY <2>2, <2>3
<1>11. CASE s.op = "refresh"
  <2>1. t = rest
    BY <1>3, <1>11 DEF Follow
  <2>2. CASE Links(rest, begun)
    BY <1>1, <2>1, <2>2, LinksGrow, LinksPlan
  <2>3. CASE ~Links(rest, begun)
    <3>1. PICK a : rest \in {<<Tell("verdict", a)>>, <<Again, Tell("verdict", a)>>}
      BY <1>11, <2>3 DEF Plan
    <3>2. CASE rest = <<Tell("verdict", a)>>
      <4>1. Last(Tell("verdict", a), begun2)
        BY DEF Last, Step, Tell
      <4> QED BY <2>1, <3>2, <4>1, LastPlan
    <3>3. CASE rest = <<Again, Tell("verdict", a)>>
      <4>1. Head(t) = Again /\ Tail(t) = <<Tell("verdict", a)>>
        BY <2>1, <3>3, Tuple2
      <4>2. Head(t).op = "refresh"
        <5> HIDE DEF t
        <5> QED BY <4>1, AgainIs
      <4> QED BY <4>1, <4>2 DEF Plan
    <3> QED BY <3>1, <3>2, <3>3
  <2> QED BY <2>2, <2>3
<1>12. CASE s.op = "ratchet"
  <2>1. Links(rest, begun2)
    BY <1>1, <1>12, LinksGrow DEF Plan
  <2>2. Follow(s, x) = <<Step("log", None)>> /\ begun2 = TRUE
    BY <1>12 DEF Follow, Rewrites
  <2>3. Head(t) = Step("log", None) /\ Tail(t) = rest
    BY <1>0, <2>2, Push
  <2>4. Head(t).op = "log"
    <3> HIDE DEF t
    <3> QED BY <2>3, StepIs
  <2> QED BY <2>1, <2>2, <2>3, <2>4 DEF Plan
<1>13. CASE s.op = "complete"
  <2>1. rest = <<Tell("verdict", s.arg)>> /\ begun2 = TRUE
    BY <1>2, <1>13 DEF Plan
  <2> DEFINE e == x[s.arg.id]
             again(stage, days) == Step("schedule", NewEvent(e.competency, e.mission, stage, days))
  <2>2. Follow(s, x) = <<>> \o <<Again>> \/ \E stage, days : Follow(s, x) = <<again(stage, days)>> \o <<Again>>
    BY <1>13 DEF Follow, AfterComplete, Again
  <2>3. CASE Follow(s, x) = <<>> \o <<Again>>
    <3>1. <<>> \o <<Again>> = <<Again>>
      BY Singleton, JoinEmpty
    <3>2. Head(t) = Again /\ Tail(t) = <<Tell("verdict", s.arg)>>
      <4>1. Follow(s, x) = <<Again>>
        BY <2>3, <3>1
      <4> QED BY <1>0, <2>1, <4>1, Push
    <3>3. Head(t).op = "refresh"
      <4> HIDE DEF t
      <4> QED BY <3>2, AgainIs
    <3> QED BY <3>2, <3>3 DEF Plan
  <2>4. ASSUME NEW stage, NEW days, Follow(s, x) = <<again(stage, days)>> \o <<Again>>
        PROVE  Plan(t, begun2)
    <3>0. PICK a : a = again(stage, days)
      OBVIOUS
    <3>1. Follow(s, x) = <<a, Again>> /\ a.op = "schedule"
      BY <2>4, <3>0, Join11, StepIs
    <3>2. t = <<a, Again, Tell("verdict", s.arg)>>
      BY <2>1, <3>1, Join21
    <3>3. Head(t) = a /\ Tail(t) = <<Again, Tell("verdict", s.arg)>>
      <4> HIDE DEF t
      <4> QED BY <3>2, Tuple3
    <3> HIDE DEF t
    <3> QED BY <2>1, <3>1, <3>3 DEF Plan
  <2> QED BY <2>2, <2>3, <2>4
<1>14. CASE s.op \in {"due", "decide", "open", "close", "sync"}
  <2>1. rest = <<>>
    BY <1>14 DEF Plan
  <2>2. Follow(s, x) = <<>> \/ \E a : Follow(s, x) = <<a>> /\ Last(a, begun2)
    <3>1. CASE s.op = "due"
      <4>1. Last(Step("refresh", Rewrites(s, x)), begun2)
        BY DEF Last, Step
      <4> QED BY <3>1, <4>1 DEF Follow
    <3>2. CASE s.op = "decide"
      <4>1. Last(Step("due", None), begun2)
        BY DEF Last, Step
      <4> QED BY <3>2, <4>1 DEF Follow, AfterDecide
    <3>3. CASE s.op \in {"open", "close"}
      <4>1. Last(Step("sync", OpenQuests(Effect(s, x))), begun2)
        BY <1>2, <3>3 DEF Last, Step
      <4> QED BY <3>3, <4>1 DEF Follow
    <3>4. CASE s.op = "sync"
      BY <3>4 DEF Follow
    <3> QED BY <1>14, <3>1, <3>2, <3>3, <3>4
  <2>3. t = Follow(s, x)
    <3>1. IsSeq(Follow(s, x))
      BY <1>14, FollowBrings DEF Brought, Caller
    <3>2. t = Follow(s, x) \o <<>>
      BY <2>1
    <3> HIDE DEF t
    <3> QED BY <3>1, <3>2, JoinEmpty
  <2>4. Plan(Follow(s, x), begun2)
    BY <2>2, LastPlan, EmptyPlan
  <2> QED BY <2>3, <2>4
<1> QED BY <1>0, <1>6, <1>7, <1>8, <1>9, <1>10, <1>11, <1>12, <1>13, <1>14 DEF Ops, MissionOps

(***************************************************************************)
(* The commands begin with a plan, and keep it. The dashboard's threads    *)
(* only mark events due and decide.                                        *)
(***************************************************************************)

PlanInv == CalmInv /\ (~harmed => Plan(call[Cli].todo, call[Cli].begun))

IsVerdict(s) == s.op = "tell" /\ s.arg.what = "verdict"

\* The list of steps a command begins with: it owes nothing yet.
Fresh(steps) ==
  /\ steps # <<>> /\ Plan(steps, TRUE) /\ Plan(steps, FALSE) /\ IsSeq(steps)
  /\ Head(steps).op \in {"begin", "add", "judge", "due", "complete", "ratchet", "open", "close",
                         "decide"}
  /\ \A i \in DOMAIN steps :
       steps[i].op # "schedule" /\ (IsVerdict(steps[i]) => Head(steps).op = "complete")

LEMMA FreshOne ==
  ASSUME NEW s, s.op \in {"judge", "due", "ratchet", "open", "close", "decide"}
  PROVE  Fresh(<<s>>)
<1>1. Last(s, TRUE) /\ Last(s, FALSE)
  BY DEF Last
<1>2. Plan(<<s>>, TRUE) /\ Plan(<<s>>, FALSE)
  BY <1>1, LastPlan
<1> QED BY <1>2, Tuple1, Singleton DEF Fresh, IsVerdict

LEMMA TupleElements ==
  ASSUME NEW a, NEW b, NEW c
  PROVE  /\ IsSeq(<<a, b>>) /\ \A i \in DOMAIN <<a, b>> : <<a, b>>[i] \in {a, b}
         /\ IsSeq(<<a, b, c>>) /\ \A i \in DOMAIN <<a, b, c>> : <<a, b, c>>[i] \in {a, b, c}
<1>1. IsSeq(<<a, b>>) /\ \A i \in DOMAIN <<a, b>> : <<a, b>>[i] \in {a, b}
  <2>1. <<a, b>> \in Seq({a, b}) /\ Len(<<a, b>>) = 2
    OBVIOUS
  <2> QED BY <2>1, ElementOfSeq, LenProperties DEF IsSeq
<1>2. IsSeq(<<a, b, c>>) /\ \A i \in DOMAIN <<a, b, c>> : <<a, b, c>>[i] \in {a, b, c}
  <2>1. <<a, b, c>> \in Seq({a, b, c}) /\ Len(<<a, b, c>>) = 3
    OBVIOUS
  <2> QED BY <2>1, ElementOfSeq, LenProperties DEF IsSeq
<1> QED BY <1>1, <1>2

LEMMA FreshStart ==
  ASSUME NEW m \in Mission
  PROVE  Fresh(<<Step("begin", m), Step("session", None), Step("focus", m)>>)
<1>1. PICK a, b, c : a = Step("begin", m) /\ b = Step("session", None) /\ c = Step("focus", m)
  OBVIOUS
<1>2. a.op = "begin" /\ a.arg = m /\ b.op = "session" /\ c.op = "focus"
  BY <1>1, StepIs
<1>3. PICK t : t = <<a, b, c>>
  OBVIOUS
<1>4. t # <<>> /\ Head(t) = a /\ Tail(t) = <<b, c>> /\ IsSeq(t) /\ \A i \in DOMAIN t : t[i] \in {a, b, c}
  BY <1>3, Tuple3, TupleElements
<1>5. Plan(t, TRUE) /\ Plan(t, FALSE)
  BY <1>1, <1>2, <1>4 DEF Plan
<1>6. Fresh(t)
  BY <1>2, <1>4, <1>5 DEF Fresh, IsVerdict
<1> QED BY <1>1, <1>3, <1>6

LEMMA FreshHand ==
  ASSUME NEW r \in Records
  PROVE  Fresh(<<Step("add", r), Step("ingest", r), Tell("evidence", r)>>)
<1>1. PICK a, b, c : a = Step("add", r) /\ b = Step("ingest", r) /\ c = Tell("evidence", r)
  OBVIOUS
<1>2. a.op = "add" /\ a.arg = r /\ b.op = "ingest" /\ c.op = "tell" /\ c.arg.what = "evidence"
  BY <1>1 DEF Step, Tell
<1>3. PICK t : t = <<a, b, c>>
  OBVIOUS
<1>4. t # <<>> /\ Head(t) = a /\ Tail(t) = <<b, c>> /\ IsSeq(t) /\ \A i \in DOMAIN t : t[i] \in {a, b, c}
  BY <1>3, Tuple3, TupleElements
<1>5. Plan(t, TRUE) /\ Plan(t, FALSE)
  BY <1>1, <1>2, <1>4 DEF Plan
<1>6. Fresh(t)
  BY <1>2, <1>4, <1>5 DEF Fresh, IsVerdict
<1> QED BY <1>1, <1>3, <1>6

LEMMA FreshComplete ==
  ASSUME NEW x
  PROVE  Fresh(<<Step("complete", x), Tell("verdict", x)>>)
<1>1. PICK a, b : a = Step("complete", x) /\ b = Tell("verdict", x)
  OBVIOUS
<1>2. a.op = "complete" /\ a.arg = x /\ b.op = "tell"
  BY <1>1 DEF Step, Tell
<1>3. PICK t : t = <<a, b>>
  OBVIOUS
<1>4. t # <<>> /\ Head(t) = a /\ Tail(t) = <<b>> /\ IsSeq(t) /\ \A i \in DOMAIN t : t[i] \in {a, b}
  BY <1>3, Tuple2, TupleElements
<1>5. Plan(t, TRUE) /\ Plan(t, FALSE)
  BY <1>1, <1>2, <1>4 DEF Plan
<1>6. Fresh(t)
  BY <1>2, <1>4, <1>5 DEF Fresh
<1> QED BY <1>1, <1>3, <1>6

LEMMA CommandFresh ==
  ASSUME CommandLine PROVE \E steps : Fresh(steps) /\ Issue(Cli, steps)
<1>1. ASSUME NEW op \in {"judge", "due", "ratchet", "open", "close", "decide"}, NEW arg,
             Command(<<Step(op, arg)>>)
      PROVE  \E steps : Fresh(steps) /\ Issue(Cli, steps)
  BY <1>1, FreshOne, StepIs DEF Command
<1>2. ASSUME NEW m \in Mission, Start(m) PROVE \E steps : Fresh(steps) /\ Issue(Cli, steps)
  BY <1>2, FreshStart DEF Start, Command
<1>3. ASSUME NEW r \in Records, Hand(r) PROVE \E steps : Fresh(steps) /\ Issue(Cli, steps)
  BY <1>3, FreshHand DEF Hand, Command
<1>4. ASSUME NEW id, NEW v, Complete(id, v) PROVE \E steps : Fresh(steps) /\ Issue(Cli, steps)
  BY <1>4, FreshComplete DEF Complete, Command
<1> QED
  BY <1>1, <1>2, <1>3, <1>4
     DEF CommandLine, Gate, OpenQuest, Close, EvaluateByHand, Retention, Advise

\* What a step of an unharmed run is to the command line.
SamePlanAtCli == call'[Cli].todo = call[Cli].todo /\ call'[Cli].begun = call[Cli].begun

Nothing == Now' = Now /\ told' = told /\ SamePlanAtCli

Changes(s) == Now' = [Now EXCEPT ![FileOf(s.op)] = Effect(s, Now[FileOf(s.op)])]

ByThread ==
  /\ \E s : s.op \in {"due", "decide", "refresh"} /\ Changes(s)
  /\ told' = told /\ SamePlanAtCli

Began ==
  /\ call[Cli].todo = <<>> /\ Fresh(call'[Cli].todo)
  /\ call'[Cli].begun \in BOOLEAN /\ Now' = Now /\ told' = told

LEMMA CliSteps ==
  ASSUME PlanInv, [Next]_vars, ~harmed'
  PROVE  /\ ~harmed /\ Calm(file, call) /\ Calm(file', call') /\ call[Cli].begun \in BOOLEAN
         /\ Now = [f \in File |-> Now[f]]
         /\ Nothing \/ ByThread \/ Took(Cli) \/ Failed(Cli) \/ Told(Cli) \/ Began
<1>0. CalmInv
  BY DEF PlanInv
<1>1. /\ ~harmed /\ Calm(file', call')
      /\ \/ Quiet
         \/ \E c \in Caller : OnlyBy(c) /\ (Took(c) \/ Failed(c) \/ Told(c))
         \/ Issued
  BY <1>0, CalmSteps
<1>2. Cli \in Caller /\ Cli \notin Dashboard
  BY LoopAssumption DEF Caller
<1>3. Calm(file, call) /\ call[Cli].begun \in BOOLEAN /\ call'[Cli].begun \in BOOLEAN
      /\ Now = [f \in File |-> Now[f]]
  BY <1>0, <1>1, <1>2, NowOf DEF Calm, CallCalm
<1> SUFFICES Nothing \/ ByThread \/ Took(Cli) \/ Failed(Cli) \/ Told(Cli) \/ Began
  BY <1>1, <1>3
<1>4. CASE Quiet
  BY <1>2, <1>4 DEF Quiet, SamePlan, Nothing, SamePlanAtCli
<1>5. ASSUME NEW c \in Caller, OnlyBy(c), Took(c) \/ Failed(c) \/ Told(c)
      PROVE  Nothing \/ ByThread \/ Took(Cli) \/ Failed(Cli) \/ Told(Cli)
  <2>1. CASE c = Cli
    BY <1>5, <2>1
  <2>2. CASE c # Cli
    <3>1. c \in Dashboard /\ SamePlanAtCli
      BY <1>2, <1>5, <2>2 DEF Caller, OnlyBy, SamePlanAtCli
    <3>2. CASE Took(c)
      <4>1. Current(c).op \in {"due", "decide", "refresh"}
        BY <3>1, <3>2 DEF Took, StepOK
      <4>2. PICK s : s = Current(c)
        OBVIOUS
      <4>3. Changes(s) /\ told' = told
        BY <3>2, <4>2 DEF Took, Changes
      <4>4. ByThread
        BY <3>1, <4>1, <4>2, <4>3 DEF ByThread
      <4> QED BY <4>4
    <3>3. CASE Failed(c)
      BY <3>1, <3>3 DEF Failed, Nothing
    <3>4. CASE Told(c)
      <4>1. Busy(c) /\ Current(c).op = "tell"
        BY <3>4 DEF Told, Report
      <4>2. StepOK(c, Current(c))
        BY <1>0, <4>1, HeadOK DEF CalmInv
      <4> QED BY <3>1, <4>1, <4>2 DEF StepOK
    <3> QED BY <1>5, <3>2, <3>3, <3>4
  <2> QED BY <2>1, <2>2
<1>6. CASE Issued
  <2>1. CASE CommandLine
    <3>1. PICK steps : Fresh(steps) /\ Issue(Cli, steps)
      BY <2>1, CommandFresh
    <3>2. call[Cli].todo = <<>> /\ call'[Cli].todo = steps /\ told' = told
      BY <1>0, <1>1, <1>2, <3>1, IssueCalm DEF Issue
    <3> QED BY <1>3, <1>6, <3>1, <3>2 DEF Issued, Began
  <2>2. CASE Server
    <3>1. PICK d \in Dashboard : \E steps : Issue(d, steps)
      BY <2>2 DEF Server, Request
    <3>2. OnlyBy(d) /\ told' = told
      BY <1>0, <1>1, <3>1, IssueCalm DEF Issue, Caller
    <3>3. SamePlanAtCli
      BY <1>2, <3>1, <3>2 DEF OnlyBy, SamePlanAtCli
    <3> QED BY <1>6, <3>2, <3>3 DEF Issued, Nothing
  <2> QED BY <1>6, <2>1, <2>2 DEF Issued
<1> QED BY <1>1, <1>3, <1>4, <1>5, <1>6

LEMMA PlanInit == Init => PlanInv
<1> SUFFICES ASSUME Init PROVE PlanInv
  OBVIOUS
<1>1. call[Cli].todo = <<>>
  BY DEF Init, Caller, Idle
<1> QED BY <1>1, CalmInit, EmptyPlan DEF PlanInv

LEMMA TookPlan ==
  ASSUME PlanInv, ~harmed, Took(Cli), call[Cli].begun \in BOOLEAN
  PROVE  Plan(call'[Cli].todo, call'[Cli].begun)
<1>1. Busy(Cli) /\ Cli \in Caller
  BY DEF Took, Caller
<1>2. IsSeq(call[Cli].todo) /\ call[Cli].todo # <<>>
  BY <1>1, HeadOK DEF PlanInv, CalmInv
<1>3. PICK todo, begun, begun2, s, x :
        /\ todo = call[Cli].todo /\ begun = call[Cli].begun /\ begun2 = call'[Cli].begun
        /\ s = Current(Cli) /\ x = Now[FileOf(s.op)]
  OBVIOUS
<1>4. /\ IsSeq(todo) /\ todo # <<>> /\ begun \in BOOLEAN /\ Plan(todo, begun)
      /\ s = Head(todo) /\ StepOK(Cli, s) /\ s.op # "tell"
      /\ begun2 = TRUE \/ (begun2 = begun /\ ~Rewrites(s, x))
      /\ call'[Cli].todo = Follow(s, x) \o Tail(todo)
  BY <1>2, <1>3 DEF Took, PlanInv
<1>5. Plan(Follow(s, x) \o Tail(todo), begun2)
  BY <1>4, PlanGoesOnAnyway
<1> QED BY <1>3, <1>4, <1>5

LEMMA PlanNext == PlanInv /\ [Next]_vars => PlanInv'
<1> SUFFICES ASSUME PlanInv, [Next]_vars PROVE PlanInv'
  OBVIOUS
<1>1. CalmInv'
  BY CalmNext DEF PlanInv
<1>2. ASSUME ~harmed' PROVE Plan(call'[Cli].todo, call'[Cli].begun)
  <2>1. /\ ~harmed /\ call[Cli].begun \in BOOLEAN
        /\ Nothing \/ ByThread \/ Took(Cli) \/ Failed(Cli) \/ Told(Cli) \/ Began
    BY <1>2, CliSteps
  <2>2. CASE SamePlanAtCli
    BY <2>1, <2>2 DEF PlanInv, SamePlanAtCli
  <2>3. CASE Took(Cli)
    BY <2>1, <2>3, TookPlan
  <2>4. CASE call'[Cli].todo = <<>>
    BY <2>4, EmptyPlan
  <2>5. CASE Began
    BY <2>5 DEF Began, Fresh
  <2> QED BY <2>1, <2>2, <2>3, <2>4, <2>5 DEF Nothing, ByThread, Failed, Told
<1> QED BY <1>1, <1>2 DEF PlanInv

(***************************************************************************)
(* The retention ladder (LadderKept). In the middle of a command the       *)
(* ladder may lack an event that the plan still schedules: LadderOK says   *)
(* what is owed, and to which step of the plan.                            *)
(***************************************************************************)

\* The events of a competency of a mission, and what promises one.
SameChain(e, f) == e.competency = f.competency /\ e.mission = f.mission
Has(events, c, m) ==
  \E i \in DOMAIN events : events[i].competency = c /\ events[i].mission = m
Pending(todo, c, m) ==
  \E i \in DOMAIN todo :
    todo[i].op = "schedule" /\ todo[i].arg.competency = c /\ todo[i].arg.mission = m
Rewarding(todo, m) ==
  /\ todo # <<>>
  /\ \/ Head(todo).op = "tally" /\ Head(todo).arg.mission = m /\ Head(todo).arg.verdict = "PASS"
     \/ Head(todo).op = "reward" /\ Head(todo).arg = m
Covered(status, events, todo) ==
  \A m \in Mission : status[m] = "PASSED" =>
    \/ Rewarding(todo, m)
    \/ \A k \in DOMAIN Competencies[m] :
         Has(events, Competencies[m][k], m) \/ Pending(todo, Competencies[m][k], m)

\* Nothing is forgotten.
Good(e) == e.status \in Open \/ (e.status = "PASSED" /\ e.stage + 1 \notin Stage)
Remembered(events, todo) ==
  \A i \in DOMAIN events :
    \/ Pending(todo, events[i].competency, events[i].mission)
    \/ \E j \in DOMAIN events : SameChain(events[j], events[i]) /\ Good(events[j])

\* A stage comes after the one before it.
Climbs(events, e, below) ==
  /\ e.stage \in Nat
  /\ e.stage > 0 => \E j \in DOMAIN events :
                       SameChain(events[j], e) /\ j < below /\ events[j].stage = e.stage - 1
Climbed(events, todo) ==
  /\ \A i \in DOMAIN events : Climbs(events, events[i], i)
  /\ \A i \in DOMAIN todo : todo[i].op = "schedule" =>
       todo[i].arg.status \in Open /\ Climbs(events, todo[i].arg, Len(events) + 1)

\* A reported verdict stands, unless a newer one is about to be reported.
Completing(todo) == \E i \in DOMAIN todo : todo[i].op = "complete"
Chased(todo, id) ==
  ~Completing(todo) /\ \E i \in DOMAIN todo : IsVerdict(todo[i]) /\ todo[i].arg.arg.id = id
Stand(events, todo, verdicts) ==
  /\ \A v \in verdicts :
       v.verdict \notin Open /\ v.id \in DOMAIN events /\ (events[v.id].status = v.verdict \/ Chased(todo, v.id))
  /\ ~Completing(todo) => \A i \in DOMAIN todo : IsVerdict(todo[i]) =>
       LET v == todo[i].arg.arg
       IN  v.verdict \notin Open /\ v.id \in DOMAIN events /\ events[v.id].status = v.verdict

\* A call that has written nothing owes nothing.
Unowed(todo, begun) ==
  begun = TRUE \/ \A i \in DOMAIN todo :
                    todo[i].op # "schedule" /\ (IsVerdict(todo[i]) => Completing(todo))

LadderOK(learner, events, todo, begun, verdicts) ==
  /\ learner \in Learner /\ EventsOK(events)
  /\ Covered(learner.status, events, todo)
  /\ Remembered(events, todo)
  /\ Climbed(events, todo)
  /\ Stand(events, todo, verdicts)
  /\ Unowed(todo, begun)

\* Two plans that promise the same.
Debts == {"schedule", "complete", "tell"}
Carried(t, t2) ==
  /\ \A i \in DOMAIN t : t[i].op \in Debts => \E j \in DOMAIN t2 : t2[j] = t[i]
  /\ \A i \in DOMAIN t2 : t2[i].op \in Debts => \E j \in DOMAIN t : t[j] = t2[i]

\* Events that have become due, or are the same.
Aged(x, y) ==
  /\ DOMAIN y = DOMAIN x /\ Len(y) = Len(x) /\ EventsOK(y)
  /\ \A i \in DOMAIN x :
       /\ SameChain(y[i], x[i]) /\ y[i].stage = x[i].stage
       /\ y[i].status = x[i].status \/ (y[i].status \in Open /\ x[i].status \in Open)

LEMMA CarriedIs ==
  ASSUME NEW t, NEW t2, Carried(t, t2)
  PROVE  /\ \A c, m : Pending(t, c, m) <=> Pending(t2, c, m)
         /\ Completing(t) <=> Completing(t2)
         /\ \A id : Chased(t, id) <=> Chased(t2, id)
<1>1. \A c, m : Pending(t, c, m) <=> Pending(t2, c, m)
  BY DEF Carried, Pending, Debts
<1>2. Completing(t) <=> Completing(t2)
  BY DEF Carried, Completing, Debts
<1>3. \A id : Chased(t, id) <=> Chased(t2, id)
  BY <1>2 DEF Carried, Chased, IsVerdict, Debts
<1> QED BY <1>1, <1>2, <1>3

LEMMA PlainLadder ==
  ASSUME NEW l, NEW x, NEW t, NEW b, NEW vs, LadderOK(l, x, t, b, vs),
         NEW l2 \in Learner, NEW y, NEW t2, NEW b2,
         Aged(x, y), Carried(t, t2), b2 = TRUE \/ b2 = b,
         \A m \in Mission : l2.status[m] = "PASSED" =>
           (l.status[m] = "PASSED" /\ ~Rewarding(t, m)) \/ Rewarding(t2, m)
  PROVE  LadderOK(l2, y, t2, b2, vs)
<1>0. /\ \A c, m : Pending(t, c, m) <=> Pending(t2, c, m)
      /\ Completing(t) <=> Completing(t2)
      /\ \A id : Chased(t, id) <=> Chased(t2, id)
  BY CarriedIs
<1>1. Covered(l2.status, y, t2)
  <2>1. \A c, m : Has(x, c, m) => Has(y, c, m)
    BY DEF Has, Aged, SameChain
  <2> QED BY <1>0, <2>1 DEF LadderOK, Covered
<1>2. Remembered(y, t2)
  <2> SUFFICES ASSUME NEW i \in DOMAIN y, ~Pending(t2, y[i].competency, y[i].mission)
               PROVE  \E j \in DOMAIN y : SameChain(y[j], y[i]) /\ Good(y[j])
    BY DEF Remembered
  <2>1. i \in DOMAIN x /\ ~Pending(t, x[i].competency, x[i].mission)
    BY <1>0 DEF Aged, SameChain
  <2>2. PICK j \in DOMAIN x : SameChain(x[j], x[i]) /\ Good(x[j])
    BY <2>1 DEF LadderOK, Remembered
  <2>3. SameChain(y[j], y[i]) /\ Good(y[j])
    BY <2>1, <2>2 DEF Aged, SameChain, Good, Open
  <2> QED BY <2>2, <2>3 DEF Aged
<1>3. ASSUME NEW e, NEW f, NEW n, NEW k, Climbs(x, e, n), SameChain(e, f), e.stage = f.stage, k = n
      PROVE  Climbs(y, f, k)
  BY <1>3 DEF Climbs, Aged, SameChain
<1>4. Climbed(y, t2)
  <2>1. \A i \in DOMAIN y : Climbs(y, y[i], i)
    BY <1>3 DEF LadderOK, Climbed, Aged, SameChain
  <2>2. ASSUME NEW i \in DOMAIN t2, t2[i].op = "schedule"
        PROVE  t2[i].arg.status \in Open /\ Climbs(y, t2[i].arg, Len(y) + 1)
    <3>1. PICK j \in DOMAIN t : t[j] = t2[i]
      BY <2>2 DEF Carried, Debts
    <3>2. t2[i].arg.status \in Open /\ Climbs(x, t2[i].arg, Len(x) + 1)
      BY <2>2, <3>1 DEF LadderOK, Climbed
    <3> QED BY <1>3, <3>2 DEF SameChain, Aged
  <2> QED BY <2>1, <2>2 DEF Climbed
<1>5. Stand(y, t2, vs)
  <2>1. ASSUME NEW v \in vs
        PROVE  /\ v.verdict \notin Open /\ v.id \in DOMAIN y
               /\ y[v.id].status = v.verdict \/ Chased(t2, v.id)
    BY <1>0 DEF LadderOK, Stand, Aged
  <2>2. ASSUME ~Completing(t2), NEW i \in DOMAIN t2, IsVerdict(t2[i])
        PROVE  LET v == t2[i].arg.arg
               IN  v.verdict \notin Open /\ v.id \in DOMAIN y /\ y[v.id].status = v.verdict
    <3>1. PICK j \in DOMAIN t : t[j] = t2[i]
      BY <2>2 DEF Carried, Debts, IsVerdict
    <3> QED BY <1>0, <2>2, <3>1 DEF LadderOK, Stand, Aged
  <2> QED BY <2>1, <2>2 DEF Stand
<1>6. Unowed(t2, b2)
  BY <1>0 DEF LadderOK, Unowed, Carried, Debts, IsVerdict
<1> QED BY <1>1, <1>2, <1>4, <1>5, <1>6 DEF LadderOK, Aged

(***************************************************************************)
(* Scheduling pays a debt.                                                 *)
(***************************************************************************)

\* The scheduling step of a plan.
LEMMA ScheduleLadder ==
  ASSUME NEW l, NEW x, NEW t, NEW b, NEW vs, LadderOK(l, x, t, b, vs),
         NEW s, s.op = "schedule", IsEvent(s.arg), \E i \in DOMAIN t : t[i] = s,
         NEW t2, NEW b2, b2 = TRUE \/ b2 = b,
         \A i \in DOMAIN t : t[i] = s \/ \E j \in DOMAIN t2 : t2[j] = t[i],
         \A i \in DOMAIN t2 : t2[i].op \in Debts => \E j \in DOMAIN t : t[j] = t2[i],
         \A m : ~Rewarding(t, m)
  PROVE  LadderOK(l, Schedule(x, s.arg), t2, b2, vs)
<1> DEFINE y == Schedule(x, s.arg)
<1>1. EventsOK(y) /\ IsSeq(x)
  BY ScheduleKeeps DEF LadderOK, EventsOK
<1>2. s.arg.status \in Open /\ Climbs(x, s.arg, Len(x) + 1)
  BY DEF LadderOK, Climbed
<1>3. /\ Len(x) \in Nat /\ Len(y) \in Nat /\ Len(y) >= Len(x)
      /\ DOMAIN x = 1..Len(x) /\ \A i \in DOMAIN x : i \in DOMAIN y /\ y[i] = x[i]
      /\ \A i \in DOMAIN y : i \in DOMAIN x \/ (i = Len(x) + 1 /\ y[i] = s.arg)
      /\ \E i \in DOMAIN y : y[i].status \in Open /\ SameChain(y[i], s.arg)
  <2>1. PICK S : x \in Seq(S)
    BY <1>1 DEF IsSeq
  <2>2. Len(x) \in Nat /\ DOMAIN x = 1..Len(x)
    BY <2>1
  <2>3. CASE Scheduled(x, s.arg.competency, s.arg.mission)
    BY <2>2, <2>3 DEF Schedule, Scheduled, IsOpen, SameChain
  <2>4. CASE ~Scheduled(x, s.arg.competency, s.arg.mission)
    <3>1. PICK z : z = Append(x, s.arg)
      OBVIOUS
    <3>2. Len(z) = Len(x) + 1 /\ DOMAIN z = 1..(Len(x) + 1) /\ z[Len(x) + 1] = s.arg
          /\ \A i \in 1..Len(x) : z[i] = x[i]
      BY <2>1, <3>1, AppendProperties
    <3>3. y = z
      BY <2>4, <3>1 DEF Schedule
    <3> HIDE DEF y
    <3>4. Len(x) + 1 \in DOMAIN z
      BY <2>2, <3>2
    <3> QED BY <1>2, <2>2, <3>2, <3>3, <3>4 DEF SameChain
  <2> QED BY <2>3, <2>4
<1> HIDE DEF y
<1>4. \A c, m : Pending(t, c, m) => Pending(t2, c, m) \/ Has(y, c, m)
  <2> SUFFICES ASSUME NEW c, NEW m, Pending(t, c, m), ~Pending(t2, c, m) PROVE Has(y, c, m)
    OBVIOUS
  <2>1. c = s.arg.competency /\ m = s.arg.mission
    BY DEF Pending
  <2> QED BY <1>3, <2>1 DEF Has, SameChain
<1>5. Completing(t) <=> Completing(t2)
  <2>1. \A i \in DOMAIN t : t[i].op = "complete" => \E j \in DOMAIN t2 : t2[j] = t[i]
    OBVIOUS
  <2> QED BY <2>1 DEF Completing, Debts
<1>6. \A id : Chased(t, id) => Chased(t2, id)
  <2>1. \A i \in DOMAIN t : t[i].op = "tell" => \E j \in DOMAIN t2 : t2[j] = t[i]
    OBVIOUS
  <2> QED BY <1>5, <2>1 DEF Chased, IsVerdict
<1>7. Covered(l.status, y, t2)
  <2>1. \A c, m : Has(x, c, m) => Has(y, c, m)
    BY <1>3 DEF Has
  <2> QED BY <1>4, <2>1 DEF LadderOK, Covered
<1>8. Remembered(y, t2)
  <2> SUFFICES ASSUME NEW i \in DOMAIN y, ~Pending(t2, y[i].competency, y[i].mission)
               PROVE  \E j \in DOMAIN y : SameChain(y[j], y[i]) /\ Good(y[j])
    BY DEF Remembered
  <2>1. PICK k \in DOMAIN y : y[k].status \in Open /\ SameChain(y[k], s.arg)
    BY <1>3
  <2>2. CASE SameChain(y[i], s.arg)
    BY <2>1, <2>2 DEF SameChain, Good
  <2>3. CASE ~SameChain(y[i], s.arg)
    <3>1. i \in DOMAIN x /\ y[i] = x[i]
      BY <1>3, <2>3 DEF SameChain
    <3>2. ~Pending(t, x[i].competency, x[i].mission)
      BY <2>3, <3>1 DEF Pending, SameChain
    <3>3. PICK j \in DOMAIN x : SameChain(x[j], x[i]) /\ Good(x[j])
      BY <3>1, <3>2 DEF LadderOK, Remembered
    <3> QED BY <1>3, <3>1, <3>3
  <2> QED BY <2>2, <2>3
<1>9. ASSUME NEW e, NEW n \in Nat, NEW k \in Nat, Climbs(x, e, n), n <= k PROVE Climbs(y, e, k)
  <2>1. ASSUME e.stage > 0
        PROVE  \E j \in DOMAIN y : SameChain(y[j], e) /\ j < k /\ y[j].stage = e.stage - 1
    <3>1. PICK j \in DOMAIN x : SameChain(x[j], e) /\ j < n /\ x[j].stage = e.stage - 1
      BY <1>9, <2>1 DEF Climbs
    <3>2. j \in Nat
      BY <1>3
    <3>3. j < k
      BY <1>9, <3>1, <3>2
    <3> QED BY <1>3, <3>1, <3>3
  <2> QED BY <1>9, <2>1 DEF Climbs
<1>10. Climbed(y, t2)
  <2>1. ASSUME NEW i \in DOMAIN y PROVE Climbs(y, y[i], i)
    <3>1. CASE i \in DOMAIN x
      <4>1. i \in Nat /\ Climbs(x, x[i], i)
        BY <1>3, <3>1 DEF LadderOK, Climbed
      <4> QED BY <1>3, <1>9, <3>1, <4>1
    <3>2. CASE i = Len(x) + 1 /\ y[i] = s.arg
      BY <1>2, <1>3, <1>9, <3>2
    <3> QED BY <1>3, <3>1, <3>2
  <2>2. ASSUME NEW i \in DOMAIN t2, t2[i].op = "schedule"
        PROVE  t2[i].arg.status \in Open /\ Climbs(y, t2[i].arg, Len(y) + 1)
    <3>1. PICK j \in DOMAIN t : t[j] = t2[i]
      BY <2>2 DEF Debts
    <3>2. t2[i].arg.status \in Open /\ Climbs(x, t2[i].arg, Len(x) + 1)
      BY <2>2, <3>1 DEF LadderOK, Climbed
    <3>3. Len(x) + 1 \in Nat /\ Len(y) + 1 \in Nat /\ Len(x) + 1 <= Len(y) + 1
      BY <1>3
    <3> QED BY <1>9, <3>2, <3>3
  <2> QED BY <2>1, <2>2 DEF Climbed
<1>11. Stand(y, t2, vs)
  <2>1. ASSUME NEW v \in vs
        PROVE  /\ v.verdict \notin Open /\ v.id \in DOMAIN y
               /\ y[v.id].status = v.verdict \/ Chased(t2, v.id)
    BY <1>3, <1>6 DEF LadderOK, Stand
  <2>2. ASSUME ~Completing(t2), NEW i \in DOMAIN t2, IsVerdict(t2[i])
        PROVE  LET v == t2[i].arg.arg
               IN  v.verdict \notin Open /\ v.id \in DOMAIN y /\ y[v.id].status = v.verdict
    <3>1. PICK j \in DOMAIN t : t[j] = t2[i]
      BY <2>2 DEF Debts, IsVerdict
    <3> QED BY <1>3, <1>5, <2>2, <3>1 DEF LadderOK, Stand
  <2> QED BY <2>1, <2>2 DEF Stand
<1>12. Unowed(t2, b2)
  <2>1. b = TRUE
    BY DEF LadderOK, Unowed
  <2> QED BY <2>1 DEF Unowed
<1> QED BY <1>1, <1>7, <1>8, <1>10, <1>11, <1>12 DEF LadderOK, y

\* A list of steps without debts.
LEMMA ClearLadder ==
  ASSUME NEW l, NEW x, NEW t, NEW b, NEW vs, LadderOK(l, x, t, b, vs),
         \A i \in DOMAIN t : t[i].op # "schedule" /\ (IsVerdict(t[i]) => Completing(t)),
         NEW t2, NEW b2,
         \A i \in DOMAIN t2 : t2[i].op # "schedule" /\ (IsVerdict(t2[i]) => Completing(t2)),
         \A m : ~Rewarding(t, m)
  PROVE  LadderOK(l, x, t2, b2, vs)
<1>1. \A c, m : ~Pending(t, c, m)
  BY DEF Pending
<1>2. \A id : ~Chased(t, id)
  BY DEF Chased
<1>3. Covered(l.status, x, t2)
  BY <1>1 DEF LadderOK, Covered
<1>4. Remembered(x, t2)
  BY <1>1 DEF LadderOK, Remembered
<1>5. Climbed(x, t2)
  BY DEF LadderOK, Climbed
<1>6. Stand(x, t2, vs)
  BY <1>2 DEF LadderOK, Stand
<1>7. Unowed(t2, b2)
  BY DEF Unowed
<1> QED BY <1>3, <1>4, <1>5, <1>6, <1>7 DEF LadderOK

(***************************************************************************)
(* Completing a retrieval, passing a gate and reporting make debts.        *)
(***************************************************************************)

\* After a pass: a retrieval of each competency is promised.
Rewards(t, m, days) ==
  LET step(k) == Step("schedule", NewEvent(Competencies[m][k], m, 0, days)) IN
  /\ \A k \in DOMAIN Competencies[m] : \E i \in DOMAIN t : t[i] = step(k)
  /\ \A i \in DOMAIN t :
       (\E k \in DOMAIN Competencies[m] : t[i] = step(k)) \/ t[i].op \notin Debts

LEMMA RewardLadder ==
  ASSUME NEW l, NEW x, NEW t, NEW b, NEW vs, LadderOK(l, x, t, b, vs),
         NEW m \in Mission, \A n : Rewarding(t, n) => n = m,
         \A i \in DOMAIN t : t[i].op \notin Debts,
         NEW t2, NEW days, Rewards(t2, m, days)
  PROVE  LadderOK(l, x, t2, TRUE, vs)
<1>1. \A c : LET s == Step("schedule", NewEvent(c, m, 0, days)) IN
        /\ s.op = "schedule" /\ s.arg.competency = c /\ s.arg.mission = m
        /\ s.arg.stage = 0 /\ s.arg.status = "SCHEDULED"
  BY DEF Step, NewEvent
<1>2. \A c, n : ~Pending(t, c, n)
  BY DEF Pending, Debts
<1>3. \A id : ~Chased(t, id)
  BY DEF Chased, IsVerdict, Debts
<1>4. Covered(l.status, x, t2)
  <2>1. \A k \in DOMAIN Competencies[m] : Pending(t2, Competencies[m][k], m)
    BY <1>1 DEF Rewards, Pending
  <2> QED BY <1>2, <2>1 DEF LadderOK, Covered
<1>5. Remembered(x, t2)
  BY <1>2 DEF LadderOK, Remembered
<1>6. Climbed(x, t2)
  <2>1. \A i \in DOMAIN t2 : t2[i].op = "schedule" => t2[i].arg.stage = 0 /\ t2[i].arg.status = "SCHEDULED"
    BY <1>1 DEF Rewards, Debts
  <2>2. \A i \in DOMAIN t2 : t2[i].op = "schedule" =>
          t2[i].arg.status \in Open /\ Climbs(x, t2[i].arg, Len(x) + 1)
    BY <2>1 DEF Climbs, Open
  <2> QED BY <2>2 DEF LadderOK, Climbed
<1>7. Stand(x, t2, vs)
  <2>1. \A i \in DOMAIN t2 : ~IsVerdict(t2[i])
    BY <1>1 DEF Rewards, IsVerdict, Debts
  <2> QED BY <1>3, <2>1 DEF LadderOK, Stand
<1>8. Unowed(t2, TRUE)
  BY DEF Unowed
<1> QED BY <1>4, <1>5, <1>6, <1>7, <1>8 DEF LadderOK

\* A verdict is written: the chain goes on, or ends with its last stage.
LEMMA CompleteLadder ==
  ASSUME NEW l, NEW x, NEW t, NEW b, NEW vs, LadderOK(l, x, t, b, vs),
         NEW id, id \in DOMAIN x, NEW verdict \in {"PASSED", "FAILED"},
         Completing(t), \A i \in DOMAIN t : t[i].op # "schedule", \A m : ~Rewarding(t, m),
         NEW t2, ~Completing(t2),
         \E i \in DOMAIN t2 : IsVerdict(t2[i]) /\ t2[i].arg.arg.id = id,
         \A i \in DOMAIN t2 : IsVerdict(t2[i]) =>
           t2[i].arg.arg.id = id /\ t2[i].arg.arg.verdict = verdict,
         \A i \in DOMAIN t2 : t2[i].op = "schedule" =>
           /\ t2[i].arg.status \in Open /\ SameChain(t2[i].arg, x[id])
           /\ t2[i].arg.stage = x[id].stage \/ t2[i].arg.stage = x[id].stage + 1,
         (verdict = "FAILED" \/ x[id].stage + 1 \in Stage) => \E i \in DOMAIN t2 : t2[i].op = "schedule"
  PROVE  LadderOK(l, [x EXCEPT ![id].status = verdict], t2, TRUE, vs)
<1> DEFINE y == [x EXCEPT ![id].status = verdict]
<1>1. EventsOK(y) /\ IsSeq(x) /\ \A i \in DOMAIN x : IsEvent(x[i])
  BY CompleteKeeps DEF LadderOK, EventsOK
<1>2. PICK S : x \in Seq(S)
  BY <1>1 DEF IsSeq
<1>3. x = [i \in DOMAIN x |-> x[i]] /\ Len(x) \in Nat /\ DOMAIN x = 1..Len(x)
  BY <1>2, LenProperties
<1>4. /\ DOMAIN y = DOMAIN x
      /\ \A i \in DOMAIN x : i # id => y[i] = x[i]
      /\ y[id].status = verdict
      /\ \A i \in DOMAIN x : SameChain(y[i], x[i]) /\ y[i].stage = x[i].stage
  <2>1. DOMAIN y = DOMAIN x /\ \A i \in DOMAIN x : i # id => y[i] = x[i]
    BY <1>3
  <2>2. y[id] = [x[id] EXCEPT !.status = verdict]
    BY <1>3
  <2>3. y[id].status = verdict /\ SameChain(y[id], x[id]) /\ y[id].stage = x[id].stage
    BY <1>1, <2>2 DEF IsEvent, EventFields, SameChain
  <2> HIDE DEF y
  <2> QED BY <2>1, <2>3 DEF SameChain
<1>5. Len(y) = Len(x)
  <2>1. PICK T : y \in Seq(T)
    BY <1>1 DEF EventsOK, IsSeq
  <2> HIDE DEF y
  <2>2. DOMAIN y = 1..Len(y) /\ Len(y) \in Nat
    BY <2>1
  <2> QED BY <1>3, <1>4, <2>2
<1> HIDE DEF y
<1>6. \A c, m : ~Pending(t, c, m)
  BY DEF Pending
<1>7. \A v : ~Chased(t, v)
  BY DEF Chased
<1>8. Covered(l.status, y, t2)
  <2>1. \A c, m : Has(x, c, m) => Has(y, c, m)
    BY <1>4 DEF Has, SameChain
  <2> QED BY <1>6, <2>1 DEF LadderOK, Covered
<1>9. Remembered(y, t2)
  <2> SUFFICES ASSUME NEW i \in DOMAIN y, ~Pending(t2, y[i].competency, y[i].mission)
               PROVE  \E j \in DOMAIN y : SameChain(y[j], y[i]) /\ Good(y[j])
    BY DEF Remembered
  <2>1. PICK j \in DOMAIN x : SameChain(x[j], x[i]) /\ Good(x[j])
    BY <1>4, <1>6 DEF LadderOK, Remembered
  <2>2. i \in DOMAIN x
    BY <1>4
  <2>3. CASE j # id
    BY <1>4, <2>1, <2>2, <2>3 DEF SameChain
  <2>4. CASE j = id
    <3>1. SameChain(x[id], x[i]) /\ SameChain(y[i], x[i])
      BY <1>4, <2>1, <2>2, <2>4
    <3>2. \A k \in DOMAIN t2 : t2[k].op # "schedule"
      BY <3>1 DEF Pending, SameChain
    <3>3. verdict = "PASSED" /\ x[id].stage + 1 \notin Stage
      BY <3>2
    <3>4. Good(y[id]) /\ SameChain(y[id], y[i])
      BY <1>4, <3>1, <3>3 DEF Good, SameChain
    <3> QED BY <1>4, <3>4
  <2> QED BY <2>3, <2>4
<1>10. ASSUME NEW e, NEW f, NEW n \in Nat, NEW k \in Nat, Climbs(x, e, n), SameChain(e, f),
              f.stage = e.stage, n <= k
       PROVE  Climbs(y, f, k)
  <2>1. ASSUME f.stage > 0
        PROVE  \E j \in DOMAIN y : SameChain(y[j], f) /\ j < k /\ y[j].stage = f.stage - 1
    <3>1. PICK j \in DOMAIN x : SameChain(x[j], e) /\ j < n /\ x[j].stage = e.stage - 1
      BY <1>10, <2>1 DEF Climbs
    <3>2. j \in Nat
      BY <1>3
    <3>3. j < k
      BY <1>10, <3>1, <3>2
    <3> QED BY <1>4, <1>10, <3>1, <3>3 DEF SameChain
  <2> QED BY <1>10, <2>1 DEF Climbs
<1>11. Climbed(y, t2)
  <2>1. ASSUME NEW i \in DOMAIN y PROVE Climbs(y, y[i], i)
    <3>1. i \in Nat /\ i \in DOMAIN x /\ Climbs(x, x[i], i)
      BY <1>3, <1>4 DEF LadderOK, Climbed
    <3>2. SameChain(x[i], y[i]) /\ y[i].stage = x[i].stage
      BY <1>4, <3>1 DEF SameChain
    <3> QED BY <1>10, <3>1, <3>2
  <2>2. ASSUME NEW i \in DOMAIN t2, t2[i].op = "schedule" PROVE Climbs(y, t2[i].arg, Len(y) + 1)
    <3>0. id \in Nat /\ id <= Len(x) + 1 /\ Len(x) + 1 \in Nat /\ id < Len(x) + 1
      BY <1>3
    <3>1. Climbs(x, x[id], id) /\ SameChain(t2[i].arg, x[id])
      BY <2>2 DEF LadderOK, Climbed
    <3>2. CASE t2[i].arg.stage = x[id].stage
      <4>1. SameChain(x[id], t2[i].arg)
        BY <3>1 DEF SameChain
      <4>2. Climbs(y, t2[i].arg, Len(x) + 1)
        BY <1>10, <3>0, <3>1, <3>2, <4>1
      <4> QED BY <1>5, <4>2
    <3>3. CASE t2[i].arg.stage = x[id].stage + 1
      <4>1. x[id].stage \in Nat
        BY <3>1 DEF Climbs
      <4>2. /\ t2[i].arg.stage \in Nat /\ y[id].stage = t2[i].arg.stage - 1
            /\ SameChain(y[id], t2[i].arg) /\ id \in DOMAIN y
        BY <1>4, <3>1, <3>3, <4>1 DEF SameChain
      <4> QED BY <1>5, <3>0, <4>2 DEF Climbs
    <3> QED BY <2>2, <3>2, <3>3
  <2> QED BY <2>1, <2>2 DEF Climbed
<1>12. Stand(y, t2, vs)
  <2>1. ASSUME NEW v \in vs
        PROVE  /\ v.verdict \notin Open /\ v.id \in DOMAIN y
               /\ y[v.id].status = v.verdict \/ Chased(t2, v.id)
    <3>1. v.verdict \notin Open /\ v.id \in DOMAIN x /\ x[v.id].status = v.verdict
      BY <1>7 DEF LadderOK, Stand
    <3>2. Chased(t2, id)
      BY DEF Chased
    <3> QED BY <1>4, <3>1, <3>2
  <2>2. ASSUME NEW i \in DOMAIN t2, IsVerdict(t2[i])
        PROVE  LET v == t2[i].arg.arg
               IN  v.verdict \notin Open /\ v.id \in DOMAIN y /\ y[v.id].status = v.verdict
    BY <1>4, <2>2 DEF Open
  <2> QED BY <2>1, <2>2 DEF Stand
<1>13. Unowed(t2, TRUE)
  BY DEF Unowed
<1> QED BY <1>1, <1>8, <1>9, <1>11, <1>12, <1>13 DEF LadderOK, y

\* The verdict is reported.
LEMMA TellLadder ==
  ASSUME NEW l, NEW x, NEW t, NEW b, NEW vs, LadderOK(l, x, t, b, vs),
         NEW s, s.op = "tell", \A i \in DOMAIN t : t[i] = s, \E i \in DOMAIN t : t[i] = s,
         \A m : ~Rewarding(t, m), NEW b2,
         NEW vs2,
         s.arg.what = "verdict" =>
           \A v \in vs2 : (v \in vs /\ v.id # s.arg.arg.id) \/ v = s.arg.arg,
         s.arg.what # "verdict" => vs2 = vs
  PROVE  LadderOK(l, x, <<>>, b2, vs2)
<1>0. \A i \in DOMAIN <<>> : FALSE
  OBVIOUS
<1>1. \A c, m : ~Pending(t, c, m)
  BY DEF Pending
<1>2. ~Completing(t)
  BY DEF Completing
<1>3. Covered(l.status, x, <<>>)
  BY <1>1 DEF LadderOK, Covered
<1>4. Remembered(x, <<>>)
  BY <1>1 DEF LadderOK, Remembered
<1>5. Climbed(x, <<>>)
  BY <1>0 DEF LadderOK, Climbed
<1>6. Stand(x, <<>>, vs2)
  <2>1. ASSUME NEW v \in vs2 PROVE v.verdict \notin Open /\ v.id \in DOMAIN x /\ x[v.id].status = v.verdict
    <3>1. CASE v \in vs /\ (s.arg.what = "verdict" => v.id # s.arg.arg.id)
      <4>1. ~Chased(t, v.id)
        BY <3>1 DEF Chased, IsVerdict
      <4> QED BY <3>1, <4>1 DEF LadderOK, Stand
    <3>2. CASE s.arg.what = "verdict" /\ v = s.arg.arg
      <4>1. PICK i \in DOMAIN t : t[i] = s
        OBVIOUS
      <4>2. IsVerdict(t[i])
        BY <3>2, <4>1 DEF IsVerdict
      <4> QED BY <1>2, <3>2, <4>1, <4>2 DEF LadderOK, Stand
    <3> QED BY <3>1, <3>2
  <2> QED BY <1>0, <2>1 DEF Stand
<1>7. Unowed(<<>>, b2)
  BY <1>0 DEF Unowed
<1> QED BY <1>3, <1>4, <1>5, <1>6, <1>7 DEF LadderOK

(***************************************************************************)
(* The other steps leave the debts as they are.                            *)
(***************************************************************************)

LEMMA SameLength == ASSUME NEW a \in Nat, NEW b \in Nat, 1..a = 1..b PROVE a = b
<1>1. a \in 1..a \/ a = 0
  OBVIOUS
<1>2. b \in 1..b \/ b = 0
  OBVIOUS
<1>3. a <= b
  BY <1>1
<1>4. b <= a
  BY <1>2
<1> QED BY <1>3, <1>4

LEMMA DueAged == ASSUME NEW x, EventsOK(x) PROVE Aged(x, Due(x))
<1> DEFINE y == Due(x)
<1>1. EventsOK(y) /\ \A i \in DOMAIN x : IsEvent(x[i])
  BY DueKeeps DEF EventsOK
<1>2. PICK S, T : x \in Seq(S) /\ y \in Seq(T)
  BY <1>1 DEF EventsOK, IsSeq
<1>3. DOMAIN y = DOMAIN x
  BY DEF Due
<1>4. Len(y) = Len(x)
  <2> HIDE DEF y
  <2>1. Len(y) \in Nat /\ DOMAIN y = 1..Len(y) /\ Len(x) \in Nat /\ DOMAIN x = 1..Len(x)
    BY <1>2
  <2> QED BY <1>3, <2>1, SameLength
<1>5. ASSUME NEW i \in DOMAIN x
      PROVE  /\ SameChain(y[i], x[i]) /\ y[i].stage = x[i].stage
             /\ y[i].status = x[i].status \/ (y[i].status \in Open /\ x[i].status \in Open)
  <2>1. CASE Ripe(x[i])
    <3>1. y[i] = [x[i] EXCEPT !.status = "DUE"]
      BY <2>1 DEF Due
    <3> HIDE DEF y
    <3> QED BY <1>1, <2>1, <3>1 DEF IsEvent, EventFields, SameChain, Ripe, Open
  <2>2. CASE ~Ripe(x[i])
    BY <2>2 DEF Due, SameChain
  <2> QED BY <2>1, <2>2
<1> QED BY <1>1, <1>3, <1>4, <1>5 DEF Aged

LEMMA SameAged == ASSUME NEW x, EventsOK(x) PROVE Aged(x, x)
BY DEF Aged, SameChain

\* The files after a step that neither schedules nor completes.
Applied(files, s) == [files EXCEPT ![FileOf(s.op)] = Effect(s, files[FileOf(s.op)])]

LEMMA AppliedPlain ==
  ASSUME NEW files, files = [f \in File |-> files[f]], NEW c, NEW s, StepOK(c, s),
         s.op \notin {"schedule", "complete"},
         files["learner"] \in Learner, EventsOK(files["retention"])
  PROVE  /\ Aged(files["retention"], Applied(files, s)["retention"])
         /\ Applied(files, s)["learner"] \in Learner
         /\ \A m \in Mission : Applied(files, s)["learner"].status[m] = "PASSED" =>
              files["learner"].status[m] = "PASSED" \/ (s.op = "pass" /\ s.arg = m)
<1> DEFINE f == FileOf(s.op)
           x == files[f]
<1>0. s.op \in Ops
  BY DEF StepOK
<1>1. f \in File /\ "learner" \in File /\ "retention" \in File
  BY <1>0, FileOfOp DEF File
<1>2. \A g \in File : Applied(files, s)[g] = IF g = f THEN Effect(s, x) ELSE files[g]
  BY <1>1 DEF Applied
<1>3. Aged(files["retention"], Applied(files, s)["retention"])
  <2>1. CASE f # "retention"
    BY <1>1, <1>2, <2>1, SameAged
  <2>2. CASE f = "retention"
    <3>1. s.op = "due"
      BY <1>0, <2>2, FileOfOp
    <3>2. Effect(s, x) = Due(x)
      BY <3>1 DEF Effect
    <3> QED BY <1>1, <1>2, <2>2, <3>2, DueAged
  <2> QED BY <2>1, <2>2
<1>4. CASE f # "learner"
  BY <1>1, <1>2, <1>3, <1>4
<1>5. CASE f = "learner"
  <2>1. s.op \in {"begin", "pass", "glance", "decide"}
    BY <1>0, <1>5, FileOfOp
  <2>2. CASE s.op \in {"glance", "decide"}
    <3>1. Effect(s, x) = x
      BY <2>2 DEF Effect
    <3> QED BY <1>1, <1>2, <1>3, <1>5, <3>1
  <2>3. CASE s.op \in {"begin", "pass"}
    <3>1. Effect(s, x) \in Learner
      BY <1>5, <2>3, EffectKeeps
    <3>2. x.status \in [Mission -> {"NEW", "IN_PROGRESS", "PASSED"}] /\ DOMAIN x = {"current", "status"}
      BY <1>5 DEF Learner
    <3>3. \A m \in Mission : Effect(s, x).status[m] = "PASSED" =>
             x.status[m] = "PASSED" \/ (s.op = "pass" /\ s.arg = m)
      <4>1. CASE s.op = "begin"
        <5>1. Effect(s, x) = [x EXCEPT !.current = s.arg, !.status[s.arg] = "IN_PROGRESS"]
          BY <4>1 DEF Effect
        <5>2. Effect(s, x).status = [x.status EXCEPT ![s.arg] = "IN_PROGRESS"]
          BY <3>2, <5>1
        <5> QED BY <3>2, <5>2
      <4>2. CASE s.op = "pass"
        <5>1. Effect(s, x) = [x EXCEPT !.status[s.arg] = "PASSED"]
          BY <4>2 DEF Effect
        <5>2. Effect(s, x).status = [x.status EXCEPT ![s.arg] = "PASSED"]
          BY <3>2, <5>1
        <5> QED BY <3>2, <4>2, <5>2
      <4> QED BY <2>3, <4>1, <4>2
    <3> QED BY <1>1, <1>2, <1>3, <1>5, <3>1, <3>3
  <2> QED BY <2>1, <2>2, <2>3
<1> QED BY <1>4, <1>5

\* What is left of a plan is its first step and the rest.
LEMMA HeadRest ==
  ASSUME NEW todo, IsSeq(todo), todo # <<>>
  PROVE  /\ \A j \in DOMAIN todo :
              todo[j] = Head(todo) \/ \E i \in DOMAIN Tail(todo) : Tail(todo)[i] = todo[j]
         /\ \A i \in DOMAIN Tail(todo) : \E j \in DOMAIN todo : todo[j] = Tail(todo)[i]
         /\ \E j \in DOMAIN todo : todo[j] = Head(todo)
<1>1. IsSeq(Tail(todo)) /\ 1 \in DOMAIN todo /\ Head(todo) = todo[1]
      /\ \A i \in DOMAIN Tail(todo) : i + 1 \in DOMAIN todo /\ Tail(todo)[i] = todo[i + 1]
  BY TailOf
<1>2. IsSeq(<<>>)
  BY NoLinks DEF Links
<1>3. <<>> \o Tail(todo) = Tail(todo)
  BY <1>1, JoinEmpty
<1>5. PICK t : t = <<>>
  OBVIOUS
<1>4. \A j \in DOMAIN todo :
        todo[j] = Head(todo) \/ \E i \in DOMAIN (t \o Tail(todo)) : (t \o Tail(todo))[i] = todo[j]
  <2>1. Onward(t \o Tail(todo), t, todo)
    BY <1>2, <1>5, Elements
  <2> QED BY <2>1 DEF Onward
<1> QED BY <1>1, <1>3, <1>4, <1>5

LEMMA FollowOps ==
  ASSUME NEW c \in Caller, NEW s, StepOK(c, s), s.op \notin {"tell", "reward", "complete"}, NEW x,
         NEW i \in DOMAIN Follow(s, x)
  PROVE  Follow(s, x)[i].op \notin Debts
<1>1. ASSUME NEW op, op \notin Debts, NEW arg, Follow(s, x) = <<Step(op, arg)>>
      PROVE  Follow(s, x)[i].op \notin Debts
  <2>1. PICK a : a = Step(op, arg)
    OBVIOUS
  <2>2. a.op = op /\ Follow(s, x) = <<a>>
    BY <1>1, <2>1, StepIs
  <2>3. Follow(s, x)[i] = a
    BY <2>2, Singleton
  <2> QED BY <1>1, <2>2, <2>3
<1>2. Follow(s, x) # <<>>
  OBVIOUS
<1>3. CASE s.op = "judge"
  <2> DEFINE v == Evaluate(x, s.arg)
  <2>1. PICK a, b : /\ a = Step(IF v = "PASS" THEN "pass" ELSE "glance", s.arg)
                    /\ b = Step("tally", [mission |-> s.arg, verdict |-> v])
    OBVIOUS
  <2>2. a.op \in {"pass", "glance"} /\ b.op = "tally"
    BY <2>1, StepIs
  <2>3. Follow(s, x) = <<a, b>>
    BY <1>3, <2>1 DEF Follow, AfterJudge
  <2>4. Follow(s, x)[i] \in {a, b}
    BY <2>3, TupleElements
  <2> QED BY <2>2, <2>4 DEF Debts
<1>4. CASE s.op = "tally"
  <2>1. Follow(s, x) = AfterTally(x, s.arg.mission, s.arg.verdict)
    BY <1>4 DEF Follow
  <2>2. Follow(s, x) = <<Step("reward", s.arg.mission)>>
        \/ Follow(s, x) = <<Step("ratchet", {"repeated_gate_failure"})>>
    BY <1>2, <2>1 DEF AfterTally
  <2> QED BY <1>1, <2>2 DEF Debts
<1>5. CASE s.op = "decide"
  <2>1. Follow(s, x) = <<Step("due", None)>>
    BY <1>2, <1>5 DEF Follow, AfterDecide
  <2> QED BY <1>1, <2>1 DEF Debts
<1>6. CASE s.op = "schedule"
  <2>1. Follow(s, x) = <<Step("refresh", TRUE)>>
    BY <1>2, <1>6 DEF Follow
  <2> QED BY <1>1, <2>1 DEF Debts
<1>7. CASE s.op \in {"ratchet", "due", "open", "close"}
  <2>1. \E op \in {"log", "refresh", "sync"} : \E arg : Follow(s, x) = <<Step(op, arg)>>
    BY <1>7 DEF Follow
  <2> QED BY <1>1, <2>1 DEF Debts
<1>8. s.op \in {"judge", "tally", "decide", "schedule", "ratchet", "due", "open", "close"}
  BY <1>2 DEF Follow
<1> QED BY <1>3, <1>4, <1>5, <1>6, <1>7, <1>8

\* A step that is no debt, and brings none, leaves the debts of its plan.
LEMMA TookCarried ==
  ASSUME NEW todo, IsSeq(todo), todo # <<>>, NEW s, s = Head(todo), StepOK(Cli, s),
         s.op \notin Debts \cup {"reward"}, NEW x
  PROVE  Carried(todo, Follow(s, x) \o Tail(todo))
<1> DEFINE t == Follow(s, x)
<1>1. IsSeq(t) /\ \A i \in DOMAIN t : t[i].op \notin Debts
  BY FollowBrings, FollowOps DEF Brought, Debts, Caller
<1> HIDE DEF t
<1>2. /\ \A i \in DOMAIN (t \o Tail(todo)) :
           \/ \E j \in DOMAIN t : (t \o Tail(todo))[i] = t[j]
           \/ \E j \in DOMAIN Tail(todo) : (t \o Tail(todo))[i] = Tail(todo)[j]
      /\ \A j \in DOMAIN todo :
           todo[j] = Head(todo) \/ \E i \in DOMAIN (t \o Tail(todo)) : (t \o Tail(todo))[i] = todo[j]
  <2>1. Onward(t \o Tail(todo), t, todo)
    BY <1>1, Elements
  <2> QED BY <2>1 DEF Onward
<1>3. \A i \in DOMAIN Tail(todo) : \E j \in DOMAIN todo : todo[j] = Tail(todo)[i]
  BY HeadRest
<1>4. Carried(todo, t \o Tail(todo))
  BY <1>1, <1>2, <1>3 DEF Carried
<1> QED BY <1>4 DEF t

(***************************************************************************)
(* The step of a command, by its kind.                                     *)
(***************************************************************************)

\* The steps after a verdict, and after a passed gate.
Continues(t, e, verdict) ==
  /\ \A i \in DOMAIN t :
       /\ t[i].op \in {"schedule", "refresh"}
       /\ t[i].op = "schedule" =>
            /\ t[i].arg.status \in Open /\ SameChain(t[i].arg, e)
            /\ t[i].arg.stage = e.stage \/ t[i].arg.stage = e.stage + 1
  /\ verdict = "FAILED" \/ e.stage + 1 \in Stage => \E i \in DOMAIN t : t[i].op = "schedule"

LEMMA CompleteSteps ==
  ASSUME NEW e, NEW verdict \in {"PASSED", "FAILED"}
  PROVE  Continues(AfterComplete(e, verdict), e, verdict)
<1>1. PICK t : t = AfterComplete(e, verdict)
  OBVIOUS
<1>2. ASSUME NEW stage, stage = e.stage \/ stage = e.stage + 1, NEW days,
             t = <<Step("schedule", NewEvent(e.competency, e.mission, stage, days))>> \o <<Again>>
      PROVE  Continues(t, e, verdict)
  <2>1. PICK a : a = Step("schedule", NewEvent(e.competency, e.mission, stage, days))
    OBVIOUS
  <2>2. /\ a.op = "schedule" /\ a.arg.status \in Open /\ SameChain(a.arg, e)
        /\ a.arg.stage = stage
    BY <2>1 DEF Step, NewEvent, Open, SameChain
  <2>3. t = <<a, Again>>
    BY <1>2, <2>1, Join11
  <2>4. \A i \in DOMAIN t : t[i] \in {a, Again}
    BY <2>3, TupleElements
  <2>5. 1 \in DOMAIN t /\ t[1] = a
    <3>1. <<a, Again>> \in Seq({a, Again}) /\ Len(<<a, Again>>) = 2 /\ <<a, Again>>[1] = a
      OBVIOUS
    <3> QED BY <2>3, <3>1
  <2> QED BY <1>2, <2>2, <2>4, <2>5, AgainIs DEF Continues
<1>3. CASE verdict = "FAILED"
  <2>1. t = <<Step("schedule", NewEvent(e.competency, e.mission, e.stage, REPAIR_DAYS))>> \o <<Again>>
    BY <1>1, <1>3 DEF AfterComplete, Again
  <2> QED BY <1>1, <1>2, <2>1
<1>4. CASE verdict = "PASSED" /\ e.stage + 1 \in Stage
  <2>1. t = <<Step("schedule", NewEvent(e.competency, e.mission, e.stage + 1,
                                        INTERVALS_DAYS[e.stage + 2]))>> \o <<Again>>
    BY <1>1, <1>4 DEF AfterComplete, Again
  <2> QED BY <1>1, <1>2, <2>1
<1>5. CASE verdict = "PASSED" /\ e.stage + 1 \notin Stage
  <2>1. t = <<>> \o <<Again>>
    BY <1>1, <1>5 DEF AfterComplete, Again
  <2>2. t = <<Again>>
    BY <2>1, Singleton, JoinEmpty
  <2>3. \A i \in DOMAIN t : t[i] = Again
    BY <2>2, Singleton
  <2>4. Continues(t, e, verdict)
    BY <1>5, <2>3, AgainIs DEF Continues
  <2> QED BY <1>1, <2>4
<1> QED BY <1>3, <1>4, <1>5

LEMMA RewardSteps ==
  ASSUME NEW m \in Mission, NEW x
  PROVE  Rewards(AfterReward(x, m), m, INTERVALS_DAYS[1])
<1> DEFINE step(k) == Step("schedule", NewEvent(Competencies[m][k], m, 0, INTERVALS_DAYS[1]))
           t == [i \in DOMAIN Competencies[m] |-> step(i)]
           last == Step("ratchet", GateSignals(ForMission(x, m)))
           w == t \o <<last>>
<1>1. AfterReward(x, m) = w
  BY DEF AfterReward
<1>2. last.op = "ratchet"
  BY DEF Step
<1>3. IsSeq(t)
  <2>1. Competencies[m] \in Seq(Competency)
    BY LoopAssumption
  <2>2. Len(Competencies[m]) \in Nat /\ DOMAIN Competencies[m] = 1..Len(Competencies[m])
    BY <2>1
  <2>3. DOMAIN t = 1..Len(Competencies[m]) /\ t = [i \in DOMAIN t |-> t[i]]
    BY <2>2
  <2> HIDE DEF t
  <2>4. PICK R : R = {t[i] : i \in DOMAIN t}
    OBVIOUS
  <2>5. t \in [1..Len(Competencies[m]) -> R]
    BY <2>3, <2>4
  <2> QED BY <2>2, <2>5, SeqDef DEF IsSeq
<1>4. DOMAIN t = DOMAIN Competencies[m] /\ \A k \in DOMAIN t : t[k] = step(k)
  OBVIOUS
<1> HIDE DEF t, last, step
<1>5. PICK todo : todo = <<last, last>>
  OBVIOUS
<1>6. IsSeq(todo) /\ todo # <<>> /\ Tail(todo) = <<last>>
  BY <1>5, Tuple2, TupleElements
<1>7. Onward(w, t, todo)
  <2>1. Onward(t \o Tail(todo), t, todo)
    BY <1>3, <1>6, Elements
  <2> QED BY <1>6, <2>1
<1>8. /\ \A i \in DOMAIN w : (\E j \in DOMAIN t : w[i] = t[j]) \/ w[i] = last
      /\ \A j \in DOMAIN t : \E i \in DOMAIN w : w[i] = t[j]
  BY <1>6, <1>7, Singleton DEF Onward
<1> HIDE DEF w
<1>9. Rewards(w, m, INTERVALS_DAYS[1])
  BY <1>2, <1>4, <1>8 DEF Debts, Rewards, step
<1> QED BY <1>1, <1>9

\* A step of the command line.
Stepping(files, todo, b, s, vs) ==
  /\ files = [f \in File |-> files[f]]
  /\ IsSeq(todo) /\ todo # <<>> /\ Plan(todo, b)
  /\ s = Head(todo) /\ StepOK(Cli, s) /\ s.op # "tell"
  /\ s.op = "complete" => s.arg.id \in DOMAIN files["retention"]
  /\ LadderOK(files["learner"], files["retention"], todo, b, vs)

LEMMA PlainStep ==
  ASSUME NEW files, NEW todo, NEW b, NEW s, NEW vs, Stepping(files, todo, b, s, vs),
         s.op \notin {"schedule", "complete", "reward"}, NEW b2, b2 = TRUE \/ b2 = b
  PROVE  LadderOK(Applied(files, s)["learner"], Applied(files, s)["retention"],
                  Follow(s, files[FileOf(s.op)]) \o Tail(todo), b2, vs)
<1> USE DEF Stepping
<1>1. PICK x, l, t2, l2, y :
        /\ x = files["retention"] /\ l = files["learner"]
        /\ l2 = Applied(files, s)["learner"] /\ y = Applied(files, s)["retention"]
        /\ t2 = Follow(s, files[FileOf(s.op)]) \o Tail(todo)
  OBVIOUS
<1>2. /\ Aged(x, y) /\ l2 \in Learner
      /\ \A m \in Mission : l2.status[m] = "PASSED" =>
           l.status[m] = "PASSED" \/ (s.op = "pass" /\ s.arg = m)
  BY <1>1, AppliedPlain DEF LadderOK
<1>3. Carried(todo, t2)
  BY <1>1, TookCarried DEF Debts
<1>4. ASSUME NEW m \in Mission, l2.status[m] = "PASSED"
      PROVE  (l.status[m] = "PASSED" /\ ~Rewarding(todo, m)) \/ Rewarding(t2, m)
  <2>1. CASE s.op = "pass" /\ s.arg = m
    <3>1. Follow(s, files[FileOf(s.op)]) = <<>> /\ Tail(todo) = <<Tallied(m, "PASS")>>
      BY <2>1 DEF Follow, Plan
    <3>2. t2 = <<Tallied(m, "PASS")>>
      BY <1>1, <3>1, JoinEmpty, Singleton
    <3>3. t2 # <<>> /\ Head(t2) = Tallied(m, "PASS")
      BY <3>2, Tuple1
    <3> QED BY <3>3, TalliedIs DEF Rewarding
  <2>2. CASE s.op = "tally" /\ Rewarding(todo, m)
    <3>1. s.arg.verdict = "PASS" /\ s.arg.mission = m
      BY <2>2 DEF Rewarding
    <3>2. Tail(todo) = <<>>
      BY <2>2 DEF Plan
    <3>3. Follow(s, files[FileOf(s.op)]) = <<Step("reward", m)>>
      BY <2>2, <3>1 DEF Follow, AfterTally
    <3>4. t2 = <<Step("reward", m)>>
      BY <1>1, <3>2, <3>3, JoinEmpty, Singleton
    <3>5. t2 # <<>> /\ Head(t2) = Step("reward", m)
      BY <3>4, Tuple1
    <3> QED BY <3>5, StepIs DEF Rewarding
  <2>3. CASE ~(s.op = "pass" /\ s.arg = m) /\ ~(s.op = "tally" /\ Rewarding(todo, m))
    BY <1>2, <1>4, <2>3 DEF Rewarding
  <2> QED BY <2>1, <2>2, <2>3
<1>5. LadderOK(l, x, todo, b, vs)
  BY <1>1
<1>6. LadderOK(l2, y, t2, b2, vs)
  BY <1>2, <1>3, <1>4, <1>5, PlainLadder
<1> QED BY <1>1, <1>6

LEMMA ScheduleStep ==
  ASSUME NEW files, NEW todo, NEW b, NEW s, NEW vs, Stepping(files, todo, b, s, vs),
         s.op = "schedule", NEW b2, b2 = TRUE \/ b2 = b
  PROVE  LadderOK(Applied(files, s)["learner"], Applied(files, s)["retention"],
                  Follow(s, files[FileOf(s.op)]) \o Tail(todo), b2, vs)
<1> USE DEF Stepping
<1>1. PICK x, l, t, t2 :
        /\ x = files["retention"] /\ l = files["learner"]
        /\ t = Follow(s, files[FileOf(s.op)]) /\ t2 = t \o Tail(todo)
  OBVIOUS
<1>2. FileOf(s.op) = "retention" /\ "retention" \in File /\ "learner" \in File
  BY DEF FileOf, File
<1>3. Applied(files, s)["learner"] = l /\ Applied(files, s)["retention"] = Schedule(x, s.arg)
  <2>1. Effect(s, x) = Schedule(x, s.arg)
    BY DEF Effect
  <2> QED BY <1>1, <1>2, <2>1 DEF Applied
<1>4. IsSeq(t) /\ \A i \in DOMAIN t : t[i].op \notin Debts
  BY <1>1, FollowBrings, FollowOps DEF Brought, Caller
<1>5. Onward(t2, t, todo)
  <2>1. Onward(t \o Tail(todo), t, todo)
    BY <1>4, Elements
  <2> QED BY <1>1, <2>1
<1>6. /\ \A i \in DOMAIN todo : todo[i] = s \/ \E j \in DOMAIN t2 : t2[j] = todo[i]
      /\ \A i \in DOMAIN t2 : t2[i].op \in Debts => \E j \in DOMAIN todo : todo[j] = t2[i]
      /\ \E i \in DOMAIN todo : todo[i] = s
  <2>1. /\ \A i \in DOMAIN Tail(todo) : \E j \in DOMAIN todo : todo[j] = Tail(todo)[i]
        /\ \E j \in DOMAIN todo : todo[j] = s
    BY HeadRest
  <2>2. /\ \A i \in DOMAIN t2 :
             (\E j \in DOMAIN t : t2[i] = t[j]) \/ \E j \in DOMAIN todo : t2[i] = todo[j]
        /\ \A j \in DOMAIN todo : todo[j] = s \/ \E i \in DOMAIN t2 : t2[i] = todo[j]
    BY <1>5, <2>1 DEF Onward
  <2> QED BY <1>4, <2>1, <2>2
<1>7. \A m : ~Rewarding(todo, m)
  BY DEF Rewarding
<1>8. IsEvent(s.arg) /\ LadderOK(l, x, todo, b, vs)
  BY <1>1 DEF StepOK
<1>9. LadderOK(l, Schedule(x, s.arg), t2, b2, vs)
  BY <1>6, <1>7, <1>8, ScheduleLadder
<1> QED BY <1>1, <1>3, <1>9

LEMMA RewardStep ==
  ASSUME NEW files, NEW todo, NEW b, NEW s, NEW vs, Stepping(files, todo, b, s, vs),
         s.op = "reward", NEW b2, b2 = TRUE \/ b2 = b
  PROVE  LadderOK(Applied(files, s)["learner"], Applied(files, s)["retention"],
                  Follow(s, files[FileOf(s.op)]) \o Tail(todo), b2, vs)
<1> USE DEF Stepping
<1>1. PICK x, l, t, ev :
        /\ x = files["retention"] /\ l = files["learner"]
        /\ ev = files[FileOf(s.op)] /\ t = AfterReward(ev, s.arg)
  OBVIOUS
<1>2. Applied(files, s)["learner"] = l /\ Applied(files, s)["retention"] = x
  <2>1. Effect(s, ev) = ev
    BY DEF Effect
  <2> QED BY <1>1, <2>1 DEF Applied
<1>3. s.arg \in Mission /\ Tail(todo) = <<>> /\ b = TRUE
  BY DEF StepOK, MissionOps, Plan
<1>4. Follow(s, ev) = t
  BY <1>1 DEF Follow
<1>5. IsSeq(t)
  BY <1>4, FollowBrings DEF Brought, Caller
<1>6. Follow(s, ev) \o Tail(todo) = t
  BY <1>3, <1>4, <1>5, JoinEmpty
<1>7. \A i \in DOMAIN todo : todo[i].op \notin Debts
  <2>1. \A i \in DOMAIN todo : todo[i] = s
    BY <1>3, HeadRest
  <2> QED BY <2>1 DEF Debts
<1>8. \A n : Rewarding(todo, n) => n = s.arg
  BY DEF Rewarding
<1>9. PICK m, days : m = s.arg /\ days = INTERVALS_DAYS[1]
  OBVIOUS
<1>10. Rewards(t, m, days)
  BY <1>1, <1>3, <1>9, RewardSteps
<1>11. LadderOK(l, x, todo, b, vs) /\ m \in Mission
  BY <1>1, <1>3, <1>9
<1>12. LadderOK(l, x, t, TRUE, vs)
  BY <1>7, <1>8, <1>9, <1>10, <1>11, RewardLadder
<1> QED BY <1>1, <1>2, <1>3, <1>6, <1>12

LEMMA CompleteStep ==
  ASSUME NEW files, NEW todo, NEW b, NEW s, NEW vs, Stepping(files, todo, b, s, vs),
         s.op = "complete"
  PROVE  LadderOK(Applied(files, s)["learner"], Applied(files, s)["retention"],
                  Follow(s, files[FileOf(s.op)]) \o Tail(todo), TRUE, vs)
<1> USE DEF Stepping
<1>1. PICK x, l, t, t2, id, verdict, tell :
        /\ x = files["retention"] /\ l = files["learner"]
        /\ id = s.arg.id /\ verdict = s.arg.verdict /\ tell = Tell("verdict", s.arg)
        /\ t = AfterComplete(x[id], verdict) /\ t2 = t \o Tail(todo)
  OBVIOUS
<1>2. FileOf(s.op) = "retention" /\ "retention" \in File /\ "learner" \in File
  BY DEF FileOf, File
<1>3. Applied(files, s)["learner"] = l
      /\ Applied(files, s)["retention"] = [x EXCEPT ![id].status = verdict]
  <2>1. Effect(s, x) = [x EXCEPT ![id].status = verdict]
    BY <1>1 DEF Effect
  <2> QED BY <1>1, <1>2, <2>1 DEF Applied
<1>4. verdict \in {"PASSED", "FAILED"} /\ Tail(todo) = <<tell>> /\ id \in DOMAIN x
  BY <1>1 DEF StepOK, Plan
<1>5. tell.op = "tell" /\ IsVerdict(tell) /\ tell.arg.arg.id = id /\ tell.arg.arg.verdict = verdict
  BY <1>1 DEF Tell, Step, IsVerdict
<1>6. Follow(s, files[FileOf(s.op)]) = t
  BY <1>1, <1>2 DEF Follow
<1>7. IsSeq(t)
  BY <1>6, FollowBrings DEF Brought, Caller
<1>8. Continues(t, x[id], verdict)
  BY <1>1, <1>4, CompleteSteps
<1>9. Onward(t2, t, todo)
  <2>1. Onward(t \o Tail(todo), t, todo)
    BY <1>7, Elements
  <2> QED BY <1>1, <2>1
<1>10. /\ \A i \in DOMAIN t2 : (\E j \in DOMAIN t : t2[i] = t[j]) \/ t2[i] = tell
       /\ \A j \in DOMAIN t : \E i \in DOMAIN t2 : t2[i] = t[j]
  <2>1. PICK u : u = Tail(todo)
    OBVIOUS
  <2>2. \A j \in DOMAIN u : u[j] = tell
    BY <1>4, <2>1, Singleton
  <2> QED BY <1>9, <2>1, <2>2 DEF Onward
<1>17. /\ \A j \in DOMAIN todo : todo[j] = s \/ todo[j] = tell
       /\ \E j \in DOMAIN todo : todo[j] = tell
       /\ \E j \in DOMAIN todo : todo[j] = s
  <2>1. PICK u : u = Tail(todo)
    OBVIOUS
  <2>2. \A j \in DOMAIN u : u[j] = tell
    BY <1>4, <2>1, Singleton
  <2>3. 1 \in DOMAIN u
    BY <1>4, <2>1, Singleton
  <2>4. /\ \A j \in DOMAIN todo : todo[j] = s \/ \E i \in DOMAIN u : u[i] = todo[j]
        /\ \A i \in DOMAIN u : \E j \in DOMAIN todo : todo[j] = u[i]
        /\ \E j \in DOMAIN todo : todo[j] = s
    BY <2>1, HeadRest
  <2>5. \E j \in DOMAIN todo : todo[j] = u[1]
    BY <2>3, <2>4
  <2> QED BY <2>2, <2>3, <2>4, <2>5
<1>11. \E i \in DOMAIN t2 : t2[i] = tell
  <2>1. \A j \in DOMAIN todo : todo[j] = s \/ \E i \in DOMAIN t2 : t2[i] = todo[j]
    BY <1>9 DEF Onward
  <2>2. \E j \in DOMAIN todo : todo[j] = tell
    BY <1>17
  <2> QED BY <1>5, <2>1, <2>2
<1>12. /\ Completing(todo) /\ \A i \in DOMAIN todo : todo[i].op # "schedule"
       /\ \A m : ~Rewarding(todo, m)
  <2>1. /\ \E i \in DOMAIN todo : todo[i] = s
        /\ \A i \in DOMAIN todo : todo[i] = s \/ todo[i] = tell
    BY <1>17
  <2> QED BY <1>5, <2>1 DEF Completing, Rewarding
<1>13. /\ ~Completing(t2)
       /\ \E i \in DOMAIN t2 : IsVerdict(t2[i]) /\ t2[i].arg.arg.id = id
       /\ \A i \in DOMAIN t2 : IsVerdict(t2[i]) =>
            t2[i].arg.arg.id = id /\ t2[i].arg.arg.verdict = verdict
  BY <1>5, <1>8, <1>10, <1>11 DEF Continues, Completing, IsVerdict
<1>14. /\ \A i \in DOMAIN t2 : t2[i].op = "schedule" =>
            /\ t2[i].arg.status \in Open /\ SameChain(t2[i].arg, x[id])
            /\ t2[i].arg.stage = x[id].stage \/ t2[i].arg.stage = x[id].stage + 1
       /\ (verdict = "FAILED" \/ x[id].stage + 1 \in Stage) =>
            \E i \in DOMAIN t2 : t2[i].op = "schedule"
  BY <1>5, <1>8, <1>10 DEF Continues
<1>15. LadderOK(l, x, todo, b, vs)
  BY <1>1
<1>16. LadderOK(l, [x EXCEPT ![id].status = verdict], t2, TRUE, vs)
  BY <1>4, <1>12, <1>13, <1>14, <1>15, CompleteLadder
<1> QED BY <1>1, <1>3, <1>6, <1>16

(***************************************************************************)
(* The invariant behind LadderKept.                                        *)
(***************************************************************************)

LadderNow ==
  LadderOK(Now["learner"], Now["retention"], call[Cli].todo, call[Cli].begun, told.verdict)

LadderInv == TruthInv /\ PlanInv /\ (~harmed => LadderNow)

LEMMA LadderInit == Init => LadderInv
<1> SUFFICES ASSUME Init PROVE LadderInv
  OBVIOUS
<1>1. /\ \A f \in File : file[f] = Default(f)
      /\ call[Cli].todo = <<>> /\ told.verdict = {} /\ ~harmed
  BY DEF Init, Caller, Idle
<1>2. TruthInv /\ PlanInv
  BY TruthInit, PlanInit
<1>3. PICK l, x : l = Now["learner"] /\ x = Now["retention"]
  OBVIOUS
<1>4. l = [current |-> None, status |-> [m \in Mission |-> "NEW"]] /\ x = <<>>
  <2>1. call = [c \in Caller |-> Idle]
    BY DEF Init
  <2>2. \A c \in Caller, f \in File : ~Rewriting(call[c], f)
    BY <2>1, IdleCalm DEF Rewriting
  <2>3. \A f \in File : Now[f] = file[f]
    BY <1>1, <1>2, <2>2, HeldIs DEF PlanInv, CalmInv, Now
  <2> QED BY <1>1, <1>3, <2>3 DEF File, Default
<1>5. \A i \in DOMAIN <<>> : FALSE
  OBVIOUS
<1>6. l \in Learner /\ \A m \in Mission : l.status[m] = "NEW"
  BY <1>4 DEF Learner
<1>7. EventsOK(<<>>)
  <2>1. <<>> \in Seq({})
    OBVIOUS
  <2> QED BY <1>5, <2>1 DEF EventsOK, IsSeq, OneEach
<1>8. PICK none : none = <<>>
  OBVIOUS
<1>9. \A i \in DOMAIN none : FALSE
  BY <1>5, <1>8
<1>10. LadderOK(l, none, none, call[Cli].begun, {})
  BY <1>6, <1>7, <1>8, <1>9
     DEF LadderOK, Covered, Remembered, Climbed, Stand, Unowed
<1> QED BY <1>1, <1>2, <1>3, <1>4, <1>8, <1>10 DEF LadderInv, LadderNow

LEMMA TookLadder ==
  ASSUME LadderInv, ~harmed, Now = [f \in File |-> Now[f]], Took(Cli)
  PROVE  LadderOK(Now'["learner"], Now'["retention"], call'[Cli].todo, call'[Cli].begun,
                  told'.verdict)
<1>1. PICK files, todo, b, b2, s, vs :
        /\ files = Now /\ todo = call[Cli].todo /\ b = call[Cli].begun
        /\ b2 = call'[Cli].begun /\ s = Current(Cli) /\ vs = told.verdict
  OBVIOUS
<1>2. /\ IsSeq(todo) /\ todo # <<>> /\ s = Head(todo) /\ StepOK(Cli, s) /\ s.op # "tell"
      /\ s.op \in Ops
  BY <1>1, HeadOK DEF Took, LadderInv, PlanInv, CalmInv, Caller
<1>3. s.op = "complete" => s.arg.id \in DOMAIN files["retention"]
  <2>1. s.op = "complete" => FileOf(s.op) = "retention"
    BY DEF FileOf
  <2> QED BY <1>1, <2>1 DEF Took
<1>4. Stepping(files, todo, b, s, vs)
  BY <1>1, <1>2, <1>3 DEF LadderInv, PlanInv, LadderNow, Stepping
<1>5. /\ b2 = TRUE \/ (b2 = b /\ ~Rewrites(s, files[FileOf(s.op)]))
      /\ Now' = Applied(files, s) /\ told' = told
      /\ call'[Cli].todo = Follow(s, files[FileOf(s.op)]) \o Tail(todo)
  <2>1. s = Current(Cli) /\ files = Now
    BY <1>1
  <2>2. told' = told /\ (b2 = TRUE \/ (b2 = b /\ ~Rewrites(s, files[FileOf(s.op)])))
    BY <1>1 DEF Took
  <2>3. Now' = Applied(files, s)
    BY <2>1 DEF Took, Applied
  <2>4. call'[Cli].todo = Follow(s, files[FileOf(s.op)]) \o Tail(todo)
    BY <1>1 DEF Took
  <2> QED BY <2>2, <2>3, <2>4
<1>6. LadderOK(Applied(files, s)["learner"], Applied(files, s)["retention"],
               Follow(s, files[FileOf(s.op)]) \o Tail(todo), b2, vs)
  <2>1. CASE s.op \notin {"schedule", "complete", "reward"}
    BY <1>4, <1>5, <2>1, PlainStep
  <2>2. CASE s.op = "schedule"
    BY <1>4, <1>5, <2>2, ScheduleStep
  <2>3. CASE s.op = "reward"
    BY <1>4, <1>5, <2>3, RewardStep
  <2>4. CASE s.op = "complete"
    <3>1. b2 = TRUE
      BY <1>5, <2>4 DEF Rewrites
    <3> QED BY <1>4, <2>4, <3>1, CompleteStep
  <2> QED BY <2>1, <2>2, <2>3, <2>4
<1> QED BY <1>1, <1>5, <1>6

LEMMA ThreadLadder ==
  ASSUME LadderInv, ~harmed, Now = [f \in File |-> Now[f]], ByThread
  PROVE  LadderOK(Now'["learner"], Now'["retention"], call'[Cli].todo, call'[Cli].begun,
                  told'.verdict)
<1>1. PICK s : s.op \in {"due", "decide", "refresh"} /\ Changes(s)
  BY DEF ByThread
<1>2. StepOK(Cli, s)
  BY <1>1, LoopAssumption DEF StepOK, Ops, MissionOps
<1>3. PICK files, files2, todo, b, vs :
        /\ files = Now /\ files2 = Applied(files, s) /\ todo = call[Cli].todo
        /\ b = call[Cli].begun /\ vs = told.verdict
  OBVIOUS
<1>4. /\ Now' = files2 /\ call'[Cli].todo = todo /\ call'[Cli].begun = b /\ told' = told
      /\ files = [f \in File |-> files[f]]
  BY <1>1, <1>3 DEF Changes, Applied, ByThread, SamePlanAtCli
<1>5. LadderOK(files["learner"], files["retention"], todo, b, vs)
  BY <1>3 DEF LadderInv, LadderNow
<1>6. /\ Aged(files["retention"], files2["retention"]) /\ files2["learner"] \in Learner
      /\ \A m \in Mission : files2["learner"].status[m] = "PASSED" =>
           files["learner"].status[m] = "PASSED"
  BY <1>1, <1>2, <1>3, <1>4, <1>5, AppliedPlain DEF LadderOK
<1>7. Carried(todo, todo)
  BY DEF Carried
<1>8. LadderOK(files2["learner"], files2["retention"], todo, b, vs)
  BY <1>5, <1>6, <1>7, PlainLadder
<1> QED BY <1>3, <1>4, <1>8

\* A command begins, or fails before it has written anything.
LEMMA ClearedLadder ==
  ASSUME LadderInv, ~harmed, Failed(Cli) \/ Began
  PROVE  LadderOK(Now'["learner"], Now'["retention"], call'[Cli].todo, call'[Cli].begun,
                  told'.verdict)
<1>1. PICK l, x, t, b, vs, t2, b2 :
        /\ l = Now["learner"] /\ x = Now["retention"] /\ t = call[Cli].todo
        /\ b = call[Cli].begun /\ vs = told.verdict
        /\ t2 = call'[Cli].todo /\ b2 = call'[Cli].begun
  OBVIOUS
<1>2. LadderOK(l, x, t, b, vs) /\ Plan(t, b) /\ Now' = Now /\ told' = told
  BY <1>1 DEF LadderInv, LadderNow, PlanInv, Failed, Began
<1>3. PICK none : none = <<>>
  OBVIOUS
<1>4. \A i \in DOMAIN none : FALSE
  BY <1>3
<1>5. CASE Failed(Cli)
  <2>1. b = FALSE /\ t2 = none
    BY <1>1, <1>3, <1>5 DEF Failed
  <2>2. \A i \in DOMAIN t : t[i].op # "schedule" /\ (IsVerdict(t[i]) => Completing(t))
    BY <1>2, <2>1 DEF LadderOK, Unowed
  <2>3. \A m : ~Rewarding(t, m)
    BY <1>2, <2>1 DEF Plan, Rewarding
  <2>4. LadderOK(l, x, t2, b2, vs)
    BY <1>2, <1>4, <2>1, <2>2, <2>3, ClearLadder
  <2> QED BY <1>1, <1>2, <2>4
<1>6. CASE Began
  <2>1. t = none /\ Fresh(t2)
    BY <1>1, <1>3, <1>6 DEF Began
  <2>2. \A m : ~Rewarding(t, m)
    BY <1>3, <2>1 DEF Rewarding
  <2>3. t2 # <<>> /\ IsSeq(t2)
    BY <2>1 DEF Fresh
  <2>4. Head(t2).op = "complete" => Completing(t2)
    BY <2>3, TailOf DEF Completing
  <2>5. \A i \in DOMAIN t2 : t2[i].op # "schedule" /\ (IsVerdict(t2[i]) => Completing(t2))
    BY <2>1, <2>4 DEF Fresh
  <2>6. LadderOK(l, x, t2, b2, vs)
    BY <1>2, <1>4, <2>1, <2>2, <2>5, ClearLadder
  <2> QED BY <1>1, <1>2, <2>6
<1> QED BY <1>5, <1>6

LEMMA ToldLadder ==
  ASSUME LadderInv, ~harmed, Told(Cli)
  PROVE  LadderOK(Now'["learner"], Now'["retention"], call'[Cli].todo, call'[Cli].begun,
                  told'.verdict)
<1>1. PICK l, x, t, b, vs, s, b2, vs2 :
        /\ l = Now["learner"] /\ x = Now["retention"] /\ t = call[Cli].todo
        /\ b = call[Cli].begun /\ vs = told.verdict /\ s = Current(Cli)
        /\ b2 = call'[Cli].begun /\ vs2 = told'.verdict
  OBVIOUS
<1>2. LadderOK(l, x, t, b, vs) /\ Plan(t, b) /\ Now' = Now /\ call'[Cli].todo = <<>>
  BY <1>1 DEF LadderInv, LadderNow, PlanInv, Told
<1>3. IsSeq(t) /\ t # <<>> /\ s = Head(t) /\ StepOK(Cli, s) /\ s.op = "tell"
  BY <1>1, HeadOK DEF Told, Report, LadderInv, PlanInv, CalmInv, Caller
<1>4. Tail(t) = <<>>
  BY <1>2, <1>3 DEF Plan
<1>5. (\A i \in DOMAIN t : t[i] = s) /\ \E i \in DOMAIN t : t[i] = s
  BY <1>3, <1>4, HeadRest
<1>6. \A m : ~Rewarding(t, m)
  BY <1>3 DEF Rewarding
<1>7. s.arg.what \in {"evidence", "verdict"}
  BY <1>3 DEF StepOK
<1>8. told = [y \in DOMAIN told |-> told[y]] /\ DOMAIN told = {"evidence", "verdict"}
  BY DEF LadderInv, TruthInv
<1>9. /\ s.arg.what = "verdict" =>
           \A v \in vs2 : (v \in vs /\ v.id # s.arg.arg.id) \/ v = s.arg.arg
      /\ s.arg.what # "verdict" => vs2 = vs
  <2>1. CASE s.arg.what = "verdict"
    <3>1. told' = [told EXCEPT !.verdict = {v \in @ : v.id # s.arg.arg.id} \cup {s.arg.arg}]
      BY <1>1, <2>1 DEF Told, Report
    <3>2. vs2 = {v \in vs : v.id # s.arg.arg.id} \cup {s.arg.arg}
      BY <1>1, <1>8, <3>1
    <3> QED BY <2>1, <3>2
  <2>2. CASE s.arg.what = "evidence"
    <3>1. told' = [told EXCEPT !.evidence = @ \cup {s.arg.arg}]
      BY <1>1, <2>2 DEF Told, Report
    <3> QED BY <1>1, <1>8, <2>2, <3>1
  <2> QED BY <1>7, <2>1, <2>2
<1>10. LadderOK(l, x, <<>>, b2, vs2)
  BY <1>2, <1>3, <1>5, <1>6, <1>9, TellLadder
<1> QED BY <1>1, <1>2, <1>10

LEMMA LadderNext == LadderInv /\ [Next]_vars => LadderInv'
<1> SUFFICES ASSUME LadderInv, [Next]_vars PROVE LadderInv'
  OBVIOUS
<1>1. TruthInv' /\ PlanInv'
  BY TruthNext, PlanNext DEF LadderInv
<1>2. ASSUME ~harmed' PROVE LadderNow'
  <2>1. /\ ~harmed /\ Now = [f \in File |-> Now[f]]
        /\ Nothing \/ ByThread \/ Took(Cli) \/ Failed(Cli) \/ Told(Cli) \/ Began
    BY <1>2, CliSteps DEF LadderInv
  <2>2. LadderOK(Now'["learner"], Now'["retention"], call'[Cli].todo, call'[Cli].begun,
                 told'.verdict)
    <3>1. CASE Nothing
      BY <2>1, <3>1 DEF Nothing, SamePlanAtCli, LadderInv, LadderNow
    <3> QED BY <2>1, <3>1, ThreadLadder, TookLadder, ClearedLadder, ToldLadder
  <2> QED BY <2>2 DEF LadderNow
<1> QED BY <1>1, <1>2 DEF LadderInv

\* At rest nothing is being rewritten.
LEMMA RestNow ==
  ASSUME CalmInv, AtRest
  PROVE  /\ \A f \in File : Now[f] = file[f]
         /\ call[Cli].todo = <<>>
<1>1. ASSUME NEW c \in Caller PROVE call[c].at = "read" /\ call[c].todo = <<>>
  BY DEF AtRest, Busy, CalmInv, LoopInv, CallOK
<1>2. \A c \in Caller, f \in File : ~Rewriting(call[c], f)
  BY <1>1 DEF Rewriting
<1>3. Calm(file, call)
  BY DEF CalmInv, AtRest
<1> QED BY <1>1, <1>2, <1>3, HeldIs DEF Now, Caller

(***************************************************************************)
(* As long as no call was cut short and no stale copy written back, the    *)
(* retention ladder is kept at rest (retention_engine.py): what a passed   *)
(* gate covers is scheduled, nothing is forgotten before its last stage, a *)
(* stage follows the one before it, and reported verdicts stand, for any   *)
(* number of dashboard threads.                                            *)
(***************************************************************************)
THEOREM LadderKeptHolds == Spec => []LadderKept
<1>1. LadderInv => LadderKept
  <2> SUFFICES ASSUME LadderInv, AtRest PROVE LadderKept
    BY DEF LadderKept
  <2>1. /\ Now["learner"] = file["learner"] /\ Now["retention"] = file["retention"]
        /\ call[Cli].todo = <<>>
    BY RestNow DEF LadderInv, PlanInv, File
  <2>2. PICK l, x, t, vs :
          /\ l = file["learner"] /\ x = file["retention"] /\ t = call[Cli].todo
          /\ vs = told.verdict
    OBVIOUS
  <2>3. LadderOK(l, x, t, call[Cli].begun, vs) /\ \A i \in DOMAIN t : FALSE
    BY <2>1, <2>2 DEF LadderInv, LadderNow, AtRest
  <2>4. /\ \A c, m : ~Pending(t, c, m)
        /\ \A m : ~Rewarding(t, m)
        /\ \A id : ~Chased(t, id)
    BY <2>1, <2>2, <2>3 DEF Pending, Rewarding, Chased
  <2> DEFINE of(c, m) == {i \in DOMAIN x : x[i].competency = c /\ x[i].mission = m}
  <2>5. ASSUME NEW m \in Mission, l.status[m] = "PASSED", NEW k \in DOMAIN Competencies[m]
        PROVE  of(Competencies[m][k], m) # {}
    <3>1. Has(x, Competencies[m][k], m)
      BY <2>3, <2>4, <2>5 DEF LadderOK, Covered
    <3> QED BY <3>1 DEF Has
  <2>6. ASSUME NEW i \in DOMAIN x
        PROVE  \E j \in of(x[i].competency, x[i].mission) :
                  \/ x[j].status \in Open
                  \/ x[j].status = "PASSED" /\ x[j].stage + 1 \notin Stage
    BY <2>3, <2>4 DEF LadderOK, Remembered, SameChain, Good
  <2>7. ASSUME NEW i \in DOMAIN x, x[i].stage > 0
        PROVE  \E j \in of(x[i].competency, x[i].mission) : j < i /\ x[j].stage = x[i].stage - 1
    BY <2>3, <2>7 DEF LadderOK, Climbed, Climbs, SameChain
  <2>8. ASSUME NEW v \in vs PROVE v.id \in DOMAIN x /\ x[v.id].status = v.verdict
    BY <2>3, <2>4 DEF LadderOK, Stand
  <2> QED BY <2>2, <2>5, <2>6, <2>7, <2>8 DEF LadderKept
<1> QED BY <1>1, LadderInit, LadderNext, PTL DEF Spec

(***************************************************************************)
(* The learner model (ModelAgrees): what each of its fields is derived     *)
(* from, and what a write does to the field.                               *)
(***************************************************************************)

ModelFields == {"current", "level", "depth", "records", "passes", "failures", "open", "history"}
ModelOK(model) ==
  /\ DOMAIN model = ModelFields /\ model = [k \in ModelFields |-> model[k]]
  /\ model.records \in [Mission -> Nat] /\ model.passes \in [Mission -> Nat]
  /\ model.depth \in [Competency -> Nat]

\* The learner model against the files it is derived from.
OfMission(evidence, m) == {i \in DOMAIN evidence : evidence[i].mission = m}
Counted(records, evidence) ==
  \A m \in Mission : records[m] = Cardinality(OfMission(evidence, m))
Measured(depth, evidence) ==
  \A c \in Competency :
    /\ \A i \in DOMAIN evidence :
         c \in evidence[i].competencies => EvidenceLevel(evidence[i]) <= depth[c]
    /\ depth[c] # 0 => \E i \in DOMAIN evidence :
         c \in evidence[i].competencies /\ EvidenceLevel(evidence[i]) = depth[c]
Agreed(learner, model, evidence, quests, autonomy) ==
  /\ learner \in Learner /\ ModelOK(model) /\ IsSeq(evidence)
  /\ model.current = learner.current
  /\ Counted(model.records, evidence)
  /\ Measured(model.depth, evidence)
  /\ model.open = OpenQuests(quests)
  /\ model.history = autonomy
  /\ \A m \in Mission : learner.status[m] = "PASSED" => model.passes[m] > 0

\* What one field of the model becomes, by the step that writes it.
LEMMA IngestModel ==
  ASSUME NEW model, ModelOK(model), NEW r, r.mission \in Mission, NEW model2, NEW records,
         NEW depth, model2 = Ingest(model, r),
         records = [model.records EXCEPT ![r.mission] = @ + 1],
         depth = [c \in Competency |->
                    IF c \in r.competencies /\ EvidenceLevel(r) > model.depth[c]
                    THEN EvidenceLevel(r) ELSE model.depth[c]]
  PROVE  /\ ModelOK(model2) /\ model2.records = records /\ model2.depth = depth
         /\ model2.current = model.current /\ model2.passes = model.passes
         /\ model2.open = model.open /\ model2.history = model.history
<1>2. model2 = [model EXCEPT !.records = records, !.depth = depth]
  BY DEF Ingest, ModelOK, ModelFields
<1>3. /\ DOMAIN model2 = ModelFields /\ model2 = [k \in ModelFields |-> model2[k]]
      /\ model2.records = records /\ model2.depth = depth
      /\ model2.current = model.current /\ model2.passes = model.passes
      /\ model2.open = model.open /\ model2.history = model.history
  BY <1>2 DEF ModelOK, ModelFields
<1>4. EvidenceLevel(r) \in Nat
  BY DEF EvidenceLevel
<1>5. records \in [Mission -> Nat] /\ depth \in [Competency -> Nat]
  BY <1>4 DEF ModelOK
<1> QED BY <1>3, <1>5 DEF ModelOK

LEMMA GateModel ==
  ASSUME NEW model, ModelOK(model), NEW m \in Mission, NEW verdict
  PROVE  LET model2 == RecordGate(model, m, verdict) IN
         /\ ModelOK(model2) /\ model2.records = model.records /\ model2.depth = model.depth
         /\ model2.current = model.current
         /\ model2.open = model.open /\ model2.history = model.history
         /\ \A n \in Mission : model.passes[n] > 0 => model2.passes[n] > 0
         /\ verdict = "PASS" => model2.passes[m] > 0
<1>1. PICK model2, passes, failures :
        /\ model2 = RecordGate(model, m, verdict)
        /\ passes = [model.passes EXCEPT ![m] = IF verdict = "PASS" THEN @ + 1 ELSE @]
        /\ failures = [model.failures EXCEPT ![m] = IF verdict = "FAIL" THEN @ + 1 ELSE @]
  OBVIOUS
<1>2. model2 = [model EXCEPT !.passes = passes, !.failures = failures]
  BY <1>1 DEF RecordGate, ModelOK, ModelFields
<1>3. /\ DOMAIN model2 = ModelFields /\ model2 = [k \in ModelFields |-> model2[k]]
      /\ model2.records = model.records /\ model2.depth = model.depth
      /\ model2.current = model.current /\ model2.passes = passes
      /\ model2.open = model.open /\ model2.history = model.history
  BY <1>2 DEF ModelOK, ModelFields
<1>4. /\ passes \in [Mission -> Nat]
      /\ \A n \in Mission : model.passes[n] > 0 => passes[n] > 0
      /\ verdict = "PASS" => passes[m] > 0
  BY <1>1 DEF ModelOK
<1> QED BY <1>1, <1>3, <1>4 DEF ModelOK

LEMMA FocusModel ==
  ASSUME NEW model, ModelOK(model), NEW m
  PROVE  LET model2 == [model EXCEPT !.current = m] IN
         /\ ModelOK(model2) /\ model2.current = m
         /\ model2.records = model.records /\ model2.depth = model.depth
         /\ model2.passes = model.passes
         /\ model2.open = model.open /\ model2.history = model.history
BY DEF ModelOK, ModelFields

LEMMA SyncModel ==
  ASSUME NEW model, ModelOK(model), NEW open
  PROVE  LET model2 == [model EXCEPT !.open = open] IN
         /\ ModelOK(model2) /\ model2.open = open
         /\ model2.records = model.records /\ model2.depth = model.depth
         /\ model2.passes = model.passes
         /\ model2.current = model.current /\ model2.history = model.history
BY DEF ModelOK, ModelFields

\* One more piece of evidence.
LEMMA EvidenceAdded ==
  ASSUME NEW evidence, IsSeq(evidence), NEW r, r.mission \in Mission,
         NEW records \in [Mission -> Nat], NEW depth \in [Competency -> Nat],
         Counted(records, evidence), Measured(depth, evidence)
  PROVE  /\ IsSeq(Append(evidence, r))
         /\ Counted([records EXCEPT ![r.mission] = @ + 1], Append(evidence, r))
         /\ Measured([c \in Competency |-> IF c \in r.competencies /\ EvidenceLevel(r) > depth[c]
                                           THEN EvidenceLevel(r) ELSE depth[c]],
                     Append(evidence, r))
<1>1. PICK S : evidence \in Seq(S)
  BY DEF IsSeq
<1>2. PICK more, n : more = Append(evidence, r) /\ n = Len(evidence) + 1
  OBVIOUS
<1>3. /\ more \in Seq(S \cup {r}) /\ n \in Nat /\ Len(evidence) \in Nat
      /\ DOMAIN evidence = 1..Len(evidence) /\ n \notin DOMAIN evidence
      /\ DOMAIN more = DOMAIN evidence \cup {n} /\ more[n] = r
      /\ \A i \in DOMAIN evidence : more[i] = evidence[i]
  <2>1. Len(evidence) \in Nat /\ DOMAIN evidence = 1..Len(evidence)
    BY <1>1
  <2>2. more \in Seq(S \cup {r}) /\ DOMAIN more = 1..n /\ more[n] = r
        /\ \A i \in 1..Len(evidence) : more[i] = evidence[i]
    BY <1>1, <1>2, <2>1, AppendProperties
  <2> QED BY <1>2, <2>1, <2>2
<1>4. Counted([records EXCEPT ![r.mission] = @ + 1], more)
  <2> SUFFICES ASSUME NEW m \in Mission
               PROVE  [records EXCEPT ![r.mission] = @ + 1][m] = Cardinality(OfMission(more, m))
    BY DEF Counted
  <2>1. PICK T : T = OfMission(evidence, m)
    OBVIOUS
  <2>2. IsFiniteSet(T)
    <3>1. IsFiniteSet(1..Len(evidence))
      BY <1>3, FS_Interval
    <3>2. T \subseteq 1..Len(evidence)
      BY <1>3, <2>1 DEF OfMission
    <3> QED BY <3>1, <3>2, FS_Subset
  <2>3. records[m] = Cardinality(T)
    BY <2>1 DEF Counted
  <2>4. CASE m = r.mission
    <3>1. OfMission(more, m) = T \cup {n}
      BY <1>3, <2>1, <2>4 DEF OfMission
    <3>2. n \notin T
      BY <1>3, <2>1 DEF OfMission
    <3>3. Cardinality(T \cup {n}) = Cardinality(T) + 1
      BY <2>2, <3>2, FS_AddElement
    <3> QED BY <2>3, <2>4, <3>1, <3>3
  <2>5. CASE m # r.mission
    <3>1. OfMission(more, m) = T
      BY <1>3, <2>1, <2>5 DEF OfMission
    <3> QED BY <2>3, <2>5, <3>1
  <2> QED BY <2>4, <2>5
<1>5. EvidenceLevel(r) \in Nat \ {0}
  BY DEF EvidenceLevel
<1>6. PICK deeper : deeper = [c \in Competency |->
                      IF c \in r.competencies /\ EvidenceLevel(r) > depth[c]
                      THEN EvidenceLevel(r) ELSE depth[c]]
  OBVIOUS
<1>7. Measured(deeper, more)
  <2> SUFFICES ASSUME NEW c \in Competency
               PROVE  /\ \A i \in DOMAIN more :
                           c \in more[i].competencies => EvidenceLevel(more[i]) <= deeper[c]
                      /\ deeper[c] # 0 => \E i \in DOMAIN more :
                           c \in more[i].competencies /\ EvidenceLevel(more[i]) = deeper[c]
    BY DEF Measured
  <2>1. /\ \A i \in DOMAIN evidence :
             c \in evidence[i].competencies => EvidenceLevel(evidence[i]) <= depth[c]
        /\ depth[c] # 0 => \E i \in DOMAIN evidence :
             c \in evidence[i].competencies /\ EvidenceLevel(evidence[i]) = depth[c]
    BY DEF Measured
  <2>2. \A x : EvidenceLevel(x) \in Nat
    BY DEF EvidenceLevel
  <2>3. CASE c \in r.competencies /\ EvidenceLevel(r) > depth[c]
    <3>1. deeper[c] = EvidenceLevel(r) /\ depth[c] \in Nat
      BY <1>6, <2>3
    <3>2. \A i \in DOMAIN evidence :
             c \in evidence[i].competencies => EvidenceLevel(evidence[i]) <= deeper[c]
      BY <2>1, <2>2, <2>3, <3>1
    <3> QED BY <1>3, <1>5, <2>3, <3>1, <3>2
  <2>4. CASE ~(c \in r.competencies /\ EvidenceLevel(r) > depth[c])
    <3>1. deeper[c] = depth[c] /\ depth[c] \in Nat
      BY <1>6, <2>4
    <3>2. c \in r.competencies => EvidenceLevel(r) <= depth[c]
      BY <1>5, <2>4, <3>1
    <3> QED BY <1>3, <2>1, <3>1, <3>2
  <2> QED BY <2>3, <2>4
<1> QED BY <1>2, <1>3, <1>4, <1>6, <1>7 DEF IsSeq

(***************************************************************************)
(* In the middle of a command the model may lag behind by one step of the  *)
(* plan. Paid gives the files as they will be once that step is done: it   *)
(* is those that agree.                                                    *)
(***************************************************************************)

\* A step that owes the learner model, or the log, what was written before it.
Owing(s) ==
  \/ s.op \in {"session", "focus", "ingest", "sync", "log"}
  \/ s.op = "tally" /\ s.arg.verdict = "PASS"
Owed(todo) == IF Head(todo).op = "session" THEN Head(Tail(todo)) ELSE Head(todo)
Settled(todo) == todo = <<>> \/ ~Owing(Head(todo))

\* The files once that step is done.
Paid(files, todo) == IF Settled(todo) THEN files ELSE Applied(files, Owed(todo))

Books == {"learner", "model", "evidence", "quests", "autonomy"}
Agree(files) ==
  Agreed(files["learner"], files["model"], files["evidence"], files["quests"], files["autonomy"])

AllClear(t) == \A i \in DOMAIN t : ~Owing(t[i])

LEMMA LinksClear == ASSUME NEW t, NEW b, Links(t, b) PROVE AllClear(t)
BY DEF Links, AllClear, Owing

LEMMA OneClear == ASSUME NEW s, ~Owing(s) PROVE AllClear(<<s>>)
BY Singleton DEF AllClear

LEMMA NoneClear == AllClear(<<>>)
<1>1. DOMAIN <<>> = {}
  OBVIOUS
<1> QED BY <1>1 DEF AllClear

LEMMA FollowClear ==
  ASSUME NEW s, StepOK(Cli, s), s.op \notin {"tell", "judge", "ratchet", "open", "close"}, NEW x
  PROVE  AllClear(Follow(s, x))
<1>1. ASSUME NEW op \in {"reward", "ratchet", "due", "refresh"}, NEW arg,
             Follow(s, x) = <<Step(op, arg)>>
      PROVE  AllClear(Follow(s, x))
  <2>1. ~Owing(Step(op, arg))
    BY StepIs DEF Owing
  <2> QED BY <1>1, <2>1, OneClear
<1>2. CASE s.op = "tally"
  <2>1. \/ Follow(s, x) = <<Step("reward", s.arg.mission)>>
        \/ Follow(s, x) = <<Step("ratchet", {"repeated_gate_failure"})>>
        \/ Follow(s, x) = <<>>
    BY <1>2 DEF Follow, AfterTally
  <2> QED BY <1>1, <2>1, NoneClear
<1>3. CASE s.op = "reward"
  <2>1. Links(AfterReward(x, s.arg), TRUE)
    BY <1>3, RewardLinks DEF StepOK, MissionOps
  <2>2. Follow(s, x) = AfterReward(x, s.arg)
    BY <1>3 DEF Follow
  <2> QED BY <2>1, <2>2, LinksClear
<1>4. CASE s.op = "complete"
  <2>1. PICK e, verdict, t : e = x[s.arg.id] /\ verdict = s.arg.verdict /\ t = Follow(s, x)
    OBVIOUS
  <2>2. verdict \in {"PASSED", "FAILED"} /\ t = AfterComplete(e, verdict)
    BY <1>4, <2>1 DEF StepOK, Follow
  <2>3. Continues(t, e, verdict)
    BY <2>2, CompleteSteps
  <2>4. AllClear(t)
    BY <2>3 DEF Continues, AllClear, Owing
  <2> QED BY <2>1, <2>4
<1>5. CASE s.op \in {"decide", "due", "schedule"}
  <2>1. \/ Follow(s, x) = <<>>
        \/ \E op \in {"due", "refresh"} : \E arg : Follow(s, x) = <<Step(op, arg)>>
    BY <1>5 DEF Follow, AfterDecide
  <2> QED BY <1>1, <2>1, NoneClear
<1>6. CASE s.op \notin {"tally", "reward", "complete", "decide", "due", "schedule"}
  <2>1. Follow(s, x) = <<>>
    BY <1>6 DEF Follow
  <2> QED BY <2>1, NoneClear
<1> QED BY <1>2, <1>3, <1>4, <1>5, <1>6

LEMMA TailClear ==
  ASSUME NEW todo, todo # <<>>, NEW b, Plan(todo, b), NEW s, s = Head(todo), s.op \in Ops,
         s.op \notin {"begin", "session", "add", "pass"}
  PROVE  AllClear(Tail(todo))
<1> DEFINE rest == Tail(todo)
<1>1. \A what, a : ~Owing(Tell(what, a))
  BY DEF Tell, Step, Owing
<1>2. ~Owing(Again)
  BY AgainIs DEF Owing
<1>3. \A a : AllClear(<<Tell("verdict", a)>>) /\ AllClear(<<Again, Tell("verdict", a)>>)
  <2> TAKE a
  <2>1. \A i \in DOMAIN <<Again, Tell("verdict", a)>> :
          <<Again, Tell("verdict", a)>>[i] \in {Again, Tell("verdict", a)}
    BY TupleElements
  <2> QED BY <1>1, <1>2, <2>1, OneClear DEF AllClear
<1>4. CASE Links(rest, b)
  BY <1>4, LinksClear
<1>5. CASE rest = <<>>
  BY <1>5, NoneClear
<1>6. CASE \E a : rest \in {<<Tell("verdict", a)>>, <<Again, Tell("verdict", a)>>}
  BY <1>3, <1>6
<1>7. CASE \E r : rest = <<Tell("evidence", r)>>
  BY <1>1, <1>7, OneClear
<1>8. CASE \E v \in {"PARTIAL", "FAIL"} : rest = <<Tallied(s.arg, v)>>
  <2>1. PICK v \in {"PARTIAL", "FAIL"} : rest = <<Tallied(s.arg, v)>>
    BY <1>8
  <2>2. ~Owing(Tallied(s.arg, v))
    BY TalliedIs DEF Owing
  <2> QED BY <2>1, <2>2, OneClear
<1> HIDE DEF rest
<1>9. \/ Links(rest, b) \/ rest = <<>>
      \/ \E a : rest \in {<<Tell("verdict", a)>>, <<Again, Tell("verdict", a)>>}
      \/ \E r : rest = <<Tell("evidence", r)>>
      \/ \E v \in {"PARTIAL", "FAIL"} : rest = <<Tallied(s.arg, v)>>
  <2>1. CASE s.op = "ingest"
    BY <2>1 DEF Plan, rest
  <2>2. CASE s.op = "glance"
    BY <2>2 DEF Plan, rest
  <2>3. CASE s.op \in {"complete", "schedule", "refresh"}
    BY <2>3 DEF Plan, rest
  <2>4. CASE s.op \in {"ratchet", "log"}
    BY <2>4 DEF Plan, rest
  <2>5. CASE s.op \in {"focus", "tell", "judge", "tally", "reward", "due", "decide", "open",
                       "close", "sync"}
    BY <2>5 DEF Plan, rest
  <2> QED BY <2>1, <2>2, <2>3, <2>4, <2>5 DEF Ops, MissionOps
<1> QED BY <1>4, <1>5, <1>6, <1>7, <1>8, <1>9 DEF rest

LEMMA ClearSettled ==
  ASSUME NEW todo, IsSeq(todo), todo # <<>>, NEW t, IsSeq(t), AllClear(t), AllClear(Tail(todo))
  PROVE  Settled(t \o Tail(todo))
<1>1. PICK w : w = t \o Tail(todo)
  OBVIOUS
<1>2. Onward(t \o Tail(todo), t, todo)
  BY Elements
<1>3. Onward(w, t, todo)
  BY <1>1, <1>2
<1>4. IsSeq(w) /\ AllClear(w)
  BY <1>3 DEF Onward, AllClear
<1>5. w # <<>> => 1 \in DOMAIN w /\ Head(w) = w[1]
  BY <1>4, TailOf
<1> QED BY <1>1, <1>4, <1>5 DEF Settled, AllClear

LEMMA AppliedIs ==
  ASSUME NEW files, files = [f \in File |-> files[f]], NEW s, FileOf(s.op) \in File
  PROVE  /\ Applied(files, s) = [f \in File |-> Applied(files, s)[f]]
         /\ \A f \in File : Applied(files, s)[f] = IF f = FileOf(s.op) THEN Effect(s, files[f])
                                                   ELSE files[f]
BY DEF Applied

LEMMA AgreeSame ==
  ASSUME NEW files, NEW files2, \A f \in Books : files2[f] = files[f], Agree(files)
  PROVE  Agree(files2)
BY DEF Agree, Books

\* Files outside the books leave them in agreement, paid or not.
LEMMA PaidSame ==
  ASSUME NEW files, files = [f \in File |-> files[f]], NEW files2,
         files2 = [f \in File |-> files2[f]], \A f \in Books : files2[f] = files[f],
         NEW todo, ~Settled(todo) => FileOf(Owed(todo).op) \in Books, Agree(Paid(files, todo))
  PROVE  Agree(Paid(files2, todo))
<1>1. CASE Settled(todo)
  BY <1>1, AgreeSame DEF Paid
<1>2. CASE ~Settled(todo)
  <2>1. PICK s : s = Owed(todo)
    OBVIOUS
  <2>2. FileOf(s.op) \in Books /\ Books \subseteq File
    BY <1>2, <2>1 DEF Books, File
  <2>3. \A f \in Books : Applied(files2, s)[f] = Applied(files, s)[f]
    BY <2>2, AppliedIs
  <2> QED BY <1>2, <2>1, <2>3, AgreeSame DEF Paid
<1> QED BY <1>1, <1>2

\* What is owed goes to the model or the log.
LEMMA OwedIs ==
  ASSUME NEW todo, todo # <<>>, NEW b, Plan(todo, b), ~Settled(todo)
  PROVE  /\ FileOf(Owed(todo).op) \in Books
         /\ Head(todo).op = "session" => \E m \in Mission : Tail(todo) = <<Step("focus", m)>>
                                                            /\ Owed(todo) = Step("focus", m)
<1>1. CASE Head(todo).op = "session"
  <2>1. PICK m \in Mission : Tail(todo) = <<Step("focus", m)>>
    BY <1>1 DEF Plan
  <2>2. Owed(todo) = Step("focus", m)
    BY <1>1, <2>1, Tuple1 DEF Owed
  <2>3. FileOf(Step("focus", m).op) = "model"
    BY StepIs DEF FileOf
  <2> QED BY <2>1, <2>2, <2>3 DEF Books
<1>2. CASE Head(todo).op # "session"
  BY <1>2 DEF Settled, Owing, Owed, FileOf, Books
<1> QED BY <1>1, <1>2

(***************************************************************************)
(* The step of a command, by its kind: it pays what is owed, owes what it  *)
(* has written, or writes none of the files the model is derived from.     *)
(***************************************************************************)

\* A step of the command line, while the books agree.
Posting(files, todo, b, s) ==
  /\ files = [f \in File |-> files[f]]
  /\ IsSeq(todo) /\ todo # <<>> /\ Plan(todo, b)
  /\ s = Head(todo) /\ StepOK(Cli, s) /\ s.op # "tell"
  /\ Agree(Paid(files, todo))

LEMMA PostingIs ==
  ASSUME NEW files, NEW todo, NEW b, NEW s, Posting(files, todo, b, s)
  PROVE  /\ s.op \in Ops /\ FileOf(s.op) \in File /\ Books \subseteq File
         /\ Applied(files, s) = [f \in File |-> Applied(files, s)[f]]
         /\ \A f \in File : Applied(files, s)[f] = IF f = FileOf(s.op) THEN Effect(s, files[f])
                                                   ELSE files[f]
         /\ ~Owing(s) => Agree(files)
<1>1. s.op \in Ops
  BY DEF Posting, StepOK
<1>2. FileOf(s.op) \in File
  BY <1>1, FileOfOp
<1>3. /\ Applied(files, s) = [f \in File |-> Applied(files, s)[f]]
      /\ \A f \in File : Applied(files, s)[f] = IF f = FileOf(s.op) THEN Effect(s, files[f])
                                                ELSE files[f]
  BY <1>2, AppliedIs DEF Posting
<1>4. ~Owing(s) => Agree(files)
  BY DEF Posting, Paid, Settled
<1> QED BY <1>1, <1>2, <1>3, <1>4 DEF Books, File

\* What was owed is paid.
LEMMA PayPost ==
  ASSUME NEW files, NEW todo, NEW b, NEW s, Posting(files, todo, b, s), NEW x,
         Owing(s), s.op # "session"
  PROVE  Agree(Paid(Applied(files, s), Follow(s, x) \o Tail(todo)))
<1>1. s.op \in {"focus", "ingest", "sync", "log", "tally"} /\ s.op \in Ops
  BY PostingIs DEF Owing
<1>2. AllClear(Follow(s, x)) /\ AllClear(Tail(todo)) /\ IsSeq(Follow(s, x))
  BY <1>1, FollowClear, TailClear, FollowBrings DEF Posting, Brought, Caller
<1>3. Settled(Follow(s, x) \o Tail(todo))
  BY <1>2, ClearSettled DEF Posting
<1>4. Paid(files, todo) = Applied(files, s)
  BY DEF Posting, Paid, Settled, Owed
<1> QED BY <1>3, <1>4 DEF Posting, Paid

LEMMA SessionPost ==
  ASSUME NEW files, NEW todo, NEW b, NEW s, Posting(files, todo, b, s), NEW x, s.op = "session"
  PROVE  Agree(Paid(Applied(files, s), Follow(s, x) \o Tail(todo)))
<1>1. ~Settled(todo)
  BY DEF Posting, Settled, Owing
<1>2. PICK m \in Mission : Tail(todo) = <<Step("focus", m)>> /\ Owed(todo) = Step("focus", m)
  BY <1>1, OwedIs DEF Posting
<1>3. PICK p, t2 : p = Step("focus", m) /\ t2 = Follow(s, x) \o Tail(todo)
  OBVIOUS
<1>4. t2 = <<p>>
  <2>1. Follow(s, x) = <<>>
    BY DEF Follow
  <2> QED BY <1>2, <1>3, <2>1, JoinEmpty, Singleton
<1>5. p.op = "focus" /\ Head(t2) = p /\ t2 # <<>>
  BY <1>3, <1>4, Tuple1, StepIs
<1>6. FileOf(p.op) = "model" /\ FileOf(s.op) = "sessions"
  BY <1>5 DEF FileOf
<1>7. ~Settled(t2) /\ Owed(t2) = p
  BY <1>5 DEF Settled, Owing, Owed
<1>8. Agree(Applied(files, p))
  BY <1>1, <1>2, <1>3 DEF Posting, Paid
<1>9. PICK files2 : files2 = Applied(files, s)
  OBVIOUS
<1>10. /\ files2 = [f \in File |-> files2[f]]
       /\ \A f \in File : f # "sessions" => files2[f] = files[f]
  BY <1>6, <1>9, PostingIs
<1>11. \A f \in Books : Applied(files2, p)[f] = Applied(files, p)[f]
  BY <1>6, <1>10, AppliedIs DEF Posting, Books, File
<1>12. Agree(Applied(files2, p))
  BY <1>8, <1>11, AgreeSame
<1> QED BY <1>3, <1>7, <1>9, <1>12 DEF Paid

\* A step that owes nothing, and leaves nothing owed.
LEMMA NeutralPost ==
  ASSUME NEW files, NEW todo, NEW b, NEW s, Posting(files, todo, b, s), NEW x,
         x = files[FileOf(s.op)], ~Owing(s),
         s.op \notin {"begin", "add", "pass", "ratchet", "open", "close"}
  PROVE  Agree(Paid(Applied(files, s), Follow(s, x) \o Tail(todo)))
<1>1. PICK files2, t2 : files2 = Applied(files, s) /\ t2 = Follow(s, x) \o Tail(todo)
  OBVIOUS
<1>2. /\ s.op \in Ops /\ Books \subseteq File /\ Agree(files)
      /\ \A f \in File : files2[f] = IF f = FileOf(s.op) THEN Effect(s, files[f]) ELSE files[f]
  BY <1>1, PostingIs
<1>3. Settled(t2)
  <2>1. AllClear(Tail(todo)) /\ IsSeq(Follow(s, x))
    BY <1>2, TailClear, FollowBrings DEF Posting, Owing, Brought, Caller
  <2>2. CASE s.op # "judge"
    <3>1. AllClear(Follow(s, x))
      BY <2>2, FollowClear DEF Posting
    <3> QED BY <1>1, <2>1, <3>1, ClearSettled DEF Posting
  <2>3. CASE s.op = "judge"
    <3>1. PICK v, first : /\ v = Evaluate(x, s.arg)
                          /\ first = Step(IF v = "PASS" THEN "pass" ELSE "glance", s.arg)
      OBVIOUS
    <3>2. Follow(s, x) = <<first, Tallied(s.arg, v)>>
      BY <2>3, <3>1 DEF Follow, AfterJudge, Tallied
    <3>3. Tail(todo) = <<>>
      BY <2>3 DEF Posting, Plan
    <3>4. t2 = <<first, Tallied(s.arg, v)>>
      BY <1>1, <2>1, <3>2, <3>3, JoinEmpty
    <3>5. Head(t2) = first /\ first.op \in {"pass", "glance"}
      BY <3>1, <3>4, Tuple2, StepIs
    <3> QED BY <3>5 DEF Settled, Owing
  <2> QED BY <2>2, <2>3
<1>4. Agree(files2)
  <2>1. CASE s.op = "tally"
    <3>1. FileOf(s.op) = "model" /\ s.arg.mission \in Mission
      BY <2>1 DEF FileOf, Posting, StepOK
    <3>2. Effect(s, files["model"]) = RecordGate(files["model"], s.arg.mission, s.arg.verdict)
      BY <2>1 DEF Effect
    <3>3. PICK model, model2 : model = files["model"] /\ model2 = files2["model"]
      OBVIOUS
    <3>4. ModelOK(model) /\ model2 = RecordGate(model, s.arg.mission, s.arg.verdict)
      BY <1>2, <3>1, <3>2, <3>3 DEF Agree, Agreed, Books
    <3>5. /\ ModelOK(model2) /\ model2.records = model.records /\ model2.depth = model.depth
          /\ model2.current = model.current
          /\ model2.open = model.open /\ model2.history = model.history
          /\ \A n \in Mission : model.passes[n] > 0 => model2.passes[n] > 0
      BY <3>1, <3>4, GateModel
    <3>6. \A f \in Books \ {"model"} : files2[f] = files[f]
      BY <1>2, <3>1
    <3> QED BY <1>2, <3>3, <3>5, <3>6 DEF Agree, Agreed, Books
  <2>2. CASE s.op \in {"schedule", "due", "complete"}
    <3>1. FileOf(s.op) = "retention"
      BY <2>2 DEF FileOf
    <3> QED BY <1>2, <3>1, AgreeSame DEF Books
  <2>3. CASE s.op \in {"glance", "judge", "reward", "decide", "refresh"}
    <3>1. \A y : Effect(s, y) = y
      BY <2>3 DEF Effect
    <3> QED BY <1>2, <3>1, AgreeSame DEF Books
  <2> QED BY <1>2, <2>1, <2>2, <2>3 DEF Ops, MissionOps, Owing, Posting
<1> QED BY <1>1, <1>3, <1>4 DEF Paid

\* The files after a step and what it leaves owed.
Booked(files, s, p) ==
  [f \in File |-> IF f = FileOf(s.op) THEN Effect(s, files[f])
                  ELSE IF f = FileOf(p.op) THEN Effect(p, files[f]) ELSE files[f]]

LEMMA DebtPost ==
  ASSUME NEW files, NEW todo, NEW b, NEW s, Posting(files, todo, b, s), NEW x,
         NEW p, FileOf(p.op) # FileOf(s.op), FileOf(p.op) \in File,
         NEW t2, t2 = Follow(s, x) \o Tail(todo), ~Settled(t2), Owed(t2) = p,
         Agree(Booked(files, s, p))
  PROVE  Agree(Paid(Applied(files, s), Follow(s, x) \o Tail(todo)))
<1>1. Paid(Applied(files, s), t2) = Applied(Applied(files, s), p)
  BY DEF Paid
<1>2. PICK files2 : files2 = Applied(files, s)
  OBVIOUS
<1>3. files2 = [f \in File |-> files2[f]] /\ Books \subseteq File
      /\ \A f \in File : files2[f] = IF f = FileOf(s.op) THEN Effect(s, files[f]) ELSE files[f]
  BY <1>2, PostingIs
<1>4. \A f \in File : Applied(files2, p)[f] = IF f = FileOf(p.op) THEN Effect(p, files2[f])
                                              ELSE files2[f]
  BY <1>3, AppliedIs
<1>5. \A f \in Books : Applied(files2, p)[f] = Booked(files, s, p)[f]
  BY <1>3, <1>4 DEF Booked
<1> QED BY <1>1, <1>2, <1>5, AgreeSame

LEMMA BeginPost ==
  ASSUME NEW files, NEW todo, NEW b, NEW s, Posting(files, todo, b, s), NEW x, s.op = "begin"
  PROVE  Agree(Paid(Applied(files, s), Follow(s, x) \o Tail(todo)))
<1>1. PICK m, q, p, t2 :
        /\ m = s.arg /\ q = Step("session", None) /\ p = Step("focus", m)
        /\ t2 = Follow(s, x) \o Tail(todo)
  OBVIOUS
<1>2. m \in Mission /\ Tail(todo) = <<q, p>>
  BY <1>1 DEF Posting, StepOK, MissionOps, Plan
<1>3. t2 = <<q, p>>
  <2>1. Follow(s, x) = <<>>
    BY DEF Follow
  <2> QED BY <1>1, <1>2, <2>1, TupleElements, JoinEmpty
<1>4. /\ Head(t2) = q /\ Tail(t2) = <<p>> /\ t2 # <<>> /\ Head(<<p>>) = p
      /\ q.op = "session" /\ p.op = "focus" /\ p.arg = m
  <2>1. Head(t2) = q /\ Tail(t2) = <<p>> /\ t2 # <<>>
    BY <1>3, Tuple2
  <2>2. Head(<<p>>) = p
    BY Tuple1
  <2> QED BY <1>1, <2>1, <2>2, StepIs
<1>5. ~Settled(t2) /\ Owed(t2) = p
  BY <1>4 DEF Settled, Owing, Owed
<1>6. FileOf(s.op) = "learner" /\ FileOf(p.op) = "model"
  BY <1>4 DEF FileOf
<1>7. PICK l, model, l2, model2, books :
        /\ l = files["learner"] /\ model = files["model"] /\ books = Booked(files, s, p)
        /\ l2 = [l EXCEPT !.current = m, !.status[m] = "IN_PROGRESS"]
        /\ model2 = [model EXCEPT !.current = m]
  OBVIOUS
<1>8. /\ books["learner"] = l2 /\ books["model"] = model2
      /\ books["evidence"] = files["evidence"] /\ books["quests"] = files["quests"]
      /\ books["autonomy"] = files["autonomy"]
  <2>1. Effect(s, l) = l2
    BY <1>1, <1>7 DEF Effect
  <2>2. Effect(p, model) = model2
    BY <1>4, <1>7 DEF Effect
  <2> QED BY <1>6, <1>7, <2>1, <2>2 DEF Booked, File
<1>9. /\ Agree(files) /\ l \in Learner /\ ModelOK(model)
  <2>1. Agree(files)
    BY PostingIs DEF Owing
  <2> QED BY <1>7, <2>1 DEF Agree, Agreed
<1>10. /\ l2 \in Learner /\ l2.current = m
       /\ \A n \in Mission : l2.status[n] = "PASSED" => l.status[n] = "PASSED"
  <2>1. l2 = [current |-> m, status |-> [l.status EXCEPT ![m] = "IN_PROGRESS"]]
    BY <1>7, <1>9 DEF Learner
  <2>2. l.status \in [Mission -> {"NEW", "IN_PROGRESS", "PASSED"}]
    BY <1>9 DEF Learner
  <2> QED BY <1>2, <2>1, <2>2 DEF Learner
<1>11. /\ ModelOK(model2) /\ model2.current = m
       /\ model2.records = model.records /\ model2.depth = model.depth
       /\ model2.passes = model.passes
       /\ model2.open = model.open /\ model2.history = model.history
  BY <1>7, <1>9, FocusModel
<1>12. Agree(books)
  BY <1>7, <1>8, <1>9, <1>10, <1>11 DEF Agree, Agreed
<1>13. Agree(Booked(files, s, p)) /\ FileOf(p.op) \in File /\ FileOf(p.op) # FileOf(s.op)
  BY <1>6, <1>7, <1>12 DEF File
<1> QED BY <1>1, <1>5, <1>13, DebtPost

LEMMA AddPost ==
  ASSUME NEW files, NEW todo, NEW b, NEW s, Posting(files, todo, b, s), NEW x, s.op = "add"
  PROVE  Agree(Paid(Applied(files, s), Follow(s, x) \o Tail(todo)))
<1>1. PICK r, p, q, t2 :
        /\ r = s.arg /\ p = Step("ingest", r) /\ q = Tell("evidence", r)
        /\ t2 = Follow(s, x) \o Tail(todo)
  OBVIOUS
<1>2. r \in Records /\ Tail(todo) = <<p, q>>
  BY <1>1 DEF Posting, Plan
<1>3. t2 = <<p, q>>
  <2>1. Follow(s, x) = <<>>
    BY DEF Follow
  <2> QED BY <1>1, <1>2, <2>1, TupleElements, JoinEmpty
<1>4. Head(t2) = p /\ t2 # <<>> /\ p.op = "ingest" /\ p.arg = r
  BY <1>1, <1>3, Tuple2, StepIs
<1>5. ~Settled(t2) /\ Owed(t2) = p
  BY <1>4 DEF Settled, Owing, Owed
<1>6. FileOf(s.op) = "evidence" /\ FileOf(p.op) = "model"
  BY <1>4 DEF FileOf
<1>7. PICK ev, model, ev2, model2, books :
        /\ ev = files["evidence"] /\ model = files["model"] /\ books = Booked(files, s, p)
        /\ ev2 = Append(ev, r) /\ model2 = Ingest(model, r)
  OBVIOUS
<1>8. /\ books["evidence"] = ev2 /\ books["model"] = model2
      /\ books["learner"] = files["learner"] /\ books["quests"] = files["quests"]
      /\ books["autonomy"] = files["autonomy"]
  <2>1. Effect(s, ev) = ev2
    BY <1>1, <1>7 DEF Effect
  <2>2. Effect(p, model) = model2
    BY <1>4, <1>7 DEF Effect
  <2> QED BY <1>6, <1>7, <2>1, <2>2 DEF Booked, File
<1>9. /\ Agree(files) /\ IsSeq(ev) /\ ModelOK(model)
      /\ Counted(model.records, ev) /\ Measured(model.depth, ev)
  <2>1. Agree(files)
    BY PostingIs DEF Owing
  <2> QED BY <1>7, <2>1 DEF Agree, Agreed
<1>10. r.mission \in Mission
  BY <1>2, LoopAssumption DEF Record
<1>11. PICK records, depth : /\ records = [model.records EXCEPT ![r.mission] = @ + 1]
                             /\ depth = [c \in Competency |->
                                  IF c \in r.competencies /\ EvidenceLevel(r) > model.depth[c]
                                  THEN EvidenceLevel(r) ELSE model.depth[c]]
  OBVIOUS
<1>12. IsSeq(ev2) /\ Counted(records, ev2) /\ Measured(depth, ev2)
  <2>1. model.records \in [Mission -> Nat] /\ model.depth \in [Competency -> Nat]
    BY <1>9 DEF ModelOK
  <2> QED BY <1>7, <1>9, <1>10, <1>11, <2>1, EvidenceAdded
<1>13. /\ ModelOK(model2) /\ model2.records = records /\ model2.depth = depth
       /\ model2.current = model.current /\ model2.passes = model.passes
       /\ model2.open = model.open /\ model2.history = model.history
  BY <1>7, <1>9, <1>10, <1>11, IngestModel
<1>14. Agree(books)
  BY <1>7, <1>8, <1>9, <1>12, <1>13 DEF Agree, Agreed
<1>15. Agree(Booked(files, s, p)) /\ FileOf(p.op) \in File /\ FileOf(p.op) # FileOf(s.op)
  BY <1>6, <1>7, <1>14 DEF File
<1> QED BY <1>1, <1>5, <1>15, DebtPost

LEMMA PassPost ==
  ASSUME NEW files, NEW todo, NEW b, NEW s, Posting(files, todo, b, s), NEW x, s.op = "pass"
  PROVE  Agree(Paid(Applied(files, s), Follow(s, x) \o Tail(todo)))
<1>1. PICK m, p, t2 : m = s.arg /\ p = Tallied(m, "PASS") /\ t2 = Follow(s, x) \o Tail(todo)
  OBVIOUS
<1>2. m \in Mission /\ Tail(todo) = <<p>>
  BY <1>1 DEF Posting, StepOK, MissionOps, Plan
<1>3. t2 = <<p>>
  <2>1. Follow(s, x) = <<>>
    BY DEF Follow
  <2> QED BY <1>1, <1>2, <2>1, Singleton, JoinEmpty
<1>4. /\ Head(t2) = p /\ t2 # <<>>
      /\ p.op = "tally" /\ p.arg.mission = m /\ p.arg.verdict = "PASS"
  <2>1. Head(t2) = p /\ t2 # <<>>
    BY <1>3, Tuple1
  <2> QED BY <1>1, <2>1, TalliedIs
<1>5. ~Settled(t2) /\ Owed(t2) = p
  BY <1>4 DEF Settled, Owing, Owed
<1>6. FileOf(s.op) = "learner" /\ FileOf(p.op) = "model"
  BY <1>4 DEF FileOf
<1>7. PICK l, model, l2, model2, books :
        /\ l = files["learner"] /\ model = files["model"] /\ books = Booked(files, s, p)
        /\ l2 = [l EXCEPT !.status[m] = "PASSED"] /\ model2 = RecordGate(model, m, "PASS")
  OBVIOUS
<1>8. /\ books["learner"] = l2 /\ books["model"] = model2
      /\ books["evidence"] = files["evidence"] /\ books["quests"] = files["quests"]
      /\ books["autonomy"] = files["autonomy"]
  <2>1. Effect(s, l) = l2
    BY <1>1, <1>7 DEF Effect
  <2>2. Effect(p, model) = model2
    BY <1>4, <1>7 DEF Effect
  <2> QED BY <1>6, <1>7, <2>1, <2>2 DEF Booked, File
<1>9. /\ Agree(files) /\ l \in Learner /\ ModelOK(model)
  <2>1. Agree(files)
    BY PostingIs DEF Owing
  <2> QED BY <1>7, <2>1 DEF Agree, Agreed
<1>10. /\ l2 \in Learner /\ l2.current = l.current
       /\ \A n \in Mission : l2.status[n] = "PASSED" => l.status[n] = "PASSED" \/ n = m
  <2>1. l2 = [current |-> l.current, status |-> [l.status EXCEPT ![m] = "PASSED"]]
    BY <1>7, <1>9 DEF Learner
  <2>2. /\ l.status \in [Mission -> {"NEW", "IN_PROGRESS", "PASSED"}]
        /\ l.current \in Mission \cup {None}
    BY <1>9 DEF Learner
  <2> QED BY <1>2, <2>1, <2>2 DEF Learner
<1>11. /\ ModelOK(model2) /\ model2.records = model.records /\ model2.depth = model.depth
       /\ model2.current = model.current
       /\ model2.open = model.open /\ model2.history = model.history
       /\ \A n \in Mission : model.passes[n] > 0 => model2.passes[n] > 0
       /\ model2.passes[m] > 0
  BY <1>2, <1>7, <1>9, GateModel
<1>12. Agree(books)
  BY <1>7, <1>8, <1>9, <1>10, <1>11 DEF Agree, Agreed
<1>13. Agree(Booked(files, s, p)) /\ FileOf(p.op) \in File /\ FileOf(p.op) # FileOf(s.op)
  BY <1>6, <1>7, <1>12 DEF File
<1> QED BY <1>1, <1>5, <1>13, DebtPost

LEMMA QuestPost ==
  ASSUME NEW files, NEW todo, NEW b, NEW s, Posting(files, todo, b, s), NEW x,
         x = files[FileOf(s.op)], s.op \in {"open", "close"}
  PROVE  Agree(Paid(Applied(files, s), Follow(s, x) \o Tail(todo)))
<1>0. FileOf(s.op) = "quests"
  BY DEF FileOf
<1>1. PICK quests2, p, t2 :
        /\ quests2 = Effect(s, files["quests"]) /\ p = Step("sync", OpenQuests(quests2))
        /\ t2 = Follow(s, x) \o Tail(todo)
  OBVIOUS
<1>3. t2 = <<p>>
  <2>1. Follow(s, x) = <<p>>
    BY <1>0, <1>1 DEF Follow
  <2>2. Tail(todo) = <<>>
    BY DEF Posting, Plan
  <2> QED BY <1>1, <2>1, <2>2, Singleton, JoinEmpty
<1>4. Head(t2) = p /\ t2 # <<>> /\ p.op = "sync" /\ p.arg = OpenQuests(quests2)
  BY <1>1, <1>3, Tuple1, StepIs
<1>5. ~Settled(t2) /\ Owed(t2) = p
  BY <1>4 DEF Settled, Owing, Owed
<1>6. FileOf(p.op) = "model"
  BY <1>4 DEF FileOf
<1>7. PICK model, model2, books :
        /\ model = files["model"] /\ books = Booked(files, s, p)
        /\ model2 = [model EXCEPT !.open = OpenQuests(quests2)]
  OBVIOUS
<1>8. /\ books["quests"] = quests2 /\ books["model"] = model2
      /\ books["evidence"] = files["evidence"] /\ books["learner"] = files["learner"]
      /\ books["autonomy"] = files["autonomy"]
  <2>2. Effect(p, model) = model2
    BY <1>4, <1>7 DEF Effect
  <2> QED BY <1>0, <1>1, <1>6, <1>7, <2>2 DEF Booked, File
<1>9. Agree(files) /\ ModelOK(model)
  <2>1. Agree(files)
    BY PostingIs DEF Owing
  <2> QED BY <1>7, <2>1 DEF Agree, Agreed
<1>11. /\ ModelOK(model2) /\ model2.open = OpenQuests(quests2)
       /\ model2.records = model.records /\ model2.depth = model.depth
       /\ model2.passes = model.passes
       /\ model2.current = model.current /\ model2.history = model.history
  BY <1>7, <1>9, SyncModel
<1>12. Agree(books)
  BY <1>7, <1>8, <1>9, <1>11 DEF Agree, Agreed
<1>13. Agree(Booked(files, s, p)) /\ FileOf(p.op) \in File /\ FileOf(p.op) # FileOf(s.op)
  BY <1>0, <1>6, <1>7, <1>12 DEF File
<1> QED BY <1>1, <1>5, <1>13, DebtPost

LEMMA RatchetPost ==
  ASSUME NEW files, NEW todo, NEW b, NEW s, Posting(files, todo, b, s), NEW x, s.op = "ratchet"
  PROVE  Agree(Paid(Applied(files, s), Follow(s, x) \o Tail(todo)))
<1>1. PICK p, t2 : p = Step("log", None) /\ t2 = Follow(s, x) \o Tail(todo)
  OBVIOUS
<1>3. Head(t2) = p /\ t2 # <<>> /\ p.op = "log"
  <2>1. Follow(s, x) = <<p>>
    BY <1>1 DEF Follow
  <2>2. IsSeq(Tail(todo))
    BY TailOf DEF Posting
  <2> QED BY <1>1, <2>1, <2>2, Push, StepIs
<1>5. ~Settled(t2) /\ Owed(t2) = p
  BY <1>3 DEF Settled, Owing, Owed
<1>6. FileOf(s.op) = "model" /\ FileOf(p.op) = "autonomy"
  BY <1>3 DEF FileOf
<1>7. PICK model, model2, books :
        /\ model = files["model"] /\ books = Booked(files, s, p)
        /\ model2 = [model EXCEPT !.level = Ratchet(@, s.arg), !.history = @ + 1]
  OBVIOUS
<1>8. /\ books["autonomy"] = files["autonomy"] + 1 /\ books["model"] = model2
      /\ books["evidence"] = files["evidence"] /\ books["learner"] = files["learner"]
      /\ books["quests"] = files["quests"]
  <2>1. Effect(s, model) = model2
    BY <1>7 DEF Effect
  <2>2. Effect(p, files["autonomy"]) = files["autonomy"] + 1
    BY <1>3 DEF Effect
  <2> QED BY <1>6, <1>7, <2>1, <2>2 DEF Booked, File
<1>9. Agree(files) /\ ModelOK(model)
  <2>1. Agree(files)
    BY PostingIs DEF Owing
  <2> QED BY <1>7, <2>1 DEF Agree, Agreed
<1>11. /\ ModelOK(model2) /\ model2.history = model.history + 1
       /\ model2.records = model.records /\ model2.depth = model.depth
       /\ model2.passes = model.passes
       /\ model2.open = model.open /\ model2.current = model.current
  <2>1. PICK level : level = Ratchet(model.level, s.arg)
    OBVIOUS
  <2>2. model2 = [model EXCEPT !.level = level, !.history = model.history + 1]
    BY <1>7, <1>9, <2>1 DEF ModelOK, ModelFields
  <2>3. ModelOK(model)
    BY <1>9
  <2> QED BY <2>2, <2>3 DEF ModelOK, ModelFields
<1>12. Agree(books)
  BY <1>7, <1>8, <1>9, <1>11 DEF Agree, Agreed
<1>13. Agree(Booked(files, s, p)) /\ FileOf(p.op) \in File /\ FileOf(p.op) # FileOf(s.op)
  BY <1>6, <1>7, <1>12 DEF File
<1> QED BY <1>1, <1>5, <1>13, DebtPost

(***************************************************************************)
(* The invariant behind ModelAgrees.                                       *)
(***************************************************************************)

\* Paid once more, with the effects that can be owed: none of them depends on
\* the day, so that the files it gives change only with the plan and the files.
Payment(s, x) ==
  CASE s.op = "focus"  -> [x EXCEPT !.current = s.arg]
    [] s.op = "ingest" -> Ingest(x, s.arg)
    [] s.op = "tally"  -> RecordGate(x, s.arg.mission, s.arg.verdict)
    [] s.op = "sync"   -> [x EXCEPT !.open = s.arg]
    [] OTHER           -> x + 1
Cleared(files, todo) ==
  IF Settled(todo) THEN files
  ELSE [files EXCEPT ![FileOf(Owed(todo).op)] = Payment(Owed(todo), files[FileOf(Owed(todo).op)])]

LEMMA ClearedIs ==
  ASSUME NEW files, NEW todo, NEW b, Plan(todo, b)
  PROVE  Cleared(files, todo) = Paid(files, todo)
<1>1. CASE Settled(todo)
  BY <1>1 DEF Cleared, Paid
<1>2. CASE ~Settled(todo)
  <2>1. PICK s : s = Owed(todo)
    OBVIOUS
  <2>2. s.op \in {"focus", "ingest", "sync", "log", "tally"}
    <3>1. todo # <<>>
      BY <1>2 DEF Settled
    <3>2. CASE Head(todo).op = "session"
      <4>1. PICK m : s = Step("focus", m)
        BY <1>2, <2>1, <3>1, <3>2, OwedIs
      <4> QED BY <4>1, StepIs
    <3>3. CASE Head(todo).op # "session"
      BY <1>2, <2>1, <3>1, <3>3 DEF Settled, Owing, Owed
    <3> QED BY <3>2, <3>3
  <2>3. \A x : Effect(s, x) = Payment(s, x)
    BY <2>2 DEF Effect, Payment
  <2> QED BY <1>2, <2>1, <2>3 DEF Cleared, Paid, Applied
<1> QED BY <1>1, <1>2

AgreeNow == Agree(Cleared(Now, call[Cli].todo))

AgreeInv == PlanInv /\ (~harmed => AgreeNow)

LEMMA AgreeInit == Init => AgreeInv
<1> SUFFICES ASSUME Init PROVE AgreeInv
  OBVIOUS
<1>1. file = [f \in File |-> Default(f)] /\ call[Cli].todo = <<>> /\ ~harmed
  BY DEF Init, Caller, Idle
<1>2. PlanInv
  BY PlanInit
<1>3. \A f \in File : Now[f] = Default(f)
  <2>1. call = [c \in Caller |-> Idle]
    BY DEF Init
  <2>2. \A c \in Caller, f \in File : ~Rewriting(call[c], f)
    BY <2>1, IdleCalm DEF Rewriting
  <2>3. \A f \in File : Now[f] = file[f]
    BY <1>1, <1>2, <2>2, HeldIs DEF PlanInv, CalmInv, Now
  <2> QED BY <1>1, <2>3
<1>4. PICK learner, model, none :
        /\ learner = Now["learner"] /\ model = Now["model"] /\ none = <<>>
  OBVIOUS
<1>5. /\ learner = [current |-> None, status |-> [m \in Mission |-> "NEW"]]
      /\ model = [current |-> None, level |-> 1, depth |-> [c \in Competency |-> 0],
                  records |-> [m \in Mission |-> 0], passes |-> [m \in Mission |-> 0],
                  failures |-> [m \in Mission |-> 0], open |-> {}, history |-> 0]
      /\ Now["evidence"] = none /\ Now["quests"] = none /\ Now["autonomy"] = 0
  BY <1>3, <1>4 DEF File, Default
<1>6. IsSeq(none) /\ \A i \in DOMAIN none : FALSE
  <2>1. <<>> \in Seq({}) /\ \A i \in DOMAIN <<>> : FALSE
    OBVIOUS
  <2> QED BY <1>4, <2>1 DEF IsSeq
<1>7. /\ learner \in Learner /\ learner.current = None
      /\ \A m \in Mission : learner.status[m] = "NEW"
  BY <1>5 DEF Learner
<1>8. PICK zero, depth : /\ zero = [m \in Mission |-> 0] /\ depth = [c \in Competency |-> 0]
  OBVIOUS
<1>9. /\ ModelOK(model) /\ model.current = None /\ model.open = {} /\ model.history = 0
      /\ model.records = zero /\ model.depth = depth
  BY <1>5, <1>8 DEF ModelOK, ModelFields
<1>10. Counted(zero, none)
  <2>1. \A m \in Mission : OfMission(none, m) = {}
    BY <1>6 DEF OfMission
  <2> QED BY <1>8, <2>1, FS_EmptySet DEF Counted
<1>11. Measured(depth, none)
  BY <1>6, <1>8 DEF Measured
<1>12. OpenQuests(none) = {}
  BY <1>6 DEF OpenQuests
<1>13. Agree(Now)
  BY <1>4, <1>5, <1>6, <1>7, <1>9, <1>10, <1>11, <1>12 DEF Agree, Agreed
<1>14. AgreeNow
  BY <1>1, <1>13 DEF AgreeNow, Cleared, Settled
<1> QED BY <1>2, <1>14 DEF AgreeInv

LEMMA AgreePaid == AgreeInv /\ ~harmed => Agree(Paid(Now, call[Cli].todo))
<1> SUFFICES ASSUME AgreeInv, ~harmed PROVE Agree(Paid(Now, call[Cli].todo))
  OBVIOUS
<1>1. PICK files, todo, b : files = Now /\ todo = call[Cli].todo /\ b = call[Cli].begun
  OBVIOUS
<1>2. Agree(Cleared(files, todo)) /\ Plan(todo, b)
  BY <1>1 DEF AgreeInv, AgreeNow, PlanInv
<1> QED BY <1>1, <1>2, ClearedIs

LEMMA TookAgree ==
  ASSUME AgreeInv, ~harmed, Now = [f \in File |-> Now[f]], Took(Cli)
  PROVE  Agree(Paid(Now', call'[Cli].todo))
<1>1. PICK files, todo, b, s, x :
        /\ files = Now /\ todo = call[Cli].todo /\ b = call[Cli].begun /\ s = Current(Cli)
        /\ x = files[FileOf(s.op)]
  OBVIOUS
<1>2. /\ IsSeq(todo) /\ todo # <<>> /\ s = Head(todo) /\ StepOK(Cli, s) /\ s.op # "tell"
      /\ s.op \in Ops
  BY <1>1, HeadOK DEF Took, AgreeInv, PlanInv, CalmInv, Caller
<1>3. Posting(files, todo, b, s)
  BY <1>1, <1>2, AgreePaid DEF AgreeInv, PlanInv, Posting
<1>4. Now' = Applied(files, s) /\ call'[Cli].todo = Follow(s, x) \o Tail(todo)
  <2>1. s = Current(Cli) /\ files = Now
    BY <1>1
  <2>2. Now' = Applied(files, s)
    BY <2>1 DEF Took, Applied
  <2>3. call'[Cli].todo = Follow(s, x) \o Tail(todo)
    BY <1>1 DEF Took
  <2> QED BY <2>2, <2>3
<1>5. Agree(Paid(Applied(files, s), Follow(s, x) \o Tail(todo)))
  <2>1. CASE s.op = "session"
    BY <1>3, <2>1, SessionPost
  <2>2. CASE s.op \in {"open", "close"}
    BY <1>1, <1>3, <2>2, QuestPost
  <2>3. CASE s.op = "begin"
    BY <1>3, <2>3, BeginPost
  <2>4. CASE s.op = "add"
    BY <1>3, <2>4, AddPost
  <2>5. CASE s.op = "pass"
    BY <1>3, <2>5, PassPost
  <2>6. CASE s.op = "ratchet"
    BY <1>3, <2>6, RatchetPost
  <2>7. CASE Owing(s) /\ s.op # "session"
    BY <1>3, <2>7, PayPost
  <2>8. CASE ~Owing(s) /\ s.op \notin {"begin", "add", "pass", "ratchet", "open", "close"}
    BY <1>1, <1>3, <2>8, NeutralPost
  <2> QED BY <2>1, <2>2, <2>3, <2>4, <2>5, <2>6, <2>7, <2>8
<1> QED BY <1>4, <1>5

LEMMA ThreadAgree ==
  ASSUME AgreeInv, ~harmed, Now = [f \in File |-> Now[f]], ByThread
  PROVE  Agree(Paid(Now', call'[Cli].todo))
<1>1. PICK s : s.op \in {"due", "decide", "refresh"} /\ Changes(s)
  BY DEF ByThread
<1>2. PICK files, files2, todo, b :
        /\ files = Now /\ files2 = Applied(files, s) /\ todo = call[Cli].todo
        /\ b = call[Cli].begun
  OBVIOUS
<1>3. /\ Now' = files2 /\ call'[Cli].todo = todo
      /\ files = [f \in File |-> files[f]] /\ Agree(Paid(files, todo)) /\ Plan(todo, b)
  BY <1>1, <1>2, AgreePaid DEF Changes, Applied, ByThread, SamePlanAtCli, AgreeInv, PlanInv
<1>4. FileOf(s.op) \in File
  BY <1>1 DEF FileOf, File
<1>5. /\ files2 = [f \in File |-> files2[f]]
      /\ \A f \in File : files2[f] = IF f = FileOf(s.op) THEN Effect(s, files[f]) ELSE files[f]
  BY <1>2, <1>3, <1>4, AppliedIs
<1>6. \A f \in Books : files2[f] = files[f]
  <2>1. CASE s.op = "due"
    <3>1. FileOf(s.op) = "retention"
      BY <2>1 DEF FileOf
    <3> QED BY <1>5, <3>1 DEF Books, File
  <2>2. CASE s.op \in {"decide", "refresh"}
    <3>1. \A y : Effect(s, y) = y
      BY <2>2 DEF Effect
    <3> QED BY <1>5, <3>1 DEF Books, File
  <2> QED BY <1>1, <2>1, <2>2
<1>7. ~Settled(todo) => FileOf(Owed(todo).op) \in Books
  BY <1>3, OwedIs DEF Settled
<1>8. Agree(Paid(files2, todo))
  BY <1>3, <1>5, <1>6, <1>7, PaidSame
<1> QED BY <1>3, <1>8

\* A command begins, fails before it has written anything, or reports.
LEMMA ClearedAgree ==
  ASSUME AgreeInv, ~harmed, Failed(Cli) \/ Began \/ Told(Cli)
  PROVE  Agree(Paid(Now', call'[Cli].todo))
<1>1. PICK todo, b, todo2 :
        /\ todo = call[Cli].todo /\ b = call[Cli].begun /\ todo2 = call'[Cli].todo
  OBVIOUS
<1>2. Agree(Paid(Now, todo)) /\ Plan(todo, b) /\ Now' = Now
  BY <1>1, AgreePaid DEF AgreeInv, PlanInv, Failed, Began, Told
<1>3. Settled(todo)
  <2>1. CASE Failed(Cli)
    <3>1. b = FALSE
      BY <1>1, <2>1 DEF Failed
    <3> QED BY <1>2, <3>1 DEF Plan, Settled, Owing
  <2>2. CASE Began
    BY <1>1, <2>2 DEF Began, Settled
  <2>3. CASE Told(Cli)
    <3>1. Head(todo).op = "tell"
      BY <1>1, <2>3 DEF Told, Report, Current
    <3> QED BY <3>1 DEF Settled, Owing
  <2> QED BY <2>1, <2>2, <2>3
<1>4. Settled(todo2)
  <2>1. CASE Failed(Cli) \/ Told(Cli)
    BY <1>1, <2>1 DEF Failed, Told, Settled
  <2>2. CASE Began
    <3>1. Fresh(todo2)
      BY <1>1, <2>2 DEF Began
    <3> QED BY <3>1 DEF Fresh, Settled, Owing
  <2> QED BY <2>1, <2>2
<1> QED BY <1>1, <1>2, <1>3, <1>4 DEF Paid

LEMMA AgreeNext == AgreeInv /\ [Next]_vars => AgreeInv'
<1> SUFFICES ASSUME AgreeInv, [Next]_vars PROVE AgreeInv'
  OBVIOUS
<1>1. PlanInv'
  BY PlanNext DEF AgreeInv
<1>2. ASSUME ~harmed' PROVE AgreeNow'
  <2>1. /\ ~harmed /\ Now = [f \in File |-> Now[f]]
        /\ Nothing \/ ByThread \/ Took(Cli) \/ Failed(Cli) \/ Told(Cli) \/ Began
    BY <1>2, CliSteps DEF AgreeInv
  <2>2. Agree(Paid(Now', call'[Cli].todo))
    <3>1. CASE Nothing
      BY <2>1, <3>1, AgreePaid DEF Nothing, SamePlanAtCli
    <3> QED BY <2>1, <3>1, ThreadAgree, TookAgree, ClearedAgree
  <2>3. PICK files, todo, b : files = Now' /\ todo = call'[Cli].todo /\ b = call'[Cli].begun
    OBVIOUS
  <2>4. Agree(Paid(files, todo)) /\ Plan(todo, b)
    BY <1>1, <1>2, <2>2, <2>3 DEF PlanInv
  <2>5. Agree(Cleared(files, todo))
    BY <2>4, ClearedIs
  <2> QED BY <2>3, <2>5 DEF AgreeNow
<1> QED BY <1>1, <1>2 DEF AgreeInv

(***************************************************************************)
(* Under the same condition the learner model agrees at rest with the      *)
(* files it is derived from (learner_model.py:9): the mission it is at,    *)
(* the records and the depth of evidence, the open quests, the autonomy    *)
(* log and the passed gates.                                               *)
(***************************************************************************)
THEOREM ModelAgreesHolds == Spec => []ModelAgrees
<1>1. AgreeInv => ModelAgrees
  <2> SUFFICES ASSUME AgreeInv, AtRest PROVE ModelAgrees
    BY DEF ModelAgrees
  <2>1. /\ \A f \in File : Now[f] = file[f]
        /\ call[Cli].todo = <<>>
    BY RestNow DEF AgreeInv, PlanInv
  <2>2. PICK learner, model, evidence, quests, autonomy :
          /\ learner = file["learner"] /\ model = file["model"] /\ evidence = file["evidence"]
          /\ quests = file["quests"] /\ autonomy = file["autonomy"]
    OBVIOUS
  <2>3. Agree(Now)
    BY <2>1 DEF AgreeInv, AgreeNow, AtRest, Cleared, Settled
  <2>4. Agreed(learner, model, evidence, quests, autonomy)
    BY <2>1, <2>2, <2>3 DEF Agree, File
  <2> DEFINE of(m) == {i \in DOMAIN evidence : evidence[i].mission = m}
             for(c) == {i \in DOMAIN evidence : c \in evidence[i].competencies}
  <2>5. /\ model.current = learner.current /\ model.open = OpenQuests(quests)
        /\ model.history = autonomy
        /\ \A m \in Mission : learner.status[m] = "PASSED" => model.passes[m] > 0
    BY <2>4 DEF Agreed
  <2>6. \A m \in Mission : model.records[m] = Cardinality(of(m))
    BY <2>4 DEF Agreed, Counted, OfMission
  <2>7. ASSUME NEW c \in Competency
        PROVE  /\ \A i \in for(c) : EvidenceLevel(evidence[i]) <= model.depth[c]
               /\ model.depth[c] # 0 => \E i \in for(c) : EvidenceLevel(evidence[i]) = model.depth[c]
    BY <2>4 DEF Agreed, Measured
  <2> QED BY <2>2, <2>5, <2>6, <2>7 DEF ModelAgrees
<1> QED BY <1>1, AgreeInit, AgreeNext, PTL DEF Spec
=============================================================================
