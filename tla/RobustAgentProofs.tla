------------------------- MODULE RobustAgentProofs -------------------------
(***************************************************************************)
(* Proofs about the agent: its types, and that effects are honest, for any *)
(* keys, bounds and number of runs, under direct use and under the ladder. *)
(*                                                                         *)
(* Honest is not inductive: that a completed key is in the ledger needs    *)
(* that a proposal being assimilated is there, and that an entry needs a   *)
(* grant needs that a post is only executed with one and that nobody waits *)
(* for a grant there already is. Sound says that of one agent and one      *)
(* ledger; the invariant says it of the run and of every checkpoint, which *)
(* is what a run may become.                                               *)
(*                                                                         *)
(* That a task is told the truth rests on where the agent of a rung can    *)
(* be: OnScript relates its node, its turns and the tools that answered,   *)
(* and Entries is what it has posted there.                                *)
(***************************************************************************)
EXTENDS RobustAgent, SequenceTheorems, TLAPS

Tool == {"done", "none", "malformed", "lookup", "unknown_sku", "post"}
Node == DOMAIN ALLOWED_TRANSITIONS \cup TERMINALS

AgentState ==
  [node : Node, model_turn : Nat, max : Nat \ {0}, pending : Proposal \cup {None},
   last : {None, "price", "entry"}, tools : Seq(Tool), approval : Approval,
   completed : SUBSET Key]

Deciding == {"validate", "approve", "execute", "assimilate"}

Sound(a, entries) ==
  /\ a \in AgentState /\ entries \in Seq(Key)
  /\ a.node \in Deciding => a.pending \in Proposal
  /\ Honest(a, entries)
  /\ a.node = "execute" /\ a.pending.tool = "post" => a.approval = "granted"
  /\ a.node = "approve" => a.approval # "granted"
  /\ a.node = "assimilate" /\ a.pending.key # None =>
       \E i \in DOMAIN entries : entries[i] = a.pending.key

Checkpoint == [agent : AgentState, ledger : Seq(Key)]

AgentInv ==
  /\ Sound(agent, ledger)
  /\ saved \subseteq Checkpoint
  /\ \A c \in saved : Sound(c.agent, c.ledger)

-----------------------------------------------------------------------------
(* The nodes                                                               *)

LEMMA NodeType == Node = {"start", "decide", "validate", "approve", "execute", "assimilate",
                          "complete", "denied", "failed", "loop_exhausted"}
BY DEF Node, ALLOWED_TRANSITIONS, TERMINALS

LEMMA ProposalType ==
  ASSUME NEW p \in Proposal
  PROVE  /\ p.tool \in Tool /\ p.key \in Key \cup {None}
         /\ p.tool = "post" <=> p.key # None
BY AgentAssumption DEF Proposal, Tool

\* A new agent has done nothing.
LEMMA InitialSound ==
  ASSUME NEW max \in Nat \ {0}
  PROVE  Sound(initial_state(max), <<>>)
<1>1. initial_state(max) \in AgentState
  BY NodeType DEF initial_state, AgentState, Approval
<1>2. Honest(initial_state(max), <<>>)
  BY DEF Honest, initial_state
<1> QED BY <1>1, <1>2 DEF Sound, initial_state, Deciding

\* Moving to a node that asks for nothing keeps what Sound says of the rest.
LEMMA DecideSound ==
  ASSUME NEW a, NEW e, Sound(a, e), a.node = "decide", NEW p \in Proposal
  PROVE  Sound(Decide(a, p), e)
<1>1. CASE a.model_turn >= a.max
  BY <1>1, NodeType DEF Decide, apply_transition, Sound, AgentState, Honest, Deciding
<1>2. CASE ~(a.model_turn >= a.max)
  <2> DEFINE b == Decided(a, p)
  <2>1. b = [a EXCEPT !.pending = p, !.model_turn = a.model_turn + 1, !.node = b.node]
    BY DEF Sound, AgentState, Decided
  <2>2. b.node \in {"complete", "failed", "validate"}
    BY DEF Sound, AgentState, Decided
  <2>3. b \in AgentState
    <3>1. a \in AgentState /\ a.model_turn + 1 \in Nat /\ b.node \in Node
      BY <2>2, NodeType DEF Sound, AgentState
    <3> HIDE DEF b
    <3> QED BY <2>1, <3>1 DEF AgentState
  <2>4. b.completed = a.completed /\ b.approval = a.approval /\ b.pending = p
    BY DEF Sound, AgentState, Decided
  <2> HIDE DEF b
  <2> QED BY <1>2, <2>2, <2>3, <2>4 DEF Decide, Sound, Honest, b
<1> QED BY <1>1, <1>2

LEMMA ValidateSound ==
  ASSUME NEW a, NEW e, Sound(a, e), a.node = "validate"
  PROVE  Sound(Validate(a), e)
<1> DEFINE b == Validate(a)
<1>1. /\ b.node \in {"failed", "approve", "execute"} /\ b \in AgentState
      /\ b.node = "approve" => a.approval # "granted"
      /\ b.node = "execute" /\ a.pending.tool = "post" => a.approval = "granted"
  BY NodeType DEF Validate, apply_transition, requires_approval, Sound, AgentState, Approval
<1>2. /\ b.completed = a.completed /\ b.approval = a.approval /\ b.pending = a.pending
  BY DEF Validate, apply_transition, Sound, AgentState
<1>3. a.pending \in Proposal
  BY DEF Sound, Deciding
<1> HIDE DEF b
<1> QED BY <1>1, <1>2, <1>3 DEF Sound, Honest, b

LEMMA ApproveSound ==
  ASSUME NEW a, NEW e, Sound(a, e), a.node = "approve", NEW decision
  PROVE  Sound(Approve(a, decision), e)
<1>1. e = <<>> /\ a.completed = {} /\ a.pending \in Proposal
  <2>1. a.approval # "granted"
    BY DEF Sound
  <2>2. e = <<>>
    BY <2>1 DEF Sound, Honest
  <2> QED BY <2>2 DEF Sound, Honest, Deciding
<1>2. CASE decision \notin {"granted", "denied"}
  BY <1>2 DEF Approve
<1>3. CASE decision \in {"granted", "denied"}
  <2> DEFINE b == Approve(a, decision)
  <2>1. /\ b \in AgentState
        /\ b.node \in {"execute", "denied"}
        /\ b.node = "execute" => b.approval = "granted"
        /\ b.pending = a.pending /\ b.completed = a.completed
    BY <1>3, NodeType DEF Approve, apply_transition, Sound, AgentState, Approval
  <2> HIDE DEF b
  <2>2. Honest(b, e)
    BY <1>1, <2>1 DEF Honest
  <2> QED BY <1>1, <2>1, <2>2 DEF Sound, b
<1> QED BY <1>2, <1>3

LEMMA AssimilateSound ==
  ASSUME NEW a, NEW e, Sound(a, e), a.node = "assimilate"
  PROVE  Sound(Assimilate(a), e)
<1> DEFINE b == Assimilate(a)
<1>1. a.pending \in Proposal /\ a.pending.tool \in Tool /\ a.pending.key \in Key \cup {None}
  BY ProposalType DEF Sound, Deciding
<1>2. /\ b.node = "decide" /\ b.approval = a.approval
      /\ b.completed = IF a.pending.key = None THEN a.completed
                       ELSE a.completed \cup {a.pending.key}
  BY DEF Assimilate, apply_transition, Sound, AgentState
<1>3. b \in AgentState
  <2>1. Append(a.tools, a.pending.tool) \in Seq(Tool)
    BY <1>1 DEF Sound, AgentState
  <2>2. (IF a.pending.key = None THEN a.completed ELSE a.completed \cup {a.pending.key})
          \in SUBSET Key
    BY <1>1 DEF Sound, AgentState
  <2> QED BY <2>1, <2>2, NodeType DEF Assimilate, apply_transition, Sound, AgentState
<1> HIDE DEF b
<1>4. Honest(b, e)
  <2>1. b.completed \subseteq {e[i] : i \in DOMAIN e}
    BY <1>2 DEF Sound, Honest
  <2>2. \A i \in DOMAIN e : e[i] \in b.completed
    <3> SUFFICES ASSUME NEW i \in DOMAIN e PROVE e[i] \in b.completed
      OBVIOUS
    <3>1. CASE e[i] \in a.completed
      BY <1>2, <3>1
    <3>2. CASE a.pending.key = e[i]
      <4>1. e[i] # None
        BY AgentAssumption, ElementOfSeq DEF Sound
      <4> QED BY <1>2, <3>2, <4>1
    <3> QED BY <3>1, <3>2 DEF Sound, Honest
  <2> QED BY <1>2, <2>1, <2>2 DEF Sound, Honest
<1> QED BY <1>2, <1>3, <1>4 DEF Sound, b, Deciding

\* An effect: what a post appends to the ledger is there once, was granted,
\* and is what is assimilated next.
LEMMA ExecuteSound ==
  ASSUME AgentInv, agent.node = "execute",
         NEW e, e = IF Appends(agent) THEN Append(ledger, agent.pending.key) ELSE ledger
  PROVE  Sound(Execute(agent), e)
<1> DEFINE b == Execute(agent)
           key == agent.pending.key
<1>1. /\ agent \in AgentState /\ ledger \in Seq(Key) /\ agent.pending \in Proposal
      /\ agent.completed \subseteq Key
  BY DEF AgentInv, Sound, Deciding, AgentState
<1>2. /\ b \in AgentState
      /\ b.node \in {"assimilate", "failed"}
      /\ b.pending = agent.pending /\ b.completed = agent.completed /\ b.approval = agent.approval
      /\ agent.pending.tool # "unknown_sku" => b.node = "assimilate"
  BY <1>1, NodeType DEF Execute, apply_transition, Output, AgentState
<1> HIDE DEF b
<1>3. \A i \in DOMAIN ledger : ledger[i] \in agent.completed
  BY DEF AgentInv, Sound, Honest
<1>4. CASE Appends(agent)
  <2>1. key \in Key /\ agent.pending.tool = "post" /\ agent.approval = "granted"
    BY <1>1, <1>4, ProposalType DEF Appends, AgentInv, Sound
  <2>2. /\ e \in Seq(Key) /\ Len(e) = Len(ledger) + 1 /\ e[Len(e)] = key
        /\ DOMAIN e = 1 .. Len(e) /\ DOMAIN ledger = 1 .. Len(ledger) /\ Len(ledger) \in Nat
        /\ \A i \in DOMAIN ledger : e[i] = ledger[i]
    BY <1>1, <1>4, <2>1
  <2>3. \A i \in DOMAIN e : i = Len(e) \/ i \in DOMAIN ledger
    BY <2>2
  <2>4. \A i \in DOMAIN ledger : ledger[i] # key
    BY <1>4 DEF Appends, Posted
  <2>5. \A i, j \in DOMAIN e : e[i] = e[j] => i = j
    <3>1. \A i, j \in DOMAIN ledger : ledger[i] = ledger[j] => i = j
      BY DEF AgentInv, Sound, Honest
    <3> QED BY <2>2, <2>3, <2>4, <3>1
  <2>6. b.completed \subseteq {e[i] : i \in DOMAIN e}
    <3>1. agent.completed \subseteq {ledger[i] : i \in DOMAIN ledger}
      BY DEF AgentInv, Sound, Honest
    <3>2. \A i \in DOMAIN ledger : i \in DOMAIN e
      BY <2>2
    <3>3. {ledger[i] : i \in DOMAIN ledger} \subseteq {e[i] : i \in DOMAIN e}
      BY <2>2, <3>2
    <3> QED BY <1>2, <3>1, <3>3
  <2>7. b.node = "assimilate" /\ b.pending.key = key
    BY <1>2, <2>1
  <2>8. \A i \in DOMAIN e : e[i] \in b.completed \/ e[i] = key
    BY <1>2, <1>3, <2>2, <2>3
  <2>9. Len(e) \in DOMAIN e
    BY <2>2
  <2>10. Honest(b, e)
    BY <1>2, <2>1, <2>5, <2>6, <2>7, <2>8 DEF Honest
  <2> QED BY <1>1, <1>2, <2>2, <2>7, <2>9, <2>10 DEF Sound, b
<1>5. CASE ~Appends(agent)
  <2>1. e = ledger
    BY <1>5
  <2>2. Honest(b, ledger)
    BY <1>2, <1>3 DEF AgentInv, Sound, Honest
  <2>3. key # None => \E i \in DOMAIN ledger : ledger[i] = key
    <3>1. SUFFICES ASSUME key # None PROVE \E i \in DOMAIN ledger : ledger[i] = key
      OBVIOUS
    <3>2. agent.pending.tool = "post"
      BY <1>1, <3>1, ProposalType
    <3>3. CASE Skips(agent)
      BY <3>3 DEF Skips, AgentInv, Sound, Honest
    <3>4. CASE Posted(key) # {}
      BY <3>4 DEF Posted
    <3> QED BY <1>5, <3>2, <3>3, <3>4 DEF Appends
  <2> QED BY <1>1, <1>2, <2>1, <2>2, <2>3 DEF Sound, b
<1> QED BY <1>4, <1>5

-----------------------------------------------------------------------------
(* Steps                                                                   *)

LEMMA NewSound ==
  ASSUME AgentInv, NEW p, p \in Proposal \/ agent.node # "decide",
         agent.node \notin TERMINALS,
         NEW e, e = IF agent.node = "execute" /\ Appends(agent)
                    THEN Append(ledger, agent.pending.key) ELSE ledger
  PROVE  Sound(Handler(agent, p), e)
<1>1. Sound(agent, ledger) /\ agent.node \in Node
  BY DEF AgentInv, Sound, AgentState
<1>2. CASE agent.node = "start"
  BY <1>1, <1>2, NodeType
     DEF Handler, apply_transition, Sound, Honest, AgentState, Deciding
<1>3. CASE agent.node = "decide"
  BY <1>1, <1>3, DecideSound DEF Handler
<1>4. CASE agent.node = "validate"
  BY <1>1, <1>4, ValidateSound DEF Handler
<1>5. CASE agent.node = "approve"
  BY <1>1, <1>5, ApproveSound DEF Handler
<1>6. CASE agent.node = "execute"
  BY <1>6, ExecuteSound DEF Handler
<1>7. CASE agent.node = "assimilate"
  BY <1>1, <1>7, AssimilateSound DEF Handler
<1> QED BY <1>1, <1>2, <1>3, <1>4, <1>5, <1>6, <1>7, NodeType DEF TERMINALS

\* A checkpoint is as sound as the run that leaves it.
LEMMA LeaveSound ==
  ASSUME AgentInv, NEW how, NEW a, NEW e, Sound(a, e), Leave(how, a, e)
  PROVE  /\ saved' \subseteq Checkpoint
         /\ \A c \in saved' : Sound(c.agent, c.ledger)
<1> DEFINE new == [agent |-> a, ledger |-> e]
<1>1. new \in Checkpoint /\ Sound(new.agent, new.ledger)
  BY DEF Checkpoint, Sound
<1>2. saved' = saved \cup {new}
  BY DEF Leave
<1> HIDE DEF new
<1> QED BY <1>1, <1>2 DEF AgentInv

LEMMA DriveSound ==
  ASSUME AgentInv, NEW p, p \in Proposal \/ agent.node # "decide", Drive(p)
  PROVE  AgentInv'
<1>1. CASE AbortRun
  BY <1>1, LeaveSound DEF AbortRun, AgentInv
<1>2. CASE Interrupt
  BY <1>2, LeaveSound DEF Interrupt, AgentInv
<1>3. CASE Visit(p)
  <2> DEFINE a == Handler(agent, p)
             e == IF agent.node = "execute" /\ Appends(agent)
                  THEN Append(ledger, agent.pending.key) ELSE ledger
  <2>1. agent' = a /\ ledger' = e /\ (saved' = saved \/ Leave("interrupted", a, e))
    BY <1>3 DEF Visit
  <2>2. Sound(a, e)
    BY <1>3, NewSound DEF Visit, Running
  <2> HIDE DEF a, e
  <2> QED BY <2>1, <2>2, LeaveSound DEF AgentInv
<1> QED BY <1>1, <1>2, <1>3 DEF Drive

LEMMA BeginSound ==
  ASSUME AgentInv, NEW a, NEW e, Sound(a, e), NEW approval, NEW when, NEW ceiling,
         Begin(a, e, approval, when, ceiling), saved' = saved
  PROVE  AgentInv'
BY DEF Begin, AgentInv

LEMMA NextSound ==
  ASSUME AgentInv, [Next]_vars
  PROVE  AgentInv'
<1>1. CASE Steps
  BY <1>1, DriveSound DEF Steps, Choices
<1>2. CASE Calls
  <2>1. ASSUME NEW approval \in Approval, NEW when \in When, NEW ceiling \in SafetyCeiling,
               NEW max \in MaxSteps, run_workflow(max, approval, when, ceiling)
        PROVE  AgentInv'
    BY <2>1, InitialSound, BeginSound, AgentAssumption DEF run_workflow
  <2>2. ASSUME NEW approval \in Approval, NEW when \in When, NEW ceiling \in SafetyCeiling,
               NEW c \in saved, resume(c, approval, when, ceiling)
        PROVE  AgentInv'
    <3>1. Sound(c.agent, c.ledger)
      BY DEF AgentInv
    <3> QED BY <2>2, <3>1, BeginSound DEF resume
  <2> QED BY <1>2, <2>1, <2>2 DEF Calls
<1>3. CASE Kill \/ UNCHANGED vars
  BY <1>3 DEF Kill, vars, AgentInv
<1> QED BY <1>1, <1>2, <1>3 DEF Next

LEMMA InitSound ==
  ASSUME Init
  PROVE  AgentInv
BY InitialSound, AgentAssumption DEF Init, AgentInv

\* What the fixtures propose are proposals.
LEMMA ProposeType == propose(agent) \in Proposal
BY AgentAssumption DEF propose, Plain, Proposal

LEMMA LadderSound ==
  ASSUME AgentInv, [RobustNext]_robustVars
  PROVE  AgentInv'
<1>1. CASE Climb
  <2>1. PICK max \in Nat \ {0}, when \in When :
          Begin(initial_state(max), <<>>, task.approval, when, None)
    BY <1>1, LadderAssumption DEF Climb, When
  <2> QED BY <1>1, <2>1, InitialSound, BeginSound DEF Climb
<1>2. CASE Work
  BY <1>2, ProposeType, DriveSound DEF Work
<1>3. CASE Directly
  BY <1>3, NextSound DEF Directly
<1>4. CASE Judge \/ GiveUp
  BY <1>4, NextSound DEF Judge, GiveUp
<1>5. ASSUME NEW route, NEW inject, NEW approval, NEW attempts, NEW threshold,
             run_robust_task(route, inject, approval, attempts, threshold)
      PROVE  AgentInv'
  BY <1>5, NextSound DEF run_robust_task
<1>6. CASE UNCHANGED robustVars
  BY <1>6, NextSound DEF robustVars
<1> QED BY <1>1, <1>2, <1>3, <1>4, <1>5, <1>6 DEF RobustNext, Ladder

-----------------------------------------------------------------------------
(* The bound                                                               *)

\* How many nodes a run may have visited, given where the agent is: one to
\* start, and five for each proposal of the model.
Spent(a) ==
  CASE a.node = "start"      -> 0
    [] a.node = "decide"     -> 5 * a.model_turn + 1
    [] a.node = "validate"   -> 5 * a.model_turn - 3
    [] a.node = "approve"    -> 5 * a.model_turn - 2
    [] a.node = "execute"    -> 5 * a.model_turn - 1
    [] a.node = "assimilate" -> 5 * a.model_turn

Turned(a) == a.model_turn <= a.max /\ (a.node \in Deciding => a.model_turn >= 1)

(***************************************************************************)
(* A run is only cut off by a ceiling that its caller asked for: the       *)
(* default leaves more visits than max_steps proposals need, also for a    *)
(* run that is resumed, whose visits start anew (run_workflow, M38).       *)
(***************************************************************************)
NeverCutOff == run.at = "aborted" => run.ceiling # None

BoundInv ==
  /\ AgentInv
  /\ Turned(agent) /\ \A c \in saved : Turned(c.agent)
  /\ run = [at |-> run.at, approval |-> run.approval, when |-> run.when,
            ceiling |-> run.ceiling, visits |-> run.visits]
  /\ run.visits \in Nat
  /\ run.at = "running" /\ agent.node \notin TERMINALS => run.visits <= Spent(agent)
  /\ NeverCutOff

\* The default ceiling is beyond what a run can spend.
LEMMA CeilingIsHigh ==
  ASSUME BoundInv, Running, run.ceiling = None
  PROVE  run.visits < Ceiling(agent)
<1>1. /\ agent.max \in Nat \ {0} /\ agent.model_turn \in Nat /\ agent.model_turn <= agent.max
      /\ agent.node \in Node /\ agent.node \notin TERMINALS /\ run.visits <= Spent(agent)
      /\ run.visits \in Nat
  BY DEF BoundInv, AgentInv, Sound, AgentState, Turned, Running
<1>2. Spent(agent) \in Int /\ Spent(agent) <= 5 * agent.max + 1
  BY <1>1, NodeType DEF Spent, TERMINALS
<1>3. Ceiling(agent) \in Int /\ Ceiling(agent) >= 8 * agent.max
  BY <1>1, AgentAssumption DEF Ceiling
<1> QED BY <1>1, <1>2, <1>3

\* A node costs one visit, and what it leaves has been paid for.
LEMMA NodeSpends ==
  ASSUME BoundInv, agent.node \notin TERMINALS, NEW p, p \in Proposal \/ agent.node # "decide"
  PROVE  LET a == Handler(agent, p) IN
         /\ Turned(a)
         /\ a.node \notin TERMINALS /\ a.node # agent.node => Spent(agent) + 1 <= Spent(a)
         /\ a.node = agent.node => a.node = "approve"
<1> DEFINE a == Handler(agent, p)
<1>1. /\ agent \in AgentState /\ agent.model_turn \in Nat /\ agent.max \in Nat
      /\ agent.model_turn <= agent.max
      /\ agent.node \in Deciding => agent.model_turn >= 1
  BY DEF BoundInv, AgentInv, Sound, AgentState, Turned
<1>2. CASE agent.node = "start"
  <2>1. a = [agent EXCEPT !.node = "decide"]
    BY <1>2 DEF Handler, apply_transition
  <2>2. a.node = "decide" /\ a.model_turn = agent.model_turn /\ a.max = agent.max
    BY <1>1, <2>1 DEF AgentState
  <2> HIDE DEF a
  <2> QED BY <1>1, <1>2, <2>2 DEF Spent, Turned, Deciding, a
<1>3. CASE agent.node = "decide"
  <2>1. CASE agent.model_turn >= agent.max
    <3>1. a = [agent EXCEPT !.node = "loop_exhausted"]
      BY <1>3, <2>1 DEF Handler, Decide, apply_transition
    <3>2. a.node = "loop_exhausted" /\ a.model_turn = agent.model_turn /\ a.max = agent.max
      BY <1>1, <3>1 DEF AgentState
    <3> HIDE DEF a
    <3> QED BY <1>1, <1>3, <3>2 DEF Turned, Deciding, TERMINALS, a
  <2>2. CASE agent.model_turn < agent.max
    <3>1. a = Decided(agent, p)
      BY <1>1, <1>3, <2>2 DEF Handler, Decide
    <3>2. /\ a.node \in {"complete", "failed", "validate"}
          /\ a.model_turn = agent.model_turn + 1 /\ a.max = agent.max
      BY <1>1, <3>1 DEF Decided, AgentState
    <3> HIDE DEF a
    <3> QED BY <1>1, <1>3, <2>2, <3>2 DEF Spent, Turned, TERMINALS, a
  <2> QED BY <1>1, <2>1, <2>2
<1>4. CASE agent.node = "validate"
  <2>1. a = Validate(agent)
    BY <1>4 DEF Handler
  <2>2. /\ a.node \in {"failed", "approve", "execute"}
        /\ a.model_turn = agent.model_turn /\ a.max = agent.max
    BY <1>1, <2>1 DEF Validate, apply_transition, AgentState
  <2> HIDE DEF a
  <2> QED BY <1>1, <1>4, <2>2 DEF Spent, Turned, Deciding, TERMINALS, a
<1>5. CASE agent.node = "approve"
  <2>1. a = Approve(agent, run.approval)
    BY <1>5 DEF Handler
  <2>2. /\ a.node \in {"approve", "denied", "execute"}
        /\ a.model_turn = agent.model_turn /\ a.max = agent.max
    BY <1>1, <1>5, <2>1 DEF Approve, apply_transition, AgentState
  <2> HIDE DEF a
  <2> QED BY <1>1, <1>5, <2>2 DEF Spent, Turned, Deciding, TERMINALS, a
<1>6. CASE agent.node = "execute"
  <2>1. a = Execute(agent)
    BY <1>6 DEF Handler
  <2>2. /\ a.node \in {"assimilate", "failed"}
        /\ a.model_turn = agent.model_turn /\ a.max = agent.max
    BY <1>1, <2>1 DEF Execute, apply_transition, AgentState
  <2> HIDE DEF a
  <2> QED BY <1>1, <1>6, <2>2 DEF Spent, Turned, Deciding, TERMINALS, a
<1>7. CASE agent.node = "assimilate"
  <2>1. a = Assimilate(agent)
    BY <1>7 DEF Handler
  <2>2. a.node = "decide" /\ a.model_turn = agent.model_turn /\ a.max = agent.max
    BY <1>1, <2>1 DEF Assimilate, apply_transition, AgentState
  <2> HIDE DEF a
  <2> QED BY <1>1, <1>7, <2>2 DEF Spent, Turned, Deciding, TERMINALS, a
<1>8. agent.node \in Node
  BY <1>1 DEF AgentState
<1> QED BY <1>2, <1>3, <1>4, <1>5, <1>6, <1>7, <1>8, NodeType DEF TERMINALS

\* A checkpoint of a bounded agent.
LEMMA LeaveBounded ==
  ASSUME BoundInv, AgentInv', NEW how \in {"aborted", "interrupted"}, NEW a, agent' = a,
         NEW e, Leave(how, a, e), Turned(a), how = "aborted" => run.ceiling # None
  PROVE  BoundInv'
<1>1. saved' = saved \cup {[agent |-> a, ledger |-> e]}
  BY DEF Leave
<1>2. run' = [run EXCEPT !.at = how]
  BY DEF Leave
<1>3. run' = [at |-> how, approval |-> run.approval, when |-> run.when,
              ceiling |-> run.ceiling, visits |-> run.visits]
  BY <1>2 DEF BoundInv
<1>4. \A c \in saved' : Turned(c.agent)
  BY <1>1 DEF BoundInv
<1>5. run'.visits = run.visits /\ run'.at = how /\ run'.ceiling = run.ceiling
  BY <1>3
<1> QED BY <1>3, <1>4, <1>5 DEF BoundInv, NeverCutOff

LEMMA DriveBounded ==
  ASSUME BoundInv, NEW p, p \in Proposal \/ agent.node # "decide", Drive(p)
  PROVE  BoundInv'
<1>1. AgentInv'
  BY DriveSound DEF BoundInv
<1>2. CASE AbortRun
  <2>1. run.ceiling # None
    <3>1. SUFFICES ASSUME run.ceiling = None PROVE FALSE
      OBVIOUS
    <3>2. run.visits < Ceiling(agent) /\ run.visits \in Nat
      BY <1>2, <3>1, CeilingIsHigh DEF AbortRun, BoundInv
    <3>3. Ceiling(agent) \in Int
      BY <3>1, AgentAssumption DEF Ceiling, BoundInv, AgentInv, Sound, AgentState
    <3> QED BY <1>2, <3>2, <3>3 DEF AbortRun
  <2>2. agent' = agent /\ Leave("aborted", agent, ledger) /\ Turned(agent)
    BY <1>2 DEF AbortRun, BoundInv
  <2> QED BY <1>1, <2>1, <2>2, LeaveBounded
<1>3. CASE Interrupt
  <2>1. agent' = agent /\ Leave("interrupted", agent, ledger) /\ Turned(agent)
    BY <1>3 DEF Interrupt, BoundInv
  <2> QED BY <1>1, <2>1, LeaveBounded
<1>4. CASE Visit(p)
  <2> DEFINE a == Handler(agent, p)
             e == IF agent.node = "execute" /\ Appends(agent)
                  THEN Append(ledger, agent.pending.key) ELSE ledger
             waits == a.node = "approve" /\ agent.node = "approve"
  <2>1. /\ agent' = a
        /\ \/ Leave("interrupted", a, e)
           \/ /\ ~waits /\ saved' = saved
              /\ run' = [run EXCEPT !.visits = @ + 1,
                           !.at = IF a.node \in TERMINALS THEN "ended" ELSE @]
    BY <1>4 DEF Visit
  <2>2. /\ Turned(a)
        /\ a.node \notin TERMINALS /\ a.node # agent.node => Spent(agent) + 1 <= Spent(a)
        /\ a.node = agent.node => a.node = "approve"
    BY <1>4, NodeSpends DEF Visit, Running
  <2>3. /\ run.visits \in Nat /\ run.at = "running" /\ run.visits <= Spent(agent)
        /\ Spent(agent) \in Int /\ agent.node \in Node
    BY <1>4, NodeType DEF Visit, Running, BoundInv, AgentInv, Sound, AgentState, Spent, TERMINALS
  <2> HIDE DEF a, e
  <2>4. CASE Leave("interrupted", a, e)
    BY <1>1, <2>1, <2>2, <2>4, LeaveBounded
  <2>5. CASE ~Leave("interrupted", a, e)
    <3>1. run' = [at |-> IF a.node \in TERMINALS THEN "ended" ELSE run.at,
                  approval |-> run.approval, when |-> run.when,
                  ceiling |-> run.ceiling, visits |-> run.visits + 1]
      BY <2>1, <2>5 DEF BoundInv
    <3>2. /\ run'.visits = run.visits + 1 /\ run'.visits \in Nat
          /\ run'.at \in {"ended", "running"}
      BY <2>3, <3>1
    <3>3. a.node \notin TERMINALS => run'.visits <= Spent(a)
      <4>1. SUFFICES ASSUME a.node \notin TERMINALS PROVE run'.visits <= Spent(a)
        OBVIOUS
      <4>2. Spent(agent) + 1 <= Spent(a)
        BY <2>1, <2>2, <2>5, <4>1
      <4>3. a \in AgentState
        BY <1>1, <2>1 DEF AgentInv, Sound
      <4>4. Spent(a) \in Int
        BY <4>1, <4>3, NodeType DEF Spent, AgentState, TERMINALS
      <4> QED BY <2>3, <3>2, <4>2, <4>4
    <3>4. saved' = saved
      BY <2>1, <2>5
    <3>5. run' = [at |-> run'.at, approval |-> run'.approval, when |-> run'.when,
                  ceiling |-> run'.ceiling, visits |-> run'.visits]
      BY <3>1
    <3>6. (\A c \in saved : Turned(c.agent))'
      BY <3>4 DEF BoundInv
    <3> QED BY <1>1, <2>1, <2>2, <3>2, <3>3, <3>5, <3>6 DEF BoundInv, NeverCutOff
  <2> QED BY <2>4, <2>5
<1> QED BY <1>2, <1>3, <1>4 DEF Drive

LEMMA BeginBounded ==
  ASSUME BoundInv, AgentInv', NEW a, NEW e, Turned(a), NEW approval, NEW when, NEW ceiling,
         Begin(a, e, approval, when, ceiling), saved' = saved
  PROVE  BoundInv'
<1>1. /\ agent' = a /\ a \in AgentState
      /\ run' = [at |-> IF a.node \in TERMINALS THEN "ended" ELSE "running",
                 approval |-> approval, when |-> when, ceiling |-> ceiling, visits |-> 0]
  BY DEF Begin, AgentInv, Sound
<1>2. a.node \notin TERMINALS => 0 <= Spent(a)
  BY <1>1, NodeType DEF Spent, Turned, AgentState, Deciding, TERMINALS
<1>3. /\ run'.visits = 0 /\ run'.at \in {"ended", "running"}
      /\ run' = [at |-> run'.at, approval |-> run'.approval, when |-> run'.when,
                 ceiling |-> run'.ceiling, visits |-> run'.visits]
  BY <1>1
<1>4. (\A c \in saved : Turned(c.agent))'
  BY DEF BoundInv
<1> QED BY <1>1, <1>2, <1>3, <1>4 DEF BoundInv, NeverCutOff

LEMMA InitialTurned ==
  ASSUME NEW max \in Nat \ {0}
  PROVE  Turned(initial_state(max))
BY DEF Turned, initial_state, Deciding

LEMMA SameBounded ==
  ASSUME BoundInv, UNCHANGED vars
  PROVE  BoundInv'
BY DEF BoundInv, vars, AgentInv, NeverCutOff

LEMMA NextBounded ==
  ASSUME BoundInv, [Next]_vars
  PROVE  BoundInv'
<1>1. AgentInv'
  BY NextSound DEF BoundInv
<1>2. CASE Steps
  BY <1>2, DriveBounded DEF Steps, Choices
<1>3. CASE Calls
  <2>1. ASSUME NEW approval, NEW when, NEW ceiling,
               NEW max \in MaxSteps, run_workflow(max, approval, when, ceiling)
        PROVE  BoundInv'
    BY <1>1, <2>1, InitialTurned, BeginBounded, AgentAssumption DEF run_workflow
  <2>2. ASSUME NEW approval, NEW when, NEW ceiling,
               NEW c \in saved, resume(c, approval, when, ceiling)
        PROVE  BoundInv'
    <3>1. Turned(c.agent)
      BY DEF BoundInv
    <3> QED BY <1>1, <2>2, <3>1, BeginBounded DEF resume
  <2> QED BY <1>3, <2>1, <2>2 DEF Calls
<1>4. CASE Kill
  <2>1. run' = [at |-> "killed", approval |-> run.approval, when |-> run.when,
                ceiling |-> run.ceiling, visits |-> run.visits]
    BY <1>4 DEF Kill, BoundInv
  <2>2. /\ run'.at = "killed" /\ run'.visits = run.visits
        /\ run' = [at |-> run'.at, approval |-> run'.approval, when |-> run'.when,
                   ceiling |-> run'.ceiling, visits |-> run'.visits]
    BY <2>1
  <2> QED BY <1>1, <1>4, <2>2 DEF Kill, BoundInv, NeverCutOff
<1> QED BY <1>2, <1>3, <1>4, SameBounded DEF Next

LEMMA LadderBounded ==
  ASSUME BoundInv, [RobustNext]_robustVars
  PROVE  BoundInv'
<1>1. AgentInv'
  BY LadderSound DEF BoundInv
<1>2. CASE Climb
  <2>1. PICK max \in Nat \ {0}, when \in When :
          Begin(initial_state(max), <<>>, task.approval, when, None)
    BY <1>2, LadderAssumption DEF Climb, When
  <2> QED BY <1>1, <1>2, <2>1, InitialTurned, BeginBounded DEF Climb
<1>3. CASE Work
  BY <1>3, ProposeType, DriveBounded DEF Work
<1>4. CASE Directly
  BY <1>4, NextBounded DEF Directly
<1>5. CASE Judge \/ GiveUp
  BY <1>5, SameBounded DEF Judge, GiveUp
<1>6. ASSUME NEW route, NEW inject, NEW approval, NEW attempts, NEW threshold,
             run_robust_task(route, inject, approval, attempts, threshold)
      PROVE  BoundInv'
  BY <1>6, SameBounded DEF run_robust_task
<1>7. CASE UNCHANGED robustVars
  BY <1>7, SameBounded DEF robustVars
<1> QED BY <1>2, <1>3, <1>4, <1>5, <1>6, <1>7 DEF RobustNext, Ladder

LEMMA InitBounded ==
  ASSUME Init
  PROVE  BoundInv
<1>1. AgentInv
  BY InitSound
<1>2. Turned(agent) /\ saved = {}
  BY InitialTurned, AgentAssumption DEF Init
<1> QED BY <1>1, <1>2 DEF Init, BoundInv, NeverCutOff

-----------------------------------------------------------------------------
(* The ladder                                                              *)

\* What the fixtures propose once these tools have answered.
Bought == <<"lookup", "post">>
Script(fail, tools) ==
  CASE fail -> Plain("malformed")
    [] ~fail /\ tools = <<>> -> Plain("lookup")
    [] ~fail /\ tools = <<"lookup">> -> [tool |-> "post", key |-> LEDGER_KEY]
    [] OTHER -> Plain("done")

\* The agent of a rung follows the script, and has the turns for all of it.
OnScript(fail, a) ==
  /\ fail \/ a.max >= 3
  /\ a.tools \in {<<>>, <<"lookup">>, Bought}
  /\ a.node \in {"start", "decide"} => a.model_turn = Len(a.tools)
  /\ a.node \in Deciding =>
       /\ a.model_turn = Len(a.tools) + 1
       /\ a.pending = Script(fail, a.tools) /\ a.pending.tool # "done"
  /\ a.last = "price" => a.tools # <<>> \/ a.node = "assimilate"
  /\ a.completed = IF a.tools = Bought THEN {LEDGER_KEY} ELSE {}
  /\ a.node \in TERMINALS => (a.node = "complete" <=> a.tools = Bought)
  /\ fail => a.tools = <<>> /\ a.node \notin {"approve", "execute", "assimilate"}

\* What it has posted by then.
Entries(a) ==
  IF a.tools = Bought \/ (a.node = "assimilate" /\ a.pending.tool = "post")
  THEN <<LEDGER_KEY>> ELSE <<>>

\* A rung that only looks the price up is interrupted when it knows it.
Looking == ~task.fail /\ rung_kind(Rung, task.route) = "lookup"

Looked(a, at) ==
  a.tools # <<>> => a.tools = <<"lookup">> /\ a.node = "decide" /\ at # "running"

RungInv ==
  /\ task.attempts \in DOMAIN LADDER
  /\ OnScript(task.fail, agent)
  /\ ledger = Entries(agent) /\ posted = Len(ledger)
  /\ run.ceiling = None /\ run.when = IF Looking THEN "after_lookup" ELSE None
  /\ IF Looking THEN Looked(agent, run.at)
     ELSE run.at # "running" => agent.node \in TERMINALS \cup {"approve"}

IsTask ==
  /\ task = [at |-> task.at, route |-> task.route, inject |-> task.inject,
             approval |-> task.approval, max |-> task.max, threshold |-> task.threshold,
             attempts |-> task.attempts, failures |-> task.failures, fail |-> task.fail,
             effects |-> task.effects]
  /\ task.attempts \in Nat /\ task.fail \in BOOLEAN

LadderInv ==
  /\ task.at \in {"none", "run", "climb"} \cup Terminals
  /\ task.at # "none" => IsTask
  /\ task.at = "none" => posted = 0
  /\ task.at = "climb" => posted = 0 /\ task.effects = 0
  /\ task.at \in {"climb", "run"} => task.route \in {"catalog_purchase", "catalog_lookup"}
  /\ task.at = "run" => RungInv
  /\ LadderHonest

\* The script has three places.
LEMMA Places ==
  /\ <<>> # <<"lookup">> /\ <<>> # Bought /\ <<"lookup">> # Bought
  /\ Len(<<>>) = 0 /\ Len(<<"lookup">>) = 1 /\ Len(Bought) = 2
  /\ Append(<<>>, "lookup") = <<"lookup">> /\ Append(<<"lookup">>, "post") = Bought
<1>1. Len(<<>>) = 0 /\ Len(<<"lookup">>) = 1 /\ Len(Bought) = 2
  BY DEF Bought
<1>2. <<>> # <<"lookup">> /\ <<>> # Bought /\ <<"lookup">> # Bought
  BY <1>1
<1> DEFINE T == {"lookup", "post"}
           one == Append(<<>>, "lookup")
           two == Append(<<"lookup">>, "post")
<1>3. /\ <<"lookup">> \in Seq(T) /\ Bought \in Seq(T)
      /\ one \in Seq(T) /\ Len(one) = 1 /\ one[1] = "lookup"
      /\ two \in Seq(T) /\ Len(two) = 2 /\ two[1] = "lookup" /\ two[2] = "post"
      /\ <<"lookup">>[1] = "lookup" /\ Bought[1] = "lookup" /\ Bought[2] = "post"
  BY DEF Bought
<1> HIDE DEF one, two
<1>4. one = <<"lookup">>
  <2>1. \A i \in 1..Len(one) : one[i] = <<"lookup">>[i]
    BY <1>3
  <2> QED BY <1>1, <1>3, <2>1, SeqEqual
<1>5. two = Bought
  <2>1. \A i \in 1..Len(two) : two[i] = Bought[i]
    BY <1>3
  <2> QED BY <1>1, <1>3, <2>1, SeqEqual
<1> QED BY <1>1, <1>2, <1>4, <1>5 DEF one, two

LEMMA ScriptIs ==
  ASSUME NEW fail \in BOOLEAN
  PROVE  /\ fail => \A tools : Script(fail, tools) = Plain("malformed")
         /\ ~fail => /\ Script(fail, <<>>) = Plain("lookup")
                     /\ Script(fail, <<"lookup">>) = [tool |-> "post", key |-> LEDGER_KEY]
                     /\ Script(fail, Bought) = Plain("done")
BY Places DEF Script

LEMMA ProposesScript ==
  ASSUME OnScript(task.fail, agent), task.fail \in BOOLEAN, agent.node = "decide"
  PROVE  propose(agent) = Script(task.fail, agent.tools)
<1>1. agent.tools \in {<<>>, <<"lookup">>, Bought}
  BY DEF OnScript
<1>2. KnowsPrice(agent) <=> agent.tools # <<>>
  <2>1. CASE agent.tools = <<>>
    BY <2>1 DEF KnowsPrice, OnScript
  <2>2. CASE agent.tools \in {<<"lookup">>, Bought}
    <3>1. 1 \in DOMAIN agent.tools /\ agent.tools[1] = "lookup"
      BY <2>2 DEF Bought
    <3> QED BY <2>2, <3>1, Places DEF KnowsPrice
  <2> QED BY <1>1, <2>1, <2>2
<1>3. LEDGER_KEY \in agent.completed <=> agent.tools = Bought
  BY DEF OnScript
<1> QED BY <1>1, <1>2, <1>3, ScriptIs DEF propose, Script

\* One node further on the script.
LEMMA NodeOnScript ==
  ASSUME AgentInv, OnScript(task.fail, agent), task.fail \in BOOLEAN,
         ledger = Entries(agent), agent.node \notin TERMINALS,
         NEW a, a = Handler(agent, propose(agent)),
         NEW e, e = IF agent.node = "execute" /\ Appends(agent)
                    THEN Append(ledger, agent.pending.key) ELSE ledger
  PROVE  /\ OnScript(task.fail, a) /\ e = Entries(a)
         /\ a.tools # agent.tools =>
              /\ agent.node = "assimilate" /\ a.node = "decide"
              /\ agent.tools = <<>> => a.tools = <<"lookup">>
         /\ a.node = agent.node => a.node = "approve"
<1> DEFINE fail == task.fail
<1>0. /\ agent \in AgentState /\ agent.node \in Node
      /\ agent.tools \in {<<>>, <<"lookup">>, Bought}
      /\ agent.model_turn \in Nat /\ agent.max \in Nat
  BY DEF AgentInv, Sound, AgentState, OnScript
<1>1. CASE agent.node = "start"
  <2>1. a = [agent EXCEPT !.node = "decide"]
    BY <1>1 DEF Handler, apply_transition
  <2>2. /\ a.node = "decide" /\ a.tools = agent.tools /\ a.model_turn = agent.model_turn
        /\ a.max = agent.max /\ a.last = agent.last /\ a.completed = agent.completed
    BY <1>0, <2>1 DEF AgentState
  <2> QED BY <1>1, <2>2 DEF OnScript, Entries, Deciding, TERMINALS
<1>2. CASE agent.node = "decide"
  <2> DEFINE p == Script(fail, agent.tools)
  <2>1. a = Decide(agent, p)
    BY <1>2, ProposesScript DEF Handler
  <2>2. CASE agent.model_turn >= agent.max
    <3>1. a = [agent EXCEPT !.node = "loop_exhausted"]
      BY <2>1, <2>2 DEF Decide, apply_transition
    <3>2. /\ a.node = "loop_exhausted" /\ a.tools = agent.tools
          /\ a.max = agent.max /\ a.last = agent.last /\ a.completed = agent.completed
      BY <1>0, <3>1 DEF AgentState
    <3>3. agent.tools # Bought
      BY <1>0, <1>2, <2>2, Places DEF OnScript
    <3> QED BY <1>2, <3>2, <3>3 DEF OnScript, Entries, Deciding, TERMINALS
  <2>3. CASE ~(agent.model_turn >= agent.max)
    <3>1. a = Decided(agent, p)
      BY <2>1, <2>3 DEF Decide
    <3>2. /\ a.node = CASE p.tool = "done" -> "complete"
                        [] p.tool = "none" -> "failed"
                        [] OTHER           -> "validate"
          /\ a.model_turn = agent.model_turn + 1 /\ a.pending = p
          /\ a.tools = agent.tools /\ a.max = agent.max /\ a.last = agent.last
          /\ a.completed = agent.completed
      BY <1>0, <3>1 DEF Decided, AgentState
    <3>3. /\ fail => p.tool = "malformed" /\ agent.tools # Bought
          /\ ~fail => /\ agent.tools = <<>> => p.tool = "lookup"
                      /\ agent.tools = <<"lookup">> => p.tool = "post"
                      /\ agent.tools = Bought => p.tool = "done"
      BY ScriptIs, Places DEF Plain, OnScript
    <3> HIDE DEF p
    <3>4. a.node = IF agent.tools = Bought THEN "complete" ELSE "validate"
      BY <1>0, <3>2, <3>3, Places
    <3>5. p.tool = "done" <=> agent.tools = Bought
      BY <1>0, <3>3, Places
    <3>6. p = Script(fail, a.tools)
      BY <3>2 DEF p
    <3> QED BY <1>2, <3>2, <3>3, <3>4, <3>5, <3>6 DEF OnScript, Entries, Deciding, TERMINALS
  <2> QED BY <2>2, <2>3
<1>3. CASE agent.node = "validate"
  <2>1. a = Validate(agent)
    BY <1>3 DEF Handler
  <2>2. /\ a.node \in {"failed", "approve", "execute"}
        /\ (a.node = "failed") <=> (agent.pending.tool = "malformed")
        /\ a.model_turn = agent.model_turn /\ a.pending = agent.pending
        /\ a.tools = agent.tools /\ a.max = agent.max /\ a.last = agent.last
        /\ a.completed = agent.completed
    BY <1>0, <2>1 DEF Validate, apply_transition, requires_approval, AgentState
  <2>3. /\ agent.pending = Script(fail, agent.tools) /\ agent.pending.tool # "done"
        /\ agent.tools # Bought
    BY <1>3, ScriptIs, Places DEF OnScript, Deciding, Plain
  <2>4. agent.pending.tool = "malformed" <=> fail
    BY <1>0, <2>3, ScriptIs DEF Plain
  <2> QED BY <1>3, <2>2, <2>3, <2>4 DEF OnScript, Entries, Deciding, TERMINALS
<1>4. CASE agent.node = "approve"
  <2>1. a = Approve(agent, run.approval)
    BY <1>4 DEF Handler
  <2>2. /\ a.node \in {"approve", "denied", "execute"}
        /\ a.model_turn = agent.model_turn /\ a.pending = agent.pending
        /\ a.tools = agent.tools /\ a.max = agent.max /\ a.last = agent.last
        /\ a.completed = agent.completed
    BY <1>0, <1>4, <2>1 DEF Approve, apply_transition, AgentState
  <2>3. agent.tools # Bought /\ ~fail
    BY <1>4, ScriptIs, Places DEF OnScript, Deciding, Plain
  <2> QED BY <1>4, <2>2, <2>3 DEF OnScript, Entries, Deciding, TERMINALS
<1>5. CASE agent.node = "execute"
  <2>1. a = Execute(agent)
    BY <1>5 DEF Handler
  <2>2. /\ ~fail /\ agent.pending = Script(fail, agent.tools) /\ agent.tools # Bought
        /\ agent.completed = {} /\ ledger = <<>>
    BY <1>5, ScriptIs, Places DEF OnScript, Deciding, Plain, Entries
  <2>3. agent.pending \in {Plain("lookup"), [tool |-> "post", key |-> LEDGER_KEY]}
    BY <1>0, <2>2, ScriptIs
  <2>4. ~Skips(agent)
    BY <2>2 DEF Skips
  <2>5. /\ a.node = "assimilate"
        /\ a.model_turn = agent.model_turn /\ a.pending = agent.pending
        /\ a.tools = agent.tools /\ a.max = agent.max
        /\ a.completed = agent.completed
    BY <1>0, <2>1, <2>3, <2>4 DEF Execute, apply_transition, Plain, AgentState
  <2>6. Appends(agent) <=> agent.pending.tool = "post"
    BY <2>2, <2>4 DEF Appends, Posted
  <2>7. e = IF agent.pending.tool = "post" THEN <<LEDGER_KEY>> ELSE <<>>
    BY <1>5, <2>2, <2>3, <2>6 DEF Plain
  <2>8. e = Entries(a)
    BY <2>2, <2>5, <2>7 DEF Entries
  <2> QED BY <1>5, <2>2, <2>5, <2>8 DEF OnScript, Deciding, TERMINALS
<1>6. CASE agent.node = "assimilate"
  <2>1. a = Assimilate(agent)
    BY <1>6 DEF Handler
  <2>2. /\ a.node = "decide" /\ a.model_turn = agent.model_turn /\ a.max = agent.max
        /\ a.tools = Append(agent.tools, agent.pending.tool)
        /\ a.completed = IF agent.pending.key = None THEN agent.completed
                         ELSE agent.completed \cup {agent.pending.key}
    BY <1>0, <2>1 DEF Assimilate, apply_transition, AgentState
  <2>3. /\ ~fail /\ agent.pending = Script(fail, agent.tools) /\ agent.tools # Bought
        /\ agent.completed = {} /\ agent.model_turn = Len(agent.tools) + 1
    BY <1>6, ScriptIs, Places DEF OnScript, Deciding, Plain
  <2>4. LEDGER_KEY # None
    BY AgentAssumption
  <2>5. CASE agent.tools = <<>>
    <3>1. agent.pending = [tool |-> "lookup", key |-> None]
      BY <2>3, <2>5, ScriptIs DEF Plain
    <3>2. a.tools = <<"lookup">> /\ a.completed = {}
      BY <2>2, <2>3, <2>5, <3>1, Places
    <3>3. e = <<>>
      BY <1>6, <2>3, <3>1 DEF Entries
    <3>4. e = Entries(a)
      BY <2>2, <3>2, <3>3, Places DEF Entries
    <3>5. a.model_turn = Len(a.tools)
      BY <2>2, <2>3, <2>5, <3>2, Places
    <3>6. a.node \notin Deciding \cup TERMINALS /\ a.tools # <<>>
      BY <2>2, <3>2, Places DEF Deciding, TERMINALS
    <3>7. OnScript(fail, a)
      BY <2>2, <2>3, <3>2, <3>5, <3>6, Places DEF OnScript
    <3> QED BY <1>6, <2>2, <2>5, <3>2, <3>4, <3>7, Places
  <2>6. CASE agent.tools = <<"lookup">>
    <3>1. agent.pending = [tool |-> "post", key |-> LEDGER_KEY]
      BY <2>3, <2>6, ScriptIs
    <3>2. a.tools = Bought /\ a.completed = {LEDGER_KEY}
      BY <2>2, <2>3, <2>4, <2>6, <3>1, Places
    <3>3. e = <<LEDGER_KEY>>
      BY <1>6, <3>1 DEF Entries
    <3>4. e = Entries(a)
      BY <2>2, <3>2, <3>3, Places DEF Entries
    <3>5. a.model_turn = Len(a.tools)
      BY <2>2, <2>3, <2>6, <3>2, Places
    <3>6. a.node \notin Deciding \cup TERMINALS /\ a.tools # <<>>
      BY <2>2, <3>2, Places DEF Deciding, TERMINALS
    <3>7. OnScript(fail, a)
      BY <2>2, <2>3, <3>2, <3>5, <3>6, Places DEF OnScript
    <3> QED BY <1>6, <2>2, <2>6, <3>2, <3>4, <3>7, Places
  <2> QED BY <1>0, <2>3, <2>5, <2>6
<1> QED BY <1>0, <1>1, <1>2, <1>3, <1>4, <1>5, <1>6, NodeType DEF TERMINALS
\* A step of a rung stays on the script; a rung that knows the price stops.
LEMMA WorkOnScript ==
  ASSUME BoundInv, IsTask, RungInv, Work
  PROVE  RungInv'
<1> DEFINE p == propose(agent)
           a == Handler(agent, p)
           e == IF agent.node = "execute" /\ Appends(agent)
                THEN Append(ledger, agent.pending.key) ELSE ledger
           waits == a.node = "approve" /\ agent.node = "approve"
<1>1. /\ Drive(p) /\ task' = task /\ posted' = posted + Len(ledger') - Len(ledger)
      /\ AgentInv /\ task.fail \in BOOLEAN
      /\ OnScript(task.fail, agent) /\ ledger = Entries(agent) /\ posted = Len(ledger)
      /\ run.ceiling = None /\ run.when = IF Looking THEN "after_lookup" ELSE None
  BY DEF Work, BoundInv, IsTask, RungInv
<1>2. Visit(p)
  <2>1. ~Interrupt
    BY <1>1, AgentAssumption DEF Interrupt, InterruptBefore
  <2>2. ~AbortRun
    <3> SUFFICES ASSUME AbortRun PROVE FALSE
      OBVIOUS
    <3>1. run.visits < Ceiling(agent) /\ run.visits \in Nat
      BY <1>1, CeilingIsHigh DEF AbortRun, BoundInv
    <3>2. Ceiling(agent) \in Int
      BY <1>1, AgentAssumption DEF Ceiling, AgentInv, Sound, AgentState
    <3> QED BY <3>1, <3>2 DEF AbortRun
  <2> QED BY <1>1, <2>1, <2>2 DEF Drive
<1>3. /\ run.at = "running" /\ agent.node \notin TERMINALS
      /\ agent' = a /\ ledger' = e
      /\ \/ Leave("interrupted", a, e) /\ (waits \/ InterruptAfter(agent.node, a))
         \/ /\ ~waits /\ ~InterruptAfter(agent.node, a)
            /\ run' = [run EXCEPT !.visits = @ + 1,
                         !.at = IF a.node \in TERMINALS THEN "ended" ELSE @]
  BY <1>2 DEF Visit, Running
<1>4. /\ OnScript(task.fail, a) /\ e = Entries(a)
      /\ a.tools # agent.tools =>
           /\ agent.node = "assimilate" /\ a.node = "decide"
           /\ agent.tools = <<>> => a.tools = <<"lookup">>
      /\ a.node = agent.node => a.node = "approve"
  BY <1>1, <1>3, NodeOnScript
<1> HIDE DEF p, a, e
<1>5. /\ run'.when = run.when /\ run'.ceiling = run.ceiling
      /\ run'.at = "interrupted" \/ (run'.at = "ended" /\ a.node \in TERMINALS)
           \/ (run'.at = "running" /\ ~InterruptAfter(agent.node, a))
      /\ run'.at = "interrupted" => waits \/ InterruptAfter(agent.node, a)
  BY <1>3 DEF BoundInv, Leave
<1>6. ledger \in Seq(Key) /\ ledger' \in Seq(Key) /\ Len(ledger') \in Nat /\ Len(ledger) \in Nat
  <2>1. AgentInv'
    BY <1>1, ProposeType, DriveSound DEF p
  <2> QED BY <1>1, <2>1, LenProperties DEF AgentInv, Sound
<1>7. posted' = Len(ledger')
  BY <1>1, <1>6
<1>8. CASE Looking
  <2>1. agent.tools = <<>>
    BY <1>3, <1>8 DEF RungInv, Looked
  <2>3. CASE a.tools = <<>>
    BY <1>1, <1>3, <1>4, <1>5, <1>7, <1>8, <2>3 DEF RungInv, Looked, Looking, Rung
  <2>4. CASE a.tools # <<>>
    <3>1. a.tools = <<"lookup">> /\ a.node = "decide" /\ agent.node = "assimilate"
      BY <1>4, <2>1, <2>4
    <3>2. InterruptAfter(agent.node, a)
      BY <1>1, <1>8, <3>1 DEF InterruptAfter
    <3>3. run'.at # "running"
      BY <1>5, <3>1, <3>2 DEF TERMINALS
    <3> QED BY <1>1, <1>3, <1>4, <1>5, <1>7, <1>8, <3>1, <3>3 DEF RungInv, Looked, Looking, Rung
  <2> QED BY <2>3, <2>4
<1>9. CASE ~Looking
  <2>1. ~InterruptAfter(agent.node, a)
    BY <1>1, <1>9, AgentAssumption DEF InterruptAfter
  <2>2. run'.at # "running" => a.node \in TERMINALS \cup {"approve"}
    BY <1>5, <2>1
  <2> QED BY <1>1, <1>3, <1>4, <1>5, <1>7, <1>9, <2>2 DEF RungInv, Looking, Rung
<1> QED BY <1>8, <1>9
\* A rung begins with a ledger of its own and an agent that has done nothing.
LEMMA ClimbOnScript ==
  ASSUME LadderInv, Climb
  PROVE  LadderInv'
<1> DEFINE rung == LADDER[task.attempts + 1]
           fail == rung_should_fail(rung, task.inject)
           max == IF fail THEN FAIL_STEPS ELSE MAX_STEPS
           when == IF ~fail /\ rung_kind(rung, task.route) = "lookup" THEN "after_lookup" ELSE None
           a == initial_state(max)
<1>1. /\ task.at = "climb" /\ IsTask /\ posted = 0 /\ task.effects = 0
      /\ task.attempts \in Nat /\ task.attempts < Len(LADDER)
      /\ Begin(a, <<>>, task.approval, when, None) /\ posted' = posted
      /\ task' = [task EXCEPT !.at = "run", !.attempts = @ + 1, !.fail = fail]
      /\ task.route \in {"catalog_purchase", "catalog_lookup"}
  BY DEF Climb, LadderInv, IsTask
<1>2. /\ task'.at = "run" /\ task'.attempts = task.attempts + 1 /\ task'.fail = fail
      /\ task'.route = task.route /\ task'.effects = 0 /\ IsTask'
  <2>1. task' = [at |-> "run", route |-> task.route, inject |-> task.inject,
                 approval |-> task.approval, max |-> task.max, threshold |-> task.threshold,
                 attempts |-> task.attempts + 1, failures |-> task.failures, fail |-> fail,
                 effects |-> task.effects]
    BY <1>1 DEF IsTask
  <2>2. fail \in BOOLEAN
    BY DEF rung_should_fail
  <2> HIDE DEF fail
  <2>3. task'.attempts \in Nat /\ task'.fail \in BOOLEAN
    BY <1>1, <2>1, <2>2
  <2>4. IsTask'
    BY <2>1, <2>3 DEF IsTask
  <2> QED BY <1>1, <2>1, <2>4
<1>3. task'.attempts \in DOMAIN LADDER /\ rung = LADDER[task'.attempts]
  <2>1. Len(LADDER) = 2 /\ DOMAIN LADDER = 1..2
    BY DEF LADDER
  <2> QED BY <1>1, <1>2, <2>1
<1>4. /\ agent' = a /\ ledger' = <<>> /\ run'.at = "running"
      /\ run'.ceiling = None /\ run'.when = when
  BY <1>1 DEF Begin, initial_state, TERMINALS
<1>5. OnScript(fail, a)
  <2>1. a.node = "start" /\ a.tools = <<>> /\ a.model_turn = 0 /\ a.max = max
        /\ a.last = None /\ a.completed = {}
    BY DEF initial_state
  <2>2. fail \/ max >= 3
    BY LadderAssumption
  <2> HIDE DEF a, fail, max
  <2> QED BY <2>1, <2>2, Places, AgentAssumption DEF OnScript, Deciding, TERMINALS
<1>6. Entries(a) = <<>> /\ a.tools = <<>>
  BY Places DEF Entries, initial_state
<1>7. Looking' <=> (~fail /\ rung_kind(rung, task.route) = "lookup")
  BY <1>2, <1>3 DEF Looking, Rung
<1>8. run'.when = IF Looking' THEN "after_lookup" ELSE None
  BY <1>4, <1>7
<1> HIDE DEF a, fail, when
<1>9. RungInv'
  BY <1>1, <1>2, <1>3, <1>4, <1>5, <1>6, <1>8 DEF RungInv, Looked
<1> QED BY <1>1, <1>2, <1>9 DEF LadderInv, LadderHonest, Terminals

\* What a run that ended has posted: one entry, or none, as the rung is judged.
LEMMA JudgedHonest ==
  ASSUME LadderInv, Judge
  PROVE  LadderInv'
<1>1. /\ task.at = "run" /\ run.at # "running" /\ IsTask /\ RungInv /\ posted' = posted
      /\ task.route \in {"catalog_purchase", "catalog_lookup"}
  BY DEF Judge, LadderInv
<1> DEFINE at == CASE ~Ok -> "climb"
                   [] Ok /\ rung_kind(Rung, task.route) = "lookup"
                         /\ task.route = "catalog_purchase" -> "degraded"
                   [] OTHER -> "complete"
<1>2. /\ task'.at = at /\ task'.route = task.route /\ task'.effects = Len(ledger)
      /\ IsTask' /\ posted' = task'.effects
  <2>1. task' = [task EXCEPT !.effects = Len(ledger),
                             !.failures = IF Ok THEN 0 ELSE @ + 1, !.at = at]
    BY DEF Judge
  <2> HIDE DEF at
  <2>2. task' = [at |-> at, route |-> task.route, inject |-> task.inject,
                 approval |-> task.approval, max |-> task.max, threshold |-> task.threshold,
                 attempts |-> task.attempts, failures |-> task'.failures, fail |-> task.fail,
                 effects |-> Len(ledger)]
    BY <1>1, <2>1 DEF IsTask
  <2>3. posted = Len(ledger)
    BY <1>1 DEF RungInv
  <2> QED BY <1>1, <2>2, <2>3 DEF IsTask
<1>3. OnScript(task.fail, agent) /\ ledger = Entries(agent) /\ task.fail \in BOOLEAN
  BY <1>1 DEF RungInv, IsTask
<1>4. Len(<<LEDGER_KEY>>) = 1
  OBVIOUS
<1>5. CASE rung_kind(Rung, task.route) = "lookup"
  <2>1. ledger = <<>>
    <3>1. agent.tools # Bought /\ agent.tools # <<>> => agent.node = "decide"
      BY <1>1, <1>3, <1>5, Places DEF RungInv, Looking, Looked, OnScript
    <3>2. agent.node = "assimilate" => agent.pending.tool # "post"
      BY <1>3, <3>1, ScriptIs DEF OnScript, Deciding, Plain
    <3> QED BY <1>1, <1>3, <1>5, <3>1, <3>2, Places DEF Entries, RungInv, Looking, Looked, OnScript
  <2>2. posted' = 0 /\ task'.effects = 0
    BY <1>1, <1>2, <2>1, Places
  <2>3. at # "complete" \/ task.route # "catalog_purchase"
    BY <1>5
  <2>4. at \in {"climb", "degraded", "complete"} /\ (at = "degraded" => task.route = "catalog_purchase")
    OBVIOUS
  <2> HIDE DEF at
  <2> QED BY <1>1, <1>2, <2>2, <2>3, <2>4 DEF LadderInv, LadderHonest, Terminals
<1>6. CASE rung_kind(Rung, task.route) # "lookup"
  <2>1. agent.node \in TERMINALS \cup {"approve"}
    BY <1>1, <1>6 DEF RungInv, Looking
  <2>2. agent.node = "complete" <=> agent.tools = Bought
    <3>1. agent.node = "approve" => agent.tools # Bought
      BY <1>3, ScriptIs, Places DEF OnScript, Deciding, Plain
    <3> QED BY <1>3, <2>1, <3>1 DEF OnScript, TERMINALS
  <2>3. ledger = IF agent.node = "complete" THEN <<LEDGER_KEY>> ELSE <<>>
    BY <1>3, <2>1, <2>2 DEF Entries, TERMINALS
  <2>4. agent.node = "complete" => ~task.fail
    BY <1>3, <2>2, Places DEF OnScript
  <2>5. at = IF agent.node = "complete" THEN "complete" ELSE "climb"
    BY <1>6, <2>4 DEF Ok
  <2>6. posted' = IF agent.node = "complete" THEN 1 ELSE 0
    BY <1>2, <1>4, <2>3, Places
  <2>7. task.route = "catalog_purchase"
    BY <1>1, <1>6 DEF rung_kind
  <2> HIDE DEF at
  <2> QED BY <1>1, <1>2, <2>5, <2>6, <2>7 DEF LadderInv, LadderHonest, Terminals
<1> QED BY <1>5, <1>6
LEMMA LadderKeeps ==
  ASSUME BoundInv, LadderInv, [RobustNext]_robustVars
  PROVE  LadderInv'
<1>1. CASE Climb
  BY <1>1, ClimbOnScript
<1>2. CASE Work
  <2>1. RungInv' /\ task' = task /\ task.at = "run"
    BY <1>2, WorkOnScript DEF LadderInv, Work
  <2> QED BY <2>1 DEF LadderInv, IsTask, LadderHonest, Terminals
<1>3. CASE Judge
  BY <1>3, JudgedHonest
<1>4. CASE GiveUp
  <2>1. /\ IsTask /\ task.at = "climb" /\ posted' = posted /\ posted = 0 /\ task.effects = 0
    BY <1>4 DEF GiveUp, LadderInv
  <2>2. PICK at \in {"circuit_open", "failed"} : task' = [task EXCEPT !.at = at]
    BY <1>4 DEF GiveUp
  <2>3. /\ task'.at = at /\ task'.effects = 0 /\ IsTask'
    <3>1. task' = [at |-> at, route |-> task.route, inject |-> task.inject,
                   approval |-> task.approval, max |-> task.max, threshold |-> task.threshold,
                   attempts |-> task.attempts, failures |-> task.failures, fail |-> task.fail,
                   effects |-> task.effects]
      BY <2>1, <2>2 DEF IsTask
    <3> QED BY <2>1, <3>1 DEF IsTask
  <2> QED BY <2>1, <2>2, <2>3 DEF LadderInv, LadderHonest, Terminals
<1>5. CASE Directly
  BY <1>5 DEF Directly, LadderInv, LadderHonest, Terminals
<1>6. ASSUME NEW route \in ROUTE_NAMES, NEW inject, NEW approval, NEW attempts, NEW threshold,
             run_robust_task(route, inject, approval, attempts, threshold)
      PROVE  LadderInv'
  BY <1>6 DEF run_robust_task, LadderInv, LadderHonest, Terminals, IsTask, ROUTE_NAMES
<1>7. CASE UNCHANGED robustVars
  BY <1>7 DEF robustVars, vars, LadderInv, LadderHonest, IsTask, RungInv, Looking, Rung
<1> QED BY <1>1, <1>2, <1>3, <1>4, <1>5, <1>6, <1>7 DEF RobustNext, Ladder

-----------------------------------------------------------------------------
(* Theorems                                                                *)

(***************************************************************************)
(* However a workflow is driven, interrupted, killed and resumed, no key   *)
(* is twice in the ledger a run continues, what counts as completed was    *)
(* posted, and nothing was posted without a grant (run_workflow and resume *)
(* of M38).                                                                *)
(***************************************************************************)
THEOREM AgentEffectsHonest == Spec => []EffectsHonest
<1>1. Init => AgentInv
  BY InitSound
<1>2. AgentInv /\ [Next]_vars => AgentInv'
  BY NextSound
<1>3. AgentInv => EffectsHonest
  BY DEF AgentInv, Sound, EffectsHonest
<1> QED BY <1>1, <1>2, <1>3, PTL DEF Spec

(***************************************************************************)
(* The same when the fallback ladder of M39 climbs from run to run.        *)
(***************************************************************************)
THEOREM RobustEffectsHonest == RobustSpec => []EffectsHonest
<1>1. RobustInit => AgentInv
  BY InitSound DEF RobustInit
<1>2. AgentInv /\ [RobustNext]_robustVars => AgentInv'
  BY LadderSound
<1>3. AgentInv => EffectsHonest
  BY DEF AgentInv, Sound, EffectsHonest
<1> QED BY <1>1, <1>2, <1>3, PTL DEF RobustSpec

(***************************************************************************)
(* NeverCutOff, which is what RunEnds says of a step, for any max_steps    *)
(* and any number of runs, and also under the ladder.                      *)
(***************************************************************************)
THEOREM RobustNeverCutOff == RobustSpec => []NeverCutOff
<1>1. RobustInit => BoundInv
  BY InitBounded DEF RobustInit
<1>2. BoundInv /\ [RobustNext]_robustVars => BoundInv'
  BY LadderBounded
<1>3. BoundInv => NeverCutOff
  BY DEF BoundInv
<1> QED BY <1>1, <1>2, <1>3, PTL DEF RobustSpec

(***************************************************************************)
(* What a finished task says is what its runs did, over all of them        *)
(* (run_fallback_ladder of M39): a complete purchase posted once, every    *)
(* other end posted nothing, for any bounds of attempts and failures, as   *)
(* long as a purchase has the three turns it takes.                        *)
(***************************************************************************)
THEOREM LadderHonestHolds == RobustSpec => []LadderHonest
<1>1. RobustInit => BoundInv /\ LadderInv
  BY InitBounded DEF RobustInit, NoTask, LadderInv, LadderHonest, Terminals
<1>2. BoundInv /\ LadderInv /\ [RobustNext]_robustVars => BoundInv' /\ LadderInv'
  BY LadderBounded, LadderKeeps
<1>3. LadderInv => LadderHonest
  BY DEF LadderInv
<1> QED BY <1>1, <1>2, <1>3, PTL DEF RobustSpec
=============================================================================
