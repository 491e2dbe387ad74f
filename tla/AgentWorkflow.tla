---------------------------- MODULE AgentWorkflow ----------------------------
(***************************************************************************)
(* The tool-using agent of the flagship missions: the state machine of     *)
(* missions/M38/agent_workflow.py over the tool runtime of missions/M37.   *)
(*                                                                         *)
(* A run drives the agent node by node.  What the model proposes at a      *)
(* decide node is arbitrary.  A run may be interrupted at a node boundary, *)
(* which leaves a checkpoint, and the process that runs it may be killed;  *)
(* any checkpoint may be resumed, any number of times.  Posting to the     *)
(* ledger is the one effect, and its idempotency key names it.             *)
(*                                                                         *)
(* The defects the mission lets a learner switch on are left out, and so   *)
(* is the repair of proposals, which M38 does not use.                     *)
(***************************************************************************)
EXTENDS Integers, Sequences, FiniteSets

CONSTANTS
  Key, LEDGER_KEY,   \* idempotency keys, and that of the purchase
  MaxSteps,          \* the values of max_steps that callers give
  ABSOLUTE_CEILING,
  SafetyCeiling,     \* the values of safety_ceiling, None for the default
  MaxRuns,           \* bound: calls of run_workflow and resume
  None

ASSUME AgentAssumption ==
  /\ MaxSteps \subseteq Nat \ {0}
  /\ ABSOLUTE_CEILING \in Nat /\ MaxRuns \in Nat
  /\ SafetyCeiling \subseteq Nat \cup {None}
  /\ LEDGER_KEY \in Key /\ None \notin Key
  /\ None \notin {"price", "at_post_execute", "at_approve", "after_lookup", "after_post"}

VARIABLES
  agent,   \* AgentState
  ledger,  \* the keys of the entries of the session's ledger
  run,     \* the run_workflow in progress, or what became of the last one
  saved,   \* checkpoints
  runs     \* calls so far

vars == <<agent, ledger, run, saved, runs>>

TERMINALS == {"complete", "denied", "failed", "loop_exhausted"}

ALLOWED_TRANSITIONS ==
  [start |-> {"decide"},
   decide |-> {"validate", "complete", "loop_exhausted", "failed"},
   validate |-> {"approve", "execute", "failed"},
   approve |-> {"execute", "denied"},
   execute |-> {"assimilate", "failed"},
   assimilate |-> {"decide"}]

\* What a model may propose. Only a post has a key, and what it posts is its own.
Proposal ==
  [tool : {"done", "none", "malformed", "lookup", "unknown_sku"}, key : {None}]
    \cup [tool : {"post"}, key : Key]

initial_state(max) ==
  [node |-> "start", model_turn |-> 0, max |-> max, pending |-> None, last |-> None,
   tools |-> <<>>, approval |-> None, completed |-> {}]

-----------------------------------------------------------------------------
(* The nodes: each takes the agent to its next state.                      *)

apply_transition(a, dest) == [a EXCEPT !.node = dest]

Decided(a, p) ==
  [a EXCEPT !.pending = p, !.model_turn = @ + 1,
            !.node = CASE p.tool = "done" -> "complete"
                       [] p.tool = "none" -> "failed"
                       [] OTHER           -> "validate"]

Decide(a, p) ==
  IF a.model_turn >= a.max THEN apply_transition(a, "loop_exhausted") ELSE Decided(a, p)

requires_approval(p) == p.tool = "post"

Validate(a) ==
  apply_transition(a,
    CASE a.pending.tool = "malformed"                               -> "failed"
      [] requires_approval(a.pending) /\ a.approval # "granted"     -> "approve"
      [] OTHER                                                      -> "execute")

\* Without a decision the run stops and the agent stays where it is.
Approve(a, decision) ==
  CASE decision = "granted" -> apply_transition([a EXCEPT !.approval = decision], "execute")
    [] decision = "denied"  -> apply_transition([a EXCEPT !.approval = decision], "denied")
    [] OTHER                -> a

Skips(a) == a.pending.key \in a.completed

\* LedgerState.by_key: remember() is called for every append, and
\* from_snapshot() rebuilds the table from the entries.
Posted(key) == {i \in DOMAIN ledger : ledger[i] = key}

\* execute_tool: whether the call appends to the ledger.
Mutant_ReplayedSideEffect(a) == a.pending.tool = "post"
Appends(a) == a.pending.tool = "post" /\ ~Skips(a) /\ Posted(a.pending.key) = {}

\* The output of a post, or of its replay, is the entry on record.
Output(a) == IF a.pending.tool = "lookup" THEN "price" ELSE "entry"

Execute(a) ==
  CASE Skips(a)                        -> apply_transition(a, "assimilate")
    [] a.pending.tool = "unknown_sku"  -> apply_transition([a EXCEPT !.last = None], "failed")
    [] OTHER -> apply_transition([a EXCEPT !.last = Output(a)], "assimilate")

Assimilate(a) ==
  apply_transition(
    [a EXCEPT !.tools = Append(@, a.pending.tool), !.pending = None,
              !.completed = IF a.pending.key = None THEN @ ELSE @ \cup {a.pending.key}],
    "decide")

Handler(a, p) ==
  CASE a.node = "start"      -> apply_transition(a, "decide")
    [] a.node = "decide"     -> Decide(a, p)
    [] a.node = "validate"   -> Validate(a)
    [] a.node = "approve"    -> Approve(a, run.approval)
    [] a.node = "execute"    -> Execute(a)
    [] a.node = "assimilate" -> Assimilate(a)

-----------------------------------------------------------------------------
(* A run                                                                   *)

InterruptBefore(a) ==
  \/ run.when = "at_post_execute" /\ a.node = "execute" /\ a.pending.tool = "post"
  \/ run.when = "at_approve" /\ a.node = "approve"

Mutant_AfterPostOnly(before, a) ==
  before = "assimilate" /\ run.when = "after_post" /\ LEDGER_KEY \in a.completed
InterruptAfter(before, a) ==
  /\ before = "assimilate"
  /\ \/ run.when = "after_lookup" /\ a.tools = <<"lookup">>
     \/ run.when = "after_post" /\ LEDGER_KEY \in a.completed

Mutant_CountsTurns(a) == IF run.ceiling # None THEN run.ceiling ELSE a.max
Ceiling(a) ==
  IF run.ceiling # None THEN run.ceiling
  ELSE IF ABSOLUTE_CEILING > 8 * a.max THEN ABSOLUTE_CEILING ELSE 8 * a.max

Running == run.at = "running" /\ agent.node \notin TERMINALS

\* The run ends with a checkpoint of the agent and the ledger.
Leave(how, a, entries) ==
  /\ run' = [run EXCEPT !.at = how]
  /\ saved' = saved \cup {[agent |-> a, ledger |-> entries]}

\* Another visit would be one too many.
AbortRun ==
  /\ Running /\ run.visits >= Ceiling(agent)
  /\ Leave("aborted", agent, ledger)
  /\ UNCHANGED <<agent, ledger, runs>>

Interrupt ==
  /\ Running /\ run.visits < Ceiling(agent)
  /\ InterruptBefore(agent)
  /\ Leave("interrupted", agent, ledger)
  /\ UNCHANGED <<agent, ledger, runs>>

Visit(p) ==
  /\ Running /\ run.visits < Ceiling(agent)
  /\ ~InterruptBefore(agent)
  /\ LET a       == Handler(agent, p)
         entries == IF agent.node = "execute" /\ Appends(agent)
                    THEN Append(ledger, agent.pending.key) ELSE ledger
         waits   == a.node = "approve" /\ agent.node = "approve"
     IN  /\ waits \/ a.node \in ALLOWED_TRANSITIONS[agent.node]
         /\ agent' = a /\ ledger' = entries
         /\ IF waits \/ InterruptAfter(agent.node, a) THEN Leave("interrupted", a, entries)
            ELSE /\ run' = [run EXCEPT !.visits = @ + 1,
                              !.at = IF a.node \in TERMINALS THEN "ended" ELSE @]
                 /\ UNCHANGED saved
  /\ UNCHANGED runs

Drive(p) == Visit(p) \/ Interrupt \/ AbortRun

\* The model answers; elsewhere there is nothing to choose.
Choices == IF agent.node = "decide" THEN Proposal ELSE {None}

-----------------------------------------------------------------------------
(* Callers                                                                 *)

Approval == {None, "granted", "denied"}
When == {None, "at_post_execute", "at_approve", "after_lookup", "after_post"}

Begin(a, entries, approval, when, ceiling) ==
  /\ agent' = a /\ ledger' = entries
  /\ run' = [at |-> IF a.node \in TERMINALS THEN "ended" ELSE "running",
             approval |-> approval, when |-> when, ceiling |-> ceiling, visits |-> 0]

Call == run.at # "running" /\ runs < MaxRuns /\ runs' = runs + 1

run_workflow(max, approval, when, ceiling) ==
  /\ Call
  /\ Begin(initial_state(max), <<>>, approval, when, ceiling)
  /\ UNCHANGED saved

resume(c, approval, when, ceiling) ==
  /\ Call
  /\ Begin(c.agent, c.ledger, approval, when, ceiling)
  /\ UNCHANGED saved

\* The process dies; what the run did since the checkpoint goes with it.
Kill ==
  /\ run.at = "running"
  /\ run' = [run EXCEPT !.at = "killed"]
  /\ UNCHANGED <<agent, ledger, saved, runs>>

Init ==
  /\ \E max \in MaxSteps : agent = initial_state(max)
  /\ ledger = <<>>
  /\ run = [at |-> "off", approval |-> None, when |-> None, ceiling |-> None, visits |-> 0]
  /\ saved = {}
  /\ runs = 0

Steps == \E p \in Choices : Drive(p)

Calls ==
  \E approval \in Approval, when \in When, ceiling \in SafetyCeiling :
     \/ \E max \in MaxSteps : run_workflow(max, approval, when, ceiling)
     \/ \E c \in saved : resume(c, approval, when, ceiling)

Next == Steps \/ Calls \/ Kill

Spec == Init /\ [][Next]_vars /\ WF_vars(Steps)

-----------------------------------------------------------------------------
(* Properties                                                              *)

(***************************************************************************)
(* "Continue from a checkpoint without replaying completed side effects"   *)
(* (resume): wherever runs are interrupted, killed and resumed, and        *)
(* whatever the model proposes, no key is posted twice, what counts as     *)
(* completed is in the ledger, an entry that does not count yet is being   *)
(* assimilated, and nothing was posted before a grant.  Checkpoints, which *)
(* are what a run continues from, are no exception.  The ledger is part of *)
(* a checkpoint and goes back with it: this is about one line of runs, and *)
(* two that continue the same checkpoint each post for themselves.         *)
(***************************************************************************)
Honest(a, entries) ==
  /\ \A i, j \in DOMAIN entries : entries[i] = entries[j] => i = j
  /\ a.completed \subseteq {entries[i] : i \in DOMAIN entries}
  /\ \A i \in DOMAIN entries :
       \/ entries[i] \in a.completed
       \/ a.node = "assimilate" /\ a.pending.key = entries[i]
  /\ entries # <<>> => a.approval = "granted"

EffectsHonest ==
  Honest(agent, ledger) /\ \A c \in saved : Honest(c.agent, c.ledger)

(***************************************************************************)
(* The bound on model turns ends every run by itself, or it waits for its  *)
(* caller: a safety ceiling that the caller did not give, and which counts *)
(* the visits of a resumed run anew, is never what stops it, and no node   *)
(* is left without an allowed way on.                                      *)
(***************************************************************************)
RunEnds ==
  (run.at = "running") ~>
    \/ run.at \in {"ended", "interrupted", "killed"}
    \/ run.at = "aborted" /\ run.ceiling # None
=============================================================================
