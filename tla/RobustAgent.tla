----------------------------- MODULE RobustAgent -----------------------------
(***************************************************************************)
(* The fallback ladder of missions/M39/robust_agent.py, which climbs from  *)
(* one run of AgentWorkflow to the next until one succeeds, an attempt     *)
(* bound is reached or a circuit breaker opens.  The purchase is what the  *)
(* first rung tries; the second only looks the price up, and may report a  *)
(* degraded success.                                                       *)
(*                                                                         *)
(* A process uses the agent directly, or for one task.  Tasks come with a  *)
(* route; of the memory store, which decides only about what a task is     *)
(* told, nothing is modelled.                                              *)
(***************************************************************************)
EXTENDS AgentWorkflow

CONSTANTS
  MAX_STEPS,     \* of a purchase or a lookup
  FAIL_STEPS,    \* of an injected failure
  Attempts,      \* the values of max_attempts that callers give
  Thresholds     \* those of circuit_threshold

ASSUME LadderAssumption ==
  /\ {MAX_STEPS, FAIL_STEPS} \subseteq Nat \ {0}
  /\ MAX_STEPS >= 3   \* a purchase takes three turns; the code allows 8
  /\ Attempts \subseteq Nat /\ Thresholds \subseteq Nat

VARIABLES
  task,   \* the call of run_fallback_ladder
  posted  \* history: entries posted over all runs of the task

robustVars == <<vars, task, posted>>

LADDER == <<"primary", "lookup_only">>
ROUTE_NAMES == {"catalog_purchase", "catalog_lookup", "no_match"}
Injections == {None, "primary_failure", "all_failures"}

NoTask == [at |-> "none"]

rung_kind(rung, route) ==
  IF rung = "lookup_only" \/ route = "catalog_lookup" THEN "lookup" ELSE "purchase"

rung_should_fail(rung, inject) ==
  inject = "all_failures" \/ (inject = "primary_failure" /\ rung = "primary")

\* ForcedFailurePolicy and PurchaseSku7Policy.
KnowsPrice(a) == a.last = "price" \/ \E i \in DOMAIN a.tools : a.tools[i] = "lookup"

Plain(tool) == [tool |-> tool, key |-> None]
propose(a) ==
  CASE task.fail -> Plain("malformed")
    [] ~task.fail /\ ~KnowsPrice(a) -> Plain("lookup")
    [] ~task.fail /\ KnowsPrice(a) /\ LEDGER_KEY \notin a.completed ->
         [tool |-> "post", key |-> LEDGER_KEY]
    [] OTHER -> Plain("done")

-----------------------------------------------------------------------------
\* run_robust_task: a task without a route is refused.
run_robust_task(route, inject, approval, attempts, threshold) ==
  /\ task.at = "none" /\ runs = 0
  /\ task' = [at |-> IF route = "no_match" THEN "no_match" ELSE "climb",
              route |-> route, inject |-> inject, approval |-> approval,
              max |-> attempts, threshold |-> threshold,
              attempts |-> 0, failures |-> 0, fail |-> FALSE, effects |-> 0]
  /\ UNCHANGED <<vars, posted>>

Open(failures) == failures > 0 /\ failures >= task.threshold

\* The next rung, in a run of its own with a ledger of its own.
Rung == LADDER[task.attempts]
Climb ==
  /\ task.at = "climb"
  /\ task.attempts < task.max /\ ~Open(task.failures) /\ task.attempts < Len(LADDER)
  /\ LET rung == LADDER[task.attempts + 1]
         fail == rung_should_fail(rung, task.inject)
     IN  /\ Begin(initial_state(IF fail THEN FAIL_STEPS ELSE MAX_STEPS), <<>>, task.approval,
                  IF ~fail /\ rung_kind(rung, task.route) = "lookup" THEN "after_lookup" ELSE None,
                  None)
         /\ task' = [task EXCEPT !.at = "run", !.attempts = @ + 1, !.fail = fail]
  /\ UNCHANGED <<saved, runs, posted>>

\* The run goes on; what it posts is remembered.
Work ==
  /\ task.at = "run"
  /\ Drive(propose(agent))
  /\ posted' = posted + Len(ledger') - Len(ledger)
  /\ UNCHANGED task

\* lookup_ok, or the terminal of a purchase.
Ok ==
  IF rung_kind(Rung, task.route) = "lookup"
  THEN ~task.fail /\ agent.last = "price"
  ELSE ~task.fail /\ agent.node = "complete"

Judge ==
  /\ task.at = "run" /\ run.at # "running"
  /\ task' = [task EXCEPT
       !.effects = Len(ledger),
       !.failures = IF Ok THEN 0 ELSE @ + 1,
       !.at = CASE ~Ok -> "climb"
                [] Ok /\ rung_kind(Rung, task.route) = "lookup"
                      /\ task.route = "catalog_purchase" -> "degraded"
                [] OTHER -> "complete"]
  /\ UNCHANGED <<vars, posted>>

\* No rung is left, or no attempt, or the circuit is open.
GiveUp ==
  /\ task.at = "climb"
  /\ task.attempts >= task.max \/ Open(task.failures) \/ task.attempts >= Len(LADDER)
  /\ task' = [task EXCEPT !.at = IF Open(task.failures) THEN "circuit_open" ELSE "failed"]
  /\ UNCHANGED <<vars, posted>>

Ladder == Climb \/ Work \/ Judge \/ GiveUp

Directly == task.at = "none" /\ Next /\ UNCHANGED <<task, posted>>

RobustInit == Init /\ task = NoTask /\ posted = 0

RobustNext ==
  \/ Ladder \/ Directly
  \/ \E route \in ROUTE_NAMES, inject \in Injections, approval \in Approval,
        attempts \in Attempts, threshold \in Thresholds :
       run_robust_task(route, inject, approval, attempts, threshold)

RobustSpec ==
  /\ RobustInit /\ [][RobustNext]_robustVars
  /\ WF_robustVars(Ladder)
  /\ WF_robustVars(task.at = "none" /\ Steps /\ UNCHANGED <<task, posted>>)

-----------------------------------------------------------------------------
(* Properties                                                              *)

Terminals == {"complete", "degraded", "no_match", "failed", "circuit_open"}

(***************************************************************************)
(* "Degraded success is explicit and is not silent incorrect success"      *)
(* (SCALE_LIMIT): what a finished task says is what its runs did, over all *)
(* of them and not only the last: a purchase that is complete posted once, *)
(* every other end of a task posted nothing, and the number of effects it  *)
(* reports is that of all its runs.                                        *)
(***************************************************************************)
LadderHonest ==
  task.at \in Terminals =>
    /\ posted = IF task.at = "complete" /\ task.route = "catalog_purchase" THEN 1 ELSE 0
    /\ task.effects = posted
    /\ task.at = "degraded" => task.route = "catalog_purchase"
=============================================================================
