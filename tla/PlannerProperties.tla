--------------------------- MODULE PlannerProperties ---------------------------
(***************************************************************************)
(* What a host may rely on when it executes what the planner planned.      *)
(***************************************************************************)
EXTENDS Planner

Codes ==
  Flaws \cup {"none", "success", "raised", "host", "planner_disabled", "provider_error",
              "non_string_response", "invalid_json", "arguments_without_tool",
              "unknown_tool", "invalid_arguments"}

Outcomes ==
  {"none", "tool_not_found", "invalid_arguments", "denied", "confirmation_required", "allowed"}

\* Every variable holds a value of its kind in every reachable state.
TypeOK ==
  /\ registry \in SUBSET Tools
  /\ schema \in [Tools -> Schemas]
  /\ policy \in Policy
  /\ enabled \in BOOLEAN
  /\ pc \in [Plans -> {"idle", "asking", "lookup", "validate", "planned", "engine_lookup",
                       "engine_validate", "engine_policy", "executed"}]
  /\ offered \in [Plans -> SUBSET Tools]
  /\ plan \in [Plans -> ToolPlan]
  /\ answer \in [Plans -> Codes]
  /\ confirmed \in [Plans -> BOOLEAN]
  /\ outcome \in [Plans -> Outcomes]
  /\ consent \in [Plans -> BOOLEAN]
  /\ rewritten \in [Plans -> BOOLEAN]

\* A plan that plan() returned as SUCCESS stays executable, however long the
\* host waits and whatever is registered or planned meanwhile: its tool is
\* found, and its arguments are refused only if some provider has written
\* the tool's parameters since they were validated.
PlansStayExecutable ==
  \A p \in Plans :
    answer[p] = "success" =>
      /\ outcome[p] # "tool_not_found"
      /\ outcome[p] = "invalid_arguments" => rewritten[p]

NeedsConfirmation(t) ==
  \/ Permission[t] = "ACTION" /\ policy.require_action_confirmation
  \/ Permission[t] = "DANGEROUS" /\ policy.require_dangerous_confirmation

\* Nothing a provider returns, or writes, stands for the user: where the
\* policy asks for confirmation a planned tool is invoked only after the
\* user has authorised that very plan.
ProvidersCannotAuthorise ==
  \A p \in Plans :
    outcome[p] = "allowed" /\ NeedsConfirmation(plan[p].tool) => consent[p]

\* A provider that picks one of the tools it was offered is never told that
\* the tool is unknown.
OfferedToolsAreKnown ==
  \A p \in Plans : answer[p] = "unknown_tool" => plan[p].tool \notin offered[p]
================================================================================
