-------------------------------- MODULE Planner --------------------------------
(***************************************************************************)
(* ButlerPlanner.plan (src/src/butler_core/planner.py) beside a registry   *)
(* that grows, and the plan's way through an ExecutionEngine on the same   *)
(* registry (execution.py), from one access to shared state to the next.   *)
(*                                                                         *)
(* A provider is asked with the descriptions of the registered tools.      *)
(* describe_tools hands out the parameters mapping of the tool itself, so  *)
(* a provider may write what the planner and the engine validate with.     *)
(* Several plans are made and executed at a time. Schemas and arguments    *)
(* are atoms, related by Accepts; Validation models validate_arguments.    *)
(***************************************************************************)
EXTENDS Permissions, Naturals, Sequences

CONSTANTS
  Plans,           \* the plans made in this behaviour
  Tools,           \* tool names, registered or not
  NoTool,          \* the null of tool_name
  Permission,      \* Permission[t]
  Preregistered,   \* tools in the registry at the start
  Schemas,         \* values a parameters mapping may have
  InitialSchema,   \* InitialSchema[t]: the parameters t is defined with
  Arguments, NoArguments,
  Accepts,         \* pairs of a schema and arguments without an error
  Responses,       \* what providers may return
  Policies         \* policies of the engines

\* The checks of _parse_plan on a decoded payload, in its order.
PayloadChecks ==
  <<"non_object_response", "missing_fields", "invalid_tool_name",
    "invalid_arguments_type", "invalid_confidence", "invalid_reason">>
Flaws == {PayloadChecks[i] : i \in DOMAIN PayloadChecks}

\* A provider's answer: no string, a string json.loads rejects as no JSON or
\* fails on with another exception (nesting too deep, an integer too long),
\* or a payload with some flaws. user_authorized is a field of the payload.
Response ==
  [form : {"non_string", "invalid_json", "undecodable", "json"},
   flaws : SUBSET Flaws, tool : Tools \cup {NoTool}, arguments : Arguments,
   user_authorized : BOOLEAN]

ToolPlan ==
  [tool : Tools \cup {NoTool}, arguments : Arguments, user_authorized : BOOLEAN]

ASSUME ToolsAssumption ==
  /\ NoTool \notin Tools
  /\ Permission \in [Tools -> Permissions]
  /\ Preregistered \subseteq Tools
ASSUME SchemasAssumption ==
  /\ InitialSchema \in [Tools -> Schemas]
  /\ NoArguments \in Arguments
  /\ Accepts \subseteq Schemas \X Arguments
ASSUME EnvironmentAssumption ==
  /\ Responses \subseteq Response
  /\ Policies \subseteq Policy

VARIABLES
  registry,    \* names in ToolRegistry._tools
  schema,      \* schema[t]: what the parameters mapping of t holds now
  policy,      \* the engine's policy
  enabled,     \* ButlerPlanner._enabled
  pc,          \* pc[p]: where plan p is, in plan() or in execute()
  offered,     \* offered[p]: names described to the provider
  plan,        \* plan[p]: the ToolPlan
  answer,      \* answer[p]: error_code of the PlannerResult, "success",
               \*   "raised" for none, "host" for a plan not made by plan()
  confirmed,   \* confirmed[p]: ExecutionRequest.confirmed
  outcome,     \* outcome[p]: status of the ExecutionResult, "allowed" when
               \*   the handler is invoked
  consent,     \* history: the user has authorised p
  rewritten    \* history: parameters of p's tool were written after p was
               \*   validated

planVars == <<offered, plan, answer>>
engineVars == <<confirmed, outcome>>
vars == <<registry, schema, policy, enabled, pc, planVars, engineVars, consent, rewritten>>

NoPlan == [tool |-> NoTool, arguments |-> NoArguments, user_authorized |-> FALSE]

Init ==
  /\ registry = Preregistered
  /\ schema = InitialSchema
  /\ policy \in Policies
  /\ enabled \in BOOLEAN
  /\ pc = [p \in Plans |-> "idle"]
  /\ offered = [p \in Plans |-> {}]
  /\ plan = [p \in Plans |-> NoPlan]
  /\ answer = [p \in Plans |-> "none"]
  /\ confirmed = [p \in Plans |-> FALSE]
  /\ outcome = [p \in Plans |-> "none"]
  /\ consent = [p \in Plans |-> FALSE]
  /\ rewritten = [p \in Plans |-> FALSE]

Goto(p, to) == pc' = [pc EXCEPT ![p] = to]

-----------------------------------------------------------------------------
(* plan()                                                                  *)

\* Every return of plan(), and the exceptions that leave it.
Conclude(p, code) == answer' = [answer EXCEPT ![p] = code] /\ Goto(p, "planned")

\* Mutant: the tools are described from the host's catalogue.
Catalogue == Tools

\* describe_tools
Described == registry

Ask(p) ==
  /\ pc[p] = "idle"
  /\ IF enabled
     THEN /\ offered' = [offered EXCEPT ![p] = Described]
          /\ Goto(p, "asking")
          /\ UNCHANGED answer
     ELSE /\ Conclude(p, "planner_disabled")
          /\ UNCHANGED offered
  /\ UNCHANGED <<registry, schema, policy, enabled, plan, engineVars, consent, rewritten>>

\* While it is asked, the provider may write the mappings it was handed.
Rewrite(p, t, s) ==
  /\ pc[p] = "asking" /\ t \in offered[p]
  /\ schema' = [schema EXCEPT ![t] = s]
  /\ rewritten' = [q \in Plans |-> rewritten[q] \/ (answer[q] = "success" /\ plan[q].tool = t)]
  /\ UNCHANGED <<registry, policy, enabled, pc, planVars, engineVars, consent>>

\* The provider raises: an Exception is a result, a BaseException is not.
ProviderRaises(p, code) ==
  /\ pc[p] = "asking"
  /\ Conclude(p, code)
  /\ UNCHANGED <<registry, schema, policy, enabled, offered, plan, engineVars, consent, rewritten>>

FirstFlaw(r) ==
  LET found == {i \in DOMAIN PayloadChecks : PayloadChecks[i] \in r.flaws}
  IN  PayloadChecks[CHOOSE i \in found : \A j \in found : i <= j]

\* Mutant: the form of a response that is no payload is its error code.
RawForm(r) ==
  IF r.form # "json" THEN r.form
  ELSE IF r.flaws # {} THEN FirstFlaw(r)
  ELSE IF r.tool = NoTool /\ r.arguments # NoArguments THEN "arguments_without_tool"
  ELSE "none"

\* What is wrong with a response before any tool is looked up.
ResponseError(r) ==
  CASE r.form = "non_string"   -> "non_string_response"
    [] r.form = "invalid_json" -> "invalid_json"
    [] r.form = "undecodable"  -> "raised"
    [] OTHER ->
         IF r.flaws # {} THEN FirstFlaw(r)
         ELSE IF r.tool = NoTool /\ r.arguments # NoArguments THEN "arguments_without_tool"
         ELSE "none"

\* Mutant: user_authorized is read from the payload like the other fields.
PlanFromPayload(r) ==
  [tool |-> r.tool, arguments |-> r.arguments, user_authorized |-> r.user_authorized]

\* The last lines of _parse_plan: a provider cannot authorise anything.
ParsedPlan(r) ==
  [tool |-> r.tool, arguments |-> r.arguments, user_authorized |-> FALSE]

Respond(p, r) ==
  /\ pc[p] = "asking"
  /\ IF ResponseError(r) # "none"
     THEN Conclude(p, ResponseError(r)) /\ UNCHANGED plan
     ELSE /\ plan' = [plan EXCEPT ![p] = ParsedPlan(r)]
          /\ IF r.tool = NoTool
             THEN Conclude(p, "success")
             ELSE Goto(p, "lookup") /\ UNCHANGED answer
  /\ UNCHANGED <<registry, schema, policy, enabled, offered, engineVars, consent, rewritten>>

Lookup(p) ==
  /\ pc[p] = "lookup"
  /\ IF plan[p].tool \in registry
     THEN Goto(p, "validate") /\ UNCHANGED answer
     ELSE Conclude(p, "unknown_tool")
  /\ UNCHANGED <<registry, schema, policy, enabled, offered, plan, engineVars, consent, rewritten>>

\* Mutant: the planner leaves validation to the engine.
Unchecked(p) == TRUE

Valid(p) == <<schema[plan[p].tool], plan[p].arguments>> \in Accepts

\* The planner's call of validate_arguments, with the mapping as it is now.
PlanAccepted(p) == Valid(p)

Validate(p) ==
  /\ pc[p] = "validate"
  /\ Conclude(p, IF PlanAccepted(p) THEN "success" ELSE "invalid_arguments")
  /\ UNCHANGED <<registry, schema, policy, enabled, offered, plan, engineVars, consent, rewritten>>

-----------------------------------------------------------------------------
(* The host and its engine. Trusted code makes a ToolPlan of its own, with *)
(* user_authorized when the user asked for it, executes plans, and sends   *)
(* a request again, confirmed, once the user has consented.                *)

MakePlan(p, t, a, authorised) ==
  /\ pc[p] = "idle"
  /\ plan' = [plan EXCEPT ![p] = [tool |-> t, arguments |-> a, user_authorized |-> authorised]]
  /\ consent' = [consent EXCEPT ![p] = authorised]
  /\ Conclude(p, "host")
  /\ UNCHANGED <<registry, schema, policy, enabled, offered, engineVars, rewritten>>

Execute(p) ==
  /\ pc[p] = "planned" /\ answer[p] \in {"success", "host"} /\ plan[p].tool # NoTool
  /\ confirmed' = [confirmed EXCEPT ![p] = plan[p].user_authorized]
  /\ Goto(p, "engine_lookup")
  /\ UNCHANGED <<registry, schema, policy, enabled, planVars, outcome, consent, rewritten>>

Return(p, status) == outcome' = [outcome EXCEPT ![p] = status] /\ Goto(p, "executed")

EngineLookup(p) ==
  /\ pc[p] = "engine_lookup"
  /\ IF plan[p].tool \in registry
     THEN Goto(p, "engine_validate") /\ UNCHANGED outcome
     ELSE Return(p, "tool_not_found")
  /\ UNCHANGED <<registry, schema, policy, enabled, planVars, confirmed, consent, rewritten>>

EngineValidate(p) ==
  /\ pc[p] = "engine_validate"
  /\ IF Valid(p)
     THEN Goto(p, "engine_policy") /\ UNCHANGED outcome
     ELSE Return(p, "invalid_arguments")
  /\ UNCHANGED <<registry, schema, policy, enabled, planVars, confirmed, consent, rewritten>>

EnginePolicy(p) ==
  /\ pc[p] = "engine_policy"
  /\ Return(p, Verdict(Permission[plan[p].tool], policy, confirmed[p]))
  /\ UNCHANGED <<registry, schema, policy, enabled, planVars, confirmed, consent, rewritten>>

Confirm(p) ==
  /\ pc[p] = "executed" /\ outcome[p] = "confirmation_required"
  /\ consent' = [consent EXCEPT ![p] = TRUE]
  /\ confirmed' = [confirmed EXCEPT ![p] = TRUE]
  /\ outcome' = [outcome EXCEPT ![p] = "none"]
  /\ Goto(p, "engine_lookup")
  /\ UNCHANGED <<registry, schema, policy, enabled, planVars, rewritten>>

Register(t) ==
  /\ t \notin registry
  /\ registry' = registry \cup {t}
  /\ UNCHANGED <<schema, policy, enabled, pc, planVars, engineVars, consent, rewritten>>

-----------------------------------------------------------------------------
PlannerStep(p) ==
  \/ Ask(p)
  \/ \E code \in {"provider_error", "raised"} : ProviderRaises(p, code)
  \/ \E r \in Responses : Respond(p, r)
  \/ Lookup(p) \/ Validate(p)

ProviderStep(p) == \E t \in Tools, s \in Schemas : Rewrite(p, t, s)

HostStep(p) ==
  \/ \E t \in Tools, a \in Arguments, authorised \in BOOLEAN : MakePlan(p, t, a, authorised)
  \/ Execute(p) \/ Confirm(p)

EngineStep(p) == EngineLookup(p) \/ EngineValidate(p) \/ EnginePolicy(p)

Next ==
  \/ \E p \in Plans : PlannerStep(p) \/ ProviderStep(p) \/ HostStep(p) \/ EngineStep(p)
  \/ \E t \in Tools : Register(t)

Spec == Init /\ [][Next]_vars
================================================================================
