----------------------------- MODULE PlannerProofs -----------------------------
(***************************************************************************)
(* Proofs about Planner for every set of plans, tools, schemas, arguments, *)
(* provider responses and policies.                                        *)
(***************************************************************************)
EXTENDS PlannerProperties, TLAPS

-----------------------------------------------------------------------------
(* The inductive invariants. PlanInv follows a plan from the offer to its  *)
(* outcome: what has been looked up stays registered, and what has been    *)
(* validated stays valid or is marked as rewritten. ConsentInv follows the *)
(* user's authorisation.                                                   *)

Planning == {"idle", "asking", "lookup", "validate"}
Executing == {"engine_lookup", "engine_validate", "engine_policy", "executed"}

PlanInv(p) ==
  /\ offered[p] \subseteq registry
  /\ pc[p] \in Planning => answer[p] = "none"
  /\ pc[p] \in Planning \cup {"planned"} => outcome[p] = "none" /\ ~confirmed[p]
  /\ pc[p] \in Executing => answer[p] \in {"success", "host"} /\ plan[p].tool # NoTool
  /\ pc[p] \in {"lookup", "validate"} => plan[p].tool # NoTool
  /\ pc[p] = "validate" => plan[p].tool \in registry
  /\ answer[p] = "unknown_tool" => plan[p].tool \notin offered[p]
  /\ answer[p] = "success" /\ plan[p].tool # NoTool =>
       plan[p].tool \in registry /\ (rewritten[p] \/ Valid(p))
  /\ answer[p] = "success" =>
       outcome[p] # "tool_not_found" /\ (outcome[p] = "invalid_arguments" => rewritten[p])

ConsentInv(p) ==
  /\ plan[p].user_authorized => consent[p]
  /\ confirmed[p] => consent[p]
  /\ outcome[p] = "allowed" /\ NeedsConfirmation(plan[p].tool) => consent[p]

-----------------------------------------------------------------------------
(* Types.                                                                  *)

LEMMA FirstFlawType ==
  ASSUME NEW r \in Responses, r.flaws # {}
  PROVE  FirstFlaw(r) \in Flaws
<1> DEFINE found == {i \in DOMAIN PayloadChecks : PayloadChecks[i] \in r.flaws}
<1>1. r.flaws \subseteq Flaws
  BY EnvironmentAssumption DEF Response
<1>2. \E i \in found : \A j \in found : i <= j
  <2>1. DOMAIN PayloadChecks = 1..6
    BY DEF PayloadChecks
  <2>2. found # {}
    BY <1>1 DEF Flaws
  <2>3. found \subseteq 1..6
    BY <2>1
  <2>4. 1 \in found \/ 2 \in found \/ 3 \in found \/ 4 \in found \/ 5 \in found \/ 6 \in found
    BY <2>2, <2>3
  <2> HIDE DEF found
  <2>5. QED BY <2>3, <2>4
<1>3. FirstFlaw(r) = PayloadChecks[CHOOSE i \in found : \A j \in found : i <= j]
  BY DEF FirstFlaw
<1>4. (CHOOSE i \in found : \A j \in found : i <= j) \in found
  <2> HIDE DEF found
  <2>1. QED BY <1>2
<1>5. QED
  BY <1>3, <1>4 DEF Flaws

LEMMA ResponseErrorType ==
  ASSUME NEW r \in Responses
  PROVE  ResponseError(r) \in Codes \ {"success", "host", "unknown_tool"}
<1>1. r.form \in {"non_string", "invalid_json", "undecodable", "json"}
  BY EnvironmentAssumption DEF Response
<1>2. ASSUME NEW f \in Flaws PROVE f \in Codes \ {"success", "host", "unknown_tool"}
  BY DEF Flaws, PayloadChecks, Codes
<1>3. r.flaws # {} => FirstFlaw(r) \in Codes \ {"success", "host", "unknown_tool"}
  BY <1>2, FirstFlawType
<1>4. QED BY <1>1, <1>3 DEF ResponseError, Codes

LEMMA ParsedPlanType ==
  ASSUME NEW r \in Responses
  PROVE  /\ ParsedPlan(r) \in ToolPlan
         /\ ParsedPlan(r).tool = r.tool
         /\ ~ParsedPlan(r).user_authorized
  BY EnvironmentAssumption DEF Response, ParsedPlan, ToolPlan

LEMMA VerdictType ==
  ASSUME TypeOK, NEW p \in Plans, plan[p].tool # NoTool
  PROVE  Verdict(Permission[plan[p].tool], policy, confirmed[p]) \in Outcomes \ {"none"}
<1>1. Permission[plan[p].tool] \in {"READ", "ACTION", "DANGEROUS"}
  BY ToolsAssumption DEF TypeOK, ToolPlan, Permissions
<1>2. QED BY <1>1 DEF Verdict, Outcomes

-----------------------------------------------------------------------------
(* What each step changes, for one plan: the equations of the actions with *)
(* their case distinctions resolved.                                       *)

Fixed == UNCHANGED <<registry, schema, policy, enabled>>

LEMMA AskStep ==
  ASSUME NEW p \in Plans, Ask(p)
  PROVE  /\ Fixed /\ UNCHANGED <<plan, engineVars, consent, rewritten>> /\ pc[p] = "idle"
         /\ \/ /\ offered' = [offered EXCEPT ![p] = registry]
               /\ pc' = [pc EXCEPT ![p] = "asking"] /\ answer' = answer
            \/ /\ offered' = offered
               /\ pc' = [pc EXCEPT ![p] = "planned"]
               /\ answer' = [answer EXCEPT ![p] = "planner_disabled"]
  BY DEF Ask, Fixed, Described, Conclude, Goto

LEMMA ConcludingStep ==
  ASSUME NEW p \in Plans,
         Validate(p) \/ \E code \in {"provider_error", "raised"} : ProviderRaises(p, code)
  PROVE  /\ Fixed /\ UNCHANGED <<offered, plan, engineVars, consent, rewritten>>
         /\ pc' = [pc EXCEPT ![p] = "planned"]
         /\ \E code \in {"provider_error", "raised", "success", "invalid_arguments"} :
              /\ answer' = [answer EXCEPT ![p] = code]
              /\ pc[p] = "asking" => code \in {"provider_error", "raised"}
              /\ code = "success" => Valid(p)
         /\ pc[p] \in {"asking", "validate"}
<1>1. CASE Validate(p)
  BY <1>1 DEF Validate, Fixed, Conclude, Goto, PlanAccepted
<1>2. CASE \E code \in {"provider_error", "raised"} : ProviderRaises(p, code)
  BY <1>2 DEF ProviderRaises, Fixed, Conclude, Goto
<1>3. QED BY <1>1, <1>2

LEMMA RespondStep ==
  ASSUME NEW p \in Plans, NEW r \in Responses, Respond(p, r)
  PROVE  /\ Fixed /\ UNCHANGED <<offered, engineVars, consent, rewritten>> /\ pc[p] = "asking"
         /\ \/ /\ plan' = plan /\ pc' = [pc EXCEPT ![p] = "planned"]
               /\ \E code \in Codes \ {"success", "host", "unknown_tool"} :
                    answer' = [answer EXCEPT ![p] = code]
            \/ /\ plan' = [plan EXCEPT ![p] = ParsedPlan(r)] /\ r.tool = NoTool
               /\ pc' = [pc EXCEPT ![p] = "planned"]
               /\ answer' = [answer EXCEPT ![p] = "success"]
            \/ /\ plan' = [plan EXCEPT ![p] = ParsedPlan(r)] /\ r.tool # NoTool
               /\ pc' = [pc EXCEPT ![p] = "lookup"] /\ answer' = answer
<1>1. ResponseError(r) \in Codes \ {"success", "host", "unknown_tool"}
  BY ResponseErrorType
<1>2. CASE ResponseError(r) # "none"
  BY <1>1, <1>2 DEF Respond, Fixed, Conclude, Goto
<1>3. CASE ResponseError(r) = "none" /\ r.tool = NoTool
  BY <1>3 DEF Respond, Fixed, Conclude, Goto
<1>4. CASE ResponseError(r) = "none" /\ r.tool # NoTool
  BY <1>4 DEF Respond, Fixed, Conclude, Goto
<1>5. QED BY <1>2, <1>3, <1>4

LEMMA LookupStep ==
  ASSUME NEW p \in Plans, Lookup(p)
  PROVE  /\ Fixed /\ UNCHANGED <<offered, plan, engineVars, consent, rewritten>>
         /\ pc[p] = "lookup"
         /\ \/ /\ plan[p].tool \in registry
               /\ pc' = [pc EXCEPT ![p] = "validate"] /\ answer' = answer
            \/ /\ plan[p].tool \notin registry
               /\ pc' = [pc EXCEPT ![p] = "planned"]
               /\ answer' = [answer EXCEPT ![p] = "unknown_tool"]
  BY DEF Lookup, Fixed, Conclude, Goto

LEMMA EngineSteps ==
  ASSUME NEW p \in Plans, EngineStep(p)
  PROVE  /\ Fixed /\ UNCHANGED <<planVars, confirmed, consent, rewritten>>
         /\ pc[p] \in Executing
         /\ \/ outcome' = outcome /\ \E to \in Executing : pc' = [pc EXCEPT ![p] = to]
            \/ /\ pc' = [pc EXCEPT ![p] = "executed"]
               /\ \/ /\ plan[p].tool \notin registry
                     /\ outcome' = [outcome EXCEPT ![p] = "tool_not_found"]
                  \/ /\ ~Valid(p)
                     /\ outcome' = [outcome EXCEPT ![p] = "invalid_arguments"]
                  \/ outcome' = [outcome EXCEPT ![p] =
                                   Verdict(Permission[plan[p].tool], policy, confirmed[p])]
<1>1. CASE EngineLookup(p)
  BY <1>1 DEF EngineLookup, Fixed, Return, Goto, Executing
<1>2. CASE EngineValidate(p)
  BY <1>2 DEF EngineValidate, Fixed, Return, Goto, Executing
<1>3. CASE EnginePolicy(p)
  BY <1>3 DEF EnginePolicy, Fixed, Return, Goto, Executing
<1>4. QED BY <1>1, <1>2, <1>3 DEF EngineStep

-----------------------------------------------------------------------------
(* Type correctness.                                                       *)

LEMMA NoPlanType == NoPlan \in ToolPlan
  BY SchemasAssumption DEF NoPlan, ToolPlan

LEMMA TypeInit == Init => TypeOK
<1> SUFFICES ASSUME Init PROVE TypeOK
    OBVIOUS
<1>1. /\ registry \in SUBSET Tools /\ schema \in [Tools -> Schemas] /\ policy \in Policy
      /\ enabled \in BOOLEAN
  BY ToolsAssumption, SchemasAssumption, EnvironmentAssumption DEF Init
<1>2. QED BY <1>1, NoPlanType DEF Init, TypeOK, Codes, Outcomes

LEMMA TypeStep == TypeOK /\ (\A p \in Plans : PlanInv(p)) /\ [Next]_vars => TypeOK'
<1> SUFFICES ASSUME TypeOK, \A p \in Plans : PlanInv(p), [Next]_vars PROVE TypeOK'
    OBVIOUS
<1> USE DEF TypeOK, Fixed, planVars, engineVars
<1>1. ASSUME NEW p \in Plans, Ask(p) PROVE TypeOK'
  <2>1. offered' \in [Plans -> SUBSET Tools]
    BY <1>1, AskStep
  <2>2. answer' \in [Plans -> Codes]
    BY <1>1, AskStep DEF Codes
  <2>3. \E to \in {"asking", "planned"} : pc' = [pc EXCEPT ![p] = to]
    BY <1>1, AskStep
  <2>4. UNCHANGED <<registry, schema, policy, enabled, plan, engineVars, consent, rewritten>>
    BY <1>1, AskStep
  <2>5. QED BY <2>1, <2>2, <2>3, <2>4
<1>2. ASSUME NEW p \in Plans,
             Validate(p) \/ \E code \in {"provider_error", "raised"} : ProviderRaises(p, code)
      PROVE  TypeOK'
  <2>1. PICK code \in {"provider_error", "raised", "success", "invalid_arguments"} :
               answer' = [answer EXCEPT ![p] = code]
    BY <1>2, ConcludingStep
  <2>2. code \in Codes
    BY DEF Codes
  <2>3. /\ pc' = [pc EXCEPT ![p] = "planned"]
        /\ UNCHANGED <<registry, schema, policy, enabled, offered, plan, engineVars, consent, rewritten>>
    BY <1>2, ConcludingStep
  <2>4. QED BY <2>1, <2>2, <2>3
<1>3. ASSUME NEW p \in Plans, NEW r \in Responses, Respond(p, r) PROVE TypeOK'
  <2>1. plan' \in [Plans -> ToolPlan]
    BY <1>3, RespondStep, ParsedPlanType
  <2>2. answer' \in [Plans -> Codes]
    <3>1. \E code \in Codes : answer' = [answer EXCEPT ![p] = code] \/ answer' = answer
      BY <1>3, RespondStep DEF Codes
    <3>2. QED BY <3>1
  <2>3. \E to \in {"planned", "lookup"} : pc' = [pc EXCEPT ![p] = to]
    BY <1>3, RespondStep
  <2>4. UNCHANGED <<registry, schema, policy, enabled, offered, engineVars, consent, rewritten>>
    BY <1>3, RespondStep
  <2>5. QED BY <2>1, <2>2, <2>3, <2>4
<1>4. ASSUME NEW p \in Plans, Lookup(p) PROVE TypeOK'
  <2>1. answer' \in [Plans -> Codes]
    BY <1>4, LookupStep DEF Codes
  <2>2. \E to \in {"planned", "validate"} : pc' = [pc EXCEPT ![p] = to]
    BY <1>4, LookupStep
  <2>3. UNCHANGED <<registry, schema, policy, enabled, offered, plan, engineVars, consent, rewritten>>
    BY <1>4, LookupStep
  <2>4. QED BY <2>1, <2>2, <2>3
<1>5. ASSUME NEW p \in Plans, EngineStep(p) PROVE TypeOK'
  <2>1. plan[p].tool # NoTool
    BY <1>5, EngineSteps DEF PlanInv
  <2>2. Verdict(Permission[plan[p].tool], policy, confirmed[p]) \in Outcomes
    BY <2>1, VerdictType
  <2>3. \E s \in Outcomes : outcome' = [outcome EXCEPT ![p] = s] \/ outcome' = outcome
    BY <1>5, <2>2, EngineSteps DEF Outcomes
  <2>4. \E to \in Executing : pc' = [pc EXCEPT ![p] = to]
    BY <1>5, EngineSteps DEF Executing
  <2>5. UNCHANGED <<registry, schema, policy, enabled, planVars, confirmed, consent, rewritten>>
    BY <1>5, EngineSteps
  <2>6. QED BY <2>3, <2>4, <2>5 DEF Executing
<1>6. ASSUME NEW p \in Plans, NEW t \in Tools, NEW s \in Schemas, Rewrite(p, t, s) PROVE TypeOK'
  <2>1. /\ schema' = [schema EXCEPT ![t] = s]
        /\ rewritten' = [q \in Plans |-> rewritten[q] \/ (answer[q] = "success" /\ plan[q].tool = t)]
        /\ UNCHANGED <<registry, policy, enabled, pc, planVars, engineVars, consent>>
    BY <1>6 DEF Rewrite
  <2>2. rewritten' \in [Plans -> BOOLEAN]
    BY <2>1
  <2>3. schema' \in [Tools -> Schemas]
    BY <2>1
  <2>4. QED BY <2>1, <2>2, <2>3
<1>7. ASSUME NEW p \in Plans, NEW t \in Tools, NEW a \in Arguments, NEW authorised \in BOOLEAN,
             MakePlan(p, t, a, authorised)
      PROVE  TypeOK'
  <2>1. [tool |-> t, arguments |-> a, user_authorized |-> authorised] \in ToolPlan
    BY DEF ToolPlan
  <2>2. /\ plan' = [plan EXCEPT ![p] = [tool |-> t, arguments |-> a, user_authorized |-> authorised]]
        /\ consent' = [consent EXCEPT ![p] = authorised]
        /\ answer' = [answer EXCEPT ![p] = "host"] /\ pc' = [pc EXCEPT ![p] = "planned"]
        /\ UNCHANGED <<registry, schema, policy, enabled, offered, engineVars, rewritten>>
    BY <1>7 DEF MakePlan, Conclude, Goto
  <2>3. "host" \in Codes
    BY DEF Codes
  <2>4. QED BY <2>1, <2>2, <2>3
<1>8. ASSUME NEW p \in Plans, Execute(p) PROVE TypeOK'
  <2>1. plan[p].user_authorized \in BOOLEAN
    BY DEF ToolPlan
  <2>2. /\ confirmed' = [confirmed EXCEPT ![p] = plan[p].user_authorized]
        /\ pc' = [pc EXCEPT ![p] = "engine_lookup"]
        /\ UNCHANGED <<registry, schema, policy, enabled, planVars, outcome, consent, rewritten>>
    BY <1>8 DEF Execute, Goto
  <2>3. QED BY <2>1, <2>2
<1>9. ASSUME NEW p \in Plans, Confirm(p) PROVE TypeOK'
  <2>1. /\ consent' = [consent EXCEPT ![p] = TRUE] /\ confirmed' = [confirmed EXCEPT ![p] = TRUE]
        /\ outcome' = [outcome EXCEPT ![p] = "none"] /\ pc' = [pc EXCEPT ![p] = "engine_lookup"]
        /\ UNCHANGED <<registry, schema, policy, enabled, planVars, rewritten>>
    BY <1>9 DEF Confirm, Goto
  <2>2. QED BY <2>1 DEF Outcomes
<1>10. ASSUME NEW t \in Tools, Register(t) PROVE TypeOK'
  BY <1>10 DEF Register
<1>11. CASE UNCHANGED vars
  BY <1>11 DEF vars
<1>12. QED
  BY <1>1, <1>2, <1>3, <1>4, <1>5, <1>6, <1>7, <1>8, <1>9, <1>10, <1>11
     DEF Next, PlannerStep, ProviderStep, HostStep

-----------------------------------------------------------------------------
(* The invariants of a plan and of the user's consent.                     *)

\* A step of one plan leaves what is recorded of every other plan alone, but
\* for the marks that Rewrite sets.
LEMMA OtherPlans ==
  ASSUME TypeOK, NEW p \in Plans, NEW q \in Plans \ {p},
         PlannerStep(p) \/ HostStep(p) \/ EngineStep(p)
  PROVE  /\ registry' = registry /\ schema' = schema /\ policy' = policy
         /\ pc'[q] = pc[q] /\ offered'[q] = offered[q] /\ plan'[q] = plan[q]
         /\ answer'[q] = answer[q] /\ confirmed'[q] = confirmed[q] /\ outcome'[q] = outcome[q]
         /\ consent'[q] = consent[q] /\ rewritten'[q] = rewritten[q]
<1> USE DEF TypeOK, Conclude, Goto, Return, planVars, engineVars
<1>1. CASE PlannerStep(p)
  <2>1. CASE Ask(p)
    BY <2>1 DEF Ask
  <2>2. CASE \E code \in {"provider_error", "raised"} : ProviderRaises(p, code)
    BY <2>2 DEF ProviderRaises
  <2>3. ASSUME NEW r \in Responses, Respond(p, r)
        PROVE  /\ registry' = registry /\ schema' = schema /\ policy' = policy
               /\ pc'[q] = pc[q] /\ offered'[q] = offered[q] /\ plan'[q] = plan[q]
               /\ answer'[q] = answer[q] /\ confirmed'[q] = confirmed[q] /\ outcome'[q] = outcome[q]
               /\ consent'[q] = consent[q] /\ rewritten'[q] = rewritten[q]
    BY <2>3, RespondStep DEF Fixed
  <2>4. CASE Lookup(p)
    BY <2>4 DEF Lookup
  <2>5. CASE Validate(p)
    BY <2>5 DEF Validate
  <2>6. QED BY <1>1, <2>1, <2>2, <2>3, <2>4, <2>5 DEF PlannerStep
<1>2. CASE HostStep(p)
  BY <1>2 DEF HostStep, MakePlan, Execute, Confirm
<1>3. CASE EngineStep(p)
  BY <1>3 DEF EngineStep, EngineLookup, EngineValidate, EnginePolicy
<1>4. QED BY <1>1, <1>2, <1>3

LEMMA PlanInvInit == Init => \A p \in Plans : PlanInv(p) /\ ConsentInv(p)
  BY DEF Init, PlanInv, ConsentInv, Planning, Executing, NoPlan

LEMMA PlanInvStep ==
  ASSUME TypeOK, \A p \in Plans : PlanInv(p), [Next]_vars, NEW q \in Plans
  PROVE  PlanInv(q)'
<1> USE DEF PlanInv, TypeOK, Planning, Executing, Valid, Fixed, planVars, engineVars
<1>0. /\ PlanInv(q) /\ plan[q] \in ToolPlan
      /\ pc[q] \in Planning \cup Executing \cup {"planned"}
  OBVIOUS
<1>1. ASSUME Ask(q) PROVE PlanInv(q)'
  BY <1>0, <1>1, AskStep
<1>2. ASSUME Validate(q) \/ \E code \in {"provider_error", "raised"} : ProviderRaises(q, code)
      PROVE  PlanInv(q)'
  <2>1. PICK code \in {"provider_error", "raised", "success", "invalid_arguments"} :
          /\ answer' = [answer EXCEPT ![q] = code]
          /\ pc[q] = "asking" => code \in {"provider_error", "raised"}
          /\ code = "success" => Valid(q)
    BY <1>2, ConcludingStep
  <2>2. /\ Fixed /\ UNCHANGED <<offered, plan, engineVars, consent, rewritten>>
        /\ pc' = [pc EXCEPT ![q] = "planned"] /\ pc[q] \in {"asking", "validate"}
    BY <1>2, ConcludingStep
  <2>3. QED BY <1>0, <2>1, <2>2
<1>3. ASSUME NEW r \in Responses, Respond(q, r) PROVE PlanInv(q)'
  <2>1. /\ Fixed /\ UNCHANGED <<offered, engineVars, consent, rewritten>> /\ pc[q] = "asking"
    BY <1>3, RespondStep
  <2>2. CASE /\ plan' = plan /\ pc' = [pc EXCEPT ![q] = "planned"]
             /\ \E code \in Codes \ {"success", "host", "unknown_tool"} :
                  answer' = [answer EXCEPT ![q] = code]
    BY <1>0, <2>1, <2>2
  <2>3. CASE /\ plan' = [plan EXCEPT ![q] = ParsedPlan(r)] /\ r.tool = NoTool
             /\ pc' = [pc EXCEPT ![q] = "planned"]
             /\ answer' = [answer EXCEPT ![q] = "success"]
    <3>1. plan'[q].tool = NoTool
      BY <2>3, ParsedPlanType
    <3>2. QED BY <1>0, <2>1, <2>3, <3>1
  <2>4. CASE /\ plan' = [plan EXCEPT ![q] = ParsedPlan(r)] /\ r.tool # NoTool
             /\ pc' = [pc EXCEPT ![q] = "lookup"] /\ answer' = answer
    <3>1. plan'[q].tool # NoTool
      BY <2>4, ParsedPlanType
    <3>2. QED BY <1>0, <2>1, <2>4, <3>1
  <2>5. QED BY <1>3, <2>2, <2>3, <2>4, RespondStep
<1>4. ASSUME Lookup(q) PROVE PlanInv(q)'
  BY <1>0, <1>4, LookupStep
<1>5. ASSUME EngineStep(q) PROVE PlanInv(q)'
  <2>1. /\ Fixed /\ UNCHANGED <<planVars, confirmed, consent, rewritten>> /\ pc[q] \in Executing
        /\ \E to \in Executing : pc' = [pc EXCEPT ![q] = to]
    BY <1>5, EngineSteps
  <2>2. plan[q].tool # NoTool
    BY <1>0, <2>1
  <2>3. Verdict(Permission[plan[q].tool], policy, confirmed[q])
           \notin {"tool_not_found", "invalid_arguments"}
    BY <2>2, ToolsAssumption DEF Verdict, Permissions, ToolPlan
  <2>4. answer[q] = "success" =>
          outcome'[q] # "tool_not_found" /\ (outcome'[q] = "invalid_arguments" => rewritten[q])
    BY <1>0, <1>5, <2>2, <2>3, EngineSteps
  <2>5. QED BY <1>0, <2>1, <2>2, <2>4
<1>6. ASSUME NEW p \in Plans, NEW t \in Tools, NEW s \in Schemas, Rewrite(p, t, s)
      PROVE  PlanInv(q)'
  <2>1. /\ schema' = [schema EXCEPT ![t] = s]
        /\ rewritten'[q] = (rewritten[q] \/ (answer[q] = "success" /\ plan[q].tool = t))
        /\ UNCHANGED <<registry, policy, enabled, pc, planVars, engineVars, consent>>
    BY <1>6 DEF Rewrite
  <2>2. plan[q].tool # t => schema'[plan[q].tool] = schema[plan[q].tool]
    BY <2>1
  <2>3. QED BY <1>0, <2>1, <2>2
<1>7. ASSUME NEW t \in Tools, NEW a \in Arguments, NEW authorised \in BOOLEAN,
             MakePlan(q, t, a, authorised)
      PROVE  PlanInv(q)'
  BY <1>0, <1>7 DEF MakePlan, Conclude, Goto
<1>8. ASSUME Execute(q) PROVE PlanInv(q)'
  BY <1>0, <1>8 DEF Execute, Goto
<1>9. ASSUME Confirm(q) PROVE PlanInv(q)'
  BY <1>0, <1>9 DEF Confirm, Goto
<1>10. ASSUME NEW t \in Tools, Register(t) PROVE PlanInv(q)'
  <2>1. /\ registry' = registry \cup {t}
        /\ UNCHANGED <<schema, policy, enabled, pc, planVars, engineVars, consent, rewritten>>
    BY <1>10 DEF Register
  <2>2. QED BY <1>0, <2>1
<1>11. ASSUME NEW p \in Plans \ {q}, PlannerStep(p) \/ HostStep(p) \/ EngineStep(p)
       PROVE  PlanInv(q)'
  BY <1>0, <1>11, OtherPlans
<1>12. CASE UNCHANGED vars
  BY <1>0, <1>12 DEF vars
<1> HIDE DEF PlanInv, TypeOK, Planning, Executing, Valid, Fixed, planVars, engineVars
<1>13. ASSUME PlannerStep(q) \/ HostStep(q) \/ EngineStep(q) PROVE PlanInv(q)'
  BY <1>1, <1>2, <1>3, <1>4, <1>5, <1>7, <1>8, <1>9, <1>13 DEF PlannerStep, HostStep
<1>14. ASSUME NEW p \in Plans, ProviderStep(p) PROVE PlanInv(q)'
  BY <1>6, <1>14 DEF ProviderStep
<1>15. QED
  BY <1>10, <1>11, <1>12, <1>13, <1>14 DEF Next

LEMMA ConsentInvStep ==
  ASSUME TypeOK, \A p \in Plans : PlanInv(p) /\ ConsentInv(p), [Next]_vars, NEW q \in Plans
  PROVE  ConsentInv(q)'
<1> USE DEF TypeOK, ConsentInv, NeedsConfirmation
<1>0. ConsentInv(q) /\ plan[q] \in ToolPlan
  OBVIOUS
<1>1. ASSUME PlannerStep(q) PROVE ConsentInv(q)'
  <2>1. /\ UNCHANGED <<policy, engineVars, consent>>
        /\ outcome[q] = "none"
        /\ plan'[q] = plan[q] \/ ~plan'[q].user_authorized
    <3>1. CASE Ask(q) \/ Lookup(q)
      BY <3>1, AskStep, LookupStep DEF Fixed, PlanInv, Planning
    <3>2. CASE Validate(q) \/ \E code \in {"provider_error", "raised"} : ProviderRaises(q, code)
      BY <3>2, ConcludingStep DEF Fixed, PlanInv, Planning
    <3>3. ASSUME NEW r \in Responses, Respond(q, r)
          PROVE  /\ UNCHANGED <<policy, engineVars, consent>>
                 /\ outcome[q] = "none"
                 /\ plan'[q] = plan[q] \/ ~plan'[q].user_authorized
      <4>1. plan' = plan \/ plan' = [plan EXCEPT ![q] = ParsedPlan(r)]
        BY <3>3, RespondStep
      <4>2. QED BY <3>3, <4>1, RespondStep, ParsedPlanType DEF Fixed, PlanInv, Planning
    <3>4. QED BY <1>1, <3>1, <3>2, <3>3 DEF PlannerStep
  <2>2. QED BY <1>0, <2>1 DEF engineVars
<1>2. ASSUME EngineStep(q) PROVE ConsentInv(q)'
  <2>1. /\ Fixed /\ UNCHANGED <<planVars, confirmed, consent, rewritten>> /\ pc[q] \in Executing
    BY <1>2, EngineSteps
  <2>2. plan[q].tool \in Tools
    BY <1>0, <2>1 DEF PlanInv, ToolPlan
  <2>3. Verdict(Permission[plan[q].tool], policy, confirmed[q]) = "allowed"
           /\ NeedsConfirmation(plan[q].tool) => confirmed[q]
    BY <2>2, ToolsAssumption DEF Verdict, Permissions
  <2>4. outcome'[q] = outcome[q] \/ outcome'[q] # "allowed"
          \/ outcome'[q] = Verdict(Permission[plan[q].tool], policy, confirmed[q])
    BY <1>2, EngineSteps
  <2>5. QED BY <1>0, <2>1, <2>3, <2>4 DEF Fixed, planVars
<1>3. ASSUME HostStep(q) PROVE ConsentInv(q)'
  <2>1. ASSUME NEW t \in Tools, NEW a \in Arguments, NEW authorised \in BOOLEAN,
               MakePlan(q, t, a, authorised)
        PROVE  ConsentInv(q)'
    <3>1. outcome[q] = "none" /\ ~confirmed[q]
      BY <2>1 DEF MakePlan, PlanInv, Planning
    <3>2. QED BY <1>0, <2>1, <3>1 DEF MakePlan, engineVars
  <2>2. ASSUME Execute(q) PROVE ConsentInv(q)'
    BY <1>0, <2>2 DEF Execute, planVars
  <2>3. ASSUME Confirm(q) PROVE ConsentInv(q)'
    BY <1>0, <2>3 DEF Confirm, planVars
  <2>4. QED BY <1>3, <2>1, <2>2, <2>3 DEF HostStep
<1>4. ASSUME NEW p \in Plans, ProviderStep(p) PROVE ConsentInv(q)'
  BY <1>0, <1>4 DEF ProviderStep, Rewrite, planVars, engineVars
<1>5. ASSUME NEW t \in Tools, Register(t) PROVE ConsentInv(q)'
  BY <1>0, <1>5 DEF Register, planVars, engineVars
<1>6. ASSUME NEW p \in Plans \ {q}, PlannerStep(p) \/ HostStep(p) \/ EngineStep(p)
      PROVE  ConsentInv(q)'
  BY <1>0, <1>6, OtherPlans
<1>7. CASE UNCHANGED vars
  BY <1>0, <1>7 DEF vars, planVars, engineVars
<1> HIDE DEF TypeOK, ConsentInv, NeedsConfirmation
<1>8. QED
  BY <1>1, <1>2, <1>3, <1>4, <1>5, <1>6, <1>7 DEF Next

-----------------------------------------------------------------------------
(* The theorems.                                                           *)

LEMMA PlansInvariant == Spec => [](TypeOK /\ \A p \in Plans : PlanInv(p) /\ ConsentInv(p))
<1>1. Init => TypeOK /\ \A p \in Plans : PlanInv(p) /\ ConsentInv(p)
  BY TypeInit, PlanInvInit
<1>2. TypeOK /\ (\A p \in Plans : PlanInv(p) /\ ConsentInv(p)) /\ [Next]_vars
        => (TypeOK /\ \A p \in Plans : PlanInv(p) /\ ConsentInv(p))'
  BY TypeStep, PlanInvStep, ConsentInvStep
<1>3. QED BY <1>1, <1>2, PTL DEF Spec

\* The planner, the engine, providers and hosts keep every variable within
\* its type.
THEOREM TypeCorrect == Spec => []TypeOK
  BY PlansInvariant, PTL

\* However plans, registrations and rewriting providers interleave, a plan
\* that plan() accepted is found and valid when it is executed, unless its
\* tool's parameters were written in between.
THEOREM PlansAreExecutable == Spec => []PlansStayExecutable
<1>1. TypeOK /\ (\A p \in Plans : PlanInv(p) /\ ConsentInv(p)) => PlansStayExecutable
  BY DEF PlanInv, PlansStayExecutable
<1>2. QED BY <1>1, PlansInvariant, PTL

\* No response of a provider stands for the user's authorisation.
THEOREM UsersAuthorise == Spec => []ProvidersCannotAuthorise
<1>1. TypeOK /\ (\A p \in Plans : PlanInv(p) /\ ConsentInv(p)) => ProvidersCannotAuthorise
  BY DEF ConsentInv, ProvidersCannotAuthorise
<1>2. QED BY <1>1, PlansInvariant, PTL

\* A provider that picks a tool it was offered is not told it is unknown.
THEOREM OffersAreKnown == Spec => []OfferedToolsAreKnown
<1>1. TypeOK /\ (\A p \in Plans : PlanInv(p) /\ ConsentInv(p)) => OfferedToolsAreKnown
  BY DEF PlanInv, OfferedToolsAreKnown
<1>2. QED BY <1>1, PlansInvariant, PTL
================================================================================
