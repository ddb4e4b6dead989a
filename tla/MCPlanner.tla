------------------------------- MODULE MCPlanner -------------------------------
(* Constant values for the TLC run of Planner.                                 *)
EXTENDS PlannerProperties, TLC

CONSTANTS p1, p2

MCTools == {"read", "act", "danger"}
MCPermission == ("read" :> "READ") @@ ("act" :> "ACTION") @@ ("danger" :> "DANGEROUS")

\* "any" accepts no arguments and "text"; "needs" accepts only "text".
MCInitialSchema == [t \in MCTools |-> IF t = "read" THEN "any" ELSE "needs"]
MCAccepts == {<<"any", "empty">>, <<"any", "text">>, <<"needs", "text">>}

Payload(t, a, authorised) ==
  [form |-> "json", flaws |-> {}, tool |-> t, arguments |-> a, user_authorized |-> authorised]
Malformed(form, flaws) ==
  [form |-> form, flaws |-> flaws, tool |-> NoTool, arguments |-> NoArguments,
   user_authorized |-> FALSE]

\* Each form and each flaw alone, two flaws at once, no tool with and without
\* arguments, and plans for tools registered now, later or never.
MCResponses ==
  {Malformed(form, {}) : form \in {"non_string", "invalid_json", "undecodable"}}
    \cup {Malformed("json", {f}) : f \in Flaws}
    \cup {Malformed("json", {"invalid_reason", "invalid_confidence"})}
    \cup {Payload(NoTool, a, FALSE) : a \in {"empty", "text"}}
    \cup {Payload(t, a, TRUE) : t \in MCTools, a \in {"empty", "text"}}

\* The defaults, dangerous tools allowed after confirmation, and no
\* confirmation at all.
MCPolicies ==
  {DefaultPolicy, [DefaultPolicy EXCEPT !.allow_dangerous = TRUE],
   [p \in DOMAIN DefaultPolicy |-> p = "allow_dangerous"]}

PlanSymmetry == Permutations(Plans)
================================================================================
