------------------------------ MODULE Permissions ------------------------------
(***************************************************************************)
(* ToolPermission (models.py), ExecutionPolicy and _apply_policy           *)
(* (execution.py): what an engine asks before it runs a tool.              *)
(***************************************************************************)

Permissions == {"READ", "ACTION", "DANGEROUS"}

Policy ==
  [require_action_confirmation : BOOLEAN,
   require_dangerous_confirmation : BOOLEAN,
   allow_dangerous : BOOLEAN]

\* The defaults of ExecutionPolicy, which ToolRegistry.execute runs under.
DefaultPolicy ==
  [require_action_confirmation |-> TRUE,
   require_dangerous_confirmation |-> TRUE,
   allow_dangerous |-> FALSE]

\* Mutant: confirmation is asked for before the tool is known to be allowed.
ConfirmFirst(permission, pol, confirmed) ==
  CASE permission = "READ" -> "allowed"
    [] permission = "ACTION" ->
         IF pol.require_action_confirmation /\ ~confirmed
         THEN "confirmation_required" ELSE "allowed"
    [] permission = "DANGEROUS" ->
         IF pol.require_dangerous_confirmation /\ ~confirmed
         THEN "confirmation_required"
         ELSE IF pol.allow_dangerous THEN "allowed" ELSE "denied"

\* _apply_policy: the status it rejects with, or "allowed" for None.
Verdict(permission, pol, confirmed) ==
  CASE permission = "READ" -> "allowed"
    [] permission = "ACTION" ->
         IF pol.require_action_confirmation /\ ~confirmed
         THEN "confirmation_required" ELSE "allowed"
    [] permission = "DANGEROUS" ->
         IF ~pol.allow_dangerous THEN "denied"
         ELSE IF pol.require_dangerous_confirmation /\ ~confirmed
         THEN "confirmation_required" ELSE "allowed"
================================================================================
