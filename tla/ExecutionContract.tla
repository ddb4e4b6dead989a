-------------------------- MODULE ExecutionContract --------------------------
(***************************************************************************)
(* What a caller of ExecutionEngine.execute may rely on, whatever thread   *)
(* pool carries the handler: every call gets at most one verdict, starts   *)
(* its handler at most once, never starts a handler it has rejected, and   *)
(* reports an outcome only when the handler had exactly that outcome.      *)
(* TIMEOUT is the one verdict that says nothing about the handler.         *)
(***************************************************************************)
CONSTANTS
  Calls,      \* the calls of execute()
  Outcomes,   \* the ways a handler can end
  LateStart   \* BOOLEAN: a call may be interrupted, and its handler start later

VARIABLES
  verdict,    \* verdict[c]: "open", an ExecutionStatus, "raised" or "interrupted"
  handler     \* handler[c]: "unstarted", "running", or how it ended

vars == <<verdict, handler>>

Rejections ==
  {"tool_not_found", "invalid_arguments", "denied", "confirmation_required"}
Others == {"success", "error", "timeout", "raised", "interrupted"}

Init ==
  /\ verdict = [c \in Calls |-> "open"]
  /\ handler = [c \in Calls |-> "unstarted"]

\* The handler of c starts. After a verdict it cannot, except when the call
\* was abandoned by an exception delivered to the caller's thread.
Start(c) ==
  /\ handler[c] = "unstarted"
  /\ verdict[c] = "open" \/ (LateStart /\ verdict[c] = "interrupted")
  /\ handler' = [handler EXCEPT ![c] = "running"]
  /\ UNCHANGED verdict

End(c, o) ==
  /\ handler[c] = "running"
  /\ handler' = [handler EXCEPT ![c] = o]
  /\ UNCHANGED verdict

\* What the state of the handler must be for the caller to get verdict v.
Justified(c, v) ==
  \/ v \in Rejections /\ handler[c] = "unstarted"
  \/ v = "success" /\ handler[c] = "value"
  \/ v = "error" /\ handler[c] = "error"
  \/ v = "timeout"
  \/ v = "raised" /\ handler[c] \in {"unstarted", "exit"}
  \/ v = "interrupted" /\ LateStart

Answer(c, v) ==
  /\ verdict[c] = "open"
  /\ Justified(c, v)
  /\ verdict' = [verdict EXCEPT ![c] = v]
  /\ UNCHANGED handler

Next ==
  \E c \in Calls :
    \/ Start(c)
    \/ \E o \in Outcomes : End(c, o)
    \/ \E v \in Rejections \cup Others : Answer(c, v)

Spec == Init /\ [][Next]_vars
=============================================================================
