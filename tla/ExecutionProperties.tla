------------------------- MODULE ExecutionProperties -------------------------
(***************************************************************************)
(* What makes ExecutionEngine.execute correct, stated over Execution.      *)
(***************************************************************************)
EXTENDS Execution

Statuses ==
  {"success", "confirmation_required", "denied", "invalid_arguments",
   "tool_not_found", "timeout", "error"}

Classifications ==
  [as : {"success", "warning", "error"}, level : {"diagnostic", "activity", "operational"},
   severity : {"normal", "degraded"}]

EventRecord ==
  [status : Statuses \cup {"none", "raised", "interrupted"}, told : Classifications, trace : AnyTrace]

\* Every variable holds a value of its kind in every reachable state.
TypeOK ==
  /\ registry \in SUBSET Tools
  /\ policy \in Policy
  /\ request \in [Calls -> Requests]
  /\ args \in [Calls -> {"valid", "invalid"}]
  /\ bound \in [Calls -> {"none", "valid", "invalid"}]
  /\ pc \in [Calls -> {"idle", "lookup", "validate", "policy", "submit", "wait",
                       "cancel", "emit", "shutdown", "left"}]
  /\ status \in [Calls -> Statuses \cup {"none", "raised", "interrupted"}]
  /\ executor \in [Calls -> {"none", "open", "shut"}]
  /\ worker \in [Calls -> {"none", "unstarted", "queued", "holding", "running",
                           "idle", "exited"}]
  /\ future \in [Calls -> AllOutcomes \cup {"none", "pending", "running", "cancelled"}]
  /\ caller \in [Calls -> AnyTrace]
  /\ ctx \in [Calls -> AnyTrace]
  /\ scopes \in [Calls -> Seq(AnyTrace)]
  /\ events \in [Calls -> Seq(EventRecord)]

-----------------------------------------------------------------------------
(* Policy and validation before execution.                                 *)

\* The documented permission rules: READ runs freely, ACTION and DANGEROUS
\* only as far as the host's policy and the caller's confirmation go, and
\* nothing but READ through ToolRegistry.execute, whose engine is default.
Authorised(c) ==
  LET r == request[c] IN
  \/ Permission[r.tool] = "READ"
  \/ /\ r.via = "engine" /\ Permission[r.tool] = "ACTION"
     /\ r.confirmed \/ ~policy.require_action_confirmation
  \/ /\ r.via = "engine" /\ Permission[r.tool] = "DANGEROUS"
     /\ policy.allow_dangerous
     /\ r.confirmed \/ ~policy.require_dangerous_confirmation

\* A handler reaches a worker thread only for a registered tool and an
\* authorised request: no order of lookups and registrations lets one
\* through, by the host's engine or by the registry's own.
PolicyBeforeExecution ==
  \A c \in Calls :
    worker[c] # "none" => request[c].tool \in registry /\ Authorised(c)

\* The arguments a handler receives are arguments that passed validation, as
\* README.md:58 says of the engine. The mapping a request refers to is read
\* twice, and what its owner writes in between reaches the handler.
BoundArgumentsValid == \A c \in Calls : bound[c] # "invalid"

\* The same request, now confirmed.
ConfirmedRetry(r, q) == q = [r EXCEPT !.confirmed = TRUE]

\* CONFIRMATION_REQUIRED is never a dead end: the confirmed retry of the
\* request is not rejected, so no user is asked for a confirmation that
\* cannot help (a denied tool, invalid arguments, an unknown tool).
ConfirmationSuffices ==
  \A c, d \in Calls :
    /\ status[c] = "confirmation_required"
    /\ ConfirmedRetry(request[c], request[d])
    /\ Left(c) /\ status[d] \in Statuses
    /\ request[d].via = "engine"
    => \/ status[d] \in {"success", "error", "timeout"}
       \/ status[d] = "tool_not_found" /\ request[d].tool \notin Preregistered

-----------------------------------------------------------------------------
(* Results, handlers and threads.                                          *)

\* What the caller of c has been told, and what its handler is doing.
VerdictOf(c) == IF Left(c) THEN status[c] ELSE "open"

HandlerOf(c) ==
  IF RunsHandler(c) THEN "running"
  ELSE IF future[c] \in AllOutcomes THEN future[c] ELSE "unstarted"

Contract ==
  INSTANCE ExecutionContract WITH
    LateStart <- Interrupts,
    Outcomes <- AllOutcomes,
    verdict <- [c \in Calls |-> VerdictOf(c)],
    handler <- [c \in Calls |-> HandlerOf(c)]

\* execute implements the contract: the pool, the timer and the cancellation
\* never start a handler twice, after a rejection or after the call has
\* answered, and never report an outcome the handler did not have.
ImplementsContract == Contract!Spec

\* execute raises in three cases only: the host was interrupted, the handler
\* raised a BaseException that was waited for, or no thread could be started.
\* A tracer that raises, a handler that raises an Exception, a timer and a
\* worker that was given up on never keep a call from its structured result.
StructuredResult ==
  \A c \in Calls :
    Left(c) =>
      \/ status[c] \in Statuses
      \/ status[c] = "interrupted" /\ Interrupts /\ Parent[c] = NoCall
      \/ status[c] = "raised" /\ (future[c] = "exit" \/ worker[c] = "unstarted")

\* A call still in progress under a call that has answered belongs to a
\* handler the outer call gave up on: a nested call outlives its parent only
\* when the parent answered TIMEOUT or was interrupted.
OrphansOnlyAfterTimeout ==
  \A d \in Calls :
    LET p == Parent[d] IN
    p # NoCall /\ InProgress(d) /\ Left(p) => status[p] \in {"timeout", "interrupted"}

\* The item of c can still reach its handler.
StillToStart(c) == future[c] = "pending" /\ worker[c] \in {"queued", "holding"}

\* A call that returns a result leaves nothing behind: its executor is shut
\* down, no item is queued or pending, and its handler has ended, is running
\* or will never start. Only a call the host was interrupted in can leave a
\* handler to start, and one in a queue only where submit or shutdown itself
\* was cut short. An executor stays open only if there was no try block yet
\* or shutdown did not begin.
NoWorkLeftBehind ==
  \A c \in Calls :
    Left(c) =>
      /\ status[c] \in Statuses =>
           executor[c] # "open" /\ future[c] # "pending" /\ worker[c] # "queued"
      /\ StillToStart(c) => status[c] = "interrupted"
      /\ executor[c] = "open" => status[c] = "interrupted" \/ worker[c] = "unstarted"

\* The timeout branch is taken only while the handler has not finished: a
\* handler that raises is reported as ERROR with its own exception.
TimeoutOnlyOnExpiry ==
  [][\A c \in Calls :
       pc[c] = "wait" /\ pc'[c] = "cancel" => future[c] \in {"pending", "running"}]_vars

-----------------------------------------------------------------------------
(* Tracing across threads.                                                 *)

\* One trace follows the whole tree of calls: under a traced caller a nested
\* call runs in the caller's trace, or in one the handler around it entered
\* by name, and each execution event carries the trace of its own caller. A
\* handler that has closed its scopes is back in the trace it started in.
TraceCorrelation ==
  \A c \in Calls :
    /\ Parent[c] # NoCall /\ Begun(c) /\ caller[Parent[c]] # NoTrace
         => caller[c] \in {caller[Parent[c]]} \cup Adopted
    /\ caller[c] # NoTrace
         => \A i \in DOMAIN events[c] : events[c][i].trace = caller[c]
    /\ worker[c] # "none" /\ scopes[c] = <<>> => ctx[c] = caller[c]

\* What an event says of a call agrees with what became of its handler: a
\* success only when it returned, a warning only when it never got a thread,
\* and a host that keeps OPERATIONAL sees every handler that did not return.
TellsTheTruth(c, told) ==
  /\ told.as = "success" => future[c] = "value"
  /\ told.as = "warning" => worker[c] = "none"
  /\ worker[c] # "none" /\ told.as # "success" => told.level = "operational"

\* A result is traced exactly once, with its own status, truthfully and before
\* it is returned; a call that raised, or went through ToolRegistry.execute,
\* never, and an interrupted one at most once.
OneEventPerResult ==
  \A c \in Calls :
    Left(c) /\ TracerDeliveries = {TRUE} =>
      /\ Len(events[c]) <= 1
      /\ events[c] # <<>> => request[c].via = "engine" /\ status[c] # "raised"
      /\ \A i \in DOMAIN events[c] : TellsTheTruth(c, events[c][i].told)
      /\ request[c].via = "engine" /\ status[c] \in Statuses =>
           Len(events[c]) = 1 /\ events[c][1].status = status[c]

-----------------------------------------------------------------------------
(* Progress.                                                               *)

\* What keeps a thread going: the caller is not waiting for its handler, the
\* worker has an item or its executor is gone, the handler waits for no call.
CallerReady(c) ==
  /\ InProgress(c)
  /\ pc[c] = "wait" => future[c] \in AllOutcomes
  /\ pc[c] = "shutdown" => ShutdownReturns(c)
WorkerReady(c) ==
  \/ worker[c] = "queued" /\ ~PoolBusy(c)
  \/ worker[c] = "holding"
  \/ worker[c] = "idle" /\ (executor[c] = "shut" \/ Left(c))
HandlerFree(c) == RunsHandler(c) /\ ~InNestedCall(c)

CanMove(c) == CallerReady(c) \/ WorkerReady(c) \/ HandlerFree(c)
Unfinished(c) == InProgress(c) \/ c \in LiveThreads

\* Waiting goes down only. Whatever has timed out, been cancelled or been
\* left behind, a caller or a worker thread that is not done can go on by
\* itself, without a timer, or a call nested in its handler is in progress:
\* never the call around it, one beside it, or nothing at all.
NothingStuck == \A c \in Calls : Unfinished(c) => CanMove(c) \/ InNestedCall(c)

CallsReturn == \A c \in Calls : Begun(c) ~> Left(c)

\* A handler that hangs for ever cannot hold its caller, nor the callers of
\* its caller, past their timeouts.
HungHandlersReleaseCallers == TimeoutsExpire => CallsReturn

\* Nested calls cannot deadlock with the calls they are in: when handlers
\* end, every call returns although no timeout need ever expire.
NestedCallsReturn == HandlersEnd => CallsReturn

\* No thread leaks: once a call has left and handlers end, its worker thread
\* goes away.
WorkersReclaimed ==
  HandlersEnd => \A c \in Calls : Left(c) ~> worker[c] \in {"none", "unstarted", "exited"}
=============================================================================
