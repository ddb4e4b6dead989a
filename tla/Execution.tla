------------------------------ MODULE Execution ------------------------------
(***************************************************************************)
(* ExecutionEngine.execute (src/src/butler_core/execution.py) as it runs:  *)
(* several callers, each call with a one-thread pool of its own, a timer   *)
(* on the wait, handlers that may call execute again from their worker     *)
(* thread, and a host that registers tools meanwhile.                      *)
(*                                                                         *)
(* A call is a record of two threads. The caller's program counter walks   *)
(* the body of execute; the worker is the thread of the call's executor.   *)
(* Argument schemas are abstracted to "valid"/"invalid", handlers to the   *)
(* set of ways they can end, values and messages are left out.             *)
(***************************************************************************)
EXTENDS Permissions, Naturals, Sequences, FiniteSets

CONSTANTS
  Calls,             \* the calls of execute() in this behaviour
  Parent,            \* Parent[c]: the call whose handler issues c, or NoCall
  NoCall,
  Tools,             \* tool names
  Permission,        \* Permission[t]: "READ", "ACTION" or "DANGEROUS"
  Preregistered,     \* tools in the registry at the start
  Requests,          \* the execution requests callers may issue
  Policies,          \* the policies an engine may be configured with
  Traces, NoTrace,   \* trace ids a host may have made current, and no trace
  Adopted,           \* trace ids a handler may make current by naming them
  MaxScopes,         \* trace scopes a handler may have open at a time
  Outcomes,          \* the ways handlers end in this instance
  MaxThreads,        \* worker threads the process can have at a time
  TracerDeliveries,  \* what tracer.emit may do: TRUE records, FALSE raises
  Interrupts,        \* BOOLEAN: KeyboardInterrupt may hit a host thread
  SharedArguments    \* the calls whose request.arguments other threads write

\* How a handler can end: it returns, raises an ordinary exception, raises
\* concurrent.futures.TimeoutError (the builtin TimeoutError from Python 3.11
\* on), or raises a BaseException such as SystemExit.
AllOutcomes == {"value", "error", "timeout_error", "exit"}

\* via is "registry" for ToolRegistry.execute, "engine" for a host's engine.
Request ==
  [tool : Tools, confirmed : BOOLEAN, args : {"valid", "invalid"},
   via : {"engine", "registry"}]

\* A root context created by TraceContext.root(), by the handler of c
\* ("span") or for the execution event of c ("event").
RootTrace(who, c) == <<who, c>>

AnyTrace ==
  Traces \cup Adopted \cup {NoTrace}
    \cup {RootTrace(who, c) : who \in {"span", "event"}, c \in Calls}

ASSUME CallsAssumption ==
  /\ NoCall \notin Calls
  /\ Parent \in [Calls -> Calls \cup {NoCall}]
ASSUME ToolsAssumption ==
  /\ Permission \in [Tools -> Permissions]
  /\ Preregistered \subseteq Tools
\* ToolRegistry.execute leaves ExecutionRequest.confirmed at its default.
ASSUME RequestsAssumption ==
  /\ Requests \subseteq Request
  /\ \A r \in Requests : r.via = "registry" => ~r.confirmed
ASSUME EnvironmentAssumption ==
  /\ Policies \subseteq Policy
  /\ Outcomes \subseteq AllOutcomes
  /\ MaxThreads \in Nat
  /\ TracerDeliveries \subseteq BOOLEAN /\ TracerDeliveries # {}
  /\ Interrupts \in BOOLEAN
  /\ SharedArguments \subseteq Calls
ASSUME TracesAssumption ==
  /\ NoTrace \notin Traces \cup Adopted
  /\ MaxScopes \in Nat
  /\ \A who \in {"span", "event"}, c \in Calls :
        RootTrace(who, c) \notin Traces \cup Adopted \cup {NoTrace}

VARIABLES
  registry,   \* names in ToolRegistry._tools
  policy,     \* ExecutionEngine._policy
  request,    \* request[c]: the frozen ExecutionRequest
  args,       \* args[c]: what request.arguments holds now
  bound,      \* bound[c]: the arguments handed to the handler, or "none"
  pc,         \* pc[c]: where the caller is in execute
  status,     \* status[c]: the result decided, "raised" or "interrupted" when
              \* an exception takes its place, "none" before
  executor,   \* executor[c]: "none", "open" or "shut"
  worker,     \* worker[c]: the thread of c's executor
  future,     \* future[c]: the state of c's future
  caller,     \* caller[c]: trace context of the caller when c was issued
  ctx,        \* ctx[c]: trace context of the worker thread of c
  scopes,     \* scopes[c]: the contexts its open scopes restore, oldest first
  events      \* events[c]: execution events the tracer has recorded for c

callVars == <<request, args, bound, pc, status, caller>>
poolVars == <<executor, worker, future>>
scopeVars == <<ctx, scopes>>
vars == <<registry, policy, callVars, poolVars, scopeVars, events>>

Goto(c, to) == pc' = [pc EXCEPT ![c] = to]
Decide(c, s) == status' = [status EXCEPT ![c] = s]

Begun(c) == pc[c] # "idle"
Left(c) == pc[c] = "left"
InProgress(c) == Begun(c) /\ ~Left(c)
InNestedCall(p) == \E d \in Calls : Parent[d] = p /\ InProgress(d)
RunsHandler(c) == worker[c] = "running"

Init ==
  /\ registry = Preregistered
  /\ policy \in Policies
  /\ request \in [Calls -> Requests]
  /\ args = [c \in Calls |-> request[c].args]
  /\ bound = [c \in Calls |-> "none"]
  /\ pc = [c \in Calls |-> "idle"]
  /\ status = [c \in Calls |-> "none"]
  /\ executor = [c \in Calls |-> "none"]
  /\ worker = [c \in Calls |-> "none"]
  /\ future = [c \in Calls |-> "none"]
  /\ caller = [c \in Calls |-> NoTrace]
  /\ ctx = [c \in Calls |-> NoTrace]
  /\ scopes = [c \in Calls |-> <<>>]
  /\ events = [c \in Calls |-> <<>>]

-----------------------------------------------------------------------------
(* The caller's thread: the body of execute, from one shared access to the *)
(* next.                                                                   *)

\* The current context of the thread that runs execute for c: a host thread
\* keeps the context it called with, a nested call sees its parent's worker.
CallerContext(c) == IF Parent[c] = NoCall THEN caller[c] ELSE ctx[Parent[c]]

\* A host thread calls execute, or the running handler of Parent[c] does.
Begin(c) ==
  /\ pc[c] = "idle"
  /\ IF Parent[c] = NoCall
     THEN \E t \in Traces \cup {NoTrace} : caller' = [caller EXCEPT ![c] = t]
     ELSE /\ RunsHandler(Parent[c]) /\ ~InNestedCall(Parent[c])
          /\ caller' = [caller EXCEPT ![c] = ctx[Parent[c]]]
  /\ Goto(c, "lookup")
  /\ UNCHANGED <<registry, policy, request, args, bound, status, poolVars, scopeVars, events>>

\* Mutant: an early return that bypasses _result.
RejectSilently(c, s) == Decide(c, s) /\ Goto(c, "left")

\* Every early return goes through _result, which emits the event.
Reject(c, s) == Decide(c, s) /\ Goto(c, "emit")

Lookup(c) ==
  /\ pc[c] = "lookup"
  /\ IF request[c].tool \in registry
     THEN Goto(c, "validate") /\ UNCHANGED status
     ELSE Reject(c, "tool_not_found")
  /\ UNCHANGED <<registry, policy, request, args, bound, caller, poolVars, scopeVars, events>>

\* validate_arguments returned no error.
ArgumentsAccepted(c) == args[c] = "valid"

Validate(c) ==
  /\ pc[c] = "validate"
  /\ IF ArgumentsAccepted(c)
     THEN Goto(c, "policy") /\ UNCHANGED status
     ELSE Reject(c, "invalid_arguments")
  /\ UNCHANGED <<registry, policy, request, args, bound, caller, poolVars, scopeVars, events>>

\* Mutant: the registry route runs under the policy of the host's engine.
HostPolicy(c) == policy

EnginePolicy(c) == IF request[c].via = "registry" THEN DefaultPolicy ELSE policy

ApplyPolicy(c) ==
  /\ pc[c] = "policy"
  /\ LET v == Verdict(Permission[request[c].tool], EnginePolicy(c), request[c].confirmed)
     IN  IF v = "allowed"
         THEN Goto(c, "submit") /\ UNCHANGED status
         ELSE Reject(c, v)
  /\ UNCHANGED <<registry, policy, request, args, bound, caller, poolVars, scopeVars, events>>

LiveThreads == {c \in Calls : worker[c] \in {"queued", "holding", "running", "idle"}}
ThreadAvailable == Cardinality(LiveThreads) < MaxThreads

\* Mutant: the handler is submitted without copy_context.
EmptyContext(c) == NoTrace

\* copy_context(): the handler runs in a copy of its caller's context.
CopiedContext(c) == CallerContext(c)

\* copy_context, dict(request.arguments) and the put of the work item.
Hand(c) ==
  /\ bound' = [bound EXCEPT ![c] = args[c]]
  /\ ctx' = [ctx EXCEPT ![c] = CopiedContext(c)]
  /\ executor' = [executor EXCEPT ![c] = "open"]
  /\ future' = [future EXCEPT ![c] = "pending"]
  /\ UNCHANGED scopes

\* The item is queued and the worker thread started, or t.start() raises
\* RuntimeError out of execute, before the try block, with the item queued
\* for no thread.
Submit(c) ==
  /\ pc[c] = "submit"
  /\ Hand(c)
  /\ \/ /\ ThreadAvailable
        /\ worker' = [worker EXCEPT ![c] = "queued"]
        /\ Goto(c, "wait") /\ UNCHANGED status
     \/ /\ ~ThreadAvailable
        /\ worker' = [worker EXCEPT ![c] = "unstarted"]
        /\ Decide(c, "raised") /\ Goto(c, "left")
  /\ UNCHANGED <<registry, policy, request, args, caller, events>>

\* Mutant: the state of the future is returned as the status.
RawOutcome(outcome) == [status |-> outcome, to |-> "emit"]

\* Mutant: no "except Exception" branch.
ErrorsUncaught(outcome) ==
  CASE outcome = "value"         -> [status |-> "success", to |-> "shutdown"]
    [] outcome = "timeout_error" -> [status |-> "none", to |-> "cancel"]
    [] outcome \in {"error", "exit"} -> [status |-> "raised", to |-> "shutdown"]

\* Where each end of the handler sends the caller waiting in future.result:
\* past the try block, into an except branch, or straight to finally.
AfterWait(outcome) ==
  CASE outcome = "value"         -> [status |-> "success", to |-> "shutdown"]
    [] outcome = "error"         -> [status |-> "error", to |-> "emit"]
    [] outcome = "timeout_error" -> [status |-> "none", to |-> "cancel"]
    [] outcome = "exit"          -> [status |-> "raised", to |-> "shutdown"]

Collect(c) ==
  /\ pc[c] = "wait"
  /\ future[c] \in AllOutcomes
  /\ Decide(c, AfterWait(future[c]).status)
  /\ Goto(c, AfterWait(future[c]).to)
  /\ UNCHANGED <<registry, policy, request, args, bound, caller, poolVars, scopeVars, events>>

\* future.result gives up: the future is checked once more, under its lock,
\* after the wait, so a finished handler is never reported late.
Timeout(c) ==
  /\ pc[c] = "wait"
  /\ future[c] \in {"pending", "running"}
  /\ Goto(c, "cancel")
  /\ UNCHANGED <<registry, policy, request, args, bound, status, caller, poolVars, scopeVars, events>>

\* Mutant: no future.cancel() in the timeout branch.
KeepPending(c) ==
  /\ pc[c] = "cancel"
  /\ Decide(c, "timeout") /\ Goto(c, "emit")
  /\ UNCHANGED <<registry, policy, request, args, bound, caller, poolVars, scopeVars, events>>

\* Mutant: "except Exception" comes before "except FutureTimeoutError".
TimeoutAsError(c) ==
  /\ pc[c] = "cancel"
  /\ Decide(c, "error") /\ Goto(c, "emit")
  /\ UNCHANGED <<registry, policy, request, args, bound, caller, poolVars, scopeVars, events>>

\* future.cancel() has an effect only on a future that has not started.
Cancel(c) ==
  /\ pc[c] = "cancel"
  /\ future' = [future EXCEPT ![c] = IF @ = "pending" THEN "cancelled" ELSE @]
  /\ Decide(c, "timeout") /\ Goto(c, "emit")
  /\ UNCHANGED <<registry, policy, request, args, bound, caller, executor, worker, scopeVars, events>>

\* _trace_classification: the status, level and severity of the trace event.
Classification(s) ==
  CASE s = "success" ->
         [as |-> "success", level |-> "activity", severity |-> "normal"]
    [] s \in {"confirmation_required", "denied"} ->
         [as |-> "warning", level |-> "operational", severity |-> "normal"]
    [] s = "invalid_arguments" ->
         [as |-> "error", level |-> "diagnostic", severity |-> "degraded"]
    [] OTHER ->
         [as |-> "error", level |-> "operational", severity |-> "degraded"]

\* The event carries the caller's current context, or a root of its own.
ExecutionEvent(c) ==
  [status |-> status[c],
   told |-> Classification(status[c]),
   trace |-> IF CallerContext(c) = NoTrace THEN RootTrace("event", c) ELSE CallerContext(c)]

\* ToolRegistry.execute has no tracer. A tracer that raises loses the event.
Deliveries(c) == IF request[c].via = "registry" THEN {FALSE} ELSE TracerDeliveries

Record(c) ==
  \E delivered \in Deliveries(c) :
    events' = IF delivered
              THEN [events EXCEPT ![c] = Append(@, ExecutionEvent(c))]
              ELSE events

\* Leaving the body of execute: through finally, if the try block was entered.
Leave(c) == Goto(c, IF executor[c] = "open" THEN "shutdown" ELSE "left")

Emit(c) ==
  /\ pc[c] = "emit"
  /\ Record(c) /\ Leave(c)
  /\ UNCHANGED <<registry, policy, request, args, bound, status, caller, poolVars, scopeVars>>

\* Mutant: shutdown(wait=True) joins the worker thread.
JoinsWorker(c) == worker[c] \notin {"holding", "running"}
\* wait=False: shutdown returns whatever the worker is doing.
ShutdownReturns(c) == TRUE

\* Mutant: shutdown(cancel_futures=False).
KeepsQueue(c) == FALSE
\* cancel_futures=True: the items still in the queue are cancelled.
DrainsQueue(c) == worker[c] = "queued"

\* shutdown in the finally block; a worker that already took its item is
\* left alone. SUCCESS is emitted after it, every other result before it.
Shutdown(c) ==
  /\ pc[c] = "shutdown" /\ ShutdownReturns(c)
  /\ executor' = [executor EXCEPT ![c] = "shut"]
  /\ IF DrainsQueue(c)
     THEN /\ worker' = [worker EXCEPT ![c] = "idle"]
          /\ future' = [future EXCEPT ![c] = "cancelled"]
     ELSE UNCHANGED <<worker, future>>
  /\ Goto(c, IF status[c] = "success" THEN "emit" ELSE "left")
  /\ UNCHANGED <<registry, policy, request, args, bound, status, caller, scopeVars, events>>

\* KeyboardInterrupt before the item is put: nothing has been handed over.
InterruptedBefore(c) ==
  /\ pc[c] \in {"lookup", "validate", "policy", "submit"}
  /\ Goto(c, "left")
  /\ UNCHANGED <<bound, poolVars, scopeVars, events>>

\* In submit, or between it and the try block: the item is queued, its thread
\* started or not, and no finally shuts the executor down.
InterruptedSubmit(c) ==
  /\ pc[c] = "submit"
  /\ Hand(c)
  /\ \E w \in {"unstarted", "queued"} :
        /\ w = "queued" => ThreadAvailable
        /\ worker' = [worker EXCEPT ![c] = w]
  /\ Goto(c, "left")
  /\ UNCHANGED events

\* In the try block or in _result, whose event may be out already.
InterruptedBody(c) ==
  /\ pc[c] \in {"wait", "cancel", "emit"}
  /\ UNCHANGED events \/ (pc[c] = "emit" /\ Record(c))
  /\ Leave(c)
  /\ UNCHANGED <<bound, poolVars, scopeVars>>

\* In shutdown: before it, with the flag set, or with the queue drained, the
\* item it held cancelled or dropped.
InterruptedShutdown(c) ==
  /\ pc[c] = "shutdown"
  /\ \/ UNCHANGED poolVars
     \/ /\ executor' = [executor EXCEPT ![c] = "shut"]
        /\ \/ UNCHANGED <<worker, future>>
           \/ /\ DrainsQueue(c)
              /\ worker' = [worker EXCEPT ![c] = "idle"]
              /\ \/ future' = [future EXCEPT ![c] = "cancelled"]
                 \/ UNCHANGED future
  /\ Goto(c, "left")
  /\ UNCHANGED <<bound, scopeVars, events>>

\* KeyboardInterrupt hits a host thread anywhere in execute.
Interrupt(c) ==
  /\ Interrupts /\ Parent[c] = NoCall
  /\ \/ InterruptedBefore(c) \/ InterruptedSubmit(c)
     \/ InterruptedBody(c) \/ InterruptedShutdown(c)
  /\ Decide(c, "interrupted")
  /\ UNCHANGED <<registry, policy, request, args, caller>>

-----------------------------------------------------------------------------
(* The worker thread of concurrent.futures.ThreadPoolExecutor.             *)

\* Mutant: one executor of one thread for the whole engine.
SharedPool(c) == NoCall

\* The executor that carries c; execute makes one per call.
PoolOf(c) == c

PoolBusy(c) ==
  \E d \in Calls \ {c} : PoolOf(d) = PoolOf(c) /\ worker[d] \in {"holding", "running"}

Take(c) ==
  /\ worker[c] = "queued" /\ ~PoolBusy(c)
  /\ worker' = [worker EXCEPT ![c] = "holding"]
  /\ UNCHANGED <<registry, policy, callVars, executor, future, scopeVars, events>>

\* set_running_or_notify_cancel, which a cancelled future refuses.
Start(c) ==
  /\ worker[c] = "holding"
  /\ IF future[c] = "cancelled"
     THEN /\ worker' = [worker EXCEPT ![c] = "idle"]
          /\ UNCHANGED future
     ELSE /\ worker' = [worker EXCEPT ![c] = "running"]
          /\ future' = [future EXCEPT ![c] = "running"]
  /\ UNCHANGED <<registry, policy, callVars, executor, scopeVars, events>>

\* The context a handler was started in, and is in when its scopes are closed.
BaseContext(c) == IF scopes[c] = <<>> THEN ctx[c] ELSE scopes[c][1]

\* Scopes are with blocks: a handler that ends, however, has left them all.
Finish(c, o) ==
  /\ RunsHandler(c) /\ ~InNestedCall(c)
  /\ worker' = [worker EXCEPT ![c] = "idle"]
  /\ future' = [future EXCEPT ![c] = o]
  /\ ctx' = [ctx EXCEPT ![c] = BaseContext(c)]
  /\ scopes' = [scopes EXCEPT ![c] = <<>>]
  /\ UNCHANGED <<registry, policy, callVars, executor, events>>

\* The worker of an executor that was shut down, or that was collected with
\* the frame of execute, ends when its queue is empty.
Exit(c) ==
  /\ worker[c] = "idle"
  /\ executor[c] = "shut" \/ Left(c)
  /\ worker' = [worker EXCEPT ![c] = "exited"]
  /\ UNCHANGED <<registry, policy, callVars, executor, future, scopeVars, events>>

-----------------------------------------------------------------------------
(* The handler and the host.                                               *)

\* traced_span in a handler: a child of the current context, which has its
\* trace id, or a root where there is none.
SpanTrace(c) == IF ctx[c] = NoTrace THEN RootTrace("span", c) ELSE ctx[c]

\* A handler enters a scope, traced_span or trace_context, with or without an
\* explicit context, or leaves the scope it entered last, whose token
\* restores the context from before.
Span(c) ==
  /\ RunsHandler(c) /\ ~InNestedCall(c)
  /\ \/ /\ Len(scopes[c]) < MaxScopes
        /\ \E t \in Adopted \cup {SpanTrace(c)} : ctx' = [ctx EXCEPT ![c] = t]
        /\ scopes' = [scopes EXCEPT ![c] = Append(@, ctx[c])]
     \/ /\ scopes[c] # <<>>
        /\ ctx' = [ctx EXCEPT ![c] = scopes[c][Len(scopes[c])]]
        /\ scopes' = [scopes EXCEPT ![c] = SubSeq(@, 1, Len(@) - 1)]
  /\ UNCHANGED <<registry, policy, callVars, poolVars, events>>

Register(t) ==
  /\ t \notin registry
  /\ registry' = registry \cup {t}
  /\ UNCHANGED <<policy, callVars, poolVars, scopeVars, events>>

\* The frozen request still refers to the caller's mutable mapping.
MutateArguments(c) ==
  /\ c \in SharedArguments /\ InProgress(c)
  /\ args' = [args EXCEPT ![c] = IF @ = "valid" THEN "invalid" ELSE "valid"]
  /\ UNCHANGED <<registry, policy, request, bound, pc, status, caller, poolVars, scopeVars, events>>

-----------------------------------------------------------------------------
CallerStep(c) ==
  \/ Lookup(c) \/ Validate(c) \/ ApplyPolicy(c) \/ Submit(c)
  \/ Collect(c) \/ Cancel(c) \/ Emit(c) \/ Shutdown(c)

WorkerStep(c) == Take(c) \/ Start(c) \/ Exit(c)

HandlerEnds(c) == \E o \in Outcomes : Finish(c, o)

Next ==
  \/ \E c \in Calls :
       \/ Begin(c) \/ CallerStep(c) \/ Timeout(c) \/ Interrupt(c)
       \/ WorkerStep(c) \/ HandlerEnds(c) \/ Span(c) \/ MutateArguments(c)
  \/ \E t \in Tools : Register(t)

Spec == Init /\ [][Next]_vars

\* Threads that are not blocked run on.
ThreadFairness == \A c \in Calls : WF_vars(CallerStep(c)) /\ WF_vars(WorkerStep(c))

FairSpec == Spec /\ ThreadFairness

\* tool.timeout_seconds is always a number: a wait that goes on expires.
TimeoutsExpire == \A c \in Calls : WF_vars(Timeout(c))

\* Handlers end once nothing they called is in progress.
HandlersEnd == \A c \in Calls : WF_vars(HandlerEnds(c))

=============================================================================
