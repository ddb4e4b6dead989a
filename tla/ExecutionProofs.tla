---------------------------- MODULE ExecutionProofs ----------------------------
(***************************************************************************)
(* Proofs about Execution for every set of calls, tools, requests and      *)
(* policies, every nesting of calls and every number of threads.           *)
(***************************************************************************)
EXTENDS ExecutionProperties, FiniteSetTheorems, SequenceTheorems, WellFoundedInduction, TLAPS

-----------------------------------------------------------------------------
(* The inductive invariants. PolicyInv carries the checks made along the   *)
(* body of execute to the point where the handler is submitted. ThreadsInv *)
(* relates, for one call, where its caller is in execute, the future and   *)
(* the worker thread.                                                      *)

PolicyInv ==
  \A c \in Calls :
    /\ pc[c] \in {"validate", "policy", "submit"} => request[c].tool \in registry
    /\ pc[c] = "submit" => Authorised(c)
    /\ worker[c] # "none" => request[c].tool \in registry /\ Authorised(c)

\* The future follows the worker thread.
FutureInv(c) ==
  /\ worker[c] = "none" <=> future[c] = "none"
  /\ worker[c] = "unstarted" => future[c] = "pending"
  /\ worker[c] \in {"queued", "holding"} => future[c] \in {"pending", "cancelled"}
  /\ worker[c] = "running" <=> future[c] = "running"
  /\ worker[c] \in {"idle", "exited"} =>
       \/ future[c] \in AllOutcomes \cup {"cancelled"}
       \/ future[c] = "pending" /\ status[c] = "interrupted" /\ Left(c)

Interrupted(c) == status[c] = "interrupted" /\ Interrupts /\ Parent[c] = NoCall

\* What a status decided after the submit says about the future.
StatusMeans(c) ==
  \/ status[c] = "success" /\ future[c] = "value"
  \/ status[c] = "error" /\ future[c] = "error"
  \/ status[c] = "timeout" /\ future[c] # "pending"
  \/ status[c] = "raised" /\ future[c] = "exit"
  \/ Interrupted(c)

Rejected(c) ==
  status[c] \in {"tool_not_found", "invalid_arguments", "denied", "confirmation_required"}

Submitted(c) == worker[c] \notin {"none", "unstarted"}

\* Where the caller is in execute, what it has decided and what the worker
\* may still do.
CallerInv(c) ==
  /\ pc[c] \in {"idle", "lookup", "validate", "policy", "submit"} =>
       worker[c] = "none" /\ executor[c] = "none" /\ status[c] = "none"
  /\ pc[c] \in {"wait", "cancel"} => Submitted(c) /\ executor[c] = "open"
  /\ pc[c] = "emit" =>
       \/ Rejected(c) /\ worker[c] = "none" /\ executor[c] = "none"
       \/ /\ Submitted(c) /\ StatusMeans(c)
          /\ executor[c] = IF status[c] = "success" THEN "shut" ELSE "open"
  /\ pc[c] = "shutdown" => Submitted(c) /\ StatusMeans(c) /\ executor[c] = "open"
  /\ pc[c] = "left" =>
       \/ Rejected(c) /\ worker[c] = "none" /\ executor[c] = "none"
       \/ status[c] = "raised" /\ worker[c] = "unstarted"
       \/ Submitted(c) /\ StatusMeans(c) /\ worker[c] # "queued" /\ executor[c] = "shut"
       \/ Interrupted(c)

ThreadsInv == \A c \in Calls : FutureInv(c) /\ CallerInv(c)

-----------------------------------------------------------------------------
LEMMA ContextType ==
  ASSUME TypeOK, NEW c \in Calls
  PROVE  CallerContext(c) \in AnyTrace
  BY CallsAssumption DEF TypeOK, CallerContext

LEMMA RootTraceType ==
  ASSUME NEW c \in Calls, NEW who \in {"span", "event"}
  PROVE  RootTrace(who, c) \in AnyTrace
  BY DEF AnyTrace

LEMMA ClassificationType ==
  ASSUME NEW s
  PROVE  Classification(s) \in Classifications
  BY DEF Classification, Classifications

LEMMA HandType ==
  ASSUME TypeOK, NEW c \in Calls, Hand(c)
  PROVE  /\ bound' \in [Calls -> {"none", "valid", "invalid"}]
         /\ ctx' \in [Calls -> AnyTrace] /\ scopes' = scopes
         /\ executor' \in [Calls -> {"none", "open", "shut"}]
         /\ future' \in [Calls -> AllOutcomes \cup {"none", "pending", "running", "cancelled"}]
<1>1. CopiedContext(c) \in AnyTrace
  BY ContextType DEF CopiedContext
<1>2. QED BY <1>1 DEF TypeOK, Hand

LEMMA RecordType ==
  ASSUME TypeOK, NEW c \in Calls, Record(c)
  PROVE  events' \in [Calls -> Seq(EventRecord)]
<1>1. ExecutionEvent(c) \in EventRecord
  BY ContextType, RootTraceType, ClassificationType DEF ExecutionEvent, EventRecord, TypeOK
<1>2. \/ events' = events
      \/ events' = [events EXCEPT ![c] = Append(events[c], ExecutionEvent(c))]
  BY DEF Record
<1>3. events \in [Calls -> Seq(EventRecord)]
  BY DEF TypeOK
<1>4. Append(events[c], ExecutionEvent(c)) \in Seq(EventRecord)
  BY <1>1, <1>3
<1>5. QED BY <1>2, <1>3, <1>4

LEMMA BaseContextType ==
  ASSUME TypeOK, NEW c \in Calls
  PROVE  BaseContext(c) \in AnyTrace
<1>1. scopes[c] \in Seq(AnyTrace) /\ ctx[c] \in AnyTrace
  BY DEF TypeOK
<1>2. scopes[c] # <<>> => 1 \in DOMAIN scopes[c]
  BY <1>1
<1>3. QED BY <1>1, <1>2 DEF BaseContext

\* Each place where KeyboardInterrupt can hit.
LEMMA InterruptType ==
  ASSUME TypeOK, NEW c \in Calls, Interrupt(c)
  PROVE  TypeOK'
<1> USE DEF TypeOK, vars, callVars, poolVars, scopeVars, Goto, Decide, Statuses
<1>1. /\ status' = [status EXCEPT ![c] = "interrupted"]
      /\ UNCHANGED <<registry, policy, request, args, caller>>
  BY DEF Interrupt
<1>2. CASE InterruptedBefore(c)
  BY <1>1, <1>2 DEF InterruptedBefore
<1>3. CASE InterruptedSubmit(c)
  <2>1. \E w \in {"unstarted", "queued"} : worker' = [worker EXCEPT ![c] = w]
    BY <1>3 DEF InterruptedSubmit
  <2>2. Hand(c) /\ pc' = [pc EXCEPT ![c] = "left"] /\ events' = events
    BY <1>3 DEF InterruptedSubmit
  <2>3. worker' \in [Calls -> {"none", "unstarted", "queued", "holding", "running", "idle", "exited"}]
    BY <2>1
  <2>4. QED BY <1>1, <2>2, <2>3, HandType
<1>4. CASE InterruptedBody(c)
  <2>1. UNCHANGED <<bound, poolVars, scopeVars>>
    BY <1>4 DEF InterruptedBody
  <2>2. events' \in [Calls -> Seq(EventRecord)]
    BY <1>4, RecordType DEF InterruptedBody
  <2>3. \E to \in {"shutdown", "left"} : pc' = [pc EXCEPT ![c] = to]
    BY <1>4 DEF InterruptedBody, Leave
  <2>4. pc' \in [Calls -> {"idle", "lookup", "validate", "policy", "submit", "wait",
                          "cancel", "emit", "shutdown", "left"}]
    BY <2>3
  <2>5. QED BY <1>1, <2>1, <2>2, <2>4
<1>5. CASE InterruptedShutdown(c)
  <2>1. UNCHANGED <<bound, scopeVars, events>> /\ pc' = [pc EXCEPT ![c] = "left"]
    BY <1>5 DEF InterruptedShutdown
  <2>2. executor' = executor \/ executor' = [executor EXCEPT ![c] = "shut"]
    BY <1>5 DEF InterruptedShutdown
  <2>3. worker' = worker \/ worker' = [worker EXCEPT ![c] = "idle"]
    BY <1>5 DEF InterruptedShutdown
  <2>4. future' = future \/ future' = [future EXCEPT ![c] = "cancelled"]
    BY <1>5 DEF InterruptedShutdown
  <2>5. executor' \in [Calls -> {"none", "open", "shut"}]
    BY <2>2
  <2>6. worker' \in [Calls -> {"none", "unstarted", "queued", "holding", "running", "idle", "exited"}]
    BY <2>3
  <2>7. future' \in [Calls -> AllOutcomes \cup {"none", "pending", "running", "cancelled"}]
    BY <2>4
  <2>8. QED BY <1>1, <2>1, <2>5, <2>6, <2>7
<1>6. QED BY <1>2, <1>3, <1>4, <1>5 DEF Interrupt

\* Every step of execute, of a worker, of a handler or of the host keeps the
\* variables within their types.
LEMMA TypeStep == TypeOK /\ [Next]_vars => TypeOK'
<1> SUFFICES ASSUME TypeOK, [Next]_vars PROVE TypeOK'
    OBVIOUS
<1> USE DEF TypeOK, vars, callVars, poolVars, scopeVars, Goto, Decide, Statuses
<1>1. ASSUME NEW c \in Calls, Begin(c) PROVE TypeOK'
  <2>1. ctx[Parent[c]] \in AnyTrace \/ Parent[c] = NoCall
    BY CallsAssumption
  <2>2. \A t \in Traces \cup {NoTrace} : t \in AnyTrace
    BY DEF AnyTrace
  <2>3. caller' \in [Calls -> AnyTrace]
    <3>1. \E t \in AnyTrace : caller' = [caller EXCEPT ![c] = t]
      BY <1>1, <2>1, <2>2 DEF Begin
    <3>2. QED BY <3>1
  <2>4. /\ pc' = [pc EXCEPT ![c] = "lookup"]
        /\ UNCHANGED <<registry, policy, request, args, bound, status, poolVars, scopeVars, events>>
    BY <1>1 DEF Begin
  <2>5. QED BY <2>3, <2>4
<1>2. ASSUME NEW c \in Calls, Lookup(c) PROVE TypeOK'
  <2>1. \/ pc' = [pc EXCEPT ![c] = "validate"] /\ status' = status
        \/ /\ pc' = [pc EXCEPT ![c] = "emit"]
           /\ status' = [status EXCEPT ![c] = "tool_not_found"]
    BY <1>2 DEF Lookup, Reject
  <2>2. UNCHANGED <<registry, policy, request, args, bound, caller, poolVars, scopeVars, events>>
    BY <1>2 DEF Lookup, Reject
  <2>3. QED BY <2>1, <2>2
<1>3. ASSUME NEW c \in Calls, Validate(c) PROVE TypeOK'
  <2>1. \/ pc' = [pc EXCEPT ![c] = "policy"] /\ status' = status
        \/ /\ pc' = [pc EXCEPT ![c] = "emit"]
           /\ status' = [status EXCEPT ![c] = "invalid_arguments"]
    BY <1>3 DEF Validate, Reject
  <2>2. UNCHANGED <<registry, policy, request, args, bound, caller, poolVars, scopeVars, events>>
    BY <1>3 DEF Validate
  <2>3. QED BY <2>1, <2>2
<1>4. ASSUME NEW c \in Calls, ApplyPolicy(c) PROVE TypeOK'
  <2> DEFINE v == Verdict(Permission[request[c].tool], EnginePolicy(c), request[c].confirmed)
  <2>1. Permission[request[c].tool] \in {"READ", "ACTION", "DANGEROUS"}
    BY ToolsAssumption, RequestsAssumption DEF Request, Permissions
  <2>2. v \in {"allowed", "confirmation_required", "denied"}
    BY <2>1 DEF Verdict
  <2>3. CASE v = "allowed"
    <3>1. pc' = [pc EXCEPT ![c] = "submit"] /\ status' = status
      BY <1>4, <2>3 DEF ApplyPolicy
    <3>2. UNCHANGED <<registry, policy, request, args, bound, caller, poolVars, scopeVars, events>>
      BY <1>4 DEF ApplyPolicy
    <3>3. QED BY <3>1, <3>2
  <2>4. CASE v # "allowed"
    <3>1. Reject(c, v) /\ UNCHANGED <<registry, policy, request, args, bound, caller, poolVars, scopeVars, events>>
      BY <1>4, <2>4 DEF ApplyPolicy
    <3> HIDE DEF v
    <3>2. QED BY <2>2, <2>4, <3>1 DEF Reject
  <2>5. QED BY <2>3, <2>4
<1>5. ASSUME NEW c \in Calls, Submit(c) PROVE TypeOK'
  <2>1. UNCHANGED <<registry, policy, request, args, caller, events>>
    BY <1>5 DEF Submit
  <2>2. CASE ThreadAvailable
    <3>1. /\ worker' = [worker EXCEPT ![c] = "queued"]
          /\ pc' = [pc EXCEPT ![c] = "wait"]
          /\ status' = status
      BY <1>5, <2>2 DEF Submit
    <3>2. QED BY <1>5, <2>1, <3>1, HandType DEF Submit
  <2>3. CASE ~ThreadAvailable
    <3>1. /\ worker' = [worker EXCEPT ![c] = "unstarted"]
          /\ pc' = [pc EXCEPT ![c] = "left"]
          /\ status' = [status EXCEPT ![c] = "raised"]
      BY <1>5, <2>3 DEF Submit
    <3>2. QED BY <1>5, <2>1, <3>1, HandType DEF Submit
  <2>4. QED BY <2>2, <2>3
<1>6. ASSUME NEW c \in Calls, Collect(c) PROVE TypeOK'
  BY <1>6 DEF Collect, AfterWait, AllOutcomes
<1>7. ASSUME NEW c \in Calls, Timeout(c) PROVE TypeOK'
  BY <1>7 DEF Timeout
<1>8. ASSUME NEW c \in Calls, Cancel(c) PROVE TypeOK'
  BY <1>8 DEF Cancel
<1>9. ASSUME NEW c \in Calls, Emit(c) PROVE TypeOK'
  <2>1. events' \in [Calls -> Seq(EventRecord)]
    BY <1>9, RecordType DEF Emit
  <2>2. QED BY <1>9, <2>1 DEF Emit, Leave
<1>10. ASSUME NEW c \in Calls, Shutdown(c) PROVE TypeOK'
  <2>1. /\ executor' = [executor EXCEPT ![c] = "shut"]
        /\ UNCHANGED <<registry, policy, request, args, bound, status, caller, scopeVars, events>>
    BY <1>10 DEF Shutdown
  <2>2. pc' \in [Calls -> {"idle", "lookup", "validate", "policy", "submit", "wait",
                         "cancel", "emit", "shutdown", "left"}]
    <3>1. \E to \in {"emit", "left"} : pc' = [pc EXCEPT ![c] = to]
      BY <1>10 DEF Shutdown
    <3>2. QED BY <3>1
  <2>3. \/ UNCHANGED <<worker, future>>
        \/ /\ worker' = [worker EXCEPT ![c] = "idle"]
           /\ future' = [future EXCEPT ![c] = "cancelled"]
    BY <1>10 DEF Shutdown
  <2>4. worker' \in [Calls -> {"none", "unstarted", "queued", "holding", "running", "idle", "exited"}]
    BY <2>3
  <2>5. future' \in [Calls -> AllOutcomes \cup {"none", "pending", "running", "cancelled"}]
    BY <2>3
  <2>6. QED BY <2>1, <2>2, <2>4, <2>5
<1>11. ASSUME NEW c \in Calls, Interrupt(c) PROVE TypeOK'
  BY <1>11, InterruptType
<1>12. ASSUME NEW c \in Calls, WorkerStep(c) PROVE TypeOK'
  <2>1. CASE Take(c)
    BY <2>1 DEF Take
  <2>2. CASE Start(c)
    <3>1. UNCHANGED <<registry, policy, callVars, executor, scopeVars, events>>
      BY <2>2 DEF Start
    <3>2. /\ \E w \in {"idle", "running"} : worker' = [worker EXCEPT ![c] = w]
          /\ \E f \in {future[c], "running"} : future' = [future EXCEPT ![c] = f]
      BY <2>2 DEF Start
    <3>3. worker' \in [Calls -> {"none", "unstarted", "queued", "holding", "running", "idle", "exited"}]
      BY <3>2
    <3>4. future' \in [Calls -> AllOutcomes \cup {"none", "pending", "running", "cancelled"}]
      BY <3>2
    <3>5. QED BY <3>1, <3>3, <3>4
  <2>3. CASE Exit(c)
    BY <2>3 DEF Exit
  <2>4. QED BY <1>12, <2>1, <2>2, <2>3 DEF WorkerStep
<1>13. ASSUME NEW c \in Calls, NEW o \in Outcomes, Finish(c, o) PROVE TypeOK'
  <2>1. BaseContext(c) \in AnyTrace
    BY BaseContextType
  <2>2. ctx' \in [Calls -> AnyTrace]
    BY <1>13, <2>1 DEF Finish
  <2>3. <<>> \in Seq(AnyTrace)
    OBVIOUS
  <2>4. scopes' \in [Calls -> Seq(AnyTrace)]
    BY <1>13, <2>3 DEF Finish
  <2>5. worker' = [worker EXCEPT ![c] = "idle"] /\ future' = [future EXCEPT ![c] = o]
    BY <1>13 DEF Finish
  <2>6. UNCHANGED <<registry, policy, callVars, executor, events>>
    BY <1>13 DEF Finish
  <2>7. QED BY <2>2, <2>4, <2>5, <2>6, EnvironmentAssumption
<1>14. ASSUME NEW c \in Calls, Span(c) PROVE TypeOK'
  <2>1. SpanTrace(c) \in AnyTrace /\ Adopted \subseteq AnyTrace
    <3>1. RootTrace("span", c) \in AnyTrace /\ ctx[c] \in AnyTrace
      BY RootTraceType
    <3>2. Adopted \subseteq AnyTrace
      BY DEF AnyTrace
    <3>3. QED BY <3>1, <3>2 DEF SpanTrace
  <2>2. scopes[c] \in Seq(AnyTrace) /\ ctx[c] \in AnyTrace
    OBVIOUS
  <2>3. scopes[c] # <<>> => /\ scopes[c][Len(scopes[c])] \in AnyTrace
                           /\ SubSeq(scopes[c], 1, Len(scopes[c]) - 1) \in Seq(AnyTrace)
    <3> HIDE DEF TypeOK
    <3>1. QED BY <2>2
  <2>4. Append(scopes[c], ctx[c]) \in Seq(AnyTrace)
    <3> HIDE DEF TypeOK
    <3>1. QED BY <2>2
  <2>5. \E t \in AnyTrace : ctx' = [ctx EXCEPT ![c] = t]
    BY <1>14, <2>1, <2>3 DEF Span
  <2>6. ctx' \in [Calls -> AnyTrace]
    BY <2>5
  <2>7. \E q \in Seq(AnyTrace) : scopes' = [scopes EXCEPT ![c] = q]
    BY <1>14, <2>3, <2>4 DEF Span
  <2>8. scopes' \in [Calls -> Seq(AnyTrace)]
    BY <2>7
  <2>9. UNCHANGED <<registry, policy, callVars, poolVars, events>>
    BY <1>14 DEF Span
  <2>10. QED BY <2>6, <2>8, <2>9
<1>15. ASSUME NEW c \in Calls, MutateArguments(c) PROVE TypeOK'
  BY <1>15 DEF MutateArguments
<1>16. ASSUME NEW t \in Tools, Register(t) PROVE TypeOK'
  BY <1>16 DEF Register
<1>17. CASE UNCHANGED vars
  BY <1>17
<1>18. QED
  BY <1>1, <1>2, <1>3, <1>4, <1>5, <1>6, <1>7, <1>8, <1>9, <1>10, <1>11,
     <1>12, <1>13, <1>14, <1>15, <1>16, <1>17
     DEF Next, CallerStep, HandlerEnds

\* Type correctness holds from the start on, whatever the instance.
THEOREM TypeCorrect == Spec => []TypeOK
<1>1. Init => TypeOK
  <2> SUFFICES ASSUME Init PROVE TypeOK
      OBVIOUS
  <2>1. args \in [Calls -> {"valid", "invalid"}]
    BY RequestsAssumption DEF Init, Request
  <2>2. NoTrace \in AnyTrace
    BY DEF AnyTrace
  <2>3. QED BY <2>1, <2>2, ToolsAssumption, EnvironmentAssumption DEF Init, TypeOK
<1>2. QED BY <1>1, TypeStep, PTL DEF Spec

-----------------------------------------------------------------------------
(* Policy before execution.                                                *)

\* What was asked and under which policy never changes; tools only arrive.
LEMMA StableRequests ==
  [Next]_vars => request' = request /\ policy' = policy /\ registry \subseteq registry'
<1> USE DEF vars, callVars, poolVars, scopeVars, Goto, Decide
<1>1. ASSUME NEW c \in Calls,
             Begin(c) \/ Lookup(c) \/ Validate(c) \/ ApplyPolicy(c) \/ Submit(c)
      PROVE  request' = request /\ policy' = policy /\ registry' = registry
  BY <1>1 DEF Begin, Lookup, Validate, ApplyPolicy, Submit
<1>2. ASSUME NEW c \in Calls,
             Collect(c) \/ Cancel(c) \/ Emit(c) \/ Shutdown(c) \/ Timeout(c) \/ Interrupt(c)
      PROVE  request' = request /\ policy' = policy /\ registry' = registry
  BY <1>2 DEF Collect, Cancel, Emit, Shutdown, Timeout, Interrupt
<1>3. ASSUME NEW c \in Calls,
             WorkerStep(c) \/ HandlerEnds(c) \/ Span(c) \/ MutateArguments(c)
      PROVE  request' = request /\ policy' = policy /\ registry' = registry
  BY <1>3 DEF WorkerStep, Take, Start, Exit, HandlerEnds, Finish, Span, MutateArguments
<1>4. ASSUME NEW t \in Tools, Register(t)
      PROVE  request' = request /\ policy' = policy /\ registry \subseteq registry'
  BY <1>4 DEF Register
<1>5. QED BY <1>1, <1>2, <1>3, <1>4 DEF Next, CallerStep

\* _apply_policy lets a request through exactly when it is authorised.
LEMMA AllowedIsAuthorised ==
  ASSUME TypeOK, NEW c \in Calls
  PROVE  Verdict(Permission[request[c].tool], EnginePolicy(c), request[c].confirmed) = "allowed"
           <=> Authorised(c)
<1>1. Permission[request[c].tool] \in {"READ", "ACTION", "DANGEROUS"}
  BY ToolsAssumption, RequestsAssumption DEF TypeOK, Request, Permissions
<1>2. request[c].via \in {"engine", "registry"} /\ request[c].confirmed \in BOOLEAN
  BY RequestsAssumption DEF TypeOK, Request
<1>3. request[c].via = "registry" => ~request[c].confirmed
  BY RequestsAssumption DEF TypeOK
<1>4. CASE request[c].via = "registry"
  BY <1>1, <1>2, <1>3, <1>4 DEF Verdict, EnginePolicy, DefaultPolicy, Authorised
<1>5. CASE request[c].via = "engine"
  BY <1>1, <1>2, <1>5 DEF Verdict, EnginePolicy, Authorised
<1>6. QED BY <1>2, <1>4, <1>5

CallStep(d) ==
  \/ Begin(d) \/ CallerStep(d) \/ Timeout(d) \/ Interrupt(d)
  \/ WorkerStep(d) \/ HandlerEnds(d) \/ Span(d) \/ MutateArguments(d)

Unmoved(c) ==
  /\ pc'[c] = pc[c] /\ status'[c] = status[c] /\ executor'[c] = executor[c]
  /\ worker'[c] = worker[c] /\ future'[c] = future[c]

\* What an interrupt makes of the call it hits.
InterruptLeaves(c) ==
  \/ /\ pc[c] \in {"lookup", "validate", "policy", "submit"} /\ pc'[c] = "left"
     /\ executor'[c] = executor[c] /\ worker'[c] = worker[c] /\ future'[c] = future[c]
     /\ events' = events /\ scopeVars' = scopeVars
  \/ /\ pc[c] = "submit" /\ pc'[c] = "left" /\ Hand(c)
     /\ executor'[c] = "open" /\ future'[c] = "pending"
     /\ worker'[c] \in {"unstarted", "queued"}
     /\ events' = events
  \/ /\ pc[c] \in {"wait", "cancel", "emit"}
     /\ pc'[c] = IF executor[c] = "open" THEN "shutdown" ELSE "left"
     /\ executor'[c] = executor[c] /\ worker'[c] = worker[c] /\ future'[c] = future[c]
     /\ events' = events \/ (pc[c] = "emit" /\ Record(c))
     /\ scopeVars' = scopeVars
  \/ /\ pc[c] = "shutdown" /\ pc'[c] = "left"
     /\ executor'[c] \in {executor[c], "shut"}
     /\ \/ worker'[c] = worker[c] /\ future'[c] = future[c]
        \/ /\ worker[c] = "queued" /\ worker'[c] = "idle"
           /\ future'[c] \in {future[c], "cancelled"}
     /\ events' = events /\ scopeVars' = scopeVars

LEMMA InterruptEffect ==
  ASSUME TypeOK, NEW c \in Calls, Interrupt(c)
  PROVE  /\ Interrupts /\ Parent[c] = NoCall /\ InterruptLeaves(c)
         /\ status' = [status EXCEPT ![c] = "interrupted"] /\ status'[c] = "interrupted"
         /\ UNCHANGED <<registry, policy, request, args, caller>>
         /\ \A d \in Calls \ {c} : Unmoved(d)
<1> USE DEF Goto, Decide, poolVars
<1>1. /\ Interrupts /\ Parent[c] = NoCall
      /\ status' = [status EXCEPT ![c] = "interrupted"]
      /\ UNCHANGED <<registry, policy, request, args, caller>>
  BY DEF Interrupt
<1>2. CASE InterruptedBefore(c)
  <2>1. UNCHANGED <<executor, worker, future>> /\ pc' = [pc EXCEPT ![c] = "left"]
    BY <1>2 DEF InterruptedBefore
  <2>2. InterruptLeaves(c)
    BY <1>2, <2>1 DEF InterruptedBefore, InterruptLeaves, TypeOK
  <2>3. QED BY <1>1, <2>1, <2>2 DEF Unmoved, TypeOK
<1>3. CASE InterruptedSubmit(c)
  <2>1. PICK w \in {"unstarted", "queued"} : worker' = [worker EXCEPT ![c] = w]
    BY <1>3 DEF InterruptedSubmit
  <2>2. /\ executor' = [executor EXCEPT ![c] = "open"]
        /\ future' = [future EXCEPT ![c] = "pending"]
        /\ pc' = [pc EXCEPT ![c] = "left"]
    BY <1>3 DEF InterruptedSubmit, Hand
  <2>3. InterruptLeaves(c)
    BY <1>3, <2>1, <2>2 DEF InterruptedSubmit, InterruptLeaves, TypeOK
  <2>4. QED BY <1>1, <2>1, <2>2, <2>3 DEF Unmoved, TypeOK
<1>4. CASE InterruptedBody(c)
  <2>1. /\ UNCHANGED <<executor, worker, future>>
        /\ pc' = [pc EXCEPT ![c] = IF executor[c] = "open" THEN "shutdown" ELSE "left"]
    BY <1>4 DEF InterruptedBody, Leave
  <2>2. InterruptLeaves(c)
    BY <1>4, <2>1 DEF InterruptedBody, InterruptLeaves, TypeOK
  <2>3. QED BY <1>1, <2>1, <2>2 DEF Unmoved, TypeOK
<1>5. CASE InterruptedShutdown(c)
  <2>1. /\ pc' = [pc EXCEPT ![c] = "left"]
        /\ executor' = executor \/ executor' = [executor EXCEPT ![c] = "shut"]
        /\ worker' = worker \/ worker' = [worker EXCEPT ![c] = "idle"]
        /\ future' = future \/ future' = [future EXCEPT ![c] = "cancelled"]
    BY <1>5 DEF InterruptedShutdown
  <2>2. InterruptLeaves(c)
    BY <1>5, <2>1 DEF InterruptedShutdown, InterruptLeaves, DrainsQueue, TypeOK
  <2>3. QED BY <1>1, <2>1, <2>2 DEF Unmoved, TypeOK
<1>6. QED BY <1>2, <1>3, <1>4, <1>5 DEF Interrupt

\* Which steps move a call past a check, or give it a worker.
LEMMA PolicyStep == TypeOK /\ PolicyInv /\ [Next]_vars => PolicyInv'
<1> SUFFICES ASSUME TypeOK, PolicyInv, [Next]_vars, NEW c \in Calls
             PROVE  /\ pc'[c] \in {"validate", "policy", "submit"} => request[c].tool \in registry
                    /\ pc'[c] = "submit" => Authorised(c)
                    /\ worker'[c] # "none" => request[c].tool \in registry /\ Authorised(c)
  BY StableRequests DEF PolicyInv, Authorised
<1> USE DEF Goto, Decide
<1>1. ASSUME NEW d \in Calls, Begin(d) \/ Validate(d) \/ Collect(d) \/ Timeout(d) \/ Cancel(d) \/ Emit(d)
      PROVE  /\ worker'[c] = worker[c]
             /\ pc'[c] = pc[c] \/ (pc[c] = "validate" /\ pc'[c] = "policy")
                \/ pc'[c] \notin {"validate", "policy", "submit"}
  BY <1>1 DEF TypeOK, Begin, Validate, Collect, Timeout, Cancel, Emit, Leave, Reject,
              AfterWait, AllOutcomes, poolVars
<1>2. ASSUME NEW d \in Calls, Lookup(d)
      PROVE  /\ worker'[c] = worker[c]
             /\ pc'[c] = pc[c] \/ pc'[c] = "emit"
                \/ (pc'[c] = "validate" /\ request[c].tool \in registry)
  BY <1>2 DEF TypeOK, Lookup, Reject, poolVars
<1>3. ASSUME NEW d \in Calls, ApplyPolicy(d)
      PROVE  /\ worker'[c] = worker[c]
             /\ pc'[c] = pc[c] \/ pc'[c] = "emit"
                \/ (pc[c] = "policy" /\ pc'[c] = "submit" /\ Authorised(c))
  BY <1>3, AllowedIsAuthorised DEF TypeOK, ApplyPolicy, Reject, poolVars
<1>4. ASSUME NEW d \in Calls, Submit(d)
      PROVE  /\ pc'[c] = pc[c] \/ pc'[c] \in {"wait", "left"}
             /\ worker'[c] = worker[c] \/ pc[c] = "submit"
  BY <1>4 DEF TypeOK, Submit
<1>9. ASSUME NEW d \in Calls, Interrupt(d)
      PROVE  /\ pc'[c] = pc[c] \/ pc'[c] \in {"shutdown", "left"}
             /\ worker'[c] = worker[c] \/ pc[c] = "submit" \/ worker[c] # "none"
  BY <1>9, InterruptEffect DEF InterruptLeaves, Unmoved
<1>5. ASSUME NEW d \in Calls,
             Shutdown(d) \/ WorkerStep(d) \/ HandlerEnds(d) \/ Span(d) \/ MutateArguments(d)
      PROVE  /\ pc'[c] = pc[c] \/ pc'[c] \in {"emit", "left"}
             /\ worker[c] = "none" => worker'[c] = "none"
  BY <1>5 DEF TypeOK, Shutdown, WorkerStep, Take, Start, Exit, HandlerEnds, Finish,
              RunsHandler, Span, MutateArguments, callVars, poolVars, DrainsQueue
<1>6. ASSUME NEW t \in Tools, Register(t)
      PROVE  pc' = pc /\ worker' = worker
  BY <1>6 DEF Register, callVars, poolVars
<1>7. UNCHANGED vars => pc' = pc /\ worker' = worker
  BY DEF vars, callVars, poolVars
<1>8. QED
  BY <1>1, <1>2, <1>3, <1>4, <1>5, <1>6, <1>7, <1>9 DEF PolicyInv, Next, CallerStep

\* No interleaving of lookups, registrations, nested calls and interrupts
\* brings a handler to a worker thread unregistered or unauthorised.
THEOREM PolicyIsEnforced == Spec => []PolicyBeforeExecution
<1>1. Init => PolicyInv
  BY DEF Init, PolicyInv
<1>2. PolicyInv => PolicyBeforeExecution
  BY DEF PolicyInv, PolicyBeforeExecution
<1>3. QED BY <1>1, <1>2, PolicyStep, TypeCorrect, PTL DEF Spec

-----------------------------------------------------------------------------
(* Callers, futures and worker threads.                                    *)

\* A step of one call leaves caller, future and worker of the others alone.
LEMMA OthersUnmoved ==
  ASSUME TypeOK, NEW c \in Calls, NEW d \in Calls, c # d, CallStep(d)
  PROVE  Unmoved(c)
<1> USE DEF TypeOK, Unmoved, Goto, Decide, callVars, poolVars
<1>1. CASE Begin(d) \/ Timeout(d) \/ Span(d) \/ MutateArguments(d)
  BY <1>1 DEF Begin, Timeout, Span, MutateArguments
<1>2. CASE Lookup(d) \/ Validate(d) \/ ApplyPolicy(d)
  BY <1>2 DEF Lookup, Validate, ApplyPolicy, Reject
<1>3. CASE Submit(d)
  BY <1>3 DEF Submit, Hand
<1>4. CASE Collect(d) \/ Cancel(d) \/ Emit(d)
  BY <1>4 DEF Collect, Cancel, Emit, Leave
<1>5. CASE Shutdown(d)
  BY <1>5 DEF Shutdown
<1>6. CASE WorkerStep(d) \/ HandlerEnds(d)
  BY <1>6 DEF WorkerStep, Take, Start, Exit, HandlerEnds, Finish
<1>7. CASE Interrupt(d)
  BY <1>7, InterruptEffect
<1>8. QED BY <1>1, <1>2, <1>3, <1>4, <1>5, <1>6, <1>7 DEF CallStep, CallerStep

LEMMA UnmovedKeeps ==
  ASSUME NEW c \in Calls, FutureInv(c), CallerInv(c), Unmoved(c)
  PROVE  FutureInv(c)' /\ CallerInv(c)'
  BY DEF Unmoved, FutureInv, CallerInv, StatusMeans, Rejected, Submitted, Interrupted, Left

\* The steps of execute up to the submit: the call has no worker yet.
LEMMA ChecksKeep ==
  ASSUME TypeOK, NEW c \in Calls, FutureInv(c), CallerInv(c),
         Begin(c) \/ Lookup(c) \/ Validate(c) \/ ApplyPolicy(c)
  PROVE  FutureInv(c)' /\ CallerInv(c)'
<1> USE DEF TypeOK, FutureInv, CallerInv, StatusMeans, Rejected, Submitted, Interrupted, Left,
            Goto, Decide
<1>1. CASE Begin(c)
  BY <1>1 DEF Begin, poolVars
<1>2. CASE Lookup(c)
  BY <1>2 DEF Lookup, Reject, poolVars
<1>3. CASE Validate(c)
  BY <1>3 DEF Validate, Reject, poolVars
<1>4. CASE ApplyPolicy(c)
  <2> DEFINE v == Verdict(Permission[request[c].tool], EnginePolicy(c), request[c].confirmed)
  <2>1. Permission[request[c].tool] \in {"READ", "ACTION", "DANGEROUS"}
    BY ToolsAssumption, RequestsAssumption DEF Request, Permissions
  <2>2. v \in {"allowed", "confirmation_required", "denied"}
    BY <2>1 DEF Verdict
  <2> HIDE DEF v
  <2>3. \/ v = "allowed" /\ pc'[c] = "submit" /\ UNCHANGED <<status, poolVars>>
        \/ v # "allowed" /\ pc'[c] = "emit" /\ status'[c] = v /\ UNCHANGED poolVars
    BY <1>4 DEF ApplyPolicy, Reject, v
  <2>4. pc[c] = "policy"
    BY <1>4 DEF ApplyPolicy
  <2>5. QED BY <2>2, <2>3, <2>4 DEF poolVars
<1>5. QED BY <1>1, <1>2, <1>3, <1>4

\* The steps of execute from the submit on.
LEMMA OutcomesKeep ==
  ASSUME TypeOK, NEW c \in Calls, FutureInv(c), CallerInv(c),
         \/ Submit(c) \/ Collect(c) \/ Timeout(c) \/ Cancel(c)
         \/ Emit(c) \/ Shutdown(c) \/ Interrupt(c)
  PROVE  FutureInv(c)' /\ CallerInv(c)'
<1> USE DEF TypeOK, FutureInv, CallerInv, StatusMeans, Rejected, Submitted, Interrupted, Left,
            Goto, Decide
<1>1. CASE Submit(c)
  BY <1>1 DEF Submit, Hand
<1>2. CASE Collect(c)
  BY <1>2 DEF Collect, AfterWait, AllOutcomes, poolVars
<1>3. CASE Timeout(c)
  BY <1>3 DEF Timeout, poolVars
<1>4. CASE Cancel(c)
  BY <1>4 DEF Cancel, AllOutcomes
<1>5. CASE Emit(c)
  BY <1>5 DEF Emit, Leave, poolVars, AllOutcomes
<1>6. CASE Shutdown(c)
  BY <1>6 DEF Shutdown, DrainsQueue, AllOutcomes
<1>7. CASE Interrupt(c)
  <2>1. InterruptLeaves(c) /\ Interrupted(c)'
    BY <1>7, InterruptEffect DEF Interrupted
  <2>2. QED BY <2>1 DEF InterruptLeaves, AllOutcomes
<1>8. QED BY <1>1, <1>2, <1>3, <1>4, <1>5, <1>6, <1>7

\* The steps of the worker thread and of the handler.
LEMMA WorkerKeeps ==
  ASSUME TypeOK, NEW c \in Calls, FutureInv(c), CallerInv(c),
         WorkerStep(c) \/ HandlerEnds(c)
  PROVE  FutureInv(c)' /\ CallerInv(c)'
<1> USE DEF TypeOK, FutureInv, CallerInv, StatusMeans, Rejected, Submitted, Interrupted, Left,
            AllOutcomes
<1>1. CASE Take(c)
  BY <1>1 DEF Take, callVars
<1>2. CASE Start(c)
  BY <1>2 DEF Start, callVars
<1>3. CASE Exit(c)
  BY <1>3 DEF Exit, callVars
<1>4. ASSUME NEW o \in Outcomes, Finish(c, o) PROVE FutureInv(c)' /\ CallerInv(c)'
  BY <1>4, EnvironmentAssumption DEF Finish, RunsHandler, callVars
<1>5. QED BY <1>1, <1>2, <1>3, <1>4 DEF WorkerStep, HandlerEnds

LEMMA ThreadsStep == TypeOK /\ ThreadsInv /\ [Next]_vars => ThreadsInv'
<1> SUFFICES ASSUME TypeOK, ThreadsInv, [Next]_vars, NEW c \in Calls
             PROVE  FutureInv(c)' /\ CallerInv(c)'
  BY DEF ThreadsInv
<1>1. FutureInv(c) /\ CallerInv(c)
  BY DEF ThreadsInv
<1>2. CASE CallStep(c)
  <2>1. CASE Span(c) \/ MutateArguments(c)
    <3>1. Unmoved(c)
      BY <2>1 DEF Span, MutateArguments, Unmoved, callVars, poolVars
    <3>2. QED BY <1>1, <3>1, UnmovedKeeps
  <2>2. QED
    BY <1>1, <1>2, <2>1, ChecksKeep, OutcomesKeep, WorkerKeeps DEF CallStep, CallerStep
<1>3. ASSUME NEW d \in Calls, c # d, CallStep(d) PROVE FutureInv(c)' /\ CallerInv(c)'
  BY <1>1, <1>3, OthersUnmoved, UnmovedKeeps
<1>4. CASE UNCHANGED vars \/ \E t \in Tools : Register(t)
  <2>1. Unmoved(c)
    BY <1>4 DEF Register, Unmoved, vars, callVars, poolVars
  <2>2. QED BY <1>1, <2>1, UnmovedKeeps
<1>5. QED BY <1>2, <1>3, <1>4 DEF Next, CallStep

LEMMA ThreadsInvariant == Spec => []ThreadsInv
<1>1. Init => ThreadsInv
  BY DEF Init, ThreadsInv, FutureInv, CallerInv
<1>2. QED BY <1>1, ThreadsStep, TypeCorrect, PTL DEF Spec

\* A call that returns leaves nothing open, queued or pending, and only one
\* that was interrupted leaves a handler that has still to start.
THEOREM NothingLeftBehind == Spec => []NoWorkLeftBehind
<1>1. TypeOK /\ ThreadsInv => NoWorkLeftBehind
  BY DEF TypeOK, ThreadsInv, FutureInv, CallerInv, StatusMeans, Rejected, Submitted,
         Interrupted, NoWorkLeftBehind, StillToStart, Statuses, Left, AllOutcomes
<1>2. QED BY <1>1, ThreadsInvariant, TypeCorrect, PTL

-----------------------------------------------------------------------------
(* Execution implements ExecutionContract.                                 *)

Verdicts ==
  {"tool_not_found", "invalid_arguments", "denied", "confirmation_required",
   "success", "error", "timeout", "raised", "interrupted"}

\* The four ways a step of c can look to the contract.
Hidden(c) == VerdictOf(c)' = VerdictOf(c) /\ HandlerOf(c)' = HandlerOf(c)

HandlerStarts(c) ==
  /\ HandlerOf(c) = "unstarted" /\ HandlerOf(c)' = "running"
  /\ VerdictOf(c) = "open" \/ (Interrupts /\ VerdictOf(c) = "interrupted")
  /\ VerdictOf(c)' = VerdictOf(c)

HandlerStops(c) ==
  /\ HandlerOf(c) = "running" /\ HandlerOf(c)' \in AllOutcomes
  /\ VerdictOf(c)' = VerdictOf(c)

CallAnswers(c) ==
  /\ VerdictOf(c) = "open" /\ VerdictOf(c)' \in Verdicts
  /\ Contract!Justified(c, VerdictOf(c)')
  /\ HandlerOf(c)' = HandlerOf(c)

\* Before the outcome of the handler is known nothing is visible, except the
\* submit that fails to start a thread.
LEMMA EarlyStepsRefine ==
  ASSUME TypeOK, NEW c \in Calls, FutureInv(c), CallerInv(c),
         \/ Begin(c) \/ Lookup(c) \/ Validate(c) \/ ApplyPolicy(c) \/ Submit(c)
         \/ Collect(c) \/ Timeout(c) \/ Cancel(c)
  PROVE  Hidden(c) \/ CallAnswers(c)
<1> USE DEF TypeOK, FutureInv, CallerInv, Hidden, VerdictOf, HandlerOf, Left, RunsHandler,
            AllOutcomes, Goto, Decide, poolVars
<1>1. CASE Begin(c) \/ Timeout(c)
  BY <1>1 DEF Begin, Timeout
<1>2. CASE Lookup(c)
  BY <1>2 DEF Lookup, Reject
<1>3. CASE Validate(c)
  BY <1>3 DEF Validate, Reject
<1>4. CASE ApplyPolicy(c)
  BY <1>4 DEF ApplyPolicy, Reject
<1>5. CASE Submit(c)
  <2>1. CASE ThreadAvailable
    BY <1>5, <2>1 DEF Submit, Hand
  <2>2. CASE ~ThreadAvailable
    BY <1>5, <2>2 DEF Submit, Hand, CallAnswers, Verdicts, Contract!Justified
  <2>3. QED BY <2>1, <2>2
<1>6. CASE Collect(c)
  BY <1>6 DEF Collect, AfterWait
<1>7. CASE Cancel(c)
  BY <1>7 DEF Cancel
<1>8. QED BY <1>1, <1>2, <1>3, <1>4, <1>5, <1>6, <1>7

\* The steps that leave execute answer with a status the future justifies.
LEMMA LeavingRefines ==
  ASSUME TypeOK, NEW c \in Calls, FutureInv(c), CallerInv(c),
         Emit(c) \/ Shutdown(c) \/ Interrupt(c)
  PROVE  Hidden(c) \/ CallAnswers(c)
<1>1. HandlerOf(c)' = HandlerOf(c)
  <2>1. CASE Emit(c) \/ Shutdown(c)
    BY <2>1 DEF TypeOK, FutureInv, HandlerOf, RunsHandler, AllOutcomes, Emit, Shutdown,
                poolVars, DrainsQueue
  <2>2. CASE Interrupt(c)
    <3>1. InterruptLeaves(c)
      BY <2>2, InterruptEffect
    <3>2. pc[c] = "submit" => worker[c] = "none"
      BY DEF CallerInv
    <3>3. QED
      BY <3>1, <3>2 DEF InterruptLeaves, FutureInv, HandlerOf, RunsHandler, AllOutcomes
  <2>3. QED BY <2>1, <2>2
<1>2. ~Left(c)
  <2>1. CASE Emit(c) \/ Shutdown(c)
    BY <2>1 DEF Left, Emit, Shutdown
  <2>2. CASE Interrupt(c)
    BY <2>2, InterruptEffect DEF InterruptLeaves, Left
  <2>3. QED BY <2>1, <2>2
<1>3. CASE ~Left(c)'
  BY <1>1, <1>2, <1>3 DEF Hidden, VerdictOf
<1>4. CASE Left(c)' /\ Interrupt(c)
  <2>1. status'[c] = "interrupted" /\ Interrupts
    BY <1>4, InterruptEffect
  <2>2. QED
    BY <1>1, <1>2, <1>4, <2>1 DEF CallAnswers, VerdictOf, Verdicts, Contract!Justified
<1>5. CASE Left(c)' /\ (Emit(c) \/ Shutdown(c))
  <2>1. (Rejected(c) /\ HandlerOf(c) = "unstarted") \/ StatusMeans(c)
    BY <1>5 DEF TypeOK, CallerInv, FutureInv, Emit, Shutdown, Rejected,
                Submitted, HandlerOf, RunsHandler, AllOutcomes
  <2>2. StatusMeans(c) =>
          \/ status[c] = "success" /\ HandlerOf(c) = "value"
          \/ status[c] = "error" /\ HandlerOf(c) = "error"
          \/ status[c] = "timeout"
          \/ status[c] = "raised" /\ HandlerOf(c) = "exit"
          \/ status[c] = "interrupted" /\ Interrupts
    BY DEF TypeOK, FutureInv, StatusMeans, Interrupted, HandlerOf, RunsHandler, AllOutcomes
  <2>3. status' = status
    BY <1>5 DEF Emit, Shutdown
  <2>4. status'[c] \in Verdicts /\ Contract!Justified(c, status'[c])
    BY <2>1, <2>2, <2>3 DEF Verdicts, Rejected, Contract!Justified, Contract!Rejections
  <2>5. QED BY <1>1, <1>2, <1>5, <2>4 DEF CallAnswers, VerdictOf
<1>6. QED BY <1>3, <1>4, <1>5

\* Only Start starts the handler and only Finish ends it.
LEMMA WorkerRefines ==
  ASSUME TypeOK, NEW c \in Calls, FutureInv(c), CallerInv(c),
         WorkerStep(c) \/ HandlerEnds(c) \/ Span(c) \/ MutateArguments(c)
  PROVE  Hidden(c) \/ HandlerStarts(c) \/ HandlerStops(c)
<1> USE DEF TypeOK, FutureInv, VerdictOf, HandlerOf, Left, RunsHandler, callVars, poolVars
<1>1. CASE Take(c) \/ Exit(c) \/ Span(c) \/ MutateArguments(c)
  BY <1>1 DEF Take, Exit, Span, MutateArguments, Hidden
<1>2. CASE Start(c)
  <2>1. CASE future[c] = "cancelled"
    BY <1>2, <2>1 DEF Start, Hidden, AllOutcomes
  <2>2. CASE future[c] = "pending"
    BY <1>2, <2>2 DEF Start, HandlerStarts, CallerInv, StatusMeans, Interrupted, Rejected,
                              Submitted, AllOutcomes
  <2>3. QED BY <1>2, <2>1, <2>2 DEF Start
<1>3. ASSUME NEW o \in Outcomes, Finish(c, o) PROVE HandlerStops(c)
  BY <1>3, EnvironmentAssumption DEF Finish, HandlerStops
<1>4. QED BY <1>1, <1>2, <1>3 DEF WorkerStep, HandlerEnds

\* A step of one call, hidden at all others, is a step of the contract.
LEMMA CallRefines ==
  ASSUME NEW c \in Calls, \A d \in Calls \ {c} : Hidden(d),
         Hidden(c) \/ HandlerStarts(c) \/ HandlerStops(c) \/ CallAnswers(c)
  PROVE  [Contract!Next]_(Contract!vars)
<1> DEFINE V == [d \in Calls |-> VerdictOf(d)]
           H == [d \in Calls |-> HandlerOf(d)]
<1>1. V' = [V EXCEPT ![c] = VerdictOf(c)'] /\ H' = [H EXCEPT ![c] = HandlerOf(c)']
  BY DEF Hidden
<1>2. V[c] = VerdictOf(c) /\ H[c] = HandlerOf(c)
  OBVIOUS
<1>3. /\ VerdictOf(c)' = VerdictOf(c) => V' = V
      /\ HandlerOf(c)' = HandlerOf(c) => H' = H
  BY DEF Hidden
<1>4. CASE Hidden(c)
  BY <1>3, <1>4 DEF Hidden, Contract!vars
<1>5. CASE HandlerStarts(c)
  <2>1. Contract!Start(c)
    BY <1>1, <1>2, <1>3, <1>5 DEF HandlerStarts, Contract!Start
  <2>2. QED BY <2>1 DEF Contract!Next
<1>6. CASE HandlerStops(c)
  <2>1. Contract!End(c, HandlerOf(c)')
    BY <1>1, <1>2, <1>3, <1>6 DEF HandlerStops, Contract!End
  <2>2. QED BY <1>6, <2>1 DEF HandlerStops, Contract!Next
<1>7. CASE CallAnswers(c)
  <2>1. Contract!Answer(c, VerdictOf(c)')
    BY <1>1, <1>2, <1>3, <1>7 DEF CallAnswers, Contract!Answer
  <2>2. QED BY <1>7, <2>1 DEF CallAnswers, Verdicts, Contract!Next, Contract!Rejections, Contract!Others
<1>8. QED BY <1>4, <1>5, <1>6, <1>7

LEMMA StepRefines == TypeOK /\ ThreadsInv /\ [Next]_vars => [Contract!Next]_(Contract!vars)
<1> SUFFICES ASSUME TypeOK, ThreadsInv, [Next]_vars PROVE [Contract!Next]_(Contract!vars)
    OBVIOUS
<1>1. ASSUME NEW c \in Calls, CallStep(c) PROVE [Contract!Next]_(Contract!vars)
  <2>1. \A d \in Calls \ {c} : Hidden(d)
    BY <1>1, OthersUnmoved DEF Unmoved, Hidden, VerdictOf, HandlerOf, Left, RunsHandler
  <2>2. Hidden(c) \/ HandlerStarts(c) \/ HandlerStops(c) \/ CallAnswers(c)
    BY <1>1, EarlyStepsRefine, LeavingRefines, WorkerRefines DEF ThreadsInv, CallStep, CallerStep
  <2>3. QED BY <2>1, <2>2, CallRefines
<1>2. CASE UNCHANGED vars \/ \E t \in Tools : Register(t)
  BY <1>2 DEF Register, vars, callVars, poolVars, Contract!vars, VerdictOf, HandlerOf, Left,
              RunsHandler
<1>3. QED BY <1>1, <1>2 DEF Next, CallStep

\* Every behaviour of the engine, its pools, timers and workers is one the
\* contract allows.
THEOREM ExecutionRefines == Spec => ImplementsContract
<1>1. Init => Contract!Init
  BY DEF Init, Contract!Init, VerdictOf, HandlerOf, Left, RunsHandler, AllOutcomes
<1>2. QED
  BY <1>1, StepRefines, ThreadsInvariant, TypeCorrect, PTL
     DEF Spec, ImplementsContract, Contract!Spec
-----------------------------------------------------------------------------
(* Confirmations, when nobody else writes a request's mapping.             *)

\* The verdict of the policy on the request of c.
Judged(c) == Verdict(Permission[request[c].tool], EnginePolicy(c), request[c].confirmed)

\* What a rejection, and getting past a check, say about the request.
RequestInv ==
  \A c \in Calls :
    /\ args[c] = request[c].args
    /\ pc[c] \in {"policy", "submit"} => request[c].args = "valid"
    /\ status[c] = "tool_not_found" => request[c].tool \notin Preregistered
    /\ status[c] = "invalid_arguments" => request[c].args = "invalid"
    /\ status[c] \in {"denied", "confirmation_required"} =>
         request[c].args = "valid" /\ Judged(c) = status[c]

\* The steps that reject a request, or get it past a check, do so on account
\* of the request; no other step adds to what RequestInv says of c.
LEMMA RequestStep ==
  ASSUME SharedArguments = {},
         TypeOK, Preregistered \subseteq registry, RequestInv, [Next]_vars
  PROVE  RequestInv'
<1> SUFFICES ASSUME NEW c \in Calls
             PROVE  /\ args'[c] = request[c].args
                    /\ pc'[c] \in {"policy", "submit"} => request[c].args = "valid"
                    /\ status'[c] = "tool_not_found" => request[c].tool \notin Preregistered
                    /\ status'[c] = "invalid_arguments" => request[c].args = "invalid"
                    /\ status'[c] \in {"denied", "confirmation_required"} =>
                         request[c].args = "valid" /\ Judged(c) = status'[c]
  <2>1. request' = request /\ policy' = policy
    BY StableRequests
  <2>2. \A d \in Calls : Judged(d)' = Judged(d)
    BY <2>1 DEF Judged, EnginePolicy
  <2>3. QED BY <2>1, <2>2 DEF RequestInv
<1> DEFINE Kept ==
      /\ args'[c] = args[c]
      /\ pc'[c] \in {"policy", "submit"} => pc[c] \in {"policy", "submit"}
      /\ status'[c] = status[c]
         \/ status'[c] \in {"success", "error", "timeout", "raised", "interrupted", "none"}
<1>1. /\ args[c] = request[c].args
      /\ pc[c] \in {"policy", "submit"} => request[c].args = "valid"
      /\ status[c] = "tool_not_found" => request[c].tool \notin Preregistered
      /\ status[c] = "invalid_arguments" => request[c].args = "invalid"
      /\ status[c] \in {"denied", "confirmation_required"} =>
           request[c].args = "valid" /\ Judged(c) = status[c]
  BY DEF RequestInv
<1> USE DEF TypeOK, Goto, Decide, callVars, poolVars
<1>2. ASSUME NEW e \in Calls, Begin(e) \/ Submit(e) \/ Timeout(e) \/ MutateArguments(e)
      PROVE  Kept
  BY <1>2 DEF Begin, Submit, Timeout, MutateArguments
<1>3. ASSUME NEW e \in Calls, Collect(e) PROVE Kept
  BY <1>3 DEF Collect, AfterWait, AllOutcomes
<1>4. ASSUME NEW e \in Calls, Cancel(e) \/ Emit(e) \/ Shutdown(e) PROVE Kept
  BY <1>4 DEF Cancel, Emit, Leave, Shutdown
<1>14. ASSUME NEW e \in Calls, Interrupt(e) PROVE Kept
  <2>1. /\ args' = args /\ InterruptLeaves(e) /\ status' = [status EXCEPT ![e] = "interrupted"]
        /\ \A d \in Calls \ {e} : Unmoved(d)
    BY <1>14, InterruptEffect
  <2>2. CASE c = e
    BY <2>1, <2>2 DEF InterruptLeaves
  <2>3. CASE c # e
    BY <2>1, <2>3 DEF Unmoved
  <2>4. QED BY <2>2, <2>3
<1>5. ASSUME NEW e \in Calls, WorkerStep(e) \/ HandlerEnds(e) \/ Span(e) PROVE Kept
  BY <1>5 DEF WorkerStep, Take, Start, Exit, HandlerEnds, Finish, Span
<1>6. ASSUME UNCHANGED vars \/ \E t \in Tools : Register(t) PROVE Kept
  <2>1. args' = args /\ pc' = pc /\ status' = status
    BY <1>6 DEF Register, vars
  <2>2. QED BY <2>1
<1>7. ASSUME NEW e \in Calls, Lookup(e)
      PROVE  Kept \/ (/\ args' = args /\ pc'[c] = "emit"
                      /\ status'[c] = "tool_not_found" /\ request[c].tool \notin Preregistered)
  BY <1>7 DEF Lookup, Reject
<1>8. ASSUME NEW e \in Calls, Validate(e)
      PROVE  \/ Kept
             \/ /\ args' = args
                /\ \/ pc'[c] = "policy" /\ args[c] = "valid" /\ status' = status
                   \/ pc'[c] = "emit" /\ args[c] = "invalid" /\ status'[c] = "invalid_arguments"
  BY <1>8 DEF Validate, Reject, ArgumentsAccepted
<1>9. ASSUME NEW e \in Calls, ApplyPolicy(e)
      PROVE  \/ Kept
             \/ /\ args' = args /\ pc[c] = "policy"
                /\ pc'[c] = "emit" /\ status'[c] = Judged(c)
                /\ Judged(c) \in {"denied", "confirmation_required"}
  <2>1. Permission[request[e].tool] \in {"READ", "ACTION", "DANGEROUS"}
    BY ToolsAssumption, RequestsAssumption DEF Request, Permissions
  <2>2. Judged(e) \in {"allowed", "denied", "confirmation_required"}
    BY <2>1 DEF Verdict, Judged
  <2>3. \/ pc' = [pc EXCEPT ![e] = "submit"] /\ status' = status
        \/ /\ pc' = [pc EXCEPT ![e] = "emit"] /\ status' = [status EXCEPT ![e] = Judged(e)]
           /\ Judged(e) # "allowed"
    BY <1>9 DEF ApplyPolicy, Reject, Judged
  <2>4. pc[e] = "policy" /\ args' = args
    BY <1>9 DEF ApplyPolicy
  <2>5. QED BY <2>2, <2>3, <2>4
<1>10. Kept \/ \E e \in Calls : Lookup(e) \/ Validate(e) \/ ApplyPolicy(e)
  BY <1>2, <1>3, <1>4, <1>5, <1>6, <1>14 DEF Next, CallerStep
<1>11. CASE Kept
  BY <1>1, <1>11
<1>12. CASE ~Kept
  <2> HIDE DEF Kept, TypeOK
  <2>1. \/ \E e \in Calls : Lookup(e)
        \/ \E e \in Calls : Validate(e)
        \/ \E e \in Calls : ApplyPolicy(e)
    BY <1>10, <1>12
  <2>2. QED BY <1>1, <1>7, <1>8, <1>9, <1>12, <2>1
<1>13. QED BY <1>11, <1>12

LEMMA RequestInvariant ==
  ASSUME SharedArguments = {}
  PROVE  Spec => []RequestInv
<1>1. Init => RequestInv /\ Preregistered \subseteq registry
  BY DEF Init, RequestInv
<1>2. Preregistered \subseteq registry /\ [Next]_vars => (Preregistered \subseteq registry)'
  BY StableRequests
<1>3. TypeOK /\ Preregistered \subseteq registry /\ RequestInv /\ [Next]_vars => RequestInv'
  BY RequestStep
<1>4. QED BY <1>1, <1>2, <1>3, TypeCorrect, PTL DEF Spec

\* A user who is asked for a confirmation and gives it gets the tool run,
\* under every policy and in every order of calls and registrations.
THEOREM ConfirmingHelps ==
  ASSUME SharedArguments = {}
  PROVE  Spec => []ConfirmationSuffices
<1>1. TypeOK /\ ThreadsInv /\ RequestInv => ConfirmationSuffices
  <2> SUFFICES ASSUME TypeOK, ThreadsInv, RequestInv, NEW c \in Calls, NEW d \in Calls,
                      status[c] = "confirmation_required",
                      ConfirmedRetry(request[c], request[d]),
                      status[d] \in Statuses, request[d].via = "engine"
               PROVE  \/ status[d] \in {"success", "error", "timeout"}
                      \/ status[d] = "tool_not_found" /\ request[d].tool \notin Preregistered
    BY DEF ConfirmationSuffices
  <2>1. request[c] \in Request
    BY RequestsAssumption DEF TypeOK
  <2>2. /\ request[d].tool = request[c].tool /\ request[d].via = request[c].via
        /\ request[d].args = request[c].args /\ request[d].confirmed = TRUE
    BY <2>1 DEF ConfirmedRetry, Request
  <2>3. Permission[request[c].tool] \in {"READ", "ACTION", "DANGEROUS"}
    BY <2>1, ToolsAssumption DEF Request, Permissions
  <2>4. Judged(c) = "confirmation_required" /\ request[c].args = "valid"
    BY DEF RequestInv
  <2>5. Judged(d) = "allowed"
    BY <2>2, <2>3, <2>4 DEF Judged, Verdict, EnginePolicy
  <2>6. /\ status[d] \notin {"denied", "confirmation_required", "invalid_arguments"}
        /\ status[d] = "tool_not_found" => request[d].tool \notin Preregistered
    BY <2>2, <2>4, <2>5 DEF RequestInv
  <2>7. status[d] # "none"
    BY DEF Statuses
  <2>8. QED BY <2>6, <2>7 DEF Statuses
<1>2. QED BY <1>1, RequestInvariant, ThreadsInvariant, TypeCorrect, PTL
-----------------------------------------------------------------------------
(* Structured results.                                                     *)

\* However tracers, handlers, timers, cancellations and nested calls behave,
\* a call that leaves has a structured result, unless it was interrupted, its
\* handler raised a BaseException, or no thread could be started for it.
THEOREM ResultsAreStructured == Spec => []StructuredResult
<1>1. TypeOK /\ ThreadsInv => StructuredResult
  BY DEF TypeOK, ThreadsInv, CallerInv, StatusMeans, Rejected, Interrupted, StructuredResult,
         Statuses, Left
<1>2. QED BY <1>1, ThreadsInvariant, TypeCorrect, PTL

-----------------------------------------------------------------------------
(* Nested calls and the trace they carry.                                  *)

\* A nested call in progress keeps its parent's handler running, and a call
\* that has begun was begun by a handler.
NestInv ==
  \A d \in Calls :
    Parent[d] # NoCall =>
      /\ Begun(d) => worker[Parent[d]] # "none"
      /\ InProgress(d) => RunsHandler(Parent[d])

\* A step of a parent while a nested call is in progress: its handler waits.
LEMMA NestStep == TypeOK /\ ThreadsInv /\ NestInv /\ [Next]_vars => NestInv'
<1> SUFFICES ASSUME TypeOK, ThreadsInv, NestInv, [Next]_vars,
                    NEW d \in Calls, Parent[d] # NoCall
             PROVE  /\ Begun(d)' => worker'[Parent[d]] # "none"
                    /\ InProgress(d)' => worker'[Parent[d]] = "running"
  BY DEF NestInv, RunsHandler
<1> DEFINE p == Parent[d]
<1>1. p \in Calls
  BY CallsAssumption
<1>2. /\ Begun(d) => worker[p] # "none"
      /\ InProgress(d) => worker[p] = "running"
  BY DEF NestInv, RunsHandler
<1>3. FutureInv(p) /\ CallerInv(p)
  BY <1>1 DEF ThreadsInv
<1> HIDE DEF p
<1> USE DEF TypeOK, Begun, Left, InProgress, Goto, Decide, callVars, poolVars
<1>4. ASSUME NEW c \in Calls, CallStep(c)
      PROVE  /\ worker[p] # "none" => worker'[p] # "none"
             /\ worker[p] = "running" =>
                  worker'[p] = "running" \/ (c = p /\ ~InNestedCall(p))
  <2>1. CASE c # p
    BY <1>1, <1>4, <2>1, OthersUnmoved DEF Unmoved
  <2>2. CASE \/ Begin(p) \/ Lookup(p) \/ Validate(p) \/ ApplyPolicy(p) \/ Collect(p)
             \/ Timeout(p) \/ Cancel(p) \/ Emit(p) \/ Span(p) \/ MutateArguments(p)
    <3>1. worker' = worker
      BY <2>2 DEF Begin, Lookup, Validate, ApplyPolicy, Collect, Timeout, Cancel, Emit,
                  Span, MutateArguments
    <3>2. QED BY <3>1
  <2>3. CASE Submit(p) \/ Shutdown(p)
    BY <1>1, <1>3, <2>3 DEF Submit, Shutdown, DrainsQueue, CallerInv
  <2>7. CASE Interrupt(p)
    BY <1>1, <1>3, <2>7, InterruptEffect DEF InterruptLeaves, CallerInv
  <2>4. CASE Take(p) \/ Start(p) \/ Exit(p)
    <3>1. \E w \in {"holding", "idle", "running", "exited"} : worker' = [worker EXCEPT ![p] = w]
      BY <2>4 DEF Take, Start, Exit
    <3>2. worker[p] # "running"
      BY <2>4 DEF Take, Start, Exit
    <3>3. QED BY <1>1, <3>1, <3>2
  <2>5. ASSUME NEW o \in Outcomes, Finish(p, o)
        PROVE  worker'[p] # "none" /\ ~InNestedCall(p)
    BY <1>1, <2>5 DEF Finish
  <2>6. QED
    BY <1>4, <2>1, <2>2, <2>3, <2>4, <2>5, <2>7 DEF CallStep, CallerStep, WorkerStep, HandlerEnds
<1>5. ASSUME NEW c \in Calls, CallStep(c)
      PROVE  \/ (Begun(d)' => Begun(d)) /\ (InProgress(d)' => InProgress(d))
             \/ c = d /\ pc[d] = "idle" /\ worker[p] = "running"
  <2>1. CASE c # d
    BY <1>5, <2>1, OthersUnmoved DEF Unmoved
  <2>2. CASE c = d /\ Begin(d)
    <3>1. pc[d] = "idle" /\ worker[p] = "running"
      BY <2>2 DEF Begin, RunsHandler, p
    <3>2. QED BY <2>2, <3>1
  <2>3. CASE \/ Lookup(d) \/ Validate(d) \/ ApplyPolicy(d) \/ Submit(d) \/ Collect(d)
             \/ Timeout(d) \/ Cancel(d) \/ Emit(d) \/ Shutdown(d)
    BY <2>3 DEF Lookup, Validate, ApplyPolicy, Submit, Collect, Timeout, Cancel, Emit, Shutdown
  <2>6. CASE Interrupt(d)
    BY <2>6, InterruptEffect DEF InterruptLeaves
  <2>4. CASE WorkerStep(d) \/ HandlerEnds(d) \/ Span(d) \/ MutateArguments(d)
    <3>1. pc' = pc
      BY <2>4 DEF WorkerStep, Take, Start, Exit, HandlerEnds, Finish, Span, MutateArguments
    <3>2. QED BY <3>1
  <2>5. QED BY <1>5, <2>1, <2>2, <2>3, <2>4, <2>6 DEF CallStep, CallerStep
<1>6. ASSUME NEW c \in Calls, CallStep(c)
      PROVE  /\ Begun(d)' => worker'[p] # "none"
             /\ InProgress(d)' => worker'[p] = "running"
  <2>1. InProgress(d) => InNestedCall(p)
    BY DEF InNestedCall, p
  <2>2. CASE (Begun(d)' => Begun(d)) /\ (InProgress(d)' => InProgress(d))
    BY <1>2, <1>4, <1>6, <2>1, <2>2
  <2>3. CASE c = d /\ pc[d] = "idle" /\ worker[p] = "running"
    <3>1. d # p
      BY <1>3, <2>3 DEF CallerInv
    <3>2. QED BY <1>1, <1>6, <2>3, <3>1, OthersUnmoved DEF Unmoved
  <2>4. QED BY <1>5, <1>6, <2>2, <2>3
<1>7. CASE UNCHANGED vars \/ \E t \in Tools : Register(t)
  <2>1. pc' = pc /\ worker' = worker
    BY <1>7 DEF Register, vars
  <2>2. QED BY <1>2, <2>1 DEF p
<1>8. QED BY <1>6, <1>7 DEF Next, CallStep, p
LEMMA NestInvariant == Spec => []NestInv
<1>1. Init => NestInv
  BY DEF Init, NestInv, Begun, InProgress
<1>2. QED BY <1>1, NestStep, ThreadsInvariant, TypeCorrect, PTL DEF Spec

\* No call is abandoned by its parent, unless the parent's timer expired or
\* its host interrupted it: the parent's handler still runs, so the parent
\* has left without its outcome.
THEOREM OrphansAreTimeouts == Spec => []OrphansOnlyAfterTimeout
<1>1. TypeOK /\ ThreadsInv /\ NestInv => OrphansOnlyAfterTimeout
  <2> SUFFICES ASSUME TypeOK, ThreadsInv, NestInv, NEW d \in Calls,
                      Parent[d] # NoCall, InProgress(d), Left(Parent[d])
               PROVE  status[Parent[d]] \in {"timeout", "interrupted"}
    BY DEF OrphansOnlyAfterTimeout
  <2>1. Parent[d] \in Calls /\ worker[Parent[d]] = "running"
    BY CallsAssumption DEF NestInv, RunsHandler
  <2>2. FutureInv(Parent[d]) /\ CallerInv(Parent[d])
    BY <2>1 DEF ThreadsInv
  <2>3. QED
    BY <2>1, <2>2 DEF FutureInv, CallerInv, StatusMeans, Rejected, Interrupted, Left
<1>2. QED BY <1>1, NestInvariant, ThreadsInvariant, TypeCorrect, PTL

\* The contexts a handler of a call in trace t may be in.
Followed(t) == {t} \cup Adopted

\* Closing every scope brings a handler back to the context it was started in,
\* that of its caller; under a trace it is in that one or in one it has
\* adopted; and while a nested call is in progress its parent's thread keeps
\* the context the call was made in.
ContextInv ==
  \A c \in Calls :
    /\ pc[c] = "idle" => events[c] = <<>> /\ caller[c] = NoTrace
    /\ worker[c] = "none" => scopes[c] = <<>>
    /\ worker[c] # "none" => BaseContext(c) = caller[c]
    /\ worker[c] # "none" /\ caller[c] # NoTrace =>
         /\ ctx[c] \in Followed(caller[c])
         /\ \A i \in 1 .. Len(scopes[c]) : scopes[c][i] \in Followed(caller[c])
    /\ Parent[c] # NoCall /\ InProgress(c) => caller[c] = ctx[Parent[c]]

\* Whoever makes the call, the copied context and the event are its caller's.
LEMMA CallersTrace ==
  ASSUME TypeOK, ContextInv, NEW c \in Calls, InProgress(c)
  PROVE  CallerContext(c) = caller[c]
  BY DEF ContextInv, CallerContext

\* Opening a scope saves the context, closing one restores it.
LEMMA ScopesNest ==
  ASSUME NEW S, NEW q \in Seq(S), NEW t \in S
  PROVE  /\ Append(q, t) # <<>>
         /\ Append(q, t)[1] = IF q = <<>> THEN t ELSE q[1]
         /\ Len(Append(q, t)) = Len(q) + 1
         /\ \A i \in 1 .. Len(q) + 1 : Append(q, t)[i] = IF i = Len(q) + 1 THEN t ELSE q[i]
         /\ q # <<>> =>
              /\ Len(q) \in Nat \ {0}
              /\ Len(SubSeq(q, 1, Len(q) - 1)) = Len(q) - 1
              /\ \A i \in 1 .. Len(q) - 1 : SubSeq(q, 1, Len(q) - 1)[i] = q[i]
              /\ SubSeq(q, 1, Len(q) - 1) = <<>> <=> Len(q) = 1
<1>1. /\ Len(q) \in Nat /\ Len(Append(q, t)) = Len(q) + 1 /\ Append(q, t) # <<>>
      /\ q = <<>> <=> Len(q) = 0
  OBVIOUS
<1>5. \A i \in 1 .. Len(q) + 1 : Append(q, t)[i] = IF i = Len(q) + 1 THEN t ELSE q[i]
  <2> SUFFICES ASSUME NEW i \in 1 .. Len(q) + 1
               PROVE  Append(q, t)[i] = IF i = Len(q) + 1 THEN t ELSE q[i]
      OBVIOUS
  <2>1. CASE i = Len(q) + 1
    BY <2>1
  <2>2. CASE i \in 1 .. Len(q)
    BY <2>2
  <2>3. QED BY <1>1, <2>1, <2>2
<1>2. Append(q, t)[1] = IF q = <<>> THEN t ELSE q[1]
  BY ONLY <1>1, <1>5
<1>3. ASSUME q # <<>>
      PROVE  /\ Len(q) \in Nat \ {0}
             /\ Len(SubSeq(q, 1, Len(q) - 1)) = Len(q) - 1
             /\ \A i \in 1 .. Len(q) - 1 : SubSeq(q, 1, Len(q) - 1)[i] = q[i]
             /\ SubSeq(q, 1, Len(q) - 1) = <<>> <=> Len(q) = 1
  <2>1. Len(q) \in Nat \ {0}
    BY <1>3
  <2>2. /\ SubSeq(q, 1, Len(q) - 1) \in Seq(S)
        /\ Len(SubSeq(q, 1, Len(q) - 1)) = Len(q) - 1
        /\ \A i \in 1 .. Len(q) - 1 : SubSeq(q, 1, Len(q) - 1)[i] = q[i]
    BY <2>1, SubSeqProperties
  <2>3. SubSeq(q, 1, Len(q) - 1) = <<>> <=> Len(SubSeq(q, 1, Len(q) - 1)) = 0
    BY <2>2, EmptySeq
  <2>4. Len(q) = 1 <=> Len(q) - 1 = 0
    BY <2>1
  <2>5. QED BY <2>1, <2>2, <2>3, <2>4
<1>4. QED BY <1>1, <1>2, <1>3, <1>5

\* What Span and Finish do to the contexts of their own call.
LEMMA SpanKeeps ==
  ASSUME TypeOK, ContextInv, NEW c \in Calls, Span(c) \/ \E o \in Outcomes : Finish(c, o)
  PROVE  /\ caller' = caller /\ worker[c] # "none"
         /\ BaseContext(c)' = caller[c]
         /\ caller[c] # NoTrace =>
              /\ ctx'[c] \in Followed(caller[c])
              /\ \A i \in 1 .. Len(scopes'[c]) : scopes'[c][i] \in Followed(caller[c])
<1>1. caller' = caller /\ worker[c] # "none"
  BY DEF Span, Finish, RunsHandler, callVars
<1>2. /\ scopes \in [Calls -> Seq(AnyTrace)] /\ ctx \in [Calls -> AnyTrace]
      /\ scopes[c] \in Seq(AnyTrace) /\ ctx[c] \in AnyTrace
  BY DEF TypeOK
<1>3. /\ BaseContext(c) = caller[c]
      /\ caller[c] # NoTrace =>
           /\ ctx[c] \in Followed(caller[c])
           /\ \A i \in 1 .. Len(scopes[c]) : scopes[c][i] \in Followed(caller[c])
  BY <1>1 DEF ContextInv
<1> DEFINE q == scopes[c]
           x == ctx[c]
           Fine(x1, q1) == /\ (IF q1 = <<>> THEN x1 ELSE q1[1]) = caller[c]
                           /\ caller[c] # NoTrace =>
                                /\ x1 \in Followed(caller[c])
                                /\ \A i \in 1 .. Len(q1) : q1[i] \in Followed(caller[c])
<1>4. Fine(x, q)
  BY <1>3 DEF BaseContext
<1>5. SUFFICES Fine(ctx'[c], scopes'[c])
  BY <1>1 DEF BaseContext
<1> DEFINE Opens == /\ ctx'[c] \in Adopted \cup {SpanTrace(c)}
                    /\ scopes'[c] = Append(q, x)
           Closes == /\ q # <<>> /\ ctx'[c] = q[Len(q)]
                     /\ scopes'[c] = SubSeq(q, 1, Len(q) - 1)
           Ends == ctx'[c] = BaseContext(c) /\ scopes'[c] = <<>>
<1>6. Opens \/ Closes \/ Ends
  BY <1>2 DEF Span, Finish
<1>7. CASE Opens
  <2>1. caller[c] # NoTrace => SpanTrace(c) = x /\ x # NoTrace
    BY <1>4, TracesAssumption DEF SpanTrace, Followed
  <2>2. caller[c] # NoTrace => ctx'[c] \in Followed(caller[c])
    BY <1>4, <1>7, <2>1 DEF Followed
  <2> HIDE DEF q, x
  <2>3. q \in Seq(AnyTrace) /\ x \in AnyTrace
    BY <1>2 DEF q, x
  <2>4. QED
    BY <1>4, <1>7, <2>2, <2>3, ScopesNest
<1>8. CASE Closes
  <2> HIDE DEF q, x
  <2>1. q \in Seq(AnyTrace)
    BY <1>2 DEF q
  <2>2. /\ Len(q) \in Nat \ {0}
        /\ Len(SubSeq(q, 1, Len(q) - 1)) = Len(q) - 1
        /\ \A i \in 1 .. Len(q) - 1 : SubSeq(q, 1, Len(q) - 1)[i] = q[i]
        /\ SubSeq(q, 1, Len(q) - 1) = <<>> <=> Len(q) = 1
    BY <1>8, <2>1, <1>2, ScopesNest
  <2>3. QED
    BY <1>4, <1>8, <2>2
<1>9. CASE Ends
  BY <1>3, <1>9 DEF Followed
<1>10. QED BY <1>6, <1>7, <1>8, <1>9

\* Which steps write contexts and events: those of the call itself.
LEMMA ContextWriters ==
  ASSUME TypeOK, NEW c \in Calls, NEW e \in Calls, CallStep(e)
  PROVE  /\ caller'[c] = caller[c] \/ (c = e /\ Begin(e))
         /\ \/ ctx'[c] = ctx[c] /\ scopes'[c] = scopes[c]
            \/ c = e /\ Hand(e) /\ pc[e] = "submit"
            \/ c = e /\ (Span(e) \/ \E o \in Outcomes : Finish(e, o))
         /\ events'[c] = events[c] \/ (c = e /\ Record(e) /\ pc[e] = "emit")
<1> USE DEF TypeOK, callVars, poolVars, scopeVars
<1>1. CASE Begin(e)
  BY <1>1 DEF Begin
<1>2. CASE Lookup(e) \/ Validate(e) \/ ApplyPolicy(e) \/ Collect(e) \/ Timeout(e)
           \/ Cancel(e) \/ Shutdown(e) \/ MutateArguments(e)
  BY <1>2 DEF Lookup, Validate, ApplyPolicy, Collect, Timeout, Cancel, Shutdown, MutateArguments
<1>8. ASSUME Hand(e), pc[e] = "submit", caller' = caller, events' = events
      PROVE  /\ caller'[c] = caller[c] /\ events'[c] = events[c]
             /\ \/ ctx'[c] = ctx[c] /\ scopes'[c] = scopes[c]
                \/ c = e /\ Hand(e) /\ pc[e] = "submit"
  BY <1>8 DEF Hand
<1>9. ASSUME Record(e), c # e PROVE events'[c] = events[c]
  <2>1. \/ events' = events
        \/ events' = [events EXCEPT ![e] = Append(events[e], ExecutionEvent(e))]
    BY <1>9 DEF Record
  <2>2. QED BY <1>9, <2>1
<1>3. CASE Submit(e)
  BY <1>3, <1>8 DEF Submit
<1>4. CASE Emit(e)
  BY <1>4, <1>9 DEF Emit
<1>5. CASE Interrupt(e)
  BY <1>5, <1>8, <1>9, InterruptEffect DEF InterruptLeaves
<1>6. CASE Span(e) \/ HandlerEnds(e)
  <2>1. caller' = caller /\ events' = events
    BY <1>6 DEF Span, HandlerEnds, Finish
  <2>2. c # e => ctx'[c] = ctx[c] /\ scopes'[c] = scopes[c]
    BY <1>6 DEF Span, HandlerEnds, Finish
  <2>3. QED BY <1>6, <2>1, <2>2 DEF HandlerEnds
<1>7. CASE WorkerStep(e)
  BY <1>7 DEF WorkerStep, Take, Start, Exit
<1>10. QED BY <1>1, <1>2, <1>3, <1>4, <1>5, <1>6, <1>7 DEF CallStep, CallerStep

\* A call's own progress, as far as contexts depend on it.
LEMMA OwnProgress ==
  ASSUME TypeOK, ThreadsInv, NEW c \in Calls, NEW e \in Calls, CallStep(e)
  PROVE  /\ pc'[c] # "idle" \/ pc[c] = "idle"
         /\ pc[c] = "idle" => pc'[c] = "idle" \/ (c = e /\ Begin(e))
         /\ InProgress(c)' => InProgress(c) \/ (c = e /\ Begin(e))
         /\ worker[c] # "none" => worker'[c] # "none"
         /\ worker'[c] # "none" => worker[c] # "none" \/ (c = e /\ Hand(e) /\ pc[e] = "submit")
<1>1. CASE c # e
  BY <1>1, OthersUnmoved DEF Unmoved, InProgress, Begun, Left
<1> USE DEF TypeOK, InProgress, Begun, Left, Goto, Decide, callVars, poolVars
<1>2. CASE c = e /\ (Begin(e) \/ Submit(e))
  BY <1>2 DEF Begin, Submit
<1>3. CASE c = e /\ (Lookup(e) \/ Validate(e) \/ ApplyPolicy(e) \/ Collect(e) \/ Timeout(e))
  BY <1>3 DEF Lookup, Validate, ApplyPolicy, Collect, Timeout, Reject, AfterWait, AllOutcomes
<1>4. CASE c = e /\ (Cancel(e) \/ Emit(e))
  BY <1>4 DEF Cancel, Emit, Leave
<1>5. CASE c = e /\ Shutdown(e)
  <2>1. worker[e] # "none"
    BY <1>5 DEF Shutdown, ThreadsInv, CallerInv, Submitted
  <2>2. QED BY <1>5, <2>1 DEF Shutdown
<1>6. CASE c = e /\ (WorkerStep(e) \/ HandlerEnds(e) \/ Span(e) \/ MutateArguments(e))
  <2>1. pc' = pc
    BY <1>6 DEF WorkerStep, Take, Start, Exit, HandlerEnds, Finish, Span, MutateArguments
  <2>2. worker' = worker \/ (worker[e] # "none" /\ worker'[e] # "none")
    BY <1>6 DEF WorkerStep, Take, Start, Exit, HandlerEnds, Finish, RunsHandler, Span,
                MutateArguments
  <2>3. QED BY <1>6, <2>1, <2>2
<1>7. CASE c = e /\ Interrupt(e)
  BY <1>7, InterruptEffect DEF InterruptLeaves
<1>8. QED BY <1>1, <1>2, <1>3, <1>4, <1>5, <1>6, <1>7 DEF CallStep, CallerStep

\* The contexts of c after a step of any call.
LEMMA ContextsKept ==
  ASSUME TypeOK, ThreadsInv, ContextInv, NEW c \in Calls, NEW e \in Calls, CallStep(e)
  PROVE  /\ worker'[c] = "none" => scopes'[c] = <<>>
         /\ worker'[c] # "none" => BaseContext(c)' = caller'[c]
         /\ worker'[c] # "none" /\ caller'[c] # NoTrace =>
              /\ ctx'[c] \in Followed(caller'[c])
              /\ \A i \in 1 .. Len(scopes'[c]) : scopes'[c][i] \in Followed(caller'[c])
<1>1. FutureInv(c) /\ CallerInv(c)
  BY DEF ThreadsInv
<1>2. CASE c = e /\ Hand(e) /\ pc[e] = "submit"
  <2>1. InProgress(c) /\ worker[c] = "none" /\ scopes[c] = <<>>
    BY <1>1, <1>2 DEF CallerInv, InProgress, Begun, Left, ContextInv
  <2>2. ctx'[c] = caller[c] /\ scopes'[c] = <<>>
    BY <1>2, <2>1, CallersTrace DEF Hand, CopiedContext, TypeOK
  <2>3. caller'[c] = caller[c]
    BY <1>2, ContextWriters DEF Begin
  <2>4. BaseContext(c)' = caller'[c]
    BY <2>2, <2>3 DEF BaseContext
  <2>5. Len(scopes'[c]) = 0
    BY <2>2
  <2> QED BY <2>2, <2>3, <2>4, <2>5 DEF Followed
<1>3. CASE c = e /\ (Span(e) \/ \E o \in Outcomes : Finish(e, o))
  <2>1. worker'[c] # "none"
    BY <1>3, SpanKeeps, OwnProgress
  <2> QED BY <1>3, <2>1, SpanKeeps
<1>4. CASE c = e /\ Begin(e)
  <2>1. worker'[c] = "none" /\ worker[c] = "none" /\ scopes' = scopes
    BY <1>1, <1>4 DEF Begin, CallerInv, poolVars, scopeVars
  <2> QED BY <2>1 DEF ContextInv
<1>5. CASE ~(c = e /\ Hand(e) /\ pc[e] = "submit")
           /\ ~(c = e /\ (Span(e) \/ \E o \in Outcomes : Finish(e, o)))
           /\ ~(c = e /\ Begin(e))
  <2>1. ctx'[c] = ctx[c] /\ scopes'[c] = scopes[c] /\ caller'[c] = caller[c]
    BY <1>5, ContextWriters
  <2>2. worker'[c] = "none" <=> worker[c] = "none"
    BY <1>5, OwnProgress
  <2>3. BaseContext(c)' = BaseContext(c)
    BY <2>1 DEF BaseContext
  <2> QED BY <2>1, <2>2, <2>3 DEF ContextInv
<1> QED BY <1>2, <1>3, <1>4, <1>5

LEMMA ContextStep ==
  TypeOK /\ ThreadsInv /\ NestInv /\ ContextInv /\ [Next]_vars => ContextInv'
<1> SUFFICES ASSUME TypeOK, ThreadsInv, NestInv, ContextInv, [Next]_vars, NEW c \in Calls
             PROVE  /\ pc'[c] = "idle" => events'[c] = <<>> /\ caller'[c] = NoTrace
                    /\ worker'[c] = "none" => scopes'[c] = <<>>
                    /\ worker'[c] # "none" => BaseContext(c)' = caller'[c]
                    /\ worker'[c] # "none" /\ caller'[c] # NoTrace =>
                         /\ ctx'[c] \in Followed(caller'[c])
                         /\ \A i \in 1 .. Len(scopes'[c]) : scopes'[c][i] \in Followed(caller'[c])
                    /\ Parent[c] # NoCall /\ InProgress(c)' => caller'[c] = ctx'[Parent[c]]
  BY DEF ContextInv
<1>1. ASSUME NEW e \in Calls, CallStep(e)
      PROVE  pc'[c] = "idle" => events'[c] = <<>> /\ caller'[c] = NoTrace
  <2>1. pc'[c] = "idle" => pc[c] = "idle" /\ ~(c = e /\ Begin(e))
    BY <1>1, OwnProgress DEF TypeOK, Begin, Goto
  <2>2. QED BY <1>1, <2>1, ContextWriters DEF ContextInv
<1>2. ASSUME NEW e \in Calls, CallStep(e), Parent[c] # NoCall, InProgress(c)'
      PROVE  caller'[c] = ctx'[Parent[c]]
  <2>1. Parent[c] \in Calls
    BY <1>2, CallsAssumption
  <2>2. CASE c = e /\ Begin(e)
    BY <1>2, <2>2 DEF TypeOK, Begin, scopeVars
  <2>3. CASE ~(c = e /\ Begin(e))
    <3>1. InProgress(c) /\ caller'[c] = caller[c]
      BY <1>2, <2>3, ContextWriters, OwnProgress
    <3>2. worker[Parent[c]] = "running" /\ InNestedCall(Parent[c])
      BY <1>2, <3>1 DEF NestInv, RunsHandler, InNestedCall
    <3>3. /\ pc[Parent[c]] # "submit" /\ ~Span(Parent[c])
          /\ ~\E o \in Outcomes : Finish(Parent[c], o)
      BY <2>1, <3>2 DEF Span, Finish, ThreadsInv, CallerInv
    <3>4. ctx'[Parent[c]] = ctx[Parent[c]]
      BY <1>2, <2>1, <3>3, ContextWriters
    <3>5. QED BY <1>2, <3>1, <3>4 DEF ContextInv
  <2>4. QED BY <2>2, <2>3
<1>3. CASE UNCHANGED vars \/ \E t \in Tools : Register(t)
  <2>1. /\ pc' = pc /\ events' = events /\ caller' = caller /\ worker' = worker
        /\ ctx' = ctx /\ scopes' = scopes
    BY <1>3 DEF Register, vars, callVars, poolVars, scopeVars
  <2>2. BaseContext(c)' = BaseContext(c) /\ (InProgress(c)' = InProgress(c))
    BY <2>1 DEF BaseContext, InProgress, Begun, Left
  <2>3. QED BY <2>1, <2>2 DEF ContextInv
<1>4. QED BY <1>1, <1>2, <1>3, ContextsKept DEF Next, CallStep

LEMMA ContextInvariant == Spec => []ContextInv
<1>1. Init => ContextInv
  <2> SUFFICES ASSUME Init PROVE ContextInv
      OBVIOUS
  <2>1. \A c \in Calls : /\ pc[c] = "idle" /\ worker[c] = "none"
                          /\ events[c] = <<>> /\ caller[c] = NoTrace /\ scopes[c] = <<>>
    BY DEF Init
  <2>2. QED BY <2>1 DEF ContextInv, InProgress, Begun
<1>2. QED BY <1>1, ContextStep, NestInvariant, ThreadsInvariant, TypeCorrect, PTL DEF Spec

LEMMA CorrelationStep ==
  /\ TypeOK /\ ThreadsInv /\ NestInv /\ ContextInv /\ TraceCorrelation /\ [Next]_vars
  => TraceCorrelation'
<1> SUFFICES ASSUME TypeOK, ThreadsInv, NestInv, ContextInv, TraceCorrelation, [Next]_vars
             PROVE  TraceCorrelation'
  OBVIOUS
<1>4. \A e \in Calls : worker'[e] # "none" /\ scopes'[e] = <<>> => ctx'[e] = caller'[e]
  <2>1. ContextInv'
    BY ContextStep
  <2>2. QED BY <2>1 DEF ContextInv, BaseContext
<1> SUFFICES ASSUME NEW c \in Calls
             PROVE  /\ Parent[c] # NoCall /\ Begun(c)' /\ caller'[Parent[c]] # NoTrace
                         => caller'[c] \in Followed(caller'[Parent[c]])
                    /\ caller'[c] # NoTrace
                         => \A i \in DOMAIN events'[c] : events'[c][i].trace = caller'[c]
  BY <1>4 DEF TraceCorrelation, Followed
<1>1. ASSUME NEW e \in Calls, CallStep(e),
             Parent[c] # NoCall, Begun(c)', caller'[Parent[c]] # NoTrace
      PROVE  caller'[c] \in Followed(caller'[Parent[c]])
  <2>1. Parent[c] \in Calls
    BY <1>1, CallsAssumption
  <2>2. worker[Parent[c]] # "none"
    <3>1. CASE Begun(c)
      BY <1>1, <3>1 DEF NestInv
    <3>2. CASE c = e /\ Begin(e)
      BY <1>1, <3>2 DEF Begin, RunsHandler
    <3>3. QED BY <1>1, <3>1, <3>2, OwnProgress DEF Begun
  <2>3. ~Begin(Parent[c])
    BY <2>1, <2>2 DEF Begin, ThreadsInv, CallerInv
  <2>4. caller'[Parent[c]] = caller[Parent[c]]
    BY <1>1, <2>1, <2>3, ContextWriters
  <2>5. CASE c = e /\ Begin(e)
    <3>1. caller'[c] = ctx[Parent[c]]
      BY <1>1, <2>5 DEF Begin, TypeOK
    <3>2. QED BY <1>1, <2>1, <2>2, <2>4, <3>1 DEF ContextInv
  <2>6. CASE ~(c = e /\ Begin(e))
    <3>1. Begun(c) /\ caller'[c] = caller[c]
      BY <1>1, <2>6, ContextWriters, OwnProgress DEF Begun
    <3>2. QED BY <1>1, <2>4, <3>1 DEF TraceCorrelation, Followed
  <2>7. QED BY <2>5, <2>6
<1>2. ASSUME NEW e \in Calls, CallStep(e), caller'[c] # NoTrace,
             NEW i \in DOMAIN events'[c]
      PROVE  events'[c][i].trace = caller'[c]
  <2>1. CASE c = e /\ Begin(e)
    <3>1. events'[c] = <<>>
      BY <2>1 DEF Begin, ContextInv
    <3>2. QED BY <1>2, <3>1
  <2>2. CASE c = e /\ Record(e) /\ pc[e] = "emit"
    <3>1. caller'[c] = caller[c] /\ InProgress(c)
      BY <1>2, <2>2, ContextWriters DEF Begin, InProgress, Begun, Left
    <3>2. CASE events' = events
      BY <1>2, <3>1, <3>2 DEF TraceCorrelation
    <3>3. CASE events' = [events EXCEPT ![c] = Append(@, ExecutionEvent(c))]
      <4>1. events[c] \in Seq(EventRecord)
        BY DEF TypeOK
      <4>2. ExecutionEvent(c).trace = caller[c]
        BY <1>2, <3>1, CallersTrace DEF ExecutionEvent
      <4>3. events'[c] = Append(events[c], ExecutionEvent(c))
        BY <3>3 DEF TypeOK
      <4>4. \/ i \in DOMAIN events[c] /\ events'[c][i] = events[c][i]
            \/ events'[c][i] = ExecutionEvent(c)
        BY <1>2, <4>1, <4>3
      <4>5. QED BY <1>2, <3>1, <4>2, <4>4 DEF TraceCorrelation
    <3>4. QED BY <2>2, <3>2, <3>3 DEF Record
  <2>3. CASE ~(c = e /\ Begin(e)) /\ ~(c = e /\ Record(e) /\ pc[e] = "emit")
    <3>1. events'[c] = events[c] /\ caller'[c] = caller[c]
      BY <1>2, <2>3, ContextWriters
    <3>2. QED BY <1>2, <3>1 DEF TraceCorrelation
  <2>4. QED BY <2>1, <2>2, <2>3
<1>3. CASE UNCHANGED vars \/ \E t \in Tools : Register(t)
  BY <1>3 DEF Register, vars, callVars, TraceCorrelation, Followed, Begun
<1>5. QED BY <1>1, <1>2, <1>3 DEF Next, CallStep

\* One trace follows a tree of calls of any shape, through worker threads,
\* timers and whatever scopes the handlers open and close.
THEOREM TracesFollowCalls == Spec => []TraceCorrelation
<1>1. Init => TraceCorrelation
  BY DEF Init, TraceCorrelation, Begun
<1>2. QED
  BY <1>1, CorrelationStep, ContextInvariant, NestInvariant, ThreadsInvariant, TypeCorrect, PTL
     DEF Spec
-----------------------------------------------------------------------------
(* One event for each result.                                              *)

\* The event of c is there, and is that of its status.
Told(c) ==
  IF request[c].via = "engine"
  THEN /\ Len(events[c]) = 1 /\ events[c][1].status = status[c]
       /\ events[c][1].told = Classification(status[c])
  ELSE events[c] = <<>>

\* What an interrupted call may have told before it was interrupted.
MaybeTold(c) ==
  \/ events[c] = <<>>
  \/ /\ request[c].via = "engine" /\ Len(events[c]) = 1
     /\ TellsTheTruth(c, events[c][1].told)

\* SUCCESS is told after the shutdown, every other result before it; a call
\* that raises tells nothing, one that is interrupted may have told already.
EventKept(c) ==
  /\ pc[c] = "emit" => status[c] \notin {"raised", "interrupted"}
  /\ pc[c] \notin {"shutdown", "left"} => events[c] = <<>>
  /\ pc[c] \in {"shutdown", "left"} /\ status[c] = "raised" => events[c] = <<>>
  /\ pc[c] \in {"shutdown", "left"} /\ status[c] = "interrupted" => MaybeTold(c)
  /\ pc[c] = "shutdown" /\ status[c] = "success" => events[c] = <<>>
  /\ pc[c] = "shutdown" /\ status[c] \notin {"success", "raised", "interrupted"} => Told(c)
  /\ pc[c] = "left" /\ status[c] \notin {"raised", "interrupted"} => Told(c)

EventInv == TracerDeliveries = {TRUE} => \A c \in Calls : EventKept(c)

\* The event that is recorded is that of the result decided.
LEMMA RecordTells ==
  ASSUME TypeOK, TracerDeliveries = {TRUE}, NEW c \in Calls, events[c] = <<>>, Record(c)
  PROVE  IF request[c].via = "engine"
         THEN /\ Len(events'[c]) = 1 /\ events'[c][1].status = status[c]
              /\ events'[c][1].told = Classification(status[c])
         ELSE events'[c] = <<>>
<1>1. CASE request[c].via = "engine"
  <2>1. events' = [events EXCEPT ![c] = Append(events[c], ExecutionEvent(c))]
    BY <1>1 DEF Record, Deliveries
  <2>2. events'[c] = <<ExecutionEvent(c)>>
    BY <2>1 DEF TypeOK
  <2>3. QED BY <1>1, <2>2 DEF ExecutionEvent
<1>2. CASE request[c].via # "engine"
  <2>1. request[c].via = "registry"
    BY <1>2, RequestsAssumption DEF TypeOK, Request
  <2>2. events' = events
    BY <2>1 DEF Record, Deliveries
  <2>3. QED BY <1>2, <2>2
<1>3. QED BY <1>1, <1>2

\* The classification of a result tells the truth about the handler.
LEMMA ClassifiedTruth ==
  ASSUME TypeOK, NEW c \in Calls, FutureInv(c),
         \/ Rejected(c) /\ worker[c] = "none"
         \/ Submitted(c) /\ StatusMeans(c) /\ status[c] \notin {"raised", "interrupted"}
  PROVE  TellsTheTruth(c, Classification(status[c]))
  BY DEF TellsTheTruth, Classification, Rejected, Submitted, StatusMeans, Interrupted

\* What was true of a call that has answered stays true.
LEMMA TruthStays ==
  ASSUME TypeOK, ThreadsInv, NEW c \in Calls, NEW e \in Calls, CallStep(e),
         pc[c] \in {"emit", "shutdown", "left"}, NEW told, TellsTheTruth(c, told)
  PROVE  TellsTheTruth(c, told)'
<1>1. FutureInv(c) /\ CallerInv(c)
  BY DEF ThreadsInv
<1>2. worker'[c] = "none" <=> worker[c] = "none"
  BY OwnProgress
<1>3. future[c] = "value" => future'[c] = "value"
  <2> SUFFICES ASSUME future[c] = "value" PROVE future'[c] = "value"
      OBVIOUS
  <2>0. worker[c] \notin {"none", "unstarted", "queued", "holding", "running"}
    BY <1>1 DEF FutureInv
  <2> USE DEF TypeOK, callVars, poolVars
  <2>1. CASE c # e
    BY <2>1, OthersUnmoved DEF Unmoved
  <2>2. CASE c = e /\ (CallerStep(e) \/ Begin(e) \/ Timeout(e))
    BY <2>2, <2>0 DEF CallerStep, Begin, Lookup, Validate, ApplyPolicy, Submit, Collect, Timeout,
                Cancel, Emit, Shutdown, DrainsQueue
  <2>3. CASE c = e /\ Interrupt(e)
    BY <2>3, <2>0, InterruptEffect DEF InterruptLeaves
  <2>4. CASE c = e /\ (WorkerStep(e) \/ HandlerEnds(e) \/ Span(e) \/ MutateArguments(e))
    BY <2>4, <2>0 DEF WorkerStep, Take, Start, Exit, HandlerEnds, Finish, RunsHandler, Span,
                      MutateArguments
  <2>5. QED BY <2>1, <2>2, <2>3, <2>4 DEF CallStep
<1>4. QED BY <1>2, <1>3 DEF TellsTheTruth

\* An interrupted call may have told its result, never anything else.
LEMMA EventKeptByInterrupt ==
  ASSUME TypeOK, ThreadsInv, TracerDeliveries = {TRUE}, NEW c \in Calls, EventKept(c), Interrupt(c)
  PROVE  EventKept(c)'
<1>1. FutureInv(c) /\ CallerInv(c) /\ CallStep(c)
  BY DEF ThreadsInv, CallStep
<1>2. InterruptLeaves(c) /\ status'[c] = "interrupted" /\ request' = request
  BY InterruptEffect
<1>3. pc'[c] \in {"shutdown", "left"}
  BY <1>2 DEF InterruptLeaves
<1>4. CASE events'[c] = <<>>
  BY <1>2, <1>3, <1>4 DEF EventKept, MaybeTold
<1>5. CASE events'[c] # <<>> /\ events'[c] # events[c]
  <2>1. pc[c] = "emit" /\ Record(c) /\ events[c] = <<>>
    BY <1>2, <1>5 DEF InterruptLeaves, EventKept
  <2>2. /\ request[c].via = "engine" /\ Len(events'[c]) = 1
        /\ events'[c][1].told = Classification(status[c])
    BY <1>5, <2>1, RecordTells
  <2>3. TellsTheTruth(c, Classification(status[c]))
    BY <1>1, <2>1, ClassifiedTruth DEF CallerInv, EventKept
  <2> DEFINE told == Classification(status[c])
  <2>5. PICK k : k = told
    OBVIOUS
  <2>6. TellsTheTruth(c, k)'
    BY <1>1, <2>1, <2>3, <2>5, TruthStays
  <2>7. MaybeTold(c)'
    BY <1>2, <2>2, <2>5, <2>6 DEF MaybeTold
  <2>8. QED BY <1>2, <1>3, <2>7 DEF EventKept
<1>6. CASE events'[c] # <<>> /\ events'[c] = events[c]
  <2>1. pc[c] = "shutdown" /\ status[c] \notin {"raised", "success"}
    BY <1>2, <1>6 DEF InterruptLeaves, EventKept
  <2>2. MaybeTold(c)
    <3>1. CASE status[c] = "interrupted"
      BY <2>1, <3>1 DEF EventKept
    <3>2. CASE status[c] # "interrupted"
      <4>1. Told(c) /\ Submitted(c) /\ StatusMeans(c)
        BY <1>1, <2>1, <3>2 DEF EventKept, CallerInv
      <4>2. TellsTheTruth(c, Classification(status[c]))
        BY <1>1, <2>1, <3>2, <4>1, ClassifiedTruth
      <4>3. QED BY <4>1, <4>2 DEF Told, MaybeTold
    <3>3. QED BY <3>1, <3>2
  <2>3. PICK k : k = events[c][1].told
    OBVIOUS
  <2>4. request[c].via = "engine" /\ Len(events[c]) = 1 /\ TellsTheTruth(c, k)
    BY <1>6, <2>2, <2>3 DEF MaybeTold
  <2>5. TellsTheTruth(c, k)'
    BY <1>1, <2>1, <2>4, TruthStays
  <2>6. MaybeTold(c)'
    BY <1>2, <1>6, <2>3, <2>4, <2>5 DEF MaybeTold
  <2>7. QED BY <1>2, <1>3, <2>6 DEF EventKept
<1>7. QED BY <1>4, <1>5, <1>6

\* What a call that was interrupted has told stays true after any other step.
LEMMA MaybeToldKept ==
  ASSUME TypeOK, ThreadsInv, NEW c \in Calls, NEW e \in Calls, CallStep(e),
         pc[c] \in {"shutdown", "left"}, events'[c] = events[c], request' = request, MaybeTold(c)
  PROVE  MaybeTold(c)'
<1>1. PICK k : k = events[c][1].told
  OBVIOUS
<1>2. CASE events[c] = <<>>
  BY <1>2 DEF MaybeTold
<1>3. CASE events[c] # <<>>
  <2>1. request[c].via = "engine" /\ Len(events[c]) = 1 /\ TellsTheTruth(c, k)
    BY <1>1, <1>3 DEF MaybeTold
  <2>2. TellsTheTruth(c, k)'
    BY <2>1, TruthStays
  <2>3. QED BY <1>1, <2>1, <2>2 DEF MaybeTold
<1>4. QED BY <1>2, <1>3

\* What the other steps of execute do to status and program counter.
LEMMA EventKeptByCaller ==
  ASSUME TypeOK, ThreadsInv, NEW c \in Calls, EventKept(c),
         events'[c] = events[c], request' = request,
         \/ Begin(c) \/ Lookup(c) \/ Validate(c) \/ ApplyPolicy(c) \/ Submit(c) \/ Collect(c)
         \/ Timeout(c) \/ Cancel(c) \/ Shutdown(c)
  PROVE  EventKept(c)'
<1> USE DEF TypeOK, EventKept, Goto, Decide
<1>1. CASE Begin(c) \/ Timeout(c)
  BY <1>1 DEF Begin, Timeout
<1>2. CASE Lookup(c) \/ Validate(c)
  BY <1>2 DEF Lookup, Validate, Reject
<1>3. CASE ApplyPolicy(c)
  <2> DEFINE v == Verdict(Permission[request[c].tool], EnginePolicy(c), request[c].confirmed)
  <2>1. Permission[request[c].tool] \in {"READ", "ACTION", "DANGEROUS"}
    BY ToolsAssumption, RequestsAssumption DEF Request, Permissions
  <2>2. v \notin {"raised", "interrupted"}
    BY <2>1 DEF Verdict
  <2> HIDE DEF v
  <2>3. pc'[c] = "submit" \/ (pc'[c] = "emit" /\ status'[c] = v)
    BY <1>3 DEF ApplyPolicy, Reject, v
  <2>4. QED BY <1>3, <2>2, <2>3 DEF ApplyPolicy
<1>4. CASE Submit(c)
  BY <1>4 DEF Submit
<1>5. CASE Collect(c)
  BY <1>5 DEF Collect, AfterWait, AllOutcomes
<1>6. CASE Cancel(c)
  BY <1>6 DEF Cancel
<1>7. CASE Shutdown(c)
  <2>1. CallStep(c)
    BY <1>7 DEF CallStep, CallerStep
  <2>2. pc[c] = "shutdown" /\ status' = status /\ pc'[c] = IF status[c] = "success" THEN "emit" ELSE "left"
    BY <1>7 DEF Shutdown
  <2>3. status[c] = "interrupted" => MaybeTold(c)'
    BY <2>1, <2>2, MaybeToldKept
  <2>4. Told(c)' = Told(c)
    BY <2>2 DEF Told
  <2>5. QED BY <2>2, <2>3, <2>4
<1>8. QED BY <1>1, <1>2, <1>3, <1>4, <1>5, <1>6, <1>7

LEMMA EventStep == TypeOK /\ ThreadsInv /\ EventInv /\ [Next]_vars => EventInv'
<1> SUFFICES ASSUME TypeOK, ThreadsInv, [Next]_vars, TracerDeliveries = {TRUE},
                    NEW c \in Calls, EventKept(c)
             PROVE  EventKept(c)'
  BY DEF EventInv
<1>1. request' = request
  BY StableRequests
<1>2. ASSUME NEW e \in Calls, CallStep(e), events'[c] = events[c],
             pc'[c] = pc[c], status'[c] = status[c]
      PROVE  EventKept(c)'
  <2>1. pc[c] \in {"shutdown", "left"} /\ MaybeTold(c) => MaybeTold(c)'
    BY <1>1, <1>2, MaybeToldKept
  <2>2. Told(c)' = Told(c)
    BY <1>1, <1>2 DEF Told
  <2>3. QED BY <1>2, <2>1, <2>2 DEF EventKept
<1>7. ASSUME NEW e \in Calls, CallStep(e), c # e
      PROVE  EventKept(c)'
  <2>1. events'[c] = events[c]
    BY <1>7, ContextWriters
  <2>2. QED BY <1>2, <1>7, <2>1, OthersUnmoved DEF Unmoved
<1>3. CASE Emit(c)
  <2>1. Record(c) /\ status' = status /\ events[c] = <<>>
    BY <1>3 DEF Emit, EventKept
  <2>2. Told(c)'
    BY <1>1, <2>1, RecordTells DEF Told
  <2>3. status[c] \notin {"raised", "interrupted"} /\ pc'[c] \in {"shutdown", "left"}
    BY <1>3 DEF TypeOK, Emit, Leave, EventKept, Goto
  <2>4. pc'[c] = "shutdown" => status[c] # "success"
    BY <1>3 DEF TypeOK, Emit, Leave, Goto, ThreadsInv, CallerInv, Rejected
  <2>5. QED BY <2>1, <2>2, <2>3, <2>4 DEF EventKept
<1>8. CASE Interrupt(c)
  BY <1>8, EventKeptByInterrupt
<1>4. CASE CallStep(c) /\ ~Emit(c) /\ ~Interrupt(c)
  <2>1. events'[c] = events[c]
    <3>1. CASE WorkerStep(c) \/ HandlerEnds(c) \/ Span(c) \/ MutateArguments(c)
      BY <3>1 DEF WorkerStep, Take, Start, Exit, HandlerEnds, Finish, Span, MutateArguments
    <3>2. CASE CallerStep(c) \/ Begin(c) \/ Timeout(c)
      BY <1>4, <3>2 DEF CallerStep, Begin, Lookup, Validate, ApplyPolicy, Submit, Collect, Timeout,
                        Cancel, Shutdown
    <3>3. QED BY <1>4, <3>1, <3>2 DEF CallStep
  <2>2. CASE WorkerStep(c) \/ HandlerEnds(c) \/ Span(c) \/ MutateArguments(c)
    <3>1. pc' = pc /\ status' = status
      BY <2>2 DEF WorkerStep, Take, Start, Exit, HandlerEnds, Finish, Span, MutateArguments,
                  callVars
    <3>2. QED BY <1>2, <1>4, <2>1, <3>1
  <2>3. QED BY <1>1, <1>4, <2>1, <2>2, EventKeptByCaller DEF CallStep, CallerStep
<1>5. CASE UNCHANGED vars \/ \E t \in Tools : Register(t)
  <2>1. /\ pc' = pc /\ status' = status /\ events' = events
        /\ worker' = worker /\ future' = future
    BY <1>5 DEF Register, vars, callVars, poolVars
  <2>2. QED BY <1>1, <2>1 DEF EventKept, Told, MaybeTold, TellsTheTruth
<1>6. QED BY <1>3, <1>4, <1>5, <1>7, <1>8 DEF Next, CallStep

\* With a tracer that records, each result of a host's engine has exactly one
\* event, which tells the truth about the handler.
THEOREM ResultsAreTraced == Spec => []OneEventPerResult
<1>1. Init => EventInv
  BY DEF Init, EventInv, EventKept
<1>2. TypeOK /\ ThreadsInv /\ EventInv => OneEventPerResult
  <2> SUFFICES ASSUME TypeOK, ThreadsInv, EventInv, NEW c \in Calls,
                      Left(c), TracerDeliveries = {TRUE}
               PROVE  /\ Len(events[c]) <= 1
                      /\ events[c] # <<>> => request[c].via = "engine" /\ status[c] # "raised"
                      /\ \A i \in DOMAIN events[c] : TellsTheTruth(c, events[c][i].told)
                      /\ request[c].via = "engine" /\ status[c] \in Statuses =>
                           Len(events[c]) = 1 /\ events[c][1].status = status[c]
    BY DEF OneEventPerResult
  <2>1. EventKept(c) /\ FutureInv(c) /\ CallerInv(c)
    BY DEF EventInv, ThreadsInv
  <2>2. events[c] = <<>> => Len(events[c]) = 0 /\ DOMAIN events[c] = {}
    OBVIOUS
  <2>3. Len(events[c]) = 1 => DOMAIN events[c] = {1} /\ events[c] # <<>>
    <3>1. events[c] \in Seq(EventRecord)
      BY DEF TypeOK
    <3>2. QED BY <3>1
  <2>4. CASE status[c] = "raised"
    BY <2>1, <2>2, <2>4 DEF EventKept, Left, Statuses
  <2>5. CASE status[c] = "interrupted"
    <3>1. MaybeTold(c)
      BY <2>1, <2>5 DEF EventKept, Left
    <3>2. CASE events[c] = <<>>
      BY <2>2, <2>5, <3>2 DEF Statuses
    <3>3. CASE events[c] # <<>>
      <4>1. /\ request[c].via = "engine" /\ DOMAIN events[c] = {1} /\ Len(events[c]) = 1
            /\ TellsTheTruth(c, events[c][1].told)
        BY <2>3, <3>1, <3>3 DEF MaybeTold
      <4>2. status[c] # "raised" /\ status[c] \notin Statuses
        BY <2>5 DEF Statuses
      <4>3. Len(events[c]) <= 1
        BY <4>1
      <4>4. QED BY <4>1, <4>2, <4>3, Zenon
    <3>4. QED BY <3>2, <3>3
  <2>6. CASE status[c] \notin {"raised", "interrupted"}
    <3>1. Told(c)
      BY <2>1, <2>6 DEF EventKept, Left
    <3>2. TellsTheTruth(c, Classification(status[c]))
      BY <2>1, <2>6, ClassifiedTruth DEF CallerInv, Interrupted, Left
    <3>3. CASE request[c].via = "engine"
      <4>1. /\ DOMAIN events[c] = {1} /\ Len(events[c]) = 1
            /\ events[c][1].status = status[c]
            /\ events[c][1].told = Classification(status[c])
        BY <2>3, <3>1, <3>3 DEF Told
      <4>2. Len(events[c]) <= 1
        BY <4>1
      <4>3. QED BY <2>6, <3>2, <3>3, <4>1, <4>2, Zenon
    <3>4. CASE request[c].via # "engine"
      BY <2>2, <3>1, <3>4 DEF Told
    <3>5. QED BY <3>3, <3>4
  <2>7. QED BY <2>4, <2>5, <2>6
<1>3. QED BY <1>1, <1>2, EventStep, ThreadsInvariant, TypeCorrect, PTL DEF Spec

-----------------------------------------------------------------------------
(* Who can move, and for how long.                                         *)

\* While the caller has not given up its future is not cancelled.
MoveInv == \A c \in Calls : pc[c] \in {"wait", "cancel"} => future[c] # "cancelled"

LEMMA MoveStep == TypeOK /\ ThreadsInv /\ MoveInv /\ [Next]_vars => MoveInv'
<1> SUFFICES ASSUME TypeOK, ThreadsInv, MoveInv, [Next]_vars, NEW c \in Calls
             PROVE  pc'[c] \in {"wait", "cancel"} => future'[c] # "cancelled"
  BY DEF MoveInv
<1> DEFINE Kept == pc'[c] \in {"wait", "cancel"} => future'[c] # "cancelled"
<1>1. FutureInv(c) /\ CallerInv(c)
  BY DEF ThreadsInv
<1>2. pc[c] \in {"wait", "cancel"} => future[c] # "cancelled"
  BY DEF MoveInv
<1>3. CASE Unmoved(c)
  BY <1>2, <1>3 DEF Unmoved, Submitted
<1>4. CASE Begin(c) \/ Lookup(c) \/ Validate(c) \/ ApplyPolicy(c)
  BY <1>4 DEF TypeOK, Begin, Lookup, Validate, ApplyPolicy, Reject, Goto, Decide
<1>5. CASE Submit(c) \/ Collect(c) \/ Timeout(c) \/ Cancel(c)
  BY <1>2, <1>5 DEF TypeOK, Submit, Hand, Collect, AfterWait, AllOutcomes, Timeout, Cancel, poolVars,
                    Submitted, Goto, Decide
<1>6. CASE Emit(c) \/ Shutdown(c)
  BY <1>6 DEF TypeOK, Emit, Leave, Shutdown, Goto
<1>10. CASE Interrupt(c)
  BY <1>10, InterruptEffect DEF InterruptLeaves
<1>7. CASE WorkerStep(c) \/ HandlerEnds(c)
  <2> USE DEF TypeOK, callVars, Submitted, FutureInv
  <2>1. CASE Take(c)
    BY <1>2, <2>1 DEF Take
  <2>2. CASE Start(c)
    BY <1>2, <2>2 DEF Start
  <2>3. CASE Exit(c)
    BY <1>2, <2>3 DEF Exit
  <2>4. ASSUME NEW o \in Outcomes, Finish(c, o) PROVE Kept
    BY <1>2, <2>4, EnvironmentAssumption DEF Finish, RunsHandler, AllOutcomes
  <2> QED BY <1>7, <2>1, <2>2, <2>3, <2>4 DEF WorkerStep, HandlerEnds
<1>8. CASE Span(c) \/ MutateArguments(c) \/ UNCHANGED vars \/ \E t \in Tools : Register(t)
  <2>1. Unmoved(c)
    BY <1>8 DEF Span, MutateArguments, Register, Unmoved, vars, callVars, poolVars
  <2> QED BY <1>3, <2>1
<1>9. ASSUME NEW d \in Calls, c # d, CallStep(d) PROVE Kept
  BY <1>3, <1>9, OthersUnmoved
<1> QED BY <1>4, <1>5, <1>6, <1>7, <1>8, <1>9, <1>10 DEF Next, CallStep, CallerStep

LEMMA MoveInvariant == Spec => []MoveInv
<1>1. Init => MoveInv
  BY DEF Init, MoveInv
<1> QED BY <1>1, MoveStep, ThreadsInvariant, TypeCorrect, PTL DEF Spec

LEMMA Unstuck ==
  ASSUME TypeOK, ThreadsInv, MoveInv, NEW c \in Calls, Unfinished(c)
  PROVE  CanMove(c) \/ InNestedCall(c)
<1>1. FutureInv(c) /\ CallerInv(c)
  BY DEF ThreadsInv
<1>2. CASE InProgress(c)
  <2>1. CASE pc[c] # "wait"
    BY <1>2, <2>1 DEF CanMove, CallerReady, ShutdownReturns
  <2>2. CASE pc[c] = "wait"
    <3>1. worker[c] \in {"queued", "holding", "running", "idle", "exited"}
      BY <1>1, <2>2 DEF TypeOK, CallerInv, Submitted
    <3>2. worker[c] \in {"idle", "exited"} => future[c] \in AllOutcomes
      BY <1>1, <2>2 DEF MoveInv, FutureInv, Left
    <3>3. ~PoolBusy(c)
      BY DEF PoolBusy, PoolOf
    <3> QED
      BY <1>2, <2>2, <3>1, <3>2, <3>3
         DEF CanMove, CallerReady, WorkerReady, HandlerFree, RunsHandler
  <2> QED BY <2>1, <2>2
<1>3. CASE ~InProgress(c)
  <2>1. worker[c] \in {"queued", "holding", "running", "idle"}
    BY <1>3 DEF Unfinished, LiveThreads
  <2>2. pc[c] = "left"
    BY <1>1, <1>3, <2>1 DEF InProgress, Begun, Left, CallerInv
  <2>3. ~PoolBusy(c)
    BY DEF PoolBusy, PoolOf
  <2> QED BY <2>1, <2>2, <2>3 DEF CanMove, WorkerReady, HandlerFree, RunsHandler, Left
<1> QED BY <1>2, <1>3

\* The safety half of progress in execute: a caller or a worker thread that is
\* not done can go on by itself, or waits for a call nested in its handler.
THEOREM WaitingGoesDown == Spec => []NothingStuck
<1>1. TypeOK /\ ThreadsInv /\ MoveInv => NothingStuck
  BY Unstuck DEF NothingStuck
<1> QED BY <1>1, TypeCorrect, ThreadsInvariant, MoveInvariant, PTL

\* Among any calls there is one of least height.
LEMMA SmallestHeight ==
  ASSUME NEW Height \in [Calls -> Nat], NEW C \in SUBSET Calls, C # {}
  PROVE  \E c \in C : \A d \in C : Height[c] <= Height[d]
<1> DEFINE R == {ss \in Nat \X Nat : ss[1] < ss[2]}
           H == {Height[c] : c \in C}
<1>1. IsWellFoundedOn(R, Nat)
  BY NatLessThanWellFounded, Zenon DEF OpToRel
<1>2. H \in SUBSET Nat /\ H # {}
  OBVIOUS
<1> HIDE DEF H
<1>3. PICK n \in H : \A m \in H : ~(<<m, n>> \in R)
  BY <1>1, <1>2, WFMin, Zenon
<1>4. ASSUME NEW m \in H PROVE n <= m
  <2>1. <<m, n>> \in Nat \X Nat /\ <<m, n>>[1] = m /\ <<m, n>>[2] = n
    BY <1>2
  <2>2. ~(m < n)
    BY <1>3, <2>1
  <2> QED BY <1>2, <2>2
<1> QED BY <1>3, <1>4 DEF H

\* No deadlock: as long as anything is unfinished, something can move, for
\* any nesting of calls, any number of them and any number of threads. Height
\* says that calls are not nested in themselves, nor without end.
THEOREM NoDeadlock ==
  ASSUME NEW Height \in [Calls -> Nat],
         \A d \in Calls : Parent[d] # NoCall => Height[d] < Height[Parent[d]]
  PROVE  Spec => []((\E c \in Calls : Unfinished(c)) => \E c \in Calls : CanMove(c))
<1>1. ASSUME NothingStuck, NEW b \in Calls, Unfinished(b)
      PROVE  \E c \in Calls : CanMove(c)
  <2> DEFINE C == {c \in Calls : Unfinished(c)}
  <2>1. C \in SUBSET Calls /\ C # {}
    BY <1>1
  <2>2. PICK c \in C : \A d \in C : Height[c] <= Height[d]
    <3> HIDE DEF C
    <3> QED BY <2>1, SmallestHeight
  <2>3. ~InNestedCall(c)
    <3> SUFFICES ASSUME NEW d \in Calls, Parent[d] = c, InProgress(d) PROVE FALSE
      BY DEF InNestedCall
    <3>1. d \in C /\ Height[d] < Height[c]
      BY CallsAssumption DEF Unfinished
    <3> QED BY <2>2, <3>1
  <2> QED BY <1>1, <2>3 DEF NothingStuck
<1>2. NothingStuck => ((\E c \in Calls : Unfinished(c)) => \E c \in Calls : CanMove(c))
  BY <1>1
<1> QED BY <1>2, WaitingGoesDown, PTL

\* The steps that are left to a caller and to a worker thread, at most.
CallerRank(p, s) ==
  CASE p = "idle" -> 10
    [] p = "lookup" -> 9
    [] p = "validate" -> 8
    [] p = "policy" -> 7
    [] p = "submit" -> 6
    [] p = "wait" -> 5
    [] p = "cancel" -> 4
    [] p = "emit" -> IF s = "success" THEN 1 ELSE 3
    [] p = "shutdown" -> 2
    [] p = "left" -> 0
WorkerRank(w) ==
  CASE w = "none" -> 5
    [] w = "queued" -> 4
    [] w = "holding" -> 3
    [] w = "running" -> 2
    [] w = "idle" -> 1
    [] w \in {"exited", "unstarted"} -> 0
Remaining(c) == CallerRank(pc[c], status[c]) + WorkerRank(worker[c])

\* A step of the two threads of a call: all but the handler's own doings.
ThreadStep(c) ==
  Begin(c) \/ CallerStep(c) \/ Timeout(c) \/ Interrupt(c) \/ WorkerStep(c) \/ HandlerEnds(c)

LEMMA CallerRanks ==
  ASSUME NEW s
  PROVE  /\ CallerRank("idle", s) = 10 /\ CallerRank("lookup", s) = 9
         /\ CallerRank("validate", s) = 8 /\ CallerRank("policy", s) = 7
         /\ CallerRank("submit", s) = 6 /\ CallerRank("wait", s) = 5
         /\ CallerRank("cancel", s) = 4 /\ CallerRank("shutdown", s) = 2
         /\ CallerRank("emit", s) = IF s = "success" THEN 1 ELSE 3
         /\ CallerRank("left", s) = 0
  BY DEF CallerRank

LEMMA WorkerRanks ==
  /\ WorkerRank("none") = 5 /\ WorkerRank("queued") = 4 /\ WorkerRank("holding") = 3
  /\ WorkerRank("running") = 2 /\ WorkerRank("idle") = 1
  /\ WorkerRank("exited") = 0 /\ WorkerRank("unstarted") = 0
  BY DEF WorkerRank

CallerPlaces ==
  {"idle", "lookup", "validate", "policy", "submit", "wait", "cancel", "emit", "shutdown", "left"}
WorkerPlaces == {"none", "unstarted", "queued", "holding", "running", "idle", "exited"}

LEMMA CallerRankType ==
  ASSUME NEW p \in CallerPlaces, NEW s PROVE CallerRank(p, s) \in 0 .. 10
  BY CallerRanks DEF CallerPlaces

LEMMA WorkerRankType ==
  ASSUME NEW w \in WorkerPlaces PROVE WorkerRank(w) \in 0 .. 5
  BY WorkerRanks DEF WorkerPlaces

LEMMA Placed ==
  ASSUME TypeOK, TypeOK', NEW c \in Calls
  PROVE  /\ CallerRank(pc[c], status[c]) \in 0 .. 10 /\ WorkerRank(worker[c]) \in 0 .. 5
         /\ CallerRank(pc'[c], status'[c]) \in 0 .. 10 /\ WorkerRank(worker'[c]) \in 0 .. 5
<1>1. /\ pc[c] \in CallerPlaces /\ pc'[c] \in CallerPlaces
      /\ worker[c] \in WorkerPlaces /\ worker'[c] \in WorkerPlaces
  BY DEF TypeOK, CallerPlaces, WorkerPlaces
<1> QED BY <1>1, CallerRankType, WorkerRankType, Zenon

LEMMA CallerStepCounts ==
  ASSUME TypeOK, ThreadsInv, NEW c \in Calls,
         Begin(c) \/ CallerStep(c) \/ Timeout(c) \/ Interrupt(c)
  PROVE  /\ CallerRank(pc'[c], status'[c]) < CallerRank(pc[c], status[c])
         /\ \/ worker'[c] = worker[c]
            \/ worker[c] = "none" /\ worker'[c] \in {"queued", "unstarted"}
            \/ worker[c] = "queued" /\ worker'[c] = "idle"
<1>1. FutureInv(c) /\ CallerInv(c)
  BY DEF ThreadsInv
<1> USE DEF TypeOK, Goto, Decide, poolVars
<1>2. CASE Begin(c) \/ Lookup(c) \/ Validate(c)
  <2>1. /\ worker' = worker
        /\ \/ pc[c] = "idle" /\ pc'[c] = "lookup"
           \/ pc[c] = "lookup" /\ pc'[c] \in {"validate", "emit"}
           \/ pc[c] = "validate" /\ pc'[c] \in {"policy", "emit"}
    BY <1>2 DEF Begin, Lookup, Validate, Reject
  <2> QED BY ONLY <2>1, CallerRanks
<1>3. CASE ApplyPolicy(c)
  <2>1. pc[c] = "policy" /\ pc'[c] \in {"submit", "emit"} /\ worker' = worker
    BY <1>3 DEF ApplyPolicy, Reject
  <2> QED BY ONLY <2>1, CallerRanks
<1>4. CASE Submit(c)
  <2>1. /\ pc[c] = "submit" /\ worker[c] = "none"
        /\ \/ pc'[c] = "wait" /\ worker'[c] = "queued"
           \/ pc'[c] = "left" /\ worker'[c] = "unstarted"
    BY <1>1, <1>4 DEF Submit, CallerInv
  <2> QED BY ONLY <2>1, CallerRanks
<1>5. CASE Collect(c) \/ Timeout(c) \/ Cancel(c)
  <2>1. /\ \/ pc[c] = "wait" /\ pc'[c] \in {"shutdown", "emit", "cancel"}
           \/ pc[c] = "cancel" /\ pc'[c] = "emit"
        /\ worker' = worker
    BY <1>5 DEF Collect, AfterWait, AllOutcomes, Timeout, Cancel
  <2> QED BY ONLY <2>1, CallerRanks
<1>6. CASE Emit(c)
  <2>1. /\ pc[c] = "emit" /\ worker' = worker
        /\ pc'[c] = "left" \/ (pc'[c] = "shutdown" /\ status[c] # "success")
    BY <1>1, <1>6 DEF Emit, Leave, CallerInv, Rejected
  <2> QED BY ONLY <2>1, CallerRanks
<1>7. CASE Shutdown(c)
  <2>1. /\ pc[c] = "shutdown"
        /\ pc'[c] = "left" \/ (pc'[c] = "emit" /\ status'[c] = "success")
        /\ worker'[c] = worker[c] \/ (worker[c] = "queued" /\ worker'[c] = "idle")
    BY <1>7 DEF Shutdown, DrainsQueue
  <2> QED BY ONLY <2>1, CallerRanks
<1>8. CASE Interrupt(c)
  <2>1. InterruptLeaves(c) /\ status'[c] = "interrupted"
    BY <1>8, InterruptEffect
  <2>2. /\ pc[c] = "submit" => worker[c] = "none"
        /\ pc[c] = "emit" /\ executor[c] = "open" => status[c] # "success"
    BY <1>1 DEF CallerInv, Rejected
  <2>3. \/ pc[c] \in {"lookup", "validate", "policy", "submit", "wait", "cancel", "emit", "shutdown"}
           /\ pc'[c] = "left"
        \/ pc[c] \in {"wait", "cancel"} /\ pc'[c] = "shutdown"
        \/ pc[c] = "emit" /\ status[c] # "success" /\ pc'[c] = "shutdown"
    BY <2>1, <2>2 DEF InterruptLeaves
  <2>4. CallerRank(pc'[c], status'[c]) < CallerRank(pc[c], status[c])
    BY ONLY <2>3, CallerRanks
  <2>5. \/ worker'[c] = worker[c]
        \/ worker[c] = "none" /\ worker'[c] \in {"queued", "unstarted"}
        \/ worker[c] = "queued" /\ worker'[c] = "idle"
    BY <2>1, <2>2 DEF InterruptLeaves
  <2> QED BY <2>4, <2>5
<1> QED BY <1>2, <1>3, <1>4, <1>5, <1>6, <1>7, <1>8 DEF CallerStep

LEMMA WorkerStepCounts ==
  ASSUME TypeOK, NEW c \in Calls, WorkerStep(c) \/ HandlerEnds(c)
  PROVE  /\ pc' = pc /\ status' = status
         /\ WorkerRank(worker'[c]) < WorkerRank(worker[c])
<1>1. /\ pc' = pc /\ status' = status
      /\ \/ worker[c] = "queued" /\ worker'[c] = "holding"
         \/ worker[c] = "holding" /\ worker'[c] \in {"running", "idle"}
         \/ worker[c] = "running" /\ worker'[c] = "idle"
         \/ worker[c] = "idle" /\ worker'[c] = "exited"
  <2> USE DEF TypeOK, callVars
  <2>1. CASE Take(c)
    BY <2>1 DEF Take
  <2>2. CASE Start(c)
    BY <2>2 DEF Start
  <2>3. CASE Exit(c)
    BY <2>3 DEF Exit
  <2>4. CASE HandlerEnds(c)
    BY <2>4 DEF HandlerEnds, Finish, RunsHandler
  <2> QED BY <2>1, <2>2, <2>3, <2>4 DEF WorkerStep
<1> QED BY ONLY <1>1, WorkerRanks

LEMMA ThreadStepCounts ==
  ASSUME TypeOK, ThreadsInv, TypeOK', NEW c \in Calls, ThreadStep(c)
  PROVE  Remaining(c)' < Remaining(c)
<1>1. /\ CallerRank(pc[c], status[c]) \in Nat /\ CallerRank(pc'[c], status'[c]) \in Nat
      /\ WorkerRank(worker[c]) \in Nat /\ WorkerRank(worker'[c]) \in Nat
  <2>1. /\ CallerRank(pc[c], status[c]) \in 0 .. 10 /\ CallerRank(pc'[c], status'[c]) \in 0 .. 10
        /\ WorkerRank(worker[c]) \in 0 .. 5 /\ WorkerRank(worker'[c]) \in 0 .. 5
    BY Placed
  <2> QED BY ONLY <2>1
<1>2. CASE WorkerStep(c) \/ HandlerEnds(c)
  BY <1>1, <1>2, WorkerStepCounts DEF Remaining
<1>3. CASE Begin(c) \/ CallerStep(c) \/ Timeout(c) \/ Interrupt(c)
  <2>1. /\ CallerRank(pc'[c], status'[c]) < CallerRank(pc[c], status[c])
        /\ \/ worker'[c] = worker[c]
           \/ worker[c] = "none" /\ worker'[c] \in {"queued", "unstarted"}
           \/ worker[c] = "queued" /\ worker'[c] = "idle"
    BY <1>3, CallerStepCounts
  <2>2. WorkerRank(worker'[c]) <= WorkerRank(worker[c])
    <3>1. CASE worker'[c] = worker[c]
      BY <1>1, <3>1
    <3>2. CASE worker[c] = "none" /\ worker'[c] \in {"queued", "unstarted"}
      BY ONLY <3>2, WorkerRanks
    <3>3. CASE worker[c] = "queued" /\ worker'[c] = "idle"
      BY ONLY <3>3, WorkerRanks
    <3> QED BY <2>1, <3>1, <3>2, <3>3
  <2> QED BY <1>1, <2>1, <2>2 DEF Remaining
<1> QED BY <1>2, <1>3 DEF ThreadStep

\* A call takes finitely many steps: each one its two threads take uses up
\* some of what remains, and no other step, of a handler, of another call or
\* of the host, gives any of it back.
THEOREM StepsRunOut ==
  Spec => [][\A c \in Calls :
               /\ Remaining(c) \in 0 .. 15
               /\ Remaining(c)' <= Remaining(c)
               /\ ThreadStep(c) => Remaining(c)' < Remaining(c)]_vars
<1> DEFINE Down(c) == /\ Remaining(c) \in 0 .. 15
                      /\ Remaining(c)' <= Remaining(c)
                      /\ ThreadStep(c) => Remaining(c)' < Remaining(c)
<1>1. ASSUME TypeOK, TypeOK', ThreadsInv, Next, NEW c \in Calls PROVE Down(c)
  <2>1. Remaining(c) \in 0 .. 15 /\ Remaining(c)' \in 0 .. 15
    <3>1. /\ CallerRank(pc[c], status[c]) \in 0 .. 10 /\ WorkerRank(worker[c]) \in 0 .. 5
          /\ CallerRank(pc'[c], status'[c]) \in 0 .. 10 /\ WorkerRank(worker'[c]) \in 0 .. 5
      BY <1>1, Placed
    <3> QED BY ONLY <3>1 DEF Remaining
  <2>2. CASE ThreadStep(c)
    BY <1>1, <2>1, <2>2, ThreadStepCounts
  <2>3. CASE ~ThreadStep(c)
    <3>1. Unmoved(c)
      <4>1. CASE Span(c) \/ MutateArguments(c) \/ \E t \in Tools : Register(t)
        BY <4>1 DEF Span, MutateArguments, Register, Unmoved, callVars, poolVars
      <4>2. ASSUME NEW d \in Calls, c # d, CallStep(d) PROVE Unmoved(c)
        BY <1>1, <4>2, OthersUnmoved
      <4> QED BY <1>1, <2>3, <4>1, <4>2 DEF Next, CallStep, ThreadStep
    <3>2. Remaining(c)' = Remaining(c)
      BY <3>1 DEF Unmoved, Remaining
    <3> QED BY <2>1, <2>3, <3>2
  <2> QED BY <2>2, <2>3
<1>2. TypeOK /\ TypeOK' /\ ThreadsInv /\ [Next]_vars => [\A c \in Calls : Down(c)]_vars
  BY <1>1
<1> QED BY <1>2, TypeCorrect, ThreadsInvariant, PTL DEF Spec
=============================================================================
