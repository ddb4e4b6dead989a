------------------------------ MODULE Resolution ------------------------------
(***************************************************************************)
(* DeterministicResolutionPipeline.resolve (resolution.py) and the trace   *)
(* context it runs its resolvers under (tracing.py). A resolver or the     *)
(* fallback may itself call resolve, of this or of another pipeline, and   *)
(* open traced_spans around its work. Threads share the tracer and nothing *)
(* else: each has its own current trace context.                           *)
(*                                                                         *)
(* A call of resolve is a resolution. Requests, values and error texts are *)
(* left out; resolvers are known by their position in the pipeline.        *)
(***************************************************************************)
EXTENDS Tracing, Sequences

CONSTANTS
  Resolutions,      \* the calls of resolve() in this behaviour
  Parent,           \* Parent[r]: the resolution whose handler calls r, or NoParent
  NoParent,
  Threads,
  ThreadOf,         \* ThreadOf[r]: the thread that runs r
  HostTrace,        \* HostTrace[t]: the context the host of t made current
  Resolvers,        \* Resolvers[r]: how many resolvers the pipeline of r has
  HasFallback,      \* HasFallback[r]: the pipeline of r has a fallback
  Answers,          \* Answers[r]: what the handlers of r do in this instance
  MaxSpans,         \* bound: spans one resolution's handlers may open
  Severities,       \* error_severity of the spans handlers open
  TracerDeliveries  \* TracerDeliveries[r]: what the emit of the tracer of r's
                    \* pipeline may do: TRUE records, FALSE raises

\* A ResolutionResult with one of the three statuses, with a member of another
\* Enum or with something else for a status; an ordinary exception, a value of
\* another type, or a BaseException.
AllAnswers ==
  {"handled", "not_handled", "error", "foreign", "malformed", "exception", "invalid", "base"}

HostContext(t) == RootContext(<<"host", t, 0>>)

ASSUME ResolutionsAssumption ==
  /\ NoParent \notin Resolutions
  /\ Parent \in [Resolutions -> Resolutions \cup {NoParent}]
  /\ ThreadOf \in [Resolutions -> Threads]
  /\ \A r \in Resolutions : Parent[r] # NoParent => ThreadOf[Parent[r]] = ThreadOf[r]
ASSUME PipelinesAssumption ==
  /\ Resolvers \in [Resolutions -> Nat]
  /\ HasFallback \in [Resolutions -> BOOLEAN]
  /\ Answers \in [Resolutions -> SUBSET AllAnswers]
ASSUME TracingAssumption ==
  /\ \A t \in Threads : HostTrace[t] \in {NoContext, HostContext(t)}
  /\ HostTrace \in [Threads -> {NoContext} \cup {HostContext(t) : t \in Threads}]
  /\ MaxSpans \in Nat
  /\ Severities \subseteq {"degraded", "critical"}
  /\ TracerDeliveries \in [Resolutions -> SUBSET BOOLEAN \ {{}}]

VARIABLES
  pc,        \* pc[r]: where r is in resolve
  asked,     \* asked[r]: how many resolvers, then the fallback, were called
  answer,    \* answer[r]: what the one called last did, or "none"
  result,    \* result[r]: the ResolutionResult made of it, or NoResult
  outcome,   \* outcome[r]: "none", "returned" or "raised"
  root,      \* root[r]: the context r runs under
  token,     \* token[r]: the context to restore when r is left
  span,      \* span[r]: the span r's handler has open, or NoContext
  spanToken, \* spanToken[r]: the context to restore when that span is left
  spans,     \* spans[r]: how many spans r's handlers have opened
  current,   \* current[t]: the trace context of thread t
  events     \* events[r]: what the tracer has recorded of r, in order

scopeVars == <<root, token, span, spanToken, spans, current>>
vars == <<pc, asked, answer, result, outcome, scopeVars, events>>

\* ResolutionResult: used_fallback and the position of the named resolver.
ResultType ==
  [status : {"handled", "not_handled", "error", "foreign", "malformed"},
   fallback : BOOLEAN, by : Nat]
NoResult == [status |-> "none", fallback |-> FALSE, by |-> 0]

Goto(r, to) == pc' = [pc EXCEPT ![r] = to]

InProgress(r) == pc[r] \notin {"idle", "left"}
InNestedCall(r) == \E d \in Resolutions : Parent[d] = r /\ InProgress(d)
\* The code of r's resolver or fallback is what its thread executes.
InHandler(r) == pc[r] = "asking" /\ ~InNestedCall(r)
SpanOpen(r) == span[r] # NoContext

Init ==
  /\ pc = [r \in Resolutions |-> "idle"]
  /\ asked = [r \in Resolutions |-> 0]
  /\ answer = [r \in Resolutions |-> "none"]
  /\ result = [r \in Resolutions |-> NoResult]
  /\ outcome = [r \in Resolutions |-> "none"]
  /\ root = [r \in Resolutions |-> NoContext]
  /\ token = [r \in Resolutions |-> NoContext]
  /\ span = [r \in Resolutions |-> NoContext]
  /\ spanToken = [r \in Resolutions |-> NoContext]
  /\ spans = [r \in Resolutions |-> 0]
  /\ current = HostTrace
  /\ events = [r \in Resolutions |-> <<>>]

-----------------------------------------------------------------------------
(* The current trace context and the tracer.                               *)

\* Mutant: one context for the process instead of a ContextVar.
GlobalContext(r) == CHOOSE t \in Threads : TRUE
\* The context variable that r's thread sees.
ContextCell(r) == ThreadOf[r]

\* trace_context(context): set on entry, reset to the token on exit.
SetContext(r, context) == current' = [current EXCEPT ![ContextCell(r)] = context]

Event(op, by, context, level) ==
  [op |-> op, by |-> by, context |-> context, level |-> level]

\* safe_emit: a tracer that raises loses the event and nothing else.
SafeEmit(r, event) ==
  \E delivered \in TracerDeliveries[r] :
    events' = IF delivered THEN [events EXCEPT ![r] = Append(@, event)] ELSE events

-----------------------------------------------------------------------------
(* The body of resolve.                                                    *)

\* Called by a host on a free thread, or by the handler of Parent[r].
Resolve(r) ==
  /\ pc[r] = "idle"
  /\ IF Parent[r] = NoParent
     THEN \A d \in Resolutions : ThreadOf[d] = ThreadOf[r] => ~InProgress(d)
     ELSE InHandler(Parent[r])
  /\ LET seen == current[ContextCell(r)]
         context == IF seen = NoContext THEN RootContext(<<"root", r, 0>>) ELSE seen
     IN  /\ root' = [root EXCEPT ![r] = context]
         /\ token' = [token EXCEPT ![r] = seen]
         /\ SetContext(r, context)
  /\ Goto(r, "scan")
  /\ UNCHANGED <<asked, answer, result, outcome, span, spanToken, spans, events>>

Ask(r) ==
  /\ asked' = [asked EXCEPT ![r] = @ + 1]
  /\ answer' = [answer EXCEPT ![r] = "none"]
  /\ Goto(r, "asking")
  /\ UNCHANGED <<result, outcome, scopeVars>>

\* The next resolver of the loop is called.
Attempt(r) ==
  /\ pc[r] = "scan" /\ asked[r] < Resolvers[r]
  /\ SafeEmit(r, Event("resolver.attempt", asked[r] + 1, root[r], "diagnostic"))
  /\ Ask(r)

\* Every resolver has declined: the fallback is called.
Engage(r) ==
  /\ pc[r] = "scan" /\ asked[r] = Resolvers[r] /\ HasFallback[r]
  /\ SafeEmit(r, Event("fallback.engaged", 0, root[r], "operational"))
  /\ Ask(r)

\* Mutant: the context is reset only when resolve returns.
RestoreOnReturn(r, how) ==
  IF how = "returned" THEN SetContext(r, token[r]) ELSE UNCHANGED current
\* The with block resets the context however it is left.
Restore(r, how) == SetContext(r, token[r])

Leave(r, how) ==
  /\ outcome' = [outcome EXCEPT ![r] = how]
  /\ Restore(r, how)
  /\ Goto(r, "left")

NotHandled(r) ==
  /\ pc[r] = "scan" /\ asked[r] = Resolvers[r] /\ ~HasFallback[r]
  /\ result' = [result EXCEPT ![r] = [status |-> "not_handled", fallback |-> FALSE, by |-> 0]]
  /\ SafeEmit(r, Event("resolution.not_handled", 0, root[r], "activity"))
  /\ Leave(r, "returned")
  /\ UNCHANGED <<asked, answer, root, token, span, spanToken, spans>>

AskedFallback(r) == asked[r] > Resolvers[r]

\* Mutant: the result of a resolver that ran another pipeline keeps its own
\* used_fallback.
KeepClaims(r, a, claims) ==
  IF a \in {"exception", "invalid"}
  THEN [status |-> "error", fallback |-> AskedFallback(r),
        by |-> IF AskedFallback(r) THEN 0 ELSE asked[r]]
  ELSE [status |-> a, fallback |-> claims.fallback,
        by |-> IF AskedFallback(r) THEN claims.by ELSE asked[r]]

\* _call_resolver and _call_fallback: what the answer a becomes. claims is
\* what a returned ResolutionResult says of its own resolver and fallback.
ResultOf(r, a, claims) ==
  IF a \in {"exception", "invalid"}
  THEN [status |-> "error", fallback |-> AskedFallback(r),
        by |-> IF AskedFallback(r) THEN 0 ELSE asked[r]]
  ELSE [status |-> a, fallback |-> AskedFallback(r),
        by |-> IF AskedFallback(r) THEN claims.by ELSE asked[r]]

\* The handler ends. A BaseException makes no result.
Answer(r, a) ==
  /\ InHandler(r) /\ ~SpanOpen(r)
  /\ answer' = [answer EXCEPT ![r] = a]
  /\ IF a = "base"
     THEN result' = [result EXCEPT ![r] = NoResult]
     ELSE \E claims \in [fallback : BOOLEAN, by : {0, 1}] :
            result' = [result EXCEPT ![r] = ResultOf(r, a, claims)]
  /\ Goto(r, "judge")
  /\ UNCHANGED <<asked, outcome, scopeVars, events>>

\* Mutant: an ERROR falls through to the next resolver.
ErrorsDecline(r) == result[r].status # "handled" /\ ~AskedFallback(r)
Declined(r) == result[r].status = "not_handled" /\ ~AskedFallback(r)

Decline(r) ==
  /\ pc[r] = "judge" /\ Declined(r)
  /\ SafeEmit(r, Event("resolver.declined", asked[r], root[r], "diagnostic"))
  /\ Goto(r, "scan")
  /\ UNCHANGED <<asked, answer, result, outcome, scopeVars>>

\* Mutant: the terminal event does not tell the fallback from a resolver.
ResolverTerminal(res) ==
  CASE res.status = "handled" -> [op |-> "resolver.handled", level |-> "activity"]
    [] res.status = "error" -> [op |-> "resolver.error", level |-> "operational"]

\* Mutant: a failure of the fallback is told as ordinary activity.
FailQuietly(res) ==
  CASE res.status = "handled" /\ res.fallback ->
         [op |-> "fallback.handled", level |-> "operational"]
    [] res.status = "handled" /\ ~res.fallback ->
         [op |-> "resolver.handled", level |-> "activity"]
    [] res.status = "error" /\ res.fallback ->
         [op |-> "fallback.error", level |-> "activity"]
    [] res.status = "error" /\ ~res.fallback ->
         [op |-> "resolver.error", level |-> "operational"]

\* _emit_resolution_result: operation and level of the terminal event.
Terminal(res) ==
  CASE res.status = "handled" /\ res.fallback ->
         [op |-> "fallback.handled", level |-> "operational"]
    [] res.status = "handled" /\ ~res.fallback ->
         [op |-> "resolver.handled", level |-> "activity"]
    [] res.status = "error" /\ res.fallback ->
         [op |-> "fallback.error", level |-> "operational"]
    [] res.status = "error" /\ ~res.fallback ->
         [op |-> "resolver.error", level |-> "operational"]

\* A status without .value raises AttributeError, before any event, and a
\* BaseException goes through.
Escapes(r) == answer[r] \in {"malformed", "base"}

\* The first answer that is not a decline, or the fallback's, ends resolve.
\* A declining fallback and a status of another Enum leave no event.
Conclude(r) ==
  /\ pc[r] = "judge" /\ ~Declined(r)
  /\ LET res == result[r] IN
     IF res.status \in {"handled", "error"}
     THEN SafeEmit(r, Event(Terminal(res).op, res.by, root[r], Terminal(res).level))
     ELSE UNCHANGED events
  /\ Leave(r, IF Escapes(r) THEN "raised" ELSE "returned")
  /\ UNCHANGED <<asked, answer, result, root, token, span, spanToken, spans>>

-----------------------------------------------------------------------------
(* traced_span in a handler.                                               *)

OpenSpan(r) ==
  /\ InHandler(r) /\ ~SpanOpen(r) /\ spans[r] < MaxSpans
  /\ LET child == ChildContext(current[ContextCell(r)], <<"span", r, spans[r] + 1>>)
     IN  span' = [span EXCEPT ![r] = child] /\ SetContext(r, child)
  /\ spanToken' = [spanToken EXCEPT ![r] = current[ContextCell(r)]]
  /\ spans' = [spans EXCEPT ![r] = @ + 1]
  /\ UNCHANGED <<pc, asked, answer, result, outcome, root, token, events>>

\* except Exception: the error event, before the exception goes on.
SpanError(r, severity) ==
  SafeEmit(r, Event("span.error", 0, span[r], EventLevel("activity", severity)))

\* The block inside the span ends normally, by an exception, or by a
\* BaseException, which neither the except nor the else clause sees; each way
\* resets the context to the token.
CloseSpan(r) ==
  /\ InHandler(r) /\ SpanOpen(r)
  /\ \/ SafeEmit(r, Event("span.success", 0, span[r], "activity"))
     \/ \E severity \in Severities : SpanError(r, severity)
     \/ "base" \in Answers[r] /\ UNCHANGED events
  /\ span' = [span EXCEPT ![r] = NoContext]
  /\ SetContext(r, spanToken[r])
  /\ UNCHANGED <<pc, asked, answer, result, outcome, root, token, spanToken, spans>>

-----------------------------------------------------------------------------
Pipeline(r) ==
  \/ Attempt(r) \/ Engage(r) \/ NotHandled(r) \/ Decline(r) \/ Conclude(r)

HandlerAnswers(r) == \E a \in Answers[r] : Answer(r, a)

Next ==
  \E r \in Resolutions :
    \/ Resolve(r) \/ Pipeline(r) \/ HandlerAnswers(r)
    \/ OpenSpan(r) \/ CloseSpan(r)

Spec == Init /\ [][Next]_vars
=============================================================================
