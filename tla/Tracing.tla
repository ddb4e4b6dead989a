-------------------------------- MODULE Tracing --------------------------------
(***************************************************************************)
(* Trace contexts and events (src/src/butler_core/tracing.py). An id is    *)
(* any value; ids drawn by uuid4 are distinct because the modules that use *)
(* this one build them from who drew them.                                 *)
(***************************************************************************)
EXTENDS Naturals

\* TraceContext.root(), with the ids it drew.
RootContext(id) == [trace |-> id, span |-> id, parent |-> <<>>]

\* Mutant: the parent_span_id is left out.
ChildOfContext(context, id) == [trace |-> context.trace, span |-> id]
\* TraceContext.child(), with the span id it drew.
ChildContext(context, id) == [trace |-> context.trace, span |-> id, parent |-> context.span]

\* current_trace_context() of a thread that set none.
NoContext == [trace |-> <<>>, span |-> <<>>, parent |-> <<>>]

Levels == {"debug", "diagnostic", "activity", "operational", "release"}

Rank ==
  [level \in Levels |->
     CASE level = "debug" -> 10
       [] level = "diagnostic" -> 20
       [] level = "activity" -> 30
       [] level = "operational" -> 40
       [] level = "release" -> 50]

\* TraceLevel.includes: a host configured at minimum keeps the event.
Includes(minimum, level) == Rank[level] >= Rank[minimum]

\* TraceEvent.__post_init__: a critical condition is never discarded.
EventLevel(level, severity) == IF severity = "critical" THEN "release" ELSE level
=============================================================================
