------------------------- MODULE ResolutionProperties -------------------------
(***************************************************************************)
(* What makes resolve correct, stated over Resolution.                     *)
(***************************************************************************)
EXTENDS Resolution

Ids ==
  {<<>>} \cup {<<"host", t, 0>> : t \in Threads} \cup {<<"root", r, 0>> : r \in Resolutions}
    \cup {<<"span", r, n>> : r \in Resolutions, n \in 0..MaxSpans}
ContextType == [trace : Ids, span : Ids, parent : Ids]
Operations ==
  {"resolver.attempt", "resolver.declined", "resolver.handled", "resolver.error",
   "resolution.not_handled", "fallback.engaged", "fallback.handled", "fallback.error",
   "span.success", "span.error"}
EventType == [op : Operations, by : Nat, context : ContextType, level : Levels]

\* Every variable holds a value of its kind in every reachable state.
TypeOK ==
  /\ pc \in [Resolutions -> {"idle", "scan", "asking", "judge", "left"}]
  /\ asked \in [Resolutions -> Nat]
  /\ answer \in [Resolutions -> AllAnswers \cup {"none"}]
  /\ result \in [Resolutions -> ResultType \cup {NoResult}]
  /\ outcome \in [Resolutions -> {"none", "returned", "raised"}]
  /\ root \in [Resolutions -> ContextType]
  /\ token \in [Resolutions -> ContextType]
  /\ span \in [Resolutions -> ContextType]
  /\ spanToken \in [Resolutions -> ContextType]
  /\ spans \in [Resolutions -> Nat]
  /\ current \in [Threads -> ContextType]
  /\ events \in [Resolutions -> Seq(EventType)]

Left(r) == pc[r] = "left"
Returned(r) == outcome[r] = "returned"

-----------------------------------------------------------------------------
(* The answer.                                                             *)

VerdictOf(r) ==
  IF ~Left(r) THEN "open" ELSE IF Returned(r) THEN result[r].status ELSE "raised"

Contract ==
  INSTANCE ResolutionContract WITH
    last <- answer,
    verdict <- [r \in Resolutions |-> VerdictOf(r)]

\* resolve implements its contract: in order, one at a time, first answer
\* wins, failures neither fall through nor are lost, the fallback only last.
ImplementsContract == Contract!Spec

\* used_fallback is TRUE exactly when this pipeline's own fallback made the
\* result, whatever a nested pipeline says of itself, and a result that is
\* not the fallback's names the resolver it came from.
FallbackIsExplicit ==
  \A r \in Resolutions :
    Left(r) /\ Returned(r) =>
      /\ result[r].fallback <=> HasFallback[r] /\ AskedFallback(r)
      /\ ~result[r].fallback /\ result[r].status # "not_handled" => result[r].by = asked[r]

-----------------------------------------------------------------------------
(* Trace contexts.                                                         *)

\* Code always runs in the context of the innermost scope open around it:
\* after any nesting of resolutions and spans, left in any way, a handler
\* finds its own context again, and the host finds the one it had.
ContextRestored ==
  /\ \A r \in Resolutions :
       InProgress(r) /\ ~InNestedCall(r)
         => current[ThreadOf[r]] = IF SpanOpen(r) THEN span[r] ELSE root[r]
  /\ \A t \in Threads :
       (\A r \in Resolutions : ThreadOf[r] = t => ~InProgress(r)) => current[t] = HostTrace[t]

\* All that happens for one request is in one trace, the host's if it has
\* one: nested resolutions and spans carry the trace of their parent, and no
\* event of another thread's request does.
OneTracePerRequest ==
  \A r, d \in Resolutions :
    \A i \in DOMAIN events[r], j \in DOMAIN events[d] :
      LET same == events[r][i].context.trace = events[d][j].context.trace IN
      /\ r = d \/ Parent[d] = r => same
      /\ ThreadOf[r] # ThreadOf[d] => ~same
      /\ HostTrace[ThreadOf[r]] # NoContext
           => events[r][i].context.trace = HostTrace[ThreadOf[r]].trace

-----------------------------------------------------------------------------
(* What the trace tells.                                                   *)

Told(r, op) == {events[r][i].by : i \in {j \in DOMAIN events[r] : events[r][j].op = op}}
Tells(r, op) == Told(r, op) # {}

\* The event that ends the resolution: the fallback that declines, a foreign
\* status and an exception end it without one.
Conclusion(r) ==
  LET res == result[r] IN
  IF ~Returned(r) THEN {}
  ELSE CASE res.status = "handled" ->
              {IF res.fallback THEN "fallback.handled" ELSE "resolver.handled"}
         [] res.status = "error" -> {IF res.fallback THEN "fallback.error" ELSE "resolver.error"}
         [] res.status = "not_handled" /\ ~res.fallback -> {"resolution.not_handled"}
         [] OTHER -> {}
Conclusions ==
  {"resolver.handled", "resolver.error", "fallback.handled", "fallback.error",
   "resolution.not_handled"}

\* The events of a resolution whose tracer records them tell how it went, also
\* when it raised: who was asked, who declined, whether the fallback was
\* engaged and, by the last event and no other, what was returned.
TraceTellsTheResult ==
  \A r \in Resolutions :
    Left(r) /\ TracerDeliveries[r] = {TRUE} =>
      LET tried == IF AskedFallback(r) THEN Resolvers[r] ELSE asked[r]
      IN  /\ Told(r, "resolver.attempt") = 1..tried
          /\ Told(r, "resolver.declined") =
               IF result[r].status = "not_handled" \/ AskedFallback(r)
               THEN 1..tried ELSE 1..(tried - 1)
          /\ Tells(r, "fallback.engaged") <=> AskedFallback(r)
          /\ {op \in Conclusions : Tells(r, op)} = Conclusion(r)
          /\ Conclusion(r) # {} => events[r][Len(events[r])].op \in Conclusion(r)

\* r has an event op that a host keeping OPERATIONAL and above still sees.
Kept(r, op) ==
  \E i \in DOMAIN events[r] :
    events[r][i].op = op /\ Includes("operational", events[r][i].level)

\* A host that keeps only operational events still sees that the fallback was
\* engaged, however that ended, that it handled the request, and every failure
\* that a result reports, a resolver's or the fallback's, by its own event.
EscalationsRetained ==
  \A r \in Resolutions :
    Left(r) /\ TracerDeliveries[r] = {TRUE} =>
      /\ AskedFallback(r) => Kept(r, "fallback.engaged")
      /\ \A op \in Conclusion(r) \ {"resolver.handled", "resolution.not_handled"} : Kept(r, op)
=============================================================================
