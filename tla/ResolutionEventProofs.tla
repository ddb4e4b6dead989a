------------------------ MODULE ResolutionEventProofs ------------------------
(***************************************************************************)
(* Proofs about what the events of a resolution tell, for every number of  *)
(* resolvers, every nesting of pipelines and every number of spans.        *)
(***************************************************************************)
EXTENDS ResolutionProofs

-----------------------------------------------------------------------------
(* How a step changes the events.                                          *)

Recorded(r) == TracerDeliveries[r] = {TRUE}

\* What r's tracer has when r appends e.
Records(r, e) == events' = [events EXCEPT ![r] = Append(events[r], e)]

LEMMA RecordingDelivers ==
  ASSUME NEW r \in Resolutions, NEW e, Recorded(r), SafeEmit(r, e)
  PROVE  Records(r, e)
  BY DEF Recorded, SafeEmit, Records

\* An event adds itself to what was told, and nothing else.
LEMMA AppendTells ==
  ASSUME TypeOK, NEW r \in Resolutions, NEW op, NEW by, NEW context, NEW level,
         Records(r, Event(op, by, context, level))
  PROVE  /\ Told(r, op)' = Told(r, op) \cup {by}
         /\ \A o : o # op => Told(r, o)' = Told(r, o)
         /\ Len(events'[r]) = Len(events[r]) + 1
         /\ events'[r][Len(events'[r])] = Event(op, by, context, level)
         /\ \A i \in DOMAIN events[r] : events'[r][i] = events[r][i]
<1> DEFINE e == Event(op, by, context, level)
           n == Len(events[r])
<1>1. events[r] \in Seq(EventType) /\ events'[r] = Append(events[r], e)
  BY DEF TypeOK, Records
<1>2. e.op = op /\ e.by = by
  BY DEF Event
<1> HIDE DEF e
<1>3. /\ n \in Nat /\ DOMAIN events[r] = 1..n /\ DOMAIN events'[r] = 1..(n + 1)
      /\ Len(events'[r]) = n + 1 /\ events'[r][n + 1] = e
      /\ \A i \in 1..n : events'[r][i] = events[r][i]
  BY <1>1
<1>4. 1..(n + 1) = 1..n \cup {n + 1}
  BY <1>3
<1> HIDE DEF n
<1>5. ASSUME NEW o
      PROVE  Told(r, o)' = Told(r, o) \cup (IF o = op THEN {by} ELSE {})
  BY <1>2, <1>3, <1>4 DEF Told
<1>6. QED BY <1>3, <1>5 DEF e, n
LEMMA SameEventsTell ==
  ASSUME NEW r \in Resolutions, events'[r] = events[r]
  PROVE  \A o : Told(r, o)' = Told(r, o)
  BY DEF Told

\* A resolution writes its own events only.
LEMMA OthersEvents ==
  ASSUME TypeOK, NEW r \in Resolutions, ResolutionStep(r), NEW d \in Resolutions, d # r
  PROVE  events'[d] = events[d]
<1>1. \A e : SafeEmit(r, e) => events'[d] = events[d]
  BY DEF SafeEmit, TypeOK
<1>2. CASE Pipeline(r)
  BY <1>1, <1>2 DEF Pipeline, Attempt, Engage, NotHandled, Decline, Conclude
<1>3. CASE CloseSpan(r)
  BY <1>1, <1>3 DEF CloseSpan, SpanError
<1>4. CASE Resolve(r) \/ HandlerAnswers(r) \/ OpenSpan(r)
  BY <1>4 DEF Resolve, HandlerAnswers, Answer, OpenSpan
<1>5. QED BY <1>2, <1>3, <1>4 DEF ResolutionStep

-----------------------------------------------------------------------------
(* Attempts, declines, the fallback and the last event.                    *)

\* How many resolvers have been called.
Tried(r) == IF AskedFallback(r) THEN Resolvers[r] ELSE asked[r]

\* The terminal events that r has.
Endings(r) == {op \in Conclusions : Tells(r, op)}

\* What the events of r tell when it has been left.
Ending(r) ==
  /\ Told(r, "resolver.declined") =
       IF result[r].status = "not_handled" \/ AskedFallback(r)
       THEN 1..Tried(r) ELSE 1..(Tried(r) - 1)
  /\ Endings(r) = Conclusion(r)
  /\ Conclusion(r) # {} => events[r][Len(events[r])].op \in Conclusion(r)

TellsInv(r) ==
  /\ Told(r, "resolver.attempt") = 1..Tried(r)
  /\ pc[r] \in {"idle", "scan"} => Told(r, "resolver.declined") = 1..Tried(r)
  /\ pc[r] \in {"asking", "judge"} =>
       Told(r, "resolver.declined") = 1..(IF AskedFallback(r) THEN Tried(r) ELSE asked[r] - 1)
  /\ Tells(r, "fallback.engaged") <=> AskedFallback(r)
  /\ IF Left(r) THEN Ending(r) ELSE Endings(r) = {}

\* An event adds its own operation to the terminal ones, if it is one.
LEMMA AppendEnds ==
  ASSUME TypeOK, NEW r \in Resolutions, NEW op, NEW by, NEW context, NEW level,
         Records(r, Event(op, by, context, level))
  PROVE  Endings(r)' = Endings(r) \cup (Conclusions \cap {op})
<1>1. \A o : Tells(r, o)' <=> (Tells(r, o) \/ o = op)
  BY AppendTells DEF Tells
<1>2. QED BY <1>1 DEF Endings

\* A step that writes no event and ends nothing.
LEMMA QuietKeeps ==
  ASSUME NEW r \in Resolutions, TellsInv(r), events'[r] = events[r], asked'[r] = asked[r],
         outcome'[r] = outcome[r], result'[r] = result[r],
         \/ pc'[r] = pc[r]
         \/ pc[r] = "idle" /\ pc'[r] = "scan"
         \/ pc[r] = "asking" /\ pc'[r] = "judge"
  PROVE  TellsInv(r)'
<1>1. \A o : Told(r, o)' = Told(r, o)
  BY SameEventsTell
<1>2. /\ AskedFallback(r)' = AskedFallback(r) /\ Tried(r)' = Tried(r)
      /\ \A o : Tells(r, o)' = Tells(r, o)
  BY <1>1 DEF AskedFallback, Tried, Tells
<1>3. Endings(r)' = Endings(r)
  BY <1>2 DEF Endings
<1>4. Ending(r)' <=> Ending(r)
  <2>1. Conclusion(r)' = Conclusion(r)
    BY DEF Conclusion, Returned
  <2>2. events'[r][Len(events'[r])].op = events[r][Len(events[r])].op
    OBVIOUS
  <2>3. Told(r, "resolver.declined")' = Told(r, "resolver.declined")
    BY <1>1
  <2> HIDE DEF Conclusion
  <2>4. QED BY <1>2, <1>3, <2>1, <2>2, <2>3 DEF Ending
<1>5. Left(r)' <=> Left(r)
  BY DEF Left
<1>6. QED BY <1>1, <1>2, <1>3, <1>4, <1>5 DEF TellsInv

LEMMA Intervals ==
  ASSUME NEW n \in Nat
  PROVE  1..n \cup {n + 1} = 1..(n + 1) /\ (n > 0 => 1..(n - 1) \cup {n} = 1..n)
  OBVIOUS

\* The steps of the loop: who is asked and who declines.
LEMMA LoopTells ==
  ASSUME TypeOK, NEW r \in Resolutions, AnswerInv(r), TellsInv(r), Recorded(r),
         Attempt(r) \/ Engage(r) \/ Decline(r)
  PROVE  TellsInv(r)'
<1>1. asked[r] \in Nat /\ Resolvers[r] \in Nat
  BY PipelinesAssumption DEF TypeOK
<1>2. ~Left(r) /\ ~Left(r)' /\ Endings(r)' = {}
  <2>1. ~Left(r) /\ ~Left(r)'
    BY DEF TypeOK, Attempt, Engage, Decline, Ask, Left, Goto
  <2>2. Endings(r) = {}
    BY <2>1 DEF TellsInv
  <2>3. \E op, by, level : /\ op \notin Conclusions
                           /\ Records(r, Event(op, by, root[r], level))
    BY RecordingDelivers DEF Attempt, Engage, Decline, Conclusions
  <2>4. QED BY <2>1, <2>2, <2>3, AppendEnds
<1>3. CASE Attempt(r)
  <2>1. /\ asked'[r] = asked[r] + 1 /\ asked[r] < Resolvers[r] /\ pc[r] = "scan"
        /\ pc'[r] = "asking"
    BY <1>3 DEF Attempt, Ask, Goto, TypeOK
  <2>2. Records(r, Event("resolver.attempt", asked[r] + 1, root[r], "diagnostic"))
    BY <1>3, RecordingDelivers DEF Attempt
  <2>3. /\ Told(r, "resolver.attempt")' = Told(r, "resolver.attempt") \cup {asked[r] + 1}
        /\ \A o : o # "resolver.attempt" => Told(r, o)' = Told(r, o)
    BY <2>2, AppendTells
  <2>4. /\ ~AskedFallback(r) /\ ~AskedFallback(r)'
        /\ Tried(r) = asked[r] /\ Tried(r)' = asked[r] + 1
    BY <1>1, <2>1 DEF AskedFallback, Tried
  <2>5. /\ Told(r, "resolver.attempt") = 1..asked[r] /\ Told(r, "resolver.declined") = 1..asked[r]
        /\ ~Tells(r, "fallback.engaged")
    BY <2>1, <2>4 DEF TellsInv
  <2>6. /\ Told(r, "resolver.attempt")' = 1..(asked[r] + 1)
        /\ Told(r, "resolver.declined")' = 1..(asked'[r] - 1)
        /\ ~Tells(r, "fallback.engaged")'
    <3>1. asked'[r] - 1 = asked[r]
      BY <1>1, <2>1
    <3>2. Told(r, "resolver.attempt")' = 1..(asked[r] + 1)
      BY <1>1, <2>3, <2>5, Intervals
    <3>3. QED BY <2>3, <2>5, <3>1, <3>2 DEF Tells
  <2>7. QED BY <1>2, <2>1, <2>4, <2>6 DEF TellsInv
<1>4. CASE Engage(r)
  <2>1. /\ asked'[r] = asked[r] + 1 /\ asked[r] = Resolvers[r] /\ pc[r] = "scan"
        /\ pc'[r] = "asking"
    BY <1>4 DEF Engage, Ask, Goto, TypeOK
  <2>2. Records(r, Event("fallback.engaged", 0, root[r], "operational"))
    BY <1>4, RecordingDelivers DEF Engage
  <2>3. /\ Told(r, "fallback.engaged")' = Told(r, "fallback.engaged") \cup {0}
        /\ \A o : o # "fallback.engaged" => Told(r, o)' = Told(r, o)
    BY <2>2, AppendTells
  <2>4. /\ ~AskedFallback(r) /\ AskedFallback(r)'
        /\ Tried(r) = asked[r] /\ Tried(r)' = asked[r]
    BY <1>1, <2>1 DEF AskedFallback, Tried
  <2>5. /\ Told(r, "resolver.attempt")' = 1..asked[r] /\ Told(r, "resolver.declined")' = 1..asked[r]
        /\ Tells(r, "fallback.engaged")'
    BY <2>1, <2>3, <2>4 DEF TellsInv, Tells
  <2>6. QED BY <1>2, <2>1, <2>4, <2>5 DEF TellsInv
<1>5. CASE Decline(r)
  <2>1. /\ asked'[r] = asked[r] /\ pc[r] = "judge" /\ pc'[r] = "scan" /\ ~AskedFallback(r)
        /\ asked' = asked
    BY <1>5 DEF Decline, Declined, Goto, TypeOK
  <2>2. Records(r, Event("resolver.declined", asked[r], root[r], "diagnostic"))
    BY <1>5, RecordingDelivers DEF Decline
  <2>3. /\ Told(r, "resolver.declined")' = Told(r, "resolver.declined") \cup {asked[r]}
        /\ \A o : o # "resolver.declined" => Told(r, o)' = Told(r, o)
    BY <2>2, AppendTells
  <2>4. ~AskedFallback(r)' /\ Tried(r) = asked[r] /\ Tried(r)' = asked[r] /\ asked[r] > 0
    BY <2>1 DEF AskedFallback, Tried, AnswerInv
  <2>5. /\ Told(r, "resolver.attempt")' = 1..asked[r] /\ Told(r, "resolver.declined")' = 1..asked[r]
        /\ ~Tells(r, "fallback.engaged")'
    BY <1>1, <2>1, <2>3, <2>4, Intervals DEF TellsInv, Tells
  <2>6. QED BY <1>2, <2>1, <2>4, <2>5 DEF TellsInv
<1>6. QED BY <1>3, <1>4, <1>5

\* The two ways out of resolve, with their terminal events.
LEMMA EndTells ==
  ASSUME TypeOK, NEW r \in Resolutions, AnswerInv(r), TellsInv(r), Recorded(r),
         NotHandled(r) \/ Conclude(r)
  PROVE  TellsInv(r)'
<1>1. asked[r] \in Nat /\ Resolvers[r] \in Nat
  BY PipelinesAssumption DEF TypeOK
<1>2. asked' = asked /\ Left(r)' /\ pc'[r] = "left"
  BY DEF NotHandled, Conclude, Leave, Goto, Left, TypeOK
<1>3. (AskedFallback(r)' <=> AskedFallback(r)) /\ Tried(r)' = Tried(r)
  BY <1>2 DEF AskedFallback, Tried
<1>4. CASE NotHandled(r)
  <2>1. pc[r] = "scan" /\ asked[r] = Resolvers[r] /\ ~AskedFallback(r) /\ Tried(r) = asked[r]
    BY <1>1, <1>4 DEF NotHandled, AskedFallback, Tried
  <2>2. result'[r].status = "not_handled" /\ ~result'[r].fallback
    BY <1>4 DEF NotHandled, TypeOK
  <2>3. Records(r, Event("resolution.not_handled", 0, root[r], "activity"))
    BY <1>4, RecordingDelivers DEF NotHandled
  <2>4. \A o : o # "resolution.not_handled" => Told(r, o)' = Told(r, o)
    BY <2>3, AppendTells
  <2>5. events'[r][Len(events'[r])].op = "resolution.not_handled"
    BY <2>3, AppendTells DEF Event
  <2>6. Endings(r)' = {"resolution.not_handled"}
    <3>1. Endings(r) = {}
      BY <2>1 DEF TellsInv, Left
    <3>2. QED BY <2>3, <3>1, AppendEnds DEF Conclusions
  <2>7. Conclusion(r)' = {"resolution.not_handled"}
    <3>1. outcome'[r] = "returned"
      BY <1>4 DEF NotHandled, Leave, TypeOK
    <3>2. QED BY <2>2, <3>1 DEF Conclusion, Returned
  <2>8. Told(r, "resolver.declined")' = 1..Tried(r)'
    BY <1>3, <2>1, <2>4 DEF TellsInv
  <2>9. Ending(r)'
    BY <2>2, <2>5, <2>6, <2>7, <2>8 DEF Ending
  <2>10. QED BY <1>2, <1>3, <2>1, <2>4, <2>9 DEF TellsInv, Tells
<1>5. CASE Conclude(r)
  <2> DEFINE res == result[r]
  <2>1. pc[r] = "judge" /\ result' = result /\ ~Declined(r) /\ Judged(r) /\ asked[r] > 0
    BY <1>5 DEF Conclude, AnswerInv
  <2>2. outcome'[r] = IF answer[r] \in {"malformed", "base"} THEN "raised" ELSE "returned"
    BY <1>5 DEF Conclude, Leave, Escapes, TypeOK
  <2>3. /\ Told(r, "resolver.attempt") = 1..Tried(r)
        /\ Told(r, "resolver.declined") = 1..(IF AskedFallback(r) THEN Tried(r) ELSE Tried(r) - 1)
        /\ Tells(r, "fallback.engaged") <=> AskedFallback(r)
        /\ Endings(r) = {}
    BY <2>1 DEF TellsInv, Tried, Left
  <2>4. res.status = "not_handled" => AskedFallback(r)
    BY <2>1 DEF Declined
  <2>5. CASE res.status \in {"handled", "error"}
    <3>1. Records(r, Event(Terminal(res).op, res.by, root[r], Terminal(res).level))
      BY <1>5, <2>5, RecordingDelivers DEF Conclude
    <3>2. res \in ResultType /\ answer[r] \notin {"malformed", "base"}
      BY <2>1, <2>5 DEF TypeOK, NoResult, Judged
    <3>3. Terminal(res).op =
            IF res.status = "handled"
            THEN IF res.fallback THEN "fallback.handled" ELSE "resolver.handled"
            ELSE IF res.fallback THEN "fallback.error" ELSE "resolver.error"
      BY <2>5, <3>2 DEF Terminal, ResultType
    <3>4. /\ Terminal(res).op \notin {"resolver.attempt", "resolver.declined", "fallback.engaged"}
          /\ Terminal(res).op \in Conclusions
      BY <3>3 DEF Conclusions
    <3>5. Conclusion(r)' = {Terminal(res).op}
      BY <2>1, <2>2, <2>5, <3>2, <3>3 DEF Conclusion, Returned
    <3> HIDE DEF res
    <3>6. /\ Told(r, "resolver.attempt")' = Told(r, "resolver.attempt")
          /\ Told(r, "resolver.declined")' = Told(r, "resolver.declined")
          /\ Told(r, "fallback.engaged")' = Told(r, "fallback.engaged")
      BY <3>1, <3>4, AppendTells
    <3>7. events'[r][Len(events'[r])].op = Terminal(res).op
      BY <3>1, AppendTells DEF Event
    <3>8. Endings(r)' = {Terminal(res).op}
      BY <2>3, <3>1, <3>4, AppendEnds
    <3>9. Ending(r)'
      BY <1>3, <2>1, <2>3, <2>4, <3>5, <3>6, <3>7, <3>8 DEF Ending, res
    <3>10. QED BY <1>2, <1>3, <2>3, <3>6, <3>9 DEF TellsInv, Tells
  <2>6. CASE res.status \notin {"handled", "error"}
    <3>1. events' = events
      BY <1>5, <2>6 DEF Conclude
    <3>2. \A o : Told(r, o)' = Told(r, o) /\ (Tells(r, o)' <=> Tells(r, o))
      BY <3>1, SameEventsTell DEF Tells
    <3>3. outcome'[r] = "returned" =>
            res.status = "foreign" \/ (res.status = "not_handled" /\ res.fallback)
      BY <2>1, <2>2, <2>6 DEF Judged, Declined, AllAnswers
    <3>4. Conclusion(r)' = {}
      BY <2>1, <3>3 DEF Conclusion, Returned
    <3>5. Endings(r)' = {}
      BY <2>3, <3>2 DEF Endings
    <3>6. Ending(r)'
      BY <1>3, <2>1, <2>3, <2>4, <3>2, <3>4, <3>5 DEF Ending
    <3>7. QED BY <1>2, <1>3, <2>3, <3>2, <3>6 DEF TellsInv
  <2>7. QED BY <2>5, <2>6
<1>6. QED BY <1>4, <1>5

LEMMA TellsStep ==
  ASSUME TypeOK, NEW r \in Resolutions, AnswerInv(r), TellsInv(r), Recorded(r), ResolutionStep(r)
  PROVE  TellsInv(r)'
<1>1. CASE Attempt(r) \/ Engage(r) \/ Decline(r)
  BY <1>1, LoopTells
<1>2. CASE NotHandled(r) \/ Conclude(r)
  BY <1>2, EndTells
<1>3. CASE Resolve(r) \/ OpenSpan(r)
  <2>1. /\ events' = events /\ asked' = asked /\ outcome' = outcome /\ result' = result
        /\ pc'[r] = pc[r] \/ (pc[r] = "idle" /\ pc'[r] = "scan")
    BY <1>3 DEF Resolve, OpenSpan, Goto, TypeOK
  <2>2. QED BY <2>1, QuietKeeps
<1>4. ASSUME NEW a \in Answers[r], Answer(r, a) PROVE TellsInv(r)'
  <2>1. /\ events' = events /\ asked' = asked
        /\ pc[r] = "asking" /\ pc'[r] = "judge"
    BY <1>4 DEF Answer, InHandler, Goto, TypeOK
  <2>2. \A o : Told(r, o)' = Told(r, o) /\ (Tells(r, o)' <=> Tells(r, o))
    BY <2>1, SameEventsTell DEF Tells
  <2>3. Endings(r)' = Endings(r)
    BY <2>2 DEF Endings
  <2>4. QED BY <2>1, <2>2, <2>3 DEF TellsInv, Tried, AskedFallback, Left
<1>5. CASE CloseSpan(r)
  <2>1. /\ pc' = pc /\ pc[r] = "asking" /\ asked' = asked
    BY <1>5 DEF CloseSpan, InHandler
  <2>2. \A o : o \notin {"span.success", "span.error"} =>
          Told(r, o)' = Told(r, o) /\ (Tells(r, o)' <=> Tells(r, o))
    <3>1. \/ events' = events
          \/ \E op \in {"span.success", "span.error"}, level \in Levels :
               Records(r, Event(op, 0, span[r], level))
      <4>1. \/ UNCHANGED events
            \/ SafeEmit(r, Event("span.success", 0, span[r], "activity"))
            \/ \E severity \in Severities :
                 SafeEmit(r, Event("span.error", 0, span[r], EventLevel("activity", severity)))
        BY <1>5 DEF CloseSpan, SpanError
      <4>2. "activity" \in Levels /\ \A severity : EventLevel("activity", severity) \in Levels
        BY DEF Levels, EventLevel
      <4>3. QED BY <4>1, <4>2, RecordingDelivers
    <3>2. QED BY <3>1, SameEventsTell, AppendTells DEF Tells
  <2>3. Endings(r)' = Endings(r)
    BY <2>2 DEF Endings, Conclusions
  <2>4. QED BY <2>1, <2>2, <2>3 DEF TellsInv, Tried, AskedFallback, Left
<1>6. QED BY <1>1, <1>2, <1>3, <1>4, <1>5 DEF ResolutionStep, Pipeline, HandlerAnswers

LEMMA TellsInvariant == Spec => [](\A r \in Resolutions : Recorded(r) => TellsInv(r))
<1> DEFINE Inv == \A r \in Resolutions : Recorded(r) => TellsInv(r)
<1>1. Init => Inv
  <2> SUFFICES ASSUME Init, NEW r \in Resolutions PROVE TellsInv(r)
      OBVIOUS
  <2>1. asked[r] = 0 /\ Resolvers[r] \in Nat /\ pc[r] = "idle"
    BY PipelinesAssumption DEF Init
  <2>2. \A o : Told(r, o) = {}
    BY DEF Init, Told
  <2>3. 1..Tried(r) = {} /\ ~AskedFallback(r)
    BY <2>1 DEF Tried, AskedFallback
  <2>4. QED BY <2>1, <2>2, <2>3 DEF TellsInv, Tells, Left, Endings
<1>2. TypeOK /\ (\A r \in Resolutions : AnswerInv(r)) /\ Inv /\ [Next]_vars => Inv'
  <2> SUFFICES ASSUME TypeOK, \A r \in Resolutions : AnswerInv(r), Inv, [Next]_vars,
                      NEW d \in Resolutions, Recorded(d)
               PROVE  TellsInv(d)'
    BY DEF Recorded
  <2>1. TellsInv(d)
    OBVIOUS
  <2>2. CASE UNCHANGED vars
    <3>1. /\ events'[d] = events[d] /\ asked'[d] = asked[d] /\ outcome'[d] = outcome[d]
          /\ result'[d] = result[d] /\ pc'[d] = pc[d]
      BY <2>2 DEF vars
    <3>2. QED BY <2>1, <3>1, QuietKeeps
  <2>3. ASSUME NEW r \in Resolutions, ResolutionStep(r) PROVE TellsInv(d)'
    <3>1. CASE d = r
      BY <2>1, <2>3, <3>1, TellsStep
    <3>2. CASE d # r
      <4>1. SameAnswer(d) /\ events'[d] = events[d]
        BY <2>3, <3>2, OthersAnswer, OthersEvents
      <4>2. QED BY <2>1, <4>1, QuietKeeps DEF SameAnswer
    <3>3. QED BY <3>1, <3>2
  <2>4. QED BY <2>2, <2>3 DEF Next, ResolutionStep
<1>3. QED BY <1>1, <1>2, AnswerInvariant, TypeCorrect, PTL DEF Spec

\* The events of a resolution that was left, in whatever way, tell who was
\* asked, who declined, whether the fallback was engaged and what was returned.
THEOREM EventsTellTheResult == Spec => []TraceTellsTheResult
<1>1. (\A r \in Resolutions : Recorded(r) => TellsInv(r)) => TraceTellsTheResult
  <2> SUFFICES ASSUME NEW r \in Resolutions, TellsInv(r), Left(r)
               PROVE  LET tried == IF AskedFallback(r) THEN Resolvers[r] ELSE asked[r]
                      IN  /\ Told(r, "resolver.attempt") = 1..tried
                          /\ Told(r, "resolver.declined") =
                               IF result[r].status = "not_handled" \/ AskedFallback(r)
                               THEN 1..tried ELSE 1..(tried - 1)
                          /\ Tells(r, "fallback.engaged") <=> AskedFallback(r)
                          /\ {op \in Conclusions : Tells(r, op)} = Conclusion(r)
                          /\ Conclusion(r) # {} => events[r][Len(events[r])].op \in Conclusion(r)
    BY DEF TraceTellsTheResult, Recorded
  <2>1. QED BY DEF TellsInv, Ending, Endings, Tried
<1>2. QED BY <1>1, TellsInvariant, PTL

-----------------------------------------------------------------------------
(* What an operational host sees.                                          *)

\* Failures and fallbacks are never told below OPERATIONAL.
Escalations == {"fallback.engaged", "fallback.handled", "fallback.error", "resolver.error"}
Escalates(e) == e.op \in Escalations => e.level = "operational"

LevelInv == \A r \in Resolutions : \A i \in DOMAIN events[r] : Escalates(events[r][i])

LEMMA EventKeepsLevels ==
  ASSUME TypeOK, LevelInv, NEW r \in Resolutions,
         NEW op, NEW by, NEW context, NEW level, SafeEmit(r, Event(op, by, context, level)),
         op \in Escalations => level = "operational"
  PROVE  LevelInv'
<1> DEFINE e == Event(op, by, context, level)
<1>1. Escalates(e)
  BY DEF Escalates, Event
<1> HIDE DEF e
<1>2. events' = events \/ events' = [events EXCEPT ![r] = Append(events[r], e)]
  BY DEF SafeEmit, e
<1>3. CASE events' = events
  BY <1>3 DEF LevelInv
<1>4. CASE events' = [events EXCEPT ![r] = Append(events[r], e)]
  <2> SUFFICES ASSUME NEW d \in Resolutions, NEW i \in DOMAIN events'[d]
               PROVE  Escalates(events'[d][i])
    BY DEF LevelInv, Escalates
  <2>1. CASE d # r
    BY <1>4, <2>1 DEF LevelInv, TypeOK
  <2>2. CASE d = r
    <3>1. events[r] \in Seq(EventType) /\ events'[r] = Append(events[r], e)
      BY <1>4 DEF TypeOK
    <3>2. events'[r][i] = e \/ (i \in DOMAIN events[r] /\ events'[r][i] = events[r][i])
      BY <2>2, <3>1
    <3>3. QED BY <1>1, <2>2, <3>2 DEF LevelInv
  <2>3. QED BY <2>1, <2>2
<1>5. QED BY <1>2, <1>3, <1>4

LEMMA LevelStep ==
  ASSUME TypeOK, LevelInv, NEW r \in Resolutions, ResolutionStep(r)
  PROVE  LevelInv'
<1>1. UNCHANGED events => LevelInv'
  BY DEF LevelInv
<1>2. CASE Attempt(r)
  BY <1>2, EventKeepsLevels DEF Attempt, Escalations
<1>3. CASE Engage(r)
  BY <1>3, EventKeepsLevels DEF Engage
<1>4. CASE NotHandled(r)
  BY <1>4, EventKeepsLevels DEF NotHandled, Escalations
<1>5. CASE Decline(r)
  BY <1>5, EventKeepsLevels DEF Decline, Escalations
<1>6. CASE Conclude(r)
  <2> DEFINE res == result[r]
  <2>1. CASE res.status \in {"handled", "error"}
    <3>1. res \in ResultType
      BY <2>1 DEF TypeOK, NoResult
    <3>2. Terminal(res).op \in Escalations => Terminal(res).level = "operational"
      BY <2>1, <3>1 DEF Terminal, ResultType, Escalations
    <3>3. SafeEmit(r, Event(Terminal(res).op, res.by, root[r], Terminal(res).level))
      BY <1>6, <2>1 DEF Conclude
    <3> HIDE DEF res
    <3>4. QED BY <3>2, <3>3, EventKeepsLevels
  <2>2. CASE res.status \notin {"handled", "error"}
    BY <1>1, <1>6, <2>2 DEF Conclude
  <2>3. QED BY <2>1, <2>2
<1>7. CASE CloseSpan(r)
  BY <1>1, <1>7, EventKeepsLevels DEF CloseSpan, SpanError, Escalations
<1>8. CASE Resolve(r) \/ HandlerAnswers(r) \/ OpenSpan(r)
  BY <1>1, <1>8 DEF Resolve, HandlerAnswers, Answer, OpenSpan
<1>9. QED
  BY <1>2, <1>3, <1>4, <1>5, <1>6, <1>7, <1>8 DEF ResolutionStep, Pipeline

\* A host that keeps OPERATIONAL and above sees every use of the fallback, what
\* came of it, and every failure of a resolver.
THEOREM EscalationsAreRetained == Spec => []EscalationsRetained
<1>1. Init => LevelInv
  BY DEF Init, LevelInv
<1>2. TypeOK /\ LevelInv /\ [Next]_vars => LevelInv'
  <2>1. UNCHANGED vars /\ LevelInv => LevelInv'
    BY DEF vars, LevelInv
  <2>2. QED BY <2>1, LevelStep DEF Next, ResolutionStep
<1>3. LevelInv /\ (\A r \in Resolutions : Recorded(r) => TellsInv(r)) => EscalationsRetained
  <2>1. ASSUME LevelInv, NEW r \in Resolutions, NEW op \in Escalations, Tells(r, op)
        PROVE  Kept(r, op)
    <3>1. PICK i \in DOMAIN events[r] : events[r][i].op = op
      BY <2>1 DEF Tells, Told
    <3>2. events[r][i].level = "operational"
      BY <2>1, <3>1 DEF LevelInv, Escalates
    <3>3. Includes("operational", "operational")
      BY DEF Includes, Rank, Levels
    <3>4. QED BY <3>1, <3>2, <3>3 DEF Kept
  <2> SUFFICES ASSUME LevelInv, NEW r \in Resolutions, TellsInv(r), Left(r)
               PROVE  /\ AskedFallback(r) => Kept(r, "fallback.engaged")
                      /\ \A op \in Conclusion(r) \ {"resolver.handled", "resolution.not_handled"} :
                           Kept(r, op)
    BY DEF EscalationsRetained, Recorded
  <2>2. AskedFallback(r) => Kept(r, "fallback.engaged")
    BY <2>1 DEF TellsInv, Escalations
  <2>3. ASSUME NEW op \in Conclusion(r) \ {"resolver.handled", "resolution.not_handled"}
        PROVE  Kept(r, op)
    <3>1. op \in Conclusions /\ Tells(r, op)
      BY <2>3 DEF TellsInv, Ending, Endings
    <3>2. op \in Escalations
      BY <2>3, <3>1 DEF Conclusions, Escalations
    <3>3. QED BY <2>1, <3>1, <3>2
  <2>4. QED BY <2>2, <2>3
<1>4. QED BY <1>1, <1>2, <1>3, TellsInvariant, TypeCorrect, PTL DEF Spec
=============================================================================
