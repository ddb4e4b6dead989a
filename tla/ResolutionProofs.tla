--------------------------- MODULE ResolutionProofs ---------------------------
(***************************************************************************)
(* Proofs about Resolution for every set of resolutions and threads, every *)
(* nesting of pipelines and every number of resolvers.                     *)
(***************************************************************************)
EXTENDS ResolutionProperties, TLAPS

-----------------------------------------------------------------------------
(* Types.                                                                  *)

LEMMA RootIsContext ==
  ASSUME NEW r \in Resolutions
  PROVE  RootContext(<<"root", r, 0>>) \in ContextType
  BY DEF RootContext, ContextType, Ids

LEMMA HostTraceType == HostTrace \in [Threads -> ContextType]
<1>1. NoContext \in ContextType
  BY DEF NoContext, ContextType, Ids
<1>2. \A t \in Threads : HostContext(t) \in ContextType
  BY DEF HostContext, RootContext, ContextType, Ids
<1>3. QED BY <1>1, <1>2, TracingAssumption

LEMMA EventsGrow ==
  ASSUME TypeOK, NEW r \in Resolutions, NEW e \in EventType, SafeEmit(r, e)
  PROVE  events' \in [Resolutions -> Seq(EventType)]
<1>1. events' = events \/ events' = [events EXCEPT ![r] = Append(events[r], e)]
  BY DEF SafeEmit
<1>2. Append(events[r], e) \in Seq(EventType)
  BY DEF TypeOK
<1>3. QED BY <1>1, <1>2 DEF TypeOK

LEMMA EventHasType ==
  ASSUME NEW op \in Operations, NEW by \in Nat, NEW context \in ContextType, NEW level \in Levels
  PROVE  Event(op, by, context, level) \in EventType
  BY DEF Event, EventType

LEMMA ResultHasType ==
  ASSUME TypeOK, NEW r \in Resolutions, NEW a \in AllAnswers \ {"base"},
         NEW claims \in [fallback : BOOLEAN, by : {0, 1}]
  PROVE  ResultOf(r, a, claims) \in ResultType
  BY PipelinesAssumption DEF ResultOf, ResultType, AskedFallback, AllAnswers, TypeOK

LEMMA TypeStep == TypeOK /\ [Next]_vars => TypeOK'
<1> SUFFICES ASSUME TypeOK, [Next]_vars PROVE TypeOK'
    OBVIOUS
<1> USE DEF TypeOK, Goto, scopeVars
<1>1. ASSUME NEW r \in Resolutions, Resolve(r) PROVE TypeOK'
  <2>1. ContextCell(r) \in Threads /\ current[ContextCell(r)] \in ContextType
    BY ResolutionsAssumption DEF ContextCell
  <2>2. QED BY <1>1, <2>1, RootIsContext DEF Resolve, SetContext
<1>2. ASSUME NEW r \in Resolutions, Attempt(r) \/ Engage(r) PROVE TypeOK'
  <2>1. asked[r] + 1 \in Nat
    OBVIOUS
  <2>2. /\ Event("resolver.attempt", asked[r] + 1, root[r], "diagnostic") \in EventType
        /\ Event("fallback.engaged", 0, root[r], "operational") \in EventType
    BY <2>1, EventHasType DEF Levels, Operations
  <2>3. events' \in [Resolutions -> Seq(EventType)]
    BY <1>2, <2>2, EventsGrow DEF Attempt, Engage
  <2>4. Ask(r)
    BY <1>2 DEF Attempt, Engage
  <2>5. QED BY <2>1, <2>3, <2>4 DEF Ask
<1>3. ASSUME NEW r \in Resolutions, NotHandled(r) PROVE TypeOK'
  <2>1. Event("resolution.not_handled", 0, root[r], "activity") \in EventType
    BY EventHasType DEF Levels, Operations
  <2>2. events' \in [Resolutions -> Seq(EventType)]
    BY <1>3, <2>1, EventsGrow DEF NotHandled
  <2>3. [status |-> "not_handled", fallback |-> FALSE, by |-> 0] \in ResultType
    BY DEF ResultType
  <2>4. QED BY <1>3, <2>2, <2>3 DEF NotHandled, Leave, Restore, SetContext
<1>4. ASSUME NEW r \in Resolutions, NEW a \in Answers[r], Answer(r, a) PROVE TypeOK'
  <2>1. a \in AllAnswers
    BY PipelinesAssumption
  <2>2. result' \in [Resolutions -> ResultType \cup {NoResult}]
    <3>1. CASE a = "base"
      BY <1>4, <3>1 DEF Answer
    <3>2. CASE a # "base"
      <4>1. PICK claims \in [fallback : BOOLEAN, by : {0, 1}] :
              result' = [result EXCEPT ![r] = ResultOf(r, a, claims)]
        BY <1>4, <3>2 DEF Answer
      <4>2. ResultOf(r, a, claims) \in ResultType
        BY <2>1, <3>2, ResultHasType
      <4>3. QED BY <4>1, <4>2
    <3>3. QED BY <3>1, <3>2
  <2>3. QED BY <1>4, <2>1, <2>2 DEF Answer
<1>5. ASSUME NEW r \in Resolutions, Decline(r) PROVE TypeOK'
  <2>1. Event("resolver.declined", asked[r], root[r], "diagnostic") \in EventType
    BY EventHasType DEF Levels, Operations
  <2>2. events' \in [Resolutions -> Seq(EventType)]
    BY <1>5, <2>1, EventsGrow DEF Decline
  <2>3. QED BY <1>5, <2>2 DEF Decline
<1>6. ASSUME NEW r \in Resolutions, Conclude(r) PROVE TypeOK'
  <2> DEFINE res == result[r]
             final == Event(Terminal(res).op, res.by, root[r], Terminal(res).level)
  <2>1. ASSUME res.status \in {"handled", "error"} PROVE final \in EventType
    <3>1. res \in ResultType
      BY <2>1 DEF NoResult
    <3>2. Terminal(res).op \in Operations /\ Terminal(res).level \in Levels
      BY <2>1, <3>1 DEF Terminal, Levels, Operations, ResultType
    <3>3. res.by \in Nat
      BY <3>1 DEF ResultType
    <3>4. QED BY <3>2, <3>3, EventHasType
  <2>2. events' \in [Resolutions -> Seq(EventType)]
    BY <1>6, <2>1, EventsGrow DEF Conclude
  <2>3. QED BY <1>6, <2>2 DEF Conclude, Leave, Restore, SetContext
<1>7. ASSUME NEW r \in Resolutions, OpenSpan(r) PROVE TypeOK'
  <2> DEFINE child == ChildContext(current[ContextCell(r)], <<"span", r, spans[r] + 1>>)
  <2>1. current[ContextCell(r)] \in ContextType
    BY ResolutionsAssumption DEF ContextCell
  <2>2. <<"span", r, spans[r] + 1>> \in Ids
    BY <1>7, TracingAssumption DEF OpenSpan, Ids
  <2>3. child \in ContextType
    BY <2>1, <2>2 DEF ChildContext, ContextType
  <2>4. span' = [span EXCEPT ![r] = child] /\ current' = [current EXCEPT ![ContextCell(r)] = child]
    BY <1>7 DEF OpenSpan, SetContext
  <2>5. spans' = [spans EXCEPT ![r] = spans[r] + 1]
    BY <1>7 DEF OpenSpan
  <2> HIDE DEF child
  <2>6. /\ span' \in [Resolutions -> ContextType]
        /\ current' \in [Threads -> ContextType]
        /\ spans' \in [Resolutions -> Nat]
    <3> HIDE DEF TypeOK
    <3>1. span' \in [Resolutions -> ContextType]
      BY <2>3, <2>4 DEF TypeOK
    <3>2. current' \in [Threads -> ContextType]
      BY <2>3, <2>4 DEF TypeOK
    <3>3. spans' \in [Resolutions -> Nat]
      BY <2>5 DEF TypeOK
    <3>4. QED BY <3>1, <3>2, <3>3
  <2>7. UNCHANGED <<pc, asked, answer, result, outcome, root, token, events>>
    BY <1>7 DEF OpenSpan
  <2>8. spanToken' \in [Resolutions -> ContextType]
    BY <1>7, <2>1 DEF OpenSpan
  <2>9. QED BY <2>6, <2>7, <2>8
<1>8. ASSUME NEW r \in Resolutions, CloseSpan(r) PROVE TypeOK'
  <2>1. Event("span.success", 0, span[r], "activity") \in EventType
    BY EventHasType DEF Levels, Operations
  <2>2. ASSUME NEW severity \in Severities
        PROVE  Event("span.error", 0, span[r], EventLevel("activity", severity)) \in EventType
    BY EventHasType DEF EventLevel, Levels, Operations
  <2>3. events' \in [Resolutions -> Seq(EventType)]
    BY <1>8, <2>1, <2>2, EventsGrow DEF CloseSpan, SpanError
  <2>4. NoContext \in ContextType
    BY DEF NoContext, ContextType, Ids
  <2>5. spanToken[r] \in ContextType
    OBVIOUS
  <2>6. QED BY <1>8, <2>3, <2>4, <2>5 DEF CloseSpan, SetContext
<1>9. CASE UNCHANGED vars
  BY <1>9 DEF vars
<1>10. QED
  BY <1>1, <1>2, <1>3, <1>4, <1>5, <1>6, <1>7, <1>8, <1>9 DEF Next, Pipeline, HandlerAnswers

\* Type correctness holds from the start on, whatever the instance.
THEOREM TypeCorrect == Spec => []TypeOK
<1>1. Init => TypeOK
  BY HostTraceType DEF Init, TypeOK, NoContext, ContextType, Ids, NoResult
<1>2. QED BY <1>1, TypeStep, PTL DEF Spec

-----------------------------------------------------------------------------
(* Trace contexts: the resolutions in progress on a thread form a call     *)
(* stack, of which only the top runs, and every token holds the context    *)
(* of the scope below.                                                     *)

Active(r) == InProgress(r) /\ ~InNestedCall(r)
Scope(r) == IF SpanOpen(r) THEN span[r] ELSE root[r]
TopLevel(r) == Parent[r] = NoParent
SameThread(r, d) == ThreadOf[r] = ThreadOf[d]

StackInv ==
  /\ \A r \in Resolutions : InProgress(r) /\ ~TopLevel(r) => pc[Parent[r]] = "asking"
  /\ \A r, d \in Resolutions :
       Active(r) /\ Active(d) /\ SameThread(r, d) => r = d
  /\ \A r, d \in Resolutions :
       InProgress(r) /\ InProgress(d) /\ Parent[r] = Parent[d] /\ SameThread(r, d) => r = d

ScopeInv ==
  /\ \A r \in Resolutions : InProgress(r) =>
       token[r] = IF TopLevel(r) THEN HostTrace[ThreadOf[r]] ELSE Scope(Parent[r])
  /\ \A r \in Resolutions : SpanOpen(r) => pc[r] = "asking" /\ spanToken[r] = root[r]
  /\ \A r \in Resolutions : Active(r) => current[ThreadOf[r]] = Scope(r)
  /\ \A t \in Threads :
       (\A r \in Resolutions : ThreadOf[r] = t => ~InProgress(r)) => current[t] = HostTrace[t]

\* The three shapes of a step: r starts, goes on, or is left.
Starts(r) ==
  /\ ~InProgress(r) /\ pc' = [pc EXCEPT ![r] = "scan"]
  /\ IF TopLevel(r)
     THEN \A d \in Resolutions : SameThread(d, r) => ~InProgress(d)
     ELSE InHandler(Parent[r])
  /\ \E context \in ContextType :
        /\ root' = [root EXCEPT ![r] = context]
        /\ current' = [current EXCEPT ![ThreadOf[r]] = context]
  /\ token' = [token EXCEPT ![r] = current[ThreadOf[r]]]
  /\ UNCHANGED <<span, spanToken>>

GoesOn(r) ==
  /\ Active(r) /\ \E to \in {"scan", "asking", "judge"} : pc' = [pc EXCEPT ![r] = to]
  /\ UNCHANGED <<root, token>>
  /\ \/ spanToken' = spanToken /\ (SpanOpen(r)' => SpanOpen(r))
     \/ spanToken' = [spanToken EXCEPT ![r] = root[r]]
  /\ \/ UNCHANGED <<span, current>> /\ (SpanOpen(r) => pc'[r] = "asking")
     \/ /\ pc[r] = "asking" /\ pc' = pc
        /\ \E context \in ContextType :
              /\ span' = [span EXCEPT ![r] = context]
              /\ current' = [current EXCEPT ![ThreadOf[r]] =
                               IF context = NoContext THEN root[r] ELSE context]

IsLeft(r) ==
  /\ Active(r) /\ ~SpanOpen(r) /\ pc' = [pc EXCEPT ![r] = "left"]
  /\ UNCHANGED <<root, token, span, spanToken>>
  /\ current' = [current EXCEPT ![ThreadOf[r]] = token[r]]

\* Code outside a handler has no call under it and no span open.
LEMMA TopOfStack ==
  ASSUME TypeOK, StackInv, ScopeInv, NEW r \in Resolutions, pc[r] \in {"scan", "judge"}
  PROVE  Active(r) /\ ~SpanOpen(r)
<1>1. InProgress(r) /\ pc[r] # "asking"
  BY DEF InProgress
<1>2. ~SpanOpen(r)
  BY <1>1 DEF ScopeInv
<1>3. ~InNestedCall(r)
  <2> SUFFICES ASSUME NEW d \in Resolutions, Parent[d] = r, InProgress(d) PROVE FALSE
      BY DEF InNestedCall
  <2>1. ~TopLevel(d)
    BY ResolutionsAssumption DEF TopLevel
  <2>2. pc[Parent[d]] = "asking"
    BY <2>1 DEF StackInv
  <2>3. QED BY <1>1, <2>2
<1>4. QED BY <1>1, <1>2, <1>3 DEF Active

LEMMA StepShape ==
  ASSUME TypeOK, StackInv, ScopeInv, NEW r \in Resolutions,
         Resolve(r) \/ Pipeline(r) \/ HandlerAnswers(r) \/ OpenSpan(r) \/ CloseSpan(r)
  PROVE  Starts(r) \/ GoesOn(r) \/ IsLeft(r)
<1>1. ContextCell(r) = ThreadOf[r] /\ ThreadOf[r] \in Threads
  BY ResolutionsAssumption DEF ContextCell
<1>2. InHandler(r) => Active(r) /\ pc[r] = "asking"
  BY DEF InHandler, Active, InProgress
<1>3. CASE Resolve(r)
  <2> DEFINE context == IF current[ThreadOf[r]] = NoContext
                        THEN RootContext(<<"root", r, 0>>) ELSE current[ThreadOf[r]]
  <2>1. context \in ContextType
    BY <1>1, RootIsContext DEF TypeOK
  <2>2. root' = [root EXCEPT ![r] = context] /\ current' = [current EXCEPT ![ThreadOf[r]] = context]
    BY <1>1, <1>3 DEF Resolve, SetContext
  <2>3. token' = [token EXCEPT ![r] = current[ThreadOf[r]]] /\ UNCHANGED <<span, spanToken>>
    BY <1>1, <1>3 DEF Resolve
  <2> HIDE DEF context
  <2>4. ~InProgress(r) /\ pc' = [pc EXCEPT ![r] = "scan"]
    BY <1>3 DEF Resolve, Goto, InProgress
  <2>5. IF TopLevel(r) THEN \A d \in Resolutions : SameThread(d, r) => ~InProgress(d)
        ELSE InHandler(Parent[r])
    BY <1>3 DEF Resolve, TopLevel, SameThread
  <2>6. QED BY <2>1, <2>2, <2>3, <2>4, <2>5 DEF Starts
<1>4. CASE Attempt(r) \/ Engage(r) \/ Decline(r)
  <2>1. Active(r) /\ ~SpanOpen(r)
    BY <1>4, TopOfStack DEF Attempt, Engage, Decline
  <2>2. UNCHANGED scopeVars
    BY <1>4 DEF Attempt, Engage, Decline, Ask
  <2>3. QED
    BY <1>4, <2>1, <2>2 DEF GoesOn, Attempt, Engage, Decline, Ask, Goto, scopeVars, SpanOpen
<1>5. CASE NotHandled(r) \/ Conclude(r)
  <2>1. Active(r) /\ ~SpanOpen(r)
    BY <1>5, TopOfStack DEF NotHandled, Conclude
  <2>2. QED
    BY <1>1, <1>5, <2>1 DEF IsLeft, NotHandled, Conclude, Leave, Restore, SetContext, Goto
<1>6. CASE HandlerAnswers(r)
  BY <1>2, <1>6 DEF GoesOn, HandlerAnswers, Answer, Goto, scopeVars, SpanOpen
<1>7. CASE OpenSpan(r)
  <2> DEFINE child == ChildContext(current[ThreadOf[r]], <<"span", r, spans[r] + 1>>)
  <2>1. child \in ContextType /\ child # NoContext
    <3>1. current[ThreadOf[r]] \in ContextType
      BY <1>1 DEF TypeOK
    <3>2. <<"span", r, spans[r] + 1>> \in Ids /\ <<"span", r, spans[r] + 1>> # <<>>
      BY <1>7, TracingAssumption DEF OpenSpan, Ids, TypeOK
    <3>3. QED BY <3>1, <3>2 DEF ChildContext, ContextType, NoContext
  <2>2. span' = [span EXCEPT ![r] = child] /\ current' = [current EXCEPT ![ThreadOf[r]] = child]
    BY <1>1, <1>7 DEF OpenSpan, SetContext
  <2> HIDE DEF child
  <2>3. Active(r) /\ pc[r] = "asking" /\ pc' = pc /\ UNCHANGED <<root, token>>
    BY <1>2, <1>7 DEF OpenSpan
  <2>4. pc' = [pc EXCEPT ![r] = "asking"]
    BY <2>3 DEF TypeOK
  <2>5. spanToken' = [spanToken EXCEPT ![r] = root[r]]
    <3>1. ~SpanOpen(r) /\ spanToken' = [spanToken EXCEPT ![r] = current[ThreadOf[r]]]
      BY <1>1, <1>7 DEF OpenSpan
    <3>2. current[ThreadOf[r]] = root[r]
      BY <2>3, <3>1 DEF ScopeInv, Scope
    <3>3. QED BY <3>1, <3>2
  <2>6. QED BY <2>1, <2>2, <2>3, <2>4, <2>5 DEF GoesOn
<1>8. CASE CloseSpan(r)
  <2>1. NoContext \in ContextType
    BY DEF NoContext, ContextType, Ids
  <2>2. /\ span' = [span EXCEPT ![r] = NoContext]
        /\ current' = [current EXCEPT ![ThreadOf[r]] = root[r]]
    <3>1. SpanOpen(r) /\ spanToken[r] = root[r]
      BY <1>8 DEF CloseSpan, ScopeInv
    <3>2. QED BY <1>1, <1>8, <3>1 DEF CloseSpan, SetContext
  <2>3. Active(r) /\ pc[r] = "asking" /\ pc' = pc /\ UNCHANGED <<root, token>>
    BY <1>2, <1>8 DEF CloseSpan
  <2>4. pc' = [pc EXCEPT ![r] = "asking"]
    BY <2>3 DEF TypeOK
  <2>5. spanToken' = spanToken /\ SpanOpen(r)
    BY <1>8 DEF CloseSpan
  <2>6. QED BY <2>1, <2>2, <2>3, <2>4, <2>5 DEF GoesOn
<1>9. QED BY <1>3, <1>4, <1>5, <1>6, <1>7, <1>8 DEF Pipeline

\* Who is in progress, in a nested call and on top after each shape of step.
LEMMA AfterStart ==
  ASSUME TypeOK, NEW r \in Resolutions, Starts(r), NEW d \in Resolutions
  PROVE  /\ InProgress(d)' <=> InProgress(d) \/ d = r
         /\ InNestedCall(d)' <=> InNestedCall(d) \/ d = Parent[r]
         /\ pc'[d] = IF d = r THEN "scan" ELSE pc[d]
<1>1. \A e \in Resolutions : pc'[e] = IF e = r THEN "scan" ELSE pc[e]
  BY DEF TypeOK, Starts
<1>2. \A e \in Resolutions : InProgress(e)' <=> InProgress(e) \/ e = r
  BY <1>1 DEF InProgress
<1>3. QED BY <1>1, <1>2 DEF InNestedCall

LEMMA AfterStep ==
  ASSUME TypeOK, NEW r \in Resolutions, GoesOn(r), NEW d \in Resolutions
  PROVE  /\ InProgress(d)' <=> InProgress(d)
         /\ InNestedCall(d)' <=> InNestedCall(d)
         /\ d # r => pc'[d] = pc[d]
<1>1. \A e \in Resolutions : e # r => pc'[e] = pc[e]
  BY DEF TypeOK, GoesOn
<1>2. InProgress(r) /\ InProgress(r)'
  BY DEF TypeOK, GoesOn, Active, InProgress
<1>3. \A e \in Resolutions : InProgress(e)' <=> InProgress(e)
  BY <1>1, <1>2 DEF InProgress
<1>4. QED BY <1>1, <1>3 DEF InNestedCall

LEMMA AfterLeave ==
  ASSUME TypeOK, NEW r \in Resolutions, IsLeft(r), NEW d \in Resolutions
  PROVE  /\ InProgress(d)' <=> InProgress(d) /\ d # r
         /\ d # Parent[r] => (InNestedCall(d)' <=> InNestedCall(d))
         /\ d # r => pc'[d] = pc[d]
<1>1. \A e \in Resolutions : pc'[e] = IF e = r THEN "left" ELSE pc[e]
  BY DEF TypeOK, IsLeft
<1>2. \A e \in Resolutions : InProgress(e)' <=> InProgress(e) /\ e # r
  BY <1>1 DEF InProgress
<1>3. QED BY <1>1, <1>2 DEF InNestedCall

\* A resolution with a parent started under its handler, on its thread.
LEMMA ParentFacts ==
  ASSUME NEW r \in Resolutions, ~TopLevel(r)
  PROVE  Parent[r] \in Resolutions /\ SameThread(Parent[r], r)
  BY ResolutionsAssumption DEF TopLevel, SameThread

\* The call stack grows and shrinks at its top only.
LEMMA StackStep ==
  ASSUME TypeOK, StackInv, NEW r \in Resolutions, Starts(r) \/ GoesOn(r) \/ IsLeft(r)
  PROVE  StackInv'
<1> SUFFICES ASSUME NEW d \in Resolutions, NEW e \in Resolutions
             PROVE  /\ InProgress(d)' /\ ~TopLevel(d) => pc'[Parent[d]] = "asking"
                    /\ Active(d)' /\ Active(e)' /\ SameThread(d, e) => d = e
                    /\ InProgress(d)' /\ InProgress(e)' /\ Parent[d] = Parent[e]
                         /\ SameThread(d, e) => d = e
  BY DEF StackInv, TopLevel, SameThread
<1>1. /\ InProgress(d) /\ ~TopLevel(d) => pc[Parent[d]] = "asking"
      /\ Active(d) /\ Active(e) /\ SameThread(d, e) => d = e
      /\ InProgress(d) /\ InProgress(e) /\ Parent[d] = Parent[e] /\ SameThread(d, e) => d = e
  BY DEF StackInv
<1>2. CASE Starts(r)
  <2>1. CASE TopLevel(r)
    <3>1. \A f \in Resolutions : SameThread(f, r) => ~InProgress(f)
      BY <1>2, <2>1 DEF Starts
    <3>2. ~TopLevel(d) /\ InProgress(d) => Parent[d] # r
      BY <3>1, ParentFacts DEF SameThread
    <3>3. QED
      BY <1>1, <1>2, <2>1, <3>1, <3>2, AfterStart, ParentFacts
         DEF Active, TopLevel, SameThread
  <2>2. CASE ~TopLevel(r)
    <3>1. InHandler(Parent[r]) /\ Active(Parent[r]) /\ pc[Parent[r]] = "asking" /\ Parent[r] # r
      BY <1>2, <2>2 DEF Starts, InHandler, Active, InProgress
    <3>2. \A f \in Resolutions : InProgress(f) => Parent[f] # Parent[r]
      BY <3>1 DEF InHandler, InNestedCall
    <3>3. \A f \in Resolutions : Active(f) /\ SameThread(f, r) => f = Parent[r]
      BY <2>2, <3>1, ParentFacts DEF StackInv, SameThread
    <3>4. ~TopLevel(d) => Parent[d] \in Resolutions
      BY ParentFacts
    <3>5. InProgress(d)' /\ ~TopLevel(d) => pc'[Parent[d]] = "asking"
      <4>1. CASE d = r
        BY <1>2, <3>1, <3>4, <4>1, AfterStart
      <4>2. CASE d # r
        <5>1. InProgress(d)' => InProgress(d)
          BY <1>2, <4>2, AfterStart
        <5>2. pc[r] # "asking"
          BY <1>2 DEF Starts, InProgress
        <5>3. QED BY <1>1, <1>2, <3>4, <5>1, <5>2, AfterStart
      <4>3. QED BY <4>1, <4>2
    <3>6. Active(d)' /\ Active(e)' /\ SameThread(d, e) => d = e
      <4>1. ASSUME NEW f \in Resolutions, Active(f)', f # r PROVE Active(f) /\ f # Parent[r]
        BY <1>2, <4>1, AfterStart DEF Active
      <4>2. QED BY <1>1, <3>3, <4>1 DEF SameThread
    <3>7. InProgress(d)' /\ InProgress(e)' /\ Parent[d] = Parent[e] /\ SameThread(d, e) => d = e
      BY <1>1, <1>2, <3>2, AfterStart
    <3>8. QED BY <3>5, <3>6, <3>7
  <2>3. QED BY <2>1, <2>2
<1>3. CASE GoesOn(r)
  <2>1. InProgress(d) => Parent[d] # r
    BY <1>3 DEF GoesOn, Active, InNestedCall
  <2>2. QED BY <1>1, <1>3, <2>1, AfterStep, ParentFacts DEF Active
<1>4. CASE IsLeft(r)
  <2>1. InProgress(d) => Parent[d] # r
    BY <1>4 DEF IsLeft, Active, InNestedCall
  <2>2. \A f \in Resolutions : Active(f) /\ SameThread(f, r) => f = r
    BY <1>4 DEF IsLeft, StackInv, SameThread
  <2>3. ASSUME NEW f \in Resolutions, Active(f)', SameThread(f, r) PROVE f = Parent[r]
    BY <1>4, <2>2, <2>3, AfterLeave DEF Active
  <2>4. ASSUME NEW f \in Resolutions, Active(f)', ~SameThread(f, r) PROVE Active(f)
    <3>1. f # Parent[r]
      BY <2>4, ParentFacts, ResolutionsAssumption DEF TopLevel
    <3>2. QED BY <1>4, <2>4, <3>1, AfterLeave DEF Active
  <2>5. Active(d)' /\ Active(e)' /\ SameThread(d, e) => d = e
    BY <1>1, <2>3, <2>4 DEF SameThread
  <2>6. QED BY <1>1, <1>4, <2>1, <2>5, AfterLeave, ParentFacts
<1>5. QED BY <1>2, <1>3, <1>4

\* Each scope keeps its context until it is closed, and hands it back.
LEMMA ScopeStep ==
  ASSUME TypeOK, StackInv, ScopeInv, NEW r \in Resolutions, Starts(r) \/ GoesOn(r) \/ IsLeft(r)
  PROVE  ScopeInv'
<1> SUFFICES ASSUME NEW d \in Resolutions, NEW t \in Threads
             PROVE  /\ InProgress(d)' =>
                          token'[d] = IF TopLevel(d) THEN HostTrace[ThreadOf[d]]
                                      ELSE Scope(Parent[d])'
                    /\ SpanOpen(d)' => pc'[d] = "asking" /\ spanToken'[d] = root'[d]
                    /\ Active(d)' => current'[ThreadOf[d]] = Scope(d)'
                    /\ (\A e \in Resolutions : ThreadOf[e] = t => ~InProgress(e)')
                          => current'[t] = HostTrace[t]
  <2>1. ThreadOf[r] \in Threads
    BY ResolutionsAssumption
  <2>2. QED BY <2>1 DEF ScopeInv, TopLevel
<1>1. /\ InProgress(d) =>
            token[d] = IF TopLevel(d) THEN HostTrace[ThreadOf[d]] ELSE Scope(Parent[d])
      /\ SpanOpen(d) => pc[d] = "asking" /\ spanToken[d] = root[d]
      /\ Active(d) => current[ThreadOf[d]] = Scope(d)
      /\ (\A e \in Resolutions : ThreadOf[e] = t => ~InProgress(e)) => current[t] = HostTrace[t]
  BY DEF ScopeInv
<1>2. ThreadOf \in [Resolutions -> Threads]
  BY ResolutionsAssumption
<1>3. CASE Starts(r)
  <2>1. \A e \in Resolutions : e # r => Scope(e)' = Scope(e)
    BY <1>3 DEF Starts, Scope, SpanOpen, TypeOK
  <2>2. ~SpanOpen(r) /\ ~SpanOpen(r)' /\ (SpanOpen(d)' <=> SpanOpen(d))
    BY <1>3 DEF Starts, ScopeInv, SpanOpen, InProgress
  <2>3. Scope(r)' = current'[ThreadOf[r]]
    BY <1>2, <1>3, <2>2 DEF Starts, Scope, TypeOK
  <2>4. InProgress(d)' => token'[d] = IF TopLevel(d) THEN HostTrace[ThreadOf[d]] ELSE Scope(Parent[d])'
    <3>1. CASE d # r
      <4>1. InProgress(d)' => InProgress(d) /\ token'[d] = token[d]
        BY <1>3, <3>1, AfterStart DEF Starts, TypeOK
      <4>2. InProgress(d) /\ ~TopLevel(d) => Parent[d] # r
        BY <1>3 DEF Starts, StackInv, InProgress
      <4>3. QED BY <1>1, <2>1, <4>1, <4>2, ParentFacts
    <3>2. CASE d = r
      <4>1. token'[r] = current[ThreadOf[r]]
        BY <1>3 DEF Starts, TypeOK
      <4>2. CASE TopLevel(r)
        BY <1>2, <1>3, <3>2, <4>1, <4>2 DEF Starts, ScopeInv, SameThread
      <4>3. CASE ~TopLevel(r)
        <5>1. InHandler(Parent[r]) /\ Active(Parent[r]) /\ Parent[r] # r
          BY <1>3, <4>3 DEF Starts, InHandler, Active, InProgress
        <5>2. current[ThreadOf[r]] = Scope(Parent[r])
          BY <4>3, <5>1, ParentFacts DEF ScopeInv, SameThread
        <5>3. QED BY <2>1, <3>2, <4>1, <4>3, <5>1, <5>2, ParentFacts
      <4>4. QED BY <4>2, <4>3
    <3>3. QED BY <3>1, <3>2
  <2>5. SpanOpen(d)' => pc'[d] = "asking" /\ spanToken'[d] = root'[d]
    <3>1. SpanOpen(d)' => d # r /\ SpanOpen(d)
      BY <2>2
    <3>2. d # r => root'[d] = root[d] /\ spanToken' = spanToken
      BY <1>3 DEF Starts, TypeOK
    <3>3. QED BY <1>1, <1>3, <3>1, <3>2, AfterStart
  <2>6. Active(d)' => current'[ThreadOf[d]] = Scope(d)'
    <3>1. CASE d = r
      BY <2>3, <3>1
    <3>2. CASE d # r
      <4>1. Active(d)' => Active(d) /\ d # Parent[r]
        BY <1>3, <3>2, AfterStart DEF Active
      <4>2. Active(d) /\ d # Parent[r] => ~SameThread(d, r)
        <5>1. CASE TopLevel(r)
          BY <1>3, <5>1 DEF Starts, Active
        <5>2. CASE ~TopLevel(r)
          <6>1. Active(Parent[r])
            BY <1>3, <5>2 DEF Starts, InHandler, Active, InProgress
          <6>2. QED BY <5>2, <6>1, ParentFacts DEF StackInv, SameThread
        <5>3. QED BY <5>1, <5>2
      <4>3. ~SameThread(d, r) => current'[ThreadOf[d]] = current[ThreadOf[d]]
        BY <1>2, <1>3 DEF Starts, SameThread, TypeOK
      <4>4. QED BY <1>1, <2>1, <3>2, <4>1, <4>2, <4>3
    <3>3. QED BY <3>1, <3>2
  <2>7. (\A e \in Resolutions : ThreadOf[e] = t => ~InProgress(e)') => current'[t] = HostTrace[t]
    <3>1. CASE ThreadOf[r] = t
      BY <1>3, <3>1, AfterStart
    <3>2. CASE ThreadOf[r] # t
      <4>1. current'[t] = current[t]
        BY <1>2, <1>3, <3>2 DEF Starts, TypeOK
      <4>2. QED BY <1>1, <1>3, <4>1, AfterStart
    <3>3. QED BY <3>1, <3>2
  <2>8. QED BY <2>4, <2>5, <2>6, <2>7
<1>4. CASE GoesOn(r)
  <2>1. Active(r) /\ InProgress(r) /\ ThreadOf[r] \in Threads
    BY <1>2, <1>4 DEF GoesOn, Active
  <2>2. UNCHANGED <<root, token>>
    BY <1>4 DEF GoesOn
  <2>3. \A e \in Resolutions : e # r => Scope(e)' = Scope(e) /\ (SpanOpen(e)' <=> SpanOpen(e))
    BY <1>4 DEF GoesOn, Scope, SpanOpen, TypeOK
  <2>4. Scope(r)' = current'[ThreadOf[r]] /\ (SpanOpen(r)' => pc'[r] = "asking")
    <3>1. CASE UNCHANGED <<span, current>> /\ (SpanOpen(r) => pc'[r] = "asking")
      BY <2>1, <2>2, <3>1 DEF ScopeInv, Scope, SpanOpen
    <3>2. ASSUME pc[r] = "asking", pc' = pc, NEW context \in ContextType,
                 span' = [span EXCEPT ![r] = context],
                 current' = [current EXCEPT ![ThreadOf[r]] =
                              IF context = NoContext THEN root[r] ELSE context]
          PROVE  Scope(r)' = current'[ThreadOf[r]] /\ (SpanOpen(r)' => pc'[r] = "asking")
      BY <2>1, <2>2, <3>2 DEF Scope, SpanOpen, TypeOK
    <3>3. QED BY <1>4, <3>1, <3>2 DEF GoesOn
  <2>5. \A u \in Threads : u # ThreadOf[r] => current'[u] = current[u]
    BY <1>4, <2>1 DEF GoesOn, TypeOK
  <2>6. InProgress(d) /\ ~TopLevel(d) => Parent[d] # r
    BY <2>1 DEF Active, InNestedCall
  <2>7. Active(d)' <=> Active(d)
    BY <1>4, AfterStep DEF Active
  <2>8. Active(d) /\ ThreadOf[d] = ThreadOf[r] => d = r
    BY <2>1 DEF StackInv, SameThread
  <2>9. Active(d)' => current'[ThreadOf[d]] = Scope(d)'
    BY <1>1, <1>2, <2>3, <2>4, <2>5, <2>7, <2>8
  <2>10. InProgress(d)' => token'[d] = IF TopLevel(d) THEN HostTrace[ThreadOf[d]] ELSE Scope(Parent[d])'
    BY <1>1, <1>4, <2>2, <2>3, <2>6, AfterStep, ParentFacts
  <2>11. SpanOpen(d)' => pc'[d] = "asking" /\ spanToken'[d] = root'[d]
    <3>1. CASE d # r
      <4>1. spanToken'[d] = spanToken[d] /\ root'[d] = root[d]
        BY <1>4, <2>2, <3>1 DEF GoesOn, TypeOK
      <4>2. QED BY <1>1, <1>4, <2>3, <3>1, <4>1, AfterStep
    <3>2. CASE d = r
      <4>1. SpanOpen(r)' => spanToken'[r] = root'[r]
        BY <1>1, <1>4, <2>2, <3>2 DEF GoesOn, TypeOK
      <4>2. QED BY <2>4, <3>2, <4>1
    <3>3. QED BY <3>1, <3>2
  <2>12. (\A e \in Resolutions : ThreadOf[e] = t => ~InProgress(e)') => current'[t] = HostTrace[t]
    BY <1>1, <1>4, <2>1, <2>5, AfterStep
  <2>13. QED BY <2>9, <2>10, <2>11, <2>12
<1>5. CASE IsLeft(r)
  <2>1. Active(r) /\ InProgress(r) /\ ~SpanOpen(r) /\ ThreadOf[r] \in Threads
    BY <1>2, <1>5 DEF IsLeft, Active
  <2>2. UNCHANGED <<root, token, span, spanToken>>
    BY <1>5 DEF IsLeft
  <2>3. \A e \in Resolutions : Scope(e)' = Scope(e) /\ (SpanOpen(e)' <=> SpanOpen(e))
    BY <2>2 DEF Scope, SpanOpen
  <2>4. current'[ThreadOf[r]] = token[r]
    BY <1>5, <2>1 DEF IsLeft, TypeOK
  <2>5. \A u \in Threads : u # ThreadOf[r] => current'[u] = current[u]
    BY <1>5, <2>1 DEF IsLeft, TypeOK
  <2>6. InProgress(d)' => token'[d] = IF TopLevel(d) THEN HostTrace[ThreadOf[d]] ELSE Scope(Parent[d])'
    BY <1>1, <1>5, <2>2, <2>3, AfterLeave, ParentFacts
  <2>7. SpanOpen(d)' => pc'[d] = "asking" /\ spanToken'[d] = root'[d]
    BY <1>1, <1>5, <2>1, <2>2, <2>3, AfterLeave
  <2>8. Active(d)' => current'[ThreadOf[d]] = Scope(d)'
    <3>1. CASE d = Parent[r]
      <4>1. ~TopLevel(r) /\ SameThread(d, r)
        BY <3>1, ParentFacts, ResolutionsAssumption DEF TopLevel
      <4>2. token[r] = Scope(d)
        BY <2>1, <3>1, <4>1 DEF ScopeInv
      <4>3. QED BY <2>3, <2>4, <4>1, <4>2 DEF SameThread
    <3>2. CASE d # Parent[r]
      <4>1. Active(d)' => Active(d) /\ d # r
        BY <1>5, <3>2, AfterLeave DEF Active
      <4>2. Active(d) /\ d # r => ThreadOf[d] # ThreadOf[r]
        BY <2>1 DEF StackInv, SameThread
      <4>3. QED BY <1>1, <1>2, <2>3, <2>5, <4>1, <4>2
    <3>3. QED BY <3>1, <3>2
  <2>9. (\A e \in Resolutions : ThreadOf[e] = t => ~InProgress(e)') => current'[t] = HostTrace[t]
    <3>1. CASE ThreadOf[r] = t
      <4>1. ~TopLevel(r) => InProgress(Parent[r])' /\ ThreadOf[Parent[r]] = t
        <5>1. ~TopLevel(r) => pc[Parent[r]] = "asking" /\ Parent[r] # r
          BY <2>1 DEF StackInv, Active, InNestedCall
        <5>2. QED BY <1>5, <3>1, <5>1, AfterLeave, ParentFacts DEF SameThread, InProgress
      <4>2. TopLevel(r) => token[r] = HostTrace[t]
        BY <2>1, <3>1 DEF ScopeInv
      <4>3. QED BY <2>4, <3>1, <4>1, <4>2, ParentFacts
    <3>2. CASE ThreadOf[r] # t
      BY <1>1, <1>5, <2>5, <3>2, AfterLeave
    <3>3. QED BY <3>1, <3>2
  <2>10. QED BY <2>6, <2>7, <2>8, <2>9
<1>6. QED BY <1>3, <1>4, <1>5

LEMMA StackAndScope == Spec => [](StackInv /\ ScopeInv)
<1>1. Init => StackInv /\ ScopeInv
  BY TracingAssumption DEF Init, StackInv, ScopeInv, Active, InProgress, SpanOpen
<1>2. TypeOK /\ StackInv /\ ScopeInv /\ [Next]_vars => (StackInv /\ ScopeInv)'
  <2>1. CASE UNCHANGED vars
    BY <2>1 DEF vars, scopeVars, StackInv, ScopeInv, Active, InProgress, InNestedCall, Scope, SpanOpen
  <2>2. QED BY <2>1, StepShape, StackStep, ScopeStep DEF Next
<1>3. QED BY <1>1, <1>2, TypeCorrect, PTL DEF Spec

\* However deep resolutions and spans nest and however they are left, code
\* runs in the context of its own innermost scope, and hosts get theirs back.
THEOREM ContextsAreRestored == Spec => []ContextRestored
<1>1. StackInv /\ ScopeInv => ContextRestored
  BY DEF StackInv, ScopeInv, ContextRestored, Active, Scope
<1>2. QED BY <1>1, StackAndScope, PTL

-----------------------------------------------------------------------------
(* The answer of a resolution and the contract.                            *)

\* The result made of the last answer.
Judged(r) ==
  \/ answer[r] = "base" /\ result[r] = NoResult
  \/ /\ answer[r] \in AllAnswers \ {"base"}
     /\ result[r].status = IF answer[r] \in {"exception", "invalid"} THEN "error" ELSE answer[r]
     /\ result[r].fallback = AskedFallback(r)
     /\ ~AskedFallback(r) => result[r].by = asked[r]

AllDeclined(r) == asked[r] = 0 \/ answer[r] = "not_handled"

AnswerInv(r) ==
  /\ asked[r] <= Contract!Askable(r)
  /\ pc[r] = "idle" => asked[r] = 0 /\ answer[r] = "none"
  /\ pc[r] = "scan" => asked[r] <= Resolvers[r] /\ AllDeclined(r)
  /\ pc[r] = "asking" => asked[r] > 0 /\ answer[r] = "none"
  /\ pc[r] = "judge" => asked[r] > 0 /\ Judged(r)
  /\ pc[r] = "left" =>
       \/ outcome[r] = "raised" /\ answer[r] \in {"malformed", "base"}
       \/ outcome[r] = "returned" /\ answer[r] \notin {"malformed", "base"} /\ asked[r] > 0 /\ Judged(r)
       \/ /\ outcome[r] = "returned" /\ result[r].status = "not_handled" /\ ~result[r].fallback
          /\ asked[r] = Contract!Askable(r) /\ ~HasFallback[r] /\ AllDeclined(r)

SameAnswer(r) ==
  /\ pc'[r] = pc[r] /\ asked'[r] = asked[r] /\ answer'[r] = answer[r]
  /\ result'[r] = result[r] /\ outcome'[r] = outcome[r]

ResolutionStep(r) ==
  Resolve(r) \/ Pipeline(r) \/ HandlerAnswers(r) \/ OpenSpan(r) \/ CloseSpan(r)

LEMMA OthersAnswer ==
  ASSUME TypeOK, NEW r \in Resolutions, NEW d \in Resolutions, d # r, ResolutionStep(r)
  PROVE  SameAnswer(d)
<1> USE DEF TypeOK, SameAnswer, Goto
<1>1. CASE Resolve(r) \/ OpenSpan(r) \/ CloseSpan(r)
  BY <1>1 DEF Resolve, OpenSpan, CloseSpan
<1>2. CASE Attempt(r) \/ Engage(r) \/ Decline(r)
  BY <1>2 DEF Attempt, Engage, Decline, Ask
<1>3. CASE NotHandled(r) \/ Conclude(r)
  BY <1>3 DEF NotHandled, Conclude, Leave
<1>4. CASE HandlerAnswers(r)
  BY <1>4 DEF HandlerAnswers, Answer
<1>5. QED BY <1>1, <1>2, <1>3, <1>4 DEF ResolutionStep, Pipeline

LEMMA SameAnswerKeeps ==
  ASSUME NEW r \in Resolutions, AnswerInv(r), SameAnswer(r)
  PROVE  AnswerInv(r)'
  BY DEF SameAnswer, AnswerInv, Judged, AllDeclined, AskedFallback, Contract!Askable

\* Where each handler's answer takes the resolution.
LEMMA AnswerStep ==
  ASSUME TypeOK, NEW r \in Resolutions, AnswerInv(r), ResolutionStep(r)
  PROVE  AnswerInv(r)'
<1> USE PipelinesAssumption DEF TypeOK, AnswerInv, AllDeclined, Goto, Contract!Askable
<1>1. CASE Resolve(r)
  BY <1>1 DEF Resolve
<1>2. CASE OpenSpan(r) \/ CloseSpan(r)
  <2>1. SameAnswer(r)
    BY <1>2 DEF OpenSpan, CloseSpan, SameAnswer
  <2>2. QED BY <2>1, SameAnswerKeeps
<1>3. CASE Attempt(r) \/ Engage(r)
  BY <1>3 DEF Attempt, Engage, Ask
<1>4. CASE Decline(r)
  BY <1>4 DEF Decline, Declined, AskedFallback, Judged, NoResult
<1>5. CASE NotHandled(r)
  BY <1>5 DEF NotHandled, Leave
<1>6. CASE Conclude(r)
  <2>1. pc'[r] = "left" /\ UNCHANGED <<asked, answer, result>> /\ pc[r] = "judge"
    BY <1>6 DEF Conclude, Leave
  <2>2. outcome'[r] = IF answer[r] \in {"malformed", "base"} THEN "raised" ELSE "returned"
    BY <1>6 DEF Conclude, Escapes, Leave
  <2>3. Judged(r)' = Judged(r)
    BY <2>1 DEF Judged, AskedFallback
  <2>4. QED BY <2>1, <2>2, <2>3
<1>7. ASSUME NEW a \in Answers[r], Answer(r, a) PROVE AnswerInv(r)'
  <2>1. /\ pc[r] = "asking" /\ pc'[r] = "judge" /\ answer'[r] = a /\ UNCHANGED <<asked, outcome>>
        /\ a \in AllAnswers
    BY <1>7 DEF Answer, InHandler
  <2>2. Judged(r)'
    <3>1. CASE a = "base"
      BY <1>7, <2>1, <3>1 DEF Answer, Judged
    <3>2. CASE a # "base"
      <4>1. PICK claims \in [fallback : BOOLEAN, by : {0, 1}] : result'[r] = ResultOf(r, a, claims)
        BY <1>7, <3>2 DEF Answer
      <4>2. QED BY <2>1, <3>2, <4>1 DEF Judged, ResultOf, AskedFallback
    <3>3. QED BY <3>1, <3>2
  <2>3. QED BY <2>1, <2>2
<1>8. QED
  BY <1>1, <1>2, <1>3, <1>4, <1>5, <1>6, <1>7 DEF ResolutionStep, Pipeline, HandlerAnswers

LEMMA AnswerInvariant == Spec => [](\A r \in Resolutions : AnswerInv(r))
<1>1. Init => \A r \in Resolutions : AnswerInv(r)
  BY PipelinesAssumption DEF Init, AnswerInv, Contract!Askable
<1>2. TypeOK /\ (\A r \in Resolutions : AnswerInv(r)) /\ [Next]_vars
        => (\A r \in Resolutions : AnswerInv(r))'
  <2> SUFFICES ASSUME TypeOK, \A d \in Resolutions : AnswerInv(d), [Next]_vars, NEW d \in Resolutions
               PROVE  AnswerInv(d)'
      OBVIOUS
  <2>1. CASE UNCHANGED vars
    <3>1. SameAnswer(d)
      BY <2>1 DEF vars, SameAnswer
    <3>2. QED BY <3>1, SameAnswerKeeps
  <2>2. ASSUME NEW r \in Resolutions, ResolutionStep(r) PROVE AnswerInv(d)'
    BY <2>2, AnswerStep, OthersAnswer, SameAnswerKeeps
  <2>3. QED BY <2>1, <2>2 DEF Next, ResolutionStep
<1>3. QED BY <1>1, <1>2, TypeCorrect, PTL DEF Spec

\* A result says that the fallback made it exactly when it did, and names
\* the resolver otherwise, whatever nested pipelines claim.
THEOREM FallbackUseIsExplicit == Spec => []FallbackIsExplicit
<1>1. ASSUME TypeOK, NEW r \in Resolutions, AnswerInv(r), Left(r), Returned(r)
      PROVE  /\ result[r].fallback <=> HasFallback[r] /\ AskedFallback(r)
             /\ ~result[r].fallback /\ result[r].status # "not_handled" => result[r].by = asked[r]
  <2> USE PipelinesAssumption DEF AskedFallback, Contract!Askable
  <2>1. CASE answer[r] \notin {"malformed", "base"} /\ Judged(r)
    <3>1. AskedFallback(r) => HasFallback[r]
      BY <1>1 DEF TypeOK, AnswerInv
    <3>2. result[r].fallback = AskedFallback(r)
      BY <2>1 DEF Judged
    <3>3. ~AskedFallback(r) => result[r].by = asked[r]
      BY <2>1 DEF Judged
    <3> HIDE DEF AskedFallback
    <3>4. QED BY <3>1, <3>2, <3>3
  <2>2. CASE result[r].status = "not_handled" /\ ~result[r].fallback /\ ~HasFallback[r]
    BY <2>2
  <2>3. QED BY <1>1, <2>1, <2>2 DEF AnswerInv, Left, Returned
<1>2. TypeOK /\ (\A r \in Resolutions : AnswerInv(r)) => FallbackIsExplicit
  BY <1>1 DEF FallbackIsExplicit
<1>3. QED BY <1>2, AnswerInvariant, TypeCorrect, PTL

\* What a step of r looks like to the contract.
Hidden(r) == UNCHANGED <<asked, answer>> /\ VerdictOf(r)' = VerdictOf(r)

Asks(r) ==
  /\ VerdictOf(r) = "open" /\ VerdictOf(r)' = "open" /\ AllDeclined(r)
  /\ asked[r] < Contract!Askable(r)
  /\ asked' = [asked EXCEPT ![r] = @ + 1] /\ answer' = [answer EXCEPT ![r] = "none"]

IsAnswered(r) ==
  /\ VerdictOf(r) = "open" /\ VerdictOf(r)' = "open" /\ asked[r] > 0 /\ answer[r] = "none"
  /\ asked' = asked /\ \E a \in AllAnswers : answer' = [answer EXCEPT ![r] = a]

Concludes(r) ==
  /\ VerdictOf(r) = "open" /\ VerdictOf(r)' \in Contract!Verdicts
  /\ Contract!Justified(r, VerdictOf(r)')
  /\ UNCHANGED <<asked, answer>>

LEMMA StepLooks ==
  ASSUME TypeOK, NEW r \in Resolutions, AnswerInv(r), ResolutionStep(r)
  PROVE  Hidden(r) \/ Asks(r) \/ IsAnswered(r) \/ Concludes(r)
<1> USE PipelinesAssumption DEF TypeOK, AnswerInv, VerdictOf, Left, Returned, Goto
<1>1. CASE Resolve(r) \/ OpenSpan(r) \/ CloseSpan(r) \/ Decline(r)
  BY <1>1 DEF Resolve, OpenSpan, CloseSpan, InHandler, Decline, Hidden
<1>2. CASE Attempt(r) \/ Engage(r)
  BY <1>2 DEF Attempt, Engage, Ask, Asks, AllDeclined, Contract!Askable
<1>3. CASE HandlerAnswers(r)
  BY <1>3 DEF HandlerAnswers, Answer, InHandler, IsAnswered
<1>4. CASE NotHandled(r)
  <2>1. VerdictOf(r) = "open" /\ VerdictOf(r)' = "not_handled" /\ UNCHANGED <<asked, answer>>
    BY <1>4 DEF NotHandled, Leave
  <2>2. asked[r] = Contract!Askable(r) /\ (asked[r] = 0 \/ answer[r] = "not_handled")
    BY <1>4 DEF NotHandled, Contract!Askable, AllDeclined
  <2>3. QED BY <2>1, <2>2 DEF Concludes, Contract!Justified, Contract!Verdicts
<1>5. CASE Conclude(r)
  <2>1. /\ VerdictOf(r) = "open" /\ UNCHANGED <<asked, answer>> /\ Judged(r) /\ ~Declined(r)
        /\ VerdictOf(r)' = IF answer[r] \in {"malformed", "base"} THEN "raised" ELSE result[r].status
    BY <1>5 DEF Conclude, Escapes, Leave
  <2>2. CASE answer[r] \in {"malformed", "base"}
    BY <2>1, <2>2 DEF Concludes, Contract!Justified, Contract!Verdicts
  <2>3. CASE answer[r] \notin {"malformed", "base"}
    <3>1. VerdictOf(r)' = IF answer[r] \in {"exception", "invalid"} THEN "error" ELSE answer[r]
      BY <2>1, <2>3 DEF Judged
    <3>2. answer[r] \in {"handled", "not_handled", "error", "foreign", "exception", "invalid"}
      BY <2>1, <2>3 DEF Judged, AllAnswers
    <3>3. answer[r] = "not_handled" => asked[r] = Contract!Askable(r)
      BY <2>1, <2>3 DEF Judged, Declined, AskedFallback, Contract!Askable
    <3>4. QED BY <2>1, <3>1, <3>2, <3>3 DEF Concludes, Contract!Justified, Contract!Verdicts
  <2>4. QED BY <2>2, <2>3
<1>6. QED BY <1>1, <1>2, <1>3, <1>4, <1>5 DEF ResolutionStep, Pipeline

LEMMA StepRefines ==
  ASSUME TypeOK, \A d \in Resolutions : AnswerInv(d), NEW r \in Resolutions, ResolutionStep(r)
  PROVE  [Contract!Next]_(Contract!vars)
<1> DEFINE V == [d \in Resolutions |-> VerdictOf(d)]
<1>1. \A d \in Resolutions \ {r} : VerdictOf(d)' = VerdictOf(d)
  BY OthersAnswer DEF SameAnswer, VerdictOf, Left, Returned
<1>2. V' = [V EXCEPT ![r] = VerdictOf(r)'] /\ V[r] = VerdictOf(r)
  BY <1>1
<1>3. VerdictOf(r)' = VerdictOf(r) => V' = V
  BY <1>1
<1>4. CASE Hidden(r)
  BY <1>3, <1>4 DEF Hidden, Contract!vars
<1>5. CASE Asks(r)
  <2>1. Contract!Ask(r)
    BY <1>2, <1>3, <1>5 DEF Asks, AllDeclined, Contract!Ask
  <2>2. QED BY <2>1 DEF Contract!Next
<1>6. CASE IsAnswered(r)
  <2>1. PICK a \in AllAnswers : answer' = [answer EXCEPT ![r] = a]
    BY <1>6 DEF IsAnswered
  <2>2. Contract!Answer(r, a)
    BY <1>2, <1>3, <1>6, <2>1 DEF IsAnswered, Contract!Answer
  <2>3. QED BY <2>2 DEF Contract!Next, Contract!AnswerKinds, AllAnswers
<1>7. CASE Concludes(r)
  <2>1. Contract!Conclude(r, VerdictOf(r)')
    BY <1>2, <1>7 DEF Concludes, Contract!Conclude
  <2>2. QED BY <1>7, <2>1 DEF Concludes, Contract!Next
<1>8. QED BY <1>4, <1>5, <1>6, <1>7, StepLooks

\* Every behaviour of resolve, with any nesting, is one the contract allows.
THEOREM ResolutionRefines == Spec => ImplementsContract
<1>1. Init => Contract!Init
  BY DEF Init, Contract!Init, VerdictOf, Left
<1>2. TypeOK /\ (\A r \in Resolutions : AnswerInv(r)) /\ [Next]_vars
        => [Contract!Next]_(Contract!vars)
  <2> SUFFICES ASSUME TypeOK, \A r \in Resolutions : AnswerInv(r), [Next]_vars
               PROVE  [Contract!Next]_(Contract!vars)
      OBVIOUS
  <2>1. CASE UNCHANGED vars
    BY <2>1 DEF vars, Contract!vars, VerdictOf, Left, Returned
  <2>2. QED BY <2>1, StepRefines DEF Next, ResolutionStep
<1>3. QED
  BY <1>1, <1>2, AnswerInvariant, TypeCorrect, PTL DEF Spec, ImplementsContract, Contract!Spec

-----------------------------------------------------------------------------
(* One trace per request.                                                  *)

\* The trace ids that requests on thread t can have.
Owns(t, trace) ==
  IF HostTrace[t] # NoContext THEN trace = <<"host", t, 0>>
  ELSE \E q \in Resolutions : ThreadOf[q] = t /\ trace = <<"root", q, 0>>

Begun(r) == pc[r] # "idle"

TraceInv ==
  \A r \in Resolutions :
    /\ ~Begun(r) => events[r] = <<>>
    /\ Begun(r) => root[r] # NoContext /\ Owns(ThreadOf[r], root[r].trace)
    /\ Begun(r) /\ ~TopLevel(r) => Begun(Parent[r]) /\ root[r].trace = root[Parent[r]].trace
    /\ SpanOpen(r) => Begun(r) /\ span[r].trace = root[r].trace
    /\ \A i \in DOMAIN events[r] : events[r][i].context.trace = root[r].trace

LEMMA HostOwns ==
  ASSUME NEW t \in Threads, HostTrace[t] # NoContext
  PROVE  HostTrace[t].trace = <<"host", t, 0>> /\ HostTrace[t] \in ContextType
  BY TracingAssumption, HostTraceType DEF HostContext, RootContext

LEMMA OwnersDiffer ==
  ASSUME NEW t \in Threads, NEW u \in Threads, NEW trace, Owns(t, trace), Owns(u, trace)
  PROVE  t = u
  BY DEF Owns

\* An event of r carries r's own trace.
LEMMA EventStep ==
  ASSUME TypeOK, TraceInv, NEW r \in Resolutions, Begun(r), ResolutionStep(r), ~Resolve(r)
  PROVE  /\ \A d \in Resolutions \ {r} : events'[d] = events[d]
         /\ \A i \in DOMAIN events'[r] : events'[r][i].context.trace = root[r].trace
<1> DEFINE Carries(e) == e.context.trace = root[r].trace
<1>1. ASSUME NEW e, Carries(e), SafeEmit(r, e)
      PROVE  /\ \A d \in Resolutions \ {r} : events'[d] = events[d]
             /\ \A i \in DOMAIN events'[r] : events'[r][i].context.trace = root[r].trace
  <2>1. CASE events' = events
    BY <2>1 DEF TraceInv
  <2>2. CASE events' = [events EXCEPT ![r] = Append(events[r], e)]
    <3>1. events[r] \in Seq(EventType) /\ events'[r] = Append(events[r], e)
      BY <2>2 DEF TypeOK
    <3>2. ASSUME NEW i \in DOMAIN events'[r] PROVE events'[r][i].context.trace = root[r].trace
      <4>1. i \in 1..(Len(events[r]) + 1)
        BY <3>1, <3>2
      <4>2. CASE i = Len(events[r]) + 1
        BY <1>1, <3>1, <4>2
      <4>3. CASE i # Len(events[r]) + 1
        <5>1. i \in DOMAIN events[r] /\ events'[r][i] = events[r][i]
          BY <3>1, <4>1, <4>3
        <5>2. QED BY <5>1 DEF TraceInv
      <4>4. QED BY <4>2, <4>3
    <3>3. QED BY <2>2, <3>2 DEF TypeOK
  <2>3. QED BY <1>1, <2>1, <2>2 DEF SafeEmit
<1>2. CASE UNCHANGED events
  BY <1>2 DEF TraceInv
<1>3. \A op, by, level : Carries(Event(op, by, root[r], level))
  BY DEF Event
<1>4. SpanOpen(r) => \A op, by, level : Carries(Event(op, by, span[r], level))
  BY DEF Event, TraceInv
<1> HIDE DEF Carries
<1>5. CASE Pipeline(r)
  <2>1. CASE Attempt(r)
    BY <1>1, <1>3, <2>1 DEF Attempt
  <2>2. CASE Engage(r)
    BY <1>1, <1>3, <2>2 DEF Engage
  <2>3. CASE NotHandled(r)
    BY <1>1, <1>3, <2>3 DEF NotHandled
  <2>4. CASE Decline(r)
    BY <1>1, <1>3, <2>4 DEF Decline
  <2>5. CASE Conclude(r)
    BY <1>1, <1>2, <1>3, <2>5 DEF Conclude
  <2>6. QED BY <1>5, <2>1, <2>2, <2>3, <2>4, <2>5 DEF Pipeline
<1>6. CASE HandlerAnswers(r) \/ OpenSpan(r)
  BY <1>2, <1>6 DEF HandlerAnswers, Answer, OpenSpan
<1>7. CASE CloseSpan(r)
  BY <1>1, <1>2, <1>4, <1>7 DEF CloseSpan, SpanError
<1>8. QED BY <1>5, <1>6, <1>7 DEF ResolutionStep

\* The root of a new resolution is in the trace of the scope it starts in.
LEMMA ResolveTrace ==
  ASSUME TypeOK, StackInv, ScopeInv, TraceInv, NEW r \in Resolutions, Resolve(r)
  PROVE  /\ root' = [root EXCEPT ![r] = root'[r]]
         /\ root'[r] # NoContext /\ Owns(ThreadOf[r], root'[r].trace)
         /\ ~TopLevel(r) => Begun(Parent[r]) /\ root'[r].trace = root[Parent[r]].trace
<1> DEFINE seen == current[ThreadOf[r]]
<1>1. ThreadOf[r] \in Threads
  BY ResolutionsAssumption
<1>2. root' = [root EXCEPT ![r] = IF seen = NoContext THEN RootContext(<<"root", r, 0>>) ELSE seen]
  BY DEF Resolve, ContextCell
<1>3. root' = [root EXCEPT ![r] = root'[r]]
      /\ root'[r] = IF seen = NoContext THEN RootContext(<<"root", r, 0>>) ELSE seen
  BY <1>2 DEF TypeOK
<1>4. CASE TopLevel(r)
  <2>1. seen = HostTrace[ThreadOf[r]]
    BY <1>1, <1>4 DEF Resolve, TopLevel, ScopeInv
  <2>2. CASE seen = NoContext
    BY <1>3, <1>4, <2>1, <2>2 DEF Owns, RootContext, NoContext
  <2>3. CASE seen # NoContext
    BY <1>1, <1>3, <1>4, <2>1, <2>3, HostOwns DEF Owns
  <2>4. QED BY <1>3, <2>2, <2>3
<1>5. CASE ~TopLevel(r)
  <2> DEFINE p == Parent[r]
  <2>1. p \in Resolutions /\ ThreadOf[p] = ThreadOf[r] /\ Active(p) /\ Begun(p)
    BY <1>5, ParentFacts DEF Resolve, TopLevel, InHandler, Active, InProgress, SameThread, Begun
  <2>2. seen = Scope(p)
    BY <2>1 DEF ScopeInv
  <2>3. Scope(p) # NoContext /\ Scope(p).trace = root[p].trace
    BY <2>1 DEF TraceInv, Scope, SpanOpen
  <2>4. QED BY <1>3, <2>1, <2>2, <2>3 DEF TraceInv
<1>6. QED BY <1>4, <1>5

LEMMA TraceStep == TypeOK /\ StackInv /\ ScopeInv /\ TraceInv /\ [Next]_vars => TraceInv'
<1> SUFFICES ASSUME TypeOK, StackInv, ScopeInv, TraceInv, [Next]_vars PROVE TraceInv'
    OBVIOUS
<1>1. CASE UNCHANGED vars
  BY <1>1 DEF vars, scopeVars, TraceInv, Begun, SpanOpen
<1>2. ASSUME NEW r \in Resolutions, Resolve(r) PROVE TraceInv'
  <2>1. /\ root' = [root EXCEPT ![r] = root'[r]]
        /\ root'[r] # NoContext /\ Owns(ThreadOf[r], root'[r].trace)
        /\ ~TopLevel(r) => Begun(Parent[r]) /\ root'[r].trace = root[Parent[r]].trace
    BY <1>2, ResolveTrace
  <2>2. \A d \in Resolutions : Begun(d)' <=> Begun(d) \/ d = r
    BY <1>2 DEF Resolve, Goto, Begun, TypeOK
  <2>3. ~Begun(r) /\ UNCHANGED <<span, events>>
    BY <1>2 DEF Resolve, Begun
  <2>4. \A d \in Resolutions : d # r => root'[d] = root[d]
    BY <2>1 DEF TypeOK
  <2>5. events'[r] = <<>> /\ ~SpanOpen(r)'
    BY <2>3 DEF TraceInv, SpanOpen
  <2> SUFFICES ASSUME NEW d \in Resolutions
               PROVE  /\ ~Begun(d)' => events'[d] = <<>>
                      /\ Begun(d)' => root'[d] # NoContext /\ Owns(ThreadOf[d], root'[d].trace)
                      /\ Begun(d)' /\ ~TopLevel(d) =>
                           Begun(Parent[d])' /\ root'[d].trace = root'[Parent[d]].trace
                      /\ SpanOpen(d)' => Begun(d)' /\ span'[d].trace = root'[d].trace
                      /\ \A i \in DOMAIN events'[d] : events'[d][i].context.trace = root'[d].trace
    BY DEF TraceInv, TopLevel, Owns
  <2>6. CASE d = r
    <3>1. ~TopLevel(r) => Parent[r] \in Resolutions /\ Parent[r] # r
      BY <2>1, <2>3, ParentFacts
    <3>2. QED BY <2>1, <2>2, <2>4, <2>5, <2>6, <3>1
  <2>7. CASE d # r
    <3>1. /\ ~Begun(d) => events[d] = <<>>
          /\ Begun(d) => root[d] # NoContext /\ Owns(ThreadOf[d], root[d].trace)
          /\ Begun(d) /\ ~TopLevel(d) => Begun(Parent[d]) /\ root[d].trace = root[Parent[d]].trace
          /\ SpanOpen(d) => Begun(d) /\ span[d].trace = root[d].trace
          /\ \A i \in DOMAIN events[d] : events[d][i].context.trace = root[d].trace
      BY DEF TraceInv
    <3>2. Begun(d) /\ ~TopLevel(d) => Parent[d] \in Resolutions /\ Parent[d] # r
      BY <2>3, <3>1, ParentFacts
    <3>3. root'[d] = root[d] /\ span'[d] = span[d] /\ events'[d] = events[d] /\ (Begun(d)' <=> Begun(d))
      BY <2>2, <2>3, <2>4, <2>7
    <3>4. SpanOpen(d)' <=> SpanOpen(d)
      BY <2>3 DEF SpanOpen
    <3>5. QED BY <2>2, <2>4, <3>1, <3>2, <3>3, <3>4
  <2>8. QED BY <2>6, <2>7
<1>3. ASSUME NEW r \in Resolutions, ResolutionStep(r), ~Resolve(r) PROVE TraceInv'
  <2>1. Begun(r) /\ UNCHANGED root /\ \A d \in Resolutions : Begun(d)' <=> Begun(d)
    <3>1. CASE Attempt(r) \/ Engage(r) \/ Decline(r)
      BY <3>1 DEF Attempt, Engage, Decline, Ask, Goto, Begun, TypeOK, scopeVars
    <3>2. CASE NotHandled(r) \/ Conclude(r)
      BY <3>2 DEF NotHandled, Conclude, Leave, Goto, Begun, TypeOK
    <3>3. CASE HandlerAnswers(r) \/ OpenSpan(r) \/ CloseSpan(r)
      BY <3>3 DEF HandlerAnswers, Answer, OpenSpan, CloseSpan, InHandler, Goto, Begun, TypeOK, scopeVars
    <3>4. QED BY <1>3, <3>1, <3>2, <3>3 DEF ResolutionStep, Pipeline
  <2>2. \A d \in Resolutions : SpanOpen(d)' => Begun(d) /\ span'[d].trace = root[d].trace
    <3>1. CASE OpenSpan(r)
      <4>1. InHandler(r) /\ ~SpanOpen(r) /\ ContextCell(r) = ThreadOf[r]
        BY <3>1 DEF OpenSpan, ContextCell
      <4>2. current[ThreadOf[r]] = root[r]
        BY <4>1 DEF ScopeInv, Scope, InHandler, Active, InProgress
      <4>3. span' = [span EXCEPT ![r] = ChildContext(root[r], <<"span", r, spans[r] + 1>>)]
        BY <3>1, <4>1, <4>2 DEF OpenSpan
      <4>4. ChildContext(root[r], <<"span", r, spans[r] + 1>>).trace = root[r].trace
        BY DEF ChildContext
      <4>5. QED BY <2>1, <4>3, <4>4 DEF TraceInv, SpanOpen, TypeOK
    <3>2. CASE CloseSpan(r)
      BY <3>2 DEF CloseSpan, TraceInv, SpanOpen, TypeOK
    <3>3. CASE ~OpenSpan(r) /\ ~CloseSpan(r)
      <4>1. span' = span
        BY <1>3, <3>3 DEF ResolutionStep, Pipeline, HandlerAnswers, Attempt, Engage, Decline, Ask,
                          NotHandled, Conclude, Answer, scopeVars
      <4>2. QED BY <4>1 DEF TraceInv, SpanOpen
    <3>4. QED BY <3>1, <3>2, <3>3
  <2>3. /\ \A d \in Resolutions \ {r} : events'[d] = events[d]
        /\ \A i \in DOMAIN events'[r] : events'[r][i].context.trace = root[r].trace
    BY <1>3, <2>1, EventStep
  <2> SUFFICES ASSUME NEW d \in Resolutions
               PROVE  /\ ~Begun(d)' => events'[d] = <<>>
                      /\ Begun(d)' => root'[d] # NoContext /\ Owns(ThreadOf[d], root'[d].trace)
                      /\ Begun(d)' /\ ~TopLevel(d) =>
                           Begun(Parent[d])' /\ root'[d].trace = root'[Parent[d]].trace
                      /\ SpanOpen(d)' => Begun(d)' /\ span'[d].trace = root'[d].trace
                      /\ \A i \in DOMAIN events'[d] : events'[d][i].context.trace = root'[d].trace
    BY DEF TraceInv, TopLevel, Owns
  <2>4. QED BY <2>1, <2>2, <2>3, ParentFacts DEF TraceInv
<1>4. QED BY <1>1, <1>2, <1>3 DEF Next, ResolutionStep

\* All events of a request, its nested resolutions and spans included, are
\* in one trace, the host's if it has one, which no other thread's is in.
THEOREM RequestsKeepTheirTrace == Spec => []OneTracePerRequest
<1>1. Init => TraceInv
  BY DEF Init, TraceInv, Begun, SpanOpen
<1>2. TypeOK /\ TraceInv => OneTracePerRequest
  <2> SUFFICES ASSUME TypeOK, TraceInv, NEW r \in Resolutions, NEW d \in Resolutions,
                      NEW i \in DOMAIN events[r], NEW j \in DOMAIN events[d]
               PROVE  LET same == events[r][i].context.trace = events[d][j].context.trace IN
                      /\ r = d \/ Parent[d] = r => same
                      /\ ThreadOf[r] # ThreadOf[d] => ~same
                      /\ HostTrace[ThreadOf[r]] # NoContext
                           => events[r][i].context.trace = HostTrace[ThreadOf[r]].trace
    BY DEF OneTracePerRequest
  <2>1. /\ events[r][i].context.trace = root[r].trace
        /\ events[d][j].context.trace = root[d].trace
    BY DEF TraceInv
  <2>2. Begun(r) /\ Begun(d)
    BY DEF TraceInv
  <2>3. Owns(ThreadOf[r], root[r].trace) /\ Owns(ThreadOf[d], root[d].trace)
    BY <2>2 DEF TraceInv
  <2>4. ThreadOf[r] \in Threads /\ ThreadOf[d] \in Threads
    BY ResolutionsAssumption
  <2>5. Parent[d] = r => root[d].trace = root[r].trace
    BY <2>2, ResolutionsAssumption DEF TraceInv, TopLevel
  <2>6. ThreadOf[r] # ThreadOf[d] => root[r].trace # root[d].trace
    BY <2>3, <2>4, OwnersDiffer
  <2>7. HostTrace[ThreadOf[r]] # NoContext => root[r].trace = HostTrace[ThreadOf[r]].trace
    BY <2>3, <2>4, HostOwns DEF Owns
  <2>8. QED BY <2>1, <2>5, <2>6, <2>7
<1>3. QED BY <1>1, <1>2, TraceStep, StackAndScope, TypeCorrect, PTL DEF Spec
=============================================================================
