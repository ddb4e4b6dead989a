----------------------------- MODULE HandoffProofs -----------------------------
(***************************************************************************)
(* Proofs about Handoff for any threads, requests, traces and bounds.      *)
(***************************************************************************)
EXTENDS HandoffProperties, SequenceTheorems, TLAPS

-----------------------------------------------------------------------------
(* Stacks of scopes and tokens. In a chained stack each entry was made on  *)
(* the context that the one below it had set: from the context the work    *)
(* began with to the present one.                                          *)

Chained(s, first, last) ==
  /\ s = <<>> => last = first
  /\ s # <<>> => s[1].old = first /\ last = s[Len(s)].new
  /\ \A i \in 1..(Len(s) - 1) : s[i + 1].old = s[i].new

\* Scopes only, all in one trace.
OneTrace(s) ==
  \A i \in DOMAIN s : s[i].kind = "scope" /\ s[i].new # NoTrace /\ s[i].new = s[1].new

LEMMA AppendEntry ==
  ASSUME NEW s \in Seq(Entry), NEW e \in Entry
  PROVE  /\ Append(s, e) \in Seq(Entry) /\ Len(Append(s, e)) = Len(s) + 1
         /\ \A i \in DOMAIN s : Append(s, e)[i] = s[i]
         /\ Append(s, e)[Len(s) + 1] = e
         /\ DOMAIN s = 1..Len(s) /\ DOMAIN Append(s, e) = 1..(Len(s) + 1)
         /\ Len(s) \in Nat
  OBVIOUS

LEMMA PrefixEntries ==
  ASSUME NEW s \in Seq(Entry), NEW i \in DOMAIN s
  PROVE  /\ SubSeq(s, 1, i - 1) \in Seq(Entry) /\ Len(SubSeq(s, 1, i - 1)) = i - 1
         /\ \A k \in 1..(i - 1) : SubSeq(s, 1, i - 1)[k] = s[k]
         /\ DOMAIN SubSeq(s, 1, i - 1) = 1..(i - 1)
         /\ i \in 1..Len(s) /\ Len(s) \in Nat /\ DOMAIN s = 1..Len(s)
  OBVIOUS

LEMMA ChainedAppend ==
  ASSUME NEW s \in Seq(Entry), NEW e \in Entry, NEW first, Chained(s, first, e.old)
  PROVE  Chained(Append(s, e), first, e.new)
<1>1. Append(s, e) # <<>>
  BY AppendEntry
<1>2. CASE s = <<>>
  BY <1>1, <1>2, AppendEntry DEF Chained
<1>3. CASE s # <<>>
  <2>1. Len(s) \in Nat /\ Len(s) > 0
    BY <1>3
  <2>2. Append(s, e)[1].old = first /\ Append(s, e)[Len(Append(s, e))].new = e.new
    BY <1>3, <2>1, AppendEntry DEF Chained
  <2>3. \A i \in 1..(Len(Append(s, e)) - 1) : Append(s, e)[i + 1].old = Append(s, e)[i].new
    <3> TAKE i \in 1..(Len(Append(s, e)) - 1)
    <3>1. i \in 1..Len(s)
      BY AppendEntry
    <3>2. CASE i = Len(s)
      BY <1>3, <2>1, <3>2, AppendEntry DEF Chained
    <3>3. CASE i # Len(s)
      BY <2>1, <3>1, <3>3, AppendEntry DEF Chained
    <3>4. QED BY <3>2, <3>3
  <2>4. QED BY <1>1, <2>2, <2>3 DEF Chained
<1>4. QED BY <1>2, <1>3

LEMMA ChainedPrefix ==
  ASSUME NEW s \in Seq(Entry), NEW i \in DOMAIN s, NEW first, NEW last, Chained(s, first, last)
  PROVE  Chained(SubSeq(s, 1, i - 1), first, s[i].old)
<1> DEFINE p == SubSeq(s, 1, i - 1)
<1>1. /\ i \in 1..Len(s) /\ Len(s) \in Nat
      /\ p \in Seq(Entry) /\ Len(p) = i - 1 /\ \A k \in 1..(i - 1) : p[k] = s[k]
  BY PrefixEntries
<1> HIDE DEF p
<1>2. ASSUME i = 1 PROVE Chained(p, first, s[i].old)
  BY <1>1, <1>2 DEF Chained
<1>3. ASSUME i > 1 PROVE Chained(p, first, s[i].old)
  <2>1. p # <<>> /\ p[1].old = first
    BY <1>1, <1>3 DEF Chained
  <2>2. s[i].old = p[Len(p)].new
    <3>1. i - 1 \in 1..(Len(s) - 1) /\ (i - 1) + 1 = i
      BY <1>1, <1>3
    <3>2. s[i].old = s[i - 1].new
      BY <3>1 DEF Chained
    <3>3. QED BY <1>1, <1>3, <3>2
  <2>3. ASSUME NEW k \in 1..(Len(p) - 1)
        PROVE  p[k + 1].old = p[k].new
    <3>1. k \in 1..(Len(s) - 1) /\ k \in 1..(i - 1) /\ k + 1 \in 1..(i - 1)
      BY <1>1
    <3>2. s[k + 1].old = s[k].new
      BY <3>1 DEF Chained
    <3>3. p[k + 1] = s[k + 1] /\ p[k] = s[k]
      BY <1>1, <3>1
    <3>4. QED BY <3>2, <3>3
  <2>4. \A k \in 1..(Len(p) - 1) : p[k + 1].old = p[k].new
    BY <2>3
  <2>5. QED BY <2>1, <2>2, <2>4 DEF Chained
<1>4. QED BY <1>1, <1>2, <1>3 DEF p

LEMMA OneTraceAppend ==
  ASSUME NEW s \in Seq(Entry), NEW e \in Entry, OneTrace(s), e.kind = "scope", e.new # NoTrace,
         s # <<>> => e.new = s[Len(s)].new
  PROVE  OneTrace(Append(s, e))
<1>1. CASE s = <<>>
  BY <1>1, AppendEntry DEF OneTrace
<1>2. CASE s # <<>>
  <2>1. Len(s) \in Nat /\ Len(s) \in DOMAIN s /\ 1 \in DOMAIN s
    BY <1>2
  <2>2. e.new = s[1].new
    BY <1>2, <2>1 DEF OneTrace
  <2>3. \A i \in DOMAIN Append(s, e) : i \in DOMAIN s \/ i = Len(s) + 1
    BY AppendEntry
  <2>4. QED BY <2>1, <2>2, <2>3, AppendEntry DEF OneTrace
<1>3. QED BY <1>1, <1>2

LEMMA OneTracePrefix ==
  ASSUME NEW s \in Seq(Entry), NEW i \in DOMAIN s, OneTrace(s)
  PROVE  OneTrace(SubSeq(s, 1, i - 1))
<1> DEFINE p == SubSeq(s, 1, i - 1)
<1>1. /\ DOMAIN s = 1..Len(s) /\ i \in 1..Len(s) /\ Len(s) \in Nat
      /\ DOMAIN p = 1..(i - 1) /\ \A k \in 1..(i - 1) : p[k] = s[k]
  BY PrefixEntries
<1> HIDE DEF p
<1>2. ASSUME NEW k \in DOMAIN p
      PROVE  p[k].kind = "scope" /\ p[k].new # NoTrace /\ p[k].new = p[1].new
  <2>1. k \in DOMAIN s /\ k \in 1..(i - 1) /\ 1 \in 1..(i - 1)
    BY <1>1
  <2>2. p[k] = s[k] /\ p[1] = s[1]
    BY <1>1, <2>1
  <2>3. QED BY <2>1, <2>2 DEF OneTrace
<1>3. QED BY <1>2 DEF OneTrace, p

-----------------------------------------------------------------------------
(* Type correctness.                                                       *)

LEMMA TraceTypes ==
  ASSUME NEW meta, NEW context \in Contexts
  PROVE  /\ FromMetadata(meta) \in Contexts
         /\ meta \in Contexts \cup {Damaged} =>
              WithTrace(meta, context) \in Contexts \cup {Damaged}
  BY DEF FromMetadata, WithTrace, Contexts

\* Both requests add the current trace the same way.
LEMMA Capturing ==
  ASSUME NEW r, NEW context
  PROVE  WithCurrentTrace(r, context) = IF context = NoTrace THEN r.meta ELSE context
  BY DEF WithCurrentTrace, OutputWithCurrentTrace, OutputWithTrace, WithTrace

LEMMA RequestTypes ==
  ASSUME NEW j \in Jobs
  PROVE  HostWork \in Request /\ New(j) \in Request
  BY DEF HostWork, New, Request, Contexts

LEMMA HostWorkType == HostWork \in Request
  BY DEF HostWork, Request, Contexts

LEMMA StackTypes ==
  ASSUME TypeOK, NEW w \in Workers
  PROVE  /\ stack[w] \in Seq(Entry)
         /\ \A i \in DOMAIN stack[w] : stack[w][i] \in Entry /\ stack[w][i].old \in Contexts
                                       /\ stack[w][i].new \in Contexts
<1>1. stack[w] \in Seq(Entry)
  BY DEF TypeOK
<1>2. \A i \in DOMAIN stack[w] : stack[w][i] \in Entry
  BY <1>1
<1>3. \A e \in Entry : e.old \in Contexts /\ e.new \in Contexts
  BY DEF Entry
<1>4. QED BY <1>1, <1>2, <1>3

LEMMA CauseType ==
  ASSUME TypeOK, NEW w \in Workers
  PROVE  Cause(w) \in Contexts
<1>1. work[w].cause \in Contexts
  BY DEF TypeOK, Request
<1>2. CASE stack[w] = <<>>
  BY <1>1, <1>2 DEF Cause, Contexts
<1>3. CASE stack[w] # <<>>
  <2>1. 1 \in DOMAIN stack[w]
    BY <1>3, StackTypes
  <2>2. stack[w][1].new \in Contexts
    BY <2>1, StackTypes
  <2>3. QED BY <1>1, <2>2 DEF Cause
<1>4. QED BY <1>2, <1>3

\* What pushing an entry on the stack of w means.
LEMMA SetStep ==
  ASSUME TypeOK, NEW w \in Workers, NEW kind \in {"scope", "token"},
         NEW context \in Contexts, Set(w, kind, context)
  PROVE  LET e == [kind |-> kind, old |-> ctx[w], new |-> context]
         IN  /\ e \in Entry
             /\ stack' = [stack EXCEPT ![w] = Append(@, e)]
             /\ ctx' = [ctx EXCEPT ![w] = context]
             /\ stack' \in [Workers -> Seq(Entry)]
             /\ ctx' \in [Workers -> Contexts]
<1> DEFINE e == [kind |-> kind, old |-> ctx[w], new |-> context]
<1>1. e \in Entry
  BY DEF TypeOK, Entry
<1>2. stack[w] \in Seq(Entry) /\ Append(stack[w], e) \in Seq(Entry)
  BY <1>1, AppendEntry DEF TypeOK
<1>3. stack' = [stack EXCEPT ![w] = Append(@, e)] /\ ctx' = [ctx EXCEPT ![w] = context]
  BY DEF Set
<1> HIDE DEF e
<1>4. stack' \in [Workers -> Seq(Entry)] /\ ctx' \in [Workers -> Contexts]
  BY <1>2, <1>3 DEF TypeOK
<1>5. QED BY <1>1, <1>3, <1>4 DEF e

LEMMA OpenSpanTypes ==
  ASSUME TypeOK, NEW w \in Workers, OpenSpan(w)
  PROVE  TypeOK'
<1>1. /\ store' = store /\ busy' = busy /\ work' = work /\ start' = start /\ late' = late
      /\ bare' = bare /\ disordered' = disordered /\ dirty' = dirty
  BY DEF OpenSpan, workVars, historyVars
<1>2. issued' \in SUBSET Traces /\ stack' \in [Workers -> Seq(Entry)]
      /\ ctx' \in [Workers -> Contexts]
  <2>1. ctx[w] \in Contexts
    BY DEF TypeOK
  <2>2. CASE Set(w, "scope", ctx[w]) /\ issued' = issued
    BY <2>1, <2>2, SetStep DEF TypeOK
  <2>3. ASSUME NEW t \in Traces, Set(w, "scope", t), issued' = issued \cup {t}
        PROVE  issued' \in SUBSET Traces /\ stack' \in [Workers -> Seq(Entry)]
               /\ ctx' \in [Workers -> Contexts]
    <3>1. t \in Contexts
      BY DEF Contexts
    <3>2. QED BY <2>3, <3>1, SetStep DEF TypeOK
  <2>4. QED BY <2>2, <2>3 DEF OpenSpan
<1>3. QED BY <1>1, <1>2 DEF TypeOK

LEMMA SuffixEntries ==
  ASSUME NEW s \in Seq(Entry), NEW i \in DOMAIN s
  PROVE  SubSeq(s, i + 1, Len(s)) \in Seq(Entry)
  OBVIOUS

LEMMA CloseSpanTypes ==
  ASSUME TypeOK, NEW w \in Workers, CloseSpan(w)
  PROVE  TypeOK'
<1>1. PICK i \in DOMAIN stack[w] :
        /\ ctx' = [ctx EXCEPT ![w] = stack[w][i].old]
        /\ stack' = [stack EXCEPT ![w] = SubSeq(@, 1, i - 1)]
        /\ late' = [late EXCEPT ![w] = @ \o SubSeq(stack[w], i + 1, Len(stack[w]))]
  BY DEF CloseSpan
<1>2. stack[w] \in Seq(Entry) /\ stack[w][i].old \in Contexts
  BY StackTypes
<1>3. SubSeq(stack[w], 1, i - 1) \in Seq(Entry)
  BY <1>2, PrefixEntries
<1>4. stack' \in [Workers -> Seq(Entry)] /\ ctx' \in [Workers -> Contexts]
  BY <1>1, <1>2, <1>3 DEF TypeOK
<1>5. late' \in [Workers -> Seq(Entry)]
  <2>1. late[w] \in Seq(Entry) /\ SubSeq(stack[w], i + 1, Len(stack[w])) \in Seq(Entry)
    BY <1>2, SuffixEntries DEF TypeOK
  <2>2. late[w] \o SubSeq(stack[w], i + 1, Len(stack[w])) \in Seq(Entry)
    BY <2>1, ConcatProperties
  <2>3. QED BY <1>1, <2>2 DEF TypeOK
<1>6. QED BY <1>4, <1>5 DEF TypeOK, CloseSpan, workVars, historyVars

LEMMA SetBareTypes ==
  ASSUME TypeOK, NEW w \in Workers, NEW c \in issued \cup {NoTrace}, SetBare(w, c)
  PROVE  TypeOK'
<1>1. c \in Contexts
  BY DEF TypeOK, Contexts
<1>2. stack' \in [Workers -> Seq(Entry)] /\ ctx' \in [Workers -> Contexts]
  BY <1>1, SetStep DEF SetBare
<1>3. bare' \in [Workers -> BOOLEAN]
  BY DEF SetBare, TypeOK
<1>4. QED BY <1>2, <1>3 DEF TypeOK, SetBare, workVars

\* An entry marked as used stays where it is.
LEMMA MarkedUsed ==
  ASSUME NEW s \in Seq(Entry), NEW i \in DOMAIN s
  PROVE  /\ Used(s, i) \in Seq(Entry) /\ Len(Used(s, i)) = Len(s)
         /\ \A k \in DOMAIN s : k # i => Used(s, i)[k] = s[k]
<1>1. s[i] \in Entry
  OBVIOUS
<1>2. [s[i] EXCEPT !.kind = "used"] \in Entry
  BY <1>1 DEF Entry
<1>3. Used(s, i) = [s EXCEPT ![i] = [s[i] EXCEPT !.kind = "used"]]
  BY DEF Used
<1>4. QED BY <1>2, <1>3

LEMMA ResetBareTypes ==
  ASSUME TypeOK, NEW w \in Workers, NEW i \in DOMAIN stack[w], ResetBare(w, i)
  PROVE  TypeOK'
<1>1. stack[w] \in Seq(Entry) /\ stack[w][i].old \in Contexts
  BY StackTypes
<1>2. ctx' \in [Workers -> Contexts]
  BY <1>1 DEF ResetBare, ResetTo, TypeOK
<1>3. stack' \in [Workers -> Seq(Entry)] /\ disordered' \in [Workers -> BOOLEAN]
  <2>1. CASE i = Len(stack[w])
    <3>1. SubSeq(stack[w], 1, i - 1) \in Seq(Entry)
      BY <1>1, PrefixEntries
    <3>2. stack' = [stack EXCEPT ![w] = SubSeq(stack[w], 1, i - 1)] /\ disordered' = disordered
      BY <2>1 DEF ResetBare
    <3>3. QED BY <3>1, <3>2 DEF TypeOK
  <2>2. CASE i # Len(stack[w])
    <3>1. Used(stack[w], i) \in Seq(Entry)
      BY <1>1, MarkedUsed
    <3>2. /\ stack' = [stack EXCEPT ![w] = Used(stack[w], i)]
          /\ disordered' = [disordered EXCEPT ![w] = TRUE]
      BY <2>2 DEF ResetBare
    <3>3. QED BY <3>1, <3>2 DEF TypeOK
  <2>3. QED BY <2>1, <2>2
<1>4. QED BY <1>2, <1>3 DEF TypeOK, ResetBare, workVars

LEMMA ResetLateTypes ==
  ASSUME TypeOK, NEW w \in Workers, NEW i \in DOMAIN late[w], ResetLate(w, i)
  PROVE  TypeOK'
<1>1. late[w] \in Seq(Entry) /\ late[w][i] \in Entry
  BY DEF TypeOK
<1>2. late[w][i].old \in Contexts
  BY <1>1 DEF Entry
<1>3. Used(late[w], i) \in Seq(Entry)
  BY <1>1, MarkedUsed
<1>4. /\ ctx' = [ctx EXCEPT ![w] = late[w][i].old]
      /\ late' = [late EXCEPT ![w] = Used(late[w], i)]
      /\ disordered' = [disordered EXCEPT ![w] = TRUE]
  BY DEF ResetLate, ResetTo
<1>5. ctx' \in [Workers -> Contexts] /\ late' \in [Workers -> Seq(Entry)]
  BY <1>2, <1>3, <1>4 DEF TypeOK
<1>6. disordered' \in [Workers -> BOOLEAN]
  BY <1>4 DEF TypeOK
<1>7. QED BY <1>5, <1>6 DEF TypeOK, ResetLate, workVars

LEMMA BeginTypes ==
  ASSUME TypeOK, NEW w \in Workers, NEW r \in store \cup {HostWork}, Begin(w, r)
  PROVE  TypeOK'
<1>1. r \in Request
  BY HostWorkType DEF TypeOK
<1>2. /\ busy' \in [Workers -> BOOLEAN] /\ work' \in [Workers -> Request]
      /\ start' \in [Workers -> Contexts]
  BY <1>1 DEF Begin, TypeOK
<1>3. stack' \in [Workers -> Seq(Entry)] /\ ctx' \in [Workers -> Contexts]
  <2>1. CASE Linked(r)
    <3>1. Set(w, "scope", FromMetadata(r.meta)) /\ FromMetadata(r.meta) \in Contexts
      BY <2>1 DEF Begin, FromMetadata, Contexts
    <3>2. QED BY <3>1, SetStep
  <2>2. CASE ~Linked(r)
    BY <2>2 DEF Begin, TypeOK
  <2>3. QED BY <2>1, <2>2
<1>4. QED BY <1>2, <1>3 DEF TypeOK, Begin, historyVars

LEMMA SubmitTypes ==
  ASSUME TypeOK, NEW w \in Workers,
         NEW r \in {New(j) : j \in Jobs} \cup store \cup {work[w]}, Submit(w, r)
  PROVE  TypeOK'
<1>1. r \in Request /\ ctx[w] \in Contexts /\ Cause(w) \in Contexts
  BY RequestTypes, CauseType DEF TypeOK
<1>2. WithCurrentTrace(r, ctx[w]) \in Contexts \cup {Damaged}
  BY <1>1, Capturing DEF Request
<1>3. Captured(w, r) \in Request
  <2>1. Clean(w) \in BOOLEAN /\ r.clean \in BOOLEAN /\ r.cause \in Contexts
        /\ r.job \in Jobs \cup {NoJob}
    BY <1>1 DEF Clean, TypeOK, Request
  <2>2. NoTrace \in Contexts
    BY DEF Contexts
  <2>3. QED BY <1>1, <1>2, <2>1, <2>2 DEF Captured, Request
<1>4. QED BY <1>3 DEF TypeOK, Submit, workVars, historyVars

LEMMA DamageTypes ==
  ASSUME TypeOK, NEW r \in store, Damage(r)
  PROVE  TypeOK'
<1>1. [r EXCEPT !.meta = Damaged, !.cause = NoTrace] \in Request
  BY DEF TypeOK, Request, Contexts
<1>2. QED BY <1>1 DEF TypeOK, Damage, workVars, historyVars

-----------------------------------------------------------------------------
(* The inductive invariant, in parts.                                      *)

\* Work in hand leaves nothing behind but, at most, a context.
AtRest(w) ==
  ~busy[w] => /\ stack[w] = <<>> /\ work[w] = HostWork /\ start[w] = NoTrace
              /\ ~bare[w] /\ ~disordered[w]
              /\ ~dirty[w] => ctx[w] = NoTrace

\* Work on a request with a trace stands on the scope that restored it.
BaseScope(w) ==
  busy[w] /\ Linked(work[w]) =>
    /\ stack[w] # <<>> /\ stack[w][1].kind = "scope"
    /\ stack[w][1].old = start[w] /\ stack[w][1].new = FromMetadata(work[w].meta)

\* Until a token is reset out of order the stack leads from the context at
\* the start to the present one.
InOrder(w) == busy[w] /\ ~disordered[w] => Chained(stack[w], start[w], ctx[w])

\* Without bare sets there are only scopes, of one trace.
ScopesOnly(w) == ~bare[w] => ~disordered[w] /\ OneTrace(stack[w])

\* Only tokens outlive the scope they were made in.
NothingLate(w) == ~bare[w] => late[w] = <<>>

CleanStart(w) == busy[w] /\ ~dirty[w] => start[w] = NoTrace

\* The metadata of a clean request tell its cause.
TellsCause(r) == r.clean => FromMetadata(r.meta) = r.cause

WorkerInv(w) ==
  /\ AtRest(w) /\ BaseScope(w) /\ InOrder(w) /\ ScopesOnly(w) /\ NothingLate(w)
  /\ CleanStart(w) /\ TellsCause(work[w])

RequestInv == \A r \in store : TellsCause(r)

IInv == TypeOK /\ (\A w \in Workers : WorkerInv(w)) /\ RequestInv

LEMMA HostWorkTells == TellsCause(HostWork) /\ ~Linked(HostWork)
  BY ConstantsAssumption DEF TellsCause, HostWork, Linked, FromMetadata

\* A step of another worker does not disturb w.
LEMMA Undisturbed ==
  ASSUME NEW w, WorkerInv(w),
         busy'[w] = busy[w], work'[w] = work[w], start'[w] = start[w], ctx'[w] = ctx[w],
         stack'[w] = stack[w], late'[w] = late[w], bare'[w] = bare[w],
         disordered'[w] = disordered[w], dirty'[w] = dirty[w]
  PROVE  WorkerInv(w)'
  BY DEF WorkerInv, AtRest, BaseScope, InOrder, ScopesOnly, NothingLate, CleanStart, TellsCause,
         Linked, FromMetadata

\* While w is busy and no bare set has had a part, its context is the trace
\* of the user request behind it.
LEMMA ContextIsCause ==
  ASSUME TypeOK, NEW w \in Workers, WorkerInv(w), busy[w], Clean(w)
  PROVE  ctx[w] = Cause(w)
<1>1. /\ Chained(stack[w], NoTrace, ctx[w]) /\ OneTrace(stack[w])
      /\ FromMetadata(work[w].meta) = work[w].cause
  BY DEF WorkerInv, InOrder, ScopesOnly, CleanStart, TellsCause, Clean
<1>2. CASE stack[w] = <<>>
  <2>1. ~Linked(work[w]) /\ ctx[w] = NoTrace
    BY <1>1, <1>2 DEF WorkerInv, BaseScope, Chained
  <2>2. QED BY <1>1, <1>2, <2>1 DEF Cause, Linked
<1>3. CASE stack[w] # <<>>
  <2>1. Len(stack[w]) \in DOMAIN stack[w]
    BY <1>3, StackTypes
  <2>2. ctx[w] = stack[w][1].new
    BY <1>1, <1>3, <2>1 DEF Chained, OneTrace
  <2>3. QED BY <1>1, <1>3, <2>2 DEF Cause, WorkerInv, BaseScope, Linked
<1>4. QED BY <1>2, <1>3

\* What a push does to the stack and context of w, in the terms above.
LEMMA PushInOrder ==
  ASSUME TypeOK, NEW w \in Workers, InOrder(w), busy[w], ~disordered[w],
         NEW kind \in {"scope", "token"}, NEW context \in Contexts, Set(w, kind, context)
  PROVE  Chained(stack'[w], start[w], ctx'[w])
<1> DEFINE e == [kind |-> kind, old |-> ctx[w], new |-> context]
<1>1. /\ e \in Entry /\ stack' = [stack EXCEPT ![w] = Append(@, e)]
      /\ ctx' = [ctx EXCEPT ![w] = context]
  BY SetStep
<1>2. stack[w] \in Seq(Entry) /\ Chained(stack[w], start[w], e.old)
  BY StackTypes DEF InOrder
<1>3. stack'[w] = Append(stack[w], e) /\ ctx'[w] = e.new
  BY <1>1 DEF TypeOK
<1> HIDE DEF e
<1>4. QED BY <1>1, <1>2, <1>3, ChainedAppend

LEMMA PushKeepsBase ==
  ASSUME TypeOK, NEW w \in Workers, stack[w] # <<>>,
         NEW kind \in {"scope", "token"}, NEW context \in Contexts, Set(w, kind, context)
  PROVE  stack'[w] # <<>> /\ stack'[w][1] = stack[w][1]
<1> DEFINE e == [kind |-> kind, old |-> ctx[w], new |-> context]
<1>1. e \in Entry /\ stack' = [stack EXCEPT ![w] = Append(@, e)]
  BY SetStep
<1>2. stack[w] \in Seq(Entry) /\ stack'[w] = Append(stack[w], e)
  BY <1>1 DEF TypeOK
<1> HIDE DEF e
<1>3. 1 \in DOMAIN stack[w]
  BY <1>2
<1>4. QED BY <1>1, <1>2, <1>3, AppendEntry

LEMMA PrefixKeepsBase ==
  ASSUME NEW s \in Seq(Entry), NEW i \in DOMAIN s, i > 1
  PROVE  SubSeq(s, 1, i - 1) # <<>> /\ SubSeq(s, 1, i - 1)[1] = s[1]
  BY PrefixEntries

-----------------------------------------------------------------------------
(* Each action preserves the invariant.                                    *)

LEMMA OpenSpanInv ==
  ASSUME IInv, NEW w \in Workers, OpenSpan(w)
  PROVE  IInv'
<1>1. TypeOK /\ TypeOK' /\ busy[w]
  BY OpenSpanTypes DEF IInv, OpenSpan
<1>2. PICK context \in Contexts :
        /\ Set(w, "scope", context) /\ context # NoTrace
        /\ ctx[w] # NoTrace => context = ctx[w]
  <2>1. ctx[w] \in Contexts
    BY <1>1 DEF TypeOK
  <2>2. QED BY <2>1, ConstantsAssumption DEF OpenSpan, Contexts
<1>3. /\ store' = store /\ busy' = busy /\ work' = work /\ start' = start /\ late' = late
      /\ bare' = bare /\ disordered' = disordered /\ dirty' = dirty
  BY DEF OpenSpan, workVars, historyVars
<1> DEFINE e == [kind |-> "scope", old |-> ctx[w], new |-> context]
<1>4. /\ e \in Entry /\ stack' = [stack EXCEPT ![w] = Append(@, e)]
      /\ ctx' = [ctx EXCEPT ![w] = context]
  BY <1>1, <1>2, SetStep
<1>5. WorkerInv(w)'
  <2>1. AtRest(w)' /\ NothingLate(w)' /\ CleanStart(w)' /\ TellsCause(work[w])'
    BY <1>1, <1>3 DEF IInv, WorkerInv, AtRest, NothingLate, CleanStart, TellsCause, FromMetadata
  <2>2. BaseScope(w)'
    BY <1>1, <1>2, <1>3, PushKeepsBase DEF IInv, WorkerInv, BaseScope, Linked, FromMetadata
  <2>3. InOrder(w)'
    BY <1>1, <1>2, <1>3, PushInOrder DEF IInv, WorkerInv, InOrder
  <2>4. ScopesOnly(w)'
    <3>1. SUFFICES ASSUME ~bare[w]
                   PROVE  ~disordered[w] /\ OneTrace(stack'[w])
      BY <1>3 DEF ScopesOnly
    <3>2. /\ ~disordered[w] /\ OneTrace(stack[w]) /\ Chained(stack[w], start[w], ctx[w])
      BY <1>1, <3>1 DEF IInv, WorkerInv, ScopesOnly, InOrder
    <3>3. stack[w] \in Seq(Entry) /\ stack'[w] = Append(stack[w], e)
      BY <1>1, <1>4 DEF TypeOK
    <3>4. stack[w] # <<>> => e.new = stack[w][Len(stack[w])].new
      <4>1. HAVE stack[w] # <<>>
      <4>2. Len(stack[w]) \in DOMAIN stack[w]
        BY <3>3, <4>1
      <4>3. ctx[w] = stack[w][Len(stack[w])].new /\ ctx[w] # NoTrace
        BY <3>2, <4>1, <4>2 DEF Chained, OneTrace
      <4>4. QED BY <1>2, <4>3
    <3>5. e.kind = "scope" /\ e.new # NoTrace
      BY <1>2
    <3> HIDE DEF e
    <3>6. QED BY <1>4, <3>2, <3>3, <3>4, <3>5, OneTraceAppend
  <2>5. QED BY <2>1, <2>2, <2>3, <2>4 DEF WorkerInv
<1>6. ASSUME NEW v \in Workers, v # w PROVE WorkerInv(v)'
  BY <1>1, <1>3, <1>4, <1>6, Undisturbed DEF IInv, TypeOK
<1>7. RequestInv'
  BY <1>3 DEF IInv, RequestInv, TellsCause, FromMetadata
<1>8. QED BY <1>1, <1>5, <1>6, <1>7 DEF IInv

LEMMA CloseSpanInv ==
  ASSUME IInv, NEW w \in Workers, CloseSpan(w)
  PROVE  IInv'
<1>1. TypeOK /\ TypeOK' /\ busy[w] /\ stack[w] \in Seq(Entry)
  BY CloseSpanTypes, StackTypes DEF IInv, CloseSpan
<1>2. PICK i \in DOMAIN stack[w] :
        /\ Innermost(w, i) /\ i > Base(w)
        /\ ctx' = [ctx EXCEPT ![w] = stack[w][i].old]
        /\ stack' = [stack EXCEPT ![w] = SubSeq(@, 1, i - 1)]
        /\ late' = [late EXCEPT ![w] = @ \o SubSeq(stack[w], i + 1, Len(stack[w]))]
  BY DEF CloseSpan
<1>3. /\ store' = store /\ busy' = busy /\ work' = work /\ start' = start
      /\ bare' = bare /\ disordered' = disordered /\ dirty' = dirty
  BY DEF CloseSpan, workVars, historyVars
<1>4. ctx'[w] = stack[w][i].old /\ stack'[w] = SubSeq(stack[w], 1, i - 1)
  BY <1>1, <1>2 DEF TypeOK
<1>5. WorkerInv(w)'
  <2>1. AtRest(w)' /\ CleanStart(w)' /\ TellsCause(work[w])'
    BY <1>1, <1>3 DEF IInv, WorkerInv, AtRest, CleanStart, TellsCause, FromMetadata
  <2>2. BaseScope(w)'
    <3>1. SUFFICES ASSUME Linked(work[w])
                   PROVE  stack'[w] # <<>> /\ stack'[w][1] = stack[w][1]
      BY <1>1, <1>3 DEF IInv, WorkerInv, BaseScope, Linked, FromMetadata
    <3>2. i > 1
      BY <1>2, <3>1 DEF Base
    <3>3. QED BY <1>1, <1>4, <3>2, PrefixKeepsBase
  <2>3. InOrder(w)'
    BY <1>1, <1>3, <1>4, ChainedPrefix DEF IInv, WorkerInv, InOrder
  <2>4. ScopesOnly(w)'
    BY <1>1, <1>3, <1>4, OneTracePrefix DEF IInv, WorkerInv, ScopesOnly
  <2>5. NothingLate(w)'
    <3>1. SUFFICES ASSUME ~bare[w] PROVE late'[w] = <<>>
      BY <1>3 DEF NothingLate
    <3>2. OneTrace(stack[w]) /\ late[w] = <<>>
      BY <1>1, <3>1 DEF IInv, WorkerInv, ScopesOnly, NothingLate
    <3>3. i = Len(stack[w]) /\ Len(stack[w]) \in Nat
      <4>1. \A k \in DOMAIN stack[w] : k <= i
        BY <1>2, <3>2 DEF Innermost, OneTrace
      <4>2. DOMAIN stack[w] = 1..Len(stack[w]) /\ Len(stack[w]) \in Nat
        BY <1>1
      <4>3. Len(stack[w]) <= i
        BY <4>1, <4>2
      <4>4. QED BY <4>2, <4>3
    <3>4. SubSeq(stack[w], i + 1, Len(stack[w])) = <<>>
      BY <1>1, <3>3
    <3>5. late'[w] = <<>> \o <<>>
      BY <1>1, <1>2, <3>2, <3>4 DEF TypeOK
    <3>6. QED BY <3>5
  <2>6. QED BY <2>1, <2>2, <2>3, <2>4, <2>5 DEF WorkerInv
<1>6. ASSUME NEW v \in Workers, v # w PROVE WorkerInv(v)'
  BY <1>1, <1>2, <1>3, <1>6, Undisturbed DEF IInv, TypeOK
<1>7. RequestInv'
  BY <1>3 DEF IInv, RequestInv, TellsCause, FromMetadata
<1>8. QED BY <1>1, <1>5, <1>6, <1>7 DEF IInv

LEMMA SetBareInv ==
  ASSUME IInv, NEW w \in Workers, NEW c \in issued \cup {NoTrace}, SetBare(w, c)
  PROVE  IInv'
<1>1. TypeOK /\ TypeOK' /\ busy[w] /\ c \in Contexts /\ Set(w, "token", c)
  BY SetBareTypes DEF IInv, SetBare, TypeOK, Contexts
<1>2. /\ store' = store /\ busy' = busy /\ work' = work /\ start' = start /\ late' = late
      /\ disordered' = disordered /\ dirty' = dirty /\ bare' = [bare EXCEPT ![w] = TRUE]
  BY DEF SetBare, workVars
<1>3. /\ \E e \in Entry : stack' = [stack EXCEPT ![w] = Append(@, e)]
      /\ ctx' = [ctx EXCEPT ![w] = c]
  BY <1>1, SetStep
<1>4. WorkerInv(w)'
  <2>1. AtRest(w)' /\ CleanStart(w)' /\ TellsCause(work[w])'
    BY <1>1, <1>2 DEF IInv, WorkerInv, AtRest, CleanStart, TellsCause, FromMetadata
  <2>2. BaseScope(w)'
    BY <1>1, <1>2, PushKeepsBase DEF IInv, WorkerInv, BaseScope, Linked, FromMetadata
  <2>3. InOrder(w)'
    BY <1>1, <1>2, PushInOrder DEF IInv, WorkerInv, InOrder
  <2>4. ScopesOnly(w)' /\ NothingLate(w)'
    BY <1>1, <1>2 DEF ScopesOnly, NothingLate, TypeOK
  <2>5. QED BY <2>1, <2>2, <2>3, <2>4 DEF WorkerInv
<1>5. ASSUME NEW v \in Workers, v # w PROVE WorkerInv(v)'
  BY <1>1, <1>2, <1>3, <1>5, Undisturbed DEF IInv, TypeOK
<1>6. RequestInv'
  BY <1>2 DEF IInv, RequestInv, TellsCause, FromMetadata
<1>7. QED BY <1>1, <1>4, <1>5, <1>6 DEF IInv

LEMMA ResetBareInv ==
  ASSUME IInv, NEW w \in Workers, NEW i \in DOMAIN stack[w], ResetBare(w, i)
  PROVE  IInv'
<1>1. TypeOK /\ TypeOK' /\ busy[w] /\ stack[w] \in Seq(Entry) /\ stack[w][i].kind = "token"
  BY ResetBareTypes, StackTypes DEF IInv, ResetBare
<1>2. /\ store' = store /\ busy' = busy /\ work' = work /\ start' = start
      /\ bare' = bare /\ dirty' = dirty /\ late' = late
      /\ ctx' = [ctx EXCEPT ![w] = stack[w][i].old]
  BY DEF ResetBare, ResetTo, workVars
\* A token is there only after a bare set, and not at the base.
<1>3. bare[w]
  BY <1>1 DEF IInv, WorkerInv, ScopesOnly, OneTrace
<1>4. Linked(work[w]) => i > 1
  <2>1. Linked(work[w]) => i # 1
    BY <1>1 DEF IInv, WorkerInv, BaseScope
  <2>2. QED BY <1>1, <2>1
<1>5. \/ /\ stack' = [stack EXCEPT ![w] = SubSeq(@, 1, i - 1)]
         /\ disordered' = disordered
      \/ /\ stack' = [stack EXCEPT ![w] = Used(@, i)]
         /\ disordered' = [disordered EXCEPT ![w] = TRUE]
  BY DEF ResetBare
<1>6. Linked(work[w]) => stack'[w] # <<>> /\ stack'[w][1] = stack[w][1]
  <2>1. SUFFICES ASSUME Linked(work[w])
                 PROVE  stack'[w] # <<>> /\ stack'[w][1] = stack[w][1]
    OBVIOUS
  <2>2. i > 1 /\ 1 \in DOMAIN stack[w] /\ 1 # i
    BY <1>1, <1>4, <2>1
  <2>3. CASE stack' = [stack EXCEPT ![w] = SubSeq(@, 1, i - 1)]
    <3>1. stack'[w] = SubSeq(stack[w], 1, i - 1)
      BY <1>1, <2>3 DEF TypeOK
    <3>2. QED BY <1>1, <2>2, <3>1, PrefixKeepsBase
  <2>4. CASE stack' = [stack EXCEPT ![w] = Used(@, i)]
    <3>1. stack'[w] = Used(stack[w], i)
      BY <1>1, <2>4 DEF TypeOK
    <3>2. Len(stack'[w]) = Len(stack[w]) /\ stack'[w][1] = stack[w][1]
      BY <1>1, <2>2, <3>1, MarkedUsed
    <3>3. QED BY <1>1, <2>2, <3>2
  <2>5. QED BY <1>5, <2>3, <2>4
<1>7. WorkerInv(w)'
  <2>1. AtRest(w)' /\ CleanStart(w)' /\ TellsCause(work[w])' /\ ScopesOnly(w)'
        /\ NothingLate(w)'
    BY <1>1, <1>2, <1>3
    DEF IInv, WorkerInv, AtRest, CleanStart, TellsCause, FromMetadata, ScopesOnly, NothingLate
  <2>2. BaseScope(w)'
    BY <1>1, <1>2, <1>6 DEF IInv, WorkerInv, BaseScope, Linked, FromMetadata
  <2>3. InOrder(w)'
    <3>1. CASE /\ stack' = [stack EXCEPT ![w] = SubSeq(@, 1, i - 1)]
               /\ disordered' = disordered
      <4>1. stack'[w] = SubSeq(stack[w], 1, i - 1) /\ ctx'[w] = stack[w][i].old
        BY <1>1, <1>2, <3>1 DEF TypeOK
      <4>2. QED BY <1>1, <1>2, <3>1, <4>1, ChainedPrefix DEF IInv, WorkerInv, InOrder
    <3>2. CASE disordered' = [disordered EXCEPT ![w] = TRUE]
      BY <1>1, <3>2 DEF InOrder, TypeOK
    <3>3. QED BY <1>5, <3>1, <3>2
  <2>4. QED BY <2>1, <2>2, <2>3 DEF WorkerInv
<1>8. ASSUME NEW v \in Workers, v # w PROVE WorkerInv(v)'
  <2>1. stack'[v] = stack[v] /\ disordered'[v] = disordered[v] /\ ctx'[v] = ctx[v]
    BY <1>1, <1>2, <1>5, <1>8 DEF TypeOK
  <2>2. QED BY <1>2, <2>1, Undisturbed DEF IInv
<1>9. RequestInv'
  BY <1>2 DEF IInv, RequestInv, TellsCause, FromMetadata
<1>10. QED BY <1>1, <1>7, <1>8, <1>9 DEF IInv

LEMMA ResetLateInv ==
  ASSUME IInv, NEW w \in Workers, NEW i \in DOMAIN late[w], ResetLate(w, i)
  PROVE  IInv'
<1>1. TypeOK /\ TypeOK' /\ busy[w] /\ WorkerInv(w)
  BY ResetLateTypes DEF IInv, ResetLate
<1>2. /\ store' = store /\ busy' = busy /\ work' = work /\ start' = start
      /\ bare' = bare /\ dirty' = dirty /\ stack' = stack
      /\ \E c : ctx' = [ctx EXCEPT ![w] = c]
      /\ \E l : late' = [late EXCEPT ![w] = l]
      /\ disordered' = [disordered EXCEPT ![w] = TRUE]
  BY DEF ResetLate, workVars
<1>3. bare[w]
  <2>1. late[w] # <<>>
    OBVIOUS
  <2>2. QED BY <1>1, <2>1 DEF WorkerInv, NothingLate
<1>4. WorkerInv(w)'
  <2>1. AtRest(w)' /\ CleanStart(w)' /\ TellsCause(work[w])' /\ ScopesOnly(w)' /\ NothingLate(w)'
    BY <1>1, <1>2, <1>3
    DEF WorkerInv, AtRest, CleanStart, TellsCause, FromMetadata, ScopesOnly, NothingLate
  <2>2. BaseScope(w)' /\ InOrder(w)'
    BY <1>1, <1>2 DEF WorkerInv, BaseScope, InOrder, Linked, FromMetadata, TypeOK
  <2>3. QED BY <2>1, <2>2 DEF WorkerInv
<1>5. ASSUME NEW v \in Workers, v # w PROVE WorkerInv(v)'
  <2>1. late'[v] = late[v] /\ disordered'[v] = disordered[v] /\ ctx'[v] = ctx[v]
    BY <1>1, <1>2, <1>5 DEF TypeOK
  <2>2. QED BY <1>2, <2>1, Undisturbed DEF IInv
<1>6. RequestInv'
  BY <1>2 DEF IInv, RequestInv, TellsCause, FromMetadata
<1>7. QED BY <1>1, <1>4, <1>5, <1>6 DEF IInv

LEMMA BeginInv ==
  ASSUME IInv, NEW w \in Workers, NEW r \in store \cup {HostWork}, Begin(w, r)
  PROVE  IInv'
<1>1. TypeOK /\ TypeOK' /\ ~busy[w] /\ AtRest(w) /\ ScopesOnly(w) /\ NothingLate(w)
  BY BeginTypes DEF IInv, Begin, WorkerInv
<1>2. /\ store' = store /\ busy' = [busy EXCEPT ![w] = TRUE] /\ work' = [work EXCEPT ![w] = r]
      /\ start' = [start EXCEPT ![w] = ctx[w]]
      /\ late' = late /\ bare' = bare /\ disordered' = disordered /\ dirty' = dirty
  BY DEF Begin, historyVars
<1>3. /\ busy'[w] /\ work'[w] = r /\ start'[w] = ctx[w]
      /\ stack[w] = <<>> /\ ~bare[w] /\ ~disordered[w] /\ (~dirty[w] => ctx[w] = NoTrace)
  BY <1>1, <1>2 DEF TypeOK, AtRest
<1>4. TellsCause(r)
  BY HostWorkTells DEF IInv, RequestInv
<1> DEFINE e == [kind |-> "scope", old |-> ctx[w], new |-> FromMetadata(r.meta)]
<1>5. ASSUME Linked(r) PROVE \A v \in Workers : WorkerInv(v)'
  <2>1. Set(w, "scope", FromMetadata(r.meta)) /\ FromMetadata(r.meta) \in Contexts
    BY <1>5 DEF Begin, FromMetadata, Contexts
  <2>2. /\ e \in Entry /\ stack' = [stack EXCEPT ![w] = Append(@, e)]
        /\ ctx' = [ctx EXCEPT ![w] = FromMetadata(r.meta)]
    BY <1>1, <2>1, SetStep
  <2>3. /\ stack'[w] = <<e>> /\ ctx'[w] = e.new /\ e.kind = "scope" /\ e.old = ctx[w]
        /\ e.new = FromMetadata(r.meta) /\ e.new # NoTrace
    BY <1>1, <1>3, <1>5, <2>2 DEF TypeOK, Linked
  <2> HIDE DEF e
  <2>4. WorkerInv(w)'
    <3>1. stack'[w] # <<>> /\ Len(stack'[w]) = 1 /\ stack'[w][1] = e /\ DOMAIN stack'[w] = {1}
      BY <2>3
    <3>2. AtRest(w)' /\ NothingLate(w)' /\ CleanStart(w)' /\ TellsCause(work[w])'
      BY <1>1, <1>2, <1>3, <1>4 DEF AtRest, NothingLate, CleanStart, TellsCause, FromMetadata
    <3>3. BaseScope(w)'
      BY <1>3, <2>3, <3>1 DEF BaseScope, FromMetadata
    <3>4. InOrder(w)'
      BY <1>3, <2>3, <3>1 DEF InOrder, Chained
    <3>5. ScopesOnly(w)'
      BY <1>2, <1>3, <2>3, <3>1 DEF ScopesOnly, OneTrace
    <3>6. QED BY <3>2, <3>3, <3>4, <3>5 DEF WorkerInv
  <2>5. ASSUME NEW v \in Workers, v # w PROVE WorkerInv(v)'
    BY <1>1, <1>2, <2>2, <2>5, Undisturbed DEF IInv, TypeOK
  <2>6. QED BY <2>4, <2>5
<1>6. ASSUME ~Linked(r) PROVE \A v \in Workers : WorkerInv(v)'
  <2>1. stack' = stack /\ ctx' = ctx
    BY <1>6 DEF Begin
  <2>2. WorkerInv(w)'
    <3>1. AtRest(w)' /\ NothingLate(w)' /\ CleanStart(w)' /\ TellsCause(work[w])'
      BY <1>1, <1>2, <1>3, <1>4 DEF AtRest, NothingLate, CleanStart, TellsCause, FromMetadata
    <3>2. BaseScope(w)'
      BY <1>3, <1>6 DEF BaseScope, Linked, FromMetadata
    <3>3. InOrder(w)' /\ ScopesOnly(w)'
      BY <1>2, <1>3, <2>1 DEF InOrder, Chained, ScopesOnly, OneTrace
    <3>4. QED BY <3>1, <3>2, <3>3 DEF WorkerInv
  <2>3. ASSUME NEW v \in Workers, v # w PROVE WorkerInv(v)'
    BY <1>1, <1>2, <2>1, <2>3, Undisturbed DEF IInv, TypeOK
  <2>4. QED BY <2>2, <2>3
<1>7. \A v \in Workers : WorkerInv(v)'
  BY <1>5, <1>6
<1>8. RequestInv'
  BY <1>2 DEF IInv, RequestInv, TellsCause, FromMetadata
<1>9. QED BY <1>1, <1>7, <1>8 DEF IInv

\* The context after the work is the one before it, unless a bare set
\* outside any scope was left behind.
LEMMA ContextGivenBack ==
  ASSUME IInv, NEW w \in Workers, NEW how, Finish(w, how)
  PROVE  /\ ContextAfter(w, how) \in Contexts
         /\ ContextAfter(w, how) = start[w] \/ (bare[w] /\ Base(w) = 0)
<1>1. TypeOK /\ WorkerInv(w) /\ busy[w] /\ stack[w] \in Seq(Entry)
  BY StackTypes DEF IInv, Finish
<1>2. CASE Linked(work[w])
  <2>1. stack[w] # <<>> /\ stack[w][1].old = start[w] /\ start[w] \in Contexts
    BY <1>1, <1>2 DEF WorkerInv, BaseScope, TypeOK
  <2>2. QED BY <1>2, <2>1 DEF ContextAfter, Base
<1>3. CASE ~Linked(work[w])
  <2>1. Base(w) = 0 /\ ContextAfter(w, how) = ctx[w] /\ ctx[w] \in Contexts
    BY <1>1, <1>3 DEF ContextAfter, Base, TypeOK
  <2>2. ASSUME ~bare[w] PROVE ctx[w] = start[w]
    <3>1. OneTrace(stack[w]) /\ Chained(stack[w], start[w], ctx[w])
      BY <1>1, <2>2 DEF WorkerInv, ScopesOnly, InOrder
    <3>2. \A i \in DOMAIN stack[w] : i <= 0
      BY <2>1, <3>1 DEF Finish, OneTrace
    <3>3. DOMAIN stack[w] = 1..Len(stack[w]) /\ Len(stack[w]) \in Nat
      BY <1>1
    <3>4. Len(stack[w]) = 0
      BY <3>2, <3>3
    <3>5. stack[w] = <<>>
      BY <1>1, <3>4
    <3>6. QED BY <3>1, <3>5 DEF Chained
  <2>3. QED BY <2>1, <2>2
<1>4. QED BY <1>2, <1>3

LEMMA FinishTypes ==
  ASSUME IInv, NEW w \in Workers, NEW how, Finish(w, how)
  PROVE  TypeOK'
<1>1. TypeOK /\ ContextAfter(w, how) \in Contexts
  BY ContextGivenBack DEF IInv
<1>2. ctx' \in [Workers -> Contexts] /\ work' \in [Workers -> Request]
      /\ start' \in [Workers -> Contexts]
  BY <1>1, HostWorkType DEF Finish, TypeOK, Contexts
<1>3. /\ stack' \in [Workers -> Seq(Entry)] /\ late' \in [Workers -> Seq(Entry)]
      /\ dirty' \in [Workers -> BOOLEAN]
  BY <1>1 DEF Finish, TypeOK
<1>4. /\ busy' \in [Workers -> BOOLEAN] /\ bare' \in [Workers -> BOOLEAN]
      /\ disordered' \in [Workers -> BOOLEAN]
  BY <1>1 DEF Finish, TypeOK
<1>5. issued' = issued /\ store' = store
  BY DEF Finish
<1>6. QED BY <1>1, <1>2, <1>3, <1>4, <1>5 DEF TypeOK

LEMMA FinishInv ==
  ASSUME IInv, NEW w \in Workers, NEW how, Finish(w, how)
  PROVE  IInv'
<1>1. TypeOK /\ TypeOK' /\ busy[w] /\ WorkerInv(w) /\ store' = store
  BY FinishTypes DEF IInv, Finish
<1>2. /\ ~busy'[w] /\ work'[w] = HostWork /\ start'[w] = NoTrace /\ stack'[w] = <<>>
      /\ late'[w] = <<>>
      /\ ~bare'[w] /\ ~disordered'[w] /\ ctx'[w] = ContextAfter(w, how)
  BY <1>1 DEF Finish, TypeOK
<1>3. ~dirty'[w] => ctx'[w] = NoTrace
  <2>1. HAVE ~dirty'[w]
  <2>2. ~dirty[w] /\ ~(bare[w] /\ Base(w) = 0)
    BY <1>1, <2>1 DEF Finish, TypeOK
  <2>3. start[w] = NoTrace
    BY <1>1, <2>2 DEF WorkerInv, CleanStart
  <2>4. QED BY <1>2, <2>2, <2>3, ContextGivenBack
<1>4. WorkerInv(w)'
  <2>1. AtRest(w)' /\ BaseScope(w)' /\ InOrder(w)' /\ CleanStart(w)'
    BY <1>2, <1>3 DEF AtRest, BaseScope, InOrder, CleanStart
  <2>2. ScopesOnly(w)' /\ NothingLate(w)' /\ TellsCause(work[w])'
    BY <1>2, HostWorkTells DEF ScopesOnly, NothingLate, OneTrace, TellsCause, FromMetadata
  <2>3. QED BY <2>1, <2>2 DEF WorkerInv
<1>5. ASSUME NEW v \in Workers, v # w PROVE WorkerInv(v)'
  <2>1. /\ busy'[v] = busy[v] /\ work'[v] = work[v] /\ start'[v] = start[v]
        /\ ctx'[v] = ctx[v] /\ stack'[v] = stack[v] /\ late'[v] = late[v] /\ bare'[v] = bare[v]
        /\ disordered'[v] = disordered[v] /\ dirty'[v] = dirty[v]
    BY <1>1, <1>5 DEF Finish, TypeOK
  <2>2. QED BY <2>1, Undisturbed DEF IInv
<1>6. RequestInv'
  BY <1>1 DEF IInv, RequestInv, TellsCause, FromMetadata
<1>7. QED BY <1>1, <1>4, <1>5, <1>6 DEF IInv

\* A request submitted tells its cause when no bare set has had a part.
LEMMA CapturedTells ==
  ASSUME IInv, NEW w \in Workers, busy[w],
         NEW r \in {New(j) : j \in Jobs} \cup store \cup {work[w]}
  PROVE  TellsCause(Captured(w, r))
<1>1. TypeOK /\ WorkerInv(w) /\ Cause(w) \in Contexts
  BY CauseType DEF IInv
<1>2. TellsCause(r)
  <2>1. \A j \in Jobs : TellsCause(New(j))
    BY ConstantsAssumption DEF TellsCause, New, FromMetadata
  <2>2. QED BY <1>1, <2>1 DEF IInv, RequestInv, WorkerInv
<1>3. SUFFICES ASSUME Clean(w), Cause(w) # NoTrace \/ r.clean
               PROVE  FromMetadata(Captured(w, r).meta) = Captured(w, r).cause
  BY DEF TellsCause, Captured
<1>4. ctx[w] = Cause(w)
  BY <1>1, <1>3, ContextIsCause
<1>5. CASE Cause(w) = NoTrace
  BY <1>2, <1>3, <1>4, <1>5, Capturing DEF Captured, TellsCause
<1>6. CASE Cause(w) # NoTrace
  <2>1. Captured(w, r).meta = Cause(w) /\ Captured(w, r).cause = Cause(w)
    BY <1>3, <1>4, <1>6, Capturing DEF Captured
  <2>2. Cause(w) \in Traces
    BY <1>1, <1>6 DEF Contexts
  <2>3. QED BY <2>1, <2>2 DEF FromMetadata
<1>7. QED BY <1>5, <1>6

LEMMA SubmitInv ==
  ASSUME IInv, NEW w \in Workers,
         NEW r \in {New(j) : j \in Jobs} \cup store \cup {work[w]}, Submit(w, r)
  PROVE  IInv'
<1>1. TypeOK' /\ busy[w] /\ store' = store \cup {Captured(w, r)}
  BY SubmitTypes DEF IInv, Submit
<1>2. RequestInv'
  BY <1>1, CapturedTells DEF IInv, RequestInv, TellsCause, FromMetadata
<1>3. \A v \in Workers : WorkerInv(v)'
  BY Undisturbed DEF IInv, Submit, workVars, historyVars
<1>4. QED BY <1>1, <1>2, <1>3 DEF IInv

LEMMA DamageInv ==
  ASSUME IInv, NEW r \in store, Damage(r)
  PROVE  IInv'
<1> DEFINE d == [r EXCEPT !.meta = Damaged, !.cause = NoTrace]
<1>1. TypeOK' /\ store' = (store \ {r}) \cup {d}
  BY DamageTypes DEF IInv, Damage
<1>2. r \in Request
  BY DEF IInv, TypeOK
<1>3. d.meta = Damaged /\ d.cause = NoTrace
  BY <1>2 DEF Request
<1>4. TellsCause(d)
  BY <1>3, ConstantsAssumption DEF TellsCause, FromMetadata
<1> HIDE DEF d
<1>5. RequestInv'
  BY <1>1, <1>4 DEF IInv, RequestInv, TellsCause, FromMetadata
<1>6. \A v \in Workers : WorkerInv(v)'
  BY Undisturbed DEF IInv, Damage, workVars, historyVars
<1>7. QED BY <1>1, <1>5, <1>6 DEF IInv

LEMMA InitInv == Init => IInv
<1>1. SUFFICES ASSUME Init PROVE IInv
  OBVIOUS
<1>2. TypeOK
  BY <1>1, HostWorkType DEF Init, TypeOK, Contexts
<1>3. ASSUME NEW w \in Workers PROVE WorkerInv(w)
  <2>1. /\ ~busy[w] /\ stack[w] = <<>> /\ work[w] = HostWork /\ start[w] = NoTrace
        /\ ~bare[w] /\ ~disordered[w] /\ ctx[w] = NoTrace /\ late[w] = <<>>
    BY <1>1 DEF Init
  <2>2. AtRest(w) /\ BaseScope(w) /\ InOrder(w) /\ CleanStart(w)
    BY <2>1 DEF AtRest, BaseScope, InOrder, CleanStart
  <2>3. ScopesOnly(w) /\ NothingLate(w) /\ TellsCause(work[w])
    BY <2>1, HostWorkTells DEF ScopesOnly, NothingLate, OneTrace
  <2>4. QED BY <2>2, <2>3 DEF WorkerInv
<1>4. QED BY <1>1, <1>2, <1>3 DEF Init, IInv, RequestInv

LEMMA NextInv == IInv /\ [Next]_vars => IInv'
<1>1. SUFFICES ASSUME IInv, [Next]_vars PROVE IInv'
  OBVIOUS
<1>2. ASSUME NEW w \in Workers, WorkStep(w) PROVE IInv'
  <2>1. ASSUME NEW r \in store \cup {HostWork}, Begin(w, r) PROVE IInv'
    BY <1>1, <2>1, BeginInv
  <2>2. ASSUME NEW how \in {"returns", "raises"}, Finish(w, how) PROVE IInv'
    BY <1>1, <2>2, FinishInv
  <2>3. ASSUME NEW r \in {New(j) : j \in Jobs} \cup store \cup {work[w]}, Submit(w, r)
        PROVE  IInv'
    BY <1>1, <2>3, SubmitInv
  <2>4. CASE OpenSpan(w)
    BY <1>1, <2>4, OpenSpanInv
  <2>5. CASE CloseSpan(w)
    BY <1>1, <2>5, CloseSpanInv
  <2>6. ASSUME NEW c \in issued \cup {NoTrace}, SetBare(w, c) PROVE IInv'
    BY <1>1, <2>6, SetBareInv
  <2>7. ASSUME NEW i \in DOMAIN stack[w], ResetBare(w, i) PROVE IInv'
    BY <1>1, <2>7, ResetBareInv
  <2>8. ASSUME NEW i \in DOMAIN late[w], ResetLate(w, i) PROVE IInv'
    BY <1>1, <2>8, ResetLateInv
  <2>9. QED BY <1>2, <2>1, <2>2, <2>3, <2>4, <2>5, <2>6, <2>7, <2>8 DEF WorkStep
<1>3. ASSUME NEW r \in store, Damage(r) PROVE IInv'
  BY <1>1, <1>3, DamageInv
<1>4. CASE UNCHANGED vars
  <2>1. /\ issued' = issued /\ store' = store /\ busy' = busy /\ work' = work
        /\ start' = start /\ ctx' = ctx /\ stack' = stack /\ late' = late /\ bare' = bare
        /\ disordered' = disordered /\ dirty' = dirty
    BY <1>4 DEF vars, workVars, historyVars
  <2>2. TypeOK' /\ RequestInv'
    BY <1>1, <2>1 DEF IInv, TypeOK, RequestInv, TellsCause, FromMetadata
  <2>3. \A v \in Workers : WorkerInv(v)'
    BY <1>1, <2>1, Undisturbed DEF IInv
  <2>4. QED BY <2>2, <2>3 DEF IInv
<1>5. QED BY <1>1, <1>2, <1>3, <1>4 DEF Next

LEMMA Inductive == Spec => []IInv
  BY InitInv, NextInv, PTL DEF Spec

-----------------------------------------------------------------------------
(* The theorems.                                                           *)

\* Every variable of Handoff holds a value of its kind, for any threads,
\* requests, traces and bounds.
THEOREM TypeCorrect == Spec => []TypeOK
<1>1. IInv => TypeOK
  BY DEF IInv
<1>2. QED BY <1>1, Inductive, PTL

\* What a thread does is in the trace of the user request behind it, through
\* any chain of deferred requests, retries and repeated deliveries.
THEOREM TracesFollowWork == Spec => []WorkKeepsItsTrace
<1>1. IInv => WorkKeepsItsTrace
  <2>1. SUFFICES ASSUME IInv PROVE WorkKeepsItsTrace
    OBVIOUS
  <2>2. ASSUME NEW w \in Workers, busy[w], Clean(w) PROVE ctx[w] = Cause(w)
    BY <2>1, <2>2, ContextIsCause DEF IInv
  <2>3. ASSUME NEW r \in store, r.clean PROVE FromMetadata(r.meta) = r.cause
    BY <2>1, <2>3 DEF IInv, RequestInv, TellsCause
  <2>4. QED BY <2>2, <2>3 DEF WorkKeepsItsTrace
<1>2. QED BY <1>1, Inductive, PTL

\* No work leaks its trace to the next that its thread takes up.
THEOREM ThreadsAreClean == Spec => []ThreadsStartClean
<1>1. IInv => ThreadsStartClean
  BY DEF IInv, WorkerInv, AtRest, ThreadsStartClean
<1>2. QED BY <1>1, Inductive, PTL

\* Tokens reset in reverse order restore the context the work began with.
THEOREM TokensDoRestore == Spec => []TokensRestore
<1>1. IInv => TokensRestore
  <2>1. SUFFICES ASSUME IInv, NEW w \in Workers, busy[w], ~disordered[w],
                        Len(stack[w]) = Base(w)
                 PROVE  ctx[w] = IF Base(w) = 1 THEN FromMetadata(work[w].meta) ELSE start[w]
    BY DEF TokensRestore
  <2>2. stack[w] \in Seq(Entry) /\ Chained(stack[w], start[w], ctx[w]) /\ BaseScope(w)
    BY <2>1, StackTypes DEF IInv, WorkerInv, InOrder
  <2>3. CASE Linked(work[w])
    BY <2>1, <2>2, <2>3 DEF BaseScope, Base, Chained
  <2>4. CASE ~Linked(work[w])
    <3>1. Base(w) = 0 /\ stack[w] = <<>>
      BY <2>1, <2>2, <2>4 DEF Base
    <3>2. QED BY <2>2, <3>1 DEF Chained
  <2>5. QED BY <2>3, <2>4
<1>2. QED BY <1>1, Inductive, PTL
================================================================================
