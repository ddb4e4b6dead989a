-------------------------------- MODULE Handoff --------------------------------
(***************************************************************************)
(* How one trace follows work that is completed later: JobRequest          *)
(* (src/src/butler_core/jobs.py) and OutputRequest (output.py) carry the   *)
(* current trace in their metadata, a store keeps the requests, and a      *)
(* worker restores the trace before it works on one (tracing.py). Workers  *)
(* open spans, submit further requests and retry old ones; some also call  *)
(* the bare set_trace_context and reset_trace_context. A store may deliver *)
(* a request late, again, never, or with damaged metadata.                 *)
(*                                                                         *)
(* A context stands for its trace id: spans of a trace are not told apart. *)
(***************************************************************************)
EXTENDS Naturals, Sequences, FiniteSets

CONSTANTS
  Workers,           \* threads, of hosts and of job runners
  BareUsers,         \* those whose work calls the bare functions
  Jobs,              \* job and output requests, by identity
  Outputs,           \* those that are OutputRequests
  Traces, NoTrace,   \* trace ids, and None
  Damaged,           \* metadata from_metadata does not accept
  NoJob,
  MaxStack,          \* bound: scopes and tokens that a thread's work has
  MaxRequests        \* bound: requests in the store

ASSUME ConstantsAssumption ==
  /\ NoTrace \notin Traces
  /\ Damaged \notin Traces \cup {NoTrace}
  /\ NoJob \notin Jobs
  /\ MaxStack \in Nat /\ MaxRequests \in Nat

Contexts == Traces \cup {NoTrace}

\* A request and, as history, the trace of the user request behind it and
\* whether no bare set_trace_context had a part in that.
Request ==
  [job : Jobs \cup {NoJob}, meta : Contexts \cup {Damaged},
   cause : Contexts, clean : BOOLEAN]

\* What the context variable was set to by whom, and the value before: by a
\* trace_context block, or by a bare call whose token is live or used.
Entry == [kind : {"scope", "token", "used"}, old : Contexts, new : Contexts]

VARIABLES
  issued,       \* trace ids drawn by TraceContext.root()
  store,        \* the requests submitted
  busy,         \* busy[w]: w works on work[w]
  work,         \* a request of the store, or HostWork
  ctx,          \* ctx[w]: _current_trace_context of w
  stack,        \* stack[w]: the open scopes and the tokens of w's work
  late,         \* late[w]: the tokens whose scope has been left
  start,        \* history: ctx[w] when the work in hand began
  bare,         \* history: the work in hand has called set_trace_context
  disordered,   \* history: a token was reset that was not the last
  dirty         \* history: work outside any scope has left ctx[w] changed

workVars == <<busy, work, start>>
historyVars == <<bare, disordered, dirty>>
vars == <<issued, store, workVars, ctx, stack, late, historyVars>>

\* A thread handling a user request, not one of the store.
HostWork == [job |-> NoJob, meta |-> NoTrace, cause |-> NoTrace, clean |-> TRUE]

New(j) == [job |-> j, meta |-> NoTrace, cause |-> NoTrace, clean |-> TRUE]

Init ==
  /\ issued = {}
  /\ store = {}
  /\ busy = [w \in Workers |-> FALSE]
  /\ work = [w \in Workers |-> HostWork]
  /\ ctx = [w \in Workers |-> NoTrace]
  /\ stack = [w \in Workers |-> <<>>]
  /\ late = [w \in Workers |-> <<>>]
  /\ start = [w \in Workers |-> NoTrace]
  /\ bare = [w \in Workers |-> FALSE]
  /\ disordered = [w \in Workers |-> FALSE]
  /\ dirty = [w \in Workers |-> FALSE]

-----------------------------------------------------------------------------
\* Mutant: whatever the metadata holds is taken for a context.
Unchecked(meta) == meta

\* TraceContext.from_metadata: None for metadata without a context, or with
\* one that is not well formed.
FromMetadata(meta) == IF meta \in Traces THEN meta ELSE NoTrace

\* Mutant: a request submitted outside any trace loses the one it had.
Overwrite(meta, context) == context

\* JobRequest.with_trace_context: None leaves the metadata alone.
WithTrace(meta, context) == IF context = NoTrace THEN meta ELSE context

\* OutputRequest.with_trace_context takes a context; the test for None is in
\* with_current_trace.
OutputWithTrace(meta, context) == context
OutputWithCurrentTrace(meta, current) ==
  IF current = NoTrace THEN meta ELSE OutputWithTrace(meta, current)

WithCurrentTrace(r, current) ==
  IF r.job \in Outputs THEN OutputWithCurrentTrace(r.meta, current)
  ELSE WithTrace(r.meta, current)

\* The worker restores a trace when the request carries one.
Linked(r) == FromMetadata(r.meta) # NoTrace
Base(w) == IF Linked(work[w]) THEN 1 ELSE 0

\* The user request that the work of w is for, if it has a trace at all:
\* that of the request it was submitted by, or the first it opened.
Cause(w) ==
  IF work[w].cause # NoTrace THEN work[w].cause
  ELSE IF stack[w] = <<>> THEN NoTrace ELSE stack[w][1].new

\* Only scopes have decided what the context of w is.
Clean(w) == ~bare[w] /\ ~dirty[w] /\ work[w].clean

-----------------------------------------------------------------------------
(* trace_context and the two bare functions.                               *)

Set(w, kind, context) ==
  /\ Len(stack[w]) + Len(late[w]) < MaxStack
  /\ stack' = [stack EXCEPT ![w] = Append(@, [kind |-> kind, old |-> ctx[w], new |-> context])]
  /\ ctx' = [ctx EXCEPT ![w] = context]

\* traced_span, or trace_context with the context of a request handled at
\* the top: a child keeps the trace, without a parent there is a new root.
OpenSpan(w) ==
  /\ busy[w]
  /\ \/ /\ ctx[w] # NoTrace
        /\ Set(w, "scope", ctx[w])
        /\ UNCHANGED issued
     \/ /\ ctx[w] = NoTrace
        /\ \E t \in Traces \ issued : Set(w, "scope", t) /\ issued' = issued \cup {t}
  /\ UNCHANGED <<store, late, workVars, historyVars>>

\* The innermost scope.
Innermost(w, i) ==
  /\ i \in DOMAIN stack[w] /\ stack[w][i].kind = "scope"
  /\ \A k \in DOMAIN stack[w] : stack[w][k].kind = "scope" => k <= i

\* Leaving the scope resets its token, whatever was set inside it. The tokens
\* made inside it can still be reset.
CloseSpan(w) ==
  /\ busy[w]
  /\ \E i \in DOMAIN stack[w] :
       /\ Innermost(w, i) /\ i > Base(w)
       /\ ctx' = [ctx EXCEPT ![w] = stack[w][i].old]
       /\ stack' = [stack EXCEPT ![w] = SubSeq(@, 1, i - 1)]
       /\ late' = [late EXCEPT ![w] = @ \o SubSeq(stack[w], i + 1, Len(stack[w]))]
  /\ UNCHANGED <<issued, store, workVars, historyVars>>

SetBare(w, context) ==
  /\ busy[w] /\ w \in BareUsers
  /\ Set(w, "token", context)
  /\ bare' = [bare EXCEPT ![w] = TRUE]
  /\ UNCHANGED <<issued, store, late, workVars, disordered, dirty>>

\* Mutant: reset_trace_context clears the context.
ResetToNone(entry) == NoTrace

\* reset_trace_context: the value before the set that made the token.
ResetTo(entry) == entry.old

Used(s, i) == [s EXCEPT ![i] = [@ EXCEPT !.kind = "used"]]

\* A token is reset once; a second reset raises and changes nothing.
ResetBare(w, i) ==
  /\ busy[w] /\ i \in DOMAIN stack[w] /\ stack[w][i].kind = "token"
  /\ ctx' = [ctx EXCEPT ![w] = ResetTo(stack[w][i])]
  /\ IF i = Len(stack[w])
     THEN /\ stack' = [stack EXCEPT ![w] = SubSeq(@, 1, i - 1)]
          /\ UNCHANGED disordered
     ELSE /\ stack' = [stack EXCEPT ![w] = Used(@, i)]
          /\ disordered' = [disordered EXCEPT ![w] = TRUE]
  /\ UNCHANGED <<issued, store, late, workVars, bare, dirty>>

\* The same, for a token made in a scope that has been left.
ResetLate(w, i) ==
  /\ busy[w] /\ i \in DOMAIN late[w] /\ late[w][i].kind = "token"
  /\ ctx' = [ctx EXCEPT ![w] = ResetTo(late[w][i])]
  /\ late' = [late EXCEPT ![w] = Used(@, i)]
  /\ disordered' = [disordered EXCEPT ![w] = TRUE]
  /\ UNCHANGED <<issued, store, stack, workVars, bare, dirty>>

-----------------------------------------------------------------------------
(* Work.                                                                   *)

\* A host thread takes up a user request, a worker a request of the store:
\* "with trace_context(request.trace_context)" when it has one.
Begin(w, r) ==
  /\ ~busy[w]
  /\ busy' = [busy EXCEPT ![w] = TRUE]
  /\ work' = [work EXCEPT ![w] = r]
  /\ start' = [start EXCEPT ![w] = ctx[w]]
  /\ IF Linked(r) THEN Set(w, "scope", FromMetadata(r.meta)) ELSE UNCHANGED <<ctx, stack>>
  /\ UNCHANGED <<issued, store, late, historyVars>>

\* Mutant: trace_context resets its token only when the block returns.
ResetOnReturn(w, how) ==
  IF Base(w) = 1 /\ how = "returns" THEN stack[w][1].old ELSE ctx[w]

\* The context of the thread once the work has returned or raised.
ContextAfter(w, how) == IF Base(w) = 1 THEN stack[w][1].old ELSE ctx[w]

\* The work ends with its spans closed; tokens may have been forgotten, and
\* the work that made them is the only one that has them.
Finish(w, how) ==
  /\ busy[w]
  /\ \A i \in DOMAIN stack[w] : stack[w][i].kind = "scope" => i <= Base(w)
  /\ ctx' = [ctx EXCEPT ![w] = ContextAfter(w, how)]
  /\ stack' = [stack EXCEPT ![w] = <<>>]
  /\ late' = [late EXCEPT ![w] = <<>>]
  /\ dirty' = [dirty EXCEPT ![w] = @ \/ (bare[w] /\ Base(w) = 0)]
  /\ busy' = [busy EXCEPT ![w] = FALSE]
  /\ work' = [work EXCEPT ![w] = HostWork]
  /\ start' = [start EXCEPT ![w] = NoTrace]
  /\ bare' = [bare EXCEPT ![w] = FALSE]
  /\ disordered' = [disordered EXCEPT ![w] = FALSE]
  /\ UNCHANGED <<issued, store>>

\* with_current_trace on a request, new or old. A request of unclear origin
\* that is submitted again outside any trace stays so.
Captured(w, r) ==
  LET clean == Clean(w) /\ (Cause(w) # NoTrace \/ r.clean)
      cause == IF Cause(w) # NoTrace THEN Cause(w) ELSE r.cause
  IN  [job |-> r.job, meta |-> WithCurrentTrace(r, ctx[w]),
       cause |-> IF clean THEN cause ELSE NoTrace, clean |-> clean]

\* A new request, one submitted before, or the one being worked on.
Submit(w, r) ==
  /\ busy[w] /\ r.job \in Jobs
  /\ Cardinality(store) < MaxRequests
  /\ store' = store \cup {Captured(w, r)}
  /\ UNCHANGED <<issued, workVars, ctx, stack, late, historyVars>>

\* The store hands out a request whose metadata is no longer well formed.
Damage(r) ==
  /\ r \in store /\ r.meta # Damaged
  /\ store' = (store \ {r}) \cup {[r EXCEPT !.meta = Damaged, !.cause = NoTrace]}
  /\ UNCHANGED <<issued, workVars, ctx, stack, late, historyVars>>

WorkStep(w) ==
  \/ \E r \in store \cup {HostWork} : Begin(w, r)
  \/ \E how \in {"returns", "raises"} : Finish(w, how)
  \/ \E r \in {New(j) : j \in Jobs} \cup store \cup {work[w]} : Submit(w, r)
  \/ OpenSpan(w) \/ CloseSpan(w)
  \/ \E c \in issued \cup {NoTrace} : SetBare(w, c)
  \/ \E i \in DOMAIN stack[w] : ResetBare(w, i)
  \/ \E i \in DOMAIN late[w] : ResetLate(w, i)

Next ==
  \/ \E w \in Workers : WorkStep(w)
  \/ \E r \in store : Damage(r)

Spec == Init /\ [][Next]_vars
================================================================================
