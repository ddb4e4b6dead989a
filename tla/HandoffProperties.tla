--------------------------- MODULE HandoffProperties ---------------------------
(***************************************************************************)
(* What the trace of deferred work can be relied on for.                   *)
(***************************************************************************)
EXTENDS Handoff

\* Every variable holds a value of its kind in every reachable state.
TypeOK ==
  /\ issued \in SUBSET Traces
  /\ store \in SUBSET Request
  /\ busy \in [Workers -> BOOLEAN]
  /\ work \in [Workers -> Request]
  /\ ctx \in [Workers -> Contexts]
  /\ stack \in [Workers -> Seq(Entry)]
  /\ late \in [Workers -> Seq(Entry)]
  /\ start \in [Workers -> Contexts]
  /\ bare \in [Workers -> BOOLEAN]
  /\ disordered \in [Workers -> BOOLEAN]
  /\ dirty \in [Workers -> BOOLEAN]

\* One trace follows a user request through everything it sets off: what a
\* thread does is in the trace of the user request behind it, across any
\* number of deferred requests, retries (also outside any trace), repeated
\* and late deliveries. Only bare sets, and metadata the store has damaged,
\* end that.
WorkKeepsItsTrace ==
  /\ \A w \in Workers : busy[w] /\ Clean(w) => ctx[w] = Cause(w)
  /\ \A r \in store : r.clean => FromMetadata(r.meta) = r.cause

\* No work leaks its trace to the next: an idle thread has no context, even
\* after work that raised or forgot its tokens, unless that work was in no
\* scope at all.
ThreadsStartClean ==
  \A w \in Workers : ~busy[w] /\ ~dirty[w] => ctx[w] = NoTrace

\* Tokens reset in reverse order, whatever spans were opened and left in
\* between, bring back the context the work began with.
TokensRestore ==
  \A w \in Workers :
    busy[w] /\ ~disordered[w] /\ Len(stack[w]) = Base(w)
      => ctx[w] = IF Base(w) = 1 THEN FromMetadata(work[w].meta) ELSE start[w]
================================================================================
