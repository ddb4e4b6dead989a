----------------------------- MODULE MCResolution -----------------------------
(* Constant values for the TLC run of Resolution.                            *)
EXTENDS ResolutionProperties, TLC

CONSTANTS r1, r2, r3, t1, t2

\* A handler of r1 calls r2, on one thread; r3 runs on another.
NestedAndConcurrent == (r1 :> NoParent) @@ (r2 :> r1) @@ (r3 :> NoParent)
TwoThreads == (r1 :> t1) @@ (r2 :> t1) @@ (r3 :> t2)

\* The host of the nested pipelines has no trace, the other one has.
MixedHosts == [t \in Threads |-> IF t = t1 THEN NoContext ELSE HostContext(t)]

TwoThenOne == [r \in Resolutions |-> IF r = r1 THEN 2 ELSE 1]
Outer == [r \in Resolutions |-> r = r1]

\* Everything in the outer pipeline, every way to leave the nested one, and a
\* third that declines.
MixedAnswers ==
  (r1 :> AllAnswers) @@ (r2 :> {"handled", "malformed", "base"}) @@ (r3 :> {"not_handled"})

\* The tracer of the nested pipeline may raise.
NestedUnreliable == [r \in Resolutions |-> IF r = r2 THEN BOOLEAN ELSE {TRUE}]
=============================================================================
