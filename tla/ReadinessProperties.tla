-------------------------- MODULE ReadinessProperties --------------------------
(***************************************************************************)
(* What a summary of summaries says of the probes it comes from.           *)
(***************************************************************************)
EXTENDS Readiness

\* Every variable holds a value of its kind in every reachable state.
TypeOK ==
  /\ told \in [Capabilities -> Behaviours \cup {"none"}]
  /\ result \in [Capabilities -> States \cup {"none"}]
  /\ basis \in [Packages -> SUBSET Behaviours]
  /\ summary \in [Packages -> States \cup {"none"}]

\* What a package's summary speaks of; one without capabilities is one thing
\* of unknown state.
Evidence(p) == IF basis[p] = {} THEN {"absent"} ELSE basis[p]
AllEvidence == UNION {Evidence(p) : p \in Summarised}

\* However capabilities are grouped into packages, the summary of the
\* summaries is the one summary of all the probes behind them.
SummaryOfSummaries == Overall = Aggregate({Evaluated(b) : b \in AllEvidence})

\* The documented distinctions survive two levels of aggregation. USABLE
\* means that every probe said so, and UNAVAILABLE too: neither a missing
\* nor a failed probe passes for either. A failed probe shows as ERROR, or
\* as DEGRADED beside something usable.
FailuresStayVisible ==
  /\ \A s \in {"usable", "unavailable"} : Overall = s <=> AllEvidence = {s}
  /\ AllEvidence \cap Failures # {} =>
       Overall = IF \E b \in AllEvidence : Usable(b) THEN "degraded" ELSE "error"
================================================================================
