------------------------------- MODULE Readiness -------------------------------
(***************************************************************************)
(* evaluate_availability_probe and aggregate_availability                  *)
(* (src/src/butler_core/readiness.py), as a host uses them: it probes the  *)
(* capabilities of its packages one at a time and again, whenever it       *)
(* likes, summarises a package from the results it has, and summarises its *)
(* packages from their summaries. Core keeps none of this: the host does.  *)
(* Reason codes and diagnostics are left out.                              *)
(***************************************************************************)

CONSTANTS
  Capabilities,   \* the capabilities that may declare a probe
  Packages,       \* the packages they belong to, empty ones among them
  PackageOf       \* PackageOf[c]

ASSUME PackagesAssumption == PackageOf \in [Capabilities -> Packages]

\* AvailabilityState
States == {"usable", "degraded", "unavailable", "error", "unknown"}

\* What a probe does: there is none, it raises an Exception, it returns
\* something that is no AvailabilityResult, or a result with its state. (A
\* BaseException leaves the host without any result: no step here.)
Failures == {"raises", "garbage"}
Behaviours == States \cup Failures \cup {"absent"}

VARIABLES
  told,      \* told[c]: what the probe of c did last, or "none" before
  result,    \* result[c]: the state evaluate_availability_probe returned
  basis,     \* history: basis[p]: what probes did for the summary of p
  summary    \* summary[p]: the state of package p's summary, or "none"

vars == <<told, result, basis, summary>>

\* Mutant: a probe that fails stands for a capability that is unavailable.
FailureIsUnavailable(b) ==
  CASE b = "absent" -> "unknown"
    [] b \in Failures -> "unavailable"
    [] b \in States -> b

\* evaluate_availability_probe
Evaluated(b) ==
  CASE b = "absent" -> "unknown"
    [] b \in Failures -> "error"
    [] b \in States -> b

\* AvailabilityResult.usable
Usable(s) == s \in {"usable", "degraded"}

\* Mutant: what is degraded does not count as usable.
UsableOnly(states) ==
  IF states = {} THEN "unknown"
  ELSE IF states = {"usable"} THEN "usable"
  ELSE IF "usable" \in states THEN "degraded"
  ELSE IF "error" \in states THEN "error"
  ELSE IF states = {"unavailable"} THEN "unavailable"
  ELSE "unknown"

\* aggregate_availability, of the states of the results.
Aggregate(states) ==
  IF states = {} THEN "unknown"
  ELSE IF states = {"usable"} THEN "usable"
  ELSE IF \E s \in states : Usable(s) THEN "degraded"
  ELSE IF "error" \in states THEN "error"
  ELSE IF states = {"unavailable"} THEN "unavailable"
  ELSE "unknown"

Init ==
  /\ told = [c \in Capabilities |-> "none"]
  /\ result = [c \in Capabilities |-> "none"]
  /\ basis = [p \in Packages |-> {}]
  /\ summary = [p \in Packages |-> "none"]

Members(p) == {c \in Capabilities : PackageOf[c] = p}

Evaluate(c, b) ==
  /\ told' = [told EXCEPT ![c] = b]
  /\ result' = [result EXCEPT ![c] = Evaluated(b)]
  /\ UNCHANGED <<basis, summary>>

\* The host has a result of every capability of the package.
Summarise(p) ==
  /\ \A c \in Members(p) : result[c] # "none"
  /\ summary' = [summary EXCEPT ![p] = Aggregate({result[c] : c \in Members(p)})]
  /\ basis' = [basis EXCEPT ![p] = {told[c] : c \in Members(p)}]
  /\ UNCHANGED <<told, result>>

Next ==
  \/ \E c \in Capabilities, b \in Behaviours : Evaluate(c, b)
  \/ \E p \in Packages : Summarise(p)

Spec == Init /\ [][Next]_vars

\* The host's summary of the packages it has summarised so far.
Summarised == {p \in Packages : summary[p] # "none"}
Overall == Aggregate({summary[p] : p \in Summarised})
================================================================================
