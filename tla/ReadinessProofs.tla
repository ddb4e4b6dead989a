---------------------------- MODULE ReadinessProofs ----------------------------
(***************************************************************************)
(* Proofs about Readiness for any capabilities, packages and groupings.    *)
(***************************************************************************)
EXTENDS ReadinessProperties, TLAPS

-----------------------------------------------------------------------------
(* Aggregation.                                                            *)

\* What each aggregate means, as a statement about the states it is of.
LEMMA AggregateMeans ==
  ASSUME NEW G \in SUBSET States, G # {}
  PROVE  /\ Aggregate(G) \in States
         /\ Aggregate(G) = "usable" <=> G = {"usable"}
         /\ Usable(Aggregate(G)) <=> \E s \in G : Usable(s)
         /\ Aggregate(G) = "error" <=> "error" \in G /\ \A s \in G : ~Usable(s)
         /\ Aggregate(G) = "unavailable" <=> G = {"unavailable"}
<1>1. CASE G = {"usable"}
  BY <1>1 DEF Aggregate, Usable, States
<1>2. CASE G # {"usable"} /\ \E s \in G : Usable(s)
  BY <1>2 DEF Aggregate, Usable, States
<1>3. CASE (\A s \in G : ~Usable(s)) /\ "error" \in G
  BY <1>3 DEF Aggregate, Usable, States
<1>4. CASE (\A s \in G : ~Usable(s)) /\ "error" \notin G
  BY <1>4 DEF Aggregate, Usable, States
<1>5. QED BY <1>1, <1>2, <1>3, <1>4

\* An aggregate is told by these four facts.
LEMMA AggregateToldBy ==
  ASSUME NEW s \in States, NEW t \in States,
         s = "usable" <=> t = "usable",
         Usable(s) <=> Usable(t),
         s = "error" <=> t = "error",
         s = "unavailable" <=> t = "unavailable"
  PROVE  s = t
  BY DEF States, Usable

\* The aggregate of aggregates is the aggregate of all, for any number of
\* groups, as long as none is empty.
LEMMA NestedAggregation ==
  ASSUME NEW GG \in SUBSET SUBSET States, \A G \in GG : G # {}
  PROVE  Aggregate({Aggregate(G) : G \in GG}) = Aggregate(UNION GG)
<1> DEFINE A == {Aggregate(G) : G \in GG}
           U == UNION GG
<1>1. CASE GG = {}
  <2>1. A = {} /\ U = {}
    BY <1>1
  <2>2. QED BY <2>1
<1>2. CASE GG # {}
  <2>1. A \in SUBSET States /\ A # {} /\ U \in SUBSET States /\ U # {}
    BY <1>2, AggregateMeans
  <2>2. ASSUME NEW s \in {"usable", "unavailable"} PROVE A = {s} <=> U = {s}
    <3>1. \A G \in GG : Aggregate(G) = s <=> G = {s}
      BY AggregateMeans
    <3>2. A = {s} <=> \A G \in GG : G = {s}
      BY <1>2, <3>1
    <3>3. U = {s} <=> \A G \in GG : G = {s}
      BY <1>2
    <3>4. QED BY <3>2, <3>3
  <2>3. (\E s \in A : Usable(s)) <=> (\E s \in U : Usable(s))
    BY AggregateMeans
  <2>4. "error" \in A /\ (\A s \in A : ~Usable(s)) <=> "error" \in U /\ (\A s \in U : ~Usable(s))
    <3>1. "error" \in A <=> \E G \in GG : "error" \in G /\ \A s \in G : ~Usable(s)
      BY AggregateMeans
    <3>2. QED BY <2>3, <3>1
  <2> HIDE DEF A, U
  <2>5. /\ Aggregate(A) = "usable" <=> Aggregate(U) = "usable"
        /\ Aggregate(A) = "unavailable" <=> Aggregate(U) = "unavailable"
    BY <2>1, <2>2, AggregateMeans
  <2>6. /\ Usable(Aggregate(A)) <=> Usable(Aggregate(U))
        /\ Aggregate(A) = "error" <=> Aggregate(U) = "error"
    BY <2>1, <2>3, <2>4, AggregateMeans
  <2>7. Aggregate(A) \in States /\ Aggregate(U) \in States
    BY <2>1, AggregateMeans
  <2>8. Aggregate(A) = Aggregate(U)
    BY <2>5, <2>6, <2>7, AggregateToldBy
  <2>9. QED BY <2>8 DEF A, U
<1>3. QED BY <1>1, <1>2

\* An empty group counts as one result of unknown state.
LEMMA EmptyIsUnknown == Aggregate({}) = "unknown" /\ Aggregate({"unknown"}) = "unknown"
  BY DEF Aggregate, Usable

LEMMA EvaluatedType ==
  ASSUME NEW b \in Behaviours
  PROVE  /\ Evaluated(b) \in States
         /\ b \in States => Evaluated(b) = b
         /\ b \in Failures => Evaluated(b) = "error"
         /\ b = "absent" => Evaluated(b) = "unknown"
  BY DEF Behaviours, Evaluated, Failures, States

-----------------------------------------------------------------------------
(* The invariants.                                                         *)

\* A result is what the probe's last evaluation gave, and a summary is the
\* aggregate of the results it was made from.
ResultsInv == \A c \in Capabilities : told[c] # "none" => result[c] = Evaluated(told[c])
ToldInv == \A c \in Capabilities : told[c] = "none" <=> result[c] = "none"
SummariesInv ==
  \A p \in Packages :
    summary[p] # "none" => summary[p] = Aggregate({Evaluated(b) : b \in basis[p]})

ReadinessInv == TypeOK /\ ResultsInv /\ ToldInv /\ SummariesInv

LEMMA NoneIsNoBehaviour == "none" \notin Behaviours /\ "none" \notin States
  BY DEF Behaviours, States, Failures

LEMMA AggregateType ==
  ASSUME NEW G \in SUBSET States
  PROVE  Aggregate(G) \in States
  BY AggregateMeans, EmptyIsUnknown DEF States

LEMMA EvaluateStep ==
  ASSUME ReadinessInv, NEW c \in Capabilities, NEW b \in Behaviours, Evaluate(c, b)
  PROVE  ReadinessInv'
<1> USE DEF ReadinessInv, TypeOK
<1>1. /\ told' = [told EXCEPT ![c] = b] /\ result' = [result EXCEPT ![c] = Evaluated(b)]
      /\ basis' = basis /\ summary' = summary
  BY DEF Evaluate
<1>2. Evaluated(b) \in States /\ b # "none" /\ Evaluated(b) # "none"
  BY EvaluatedType, NoneIsNoBehaviour
<1>3. TypeOK'
  BY <1>1, <1>2
<1>4. ResultsInv' /\ ToldInv'
  BY <1>1, <1>2 DEF ResultsInv, ToldInv
<1>5. SummariesInv'
  BY <1>1 DEF SummariesInv
<1>6. QED BY <1>3, <1>4, <1>5

LEMMA SummariseStep ==
  ASSUME ReadinessInv, NEW p \in Packages, Summarise(p)
  PROVE  ReadinessInv'
<1> USE DEF ReadinessInv, TypeOK
<1> DEFINE R == {result[c] : c \in Members(p)}
           B == {told[c] : c \in Members(p)}
<1>1. /\ summary' = [summary EXCEPT ![p] = Aggregate(R)] /\ basis' = [basis EXCEPT ![p] = B]
      /\ told' = told /\ result' = result
  BY DEF Summarise
<1>2. \A c \in Members(p) : told[c] \in Behaviours /\ result[c] = Evaluated(told[c])
  BY DEF Summarise, Members, ResultsInv, ToldInv
<1>3. R = {Evaluated(b) : b \in B} /\ B \in SUBSET Behaviours
  BY <1>2
<1>4. Aggregate(R) \in States
  BY <1>3, EvaluatedType, AggregateType
<1> HIDE DEF R, B
<1>5. TypeOK'
  BY <1>1, <1>3, <1>4
<1>6. SummariesInv'
  BY <1>1, <1>3 DEF SummariesInv
<1>7. ResultsInv' /\ ToldInv'
  BY <1>1 DEF ResultsInv, ToldInv
<1>8. QED BY <1>5, <1>6, <1>7

LEMMA ReadinessInvariant == Spec => []ReadinessInv
<1>1. Init => ReadinessInv
  BY DEF Init, ReadinessInv, TypeOK, ResultsInv, ToldInv, SummariesInv
<1>2. ReadinessInv /\ [Next]_vars => ReadinessInv'
  <2> SUFFICES ASSUME ReadinessInv, [Next]_vars PROVE ReadinessInv'
      OBVIOUS
  <2>1. CASE UNCHANGED vars
    BY <2>1 DEF vars, ReadinessInv, TypeOK, ResultsInv, ToldInv, SummariesInv
  <2>2. QED BY <2>1, EvaluateStep, SummariseStep DEF Next
<1>3. QED BY <1>1, <1>2, PTL DEF Spec

-----------------------------------------------------------------------------
(* The theorems.                                                           *)

\* The evidence of a package, evaluated, has the aggregate of its summary.
LEMMA EvidenceSummarised ==
  ASSUME ReadinessInv, NEW p \in Summarised
  PROVE  /\ summary[p] = Aggregate({Evaluated(b) : b \in Evidence(p)})
         /\ Evidence(p) # {} /\ Evidence(p) \in SUBSET Behaviours
<1>1. p \in Packages /\ summary[p] = Aggregate({Evaluated(b) : b \in basis[p]})
  BY DEF Summarised, ReadinessInv, SummariesInv
<1>2. CASE basis[p] = {}
  <2>1. {Evaluated(b) : b \in basis[p]} = {}
    BY <1>2
  <2>2. {Evaluated(b) : b \in Evidence(p)} = {"unknown"}
    BY <1>2, EvaluatedType DEF Evidence, Behaviours
  <2>3. QED BY <1>1, <1>2, <2>1, <2>2, EmptyIsUnknown DEF Evidence, Behaviours
<1>3. CASE basis[p] # {}
  BY <1>1, <1>3 DEF Evidence, ReadinessInv, TypeOK
<1>4. QED BY <1>2, <1>3

LEMMA OverallIsAggregate == ReadinessInv => SummaryOfSummaries
<1> SUFFICES ASSUME ReadinessInv PROVE SummaryOfSummaries
    OBVIOUS
<1> DEFINE G(p) == {Evaluated(b) : b \in Evidence(p)}
           GG == {G(p) : p \in Summarised}
<1>1. ASSUME NEW p \in Summarised PROVE G(p) \in SUBSET States /\ G(p) # {}
  <2>1. Evidence(p) # {} /\ Evidence(p) \in SUBSET Behaviours
    BY EvidenceSummarised
  <2>2. \A b \in Evidence(p) : Evaluated(b) \in States
    BY <2>1, EvaluatedType
  <2>3. QED BY <2>1, <2>2
<1>2. {Aggregate(H) : H \in GG} = {summary[p] : p \in Summarised}
  BY EvidenceSummarised
<1>3. UNION GG = {Evaluated(b) : b \in AllEvidence}
  BY DEF AllEvidence
<1>4. GG \in SUBSET SUBSET States /\ \A H \in GG : H # {}
  BY <1>1
<1> HIDE DEF GG
<1>5. QED BY <1>2, <1>3, <1>4, NestedAggregation DEF SummaryOfSummaries, Overall

LEMMA OverallShowsFailures == ReadinessInv => FailuresStayVisible
<1> SUFFICES ASSUME ReadinessInv PROVE FailuresStayVisible
    OBVIOUS
<1> DEFINE E == {Evaluated(b) : b \in AllEvidence}
<1>1. Overall = Aggregate(E)
  BY OverallIsAggregate DEF SummaryOfSummaries
<1>2. AllEvidence \in SUBSET Behaviours
  BY EvidenceSummarised DEF AllEvidence
<1>3. E \in SUBSET States
  BY <1>2, EvaluatedType
<1>4. ASSUME NEW s \in {"usable", "unavailable"} PROVE E = {s} <=> AllEvidence = {s}
  <2>1. \A b \in Behaviours : Evaluated(b) = s <=> b = s
    BY DEF Behaviours, Evaluated, Failures, States
  <2>2. QED BY <1>2, <2>1
<1>5. (\E x \in E : Usable(x)) <=> (\E b \in AllEvidence : Usable(b))
  <2>1. \A b \in Behaviours : Usable(Evaluated(b)) <=> Usable(b)
    BY DEF Behaviours, Evaluated, Failures, States, Usable
  <2>2. QED BY <1>2, <2>1
<1>6. AllEvidence \cap Failures # {} => "error" \in E
  BY <1>2, EvaluatedType
<1>7. CASE AllEvidence = {}
  BY <1>1, <1>7, EmptyIsUnknown DEF FailuresStayVisible
<1>8. CASE AllEvidence # {}
  <2>1. E # {}
    BY <1>8
  <2> HIDE DEF E
  <2>2. \A s \in {"usable", "unavailable"} : Overall = s <=> AllEvidence = {s}
    BY <1>1, <1>3, <1>4, <2>1, AggregateMeans
  <2>3. ASSUME AllEvidence \cap Failures # {}
        PROVE  Overall = IF \E b \in AllEvidence : Usable(b) THEN "degraded" ELSE "error"
    BY <1>1, <1>3, <1>5, <1>6, <2>1, <2>3 DEF Aggregate, Usable
  <2>4. QED BY <2>2, <2>3 DEF FailuresStayVisible
<1>9. QED BY <1>7, <1>8

\* Type correctness of Readiness.
THEOREM TypeCorrect == Spec => []TypeOK
<1>1. ReadinessInv => TypeOK
  BY DEF ReadinessInv
<1>2. QED BY <1>1, ReadinessInvariant, PTL

\* For any packages and any order of probing, the summary of summaries is the
\* summary of all probes.
THEOREM SummariesCompose == Spec => []SummaryOfSummaries
  BY ReadinessInvariant, OverallIsAggregate, PTL

\* Neither level of aggregation hides a failed probe or takes a missing or
\* failed one for an answer of its provider.
THEOREM FailuresAreVisible == Spec => []FailuresStayVisible
  BY ReadinessInvariant, OverallShowsFailures, PTL
================================================================================
