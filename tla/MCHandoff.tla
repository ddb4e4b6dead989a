------------------------------- MODULE MCHandoff -------------------------------
(* Constant values for the TLC run of Handoff.                                 *)
EXTENDS HandoffProperties, TLC

CONSTANTS w1, w2, job, output, t1, t2

\* Trace ids are alike.
Symmetry == Permutations(Traces)
================================================================================
