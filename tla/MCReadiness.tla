------------------------------ MODULE MCReadiness ------------------------------
(* Constant values for the TLC run of Readiness.                               *)
EXTENDS ReadinessProperties, TLC

CONSTANTS mail, calendar, clock, office, time, empty

\* A package with two capabilities, one with one and one with none.
MCPackageOf == (mail :> office) @@ (calendar :> office) @@ (clock :> time)
================================================================================
