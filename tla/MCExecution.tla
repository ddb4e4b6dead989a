------------------------------ MODULE MCExecution ------------------------------
(* Constant values for the TLC runs of Execution.                            *)
EXTENDS ExecutionProperties, TLC

CONSTANTS c1, c2, c3, host, other

\* c2 is called from the handler of c1; c3 is a call of another host thread.
NestedAndConcurrent == (c1 :> NoCall) @@ (c2 :> c1) @@ (c3 :> NoCall)
\* c3 is called from the handler of c2, itself called from that of c1.
Chain == (c1 :> NoCall) @@ (c2 :> c1) @@ (c3 :> c2)
Nested == (c1 :> NoCall) @@ (c2 :> c1)
Independent == [c \in Calls |-> NoCall]

MCTools == {"read", "act", "danger", "late"}
MCPermission ==
  [t \in MCTools |-> CASE t = "act" -> "ACTION" [] t = "danger" -> "DANGEROUS" [] OTHER -> "READ"]

EngineRequest(t, confirmed, a) ==
  [tool |-> t, confirmed |-> confirmed, args |-> a, via |-> "engine"]
RegistryRequest(t) == [tool |-> t, confirmed |-> FALSE, args |-> "valid", via |-> "registry"]

\* Every tool confirmed and not, with valid and invalid arguments, and the
\* route through the registry.
AllRequests ==
  {EngineRequest(t, confirmed, a) :
     t \in MCTools \ {"late"}, confirmed \in BOOLEAN, a \in {"valid", "invalid"}}
    \cup {EngineRequest("late", FALSE, "valid")}
    \cup {RegistryRequest(t) : t \in MCTools \ {"late"}}
OneRead == {EngineRequest("read", FALSE, "valid")}
\* A call that runs, one that is rejected and one with no tracer.
MixedRequests ==
  {EngineRequest("read", FALSE, "valid"), EngineRequest("act", FALSE, "valid"),
   RegistryRequest("read")}

Strict == {DefaultPolicy}
Both == {TRUE, FALSE}
Delivered == {TRUE}
================================================================================
