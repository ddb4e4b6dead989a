----------------------------- MODULE Contributions -----------------------------
(***************************************************************************)
(* Plugins and the tool registry (contributions.py, registry.py): a plugin *)
(* definition is constructed, may be validated with the conformance        *)
(* helper, and is loaded by a host that runs its registrar on the shared   *)
(* ToolRegistry, from one or several threads. register tests and then sets *)
(* a dict entry with no lock, so another thread's call fits in between. A  *)
(* registrar lets an exception of register through.                        *)
(*                                                                         *)
(* A public name is the sequence of its dotted parts, so that an identity  *)
(* is their concatenation. Descriptions, versions, probes and the sorting  *)
(* of the stored declarations are left out.                                *)
(***************************************************************************)
EXTENDS Naturals, Sequences, FiniteSets, Functions

CONSTANTS
  Plugins,          \* the plugins of the host
  Declarations,     \* what PluginDefinition may be called with
  Names, NoName,    \* tool names, and none
  MaxLoads,         \* bound: attempts to load one plugin
  MaxLoaders,       \* threads of the host that load plugins
  RegistrarsRaise   \* BOOLEAN: a registrar may raise on its own

\* CapabilityDefinition and GoalExpectation, as far as they are validated.
IsDeclaration(d) ==
  /\ DOMAIN d = {"domains", "capabilities", "verification", "script"}
  /\ \A i \in DOMAIN d.capabilities :
       DOMAIN d.capabilities[i] = {"domain", "name", "resolvers"}
  /\ \A i \in DOMAIN d.verification :
       DOMAIN d.verification[i] = {"identity", "capability", "tool"}
  /\ d.script \in Seq(Names)   \* the tools the registrar registers, in order

ASSUME DeclarationsAssumption == \A d \in Declarations : IsDeclaration(d)
ASSUME LoadingAssumption ==
  /\ NoName \notin Names
  /\ MaxLoads \in Nat /\ MaxLoaders \in Nat
  /\ RegistrarsRaise \in BOOLEAN

VARIABLES
  decl,      \* decl[p]: the declaration p is constructed from
  pc,        \* pc[p]: how far p is
  conforms,  \* conforms[p]: validate_plugin_definition has accepted p
  loads,     \* loads[p]: loads of p begun
  pos,       \* pos[p]: register calls that returned in the last load of p
  refused,   \* refused[p]: the name its last load was refused for, or NoName
  tools,     \* ToolRegistry._tools
  raced      \* history: {p, q} when loads of p and q overlapped

vars == <<decl, pc, conforms, loads, pos, refused, tools, raced>>

\* The ToolDefinition that the load in progress of p registers for a name.
ToolOf(p) == [plugin |-> p, load |-> loads[p]]
Absent == [plugin |-> "none", load |-> 0]

\* Mutant: the registry keeps a copy that lacks a field.
BareTool(p) == [plugin |-> p]
\* The definition itself is kept, and get returns it as it is.
Stored(p) == ToolOf(p)

Loading(p) == pc[p] \in {"registering", "storing"}
NextName(p) == decl[p].script[pos[p] + 1]
Goto(p, to) == pc' = [pc EXCEPT ![p] = to]

Init ==
  /\ decl \in [Plugins -> Declarations]
  /\ pc = [p \in Plugins |-> "declared"]
  /\ conforms = [p \in Plugins |-> FALSE]
  /\ loads = [p \in Plugins |-> 0]
  /\ pos = [p \in Plugins |-> 0]
  /\ refused = [p \in Plugins |-> NoName]
  /\ tools = [n \in Names |-> Absent]
  /\ raced = {}

-----------------------------------------------------------------------------
(* Construction: CapabilityDefinition and PluginDefinition.__post_init__.  *)

\* CapabilityDefinition.identity
Identity(capability) == capability.domain \o capability.name

ResolversDistinct(capability) == IsInjective(capability.resolvers)

Identities(d) == [i \in DOMAIN d.capabilities |-> Identity(d.capabilities[i])]

\* Mutant: identities are compared by name, without the domain.
CompareNames(d) ==
  /\ IsInjective(d.domains)
  /\ IsInjective([i \in DOMAIN d.capabilities |-> d.capabilities[i].name])
  /\ IsInjective([i \in DOMAIN d.verification |-> d.verification[i].identity])

\* _reject_duplicate_identities, for each of the three kinds.
NoDuplicates(d) ==
  /\ IsInjective(d.domains)
  /\ IsInjective(Identities(d))
  /\ IsInjective([i \in DOMAIN d.verification |-> d.verification[i].identity])

ReferencesOwned(d) ==
  /\ \A i \in DOMAIN d.capabilities : d.capabilities[i].domain \in Range(d.domains)
  /\ \A i \in DOMAIN d.verification : d.verification[i].capability \in Range(Identities(d))

Construct(p) ==
  /\ pc[p] = "declared"
  /\ LET d == decl[p]
         accepted == /\ \A i \in DOMAIN d.capabilities : ResolversDistinct(d.capabilities[i])
                     /\ NoDuplicates(d) /\ ReferencesOwned(d)
     IN  Goto(p, IF accepted THEN "constructed" ELSE "rejected")
  /\ UNCHANGED <<decl, conforms, loads, pos, refused, tools, raced>>

-----------------------------------------------------------------------------
(* validate_plugin_definition: the registrar runs on a registry of its own *)
(* that records the names it accepted.                                     *)

\* Mutant: the recording registry does not register.
RecordsOnly(d) == \A i \in DOMAIN d.verification : d.verification[i].tool \in Range(d.script)

\* No register call raised, and every expected tool was recorded.
Conforms(d) ==
  /\ IsInjective(d.script)
  /\ \A i \in DOMAIN d.verification : d.verification[i].tool \in Range(d.script)

Validate(p) ==
  /\ pc[p] = "constructed"
  /\ \E raises \in {FALSE, RegistrarsRaise} :
        conforms' = [conforms EXCEPT ![p] = ~raises /\ Conforms(decl[p])]
  /\ UNCHANGED <<decl, pc, loads, pos, refused, tools, raced>>

-----------------------------------------------------------------------------
(* Loading: a thread of the host runs plugin.register on the registry.     *)

\* Also after a failed load. Tools of the failed one stay registered.
BeginLoad(p) ==
  /\ pc[p] \in {"constructed", "failed"} /\ loads[p] < MaxLoads
  /\ Cardinality({q \in Plugins : Loading(q)}) < MaxLoaders
  /\ loads' = [loads EXCEPT ![p] = @ + 1]
  /\ pos' = [pos EXCEPT ![p] = 0]
  /\ refused' = [refused EXCEPT ![p] = NoName]
  /\ raced' = raced \cup {{p, q} : q \in {r \in Plugins \ {p} : Loading(r)}}
  /\ Goto(p, "registering")
  /\ UNCHANGED <<decl, conforms, tools>>

\* Mutant: register replaces what is there.
NeverTaken(n) == FALSE
\* tool.name in self._tools
Taken(n) == tools[n] # Absent

\* The first half of register: a name in use raises, which ends the load.
Check(p) ==
  /\ pc[p] = "registering" /\ pos[p] < Len(decl[p].script)
  /\ IF Taken(NextName(p))
     THEN Goto(p, "failed") /\ refused' = [refused EXCEPT ![p] = NextName(p)]
     ELSE Goto(p, "storing") /\ UNCHANGED refused
  /\ UNCHANGED <<decl, conforms, loads, pos, tools, raced>>

\* The second half: whatever the entry holds by now is replaced.
Store(p) ==
  /\ pc[p] = "storing"
  /\ tools' = [tools EXCEPT ![NextName(p)] = Stored(p)]
  /\ pos' = [pos EXCEPT ![p] = @ + 1]
  /\ Goto(p, "registering")
  /\ UNCHANGED <<decl, conforms, loads, refused, raced>>

RegistrarRaises(p) ==
  /\ RegistrarsRaise /\ pc[p] = "registering"
  /\ Goto(p, "failed")
  /\ UNCHANGED <<decl, conforms, loads, pos, refused, tools, raced>>

RegistrarReturns(p) ==
  /\ pc[p] = "registering" /\ pos[p] = Len(decl[p].script)
  /\ Goto(p, "loaded")
  /\ UNCHANGED <<decl, conforms, loads, pos, refused, tools, raced>>

-----------------------------------------------------------------------------
Next ==
  \E p \in Plugins :
    \/ Construct(p) \/ Validate(p)
    \/ BeginLoad(p) \/ Check(p) \/ Store(p)
    \/ RegistrarRaises(p) \/ RegistrarReturns(p)

Spec == Init /\ [][Next]_vars
=============================================================================
