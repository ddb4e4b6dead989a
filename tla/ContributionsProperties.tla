------------------------ MODULE ContributionsProperties ------------------------
(***************************************************************************)
(* What a host may rely on when it loads plugins, stated over              *)
(* Contributions.                                                          *)
(***************************************************************************)
EXTENDS Contributions

ToolType == [plugin : Plugins, load : Nat] \cup {Absent}

\* Every variable holds a value of its kind in every reachable state.
TypeOK ==
  /\ decl \in [Plugins -> Declarations]
  /\ pc \in [Plugins -> {"declared", "constructed", "rejected", "registering", "storing",
                         "loaded", "failed"}]
  /\ conforms \in [Plugins -> BOOLEAN]
  /\ loads \in [Plugins -> Nat]
  /\ pos \in [Plugins -> Nat]
  /\ refused \in [Plugins -> Names \cup {NoName}]
  /\ tools \in [Names -> ToolType]
  /\ raced \in SUBSET SUBSET Plugins

Raced(p, q) == {p, q} \in raced

\* A plugin that loaded owns every name it registered, though register takes
\* no lock: only the load of a plugin that was under way at the same time can
\* have taken one from it. A host that loads one plugin at a time keeps all.
OwnershipLostOnlyByRace ==
  \A p \in Plugins :
    pc[p] = "loaded" =>
      \A i \in DOMAIN decl[p].script :
        LET tool == tools[decl[p].script[i]] IN
        tool = ToolOf(p) \/ (tool # Absent /\ tool.plugin # p /\ Raced(p, tool.plugin))

\* The verification expectations of a loaded plugin that conforms can be run:
\* each names exactly one capability, of a domain the plugin declares, and a
\* tool the registry has, whatever was loaded, refused or retried around it.
ExpectationsResolve ==
  \A p \in Plugins :
    conforms[p] /\ pc[p] = "loaded" =>
      \A i \in DOMAIN decl[p].verification :
        LET expectation == decl[p].verification[i] IN
        /\ \E j \in DOMAIN decl[p].capabilities :
             LET capability == decl[p].capabilities[j] IN
             /\ Identity(capability) = expectation.capability
             /\ capability.domain \in Range(decl[p].domains)
             /\ \A k \in DOMAIN decl[p].capabilities \ {j} :
                  Identity(decl[p].capabilities[k]) # expectation.capability
        /\ tools[expectation.tool] # Absent

\* What validation on a registry of its own is good for: the load of a plugin
\* that conforms is refused only for a name that another load holds, of
\* another plugin or an earlier one of its own.
RefusedOnlyForOthers ==
  \A p \in Plugins :
    conforms[p] /\ refused[p] # NoName =>
      tools[refused[p]] \notin {ToolOf(p), Absent}
================================================================================
