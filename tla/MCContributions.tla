---------------------------- MODULE MCContributions ----------------------------
(* Constant values for the TLC runs of Contributions.                        *)
EXTENDS ContributionsProperties, TLC

CONSTANTS p1, p2, p3

\* Plugins differ by their declarations only, which every plugin may have.
Interchangeable == Permutations(Plugins)

Capability(domain, name, resolvers) ==
  [domain |-> domain, name |-> name, resolvers |-> resolvers]
Expectation(capability, tool) ==
  [identity |-> <<"goal">>, capability |-> capability, tool |-> tool]
Declaration(domains, capabilities, verification, script) ==
  [domains |-> domains, capabilities |-> capabilities,
   verification |-> verification, script |-> script]

Search == Capability(<<"media">>, <<"search">>, <<"exact">>)
Media(verification, script) == Declaration(<<<<"media">>>>, <<Search>>, verification, script)
SearchWith(tool) == Expectation(<<"media", "search">>, tool)

\* Registrars of the same two tools in either order, of a tool registered
\* twice, and of a tool that is not the one expected.
Overlapping ==
  {Media(<<SearchWith("b")>>, <<"a", "b">>), Media(<<>>, <<"b", "a">>),
   Media(<<SearchWith("a")>>, <<"a", "a">>), Media(<<SearchWith("c")>>, <<"a">>)}

\* Declarations that construction must tell apart, besides two good ones:
\* the identities of two capabilities collide across domains, an unowned
\* domain, an unowned capability, duplicate domains, duplicate resolvers, two
\* expectations of the same identity.
Structures ==
  LET ab == Capability(<<"a">>, <<"b", "c">>, <<>>)
      abc == Capability(<<"a", "b">>, <<"c">>, <<>>)
      goal == Expectation(<<"a", "b", "c">>, "a")
  IN  {Declaration(<<<<"a">>, <<"a", "b">>>>, <<ab, abc>>, <<goal>>, <<"a">>),
       Declaration(<<<<"a">>>>, <<ab>>, <<goal>>, <<"a">>),
       Declaration(<<<<"a">>>>, <<abc>>, <<goal>>, <<"a">>),
       Declaration(<<<<"a">>, <<"a", "b">>>>, <<ab>>, <<SearchWith("a")>>, <<"a">>),
       Declaration(<<<<"a">>, <<"a">>>>, <<ab>>, <<>>, <<"a">>),
       Declaration(<<<<"a">>>>, <<ab>>, <<goal, goal>>, <<"a">>),
       Declaration(<<<<"a">>>>, <<[ab EXCEPT !.resolvers = <<"x", "x">>]>>, <<goal>>, <<"a">>),
       Declaration(<<<<"a">>>>, <<ab, ab>>, <<>>, <<"a">>)}

AllDeclarations == Structures \cup Overlapping
================================================================================
