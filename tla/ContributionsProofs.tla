-------------------------- MODULE ContributionsProofs --------------------------
(***************************************************************************)
(* Proofs about Contributions for every set of plugins, every declaration  *)
(* and any number of loader threads.                                       *)
(***************************************************************************)
EXTENDS ContributionsProperties, TLAPS

-----------------------------------------------------------------------------
(* Types.                                                                  *)

\* A script is a sequence of names, and positions stay within it.
PositionInv ==
  \A p \in Plugins :
    /\ pos[p] <= Len(decl[p].script)
    /\ pc[p] = "storing" => pos[p] < Len(decl[p].script)
    /\ pc[p] = "loaded" => pos[p] = Len(decl[p].script)
    /\ Loading(p) => loads[p] > 0

LEMMA ScriptType ==
  ASSUME TypeOK, NEW p \in Plugins
  PROVE  decl[p].script \in Seq(Names)
  BY DeclarationsAssumption DEF TypeOK, IsDeclaration

LEMMA NextNameType ==
  ASSUME TypeOK, NEW p \in Plugins, pos[p] < Len(decl[p].script)
  PROVE  NextName(p) \in Names
  BY ScriptType DEF TypeOK, NextName

LEMMA TypeStep == TypeOK /\ PositionInv /\ [Next]_vars => TypeOK' /\ PositionInv'
<1> SUFFICES ASSUME TypeOK, PositionInv, [Next]_vars PROVE TypeOK' /\ PositionInv'
    OBVIOUS
<1> USE DEF TypeOK, PositionInv, Goto, Loading
<1>1. ASSUME NEW p \in Plugins, Construct(p) PROVE TypeOK' /\ PositionInv'
  BY <1>1 DEF Construct
<1>2. ASSUME NEW p \in Plugins, Validate(p) PROVE TypeOK' /\ PositionInv'
  BY <1>2 DEF Validate
<1>3. ASSUME NEW p \in Plugins, BeginLoad(p) PROVE TypeOK' /\ PositionInv'
  <2> DEFINE others == {q \in Plugins \ {p} : Loading(q)}
  <2>1. raced' \in SUBSET SUBSET Plugins
    <3> SUFFICES ASSUME NEW s \in raced', NEW x \in s PROVE x \in Plugins
        OBVIOUS
    <3>1. raced' = raced \cup {{p, q} : q \in others}
      BY <1>3 DEF BeginLoad
    <3>2. CASE s \in raced
      BY <3>2
    <3>3. CASE s \in {{p, q} : q \in others}
      <4>1. PICK q \in others : s = {p, q}
        BY <3>3, Zenon
      <4>2. q \in Plugins /\ (x = p \/ x = q)
        BY <4>1
      <4>3. QED BY <4>2
    <3>4. QED BY <3>1, <3>2, <3>3
  <2>2. \A q \in Plugins : Len(decl[q].script) \in Nat
    BY ScriptType
  <2>3. TypeOK'
    <3>1. /\ pc' = [pc EXCEPT ![p] = "registering"]
          /\ loads' = [loads EXCEPT ![p] = loads[p] + 1]
          /\ pos' = [pos EXCEPT ![p] = 0]
          /\ refused' = [refused EXCEPT ![p] = NoName]
          /\ UNCHANGED <<decl, conforms, tools>>
      BY <1>3 DEF BeginLoad
    <3>2. QED BY <2>1, <3>1
  <2>4. PositionInv'
    BY <1>3, <2>2 DEF BeginLoad
  <2>5. QED BY <2>3, <2>4
<1>4. ASSUME NEW p \in Plugins, Check(p) PROVE TypeOK' /\ PositionInv'
  <2>1. /\ pos[p] < Len(decl[p].script) /\ loads[p] > 0
        /\ UNCHANGED <<decl, conforms, loads, pos, tools, raced>>
    BY <1>4 DEF Check
  <2>2. CASE Taken(NextName(p))
    <3>1. /\ pc' = [pc EXCEPT ![p] = "failed"]
          /\ refused' = [refused EXCEPT ![p] = NextName(p)]
      BY <1>4, <2>2 DEF Check
    <3>2. NextName(p) \in Names
      BY <2>1, NextNameType
    <3>3. TypeOK'
      BY <2>1, <3>1, <3>2
    <3>4. PositionInv'
      BY <2>1, <3>1
    <3>5. QED BY <3>3, <3>4
  <2>3. CASE ~Taken(NextName(p))
    <3>1. /\ pc' = [pc EXCEPT ![p] = "storing"]
          /\ refused' = refused
      BY <1>4, <2>3 DEF Check
    <3>2. TypeOK'
      BY <2>1, <3>1
    <3>3. PositionInv'
      BY <2>1, <3>1
    <3>4. QED BY <3>2, <3>3
  <2>4. QED BY <2>2, <2>3
<1>5. ASSUME NEW p \in Plugins, Store(p) PROVE TypeOK' /\ PositionInv'
  <2>1. Stored(p) \in ToolType
    BY DEF Stored, ToolOf, ToolType
  <2>2. pos[p] + 1 \in Nat /\ pos[p] + 1 <= Len(decl[p].script)
    BY <1>5, ScriptType DEF Store
  <2>3. QED BY <1>5, <2>1, <2>2 DEF Store
<1>6. ASSUME NEW p \in Plugins, RegistrarRaises(p) \/ RegistrarReturns(p)
      PROVE  TypeOK' /\ PositionInv'
  BY <1>6 DEF RegistrarRaises, RegistrarReturns
<1>7. ASSUME UNCHANGED vars PROVE TypeOK' /\ PositionInv'
  BY <1>7 DEF vars
<1>8. QED BY <1>1, <1>2, <1>3, <1>4, <1>5, <1>6, <1>7 DEF Next

LEMMA InitType == Init => TypeOK /\ PositionInv
<1> SUFFICES ASSUME Init PROVE TypeOK /\ PositionInv
    OBVIOUS
<1>1. TypeOK
  BY DEF Init, TypeOK, ToolType
<1>2. \A p \in Plugins : Len(decl[p].script) \in Nat
  BY <1>1, ScriptType
<1>3. QED BY <1>1, <1>2 DEF Init, PositionInv, Loading

LEMMA TypesAndPositions == Spec => [](TypeOK /\ PositionInv)
  BY InitType, TypeStep, PTL DEF Spec

\* Every variable holds a value of its kind in every reachable state.
THEOREM TypeCorrect == Spec => []TypeOK
  BY TypesAndPositions, PTL

-----------------------------------------------------------------------------
(* Who owns a name.                                                        *)

\* The names the last load of p has registered.
Held(p) == {decl[p].script[i] : i \in 1..pos[p]}

\* The key is the last conjunct: between the two halves of register, a name
\* can have come to be held only by a load that runs at the same time.
OwnershipInv ==
  /\ \A p, q \in Plugins : p # q /\ Loading(p) /\ Loading(q) => Raced(p, q)
  /\ \A n \in Names : tools[n] # Absent => tools[n].load <= loads[tools[n].plugin]
  /\ \A p \in Plugins : \A n \in Names : tools[n] = ToolOf(p) /\ loads[p] > 0 => n \in Held(p)
  /\ \A p \in Plugins : \A n \in Held(p) :
       /\ tools[n] # Absent
       /\ tools[n] = ToolOf(p) \/ (tools[n].plugin # p /\ Raced(p, tools[n].plugin))
  /\ \A p \in Plugins : pc[p] = "storing" =>
       /\ NextName(p) \notin Held(p)
       /\ \A q \in Plugins \ {p} : NextName(p) \in Held(q) => Raced(p, q)

LEMMA HeldNames ==
  ASSUME TypeOK, PositionInv, NEW p \in Plugins
  PROVE  Held(p) \subseteq Names
  BY ScriptType DEF Held, PositionInv, TypeOK

LEMMA HeldAfterStore ==
  ASSUME TypeOK, PositionInv, NEW p \in Plugins, Store(p)
  PROVE  /\ Held(p)' = Held(p) \cup {NextName(p)}
         /\ \A q \in Plugins \ {p} : Held(q)' = Held(q)
<1>1. pos[p] \in Nat /\ pos'[p] = pos[p] + 1 /\ decl' = decl
  BY DEF Store, TypeOK
<1>2. 1..(pos[p] + 1) = (1..pos[p]) \cup {pos[p] + 1}
  BY <1>1
<1>3. QED BY <1>1, <1>2 DEF Store, Held, NextName, TypeOK

\* A step that registers nothing and begins no load keeps the invariant.
LEMMA QuietStep ==
  ASSUME OwnershipInv, UNCHANGED <<decl, loads, pos, tools, raced>>,
         \A q \in Plugins : pc'[q] = pc[q] \/ pc'[q] \notin {"registering", "storing"}
  PROVE  OwnershipInv'
<1>1. \A q \in Plugins : Held(q)' = Held(q) /\ NextName(q)' = NextName(q) /\ ToolOf(q)' = ToolOf(q)
  BY DEF Held, NextName, ToolOf
<1>2. \A q \in Plugins : (Loading(q)' => Loading(q)) /\ (pc'[q] = "storing" => pc[q] = "storing")
  BY DEF Loading
<1>3. \A q, s \in Plugins : q # s /\ Loading(q)' /\ Loading(s)' => Raced(q, s)'
  BY <1>2 DEF OwnershipInv, Raced
<1>4. \A q \in Plugins : pc'[q] = "storing" =>
        /\ NextName(q)' \notin Held(q)'
        /\ \A s \in Plugins \ {q} : NextName(q)' \in Held(s)' => Raced(q, s)'
  BY <1>1, <1>2 DEF OwnershipInv, Raced
<1>5. QED BY <1>1, <1>3, <1>4 DEF OwnershipInv, Raced

LEMMA OwnershipStep == TypeOK /\ PositionInv /\ OwnershipInv /\ [Next]_vars => OwnershipInv'
<1> SUFFICES ASSUME TypeOK, PositionInv, OwnershipInv, [Next]_vars PROVE OwnershipInv'
    OBVIOUS
<1>1. ASSUME NEW p \in Plugins, BeginLoad(p) PROVE OwnershipInv'
  <2>1. /\ Held(p)' = {}
        /\ \A q \in Plugins \ {p} : Held(q)' = Held(q)
    BY <1>1 DEF BeginLoad, Held, TypeOK
  <2>2. \A q, s \in Plugins : Raced(q, s) => Raced(q, s)'
    BY <1>1 DEF BeginLoad, Raced
  <2>3. \A q \in Plugins : Loading(q)' => q = p \/ Loading(q)
    BY <1>1 DEF BeginLoad, Loading, Goto, TypeOK
  <2>4. \A q \in Plugins \ {p} : Loading(q) => Raced(p, q)' /\ Raced(q, p)'
    <3> SUFFICES ASSUME NEW q \in Plugins \ {p}, Loading(q) PROVE {p, q} \in raced'
      BY DEF Raced
    <3> QED BY <1>1 DEF BeginLoad
  <2>5. /\ tools' = tools
        /\ loads'[p] = loads[p] + 1
        /\ \A q \in Plugins \ {p} : loads'[q] = loads[q]
        /\ \A q \in Plugins \ {p} : NextName(q)' = NextName(q) /\ pc'[q] = pc[q]
        /\ pc'[p] = "registering"
    BY <1>1 DEF BeginLoad, Goto, NextName, TypeOK
  <2>6. \A n \in Names : tools[n] # ToolOf(p)'
    BY <2>5 DEF OwnershipInv, ToolOf, TypeOK, ToolType, Absent
  <2>7. \A q \in Plugins \ {p} : ToolOf(q)' = ToolOf(q)
    BY <2>5 DEF ToolOf
  <2>8. \A q, s \in Plugins : q # s /\ Loading(q)' /\ Loading(s)' => Raced(q, s)'
    BY <2>2, <2>3, <2>4 DEF OwnershipInv
  <2>9. \A n \in Names : tools'[n] # Absent => tools'[n].load <= loads'[tools'[n].plugin]
    BY <2>5 DEF OwnershipInv, TypeOK, ToolType
  <2>10. \A q \in Plugins : \A n \in Held(q)' :
           /\ tools'[n] # Absent
           /\ tools'[n] = ToolOf(q)' \/ (tools'[n].plugin # q /\ {q, tools'[n].plugin} \in raced')
    <3> SUFFICES ASSUME NEW q \in Plugins \ {p}, NEW n \in Held(q)
                 PROVE  /\ tools[n] # Absent
                        /\ tools[n] = ToolOf(q) \/ (tools[n].plugin # q /\ {q, tools[n].plugin} \in raced')
      BY <2>1, <2>5, <2>7
    <3>1. n \in Names
      BY HeldNames
    <3>2. tools[n] # Absent => tools[n].plugin \in Plugins
      BY <3>1 DEF TypeOK, ToolType
    <3>3. QED BY <2>2, <3>2 DEF OwnershipInv, Raced
  <2>11. \A q \in Plugins : pc'[q] = "storing" =>
           /\ NextName(q)' \notin Held(q)'
           /\ \A s \in Plugins \ {q} : NextName(q)' \in Held(s)' => Raced(q, s)'
    BY <2>1, <2>2, <2>5 DEF OwnershipInv
  <2>12. \A q \in Plugins : \A n \in Names :
           tools'[n] = ToolOf(q)' /\ loads'[q] > 0 => n \in Held(q)'
    BY <2>1, <2>5, <2>6, <2>7 DEF OwnershipInv
  <2>13. QED BY <2>8, <2>9, <2>10, <2>11, <2>12 DEF OwnershipInv, Raced
<1>2. ASSUME NEW p \in Plugins, Store(p) PROVE OwnershipInv'
  <2> DEFINE n == NextName(p)
  <2>1. n \in Names /\ loads[p] > 0 /\ Loading(p)
    BY <1>2, NextNameType DEF Store, PositionInv, Loading
  <2>2. /\ tools' = [tools EXCEPT ![n] = ToolOf(p)]
        /\ loads' = loads /\ raced' = raced /\ decl' = decl
        /\ \A q \in Plugins \ {p} : NextName(q)' = NextName(q) /\ pc'[q] = pc[q]
        /\ pc'[p] = "registering"
    BY <1>2 DEF Store, Stored, Goto, NextName, TypeOK
  <2>3. \A q \in Plugins : ToolOf(q)' = ToolOf(q) /\ Loading(q)' = Loading(q)
    BY <1>2, <2>2 DEF ToolOf, Loading, Store
  <2>4. \A q, s \in Plugins : Raced(q, s)' = Raced(q, s)
    BY <2>2 DEF Raced
  <2>5. ToolOf(p) # Absent /\ ToolOf(p).plugin = p /\ ToolOf(p).load = loads[p]
    BY <2>1 DEF ToolOf, Absent
  <2>6. \A q \in Plugins \ {p} : n \in Held(q) => Raced(p, q)
    BY <1>2 DEF OwnershipInv, Store
  <2>7. \A q \in Plugins \ {p} : pc[q] = "storing" => Raced(q, p)
    BY <2>1 DEF OwnershipInv, Loading
  <2>8. \A q, s \in Plugins : q # s /\ Loading(q)' /\ Loading(s)' => Raced(q, s)'
    BY <2>3, <2>4 DEF OwnershipInv
  <2>9. \A m \in Names : tools'[m] # Absent => tools'[m].load <= loads'[tools'[m].plugin]
    BY <2>1, <2>2, <2>5 DEF OwnershipInv, TypeOK
  <2>10. \A q \in Plugins : \A m \in Names :
           tools'[m] = ToolOf(q)' /\ loads'[q] > 0 => m \in Held(q)'
    <3> SUFFICES ASSUME NEW q \in Plugins, NEW m \in Names, tools'[m] = ToolOf(q), loads[q] > 0
                 PROVE  m \in Held(q)'
      BY <2>2, <2>3
    <3>1. CASE m = n
      <4>1. ToolOf(p) = ToolOf(q)
        BY <2>2, <3>1 DEF TypeOK
      <4>2. p = q
        BY <4>1 DEF ToolOf
      <4>3. QED BY <1>2, <3>1, <4>2, HeldAfterStore
    <3>2. CASE m # n
      BY <1>2, <2>2, <3>2, HeldAfterStore DEF OwnershipInv, TypeOK
    <3>3. QED BY <3>1, <3>2
  <2>11. \A q \in Plugins : \A m \in Held(q)' :
           /\ tools'[m] # Absent
           /\ tools'[m] = ToolOf(q)' \/ (tools'[m].plugin # q /\ {q, tools'[m].plugin} \in raced')
    <3> SUFFICES ASSUME NEW q \in Plugins, NEW m \in Held(q)'
                 PROVE  /\ tools'[m] # Absent
                        /\ tools'[m] = ToolOf(q) \/ (tools'[m].plugin # q /\ Raced(q, tools'[m].plugin))
      BY <2>2, <2>3 DEF Raced
    <3>1. m \in Names /\ (m \in Held(q) \/ (q = p /\ m = n))
      BY <1>2, <2>1, HeldAfterStore, HeldNames
    <3>2. CASE m = n
      <4>1. tools'[m] = ToolOf(p)
        BY <2>1, <2>2, <3>2 DEF TypeOK
      <4>2. q # p => Raced(q, p)
        <5>1. {p, q} = {q, p}
          OBVIOUS
        <5>2. QED BY <2>6, <3>1, <3>2, <5>1 DEF Raced
      <4>3. QED BY <2>5, <4>1, <4>2
    <3>3. CASE m # n
      BY <2>2, <3>1, <3>3 DEF OwnershipInv, TypeOK
    <3>4. QED BY <3>2, <3>3
  <2>12. \A q \in Plugins : pc'[q] = "storing" =>
           /\ NextName(q)' \notin Held(q)'
           /\ \A s \in Plugins \ {q} : NextName(q)' \in Held(s)' => Raced(q, s)'
    <3> SUFFICES ASSUME NEW q \in Plugins \ {p}, pc[q] = "storing"
                 PROVE  /\ NextName(q) \notin Held(q)'
                        /\ \A s \in Plugins \ {q} : NextName(q) \in Held(s)' => Raced(q, s)
      BY <2>2, <2>4
    <3>1. NextName(q) \notin Held(q)'
      BY <1>2, HeldAfterStore DEF OwnershipInv
    <3>2. \A s \in Plugins \ {q, p} : NextName(q) \in Held(s)' => Raced(q, s)
      BY <1>2, HeldAfterStore DEF OwnershipInv
    <3>3. QED BY <2>7, <3>1, <3>2
  <2>13. QED BY <2>8, <2>9, <2>10, <2>11, <2>12 DEF OwnershipInv, Raced
<1>3. ASSUME NEW p \in Plugins, Check(p) PROVE OwnershipInv'
  <2>1. /\ UNCHANGED <<decl, loads, pos, tools, raced>>
        /\ \A q \in Plugins \ {p} : pc'[q] = pc[q]
        /\ pc'[p] = "storing" => tools[NextName(p)] = Absent
        /\ Loading(p)
        /\ NextName(p) \in Names
    BY <1>3, NextNameType DEF Check, Goto, Taken, Loading, TypeOK
  <2>2. \A q \in Plugins : Held(q)' = Held(q) /\ NextName(q)' = NextName(q) /\ ToolOf(q)' = ToolOf(q)
    BY <2>1 DEF Held, NextName, ToolOf
  <2>3. \A q \in Plugins : Loading(q)' => Loading(q)
    BY <2>1 DEF Loading
  <2>4. \A q, s \in Plugins : Raced(q, s)' = Raced(q, s)
    BY <2>1 DEF Raced
  <2>5. pc'[p] = "storing" => \A q \in Plugins : NextName(p) \notin Held(q)
    BY <2>1 DEF OwnershipInv
  <2>6. \A q, s \in Plugins : q # s /\ Loading(q)' /\ Loading(s)' => Raced(q, s)'
    BY <2>3, <2>4 DEF OwnershipInv
  <2>7. \A q \in Plugins : pc'[q] = "storing" =>
          /\ NextName(q)' \notin Held(q)'
          /\ \A s \in Plugins \ {q} : NextName(q)' \in Held(s)' => Raced(q, s)'
    BY <2>1, <2>2, <2>4, <2>5 DEF OwnershipInv
  <2>8. QED BY <2>1, <2>2, <2>6, <2>7 DEF OwnershipInv, Raced
<1>4. ASSUME NEW p \in Plugins,
             Construct(p) \/ Validate(p) \/ RegistrarRaises(p) \/ RegistrarReturns(p)
      PROVE  OwnershipInv'
  <2>1. /\ UNCHANGED <<decl, loads, pos, tools, raced>>
        /\ \A q \in Plugins : pc'[q] = pc[q] \/ pc'[q] \notin {"registering", "storing"}
    BY <1>4 DEF Construct, Validate, RegistrarRaises, RegistrarReturns, Goto, TypeOK
  <2>2. QED BY <2>1, QuietStep
<1>5. ASSUME UNCHANGED vars PROVE OwnershipInv'
  BY <1>5, QuietStep DEF vars
<1>6. QED BY <1>1, <1>2, <1>3, <1>4, <1>5 DEF Next

LEMMA OwnershipInvariant == Spec => []OwnershipInv
<1>1. Init => OwnershipInv
  <2> SUFFICES ASSUME Init PROVE OwnershipInv
      OBVIOUS
  <2>1. \A p \in Plugins : ~Loading(p) /\ pc[p] # "storing" /\ Held(p) = {} /\ loads[p] = 0
    BY DEF Init, Loading, Held
  <2>2. \A n \in Names : tools[n] = Absent
    BY DEF Init
  <2>3. QED BY <2>1, <2>2 DEF OwnershipInv
<1>2. QED BY <1>1, OwnershipStep, TypesAndPositions, PTL DEF Spec

\* A plugin that loaded loses a name only to a load that ran at the same
\* time, although register tests and sets the entry without a lock.
THEOREM NamesAreKept == Spec => []OwnershipLostOnlyByRace
<1>1. TypeOK /\ PositionInv /\ OwnershipInv => OwnershipLostOnlyByRace
  <2> SUFFICES ASSUME TypeOK, PositionInv, OwnershipInv,
                      NEW p \in Plugins, pc[p] = "loaded", NEW i \in DOMAIN decl[p].script
               PROVE  LET tool == tools[decl[p].script[i]] IN
                      tool = ToolOf(p) \/ (tool # Absent /\ tool.plugin # p /\ Raced(p, tool.plugin))
    BY DEF OwnershipLostOnlyByRace
  <2>1. decl[p].script[i] \in Held(p)
    BY ScriptType DEF PositionInv, Held
  <2>2. QED BY <2>1 DEF OwnershipInv
<1>2. QED BY <1>1, OwnershipInvariant, TypesAndPositions, PTL

-----------------------------------------------------------------------------
(* What conformance is good for.                                           *)

\* A refusal belongs to a load that failed, and the name it was refused for
\* is held by a load of another plugin or by an earlier one.
ConformanceInv ==
  \A p \in Plugins :
    /\ conforms[p] => Conforms(decl[p])
    /\ refused[p] # NoName => pc[p] = "failed" /\ refused[p] \in Names
    /\ conforms[p] /\ refused[p] # NoName => tools[refused[p]] \notin {ToolOf(p), Absent}
    /\ pc[p] \notin {"declared", "rejected"} =>
         NoDuplicates(decl[p]) /\ ReferencesOwned(decl[p])

LEMMA ConformanceStep ==
  TypeOK /\ PositionInv /\ OwnershipInv /\ ConformanceInv /\ [Next]_vars => ConformanceInv'
<1> SUFFICES ASSUME TypeOK, PositionInv, OwnershipInv, ConformanceInv, [Next]_vars
             PROVE  ConformanceInv'
    OBVIOUS
<1>1. ASSUME NEW p \in Plugins, Check(p) PROVE ConformanceInv'
  <2>1. /\ UNCHANGED <<decl, conforms, loads, tools>>
        /\ \A q \in Plugins \ {p} : pc'[q] = pc[q] /\ refused'[q] = refused[q]
        /\ refused[p] = NoName
        /\ pc[p] = "registering" /\ pc'[p] \in {"storing", "failed"}
    BY <1>1 DEF Check, Goto, ConformanceInv, TypeOK
  <2>2. \A q \in Plugins : ToolOf(q)' = ToolOf(q)
    BY <2>1 DEF ToolOf
  <2>3. NextName(p) \in Names
    BY <1>1, NextNameType DEF Check
  <2>4. refused'[p] # NoName =>
          pc'[p] = "failed" /\ refused'[p] = NextName(p) /\ tools[NextName(p)] # Absent
    BY <1>1, <2>1 DEF Check, Goto, Taken, TypeOK
  <2>5. conforms[p] => tools[NextName(p)] # ToolOf(p)
    <3> SUFFICES ASSUME conforms[p], tools[NextName(p)] = ToolOf(p) PROVE FALSE
        OBVIOUS
    <3>1. NextName(p) \in Held(p)
      BY <2>1, <2>3 DEF OwnershipInv, PositionInv, Loading
    <3>2. PICK i \in 1..pos[p] : decl[p].script[i] = decl[p].script[pos[p] + 1]
      BY <3>1 DEF Held, NextName
    <3>3. i \in DOMAIN decl[p].script /\ pos[p] + 1 \in DOMAIN decl[p].script /\ i # pos[p] + 1
      BY <1>1, ScriptType DEF Check, TypeOK
    <3>4. IsInjective(decl[p].script)
      BY DEF ConformanceInv, Conforms
    <3>5. QED BY <3>2, <3>3, <3>4 DEF IsInjective
  <2>6. QED BY <2>1, <2>2, <2>3, <2>4, <2>5 DEF ConformanceInv
<1>2. ASSUME NEW p \in Plugins, Store(p) PROVE ConformanceInv'
  <2>1. /\ UNCHANGED <<decl, conforms, loads, refused>>
        /\ tools' = [tools EXCEPT ![NextName(p)] = ToolOf(p)]
        /\ pc[p] = "storing" /\ pc'[p] = "registering"
        /\ \A q \in Plugins \ {p} : pc'[q] = pc[q]
    BY <1>2 DEF Store, Stored, Goto, TypeOK
  <2>2. ToolOf(p) # Absent /\ \A q \in Plugins : ToolOf(q)' = ToolOf(q)
    BY <1>2, <2>1 DEF ToolOf, Absent, PositionInv, Loading
  <2>3. \A q \in Plugins \ {p} : ToolOf(q) # ToolOf(p)
    BY DEF ToolOf
  <2>4. refused[p] = NoName
    BY <2>1 DEF ConformanceInv
  <2>5. \A q \in Plugins \ {p} : conforms[q] /\ refused[q] # NoName =>
          tools'[refused[q]] \notin {ToolOf(q), Absent}
    BY <2>1, <2>2, <2>3 DEF ConformanceInv, TypeOK
  <2>6. QED BY <2>1, <2>2, <2>4, <2>5 DEF ConformanceInv
<1>3. ASSUME NEW p \in Plugins, Construct(p) PROVE ConformanceInv'
  BY <1>3 DEF Construct, Goto, ConformanceInv, ToolOf, TypeOK
<1>4. ASSUME NEW p \in Plugins, Validate(p) PROVE ConformanceInv'
  BY <1>4 DEF Validate, ConformanceInv, ToolOf, TypeOK
<1>5. ASSUME NEW p \in Plugins, BeginLoad(p) PROVE ConformanceInv'
  BY <1>5 DEF BeginLoad, Goto, ConformanceInv, ToolOf, TypeOK
<1>6. ASSUME NEW p \in Plugins, RegistrarRaises(p) \/ RegistrarReturns(p)
      PROVE  ConformanceInv'
  BY <1>6 DEF RegistrarRaises, RegistrarReturns, Goto, ConformanceInv, ToolOf, TypeOK
<1>7. ASSUME UNCHANGED vars PROVE ConformanceInv'
  BY <1>7 DEF vars, ConformanceInv, ToolOf
<1>8. QED BY <1>1, <1>2, <1>3, <1>4, <1>5, <1>6, <1>7 DEF Next

LEMMA ConformanceInvariant == Spec => []ConformanceInv
<1>1. Init => ConformanceInv
  BY DEF Init, ConformanceInv
<1>2. QED BY <1>1, ConformanceStep, OwnershipInvariant, TypesAndPositions, PTL DEF Spec

\* A plugin that conforms is refused only for a name another load holds.
THEOREM RefusalsAreForOthers == Spec => []RefusedOnlyForOthers
<1>1. ConformanceInv => RefusedOnlyForOthers
  BY DEF ConformanceInv, RefusedOnlyForOthers
<1>2. QED BY <1>1, ConformanceInvariant, PTL

\* The expectations of a plugin that conforms and loaded can be run.
THEOREM ExpectationsCanRun == Spec => []ExpectationsResolve
<1>1. TypeOK /\ PositionInv /\ OwnershipInv /\ ConformanceInv => ExpectationsResolve
  <2> SUFFICES ASSUME TypeOK, PositionInv, OwnershipInv, ConformanceInv,
                      NEW p \in Plugins, conforms[p], pc[p] = "loaded",
                      NEW i \in DOMAIN decl[p].verification
               PROVE  LET expectation == decl[p].verification[i] IN
                      /\ \E j \in DOMAIN decl[p].capabilities :
                           LET capability == decl[p].capabilities[j] IN
                           /\ Identity(capability) = expectation.capability
                           /\ capability.domain \in Range(decl[p].domains)
                           /\ \A k \in DOMAIN decl[p].capabilities \ {j} :
                                Identity(decl[p].capabilities[k]) # expectation.capability
                      /\ tools[expectation.tool] # Absent
    BY DEF ExpectationsResolve
  <2> DEFINE d == decl[p]
             wanted == d.verification[i].capability
  <2>1. /\ NoDuplicates(d) /\ ReferencesOwned(d)
        /\ \A k \in DOMAIN d.verification : d.verification[k].tool \in Range(d.script)
    BY DEF ConformanceInv, Conforms
  <2>2. PICK j \in DOMAIN d.capabilities : Identity(d.capabilities[j]) = wanted
    BY <2>1 DEF ReferencesOwned, Identities, Range
  <2>3. d.capabilities[j].domain \in Range(d.domains)
    BY <2>1 DEF ReferencesOwned
  <2>4. \A k \in DOMAIN d.capabilities \ {j} : Identity(d.capabilities[k]) # wanted
    BY <2>1, <2>2 DEF NoDuplicates, Identities, IsInjective
  <2>5. d.verification[i].tool \in Held(p)
    BY <2>1, ScriptType DEF Held, PositionInv, Range
  <2>6. QED BY <2>2, <2>3, <2>4, <2>5 DEF OwnershipInv
<1>2. QED BY <1>1, ConformanceInvariant, OwnershipInvariant, TypesAndPositions, PTL
=============================================================================
