--------------------------- MODULE ValidationProofs ---------------------------
(***************************************************************************)
(* Proofs about Validation for every set of parameter schemas and every    *)
(* set of argument mappings of any bounded depth: validate_arguments       *)
(* agrees, position by position, with the reference definition of          *)
(* ValidationProperties, which has no calls and no order of checks.        *)
(*                                                                         *)
(* The recursive calls descend in the arguments, so that what they return  *)
(* is known by induction on the depth that is left. Induction, over the    *)
(* naturals, is by minimal elements, as sets.                              *)
(***************************************************************************)
EXTENDS ValidationProperties, SequenceTheorems, WellFoundedInduction, TLAPS

-----------------------------------------------------------------------------
(* Induction, and sequences.                                               *)

LEMMA Least ==
  ASSUME NEW T \in SUBSET Nat, T # {}
  PROVE \E n \in T : \A m \in T : n <= m
<1> DEFINE R == {ss \in Nat \X Nat : ss[1] < ss[2]}
<1>1. IsWellFoundedOn(R, Nat)
  BY NatLessThanWellFounded, Zenon DEF OpToRel
<1>2. PICK n \in T : \A m \in T : ~(<<m, n>> \in R)
  BY <1>1, WFMin, Zenon
<1>3. ASSUME NEW m \in T PROVE n <= m
  <2>1. <<m, n>> \in Nat \X Nat /\ <<m, n>>[1] = m /\ <<m, n>>[2] = n
    OBVIOUS
  <2>2. ~(m < n)
    BY <1>2, <2>1
  <2> QED BY <2>2
<1> QED BY <1>3

\* Induction over the naturals, for sets.
LEMMA Induction ==
  ASSUME NEW T, 0 \in T, \A n \in Nat : n \in T => n + 1 \in T
  PROVE Nat \subseteq T
<1> DEFINE U == {n \in Nat : n \notin T}
<1> SUFFICES ASSUME U # {} PROVE FALSE
  OBVIOUS
<1>1. PICK n \in U : \A m \in U : n <= m
  <2> HIDE DEF U
  <2>1. U \in SUBSET Nat
    BY DEF U
  <2> QED BY <2>1, Least
<1>2. n \in Nat \ {0} /\ n \notin T
  OBVIOUS
<1>3. n - 1 \in Nat /\ n - 1 \in T
  BY <1>1, <1>2
<1> QED BY <1>2, <1>3

LEMMA FrontLast ==
  ASSUME NEW x \in Seq(Step), x # <<>>
  PROVE /\ Front(x) \in Seq(Step)
        /\ Len(Front(x)) = Len(x) - 1
        /\ Last(x) \in Step
        /\ x = Append(Front(x), Last(x))
<1> DEFINE n == Len(x)  f == SubSeq(x, 1, n - 1)
<1>1. n \in Nat \ {0} /\ x[n] \in Step /\ \A i \in 1 .. n : x[i] \in Step
  BY EmptySeq, ElementOfSeq
<1>2. f \in Seq(Step) /\ Len(f) = n - 1 /\ \A i \in 1 .. n - 1 : f[i] = x[i]
  <2>1. 1 \in Int /\ n - 1 \in Int /\ \A i \in 1 .. n - 1 : x[i] \in Step
    BY <1>1
  <2>2. /\ SubSeq(x, 1, n - 1) \in Seq(Step)
        /\ Len(SubSeq(x, 1, n - 1)) = IF 1 <= n - 1 THEN n - 1 - 1 + 1 ELSE 0
        /\ \A i \in 1 .. n - 1 - 1 + 1 : SubSeq(x, 1, n - 1)[i] = x[1 + i - 1]
    <3> HIDE DEF n, f
    <3> QED BY <2>1, SubSeqProperties
  <2>3. Len(f) = n - 1
    <3> HIDE DEF n
    <3> QED BY <1>1, <2>2
  <2>4. ASSUME NEW i \in 1 .. n - 1 PROVE f[i] = x[i]
    <3>1. i \in 1 .. n - 1 - 1 + 1 /\ 1 + i - 1 = i
      BY <1>1
    <3> HIDE DEF n
    <3> QED BY <3>1, <2>2
  <2> QED BY <2>2, <2>3, <2>4
<1>3. /\ Append(f, x[n]) \in Seq(Step)
      /\ Len(Append(f, x[n])) = n
      /\ \A i \in 1 .. n : Append(f, x[n])[i] = x[i]
  BY <1>1, <1>2, AppendProperties
<1>4. x = Append(f, x[n])
  BY <1>3, SeqEqual
<1> QED BY <1>1, <1>2, <1>4 DEF Front, Last

LEMMA Regroup ==
  ASSUME NEW x \in Seq(Step), NEW y \in Seq(Step), NEW z \in Seq(Step)
  PROVE (x \o y) \o z = x \o (y \o z)
<1> DEFINE T == Step
<1> HIDE DEF T
<1> SUFFICES ASSUME x \in Seq(T), y \in Seq(T), z \in Seq(T)
             PROVE  (x \o y) \o z = x \o (y \o z)
  BY DEF T
<1> QED BY ConcatAssociative

LEMMA FrontOfAppend ==
  ASSUME NEW x \in Seq(Step), NEW s \in Step
  PROVE /\ Append(x, s) \in Seq(Step)
        /\ Append(x, s) # <<>>
        /\ Len(Append(x, s)) = Len(x) + 1
        /\ Front(Append(x, s)) = x
        /\ Last(Append(x, s)) = s
  BY DEF Front, Last

-----------------------------------------------------------------------------
(* What _validate_value calls, and the equation its function satisfies.    *)

\* A recursive call is on a part of the value, one level down.
LEMMA CallsDeeper ==
  ASSUME NEW S, NEW A, IsTree(S), IsTree(A),
         NEW q \in DOMAIN S, NEW p \in DOMAIN A, NEW d \in Calls(S, q, A, p)
  PROVE /\ d \in (DOMAIN S) \X (DOMAIN A)
        /\ Len(d[2]) = Len(p) + 1
        /\ d[2] \in Parts(A, p)
        /\ d[1] = SchemaOf(q, d[2])
        /\ S[d[1]].kind = "dict"
<1>1. PICK y \in Parts(A, p) : KindAt(S, SchemaOf(q, y)) = "dict" /\ d = <<SchemaOf(q, y), y>>
  BY DEF Calls
<1>2. SchemaOf(q, y) \in DOMAIN S /\ S[SchemaOf(q, y)].kind = "dict"
  BY <1>1 DEF KindAt
<1>3. y \in DOMAIN A /\ y \in Seq(Step) /\ y # <<>> /\ Front(y) = p
  BY DEF Parts, IsTree
<1>4. Len(y) = Len(p) + 1
  <2>1. Len(p) = Len(y) - 1
    BY <1>3, FrontLast
  <2>2. Len(y) \in Nat
    BY <1>3
  <2> QED BY <2>1, <2>2
<1> QED BY <1>1, <1>2, <1>3, <1>4

\* What is returned depends on what the calls return and on nothing else.
LEMMA ReturnedFromCalls ==
  ASSUME NEW S, NEW A, NEW f, NEW g, NEW c,
         \A d \in Calls(S, c[1], A, c[2]) : f[d] = g[d]
  PROVE Returned(S, A, f, c) = Returned(S, A, g, c)
<1>1. {f[d] : d \in Calls(S, c[1], A, c[2])} = {g[d] : d \in Calls(S, c[1], A, c[2])}
  OBVIOUS
<1> QED BY <1>1 DEF Returned

\* There is a function that satisfies the equation of _validate_value.
LEMMA ValidateValueExists ==
  ASSUME NEW S, NEW A, IsTree(S), IsTree(A), \A x \in DOMAIN A : Len(x) <= MaxDepth
  PROVE \E f : f = [c \in (DOMAIN S) \X (DOMAIN A) |-> Returned(S, A, f, c)]
<1> DEFINE CC == (DOMAIN S) \X (DOMAIN A)
           Solves(f, n) == \A c \in CC : Len(c[2]) + n > MaxDepth => f[c] = Returned(S, A, f, c)
           Solvable(n) == \E f : Solves(f, n)
           T == {n \in Nat : Solvable(n)}
<1>0. MaxDepth \in Nat /\ \A c \in CC : Len(c[2]) \in Nat /\ Len(c[2]) <= MaxDepth
  BY DepthAssumption DEF IsTree
<1>1. 0 \in T
  <2>1. Solves(<<>>, 0)
    BY <1>0
  <2> QED BY <2>1
<1>2. ASSUME NEW n \in Nat, n \in T PROVE n + 1 \in T
  <2>1. PICK f : Solves(f, n)
    BY <1>2
  <2> DEFINE g == [c \in CC |-> IF Len(c[2]) + n > MaxDepth THEN f[c] ELSE Returned(S, A, f, c)]
  <2>2. ASSUME NEW c \in CC, Len(c[2]) + (n + 1) > MaxDepth
        PROVE g[c] = Returned(S, A, g, c)
    <3>1. g[c] = Returned(S, A, f, c)
      BY <2>1
    <3>2. ASSUME NEW d \in Calls(S, c[1], A, c[2]) PROVE f[d] = g[d]
      <4>1. d \in CC /\ Len(d[2]) = Len(c[2]) + 1
        BY CallsDeeper
      <4>2. Len(d[2]) + n > MaxDepth
        BY <4>1, <2>2, <1>0
      <4> QED BY <4>1, <4>2
    <3>3. Returned(S, A, f, c) = Returned(S, A, g, c)
      <4> HIDE DEF g
      <4> QED BY <3>2, ReturnedFromCalls
    <3> QED BY <3>1, <3>3
  <2>3. Solvable(n + 1)
    <3>1. Solves(g, n + 1)
      <4> HIDE DEF g
      <4> QED BY <2>2
    <3> HIDE DEF Solves
    <3> QED BY <3>1
  <2> HIDE DEF Solvable
  <2> QED BY <2>3
<1>3. MaxDepth + 1 \in T
  <2> HIDE DEF T
  <2> QED BY <1>0, <1>1, <1>2, Induction
<1>4. PICK f : Solves(f, MaxDepth + 1)
  BY <1>3
<1> DEFINE h == [c \in CC |-> f[c]]
<1>5. ASSUME NEW c \in CC PROVE f[c] = Returned(S, A, h, c)
  <2>1. f[c] = Returned(S, A, f, c)
    <3>1. Len(c[2]) + (MaxDepth + 1) > MaxDepth
      BY <1>0
    <3> HIDE DEF h
    <3> QED BY <3>1, <1>4
  <2>2. \A d \in Calls(S, c[1], A, c[2]) : f[d] = h[d]
    BY CallsDeeper
  <2>3. Returned(S, A, f, c) = Returned(S, A, h, c)
    <3> HIDE DEF h
    <3> QED BY <2>2, ReturnedFromCalls
  <2> QED BY <2>1, <2>3
<1>6. h = [c \in CC |-> Returned(S, A, h, c)]
  BY <1>5
<1> QED BY <1>6

\* Hence the one the module chooses does.
LEMMA ValidateValueReturns ==
  ASSUME NEW S, NEW A, IsTree(S), IsTree(A), \A x \in DOMAIN A : Len(x) <= MaxDepth,
         NEW q \in DOMAIN S, NEW p \in DOMAIN A
  PROVE ValidateValue(S, A)[<<q, p>>] = Returned(S, A, ValidateValue(S, A), <<q, p>>)
<1> DEFINE V == ValidateValue(S, A)
<1>1. V = [c \in (DOMAIN S) \X (DOMAIN A) |-> Returned(S, A, V, c)]
  <2> DEFINE Solution(f) == f = [c \in (DOMAIN S) \X (DOMAIN A) |-> Returned(S, A, f, c)]
  <2>1. \E f : Solution(f)
    BY ValidateValueExists
  <2>2. Solution(CHOOSE f : Solution(f))
    <3> HIDE DEF Solution
    <3> QED BY <2>1, Zenon
  <2>3. V = CHOOSE f : Solution(f)
    BY DEF ValidateValue
  <2> QED BY <2>2, <2>3
<1> HIDE DEF V
<1>2. V[<<q, p>>] = Returned(S, A, V, <<q, p>>)
  BY <1>1
<1> QED BY <1>2 DEF V

-----------------------------------------------------------------------------
(* The keys that lead to a position, one step at a time.                   *)

\* f is the function FlattenSeq(ss) is computed with.
Flattens(f, ss) ==
  f = [i \in 1 .. Len(ss) |-> IF i = 1 THEN ss[i] ELSE f[i - 1] \o ss[i]]

LEMMA FlatteningSteps ==
  ASSUME NEW ss \in Seq(Seq(Step)), NEW f, Flattens(f, ss)
  PROVE /\ Len(ss) # 0 => f[1] = ss[1]
        /\ \A k \in Nat \ {0} : k + 1 <= Len(ss) => f[k + 1] = f[k] \o ss[k + 1]
<1> DEFINE n == Len(ss)
<1>0. n \in Nat /\ f = [i \in 1 .. n |-> IF i = 1 THEN ss[i] ELSE f[i - 1] \o ss[i]]
  <2>1. n \in Nat
    OBVIOUS
  <2>2. f = [i \in 1 .. n |-> IF i = 1 THEN ss[i] ELSE f[i - 1] \o ss[i]]
    BY Zenon DEF Flattens
  <2> QED BY <2>1, <2>2
<1> HIDE DEF n
<1>1. n # 0 => f[1] = ss[1]
  BY <1>0
<1>2. ASSUME NEW k \in Nat \ {0}, k + 1 <= n PROVE f[k + 1] = f[k] \o ss[k + 1]
  <2> DEFINE i == k + 1
  <2>1. i \in 1 .. n /\ i # 1 /\ i - 1 = k
    BY <1>0, <1>2
  <2>2. f[i] = f[i - 1] \o ss[i]
    <3> HIDE DEF i
    <3> QED BY <1>0, <2>1
  <2> QED BY <2>1, <2>2
<1> QED BY <1>1, <1>2 DEF n

LEMMA FlatteningExists ==
  ASSUME NEW ss \in Seq(Seq(Step))
  PROVE \E f : Flattens(f, ss)
<1> DEFINE Upto(f, n) == f = [i \in 1 .. n |-> IF i = 1 THEN ss[i] ELSE f[i - 1] \o ss[i]]
           Possible(n) == \E f : Upto(f, n)
           T == {n \in Nat : Possible(n)}
<1>1. 0 \in T
  <2>1. Upto([i \in {} |-> 0], 0)
    OBVIOUS
  <2>2. Possible(0)
    <3> HIDE DEF Upto
    <3> QED BY <2>1
  <2> QED BY <2>2
<1>2. ASSUME NEW n \in Nat, n \in T PROVE n + 1 \in T
  <2>1. PICK f : Upto(f, n)
    BY <1>2
  <2> DEFINE g == [i \in 1 .. n + 1 |->
                     IF i = 1 THEN ss[i] ELSE IF i = n + 1 THEN f[n] \o ss[i] ELSE f[i]]
  <2>2. ASSUME NEW i \in 1 .. n + 1, i # 1 PROVE g[i] = g[i - 1] \o ss[i]
    <3>1. i - 1 \in 1 .. n /\ i - 1 # n + 1
      BY <2>2
    <3>2. g[i - 1] = f[i - 1]
      BY <2>1, <3>1
    <3>3. CASE i = n + 1
      <4>1. i - 1 = n /\ i # 1
        BY <2>2, <3>3
      <4>2. g[i] = IF i = 1 THEN ss[i] ELSE IF i = n + 1 THEN f[n] \o ss[i] ELSE f[i]
        BY Zenon
      <4> HIDE DEF g
      <4> QED BY <3>2, <3>3, <4>1, <4>2
    <3>4. CASE i # n + 1
      <4>1. i \in 1 .. n /\ i # 1
        BY <2>2, <3>4
      <4>2. f[i] = f[i - 1] \o ss[i]
        BY <2>1, <4>1
      <4> QED BY <2>2, <3>2, <3>4, <4>2
    <3> QED BY <3>3, <3>4
  <2>3. Upto(g, n + 1)
    BY <2>2
  <2>4. Possible(n + 1)
    <3> HIDE DEF Upto, g
    <3> QED BY <2>3
  <2> HIDE DEF Possible
  <2> QED BY <2>4
<1>3. Len(ss) \in T
  <2> HIDE DEF T
  <2>1. Len(ss) \in Nat
    OBVIOUS
  <2> QED BY <2>1, <1>1, <1>2, Induction
<1> QED BY <1>3 DEF Flattens

LEMMA FlattenSeqIs ==
  ASSUME NEW ss \in Seq(Seq(Step)), Len(ss) # 0
  PROVE \E f : Flattens(f, ss) /\ FlattenSeq(ss) = f[Len(ss)]
<1> DEFINE F(f) == Flattens(f, ss)
<1>1. F(CHOOSE f : F(f))
  <2>1. \E f : F(f)
    BY FlatteningExists
  <2> HIDE DEF F
  <2> QED BY <2>1, Zenon
<1>2. FlattenSeq(ss) = (CHOOSE f : F(f))[Len(ss)]
  BY DEF FlattenSeq, Flattens
<1> HIDE DEF F
<1>3. \E f : F(f) /\ FlattenSeq(ss) = f[Len(ss)]
  BY <1>1, <1>2
<1> QED BY <1>3 DEF F

\* Flattening longer sequences extends the flattening of shorter ones.
LEMMA FlatteningAgrees ==
  ASSUME NEW ss \in Seq(Seq(Step)), NEW t \in Seq(Step), NEW f, NEW g,
         Flattens(f, ss), Flattens(g, Append(ss, t))
  PROVE \A i \in 1 .. Len(ss) : f[i] = g[i] /\ f[i] \in Seq(Step)
<1> DEFINE n == Len(ss)
           Agree(k) == f[k] = g[k] /\ f[k] \in Seq(Step)
           T == {k \in Nat : k \in 1 .. n => Agree(k)}
<1>0. /\ n \in Nat /\ Append(ss, t) \in Seq(Seq(Step)) /\ Len(Append(ss, t)) = n + 1
      /\ \A i \in 1 .. n : Append(ss, t)[i] = ss[i] /\ ss[i] \in Seq(Step)
  BY AppendProperties, ElementOfSeq
<1>1. ASSUME NEW k \in Nat \ {0}, k + 1 <= n
      PROVE f[k + 1] = f[k] \o ss[k + 1] /\ g[k + 1] = g[k] \o ss[k + 1]
  <2>1. k + 1 <= n + 1 /\ k + 1 \in 1 .. n
    BY <1>0, <1>1
  <2>2. f[k + 1] = f[k] \o ss[k + 1]
    BY <1>1, FlatteningSteps
  <2>3. g[k + 1] = g[k] \o Append(ss, t)[k + 1]
    BY <1>0, <2>1, FlatteningSteps
  <2>4. Append(ss, t)[k + 1] = ss[k + 1]
    BY <1>0, <2>1
  <2> QED BY <2>2, <2>3, <2>4
<1>2. n # 0 => f[1] = ss[1] /\ g[1] = ss[1] /\ ss[1] \in Seq(Step)
  <2>1. n # 0 => 1 \in 1 .. n
    BY <1>0
  <2>2. n # 0 => f[1] = ss[1]
    BY FlatteningSteps
  <2>3. g[1] = Append(ss, t)[1]
    <3> DEFINE tt == Append(ss, t)
    <3>1. tt \in Seq(Seq(Step)) /\ Flattens(g, tt) /\ Len(tt) # 0
      BY <1>0
    <3> HIDE DEF tt
    <3>2. g[1] = tt[1]
      BY <3>1, FlatteningSteps
    <3> QED BY <3>2 DEF tt
  <2> HIDE DEF n
  <2> QED BY <1>0, <2>1, <2>2, <2>3
<1>3. 0 \in T
  BY <1>0
<1>4. ASSUME NEW k \in Nat, k \in T PROVE k + 1 \in T
  <2>1. CASE k + 1 \notin 1 .. n
    BY <2>1
  <2>2. CASE k = 0 /\ k + 1 \in 1 .. n
    BY <1>0, <1>2, <2>2
  <2>3. CASE k # 0 /\ k + 1 \in 1 .. n
    <3>1. k \in 1 .. n /\ k \in Nat \ {0} /\ k + 1 <= n
      BY <1>0, <2>3
    <3>2. Agree(k)
      BY <1>4, <3>1
    <3>3. ss[k + 1] \in Seq(Step)
      BY <1>0, <2>3
    <3>4. f[k] \o ss[k + 1] \in Seq(Step)
      BY <3>2, <3>3, ConcatProperties
    <3>5. f[k + 1] = f[k] \o ss[k + 1] /\ g[k + 1] = g[k] \o ss[k + 1]
      BY <1>1, <3>1
    <3>6. Agree(k + 1)
      BY <3>2, <3>4, <3>5
    <3> HIDE DEF Agree
    <3> QED BY <3>6
  <2> QED BY <2>1, <2>2, <2>3
<1>5. Nat \subseteq T
  <2> HIDE DEF T
  <2> QED BY <1>3, <1>4, Induction
<1> QED BY <1>0, <1>5

LEMMA FlattenAppend ==
  ASSUME NEW ss \in Seq(Seq(Step)), NEW t \in Seq(Step)
  PROVE /\ FlattenSeq(ss) \in Seq(Step)
        /\ FlattenSeq(Append(ss, t)) = FlattenSeq(ss) \o t
<1> DEFINE n == Len(ss)
<1>0. /\ n \in Nat /\ Append(ss, t) \in Seq(Seq(Step)) /\ Len(Append(ss, t)) = n + 1
      /\ Append(ss, t)[n + 1] = t
  BY AppendProperties
<1>1. PICK g : Flattens(g, Append(ss, t)) /\ FlattenSeq(Append(ss, t)) = g[n + 1]
  <2>1. Len(Append(ss, t)) # 0
    BY <1>0
  <2> QED BY <1>0, <2>1, FlattenSeqIs
<1>2. CASE n = 0
  <2>1. ss = <<>> /\ FlattenSeq(ss) = ss
    BY <1>2 DEF FlattenSeq
  <2>2. g[n + 1] = t
    <3>1. Len(Append(ss, t)) # 0
      BY <1>0
    <3>2. g[1] = Append(ss, t)[1]
      BY <1>0, <1>1, <3>1, FlatteningSteps
    <3> QED BY <1>0, <1>2, <3>2
  <2>3. <<>> \in Seq(Step) /\ <<>> \o t = t
    BY ConcatEmptySeq
  <2> QED BY <1>1, <2>1, <2>2, <2>3
<1>3. CASE n # 0
  <2>1. PICK f : Flattens(f, ss) /\ FlattenSeq(ss) = f[n]
    BY <1>3, FlattenSeqIs
  <2>2. n \in 1 .. n /\ f[n] = g[n] /\ f[n] \in Seq(Step)
    <3>1. n \in 1 .. n
      BY <1>0, <1>3
    <3> QED BY <1>1, <2>1, <3>1, FlatteningAgrees
  <2>3. g[n + 1] = g[n] \o t
    <3> DEFINE tt == Append(ss, t)
    <3>1. tt \in Seq(Seq(Step)) /\ Flattens(g, tt) /\ n \in Nat \ {0} /\ n + 1 <= Len(tt)
      BY <1>0, <1>1, <1>3
    <3>2. tt[n + 1] = t
      BY <1>0
    <3> HIDE DEF tt, n
    <3>3. g[n + 1] = g[n] \o tt[n + 1]
      BY <3>1, FlatteningSteps
    <3> QED BY <3>2, <3>3
  <2> QED BY <1>1, <2>1, <2>2, <2>3
<1> QED BY <1>2, <1>3

LEMMA FieldIsStep ==
  ASSUME NEW n \in Strings
  PROVE Field(n) \in Step /\ Field(n)[1] = "field" /\ Field(n)[2] = n
  BY DEF Field, Step

LEMMA KeywordsAreStrings ==
  /\ "type" \in Strings /\ "properties" \in Strings /\ "required" \in Strings
  /\ "additionalProperties" \in Strings /\ "enum" \in Strings /\ "items" \in Strings
  BY StringsAssumption DEF Keywords

LEMMA LinkType ==
  ASSUME NEW s \in Step
  PROVE Link(s) \in Seq(Step)
<1>1. Field("properties") \in Step /\ Field("items") \in Step
  BY KeywordsAreStrings, FieldIsStep
<1> QED BY <1>1 DEF Link

LEMMA GoverningRoot == Governing(<<>>) = <<>>
<1>1. [i \in DOMAIN <<>> |-> Link(<<>>[i])] = <<>>
  OBVIOUS
<1> QED BY <1>1 DEF Governing, FlattenSeq

\* The schema that governs a part is found from the one around it.
LEMMA GoverningAppend ==
  ASSUME NEW p \in Seq(Step), NEW s \in Step
  PROVE /\ Governing(p) \in Seq(Step)
        /\ Governing(Append(p, s)) = Governing(p) \o Link(s)
<1> DEFINE ss == [i \in DOMAIN p |-> Link(p[i])]
           tt == [i \in DOMAIN Append(p, s) |-> Link(Append(p, s)[i])]
<1>1. ss \in Seq(Seq(Step)) /\ Len(ss) = Len(p)
  <2>1. DOMAIN p = 1 .. Len(p) /\ Len(p) \in Nat /\ \A i \in 1 .. Len(p) : Link(p[i]) \in Seq(Step)
    BY LinkType, ElementOfSeq
  <2> QED BY <2>1
<1>2. tt = Append(ss, Link(s))
  <2>1. tt \in Seq(Seq(Step)) /\ Len(tt) = Len(p) + 1
    <3>1. DOMAIN Append(p, s) = 1 .. Len(p) + 1 /\ Len(p) \in Nat
      BY AppendProperties, LenProperties
    <3>2. \A i \in 1 .. Len(p) + 1 : Link(Append(p, s)[i]) \in Seq(Step)
      BY AppendProperties, LinkType, ElementOfSeq
    <3> QED BY <3>1, <3>2
  <2>2. Append(ss, Link(s)) \in Seq(Seq(Step)) /\ Len(Append(ss, Link(s))) = Len(p) + 1
    BY <1>1, LinkType, AppendProperties
  <2>3. ASSUME NEW i \in 1 .. Len(p) + 1 PROVE tt[i] = Append(ss, Link(s))[i]
    <3>1. CASE i = Len(p) + 1
      BY <1>1, <3>1, LinkType, AppendProperties
    <3>2. CASE i # Len(p) + 1
      BY <1>1, <3>2, LinkType, AppendProperties
    <3> QED BY <3>1, <3>2
  <2> HIDE DEF ss, tt
  <2> QED BY <2>1, <2>2, <2>3, SeqEqual
<1> HIDE DEF ss, tt
<1>3. FlattenSeq(ss) \in Seq(Step) /\ FlattenSeq(tt) = FlattenSeq(ss) \o Link(s)
  BY <1>1, <1>2, LinkType, FlattenAppend
<1> QED BY <1>3 DEF ss, tt, Governing

\* The part of a schema that speaks of a part of a value is the one that
\* _validate_value calls itself with.
LEMMA GoverningPart ==
  ASSUME NEW y \in Seq(Step), y # <<>>
  PROVE /\ Governing(Front(y)) \in Seq(Step)
        /\ Governing(y) = SchemaOf(Governing(Front(y)), y)
<1> DEFINE p == Front(y)  s == Last(y)  q == Governing(p)
<1>1. p \in Seq(Step) /\ s \in Step /\ y = Append(p, s)
  BY FrontLast
<1>2. q \in Seq(Step) /\ Governing(y) = q \o Link(s)
  <2> HIDE DEF p, s
  <2> QED BY <1>1, GoverningAppend
<1>3. Field("properties") \in Step /\ Field("items") \in Step
  BY KeywordsAreStrings, FieldIsStep
<1>4. CASE s[1] = "field"
  <2>1. q \o <<Field("properties"), s>> = Append(Append(q, Field("properties")), s)
    <3> HIDE DEF p, s, q
    <3> QED BY <1>1, <1>2, <1>3
  <2> QED BY <1>2, <1>4, <2>1 DEF Link, SchemaOf, Get
<1>5. CASE s[1] # "field"
  <2>1. q \o <<Field("items")>> = Append(q, Field("items"))
    <3> HIDE DEF p, s, q
    <3> QED BY <1>1, <1>2, <1>3, AppendIsConcat
  <2> QED BY <1>2, <1>5, <2>1 DEF Link, SchemaOf, Get
<1> QED BY <1>2, <1>4, <1>5

-----------------------------------------------------------------------------
(* Trees, and how one call judges one value.                               *)

LEMMA TreeFacts ==
  ASSUME NEW t, IsTree(t), NEW x \in DOMAIN t
  PROVE /\ x \in Seq(Step)
        /\ t[x] = Node(t[x].kind, t[x].text)
        /\ t[x].kind \in Kinds
        /\ t[x].text \in Strings
        /\ x # <<>> =>
             /\ Front(x) \in DOMAIN t
             /\ t[Front(x)].kind = IF Last(x)[1] = "field" THEN "dict" ELSE "list"
  BY DEF IsTree, Node

\* What is found under a key is found in a dict.
LEMMA FieldFacts ==
  ASSUME NEW t, IsTree(t), NEW q \in Seq(Step), NEW k \in Strings, Get(q, k) \in DOMAIN t
  PROVE q \in DOMAIN t /\ t[q].kind = "dict"
<1>1. Front(Get(q, k)) = q /\ Last(Get(q, k))[1] = "field" /\ Get(q, k) # <<>>
  BY FieldIsStep, FrontOfAppend DEF Get
<1> QED BY <1>1, TreeFacts

LEMMA PartsFacts ==
  ASSUME NEW t, IsTree(t), NEW x, NEW y \in Parts(t, x)
  PROVE /\ y \in DOMAIN t /\ y \in Seq(Step) /\ y # <<>> /\ Front(y) = x
        /\ x \in DOMAIN t /\ x \in Seq(Step)
        /\ t[x].kind = IF Last(y)[1] = "field" THEN "dict" ELSE "list"
        /\ Len(y) = Len(x) + 1
<1>1. y \in DOMAIN t /\ y # <<>> /\ Front(y) = x
  BY DEF Parts
<1>2. y \in Seq(Step) /\ Len(x) = Len(y) - 1 /\ Len(y) \in Nat
  BY <1>1, TreeFacts, FrontLast
<1>3. x \in DOMAIN t /\ t[x].kind = IF Last(y)[1] = "field" THEN "dict" ELSE "list"
  BY <1>1, TreeFacts
<1> QED BY <1>1, <1>2, <1>3, TreeFacts

LEMMA KindFacts ==
  ASSUME NEW t, IsTree(t), NEW x
  PROVE /\ KindAt(t, x) = "absent" <=> x \notin DOMAIN t
        /\ x \in DOMAIN t => KindAt(t, x) = t[x].kind
<1>1. x \in DOMAIN t => t[x].kind # "absent"
  BY TreeFacts DEF Kinds
<1> QED BY <1>1 DEF KindAt

LEMMA MatchesJsonTypes ==
  ASSUME NEW kind \in Kinds, NEW expected
  PROVE MatchesType(expected, kind) <=> expected \in JsonTypes(kind)
  BY DEF MatchesType, JsonTypes, Kinds

\* The any() over the expected types.
LEMMA TypeJudged ==
  ASSUME NEW S, IsTree(S), NEW A, IsTree(A), NEW q \in DOMAIN S, NEW p \in DOMAIN A
  PROVE TypeErrors(S, q, A, p) = {} <=>
          /\ \/ KindAt(S, Get(q, "type")) \in {"absent", "none", "str"}
             \/ KindAt(S, Get(q, "type")) = "list" /\ Parts(S, Get(q, "type")) # {}
          /\ OfDeclaredType(S, q, A[p].kind)
<1> DEFINE type == Get(q, "type")
           kind == A[p].kind
           matches(y) == S[y].kind = "str" /\ MatchesType(S[y].text, kind)
           names == {S[y].text : y \in {z \in {type} \cup Parts(S, type) : KindAt(S, z) = "str"}}
<1>1. kind \in Kinds
  BY TreeFacts
<1>2. OfDeclaredType(S, q, kind) <=>
        KindAt(S, type) \in {"absent", "none"} \/ JsonTypes(kind) \cap names # {}
  BY DEF OfDeclaredType
<1>3. CASE KindAt(S, type) \in {"absent", "none"}
  BY <1>2, <1>3 DEF TypeErrors
<1>4. CASE KindAt(S, type) = "str"
  <2>1. ExpectedTypes(S, q) = {type} /\ type \in DOMAIN S /\ S[type].kind = "str"
    BY <1>4, KindFacts DEF ExpectedTypes
  <2>2. Parts(S, type) = {}
    BY <2>1, PartsFacts
  <2>3. names = {S[type].text}
    BY <1>4, <2>2
  <2>4. TypeErrors(S, q, A, p) = {} <=> MatchesType(S[type].text, kind)
    BY <1>4, <2>1 DEF TypeErrors
  <2> QED BY <1>1, <1>2, <1>4, <2>3, <2>4, MatchesJsonTypes
<1>5. CASE KindAt(S, type) = "list"
  <2>1. ExpectedTypes(S, q) = Parts(S, type)
    BY <1>5 DEF ExpectedTypes
  <2>2. names = {S[y].text : y \in {z \in Parts(S, type) : S[z].kind = "str"}}
    BY <1>5, KindFacts, PartsFacts
  <2>3. TypeErrors(S, q, A, p) = {} <=>
          Parts(S, type) # {} /\ \E y \in Parts(S, type) : matches(y)
    BY <1>5, <2>1 DEF TypeErrors
  <2>4. (\E y \in Parts(S, type) : matches(y)) <=> JsonTypes(kind) \cap names # {}
    BY <1>1, <2>2, MatchesJsonTypes
  <2> HIDE DEF names, matches
  <2> QED BY <1>2, <1>5, <2>3, <2>4
<1>6. CASE KindAt(S, type) \notin {"absent", "none", "str", "list"}
  <2>1. ExpectedTypes(S, q) = {}
    BY <1>6 DEF ExpectedTypes
  <2> QED BY <1>6, <2>1 DEF TypeErrors
<1> QED BY <1>3, <1>4, <1>5, <1>6

\* The early returns are for the values that cannot be looked into.
LEMMA OnlyErrorsJudge ==
  ASSUME NEW S, IsTree(S), NEW A, IsTree(A), NEW q \in DOMAIN S, NEW p \in DOMAIN A,
         S[q].kind = "dict"
  PROVE OnlyErrors(S, q, A, p) # {} <=> Unreadable(S, q, A, p)
<1>1. CASE TypeErrors(S, q, A, p) # {}
  BY <1>1, TypeJudged DEF OnlyErrors, Unreadable, Meaningful
<1>2. CASE TypeErrors(S, q, A, p) = {}
  BY <1>2, TypeJudged DEF OnlyErrors, Unreadable, Meaningful
<1> QED BY <1>1, <1>2

LEMMA OnlyErrorsPlace ==
  ASSUME NEW S, NEW A, NEW q, NEW p, NEW e \in OnlyErrors(S, q, A, p)
  PROVE PlaceOf(e) = p
  BY DEF OnlyErrors, TypeErrors, PlaceOf, Error

\* What the loops append is at the value, for a fault of the value, or at a
\* field whose own schema is no mapping.
LEMMA OwnErrorsPlace ==
  ASSUME NEW S, IsTree(S), NEW A, IsTree(A), NEW q \in DOMAIN S, NEW p \in DOMAIN A,
         S[q].kind = "dict", NEW e \in OwnErrors(S, q, A, p)
  PROVE \/ PlaceOf(e) = p /\ Faulty(S, q, A, p)
        \/ /\ PlaceOf(e) \in Parts(A, p)
           /\ Last(PlaceOf(e))[1] = "field"
           /\ KindAt(S, SchemaOf(q, PlaceOf(e))) \notin {"absent", "dict"}
<1>1. CASE e \in EnumErrors(S, q, A, p)
  BY <1>1 DEF EnumErrors, PlaceOf, Error, Faulty, InEnum
<1>2. CASE A[p].kind = "dict" /\ e \in MissingErrors(S, q, A, p)
  <2>1. PICK y \in Parts(S, Get(q, "required")) :
          Get(p, S[y].text) \notin DOMAIN A /\ e = Error(Get(p, S[y].text), "missing")
    BY <1>2 DEF MissingErrors
  <2>2. PlaceOf(e) = p
    <3>1. S[y].text \in Strings /\ p \in Seq(Step)
      BY PartsFacts, TreeFacts
    <3>2. Front(Get(p, S[y].text)) = p
      BY <3>1, FieldIsStep, FrontOfAppend DEF Get
    <3> QED BY <2>1, <3>2 DEF PlaceOf, Error
  <2> QED BY <1>2, <2>1, <2>2 DEF Faulty, FieldsAdmitted
<1>3. CASE A[p].kind = "dict" /\ e \in UnexpectedErrors(S, q, A, p)
  <2>1. PICK y \in Parts(A, p) : /\ Closed(S, q)
                                 /\ Append(Get(q, "properties"), Last(y)) \notin DOMAIN S
                                 /\ e = Error(y, "unexpected")
    BY <1>3 DEF UnexpectedErrors
  <2>2. PlaceOf(e) = p
    BY <2>1 DEF PlaceOf, Error, Parts
  <2> QED BY <1>3, <2>1, <2>2 DEF Faulty, FieldsAdmitted
<1>4. CASE e \in PropertyErrors(S, q, A, p)
  BY <1>4 DEF PropertyErrors, PlaceOf, Error
<1> QED BY <1>1, <1>2, <1>3, <1>4 DEF OwnErrors

\* A fault of a value that can be looked into makes one of the loops append.
LEMMA FaultHasOwnError ==
  ASSUME NEW S, IsTree(S), NEW A, IsTree(A), NEW q \in DOMAIN S, NEW p \in DOMAIN A,
         Faulty(S, q, A, p), ~Unreadable(S, q, A, p)
  PROVE \E e \in OwnErrors(S, q, A, p) : PlaceOf(e) = p
<1>1. CASE ~InEnum(S, q, Subtree(A, p))
  <2>1. Error(p, "enum") \in EnumErrors(S, q, A, p)
    BY <1>1 DEF EnumErrors, InEnum
  <2> QED BY <2>1 DEF OwnErrors, PlaceOf, Error
<1>2. CASE /\ A[p].kind = "dict"
           /\ \E y \in Parts(S, Get(q, "required")) : Get(p, S[y].text) \notin DOMAIN A
  <2>1. PICK y \in Parts(S, Get(q, "required")) : Get(p, S[y].text) \notin DOMAIN A
    BY <1>2
  <2> DEFINE e == Error(Get(p, S[y].text), "missing")
  <2>2. e \in OwnErrors(S, q, A, p)
    BY <1>2, <2>1 DEF MissingErrors, OwnErrors
  <2>3. PlaceOf(e) = p
    <3>1. S[y].text \in Strings /\ p \in Seq(Step)
      BY PartsFacts, TreeFacts
    <3>2. Front(Get(p, S[y].text)) = p
      BY <3>1, FieldIsStep, FrontOfAppend DEF Get
    <3> QED BY <3>2 DEF PlaceOf, Error
  <2> QED BY <2>2, <2>3
<1>3. CASE /\ A[p].kind = "dict" /\ Closed(S, q)
           /\ \E y \in Parts(A, p) : Append(Get(q, "properties"), Last(y)) \notin DOMAIN S
  <2>1. PICK y \in Parts(A, p) : Append(Get(q, "properties"), Last(y)) \notin DOMAIN S
    BY <1>3
  <2>2. Error(y, "unexpected") \in OwnErrors(S, q, A, p)
    BY <1>3, <2>1 DEF UnexpectedErrors, OwnErrors
  <2> QED BY <2>2 DEF PlaceOf, Error, Parts
<1> QED BY <1>1, <1>2, <1>3 DEF Faulty, FieldsAdmitted

-----------------------------------------------------------------------------
(* What validate_arguments calls _validate_value with, and what it returns *)
(* of it, position by position.                                            *)

Judgeable(S, A) ==
  /\ IsTree(S) /\ S[<<>>].kind = "dict"
  /\ IsTree(A) /\ \A x \in DOMAIN A : Len(x) <= MaxDepth

\* The call on the value at p, and what it returned.
CallOf(p) == <<Governing(p), p>>
ReturnedOf(S, A, p) == ValidateValue(S, A)[CallOf(p)]
Called(S, A, p) ==
  p \in DOMAIN A /\ Governing(p) \in DOMAIN S /\ S[Governing(p)].kind = "dict"

\* What a call returns: its own errors, or those of its calls with them.
LEMMA CalledReturns ==
  ASSUME NEW S, NEW A, Judgeable(S, A), NEW p, Called(S, A, p)
  PROVE ReturnedOf(S, A, p) =
          IF OnlyErrors(S, Governing(p), A, p) # {} THEN OnlyErrors(S, Governing(p), A, p)
          ELSE OwnErrors(S, Governing(p), A, p)
                 \cup UNION {ReturnedOf(S, A, y) :
                               y \in {z \in Parts(A, p) : Called(S, A, z)}}
<1> DEFINE q == Governing(p)  V == ValidateValue(S, A)
<1>0. q \in DOMAIN S /\ p \in DOMAIN A /\ IsTree(S) /\ IsTree(A)
  BY DEF Judgeable, Called
<1>1. V[<<q, p>>] = Returned(S, A, V, <<q, p>>)
  BY <1>0, ValidateValueReturns DEF Judgeable
<1>2. ASSUME NEW y \in Parts(A, p)
      PROVE /\ SchemaOf(q, y) = Governing(y)
            /\ KindAt(S, SchemaOf(q, y)) = "dict" <=> Called(S, A, y)
  <2>1. y \in DOMAIN A /\ y \in Seq(Step) /\ y # <<>> /\ Front(y) = p
    BY <1>0, PartsFacts
  <2>2. SchemaOf(q, y) = Governing(y)
    BY <2>1, GoverningPart
  <2> QED BY <1>0, <2>1, <2>2, KindFacts DEF Called
<1>3. {V[d] : d \in Calls(S, q, A, p)} =
        {ReturnedOf(S, A, y) : y \in {z \in Parts(A, p) : Called(S, A, z)}}
  <2>1. ASSUME NEW d \in Calls(S, q, A, p)
        PROVE \E y \in Parts(A, p) : Called(S, A, y) /\ d = CallOf(y)
    BY <1>2 DEF Calls, CallOf
  <2>2. ASSUME NEW y \in Parts(A, p), Called(S, A, y)
        PROVE CallOf(y) \in Calls(S, q, A, p)
    BY <1>2, <2>2 DEF Calls, CallOf
  <2> QED BY <2>1, <2>2 DEF ReturnedOf
<1> QED BY <1>1, <1>3 DEF Returned, ReturnedOf, CallOf

\* No error of a call misleads.
LEMMA ErrorsPointAtFaults ==
  ASSUME NEW S, NEW A, Judgeable(S, A)
  PROVE \A p \in DOMAIN A : Called(S, A, p) =>
          \A e \in ReturnedOf(S, A, p) :
            PlaceOf(e) \in DOMAIN A /\ FaultyAt(S, A, PlaceOf(e))
<1> DEFINE Honest(p) == Called(S, A, p) =>
             \A e \in ReturnedOf(S, A, p) :
               PlaceOf(e) \in DOMAIN A /\ FaultyAt(S, A, PlaceOf(e))
           T == {n \in Nat : \A p \in DOMAIN A : Len(p) + n > MaxDepth => Honest(p)}
<1>0. /\ IsTree(S) /\ IsTree(A) /\ MaxDepth \in Nat
      /\ \A p \in DOMAIN A : Len(p) \in Nat /\ Len(p) <= MaxDepth
  BY DepthAssumption, TreeFacts DEF Judgeable
<1>1. 0 \in T
  BY <1>0
<1>2. ASSUME NEW n \in Nat, n \in T PROVE n + 1 \in T
  <2>1. ASSUME NEW p \in DOMAIN A, Len(p) + (n + 1) > MaxDepth, Called(S, A, p),
               NEW e \in ReturnedOf(S, A, p)
        PROVE PlaceOf(e) \in DOMAIN A /\ FaultyAt(S, A, PlaceOf(e))
    <3> DEFINE q == Governing(p)
    <3>1. q \in DOMAIN S /\ S[q].kind = "dict" /\ Speaks(S, q, p)
      BY <2>1 DEF Called, Speaks
    <3>2. CASE e \in OnlyErrors(S, q, A, p)
      <4>1. PlaceOf(e) = p /\ Unreadable(S, q, A, p)
        BY <1>0, <3>1, <3>2, OnlyErrorsPlace, OnlyErrorsJudge
      <4> QED BY <3>1, <4>1 DEF FaultyAt, Faulty
    <3>3. CASE e \in OwnErrors(S, q, A, p)
      <4>1. CASE PlaceOf(e) = p /\ Faulty(S, q, A, p)
        BY <3>1, <4>1 DEF FaultyAt
      <4>2. CASE /\ PlaceOf(e) \in Parts(A, p)
                 /\ Last(PlaceOf(e))[1] = "field"
                 /\ KindAt(S, SchemaOf(q, PlaceOf(e))) \notin {"absent", "dict"}
        <5> DEFINE y == PlaceOf(e)
        <5>1. y \in DOMAIN A /\ Governing(y) = SchemaOf(q, y)
          BY <1>0, <4>2, PartsFacts, GoverningPart
        <5>2. Governing(y) \in DOMAIN S /\ S[Governing(y)].kind # "dict"
          BY <1>0, <4>2, <5>1, KindFacts
        <5> QED BY <4>2, <5>1, <5>2 DEF FaultyAt, Speaks, Faulty, Unreadable, Meaningful
      <4> QED BY <1>0, <3>1, <3>3, <4>1, <4>2, OwnErrorsPlace
    <3>4. CASE \E y \in Parts(A, p) : Called(S, A, y) /\ e \in ReturnedOf(S, A, y)
      <4>1. PICK y \in Parts(A, p) : Called(S, A, y) /\ e \in ReturnedOf(S, A, y)
        BY <3>4
      <4>2. y \in DOMAIN A /\ Len(y) + n > MaxDepth
        BY <1>0, <2>1, PartsFacts
      <4> QED BY <1>2, <4>1, <4>2
    <3> QED
      <4> HIDE DEF T
      <4> QED BY <2>1, <3>2, <3>3, <3>4, CalledReturns
  <2> QED BY <2>1
<1>3. MaxDepth + 1 \in T
  <2> HIDE DEF T
  <2> QED BY <1>0, <1>1, <1>2, Induction
<1>4. \A p \in DOMAIN A : Len(p) + (MaxDepth + 1) > MaxDepth
  BY <1>0
<1> QED BY <1>3, <1>4

LEMMA PrefixIs ==
  ASSUME NEW x \in Seq(Step), NEW z \in Seq(Step)
  PROVE IsPrefix(x, z) <=> Len(x) <= Len(z) /\ \A i \in 1 .. Len(x) : x[i] = z[i]
<1>1. Len(x) \in Nat /\ Len(z) \in Nat
  OBVIOUS
<1>2. ASSUME Len(x) <= Len(z)
      PROVE SubSeq(x, 1, Len(x)) = SubSeq(z, 1, Len(x)) <=>
              \A i \in 1 .. Len(x) : x[i] = z[i]
  <2>1. SubSeq(x, 1, Len(x)) = [i \in 1 .. Len(x) |-> x[i]]
    BY <1>1
  <2>2. SubSeq(z, 1, Len(x)) = [i \in 1 .. Len(x) |-> z[i]]
    BY <1>1, <1>2
  <2> QED BY <2>1, <2>2
<1> QED BY <1>2 DEF IsPrefix

LEMMA PrefixFacts ==
  ASSUME NEW y \in Seq(Step), y # <<>>
  PROVE /\ IsStrictPrefix(Front(y), y)
        /\ \A x \in Seq(Step) : IsStrictPrefix(x, Front(y)) => IsStrictPrefix(x, y)
<1> DEFINE f == Front(y)
<1>1. f \in Seq(Step) /\ Len(f) \in Nat /\ Len(y) \in Nat /\ Len(f) = Len(y) - 1 /\ f # y
  BY FrontLast
<1>2. \A i \in 1 .. Len(f) : f[i] = y[i]
  <2>1. y = Append(f, Last(y)) /\ Last(y) \in Step
    BY FrontLast
  <2> HIDE DEF f
  <2> QED BY <1>1, <2>1, AppendProperties
<1>3. \A x, z \in Seq(Step) :
        IsPrefix(x, z) <=> Len(x) <= Len(z) /\ \A i \in 1 .. Len(x) : x[i] = z[i]
  BY PrefixIs
<1>4. IsStrictPrefix(f, y)
  <2>1. Len(f) <= Len(y)
    BY <1>1
  <2>2. IsPrefix(f, y)
    BY <1>1, <1>2, <1>3, <2>1
  <2> QED BY <1>1, <2>2 DEF IsStrictPrefix
<1>5. ASSUME NEW x \in Seq(Step), IsStrictPrefix(x, f)
      PROVE IsStrictPrefix(x, y)
  <2>1. Len(x) \in Nat /\ Len(x) <= Len(f) /\ \A i \in 1 .. Len(x) : x[i] = f[i]
    BY <1>1, <1>3, <1>5 DEF IsStrictPrefix
  <2>2. Len(x) <= Len(y) /\ Len(x) # Len(y)
    BY <1>1, <2>1
  <2>3. \A i \in 1 .. Len(x) : i \in 1 .. Len(f) /\ x[i] = y[i]
    BY <1>1, <1>2, <2>1
  <2> QED BY <1>3, <2>2, <2>3 DEF IsStrictPrefix
<1> QED BY <1>4, <1>5

Unblocked(S, A, p) ==
  ~\E x \in DOMAIN A : IsStrictPrefix(x, p) /\ UnreadableAt(S, A, x)

\* The value around a value that some schema speaks of is itself called on.
LEMMA CalledAround ==
  ASSUME NEW S, NEW A, Judgeable(S, A), NEW y \in DOMAIN A, y # <<>>,
         Governing(y) \in DOMAIN S, Unblocked(S, A, y)
  PROVE /\ Called(S, A, Front(y)) /\ Unblocked(S, A, Front(y))
        /\ y \in Parts(A, Front(y))
        /\ ~Unreadable(S, Governing(Front(y)), A, Front(y))
<1> DEFINE p == Front(y)  q == Governing(p)
<1>0. IsTree(S) /\ IsTree(A) /\ y \in Seq(Step)
  BY TreeFacts DEF Judgeable
<1>1. p \in DOMAIN A /\ y \in Parts(A, p)
  BY <1>0, TreeFacts DEF Parts
<1>2. q \in Seq(Step) /\ Governing(y) = SchemaOf(q, y) /\ Last(y) \in Step
  BY <1>0, GoverningPart, FrontLast
<1>3. q \in DOMAIN S /\ S[q].kind = "dict"
  <2>1. CASE Last(y)[1] = "field"
    <3>1. Governing(y) = Append(Get(q, "properties"), Last(y))
      BY <1>2, <2>1 DEF SchemaOf
    <3>2. Get(q, "properties") \in Seq(Step)
      BY <1>2, KeywordsAreStrings, FieldIsStep, FrontOfAppend DEF Get
    <3>3. Front(Governing(y)) = Get(q, "properties") /\ Governing(y) # <<>>
      BY <1>2, <3>1, <3>2, FrontOfAppend
    <3>4. Get(q, "properties") \in DOMAIN S
      BY <1>0, <3>3, TreeFacts
    <3> QED BY <1>0, <1>2, <3>4, KeywordsAreStrings, FieldFacts
  <2>2. CASE Last(y)[1] # "field"
    <3>1. Get(q, "items") \in DOMAIN S
      BY <1>2, <2>2 DEF SchemaOf
    <3> QED BY <1>0, <1>2, <3>1, KeywordsAreStrings, FieldFacts
  <2> QED BY <2>1, <2>2
<1>4. Called(S, A, p)
  BY <1>1, <1>3 DEF Called
<1>5. Unblocked(S, A, p)
  BY <1>0, PrefixFacts, TreeFacts DEF Unblocked
<1>6. ~Unreadable(S, q, A, p)
  <2>1. ~UnreadableAt(S, A, p)
    BY <1>0, <1>1, PrefixFacts DEF Unblocked
  <2> QED BY <1>3, <2>1 DEF UnreadableAt, Speaks
<1> QED BY <1>1, <1>4, <1>5, <1>6

\* A call around which everything can be looked into is made.
LEMMA UnblockedIsReached ==
  ASSUME NEW S, NEW A, Judgeable(S, A)
  PROVE \A p \in DOMAIN A : Called(S, A, p) /\ Unblocked(S, A, p) =>
          ReturnedOf(S, A, p) \subseteq ReturnedOf(S, A, <<>>)
<1> DEFINE Reached(p) == Called(S, A, p) /\ Unblocked(S, A, p) =>
             ReturnedOf(S, A, p) \subseteq ReturnedOf(S, A, <<>>)
           T == {n \in Nat : \A p \in DOMAIN A : Len(p) = n => Reached(p)}
<1>0. IsTree(S) /\ IsTree(A) /\ \A p \in DOMAIN A : p \in Seq(Step) /\ Len(p) \in Nat
  BY TreeFacts DEF Judgeable
<1>1. 0 \in T
  <2>1. \A p \in DOMAIN A : Len(p) = 0 => p = <<>>
    BY <1>0
  <2> QED BY <2>1
<1>2. ASSUME NEW n \in Nat, n \in T PROVE n + 1 \in T
  <2>1. ASSUME NEW y \in DOMAIN A, Len(y) = n + 1, Called(S, A, y), Unblocked(S, A, y)
        PROVE ReturnedOf(S, A, y) \subseteq ReturnedOf(S, A, <<>>)
    <3> DEFINE p == Front(y)  q == Governing(p)
    <3>1. y \in Seq(Step) /\ y # <<>> /\ Governing(y) \in DOMAIN S
      BY <1>0, <2>1 DEF Called
    <3>2. /\ Called(S, A, p) /\ Unblocked(S, A, p)
          /\ y \in Parts(A, p) /\ ~Unreadable(S, q, A, p)
      BY <2>1, <3>1, CalledAround
    <3>3. OnlyErrors(S, q, A, p) = {}
      BY <1>0, <3>2, OnlyErrorsJudge DEF Called
    <3>4. ReturnedOf(S, A, y) \subseteq ReturnedOf(S, A, p)
      BY <2>1, <3>2, <3>3, CalledReturns
    <3>5. p \in DOMAIN A /\ Len(p) = n
      BY <1>0, <2>1, <3>1, <3>2, PartsFacts
    <3> QED BY <1>2, <3>2, <3>4, <3>5
  <2> QED BY <2>1
<1> HIDE DEF T
<1>3. Nat \subseteq T
  BY <1>1, <1>2, Induction
<1> QED BY <1>0, <1>3 DEF T

\* No fault goes without an error, unless a value around it is unreadable.
LEMMA FaultsHaveErrors ==
  ASSUME NEW S, NEW A, Judgeable(S, A), NEW p \in DOMAIN A,
         FaultyAt(S, A, p), Unblocked(S, A, p)
  PROVE \E e \in ReturnedOf(S, A, <<>>) : PlaceOf(e) = p
<1> DEFINE g == Governing(p)
<1>0. IsTree(S) /\ IsTree(A) /\ p \in Seq(Step)
  BY TreeFacts DEF Judgeable
<1>1. CASE S[g].kind = "dict"
  <2>1. Called(S, A, p) /\ g \in DOMAIN S /\ Faulty(S, g, A, p)
    BY <1>1 DEF FaultyAt, Speaks, Called
  <2>2. ReturnedOf(S, A, p) \subseteq ReturnedOf(S, A, <<>>)
    BY <2>1, UnblockedIsReached
  <2>3. \E e \in ReturnedOf(S, A, p) : PlaceOf(e) = p
    <3>1. CASE Unreadable(S, g, A, p)
      <4>1. OnlyErrors(S, g, A, p) # {}
        BY <1>0, <1>1, <2>1, <3>1, OnlyErrorsJudge
      <4> QED BY <2>1, <4>1, CalledReturns, OnlyErrorsPlace
    <3>2. CASE ~Unreadable(S, g, A, p)
      <4>1. OnlyErrors(S, g, A, p) = {}
        BY <1>0, <1>1, <2>1, <3>2, OnlyErrorsJudge
      <4>2. \E e \in OwnErrors(S, g, A, p) : PlaceOf(e) = p
        BY <1>0, <2>1, <3>2, FaultHasOwnError
      <4> QED BY <2>1, <4>1, <4>2, CalledReturns
    <3> QED BY <3>1, <3>2
  <2> QED BY <2>2, <2>3
<1>2. CASE S[g].kind # "dict"
  <2> DEFINE x == Front(p)  q == Governing(x)
  <2>1. p # <<>> /\ Last(p)[1] = "field" /\ g \in DOMAIN S
    BY <1>2, GoverningRoot DEF FaultyAt, Speaks, Judgeable
  <2>2. /\ Called(S, A, x) /\ Unblocked(S, A, x)
        /\ p \in Parts(A, x) /\ ~Unreadable(S, q, A, x)
    BY <2>1, CalledAround
  <2>3. OnlyErrors(S, q, A, x) = {}
    BY <1>0, <2>2, OnlyErrorsJudge DEF Called
  <2>4. KindAt(S, SchemaOf(q, p)) \notin {"absent", "dict"}
    BY <1>0, <1>2, <2>1, GoverningPart, KindFacts
  <2>5. A[x].kind = "dict"
    BY <1>0, <2>1, <2>2, PartsFacts
  <2>6. Error(p, "property_schema") \in ReturnedOf(S, A, x)
    <3>1. Error(p, "property_schema") \in OwnErrors(S, q, A, x)
      BY <2>1, <2>2, <2>4, <2>5 DEF PropertyErrors, OwnErrors
    <3> QED BY <2>2, <2>3, <3>1, CalledReturns
  <2>7. x \in DOMAIN A /\ ReturnedOf(S, A, x) \subseteq ReturnedOf(S, A, <<>>)
    BY <2>2, UnblockedIsReached DEF Called
  <2>8. PlaceOf(Error(p, "property_schema")) = p
    BY DEF PlaceOf, Error
  <2> QED BY <2>6, <2>7, <2>8
<1> QED BY <1>1, <1>2

\* Nothing is returned exactly if nothing is faulty.
LEMMA NoErrorsIffNoFaults ==
  ASSUME NEW S, NEW A, Judgeable(S, A)
  PROVE ReturnedOf(S, A, <<>>) = {} <=> \A p \in DOMAIN A : ~FaultyAt(S, A, p)
<1>0. /\ IsTree(S) /\ IsTree(A) /\ <<>> \in DOMAIN A /\ Called(S, A, <<>>)
      /\ \A p \in DOMAIN A : p \in Seq(Step) /\ Len(p) \in Nat
  <2>1. IsTree(S) /\ IsTree(A)
    BY DEF Judgeable
  <2>2. <<>> \in DOMAIN A /\ Called(S, A, <<>>)
    BY GoverningRoot DEF Judgeable, Called, IsTree
  <2> QED BY <2>1, <2>2, TreeFacts
<1>1. ASSUME NEW e \in ReturnedOf(S, A, <<>>)
      PROVE \E p \in DOMAIN A : FaultyAt(S, A, p)
  BY <1>0, ErrorsPointAtFaults
<1>2. ASSUME NEW r \in DOMAIN A, FaultyAt(S, A, r)
      PROVE ReturnedOf(S, A, <<>>) # {}
  <2> DEFINE T == {Len(p) : p \in {x \in DOMAIN A : FaultyAt(S, A, x)}}
  <2>1. PICK n \in T : \A m \in T : n <= m
    <3>1. T \in SUBSET Nat /\ T # {}
      BY <1>0, <1>2
    <3> HIDE DEF T
    <3> QED BY <3>1, Least
  <2>2. PICK p \in DOMAIN A : FaultyAt(S, A, p) /\ Len(p) = n
    OBVIOUS
  <2>3. Unblocked(S, A, p)
    <3> SUFFICES ASSUME NEW x \in DOMAIN A, IsStrictPrefix(x, p), UnreadableAt(S, A, x)
                 PROVE FALSE
      BY DEF Unblocked
    <3>1. FaultyAt(S, A, x)
      BY DEF UnreadableAt, FaultyAt, Faulty
    <3>2. n <= Len(x)
      BY <2>1, <3>1
    <3>3. Len(x) <= Len(p)
      BY DEF IsStrictPrefix, IsPrefix
    <3>4. x = p
      <4>1. Len(x) = Len(p)
        BY <1>0, <2>2, <3>2, <3>3
      <4>2. SubSeq(x, 1, Len(x)) = x /\ SubSeq(p, 1, Len(p)) = p
        BY <1>0, SubSeqFull
      <4> QED BY <4>1, <4>2 DEF IsStrictPrefix, IsPrefix
    <3> QED BY <3>4 DEF IsStrictPrefix
  <2> QED BY <2>2, <2>3, FaultsHaveErrors
<1> QED BY <1>1, <1>2

-----------------------------------------------------------------------------
(* The shorthand: a declaration is found one key further down.             *)

Under(x) == <<Field("properties")>> \o x

LEMMA UnderFacts ==
  ASSUME NEW x \in Seq(Step)
  PROVE /\ Under(x) \in Seq(Step) /\ Under(x) # <<>> /\ Under(x) # <<Field("type")>>
        /\ Len(Under(x)) = Len(x) + 1
        /\ \A i \in 1 .. Len(x) : Under(x)[i + 1] = x[i]
        /\ Under(x)[1] = Field("properties")
        /\ Tail(Under(x)) = x
        /\ \A s \in Step : Under(Append(x, s)) = Append(Under(x), s)
        /\ x = <<>> => Front(Under(x)) = <<>> /\ Last(Under(x)) = Field("properties")
        /\ x # <<>> => Front(Under(x)) = Under(Front(x)) /\ Last(Under(x)) = Last(x)
<1> DEFINE h == Field("properties")
<1>0. h \in Step /\ <<h>> \in Seq(Step) /\ Len(<<h>>) = 1 /\ <<h>>[1] = h /\ h # Field("type")
  <2>1. h \in Step
    BY KeywordsAreStrings, FieldIsStep
  <2>2. h # Field("type")
    BY DEF Field
  <2> QED BY <2>1, <2>2
<1>1. /\ Under(x) \in Seq(Step) /\ Len(Under(x)) = Len(x) + 1 /\ Len(x) \in Nat
      /\ \A i \in 1 .. Len(x) : Under(x)[i + 1] = x[i]
      /\ Under(x)[1] = h
  <2> HIDE DEF h
  <2>1. /\ <<h>> \o x \in Seq(Step) /\ Len(<<h>> \o x) = Len(x) + 1 /\ Len(x) \in Nat
        /\ \A i \in 1 .. Len(x) : (<<h>> \o x)[i + 1] = x[i]
        /\ (<<h>> \o x)[1] = h
    BY <1>0
  <2> QED BY <2>1 DEF Under, h
<1>2. Under(x) # <<>> /\ Under(x) # <<Field("type")>>
  BY <1>0, <1>1
<1>3. Tail(Under(x)) = x
  <2> DEFINE u == Under(x)
  <2>1. /\ Tail(u) \in Seq(Step) /\ Len(Tail(u)) = Len(x)
        /\ \A i \in 1 .. Len(Tail(u)) : Tail(u)[i] = u[i + 1]
    BY <1>1, <1>2, HeadTailProperties
  <2>2. \A i \in 1 .. Len(x) : Tail(u)[i] = x[i]
    BY <1>1, <2>1
  <2> HIDE DEF u
  <2>3. Tail(u) = x
    BY <2>1, <2>2, SeqEqual
  <2> QED BY <2>3 DEF u
<1>4. ASSUME NEW z \in Seq(Step), NEW s \in Step PROVE Under(Append(z, s)) = Append(Under(z), s)
  <2>1. <<h>> \o Append(z, s) = Append(<<h>> \o z, s)
    <3> HIDE DEF h
    <3>1. <<s>> \in Seq(Step) /\ Append(z, s) = z \o <<s>>
      BY AppendIsConcat
    <3>2. (<<h>> \o z) \o <<s>> = <<h>> \o (z \o <<s>>)
      BY <1>0, <3>1, Regroup
    <3>3. <<h>> \o z \in Seq(Step)
      BY <1>0, ConcatProperties
    <3> QED BY <3>1, <3>2, <3>3, AppendIsConcat
  <2> QED BY <2>1 DEF Under
<1>5. x = <<>> => Front(Under(x)) = <<>> /\ Last(Under(x)) = h
  <2> HAVE x = <<>>
  <2>1. Under(x) = Append(<<>>, h)
    BY ConcatEmptySeq, <1>0 DEF Under
  <2> HIDE DEF h
  <2> QED BY <1>0, <2>1, FrontOfAppend
<1>6. x # <<>> => Front(Under(x)) = Under(Front(x)) /\ Last(Under(x)) = Last(x)
  <2> HAVE x # <<>>
  <2> DEFINE f == Front(x)  s == Last(x)
  <2>1. f \in Seq(Step) /\ s \in Step /\ x = Append(f, s)
    BY FrontLast
  <2> HIDE DEF f, s
  <2>2. Under(x) = Append(Under(f), s)
    BY <1>4, <2>1
  <2>3. Under(f) \in Seq(Step)
    BY <1>0, <2>1, ConcatProperties DEF Under
  <2>4. Front(Under(x)) = Under(f) /\ Last(Under(x)) = s
    BY <2>1, <2>2, <2>3, FrontOfAppend
  <2> QED BY <2>4 DEF f, s
<1> QED BY <1>1, <1>2, <1>3, <1>4, <1>5, <1>6

LEMMA UnderInjective ==
  ASSUME NEW x \in Seq(Step), NEW y \in Seq(Step), Under(x) = Under(y)
  PROVE x = y
<1>1. Tail(Under(x)) = x /\ Tail(Under(y)) = y
  BY UnderFacts
<1> QED BY <1>1

Shorthand(P) == IsTree(P) /\ P[<<>>].kind = "dict" /\ IsShorthand(P)

LEMMA ExpandedNodes ==
  ASSUME NEW P, Shorthand(P)
  PROVE /\ \A y \in DOMAIN Expanded(P) :
             y = <<>> \/ y = <<Field("type")>> \/ \E x \in DOMAIN P : y = Under(x)
        /\ <<>> \in DOMAIN Expanded(P) /\ Expanded(P)[<<>>] = Node("dict", "")
        /\ <<Field("type")>> \in DOMAIN Expanded(P)
        /\ Expanded(P)[<<Field("type")>>] = Node("str", "object")
        /\ \A x \in Seq(Step) :
             /\ Under(x) \in DOMAIN Expanded(P) <=> x \in DOMAIN P
             /\ x \in DOMAIN P => Expanded(P)[Under(x)] = P[x]
<1> DEFINE type == <<Field("type")>>
           D == {<<>>, type} \cup {Under(x) : x \in DOMAIN P}
<1>1. Expanded(P) = [y \in D |-> IF y = <<>> THEN Node("dict", "")
                                 ELSE IF y = type THEN Node("str", "object")
                                 ELSE P[Tail(y)]]
  BY DEF Expanded, Shorthand, Under
<1>2. type # <<>>
  OBVIOUS
<1>3. ASSUME NEW x \in Seq(Step)
      PROVE /\ Under(x) \in D <=> x \in DOMAIN P
            /\ Under(x) # <<>> /\ Under(x) # type /\ Tail(Under(x)) = x
  <2>1. Under(x) # <<>> /\ Under(x) # type /\ Tail(Under(x)) = x
    BY UnderFacts
  <2>2. ASSUME Under(x) \in D PROVE x \in DOMAIN P
    <3>1. PICK z \in DOMAIN P : Under(x) = Under(z)
      BY <2>1, <2>2
    <3>2. z \in Seq(Step)
      BY TreeFacts DEF Shorthand
    <3> QED BY <3>1, <3>2, UnderInjective
  <2> QED BY <2>1, <2>2
<1> HIDE DEF type
<1>4. ASSUME NEW x \in Seq(Step)
      PROVE /\ Under(x) \in DOMAIN Expanded(P) <=> x \in DOMAIN P
            /\ x \in DOMAIN P => Expanded(P)[Under(x)] = P[x]
  BY <1>1, <1>3
<1>5. /\ \A y \in DOMAIN Expanded(P) : y = <<>> \/ y = type \/ \E x \in DOMAIN P : y = Under(x)
      /\ <<>> \in DOMAIN Expanded(P) /\ Expanded(P)[<<>>] = Node("dict", "")
      /\ type \in DOMAIN Expanded(P) /\ Expanded(P)[type] = Node("str", "object")
  BY <1>1, <1>2
<1> QED BY <1>4, <1>5 DEF type

\* The shorthand makes a tree of a tree.
LEMMA ExpandedIsTree ==
  ASSUME NEW P, IsTree(P), P[<<>>].kind = "dict"
  PROVE IsTree(Expanded(P)) /\ Expanded(P)[<<>>].kind = "dict"
<1>1. CASE ~IsShorthand(P)
  BY <1>1 DEF Expanded
<1>2. CASE IsShorthand(P)
  <2> DEFINE E == Expanded(P)  type == <<Field("type")>>
  <2>0. Shorthand(P)
    BY <1>2 DEF Shorthand
  <2>1. /\ \A y \in DOMAIN E : y = <<>> \/ y = type \/ \E x \in DOMAIN P : y = Under(x)
        /\ <<>> \in DOMAIN E /\ E[<<>>] = Node("dict", "")
        /\ type \in DOMAIN E /\ E[type] = Node("str", "object")
        /\ \A x \in Seq(Step) :
             /\ Under(x) \in DOMAIN E <=> x \in DOMAIN P
             /\ x \in DOMAIN P => E[Under(x)] = P[x]
    BY <2>0, ExpandedNodes
  <2>2. /\ type \in Seq(Step) /\ Front(type) = <<>> /\ Last(type) = Field("type")
        /\ Field("type")[1] = "field" /\ Field("properties")[1] = "field"
    <3>1. Field("type") \in Step /\ type = Append(<<>>, Field("type"))
      BY KeywordsAreStrings, FieldIsStep
    <3>2. <<>> \in Seq(Step)
      OBVIOUS
    <3>3. Field("type")[1] = "field" /\ Field("properties")[1] = "field"
      BY DEF Field
    <3> HIDE DEF type
    <3> QED BY <3>1, <3>2, <3>3, FrontOfAppend
  <2> DEFINE Placed(y) ==
               /\ y \in Seq(Step) /\ E[y] \in [kind : Kinds, text : Strings]
               /\ y # <<>> => /\ Front(y) \in DOMAIN E
                              /\ E[Front(y)].kind = IF Last(y)[1] = "field" THEN "dict" ELSE "list"
  <2> HIDE DEF E, type
  <2>3. /\ E[<<>>].kind = "dict"
        /\ Node("dict", "") \in [kind : Kinds, text : Strings]
        /\ Node("str", "object") \in [kind : Kinds, text : Strings]
    <3>1. "" \in Strings /\ "object" \in Strings /\ "dict" \in Kinds /\ "str" \in Kinds
      BY StringsAssumption DEF Kinds
    <3>2. Node("dict", "").kind = "dict"
      BY DEF Node
    <3>3. /\ Node("dict", "") \in [kind : Kinds, text : Strings]
          /\ Node("str", "object") \in [kind : Kinds, text : Strings]
      BY <3>1 DEF Node
    <3> QED BY <2>1, <3>2, <3>3
  <2>4. Placed(<<>>) /\ Placed(type)
    <3>1. <<>> \in Seq(Step)
      OBVIOUS
    <3> QED BY <2>1, <2>2, <2>3, <3>1
  <2>5. ASSUME NEW x \in DOMAIN P PROVE Placed(Under(x))
    <3>1. x \in Seq(Step) /\ P[x] \in [kind : Kinds, text : Strings]
      BY DEF IsTree
    <3>2. Under(x) \in Seq(Step) /\ E[Under(x)] = P[x]
      BY <2>1, <3>1, UnderFacts
    <3>3. CASE x = <<>>
      <4>1. Front(Under(x)) = <<>> /\ Last(Under(x)) = Field("properties")
        BY <3>1, <3>3, UnderFacts
      <4> QED BY <2>1, <2>2, <2>3, <3>1, <3>2, <4>1
    <3>4. CASE x # <<>>
      <4>1. Front(Under(x)) = Under(Front(x)) /\ Last(Under(x)) = Last(x)
        BY <3>1, <3>4, UnderFacts
      <4>2. /\ Front(x) \in DOMAIN P /\ Front(x) \in Seq(Step)
            /\ P[Front(x)].kind = IF Last(x)[1] = "field" THEN "dict" ELSE "list"
        BY <3>4, TreeFacts
      <4>3. Under(Front(x)) \in DOMAIN E /\ E[Under(Front(x))] = P[Front(x)]
        BY <2>1, <4>2
      <4> QED BY <3>1, <3>2, <4>1, <4>2, <4>3
    <3> QED BY <3>3, <3>4
  <2>6. \A y \in DOMAIN E : Placed(y)
    <3> HIDE DEF Placed
    <3> QED BY <2>1, <2>4, <2>5
  <2>7. IsTree(E)
    BY <2>1, <2>6 DEF IsTree
  <2> QED BY <2>3, <2>7 DEF E
<1> QED BY <1>1, <1>2

LEMMA SubtreeIs ==
  ASSUME NEW t, IsTree(t), NEW y \in Seq(Step)
  PROVE Subtree(t, y) = [w \in {v \in Seq(Step) : y \o v \in DOMAIN t} |-> t[y \o w]]
<1> DEFINE below == {SubSeq(z, Len(y) + 1, Len(z)) : z \in {v \in DOMAIN t : IsPrefix(y, v)}}
           n == Len(y)
<1>0. n \in Nat
  OBVIOUS
<1>1. ASSUME NEW z \in DOMAIN t, IsPrefix(y, z)
      PROVE SubSeq(z, n + 1, Len(z)) \in Seq(Step) /\ y \o SubSeq(z, n + 1, Len(z)) = z
  <2>1. z \in Seq(Step) /\ Len(z) \in Nat /\ n <= Len(z)
    BY <1>1, TreeFacts DEF IsPrefix
  <2>2. SubSeq(z, 1, n) = y
    <3>1. SubSeq(z, 1, n) = SubSeq(y, 1, n)
      BY <1>1 DEF IsPrefix
    <3> QED BY <3>1, SubSeqFull
  <2>3. SubSeq(z, 1, n) \o SubSeq(z, n + 1, Len(z)) = SubSeq(z, 1, Len(z))
    <3>1. 1 \in 1 .. Len(z) + 1 /\ n \in 1 - 1 .. Len(z) /\ Len(z) \in n .. Len(z)
      BY <1>0, <2>1
    <3> HIDE DEF n
    <3> QED BY <2>1, <3>1, ConcatAdjacentSubSeq
  <2>4. SubSeq(z, 1, Len(z)) = z
    BY <2>1, SubSeqFull
  <2>5. SubSeq(z, n + 1, Len(z)) \in Seq(Step)
    <3>1. \A i \in n + 1 .. Len(z) : z[i] \in Step
      BY <1>0, <2>1, ElementOfSeq
    <3> HIDE DEF n
    <3> QED BY <1>0, <2>1, <3>1, SubSeqProperties
  <2> QED BY <2>2, <2>3, <2>4, <2>5
<1>2. ASSUME NEW w \in Seq(Step), y \o w \in DOMAIN t
      PROVE IsPrefix(y, y \o w) /\ SubSeq(y \o w, n + 1, Len(y \o w)) = w
  <2> DEFINE z == y \o w  m == Len(w)
  <2>1. /\ z \in Seq(Step) /\ m \in Nat /\ Len(z) = n + m
        /\ \A i \in 1 .. n + m : z[i] = IF i <= n THEN y[i] ELSE w[i - n]
    BY ConcatProperties
  <2>2. IsPrefix(y, z)
    <3>1. n <= Len(z) /\ \A i \in 1 .. n : y[i] = z[i]
      BY <1>0, <2>1
    <3> HIDE DEF z
    <3> QED BY <2>1, <3>1, PrefixIs
  <2> DEFINE s == SubSeq(z, n + 1, n + m)
  <2>3. s \in Seq(Step) /\ Len(s) = m /\ \A i \in 1 .. m : s[i] = z[n + i]
    <3> DEFINE a == n + 1  b == n + m
    <3>1. a \in Int /\ b \in Int /\ \A i \in a .. b : z[i] \in Step
      BY <1>0, <2>1, ElementOfSeq
    <3>2. /\ SubSeq(z, a, b) \in Seq(Step)
          /\ Len(SubSeq(z, a, b)) = IF a <= b THEN b - a + 1 ELSE 0
          /\ \A i \in 1 .. b - a + 1 : SubSeq(z, a, b)[i] = z[a + i - 1]
      <4> HIDE DEF z, n, m, a, b
      <4> QED BY <3>1, SubSeqProperties
    <3>3. b - a + 1 = m /\ (m = 0 <=> ~(a <= b)) /\ \A i \in 1 .. m : a + i - 1 = n + i
      BY <1>0, <2>1
    <3> HIDE DEF a, b, z
    <3> QED BY <3>2, <3>3 DEF a, b
  <2>4. \A i \in 1 .. m : s[i] = w[i]
    <3> SUFFICES ASSUME NEW i \in 1 .. m PROVE z[n + i] = w[i]
      BY <2>3
    <3> DEFINE k == n + i
    <3>1. k \in 1 .. n + m /\ ~(k <= n) /\ k - n = i
      BY <1>0, <2>1
    <3>2. z[k] = w[k - n]
      <4> HIDE DEF z, n, m, k
      <4> QED BY <2>1, <3>1
    <3> QED BY <3>1, <3>2
  <2>5. s = w
    <3> HIDE DEF s
    <3> QED BY <2>3, <2>4, SeqEqual
  <2> QED BY <2>1, <2>2, <2>5
<1>3. below = {v \in Seq(Step) : y \o v \in DOMAIN t}
  <2>1. ASSUME NEW w \in below PROVE w \in Seq(Step) /\ y \o w \in DOMAIN t
    BY <1>1
  <2>2. ASSUME NEW w \in Seq(Step), y \o w \in DOMAIN t PROVE w \in below
    BY <1>2, <2>2
  <2> HIDE DEF below
  <2> QED BY <2>1, <2>2
<1>4. Subtree(t, y) = [w \in below |-> t[y \o w]]
  BY DEF Subtree
<1> HIDE DEF below
<1> QED BY <1>3, <1>4

LEMMA PartsUnder ==
  ASSUME NEW P, Shorthand(P), NEW x \in Seq(Step)
  PROVE Parts(Expanded(P), Under(x)) = {Under(y) : y \in Parts(P, x)}
<1> DEFINE E == Expanded(P)
<1>0. IsTree(P)
  BY DEF Shorthand
<1>1. ASSUME NEW z \in Parts(E, Under(x)) PROVE \E y \in Parts(P, x) : z = Under(y)
  <2>1. z \in DOMAIN E /\ z # <<>> /\ Front(z) = Under(x)
    BY DEF Parts
  <2>2. z # <<Field("type")>>
    <3>1. <<Field("type")>> = Append(<<>>, Field("type")) /\ <<>> \in Seq(Step)
      OBVIOUS
    <3>2. Front(<<Field("type")>>) = <<>>
      BY <3>1, KeywordsAreStrings, FieldIsStep, FrontOfAppend
    <3> QED BY <2>1, <3>2, UnderFacts
  <2>3. PICK y \in DOMAIN P : z = Under(y)
    <3>1. z = <<>> \/ z = <<Field("type")>> \/ \E y \in DOMAIN P : z = Under(y)
      <4>1. \A y \in DOMAIN E : y = <<>> \/ y = <<Field("type")>> \/ \E v \in DOMAIN P : y = Under(v)
        BY ExpandedNodes
      <4> HIDE DEF E
      <4> QED BY <2>1, <4>1
    <3> QED BY <2>1, <2>2, <3>1
  <2>4. y \in Seq(Step)
    BY <1>0, TreeFacts
  <2>5. y # <<>>
    BY <2>1, <2>3, <2>4, UnderFacts
  <2>6. Under(Front(y)) = Under(x) /\ Front(y) \in Seq(Step)
    BY <2>1, <2>3, <2>4, <2>5, UnderFacts, FrontLast
  <2>7. Front(y) = x
    BY <2>6, UnderInjective
  <2> QED BY <2>3, <2>5, <2>7 DEF Parts
<1>2. ASSUME NEW y \in Parts(P, x) PROVE Under(y) \in Parts(E, Under(x))
  <2>1. y \in DOMAIN P /\ y \in Seq(Step) /\ y # <<>> /\ Front(y) = x
    BY <1>0, PartsFacts
  <2>2. Under(y) \in DOMAIN E /\ Under(y) # <<>> /\ Front(Under(y)) = Under(x)
    BY <2>1, ExpandedNodes, UnderFacts
  <2> QED BY <2>2 DEF Parts
<1> QED BY <1>1, <1>2

LEMMA SubtreeUnder ==
  ASSUME NEW P, Shorthand(P), NEW y \in Seq(Step)
  PROVE Subtree(Expanded(P), Under(y)) = Subtree(P, y)
<1> DEFINE E == Expanded(P)
<1>1. IsTree(P) /\ IsTree(E) /\ Under(y) \in Seq(Step)
  BY ExpandedIsTree, UnderFacts DEF Shorthand
<1>2. ASSUME NEW w \in Seq(Step)
      PROVE /\ Under(y) \o w \in DOMAIN E <=> y \o w \in DOMAIN P
            /\ y \o w \in DOMAIN P => E[Under(y) \o w] = P[y \o w]
  <2>1. Under(y) \o w = Under(y \o w) /\ y \o w \in Seq(Step)
    <3>1. <<Field("properties")>> \in Seq(Step)
      BY KeywordsAreStrings, FieldIsStep
    <3>2. (<<Field("properties")>> \o y) \o w = <<Field("properties")>> \o (y \o w)
      BY <3>1, Regroup
    <3> QED BY <3>2, ConcatProperties DEF Under
  <2>2. \A v \in Seq(Step) :
          /\ Under(v) \in DOMAIN E <=> v \in DOMAIN P
          /\ v \in DOMAIN P => E[Under(v)] = P[v]
    BY ExpandedNodes
  <2> HIDE DEF E
  <2> QED BY <2>1, <2>2
<1>3. Subtree(E, Under(y)) =
        [w \in {v \in Seq(Step) : Under(y) \o v \in DOMAIN E} |-> E[Under(y) \o w]]
  BY <1>1, SubtreeIs
<1>4. Subtree(P, y) = [w \in {v \in Seq(Step) : y \o v \in DOMAIN P} |-> P[y \o w]]
  BY <1>1, SubtreeIs
<1>5. {v \in Seq(Step) : Under(y) \o v \in DOMAIN E} = {v \in Seq(Step) : y \o v \in DOMAIN P}
  BY <1>2
<1> DEFINE D == {v \in Seq(Step) : y \o v \in DOMAIN P}
<1>6. Subtree(E, Under(y)) = [w \in D |-> E[Under(y) \o w]]
  BY <1>3, <1>5
<1>7. \A w \in D : E[Under(y) \o w] = P[y \o w]
  BY <1>2
<1>8. Subtree(P, y) = [w \in D |-> P[y \o w]]
  BY <1>4
<1> HIDE DEF D
<1>9. [w \in D |-> E[Under(y) \o w]] = [w \in D |-> P[y \o w]]
  BY <1>7
<1> QED BY <1>6, <1>8, <1>9

\* Whether a value is faulty is the same under a declaration as under what
\* the declaration is expanded to.
LEMMA FaultyUnder ==
  ASSUME NEW P, Shorthand(P), NEW x \in DOMAIN P,
         NEW A, IsTree(A), NEW p \in DOMAIN A
  PROVE Faulty(Expanded(P), Under(x), A, p) <=> Faulty(P, x, A, p)
<1> DEFINE E == Expanded(P)
<1>0. IsTree(P) /\ x \in Seq(Step)
  BY TreeFacts DEF Shorthand
<1>1. \A z \in Seq(Step) : /\ Under(z) \in DOMAIN E <=> z \in DOMAIN P
                           /\ z \in DOMAIN P => E[Under(z)] = P[z]
                           /\ KindAt(E, Under(z)) = KindAt(P, z)
  BY ExpandedNodes DEF KindAt
<1>2. ASSUME NEW k \in Strings
      PROVE /\ Get(x, k) \in Seq(Step) /\ Get(Under(x), k) = Under(Get(x, k))
            /\ KindAt(E, Get(Under(x), k)) = KindAt(P, Get(x, k))
            /\ Parts(E, Get(Under(x), k)) = {Under(y) : y \in Parts(P, Get(x, k))}
  <2>1. Field(k) \in Step
    BY FieldIsStep
  <2>2. Get(x, k) \in Seq(Step) /\ Get(Under(x), k) = Under(Get(x, k))
    BY <1>0, <2>1, UnderFacts, FrontOfAppend DEF Get
  <2> QED BY <1>1, <2>2, PartsUnder
<1>3. \A k \in Strings : \A y \in Parts(P, Get(x, k)) :
        y \in Seq(Step) /\ y \in DOMAIN P /\ E[Under(y)] = P[y]
  BY <1>0, <1>1, PartsFacts
<1> HIDE DEF E
<1>4. Meaningful(E, Under(x), A[p].kind) <=> Meaningful(P, x, A[p].kind)
  <2>1. E[Under(x)] = P[x]
    BY <1>0, <1>1
  <2>2. Parts(E, Get(Under(x), "type")) # {} <=> Parts(P, Get(x, "type")) # {}
    <3>1. Parts(E, Get(Under(x), "type")) = {Under(y) : y \in Parts(P, Get(x, "type"))}
      BY <1>2, KeywordsAreStrings
    <3> QED BY <3>1
  <2> QED BY <1>2, <2>1, <2>2, KeywordsAreStrings DEF Meaningful
<1>5. OfDeclaredType(E, Under(x), A[p].kind) <=> OfDeclaredType(P, x, A[p].kind)
  <2> DEFINE type == Get(x, "type")
             names(t, at) == {t[y].text : y \in {z \in {at} \cup Parts(t, at) : KindAt(t, z) = "str"}}
  <2>1. type \in Seq(Step) /\ Get(Under(x), "type") = Under(type)
    BY <1>2, KeywordsAreStrings
  <2>2. {Under(type)} \cup Parts(E, Under(type)) = {Under(y) : y \in {type} \cup Parts(P, type)}
    BY <1>2, <2>1, KeywordsAreStrings
  <2>3. \A y \in {type} \cup Parts(P, type) : y \in Seq(Step) /\ KindAt(E, Under(y)) = KindAt(P, y)
    BY <1>1, <1>3, <2>1, KeywordsAreStrings
  <2>4. \A y \in {type} \cup Parts(P, type) : KindAt(P, y) = "str" => E[Under(y)] = P[y]
    BY <1>1, <2>3 DEF KindAt
  <2>5. names(E, Under(type)) = names(P, type)
    BY <2>2, <2>3, <2>4
  <2>6. KindAt(E, Under(type)) = KindAt(P, type)
    BY <1>1, <2>1
  <2>7. /\ OfDeclaredType(E, Under(x), A[p].kind) <=>
             \/ KindAt(E, Under(type)) \in {"absent", "none"}
             \/ JsonTypes(A[p].kind) \cap names(E, Under(type)) # {}
        /\ OfDeclaredType(P, x, A[p].kind) <=>
             \/ KindAt(P, type) \in {"absent", "none"}
             \/ JsonTypes(A[p].kind) \cap names(P, type) # {}
    BY <2>1 DEF OfDeclaredType
  <2> HIDE DEF names
  <2> QED BY <2>5, <2>6, <2>7
<1>6. InEnum(E, Under(x), Subtree(A, p)) <=> InEnum(P, x, Subtree(A, p))
  <2>1. \A y \in Parts(P, Get(x, "enum")) : Subtree(E, Under(y)) = Subtree(P, y)
    BY <1>3, KeywordsAreStrings, SubtreeUnder DEF E
  <2> QED BY <1>2, <2>1, KeywordsAreStrings DEF InEnum
<1>7. FieldsAdmitted(E, Under(x), A, p) <=> FieldsAdmitted(P, x, A, p)
  <2>1. (\A y \in Parts(E, Get(Under(x), "required")) : Get(p, E[y].text) \in DOMAIN A)
          <=> (\A y \in Parts(P, Get(x, "required")) : Get(p, P[y].text) \in DOMAIN A)
    <3>1. Parts(E, Get(Under(x), "required")) = {Under(y) : y \in Parts(P, Get(x, "required"))}
      BY <1>2, KeywordsAreStrings
    <3>2. \A y \in Parts(P, Get(x, "required")) : E[Under(y)] = P[y]
      BY <1>3, KeywordsAreStrings
    <3> QED BY <3>1, <3>2
  <2>2. Closed(E, Under(x)) <=> Closed(P, x)
    <3> DEFINE additional == Get(x, "additionalProperties")
    <3>1. additional \in Seq(Step) /\ Get(Under(x), "additionalProperties") = Under(additional)
      BY <1>2, KeywordsAreStrings
    <3>2. /\ Under(additional) \in DOMAIN E <=> additional \in DOMAIN P
          /\ additional \in DOMAIN P => E[Under(additional)] = P[additional]
      <4> HIDE DEF additional
      <4> QED BY <1>1, <3>1
    <3> QED BY <3>1, <3>2 DEF Closed
  <2>3. ASSUME NEW y \in Parts(A, p)
        PROVE Append(Get(Under(x), "properties"), Last(y)) \in DOMAIN E
                <=> Append(Get(x, "properties"), Last(y)) \in DOMAIN P
    <3> DEFINE properties == Get(x, "properties")  s == Last(y)
    <3>1. properties \in Seq(Step) /\ Get(Under(x), "properties") = Under(properties)
      BY <1>2, KeywordsAreStrings
    <3>2. s \in Step
      BY PartsFacts, FrontLast
    <3>3. /\ Append(properties, s) \in Seq(Step)
          /\ Under(Append(properties, s)) = Append(Under(properties), s)
      <4> HIDE DEF properties, s
      <4> QED BY <3>1, <3>2, UnderFacts, FrontOfAppend
    <3> QED BY <1>1, <3>1, <3>3
  <2> QED BY <2>1, <2>2, <2>3 DEF FieldsAdmitted
<1> QED BY <1>4, <1>5, <1>6, <1>7 DEF Faulty, Unreadable, E

LEMMA OneStep ==
  ASSUME NEW x \in Seq(Step), Len(x) = 1
  PROVE x[1] \in Step /\ x = Append(<<>>, x[1]) /\ x = <<x[1]>>
<1>1. x # <<>>
  OBVIOUS
<1>2. Front(x) \in Seq(Step) /\ Len(Front(x)) = 0 /\ Last(x) \in Step /\ x = Append(Front(x), Last(x))
  BY <1>1, FrontLast
<1>3. Front(x) = <<>>
  BY <1>2
<1>4. Last(x) = x[1]
  BY DEF Last
<1>5. x[1] \in Step /\ x = Append(<<>>, x[1])
  BY <1>2, <1>3, <1>4
<1>6. Append(<<>>, x[1]) = <<x[1]>>
  OBVIOUS
<1> QED BY <1>5, <1>6

\* The first step of a path leads to a part of the root.
LEMMA FirstStep ==
  ASSUME NEW t, IsTree(t), NEW x \in DOMAIN t, x # <<>>
  PROVE /\ x[1] \in Step /\ <<x[1]>> \in Parts(t, <<>>)
        /\ t[<<>>].kind = IF x[1][1] = "field" THEN "dict" ELSE "list"
<1> DEFINE Begins(y) == y[1] \in Step /\ <<y[1]>> \in DOMAIN t
           T == {n \in Nat : \A y \in DOMAIN t : Len(y) = n + 1 => Begins(y)}
<1>0. \A y \in DOMAIN t : y \in Seq(Step) /\ Len(y) \in Nat
  BY TreeFacts
<1>1. 0 \in T
  <2>1. ASSUME NEW y \in DOMAIN t, Len(y) = 1 PROVE Begins(y)
    <3>1. y \in Seq(Step) /\ y[1] \in Step /\ y = <<y[1]>>
      BY <1>0, <2>1, OneStep
    <3> QED BY <3>1
  <2> QED BY <2>1
<1>2. ASSUME NEW n \in Nat, n \in T PROVE n + 1 \in T
  <2>1. ASSUME NEW y \in DOMAIN t, Len(y) = (n + 1) + 1 PROVE Begins(y)
    <3> DEFINE f == Front(y)  s == Last(y)
    <3>1. y \in Seq(Step) /\ y # <<>>
      BY <1>0, <2>1
    <3>2. f \in DOMAIN t /\ f \in Seq(Step) /\ s \in Step /\ y = Append(f, s) /\ Len(f) = n + 1
      BY <2>1, <3>1, TreeFacts, FrontLast
    <3>3. Begins(f)
      BY <1>2, <3>2
    <3>4. y[1] = f[1]
      <4>1. 1 \in 1 .. Len(f)
        BY <3>2
      <4> HIDE DEF f, s
      <4> QED BY <3>2, <4>1, AppendProperties
    <3> QED BY <3>3, <3>4
  <2> QED BY <2>1
<1>3. Nat \subseteq T
  <2> HIDE DEF T
  <2> QED BY <1>1, <1>2, Induction
<1>4. Begins(x)
  <2> DEFINE n == Len(x) - 1
  <2>1. n \in Nat /\ Len(x) = n + 1
    BY <1>0
  <2> HIDE DEF n
  <2> QED BY <1>3, <2>1
<1> DEFINE y == <<x[1]>>
<1>5. y \in Seq(Step) /\ y # <<>> /\ y = Append(<<>>, x[1]) /\ <<>> \in Seq(Step)
  BY <1>4
<1>6. Front(y) = <<>> /\ Last(y) = x[1]
  <2> HIDE DEF y
  <2> QED BY <1>4, <1>5, FrontOfAppend
<1>7. y \in Parts(t, <<>>)
  BY <1>4, <1>5, <1>6 DEF Parts
<1> QED BY <1>4, <1>6, <1>7, PartsFacts

Begins(k, q) == \E r \in Seq(Step) : q = k \o r

LEMMA GoverningFurther ==
  ASSUME NEW y \in Seq(Step), NEW s \in Step, NEW k \in Seq(Step), Begins(k, Governing(y))
  PROVE Begins(k, Governing(Append(y, s)))
<1> DEFINE l == Link(s)
<1>1. PICK r \in Seq(Step) : Governing(y) = k \o r
  BY DEF Begins
<1>2. l \in Seq(Step)
  BY LinkType
<1>3. Governing(Append(y, s)) = (k \o r) \o l
  BY <1>1, GoverningAppend
<1> HIDE DEF l
<1>4. (k \o r) \o l = k \o (r \o l)
  BY <1>2, Regroup
<1>5. r \o l \in Seq(Step)
  BY <1>2, ConcatProperties
<1> QED BY <1>3, <1>4, <1>5 DEF Begins

\* The path through the schema begins with the first step into the arguments.
LEMMA GoverningFirst ==
  ASSUME NEW x \in Seq(Step), x # <<>>
  PROVE \E r \in Seq(Step) : Governing(x) = Link(x[1]) \o r
<1> DEFINE T == {n \in Nat : \A y \in Seq(Step) :
                   Len(y) = n + 1 => Begins(Link(y[1]), Governing(y))}
<1>1. 0 \in T
  <2>1. ASSUME NEW y \in Seq(Step), Len(y) = 1 PROVE Begins(Link(y[1]), Governing(y))
    <3>1. y[1] \in Step /\ y = Append(<<>>, y[1]) /\ <<>> \in Seq(Step)
      BY <2>1, OneStep
    <3>2. Governing(y) = Governing(<<>>) \o Link(y[1])
      BY <3>1, GoverningAppend
    <3>3. Link(y[1]) \in Seq(Step)
      BY <3>1, LinkType
    <3>4. Governing(y) = Link(y[1]) \o <<>>
      BY <3>2, <3>3, GoverningRoot, ConcatEmptySeq
    <3> QED BY <3>1, <3>4 DEF Begins
  <2> QED BY <2>1
<1>2. ASSUME NEW n \in Nat, n \in T PROVE n + 1 \in T
  <2>1. ASSUME NEW y \in Seq(Step), Len(y) = (n + 1) + 1
        PROVE Begins(Link(y[1]), Governing(y))
    <3> DEFINE f == Front(y)  s == Last(y)
    <3>1. f \in Seq(Step) /\ s \in Step /\ y = Append(f, s) /\ Len(f) = n + 1
      BY <2>1, FrontLast
    <3>2. Begins(Link(f[1]), Governing(f))
      BY <1>2, <3>1
    <3>3. y[1] = f[1] /\ f[1] \in Step
      <4>1. 1 \in 1 .. Len(f)
        BY <3>1
      <4> HIDE DEF f, s
      <4> QED BY <3>1, <4>1, AppendProperties, ElementOfSeq
    <3>4. Link(f[1]) \in Seq(Step)
      BY <3>3, LinkType
    <3> HIDE DEF f, s
    <3>5. Begins(Link(f[1]), Governing(Append(f, s)))
      BY <3>1, <3>2, <3>4, GoverningFurther, Zenon
    <3> QED BY <3>1, <3>3, <3>5
  <2> QED BY <2>1
<1>3. Nat \subseteq T
  <2> HIDE DEF T
  <2> QED BY <1>1, <1>2, Induction
<1> DEFINE n == Len(x) - 1
<1>4. n \in Nat /\ Len(x) = n + 1
  OBVIOUS
<1> HIDE DEF n
<1> QED BY <1>3, <1>4 DEF Begins

\* The declaration that speaks of a part of an argument is found under the
\* name of the argument.
LEMMA DeclaredGoverning ==
  ASSUME NEW p \in Seq(Step), p # <<>>, p[1][1] = "field"
  PROVE LET x == Tail(Governing(p))
        IN  /\ x \in Seq(Step) /\ x # <<>> /\ x[1] = p[1]
            /\ Governing(p) = Under(x)
            /\ Len(p) = 1 => x = p
<1> DEFINE s == p[1]
<1>0. s \in Step /\ Field("properties") \in Step
  <2>1. 1 \in 1 .. Len(p)
    OBVIOUS
  <2> QED BY <2>1, ElementOfSeq, KeywordsAreStrings, FieldIsStep
<1>1. PICK r \in Seq(Step) : Governing(p) = Link(s) \o r
  BY GoverningFirst
<1> DEFINE x == <<s>> \o r
<1>2. x \in Seq(Step) /\ x # <<>> /\ x[1] = s
  <2> HIDE DEF s
  <2> QED BY <1>0
<1>3. Link(s) = Under(<<s>>)
  <2>1. <<Field("properties"), s>> = <<Field("properties")>> \o <<s>>
    <3> HIDE DEF s
    <3> QED OBVIOUS
  <2> QED BY <2>1 DEF Link, Under
<1>4. Governing(p) = Under(x)
  <2>1. <<Field("properties")>> \in Seq(Step) /\ <<s>> \in Seq(Step)
    BY <1>0
  <2>2. (<<Field("properties")>> \o <<s>>) \o r = <<Field("properties")>> \o (<<s>> \o r)
    BY <2>1, Regroup
  <2> QED BY <1>1, <1>3, <2>2 DEF Under
<1>5. Tail(Governing(p)) = x
  <2> HIDE DEF x
  <2> QED BY <1>2, <1>4, UnderFacts
<1>6. ASSUME Len(p) = 1 PROVE x = p
  <2>1. p = <<s>> /\ p = Append(<<>>, s) /\ <<>> \in Seq(Step)
    BY <1>6
  <2>2. Governing(p) = Governing(<<>>) \o Link(s)
    <3> HIDE DEF s
    <3> QED BY <1>0, <2>1, GoverningAppend
  <2>3. Governing(p) = Under(p)
    BY <1>0, <1>3, <2>1, <2>2, GoverningRoot, LinkType, ConcatEmptySeq
  <2> QED BY <1>5, <2>3, UnderFacts
<1> HIDE DEF x
<1> QED BY <1>2, <1>4, <1>5, <1>6

\* What the shorthand is expanded to admits every mapping as such.
LEMMA RootAdmitted ==
  ASSUME NEW P, Shorthand(P), NEW A, A[<<>>].kind = "dict"
  PROVE ~Faulty(Expanded(P), <<>>, A, <<>>)
<1> DEFINE E == Expanded(P)  type == <<Field("type")>>
<1>1. /\ \A y \in DOMAIN E : y = <<>> \/ y = type \/ \E x \in DOMAIN P : y = Under(x)
      /\ <<>> \in DOMAIN E /\ E[<<>>] = Node("dict", "")
      /\ type \in DOMAIN E /\ E[type] = Node("str", "object")
      /\ \A x \in Seq(Step) :
           /\ Under(x) \in DOMAIN E <=> x \in DOMAIN P
           /\ x \in DOMAIN P => E[Under(x)] = P[x]
  BY ExpandedNodes
<1>2. IsTree(P) /\ IsTree(E) /\ P[<<>>].kind = "dict" /\ <<>> \in DOMAIN P
  BY ExpandedIsTree DEF Shorthand, IsTree
<1> HIDE DEF E
<1>3. \A k : Get(<<>>, k) = <<Field(k)>>
  BY DEF Get
<1>4. KindAt(E, Get(<<>>, "type")) = "str" /\ E[Get(<<>>, "type")].text = "object"
  <2>1. Get(<<>>, "type") = type
    BY <1>3
  <2>2. Node("str", "object").kind = "str" /\ Node("str", "object").text = "object"
    BY DEF Node
  <2> HIDE DEF type
  <2> QED BY <1>1, <2>1, <2>2 DEF KindAt
<1>5. KindAt(E, Get(<<>>, "properties")) = "dict"
  <2>1. Get(<<>>, "properties") = Under(<<>>) /\ <<>> \in Seq(Step)
    BY <1>3, ConcatEmptySeq DEF Under
  <2>2. Under(<<>>) \in DOMAIN E /\ E[Under(<<>>)] = P[<<>>]
    BY <1>1, <1>2, <2>1
  <2> QED BY <1>2, <2>1, <2>2 DEF KindAt
<1>6. ASSUME NEW k \in {"required", "additionalProperties", "enum"}
      PROVE Get(<<>>, k) \notin DOMAIN E
  <2>1. Field(k) # Field("type") /\ Field(k) # Field("properties")
    BY DEF Field
  <2>2. \A x \in DOMAIN P : Under(x)[1] = Field("properties")
    BY <1>2, TreeFacts, UnderFacts
  <2>3. /\ Get(<<>>, k) # <<>> /\ Get(<<>>, k)[1] = Field(k)
        /\ type[1] = Field("type")
    BY <1>3
  <2> QED BY <1>1, <2>1, <2>2, <2>3
<1>7. Meaningful(E, <<>>, A[<<>>].kind)
  <2>1. KindAt(E, Get(<<>>, "required")) = "absent"
    BY <1>6 DEF KindAt
  <2>2. E[<<>>].kind = "dict"
    <3>1. Node("dict", "").kind = "dict"
      BY DEF Node
    <3> QED BY <1>1, <3>1
  <2> QED BY <1>4, <1>5, <2>1, <2>2 DEF Meaningful
<1>8. OfDeclaredType(E, <<>>, A[<<>>].kind)
  BY <1>4 DEF OfDeclaredType, JsonTypes
<1>9. InEnum(E, <<>>, Subtree(A, <<>>))
  BY <1>6 DEF InEnum, KindAt
<1>10. FieldsAdmitted(E, <<>>, A, <<>>)
  <2>1. Parts(E, Get(<<>>, "required")) = {}
    BY <1>2, <1>6, PartsFacts
  <2>2. ~Closed(E, <<>>)
    BY <1>6 DEF Closed
  <2> QED BY <2>1, <2>2 DEF FieldsAdmitted
<1> QED BY <1>7, <1>8, <1>9, <1>10 DEF Faulty, Unreadable, E

LEMMA DeclaredFaults ==
  ASSUME NEW P, Shorthand(P), NEW A, IsTree(A), A[<<>>].kind = "dict"
  PROVE (\A p \in DOMAIN A : ~FaultyAt(Expanded(P), A, p)) <=>
          \A y \in Parts(P, <<>>) \cap DOMAIN A :
            /\ P[y].kind = "dict"
            /\ \A p \in DOMAIN A :
                 IsPrefix(y, p) /\ Speaks(P, Tail(Governing(p)), p)
                   => ~Faulty(P, Tail(Governing(p)), A, p)
<1> DEFINE E == Expanded(P)
           FaultyHere(p) == Speaks(P, Tail(Governing(p)), p) /\ Faulty(P, Tail(Governing(p)), A, p)
<1>0. IsTree(P) /\ P[<<>>].kind = "dict" /\ \A p \in DOMAIN A : p \in Seq(Step)
  BY TreeFacts DEF Shorthand
<1>1. ~FaultyAt(E, A, <<>>)
  BY RootAdmitted, GoverningRoot DEF FaultyAt
<1>2. ASSUME NEW p \in DOMAIN A, p # <<>>
      PROVE /\ p[1] \in Step /\ p[1][1] = "field" /\ <<p[1]>> \in DOMAIN A
            /\ FaultyAt(E, A, p) <=> FaultyHere(p)
  <2> DEFINE x == Tail(Governing(p))
  <2>1. p[1] \in Step /\ p[1][1] = "field" /\ <<p[1]>> \in DOMAIN A
    BY <1>2, FirstStep DEF Parts
  <2>2. x \in Seq(Step) /\ x # <<>> /\ Governing(p) = Under(x)
    BY <1>0, <1>2, <2>1, DeclaredGoverning
  <2>3. /\ Under(x) \in DOMAIN E <=> x \in DOMAIN P
        /\ x \in DOMAIN P => E[Under(x)] = P[x]
    BY <2>2, ExpandedNodes
  <2>4. x \in DOMAIN P => (Faulty(E, Under(x), A, p) <=> Faulty(P, x, A, p))
    BY FaultyUnder
  <2>5. Speaks(E, Under(x), p) <=> Speaks(P, x, p)
    BY <2>3 DEF Speaks
  <2>6. Speaks(P, x, p) => x \in DOMAIN P
    BY DEF Speaks
  <2> HIDE DEF x, E
  <2> QED BY <2>1, <2>2, <2>4, <2>5, <2>6 DEF FaultyAt, x, E
<1>3. ASSUME \A p \in DOMAIN A : ~FaultyAt(E, A, p), NEW y \in Parts(P, <<>>) \cap DOMAIN A
      PROVE P[y].kind = "dict"
  <2>1. y \in DOMAIN P /\ y \in Seq(Step) /\ y # <<>> /\ Len(y) = 1 /\ Last(y)[1] = "field"
    <3>1. /\ y \in DOMAIN P /\ y \in Seq(Step) /\ y # <<>> /\ Len(y) = Len(<<>>) + 1
          /\ P[<<>>].kind = IF Last(y)[1] = "field" THEN "dict" ELSE "list"
      BY <1>0, PartsFacts
    <3> QED BY <1>0, <3>1
  <2>2. Tail(Governing(y)) = y
    BY <1>2, <2>1, DeclaredGoverning
  <2>3. ~Faulty(P, y, A, y)
    <3>1. ~FaultyHere(y)
      <4> HIDE DEF E, FaultyHere
      <4> QED BY <1>2, <1>3, <2>1
    <3>2. Speaks(P, y, y)
      BY <2>1 DEF Speaks
    <3> QED BY <2>2, <3>1, <3>2
  <2> QED BY <2>3 DEF Faulty, Unreadable, Meaningful
<1>4. ASSUME NEW p \in DOMAIN A, FaultyAt(E, A, p)
      PROVE /\ <<p[1]>> \in Parts(P, <<>>) \cap DOMAIN A /\ IsPrefix(<<p[1]>>, p)
            /\ FaultyHere(p)
  <2> DEFINE x == Tail(Governing(p))
  <2>1. p # <<>> /\ p \in Seq(Step)
    BY <1>0, <1>1, <1>4
  <2>2. p[1] \in Step /\ p[1][1] = "field" /\ <<p[1]>> \in DOMAIN A /\ FaultyHere(p)
    BY <1>2, <1>4, <2>1
  <2>3. x # <<>> /\ x[1] = p[1] /\ x \in DOMAIN P
    BY <2>1, <2>2, DeclaredGoverning DEF Speaks
  <2>4. <<p[1]>> \in Parts(P, <<>>)
    <3> HIDE DEF x
    <3>1. <<x[1]>> \in Parts(P, <<>>)
      BY <1>0, <2>3, FirstStep
    <3> QED BY <2>3, <3>1
  <2>5. IsPrefix(<<p[1]>>, p)
    <3> DEFINE y == <<p[1]>>
    <3>1. y \in Seq(Step) /\ Len(y) = 1 /\ y[1] = p[1] /\ Len(p) >= 1
      BY <2>1, <2>2
    <3> HIDE DEF y
    <3>2. Len(y) <= Len(p) /\ \A i \in 1 .. Len(y) : y[i] = p[i]
      BY <2>1, <3>1
    <3>3. IsPrefix(y, p)
      BY <2>1, <3>1, <3>2, PrefixIs
    <3> QED BY <3>3 DEF y
  <2> QED BY <2>2, <2>4, <2>5
<1>5. ASSUME NEW y \in Parts(P, <<>>), NEW p \in DOMAIN A, IsPrefix(y, p)
      PROVE p # <<>>
  <2>1. Len(y) = 1
    <3>1. Len(y) = Len(<<>>) + 1
      BY <1>0, PartsFacts
    <3> QED BY <3>1
  <2> QED BY <1>5, <2>1 DEF IsPrefix
<1> HIDE DEF E
<1> QED BY <1>2, <1>3, <1>4, <1>5 DEF E

-----------------------------------------------------------------------------
(* The state machine: what was validated, and the result.                  *)

ValidInv ==
  /\ parameters \in ParameterSchemas /\ arguments \in ArgumentMappings
  /\ validated => errors = ArgumentErrors(parameters, arguments)

LEMMA ValidInvHolds == Spec => []ValidInv
<1>1. Init => ValidInv
  BY DEF Init, ValidInv
<1>2. ValidInv /\ [Next]_vars => ValidInv'
  BY DEF ValidInv, Next, Validate, vars
<1> QED BY <1>1, <1>2, PTL DEF Spec

LEMMA ValidatedOnce ==
  ASSUME ValidInv, validated
  PROVE /\ Judgeable(Expanded(parameters), arguments)
        /\ IsTree(parameters) /\ parameters[<<>>].kind = "dict"
        /\ arguments[<<>>].kind = "dict"
        /\ Unconstrained => errors = {}
        /\ ~Unconstrained => errors = ReturnedOf(Expanded(parameters), arguments, <<>>)
<1>1. /\ IsTree(parameters) /\ parameters[<<>>].kind = "dict"
      /\ IsTree(arguments) /\ arguments[<<>>].kind = "dict"
      /\ \A x \in DOMAIN arguments : Len(x) <= MaxDepth
  BY MappingsAssumption, DepthAssumption DEF ValidInv
<1>2. Judgeable(Expanded(parameters), arguments)
  BY <1>1, ExpandedIsTree DEF Judgeable
<1>3. Unconstrained => errors = {}
  BY DEF ValidInv, ArgumentErrors, Unconstrained
<1>4. ~Unconstrained => errors = ReturnedOf(Expanded(parameters), arguments, <<>>)
  BY GoverningRoot DEF ValidInv, ArgumentErrors, Unconstrained, ReturnedOf, CallOf
<1> QED BY <1>1, <1>2, <1>3, <1>4

\* validate_arguments accepts exactly the arguments in which every value, at
\* any depth, is one that the schema of its position admits: for every tree a
\* tool may have as parameters, sensible or not, and every tree of arguments.
THEOREM ArgumentsAreJudged == Spec => []AcceptedMeansValid
<1>1. ValidInv => AcceptedMeansValid
  BY ValidatedOnce, NoErrorsIffNoFaults DEF AcceptedMeansValid
<1> QED BY <1>1, ValidInvHolds, PTL

\* Every error _validate_value returns points at a fault, and every fault has
\* an error of its own unless a position around it could not be read: the
\* early returns hide nothing else.
THEOREM ErrorsDoLocate == Spec => []ErrorsAreLocated
<1>1. ASSUME ValidInv, validated, ~Unconstrained
      PROVE LET S == Expanded(parameters)
            IN  /\ \A e \in errors :
                     PlaceOf(e) \in DOMAIN arguments /\ FaultyAt(S, arguments, PlaceOf(e))
                /\ \A p \in DOMAIN arguments : FaultyAt(S, arguments, p) =>
                     \/ \E e \in errors : PlaceOf(e) = p
                     \/ \E q \in DOMAIN arguments : IsStrictPrefix(q, p) /\ UnreadableAt(S, arguments, q)
  <2> DEFINE S == Expanded(parameters)
  <2>1. Judgeable(S, arguments) /\ errors = ReturnedOf(S, arguments, <<>>)
    BY <1>1, ValidatedOnce
  <2>2. <<>> \in DOMAIN arguments /\ Called(S, arguments, <<>>)
    BY <2>1, GoverningRoot DEF Judgeable, Called, IsTree
  <2>3. \A e \in errors : PlaceOf(e) \in DOMAIN arguments /\ FaultyAt(S, arguments, PlaceOf(e))
    BY <2>1, <2>2, ErrorsPointAtFaults
  <2>4. \A p \in DOMAIN arguments : FaultyAt(S, arguments, p) =>
           \/ \E e \in errors : PlaceOf(e) = p
           \/ \E q \in DOMAIN arguments : IsStrictPrefix(q, p) /\ UnreadableAt(S, arguments, q)
    BY <2>1, FaultsHaveErrors DEF Unblocked
  <2> QED BY <2>3, <2>4
<1>2. ValidInv => ErrorsAreLocated
  BY <1>1 DEF ErrorsAreLocated
<1> QED BY <1>2, ValidInvHolds, PTL

\* What the shorthand of validate_arguments means: each argument given is
\* judged by the schema declared under its name, and by nothing else.
THEOREM DeclarationsAreChecked == Spec => []DeclaredArgumentsChecked
<1>1. ASSUME ValidInv, validated, IsShorthand(parameters)
      PROVE errors = {} <=>
              \A y \in Parts(parameters, <<>>) \cap DOMAIN arguments :
                /\ parameters[y].kind = "dict"
                /\ \A p \in DOMAIN arguments :
                     IsPrefix(y, p) /\ Speaks(parameters, Tail(Governing(p)), p)
                       => ~Faulty(parameters, Tail(Governing(p)), arguments, p)
  <2>1. CASE Unconstrained
    BY <1>1, <2>1, ValidatedOnce DEF Unconstrained
  <2>2. CASE ~Unconstrained
    <3>1. errors = {} <=> \A p \in DOMAIN arguments : ~FaultyAt(Expanded(parameters), arguments, p)
      BY <1>1, <2>2, ValidatedOnce, NoErrorsIffNoFaults
    <3>2. /\ Shorthand(parameters) /\ IsTree(arguments) /\ arguments[<<>>].kind = "dict"
      BY <1>1, ValidatedOnce DEF Shorthand, Judgeable
    <3> QED BY <3>1, <3>2, DeclaredFaults
  <2> QED BY <2>1, <2>2
<1>2. ValidInv => DeclaredArgumentsChecked
  BY <1>1 DEF DeclaredArgumentsChecked
<1> QED BY <1>2, ValidInvHolds, PTL
===============================================================================
