------------------------- MODULE ValidationProperties -------------------------
(***************************************************************************)
(* A reference definition for Validation, position by position: which      *)
(* schema governs a position of the arguments, and whether the value there *)
(* is one that schema admits. No calls, no order of checks and no early    *)
(* return.                                                                 *)
(***************************************************************************)
EXTENDS Validation

\* The JSON types a value belongs to.
JsonTypes(kind) ==
  CASE kind = "str"   -> {"string"}
    [] kind = "int"   -> {"integer", "number"}
    [] kind = "float" -> {"number"}
    [] kind = "bool"  -> {"boolean"}
    [] kind = "none"  -> {"null"}
    [] kind = "list"  -> {"array"}
    [] kind = "dict"  -> {"object"}

\* The keys that lead through a schema to the part that speaks of a position.
Link(step) == IF step[1] = "field" THEN <<Field("properties"), step>> ELSE <<Field("items")>>
Governing(p) == FlattenSeq([i \in DOMAIN p |-> Link(p[i])])

\* Whether the schema says anything of the value at p. What is given for the
\* items of a list counts only if it is a mapping.
Speaks(S, q, p) ==
  q \in DOMAIN S /\ (S[q].kind = "dict" \/ p = <<>> \/ Last(p)[1] = "field")

\* The schema is one that can judge the value at all.
Meaningful(S, q, kind) ==
  /\ S[q].kind = "dict"
  /\ \/ KindAt(S, Get(q, "type")) \in {"absent", "none", "str"}
     \/ KindAt(S, Get(q, "type")) = "list" /\ Parts(S, Get(q, "type")) # {}
  /\ kind = "dict" => /\ KindAt(S, Get(q, "properties")) \in {"absent", "dict"}
                      /\ KindAt(S, Get(q, "required")) \in {"absent", "list"}

OfDeclaredType(S, q, kind) ==
  LET type == Get(q, "type")
      names == {S[y].text : y \in {z \in {type} \cup Parts(S, type) : KindAt(S, z) = "str"}}
  IN  KindAt(S, type) \in {"absent", "none"} \/ JsonTypes(kind) \cap names # {}

InEnum(S, q, v) ==
  KindAt(S, Get(q, "enum")) = "list" =>
    \E y \in Parts(S, Get(q, "enum")) : PyEqual(Subtree(S, y), v)

FieldsAdmitted(S, q, A, p) ==
  /\ \A y \in Parts(S, Get(q, "required")) : Get(p, S[y].text) \in DOMAIN A
  /\ Closed(S, q) => \A y \in Parts(A, p) : Append(Get(q, "properties"), Last(y)) \in DOMAIN S

\* The value cannot be looked into: it is of another type, or its schema
\* means nothing.
Unreadable(S, q, A, p) == ~Meaningful(S, q, A[p].kind) \/ ~OfDeclaredType(S, q, A[p].kind)

Faulty(S, q, A, p) ==
  \/ Unreadable(S, q, A, p)
  \/ ~InEnum(S, q, Subtree(A, p))
  \/ A[p].kind = "dict" /\ ~FieldsAdmitted(S, q, A, p)

Unconstrained == Parts(parameters, <<>>) = {}

UnreadableAt(S, A, p) == Speaks(S, Governing(p), p) /\ Unreadable(S, Governing(p), A, p)
FaultyAt(S, A, p) == Speaks(S, Governing(p), p) /\ Faulty(S, Governing(p), A, p)

\* validate_arguments accepts exactly the arguments in which every value, at
\* any depth, is one that the schema of its position admits.
AcceptedMeansValid ==
  validated =>
    (errors = {} <=>
       Unconstrained \/ \A p \in DOMAIN arguments : ~FaultyAt(Expanded(parameters), arguments, p))

\* Where an error belongs: the position itself, or the object around it when
\* the field is missing or unexpected.
PlaceOf(e) == IF e.why \in {"missing", "unexpected"} THEN Front(e.at) ELSE e.at

\* A caller who repairs its arguments from the errors is never misled and
\* never short of one: each error points at a fault, and each fault has an
\* error of its own unless a position around it could not be read at all.
ErrorsAreLocated ==
  validated /\ ~Unconstrained =>
    LET S == Expanded(parameters)
    IN  /\ \A e \in errors :
             PlaceOf(e) \in DOMAIN arguments /\ FaultyAt(S, arguments, PlaceOf(e))
        /\ \A p \in DOMAIN arguments : FaultyAt(S, arguments, p) =>
             \/ \E e \in errors : PlaceOf(e) = p
             \/ \E q \in DOMAIN arguments : IsStrictPrefix(q, p) /\ UnreadableAt(S, arguments, q)

\* The shorthand: each argument given is checked by the schema declared under
\* its name, as if it were the only one, unless some parameter has the name
\* of a schema keyword. (The path of a declaration is that of its argument,
\* and inside it lacks the first key that leads through a full schema.)
DeclaredArgumentsChecked ==
  validated /\ IsShorthand(parameters) =>
    (errors = {} <=>
       \A y \in Parts(parameters, <<>>) \cap DOMAIN arguments :
         /\ parameters[y].kind = "dict"
         /\ \A p \in DOMAIN arguments :
              IsPrefix(y, p) /\ Speaks(parameters, Tail(Governing(p)), p)
                => ~Faulty(parameters, Tail(Governing(p)), arguments, p))
=============================================================================
