------------------------------ MODULE Validation ------------------------------
(***************************************************************************)
(* validate_arguments (src/src/butler_core/execution.py): the JSON-schema  *)
(* subset that tool arguments are checked against. A pure algorithm; its   *)
(* state machine picks a tool's parameters and a call's arguments and      *)
(* validates once.                                                         *)
(*                                                                         *)
(* Schemas and arguments are both trees of Python values. A tree is a      *)
(* function from the paths of its values to their nodes: the kind of the   *)
(* value and, of a scalar, the text. Messages are left out: an error is a  *)
(* path and a reason, and the errors of a call are a set.                  *)
(***************************************************************************)
EXTENDS Integers, Sequences, FiniteSets, SequencesExt

CONSTANTS
  ParameterSchemas,   \* the values of ToolDefinition.parameters
  ArgumentMappings,   \* the arguments calls are made with
  Strings,            \* the strings those contain
  MaxDepth            \* bound: nesting of arguments (Python's recursion limit)

Keywords ==
  {"type", "properties", "required", "additionalProperties", "enum", "items"}

ASSUME StringsAssumption == Keywords \cup {"", "object"} \subseteq Strings

Kinds == {"str", "int", "float", "bool", "none", "list", "dict"}
Node(kind, text) == [kind |-> kind, text |-> text]

\* Steps of a path: a field of a dict, an item of a list.
Field(n) == <<"field", n>>
Item(i) == <<"item", i>>
Step == ({"field"} \X Strings) \cup ({"item"} \X Nat)

\* Every value but the root is part of a dict or of a list.
IsTree(t) ==
  /\ <<>> \in DOMAIN t
  /\ \A x \in DOMAIN t :
       /\ x \in Seq(Step)
       /\ t[x] \in [kind : Kinds, text : Strings]
       /\ x # <<>> =>
            /\ Front(x) \in DOMAIN t
            /\ t[Front(x)].kind = IF Last(x)[1] = "field" THEN "dict" ELSE "list"

ASSUME MappingsAssumption ==
  \A t \in ParameterSchemas \cup ArgumentMappings : IsTree(t) /\ t[<<>>].kind = "dict"
ASSUME DepthAssumption ==
  MaxDepth \in Nat /\ \A t \in ArgumentMappings : \A x \in DOMAIN t : Len(x) <= MaxDepth

\* The parts of the value at x, by their paths.
Parts(t, x) == {y \in DOMAIN t : y # <<>> /\ Front(y) = x}

\* schema.get(key) by its path, and the kind of a value that may be absent.
Get(x, key) == Append(x, Field(key))
KindAt(t, x) == IF x \in DOMAIN t THEN t[x].kind ELSE "absent"

Subtree(t, x) ==
  LET below == {SubSeq(y, Len(x) + 1, Len(y)) : y \in {z \in DOMAIN t : IsPrefix(x, z)}}
  IN  [y \in below |-> t[x \o y]]

\* The numbers and booleans: in Python True == 1 == 1.0.
Numeric == {"int", "float", "bool"}

\* Python's == on these values, which "value not in enum" uses.
PyEqual(v, w) ==
  /\ DOMAIN v = DOMAIN w
  /\ \A x \in DOMAIN v :
       /\ v[x].text = w[x].text
       /\ v[x].kind = w[x].kind \/ {v[x].kind, w[x].kind} \subseteq Numeric

Error(at, why) == [at |-> at, why |-> why]

-----------------------------------------------------------------------------
(* One call of _validate_value: the part of the schema S at q judges the   *)
(* value of the arguments A at p.                                          *)

\* Mutant: isinstance(value, int) alone, which a bool satisfies.
BoolIsInt(expected, kind) ==
  CASE expected = "string"  -> kind = "str"
    [] expected = "integer" -> kind \in {"int", "bool"}
    [] expected = "number"  -> kind \in Numeric
    [] expected = "boolean" -> kind = "bool"
    [] expected = "object"  -> kind = "dict"
    [] expected = "array"   -> kind = "list"
    [] expected = "null"    -> kind = "none"
    [] OTHER                -> FALSE

\* _matches_type
MatchesType(expected, kind) ==
  CASE expected = "string"  -> kind = "str"
    [] expected = "integer" -> kind = "int"
    [] expected = "number"  -> kind \in {"int", "float"}
    [] expected = "boolean" -> kind = "bool"
    [] expected = "object"  -> kind = "dict"
    [] expected = "array"   -> kind = "list"
    [] expected = "null"    -> kind = "none"
    [] OTHER                -> FALSE

\* "type" is a name, a list of names, or no declaration at all.
ExpectedTypes(S, q) ==
  CASE KindAt(S, Get(q, "type")) = "str"  -> {Get(q, "type")}
    [] KindAt(S, Get(q, "type")) = "list" -> Parts(S, Get(q, "type"))
    [] OTHER                              -> {}

TypeErrors(S, q, A, p) ==
  LET matches(y) == S[y].kind = "str" /\ MatchesType(S[y].text, A[p].kind)
  IN  IF KindAt(S, Get(q, "type")) \in {"absent", "none"} THEN {}
      ELSE IF ExpectedTypes(S, q) = {} THEN {Error(p, "type_declaration")}
      ELSE IF \E y \in ExpectedTypes(S, q) : matches(y) THEN {} ELSE {Error(p, "type")}

\* A wrong type, or an object schema that is malformed: the one error that
\* is returned of the value, whatever else is wrong with it.
OnlyErrors(S, q, A, p) ==
  IF TypeErrors(S, q, A, p) # {} THEN TypeErrors(S, q, A, p)
  ELSE IF A[p].kind # "dict" THEN {}
  ELSE IF KindAt(S, Get(q, "properties")) \notin {"absent", "dict"} THEN {Error(p, "properties")}
  ELSE IF KindAt(S, Get(q, "required")) \notin {"absent", "list"} THEN {Error(p, "required")}
  ELSE {}

\* An enum that is not a list restricts nothing.
EnumErrors(S, q, A, p) ==
  IF /\ KindAt(S, Get(q, "enum")) = "list"
     /\ \A y \in Parts(S, Get(q, "enum")) : ~PyEqual(Subtree(S, y), Subtree(A, p))
  THEN {Error(p, "enum")} ELSE {}

MissingErrors(S, q, A, p) ==
  {Error(Get(p, S[y].text), "missing") :
     y \in {z \in Parts(S, Get(q, "required")) : Get(p, S[z].text) \notin DOMAIN A}}

\* Only the value False closes an object: "additional is False".
Closed(S, q) ==
  Get(q, "additionalProperties") \in DOMAIN S
    /\ S[Get(q, "additionalProperties")] = Node("bool", "0")

UnexpectedErrors(S, q, A, p) ==
  {Error(y, "unexpected") :
     y \in {z \in Parts(A, p) :
              Closed(S, q) /\ Append(Get(q, "properties"), Last(z)) \notin DOMAIN S}}

\* The schema of a part of a value: a property's, or that of all items.
SchemaOf(q, y) ==
  IF Last(y)[1] = "field" THEN Append(Get(q, "properties"), Last(y)) ELSE Get(q, "items")

PropertyErrors(S, q, A, p) ==
  {Error(y, "property_schema") :
     y \in {z \in Parts(A, p) :
              Last(z)[1] = "field" /\ KindAt(S, SchemaOf(q, z)) \notin {"absent", "dict"}}}

\* What the loops over enum, required, additional and properties append.
OwnErrors(S, q, A, p) ==
  EnumErrors(S, q, A, p)
    \cup IF A[p].kind # "dict" THEN {}
         ELSE UNION {MissingErrors(S, q, A, p), UnexpectedErrors(S, q, A, p),
                     PropertyErrors(S, q, A, p)}

\* The calls that call makes: on the parts whose schema is a mapping.
Calls(S, q, A, p) ==
  {<<SchemaOf(q, y), y>> : y \in {z \in Parts(A, p) : KindAt(S, SchemaOf(q, z)) = "dict"}}

\* Mutant: a value outside its enum is returned at once, like a wrong type.
EnumReturns(S, A, of, c) ==
  LET only == OnlyErrors(S, c[1], A, c[2]) \cup EnumErrors(S, c[1], A, c[2])
  IN  IF only # {} THEN only
      ELSE OwnErrors(S, c[1], A, c[2]) \cup UNION {of[d] : d \in Calls(S, c[1], A, c[2])}

\* What _validate_value returns, from what its recursive calls return.
Returned(S, A, of, c) ==
  LET only == OnlyErrors(S, c[1], A, c[2])
  IN  IF only # {} THEN only
      ELSE OwnErrors(S, c[1], A, c[2]) \cup UNION {of[d] : d \in Calls(S, c[1], A, c[2])}

\* _validate_value
ValidateValue(S, A) ==
  LET of[c \in (DOMAIN S) \X (DOMAIN A)] == Returned(S, A, of, c)
  IN  of

\* Mutant: parameters given in shorthand are taken as a schema.
Unexpanded(P) == P

IsShorthand(P) == \A k \in Keywords : <<Field(k)>> \notin DOMAIN P

\* Parameters with no schema keyword among their names are shorthand for the
\* properties of an object.
Expanded(P) ==
  IF ~IsShorthand(P) THEN P
  ELSE LET type == <<Field("type")>>
           properties(x) == <<Field("properties")>> \o x
       IN  [y \in {<<>>, type} \cup {properties(x) : x \in DOMAIN P} |->
              IF y = <<>> THEN Node("dict", "")
              ELSE IF y = type THEN Node("str", "object")
              ELSE P[Tail(y)]]

\* validate_arguments: a tool with no parameters accepts everything.
ArgumentErrors(P, A) ==
  IF Parts(P, <<>>) = {} THEN {}
  ELSE ValidateValue(Expanded(P), A)[<<<<>>, <<>>>>]

-----------------------------------------------------------------------------
VARIABLES
  parameters,   \* tool.parameters
  arguments,    \* request.arguments
  validated,    \* has validate_arguments returned
  errors        \* what it returned

vars == <<parameters, arguments, validated, errors>>

Init ==
  /\ parameters \in ParameterSchemas
  /\ arguments \in ArgumentMappings
  /\ validated = FALSE
  /\ errors = {}

Validate ==
  /\ ~validated
  /\ validated' = TRUE
  /\ errors' = ArgumentErrors(parameters, arguments)
  /\ UNCHANGED <<parameters, arguments>>

Next == Validate

Spec == Init /\ [][Next]_vars
=============================================================================
