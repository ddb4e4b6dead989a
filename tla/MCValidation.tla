----------------------------- MODULE MCValidation -----------------------------
(* Schemas and arguments for the TLC run of Validation.                       *)
EXTENDS ValidationProperties, TLC

\* Trees, from the trees of their parts.
Tree(kind, text, parts) ==
  [x \in {<<>>} \cup UNION {{<<s>> \o y : y \in DOMAIN parts[s]} : s \in DOMAIN parts} |->
     IF x = <<>> THEN Node(kind, text) ELSE parts[x[1]][Tail(x)]]
Scalar(kind, text) == Tree(kind, text, <<>>)
Str(text) == Scalar("str", text)
None == Scalar("none", "")
List(items) ==
  Tree("list", "", [s \in {Item(i) : i \in DOMAIN items} |-> items[s[2]]])
Dict(fields) ==
  Tree("dict", "", [s \in {Field(n) : n \in DOMAIN fields} |-> fields[s[2]]])
NoFields == <<>>

MCStrings == STRING

True == Scalar("bool", "1")
False == Scalar("bool", "0")
One == Scalar("int", "1")
OneFloat == Scalar("float", "1")
Two == Scalar("int", "2")
Text == Str("text")

Typed(name) == Dict("type" :> Str(name))
Object(fields) == Dict(("type" :> Str("object")) @@ ("properties" :> Dict(fields)))
\* The schema s with one key more.
With(s, key, v) ==
  [x \in DOMAIN s \cup {<<Field(key)>> \o y : y \in DOMAIN v} |->
     IF x # <<>> /\ x[1] = Field(key) THEN v[Tail(x)] ELSE s[x]]

\* What a parameter may be declared as: every type, unions, enums with and
\* without a type, arrays, open and closed objects, and declarations that
\* make no sense.
Declarations ==
  {Typed(t) : t \in {"string", "integer", "number", "boolean", "null", "object", "array", "date"}}
    \cup
  {Dict(NoFields),
   Dict("type" :> List(<<Str("integer"), Str("null")>>)),
   Dict("type" :> List(<<>>)), Dict("type" :> One), Dict("type" :> None),
   Dict("enum" :> List(<<One, Text>>)),
   With(Typed("number"), "enum", List(<<One, Two>>)),
   With(Typed("object"), "enum", List(<<Dict("a" :> One)>>)),
   With(Object("a" :> Typed("integer")), "enum", List(<<Dict("a" :> One)>>)),
   With(Typed("array"), "items", Typed("integer")),
   Dict("items" :> With(Typed("number"), "enum", List(<<One>>))),
   With(Typed("array"), "items", Text),
   Object("a" :> Typed("integer")),
   With(Object("a" :> Typed("integer")), "required", List(<<Str("a"), Str("b")>>)),
   With(Object("a" :> Typed("integer")), "additionalProperties", False),
   With(Object("a" :> Typed("integer")), "additionalProperties", None),
   With(Object("a" :> Text), "required", List(<<Str("b")>>)),
   With(Typed("object"), "properties", None),
   With(Typed("object"), "required", Text),
   With(Typed("array"), "items", Object("a" :> Typed("boolean"))),
   Text}

Scalars == {Text, One, OneFloat, Two, True, None}
Values ==
  Scalars \cup {List(<<>>), List(<<One>>), List(<<OneFloat, Text>>), List(<<Dict("a" :> One), True>>)}
    \cup {Dict("a" :> v) : v \in {One, True, Text, List(<<One>>)}}
    \cup {Dict(NoFields), Dict(("a" :> One) @@ ("b" :> Text)), Dict("b" :> Dict("a" :> Text))}

\* Tools with one parameter, with two, with full schemas, with a parameter
\* that has the name of a schema keyword, and with none.
MCParameterSchemas ==
  {Dict("x" :> d) : d \in Declarations}
    \cup {Dict(("x" :> d) @@ ("y" :> Typed("integer"))) : d \in Declarations}
    \cup {With(With(Object("x" :> d), "required", List(<<Str("y")>>)), "additionalProperties", False) :
            d \in Declarations}
    \cup {Dict(("x" :> Typed("integer")) @@ (k :> d)) :
            k \in Keywords, d \in {Typed("string"), Dict(NoFields), List(<<Str("x")>>)}}
    \cup {Dict(NoFields)}

MCArgumentMappings ==
  {Dict("x" :> v) : v \in Values}
    \cup {Dict(("x" :> v) @@ ("y" :> w)) : v \in Values, w \in {One, Text}}
    \cup {Dict(NoFields), Dict("z" :> One)}
================================================================================
