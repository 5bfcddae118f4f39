------------------------------ MODULE Schemas ------------------------------
(***************************************************************************)
(* What is said of a shape, and what comes back in it.  A dataclass, a     *)
(* function's signature or a schema that a caller or an MCP server wrote   *)
(* becomes a JSON Schema (helpers/json_schema.py, helpers/tool.py), goes   *)
(* out by a provider's strict rules (llm/types/schema_utils.py,            *)
(* llm/wire_transforms.py), and what the model or the server answers is    *)
(* parsed, checked (util/json_schema.py), built (helpers/structured.py) or *)
(* asked for again (structured_complete).                                  *)
(***************************************************************************)
EXTENDS Naturals, Sequences, SequencesExt, FiniteSets

CONSTANTS
    Classes,    \* dataclasses, as annotations
    Raw,        \* schemas that somebody wrote
    Signatures, \* what @tool decorates: sequences of parameters
    Answers,    \* JSON values that come back
    Repairs     \* repairAttempts that callers ask for

VARIABLES
    ask,        \* what is asked for, how, of whom
    sent,       \* the schema on the wire and its strict flag
    prompt,     \* the turns of the last request
    rounds,     \* requests sent
    answer,     \* the last answer
    outcome     \* what the caller, or the tool, has of it

schemaVars == <<ask, sent, prompt, rounds, answer, outcome>>

-----------------------------------------------------------------------------
\* JSON. A value has a type, its text, and what it holds: the members of an object in their order, or
\* a list's items. A reference's text is "#", its path is in `keys`.

Value(t, s, keys, items) == [t |-> t, s |-> s, keys |-> keys, items |-> items]
Null == Value("null", "", <<>>, <<>>)
Bool(b) == Value("boolean", IF b THEN "true" ELSE "false", <<>>, <<>>)
Integer(n) == Value("integer", n, <<>>, <<>>)
Float(n) == Value("number", n, <<>>, <<>>)
Str(s) == Value("string", s, <<>>, <<>>)
List(items) == Value("array", "", <<>>, items)
Map(pairs) == Value("object", "", [i \in DOMAIN pairs |-> pairs[i][1]], [i \in DOMAIN pairs |-> pairs[i][2]])
Ref(path) == Value("string", "#", path, <<>>)
Absent == Value("absent", "", <<>>, <<>>)

Has(v, k) == v.t = "object" /\ k \in ToSet(v.keys)
Get(v, k) == IF Has(v, k) THEN v.items[CHOOSE i \in DOMAIN v.keys : v.keys[i] = k] ELSE Absent
Texts(v) == {x.s : x \in ToSet(v.items)}
ListOf(names) == List([i \in DOMAIN names |-> Str(names[i])])
Pairs(v) == [i \in DOMAIN v.keys |-> <<v.keys[i], v.items[i]>>]
\* {**v, key: x}
Put(v, k, x) ==
    IF Has(v, k) THEN [v EXCEPT !.items = [i \in DOMAIN v.items |-> IF v.keys[i] = k THEN x ELSE v.items[i]]]
    ELSE Map(Append(Pairs(v), <<k, x>>))
Each(v, Op(_)) == [v EXCEPT !.items = [i \in DOMAIN v.items |-> Op(v.items[i])]]

\* The floats of the model that are whole, which JSON writes as it does an integer.
Whole(v) == v.t = "number" /\ v.s \in {"0", "1"}

-----------------------------------------------------------------------------
\* Annotations: their kind, name, arguments, and a dataclass' fields [name, of, default, init].

Scalars == [str |-> "string", int |-> "integer", float |-> "number", bool |-> "boolean"]
AdmitsNull(a) == a.k = "union" /\ \E m \in ToSet(a.args) : m.k = "none"
NonNullArgs(a) == SelectSeq(a.args, LAMBDA m : m.k # "none")
NonNull(a) ==
    IF ~AdmitsNull(a) THEN a
    ELSE IF Len(NonNullArgs(a)) = 1 THEN NonNullArgs(a)[1] ELSE [a EXCEPT !.args = NonNullArgs(a)]
Collections == {"list", "set", "tuple"}

\* Whether schema_for finds a schema for it, or raises.
RECURSIVE Described(_)
Described(a) ==
    CASE a.k \in DOMAIN Scalars \cup {"any", "none", "dict", "enum"} -> TRUE
      [] a.k = "class" -> \A f \in ToSet(a.fields) : f.init => Described(f.of)
      [] a.k = "literal" -> Cardinality({v.t : v \in ToSet(a.values)}) = 1 /\ a.values[1].t # "null"
      [] a.k \in Collections -> a.args # <<>> => Described(a.args[1])
      [] a.k = "union" -> \A m \in ToSet(a.args) : Described(m)
      [] OTHER -> FALSE

\* Fault: a type that admits null already is the only one that does.
NullableScalar(schema) == schema

\* nullable()
AdmitNull(schema) ==
    LET kind == Get(schema, "type")
    IN  CASE kind.t = "string" -> Put(schema, "type", ListOf(<<kind.s, "null">>))
          [] kind.t = "array" -> IF "null" \in Texts(kind) THEN schema
                                 ELSE Put(schema, "type", List(Append(kind.items, Str("null"))))
          [] OTHER -> Map(<<<<"anyOf", List(<<schema, Map(<<<<"type", Str("null")>>>>)>>)>>>>)

Typed(t) == Map(<<<<"type", Str(t)>>>>)

RECURSIVE SchemaFor(_)
\* Fields that the constructor takes, all required, and null where there is a default.
ObjectSchema(a) ==
    LET fields == SelectSeq(a.fields, LAMBDA f : f.init)
        Of(f) == IF f.default /\ ~AdmitsNull(f.of) THEN AdmitNull(SchemaFor(f.of)) ELSE SchemaFor(f.of)
    IN  Map(<<<<"type", Str("object")>>,
              <<"properties", Map([i \in DOMAIN fields |-> <<fields[i].name, Of(fields[i])>>])>>,
              <<"required", ListOf([i \in DOMAIN fields |-> fields[i].name])>>,
              <<"additionalProperties", Bool(FALSE)>>>>)
SchemaFor(a) ==
    CASE a.k \in DOMAIN Scalars -> Typed(Scalars[a.k])
      [] a.k = "any" -> Map(<<>>)
      [] a.k = "none" -> Typed("null")
      [] a.k = "class" -> ObjectSchema(a)
      [] a.k = "literal" -> Put(Typed(a.values[1].t), "enum", List(a.values))
      [] a.k \in Collections -> Put(Typed("array"), "items", IF a.args = <<>> THEN Map(<<>>) ELSE SchemaFor(a.args[1]))
      [] a.k = "dict" -> Typed("object")
      [] a.k = "enum" -> Put(Typed("string"), "enum", List(a.values))
      [] a.k = "union" ->
            LET members == NonNullArgs(a)
                base == IF Len(members) = 1 THEN SchemaFor(members[1])
                        ELSE Map(<<<<"anyOf", List([i \in DOMAIN members |-> SchemaFor(members[i])])>>>>)
            IN  IF AdmitsNull(a) THEN AdmitNull(base) ELSE base

\* @tool: of parameters [name, of, default, kind], the starred name none.
Named(params) == SelectSeq(params, LAMBDA p : p.kind \notin {"star", "starstar"})
Decorated(params) == \A p \in ToSet(Named(params)) : Described(p.of)
Parameters(params) ==
    LET named == Named(params)
        required == SelectSeq(named, LAMBDA p : ~p.default)
        schema == Put(Typed("object"), "properties", Map([i \in DOMAIN named |-> <<named[i].name, SchemaFor(named[i].of)>>]))
    IN  IF required = <<>> THEN schema
        ELSE Put(schema, "required", ListOf([i \in DOMAIN required |-> required[i].name]))

-----------------------------------------------------------------------------
\* Strictness.

\* ensure_additional_properties: through properties and items, and nothing else.
RECURSIVE Closed(_)
Closed(schema) ==
    LET n == IF schema.t = "object" THEN schema ELSE Map(<<>>)
        shut == IF Get(n, "type") = Str("object") /\ ~Has(n, "additionalProperties")
                THEN Put(n, "additionalProperties", Bool(FALSE)) ELSE n
        Inner(v) == IF v.t = "object" THEN Closed(v) ELSE v
        deep == IF Get(shut, "properties").t = "object"
                THEN Put(shut, "properties", Each(Get(shut, "properties"), Inner)) ELSE shut
    IN  IF Get(deep, "items").t = "object" THEN Put(deep, "items", Closed(Get(deep, "items"))) ELSE deep

Unsupported == {"minimum", "maximum", "exclusiveMinimum", "exclusiveMaximum", "multipleOf", "maxItems"}
Branches == {"anyOf", "oneOf", "allOf"}

\* Fault: what a property holds is not looked at.
RECURSIVE StrictAtTop(_, _)
StrictAtTop(n, dialect) ==
    n.t = "object" /\ Get(n, "properties").t = "object" =>
        ToSet(Get(n, "properties").keys) \subseteq Texts(Get(n, "required"))

\* strict_support
RECURSIVE Strict(_, _)
Strict(n, dialect) ==
    n.t = "object" =>
        /\ Get(n, "$ref").t # "string"
        /\ dialect = "anthropic" => ToSet(n.keys) \cap Unsupported = {}
        /\ Has(n, "additionalProperties") => Get(n, "additionalProperties") = Bool(FALSE)
        /\ dialect = "openai" /\ Get(n, "type") = Str("object") => Has(n, "properties")
        /\ Get(n, "properties").t = "object" =>
              /\ dialect = "openai" => ToSet(Get(n, "properties").keys) \subseteq Texts(Get(n, "required"))
              /\ \A p \in ToSet(Get(n, "properties").items) : Strict(p, dialect)
        /\ Strict(Get(n, "items"), dialect)
        /\ \A b \in Branches : Get(n, b).t = "array" => \A s \in ToSet(Get(n, b).items) : Strict(s, dialect)

StrictSupport(schema, dialect) == Strict(schema, dialect)

\* What an adapter sends of a structured answer's schema. A strict flag that the caller set is theirs.
Given(strict, own) == IF own = "unset" THEN strict ELSE own = "yes"
Structured(api, schema, own) ==
    LET strict == Given(StrictSupport(Closed(schema), "openai"), own)
    IN  CASE api = "completions" -> [schema |-> IF strict THEN Closed(schema) ELSE schema, strict |-> strict]
          [] api = "responses" -> [schema |-> Closed(schema), strict |-> strict]
          [] api = "messages" -> [schema |-> Closed(schema), strict |-> FALSE]
          [] api = "generate" -> [schema |-> schema, strict |-> FALSE]
\* And of a tool's.
ToolSent(api, schema, own) ==
    CASE api = "responses" -> [schema |-> Closed(schema), strict |-> Given(StrictSupport(Closed(schema), "openai"), own)]
      [] api \in {"completions", "messages"} ->
            [schema |-> IF own = "yes" THEN Closed(schema) ELSE schema, strict |-> own = "yes"]
      [] api = "generate" -> [schema |-> schema, strict |-> FALSE]

-----------------------------------------------------------------------------
\* The validator.

Matches(type, v) ==
    CASE type \in {"string", "boolean", "object", "array", "null"} -> v.t = type
      [] type = "number" -> v.t \in {"integer", "number"}
      [] type = "integer" -> v.t = "integer" \/ Whole(v)
      [] OTHER -> TRUE

\* js_json, which writes 1.0 as 1, and an object in its order.
RECURSIVE Spelt(_)
Spelt(v) == [v EXCEPT !.t = IF Whole(v) THEN "integer" ELSE @, !.items = [i \in DOMAIN v.items |-> Spelt(v.items[i])]]
Same(a, b) == Spelt(a) = Spelt(b)

\* _resolve_pointer
RECURSIVE Pointed(_, _)
Pointed(v, path) ==
    IF path = <<>> THEN IF v.t \in {"object", "boolean"} THEN v ELSE Absent
    ELSE Pointed(Get(v, Head(path)), Tail(path))

\* Whether validate_json_schema finds no error.
RECURSIVE Valid(_, _, _, _)
Valid(schema, v, root, seen) ==
    LET ref == Get(schema, "$ref")
        target == IF ref.s = "#" /\ ref.keys \notin seen THEN Pointed(root, ref.keys) ELSE Absent
        type == Get(schema, "type")
        properties == Get(schema, "properties")
    IN  IF schema.t = "boolean" THEN schema = Bool(TRUE) ELSE schema.t = "object" =>
        /\ target # Absent => Valid(target, v, root, seen \cup {ref.keys})
        /\ type.t = "string" => Matches(type.s, v)
        /\ type.t = "array" => \E t \in Texts(type) : Matches(t, v)
        /\ Get(schema, "enum").t = "array" => \E o \in ToSet(Get(schema, "enum").items) : Same(o, v)
        /\ Has(schema, "const") => Same(Get(schema, "const"), v)
        /\ v.t = "object" /\ properties.t = "object" =>
              /\ Get(schema, "required").t = "array" => Texts(Get(schema, "required")) \subseteq ToSet(v.keys)
              /\ \A k \in ToSet(properties.keys) \cap ToSet(v.keys) :
                    Valid(Get(properties, k), Get(v, k), root, seen)
              /\ Get(schema, "additionalProperties") = Bool(FALSE) => ToSet(v.keys) \subseteq ToSet(properties.keys)
        /\ v.t = "array" /\ Has(schema, "items") =>
              \A i \in ToSet(v.items) : Valid(Get(schema, "items"), i, root, seen)

Accepts(schema, v) == Valid(schema, v, schema, {})

-----------------------------------------------------------------------------
\* What is built of an answer: values, and the kinds that Python has beside JSON's.

Errors == {"SchemaError", "TypeError", "unparsed"}
Error(e) == Value(e, "", <<>>, <<>>)
FirstError(vs) == SelectSeq(vs, LAMBDA v : v.t \in Errors)

RECURSIVE Hashable(_)
Hashable(v) == v.t \notin {"array", "object", "set", "instance"} /\ \A i \in ToSet(v.items) : Hashable(i)

\* A string is a sequence too, of its characters.
Elements(v) == IF v.t = "string" THEN <<v>> ELSE v.items

\* Fault: an integer is left as it is spelled.
AsSpelled(v) == v

\* JSON has one number type.
Widened(v) == IF v.t = "integer" THEN Float(v.s) ELSE v

RECURSIVE Build(_, _)
Instantiate(a, v) ==
    LET fields == SelectSeq(a.fields, LAMBDA f : f.init)
        given == SelectSeq(fields, LAMBDA f : Has(v, f.name))
        Filled(f) == Build(f.of, Get(v, f.name))
        built == [i \in DOMAIN given |-> Filled(given[i])]
        kept == SelectSeq(given, LAMBDA f : ~(f.default /\ Filled(f) = Null))
    IN  IF v.t # "object" THEN Error("SchemaError")
        ELSE IF FirstError(built) # <<>> THEN Head(FirstError(built))
        ELSE IF \E f \in ToSet(fields) : ~f.default /\ ~Has(v, f.name) THEN Error("SchemaError")
        ELSE Value("instance", a.name, [i \in DOMAIN kept |-> kept[i].name], [i \in DOMAIN kept |-> Filled(kept[i])])
Build(ann, v) ==
    LET a == NonNull(ann)
    IN  IF v = Null THEN v
        ELSE IF a.k = "class" THEN Instantiate(a, v)
        ELSE IF a.k \in Collections /\ a.args # <<>> /\ v.t \in {"array", "string"}
        THEN LET es == Elements(v)
                 built == [i \in DOMAIN es |-> Build(a.args[1], es[i])]
             IN  IF FirstError(built) # <<>> THEN Head(FirstError(built))
                 ELSE IF a.k = "set" /\ \E i \in DOMAIN built : ~Hashable(built[i]) THEN Error("TypeError")
                 ELSE Value(a.k, "", <<>>, built)
        ELSE IF a.k = "float" THEN Widened(v) ELSE v

\* Python calls the function with the model's arguments by name.
Bound(params, v) ==
    LET byName == {p.name : p \in {q \in ToSet(params) : q.kind = "plain"}}
    IN  /\ \A p \in ToSet(params) : p.kind \in {"plain", "positional"} /\ ~p.default => p.name \in byName \cap ToSet(v.keys)
        /\ (\E p \in ToSet(params) : p.kind = "starstar") \/ ToSet(v.keys) \subseteq byName

-----------------------------------------------------------------------------
Nothing == [schema |-> Absent, strict |-> FALSE]
Apis == {"completions", "responses", "messages", "generate"}
Owns == {"unset", "yes", "no"}

Init ==
    /\ ask \in [use : {"class"}, of : Classes, api : Apis, own : {"unset"}, validate : {FALSE}, repairs : {0}, list : {FALSE}]
          \cup [use : {"raw"}, of : Raw, api : Apis, own : Owns, validate : BOOLEAN, repairs : Repairs, list : BOOLEAN]
          \cup [use : {"tool"}, of : Signatures, api : Apis, own : {"unset"}, validate : BOOLEAN, repairs : {0}, list : {FALSE}]
          \cup [use : {"mcp"}, of : Raw, api : {"responses"}, own : {"unset"}, validate : BOOLEAN, repairs : {0}, list : {FALSE}]
    /\ sent = Nothing /\ prompt = <<"ask">> /\ rounds = 0 /\ answer = Absent /\ outcome = Absent

\* to_wire, and what the adapter makes of it; a class or a function without a schema is told of before.
Asks ==
    /\ rounds = 0 /\ outcome = Absent
    /\ IF (ask.use = "class" /\ ~Described(ask.of)) \/ (ask.use = "tool" /\ ~Decorated(ask.of))
       THEN outcome' = Error("SchemaError") /\ UNCHANGED <<sent, rounds>>
       ELSE /\ sent' = CASE ask.use = "class" -> Structured(ask.api, SchemaFor(ask.of), ask.own)
                         [] ask.use = "raw" -> Structured(ask.api, ask.of, ask.own)
                         [] ask.use = "tool" -> ToolSent(ask.api, Parameters(ask.of), ask.own)
                         [] ask.use = "mcp" -> [schema |-> ask.of, strict |-> FALSE]
            /\ rounds' = 1 /\ UNCHANGED outcome
    /\ UNCHANGED <<ask, prompt, answer>>

Open == rounds > 0 /\ outcome = Absent

\* complete(structured=cls): the two ways that an answer disappoints leave `parsed` None.
ParsedInto(v) ==
    LET built == IF v = Absent THEN Error("unparsed") ELSE Instantiate(ask.of, v)
    IN  IF built.t \in {"unparsed", "SchemaError"} THEN Null ELSE built

AnswersClass(v) ==
    /\ ask.use = "class" /\ Open /\ answer' = v /\ outcome' = ParsedInto(v)
    /\ UNCHANGED <<ask, sent, prompt, rounds>>

\* Fault: the budget counts the requests.
RepairsAsRequests == rounds < ask.repairs

MayRepair == rounds <= ask.repairs

\* structured_complete: what does not parse, or does not pass where that is asked for, is asked again.
AnswersRaw(v) ==
    /\ ask.use = "raw" /\ Open /\ answer' = v
    /\ IF v # Absent /\ (ask.validate => Accepts(ask.of, v))
       THEN outcome' = v /\ UNCHANGED <<prompt, rounds>>
       ELSE IF MayRepair
       THEN prompt' = prompt \o <<"answer", "complaint">> /\ rounds' = rounds + 1 /\ UNCHANGED outcome
       ELSE outcome' = Error("unparsed") /\ UNCHANGED <<prompt, rounds>>
    /\ UNCHANGED <<ask, sent>>

\* The loop's call of the tool, its arguments checked first where that is asked for.
CallsTool(v) ==
    /\ ask.use = "tool" /\ Open /\ v.t = "object" /\ answer' = v
    /\ outcome' = IF ask.validate /\ ~Accepts(Parameters(ask.of), v) THEN Str("refused")
                  ELSE IF Bound(ask.of, v) THEN Str("ran") ELSE Error("TypeError")
    /\ UNCHANGED <<ask, sent, prompt, rounds>>

\* mcp_content_to_result
Rendered(media, failed) == IF media THEN "parts" ELSE IF failed THEN "error" ELSE "text"

\* An MCP tool's result, against what the server published.
ServerAnswers(v, media, failed) ==
    /\ ask.use = "mcp" /\ Open /\ answer' = v
    /\ outcome' = IF ~ask.validate \/ v \in {Absent, Null} THEN Str(Rendered(media, failed))
                  ELSE IF ~Accepts(ask.of, v) THEN Str("broken")
                  ELSE IF failed THEN Str(Rendered(media, failed)) ELSE Str("structured")
    /\ UNCHANGED <<ask, sent, prompt, rounds>>

Next ==
    \/ Asks
    \/ \E v \in Answers \cup {Absent} :
          AnswersClass(v) \/ AnswersRaw(v) \/ CallsTool(v)
          \/ \E media, failed \in BOOLEAN : ServerAnswers(v, media, failed)

Spec == Init /\ [][Next]_schemaVars

-----------------------------------------------------------------------------
TypeOK ==
    /\ ask.api \in Apis /\ ask.own \in Owns /\ sent.strict \in BOOLEAN
    /\ rounds \in 0 .. ask.repairs + 1 /\ answer \in Answers \cup {Absent}
    /\ outcome.t \in {"absent", "instance"} \cup Errors \cup {v.t : v \in Answers} \cup {"null", "string"}

\* What an annotation means, of what was built.
RECURSIVE Means(_, _)
Means(a, b) ==
    CASE a.k \in DOMAIN Scalars -> b.t = Scalars[a.k]
      [] a.k = "any" -> TRUE
      [] a.k = "none" -> b = Null
      [] a.k = "class" ->
            b.t = "instance" /\ b.s = a.name
            /\ \A f \in ToSet(a.fields) : f.name \in ToSet(b.keys) =>
                  Means(f.of, b.items[CHOOSE i \in DOMAIN b.keys : b.keys[i] = f.name])
      [] a.k = "literal" -> b \in ToSet(a.values)
      [] a.k = "tuple" -> b.t = a.k /\ Len(b.items) = Len(a.args) /\ \A i \in DOMAIN a.args : Means(a.args[i], b.items[i])
      [] a.k \in {"list", "set"} -> b.t = a.k /\ \A i \in ToSet(b.items) : Means(a.args[1], i)
      [] a.k = "dict" -> b.t = "object"
      [] a.k = "enum" -> b.t = "member"
      [] a.k = "union" -> \E m \in ToSet(a.args) : Means(m, b)

\* Annotations of which an answer of the right shape is built right.
RECURSIVE Plain(_)
Plain(a) ==
    CASE a.k \in {"str", "int", "float", "bool", "any", "none", "literal", "dict"} -> TRUE
      [] a.k = "class" -> \A f \in ToSet(a.fields) : Plain(f.of)
      [] a.k = "list" -> a.args # <<>> /\ Plain(a.args[1])
      [] a.k = "union" -> Len(NonNullArgs(a)) <= 1 /\ \A m \in ToSet(a.args) : Plain(m)
      [] OTHER -> FALSE
RECURSIVE Wholes(_)
Wholes(v) == Whole(v) \/ \E i \in ToSet(v.items) : Wholes(i)

\* An answer that its schema admits comes back as an instance whose fields are of the types that the
\* dataclass declares, at every depth (object_schema, instantiate).
BuiltAsDeclared ==
    ask.use = "class" /\ answer # Absent /\ Plain(ask.of) =>
        (Accepts(SchemaFor(ask.of), answer) /\ ~Wholes(answer) => Means(ask.of, outcome))

\* What OpenAI takes as strict: every object closed, with all of its properties required.
RECURSIVE Taken(_)
Taken(n) ==
    n.t = "object" =>
        /\ Get(n, "type") = Str("object") \/ "object" \in Texts(Get(n, "type")) =>
              /\ Get(n, "additionalProperties") = Bool(FALSE) /\ Has(n, "properties")
              /\ ToSet(Get(n, "properties").keys) \subseteq Texts(Get(n, "required"))
        /\ \A p \in ToSet(Get(n, "properties").items) : Taken(p)
        /\ Taken(Get(n, "items"))
        /\ \A b \in Branches : \A s \in ToSet(Get(n, b).items) : Taken(s)
RECURSIVE Holds(_, _)
Holds(a, kinds) ==
    a.k \in kinds \/ (\E m \in ToSet(a.args) : Holds(m, kinds)) \/ \E f \in ToSet(a.fields) : Holds(f.of, kinds)

\* A dataclass keeps "a guaranteed shape" (object_schema): its schema goes out strict where its
\* fields have shapes at all, one that goes out strict is one that strict mode takes, and a field with
\* a default may then be left null, except for one of chosen values.
GuaranteeKept ==
    ask.use = "class" /\ rounds > 0 /\ ask.api \in {"completions", "responses"} =>
        /\ sent.strict => Taken(sent.schema)
        /\ ~Holds(ask.of, {"dict"}) => sent.strict
        /\ \A f \in ToSet(ask.of.fields) : f.init /\ f.default /\ ~Holds(f.of, {"literal", "enum"}) =>
              Accepts(Get(Get(sent.schema, "properties"), f.name), Null)

\* What the seven keywords and references mean, in any order of an object's members.
RECURSIVE Sorted(_)
Sorted(v) ==
    [t |-> IF Whole(v) THEN "integer" ELSE v.t, s |-> v.s,
     of |-> IF v.t = "object" THEN {<<v.keys[i], Sorted(v.items[i])>> : i \in DOMAIN v.keys}
            ELSE {<<i, Sorted(v.items[i])>> : i \in DOMAIN v.items}]
RECURSIVE Meant(_, _, _)
Meant(schema, v, root) ==
    LET type == Get(schema, "type")
        enum == Get(schema, "enum")
    IN  IF schema.t = "boolean" THEN schema = Bool(TRUE) ELSE schema.t = "object" =>
        /\ Get(schema, "$ref").s = "#" => Meant(Pointed(root, Get(schema, "$ref").keys), v, root)
        /\ type # Absent => \E t \in {type.s} \cup Texts(type) : t # "" /\ Matches(t, v)
        /\ enum # Absent => \E o \in ToSet(enum.items) : Sorted(o) = Sorted(v)
        /\ Has(schema, "const") => Sorted(Get(schema, "const")) = Sorted(v)
        /\ v.t = "object" =>
              /\ Texts(Get(schema, "required")) \subseteq ToSet(v.keys)
              /\ \A k \in ToSet(v.keys) :
                    IF Has(Get(schema, "properties"), k) THEN Meant(Get(Get(schema, "properties"), k), Get(v, k), root)
                    ELSE Get(schema, "additionalProperties") # Bool(FALSE)
        /\ v.t = "array" => \A i \in ToSet(v.items) : Meant(Get(schema, "items"), i, root)
RECURSIVE Nodes(_)
Nodes(schema) == {schema} \cup UNION {Nodes(s) : s \in ToSet(schema.items)}
Bare(n) == n.t = "object" /\ (Has(n, "required") \/ Has(n, "additionalProperties")) /\ ~Has(n, "properties")
Compares(n) == \E k \in {"const", "enum"} : \E o \in {Get(n, k)} \cup ToSet(Get(n, k).items) : o.t = "object"
Refers(n) == Has(n, "$ref")

\* What MCP servers answer, and what a caller asked to have validated, is rejected only where it breaks
\* its schema, and accepted only where it keeps it, as far as the keywords that are read go
\* (validate_json_schema).
JudgedByMeaning ==
    ask.use \in {"raw", "mcp"} /\ ask.validate /\ answer # Absent /\ outcome # Absent =>
        /\ ~(\E n \in Nodes(ask.of) : Compares(n)) /\ Meant(ask.of, answer, ask.of) => Accepts(ask.of, answer)
        /\ ~(\E n \in Nodes(ask.of) : Bare(n)) /\ ~(\E n \in Nodes(ask.of) : Refers(n)) /\ Accepts(ask.of, answer) => Meant(ask.of, answer, ask.of)
        /\ outcome = Str("structured") => Accepts(ask.of, answer)

\* A call whose arguments its schema admits, and no more than the schema names, runs the tool (@tool,
\* validate_tool_arguments).
ValidCallsRun ==
    ask.use = "tool" /\ ask.validate /\ rounds > 0 /\ outcome # Absent =>
        /\ outcome = Str("ran") => Accepts(Parameters(ask.of), answer)
        /\ Accepts(Closed(Parameters(ask.of)), answer) /\ (\A p \in ToSet(ask.of) : p.kind # "positional") =>
              outcome = Str("ran")

\* Of an answer that is asked for again the model is told each time, and asked no more often than the caller
\* allows; what is given is the last answer, or the typed error (structured_complete).
RepairedInBudget ==
    ask.use = "raw" /\ rounds > 0 =>
        /\ Len(prompt) = 1 + 2 * (rounds - 1)
        /\ outcome # Absent => IF outcome.t = "unparsed" THEN rounds = 1 + ask.repairs ELSE outcome = answer

SchemasTrue == BuiltAsDeclared /\ GuaranteeKept /\ JudgedByMeaning /\ ValidCallsRun /\ RepairedInBudget

-----------------------------------------------------------------------------
\* Stated and refuted by TLC: a nullable schema is "the same schema, admitting null" (nullable). Of an
\* enum the type admits it and the values do not.
NullAdmitted ==
    ask.use = "class" /\ rounds > 0 =>
        \A f \in ToSet(ask.of.fields) : AdmitsNull(f.of) => Accepts(SchemaFor(f.of), Null)

\* Stated and refuted by TLC: a fields' value is of its type whatever the type is. A member of an enum is
\* left a string, an int may be a float, a dataclass in a union of two is left a mapping, and a tuple is
\* described by its first item.
AlwaysAsDeclared ==
    ask.use = "class" /\ answer # Absent => (Accepts(SchemaFor(ask.of), answer) => Means(ask.of, outcome))

\* Stated and refuted by TLC: an answer of the wrong shape leaves `parsed` None (_result). A list where a set of
\* dataclasses or of mappings was asked for raises TypeError.
ParsedOrNone == ask.use = "class" => outcome.t # "TypeError"

\* Stated and refuted by TLC: what is sent as strict by the library's own choice is what strict mode takes. An
\* object below `anyOf`, or one that may be null, is not closed and is not found open.
StrictIsTaken == rounds > 0 /\ ask.api = "responses" /\ ask.own = "unset" /\ sent.strict => Taken(sent.schema)

\* Stated and refuted by TLC: an empty schema is not sent (SchemaError). A field of Any is one.
NeverEmpty == ask.use = "class" => Map(<<>>) \notin Nodes(sent.schema)

\* Stated and refuted by TLC: `required` and `additionalProperties: false` are checked. They are where there are
\* `properties`, a reference is followed once on the way down, and objects are compared in their order.
AlwaysByMeaning ==
    ask.use = "mcp" /\ outcome = Str("structured") => Meant(ask.of, answer, ask.of)
NeverMisjudged ==
    ask.use = "mcp" /\ outcome = Str("broken") => ~Meant(ask.of, answer, ask.of)

\* Stated and refuted by TLC: valid arguments bind. A schema of @tool is open, a parameter before "/" is in it
\* and cannot be given by name, and the body of a tool gets a mapping for a dataclass.
ValidIsBound == ask.use = "tool" /\ ask.validate => outcome.t # "TypeError"
GetsDeclared ==
    ask.use = "tool" /\ outcome = Str("ran") =>
        \A p \in ToSet(Named(ask.of)) : p.of.k = "class" /\ Has(answer, p.name) => Get(answer, p.name).t = "instance"

\* Stated and refuted by TLC: a failed result of an MCP tool is told of as one. One with a picture is not.
FailureIsMarked == [][\A v \in Answers : ServerAnswers(v, TRUE, TRUE) => outcome'.s \in {"error", "broken"}]_schemaVars

\* Stated and refuted by TLC: the caller's own list of messages is left as it was. normalize_input hands it
\* back by identity, and the repairs are appended to it.
CallersListKept == ask.list => prompt = <<"ask">>
=============================================================================
