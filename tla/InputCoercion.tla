--------------------------- MODULE InputCoercion ----------------------------
(***************************************************************************)
(* What becomes of an argument between the caller and a tool's handler:    *)
(* the coercions of src/utils/coercion.ts, the schemas that                *)
(* src/registry/tools.ts makes of a tool's parameters, and the three ways  *)
(* a call takes through them: a client's session, callTool, and the        *)
(* command line.                                                           *)
(*                                                                         *)
(* JavaScript's values are tuples that begin with their type.  What Number *)
(* and JSON.parse make of a text is given by the constants.                *)
(***************************************************************************)
EXTENDS Integers, Sequences

CONSTANTS Numbers,      \* the texts Number() reads, each with its number
          Decimals,     \* those of them parseCliValue takes for numbers
          TextOf,       \* String() of a number
          Structures,   \* the texts of JSON objects and arrays, with their values
          Pieces,       \* the texts with commas, and what lies between
          Values,       \* arguments a caller may send
          Typed,        \* texts somebody may type on the command line
          Parameters    \* parameters a tool may declare

Undefined == <<"undefined">>
Null == <<"null">>
Number(n) == <<"number", n>>
Boolean(b) == <<"boolean", b>>
Text(t) == <<"string", t>>
Array(elements) == <<"array", elements>>

Kind(v) == v[1]

Kinds == {"number", "boolean", "string", "object", "array", "number[]", "boolean[]", "string[]", "any"}

ASSUME CoercionAssumption ==
    /\ Decimals \subseteq DOMAIN Numbers
    /\ \A t \in DOMAIN Numbers \cap {"0", "1"} : Numbers[t] = IF t = "0" THEN 0 ELSE 1
    /\ \A t \in DOMAIN Structures : Kind(Structures[t]) \in {"object", "array"}
    /\ DOMAIN Numbers \cap (DOMAIN Structures \cup DOMAIN Pieces) = {}
    /\ {"true", "false", "null", "yes", "no", "on", "off"}
           \cap (DOMAIN Numbers \cup DOMAIN Structures \cup DOMAIN Pieces) = {}
    /\ \A p \in Parameters :
           /\ p.form \in {"shorthand", "config", "zod"} /\ p.type \in Kinds
           /\ p.coerce \in {"unset", "always", "never"}

Nullish(v) == Kind(v) \in {"undefined", "null"}

Refused == <<"refused">>

-----------------------------------------------------------------------------
CoerceNumber(v) ==
    CASE Kind(v) = "string" /\ v[2] \in DOMAIN Numbers -> Number(Numbers[v[2]])
      [] Kind(v) = "boolean" -> Number(IF v[2] THEN 1 ELSE 0)
      [] OTHER -> v

CoerceBoolean(v) ==
    CASE Kind(v) = "string" /\ v[2] \in {"true", "1", "yes", "on"} -> Boolean(TRUE)
      [] Kind(v) = "string" /\ v[2] \in {"false", "0", "no", "off"} -> Boolean(FALSE)
      [] Kind(v) = "number" /\ v[2] \in {0, 1} -> Boolean(v[2] = 1)
      [] OTHER -> v

CoerceString(v) ==
    CASE Kind(v) = "number" -> Text(TextOf[v[2]])
      [] Kind(v) = "boolean" -> Text(IF v[2] THEN "true" ELSE "false")
      [] OTHER -> v

ReadsAs(v, kind) ==
    /\ Kind(v) = "string"
    /\ v[2] \in DOMAIN Structures
    /\ Kind(Structures[v[2]]) = kind

CoerceObject(v) == IF ReadsAs(v, "object") THEN Structures[v[2]] ELSE v

CoerceArray(v) ==
    CASE Kind(v) = "array" \/ Nullish(v) -> v
      [] ReadsAs(v, "array") -> Structures[v[2]]
      [] Kind(v) = "string" /\ ~ReadsAs(v, "array") /\ v[2] \in DOMAIN Pieces ->
             Array([i \in DOMAIN Pieces[v[2]] |-> Text(Pieces[v[2]][i])])
      [] OTHER -> Array(<<v>>)

Each(Coerce(_), v) ==
    IF Kind(v) = "array" THEN Array([i \in DOMAIN v[2] |-> Coerce(v[2][i])]) ELSE v

\* smartCoerceValue
CoerceTo(type, v) ==
    CASE type = "number" -> CoerceNumber(v)
      [] type = "boolean" -> CoerceBoolean(v)
      [] type = "string" -> CoerceString(v)
      [] type = "object" -> CoerceObject(v)
      [] type = "array" -> CoerceArray(v)
      [] type = "number[]" -> Each(CoerceNumber, CoerceArray(v))
      [] type = "boolean[]" -> Each(CoerceBoolean, CoerceArray(v))
      [] type = "string[]" -> Each(CoerceString, CoerceArray(v))
      [] OTHER -> v

-----------------------------------------------------------------------------
ElementKind ==
    [type \in {"number[]", "boolean[]", "string[]"} |->
        CASE type = "number[]" -> "number"
          [] type = "boolean[]" -> "boolean"
          [] type = "string[]" -> "string"]

\* The schema of a type, without its coercion.
Accepts(type, v) ==
    CASE type = "any" -> TRUE
      [] type \in DOMAIN ElementKind ->
             /\ Kind(v) = "array"
             /\ \A i \in DOMAIN v[2] : Kind(v[2][i]) = ElementKind[type]
      [] OTHER -> Kind(v) = type

\* A parameter is declared by its type's name, by a property's configuration, or by
\* a schema of zod.  The schemas that normalizeInputSchema makes coerce before they
\* check: those of zod's numbers, booleans and arrays, and every other parameter
\* whose configuration, or else the tool, wants it.
Preprocesses(param, coerceInputs) ==
    CASE param.form = "zod" ->
             coerceInputs /\ param.type \notin {"string", "object", "any"}
      [] param.form = "config" /\ param.coerce # "unset" -> param.coerce = "always"
      [] OTHER -> coerceInputs

\* What a parameter's schema gives the handler for an argument.  A default takes the
\* place of a missing argument and is parsed in its stead: inside a configuration's
\* schema, whose coercion it meets, but not with a schema of zod, which the coercion
\* is put around.
Parse(param, coerceInputs, v) ==
    LET w == IF v = Undefined THEN param.default ELSE v
        coerced == Preprocesses(param, coerceInputs) /\ (param.form = "zod" => v # Undefined)
        given == IF coerced THEN CoerceTo(param.type, w) ELSE w
    IN  IF (w = Undefined /\ param.optional) \/ Accepts(param.type, given) THEN given ELSE Refused

-----------------------------------------------------------------------------
\* A tools/call request: the session's schema.
SessionArgument(param, coerceInputs, v) == Parse(param, coerceInputs, v)

\* callTool: coerceArguments, then the compiled schema.
AppArgument(param, coerceInputs, v) ==
    Parse(param, coerceInputs, IF coerceInputs THEN CoerceTo(param.type, v) ELSE v)

\* parseCliValue
CliValue(t) ==
    CASE t \in {"true", "false"} -> Boolean(t = "true")
      [] t = "null" -> Null
      [] t \in Decimals -> Number(Numbers[t])
      [] t \in DOMAIN Structures -> Structures[t]
      [] OTHER -> Text(t)

\* The call command coerces whatever the tool says.
TypedArgument(param, t) == AppArgument(param, TRUE, CliValue(t))

\* Where the two ways through a tool's schemas differ: coerceArguments converts
\* what zod's strings and objects do not, and what a property's `coerce: false'
\* forbids.
CoercedByAppOnly(param, coerceInputs) ==
    /\ coerceInputs
    /\ \/ param.form = "zod" /\ param.type \in {"string", "object"}
       \/ param.form = "config" /\ param.coerce = "never"

\* The typed text can be had back from what parseCliValue made of it.
Recoverable(t) == CoerceString(CliValue(t)) = Text(t)
=============================================================================
