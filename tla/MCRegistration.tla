--------------------------- MODULE MCRegistration ---------------------------
(***************************************************************************)
(* A small instance of Registration: a tool that may be redefined, two     *)
(* resource templates of one name, two sessions; and one of InputCoercion, *)
(* whose definitions TLC evaluates at the start of the run: parameters of  *)
(* every form and type, with a default of their own type or of another,    *)
(* and texts and values of every kind that a coercion tells apart.         *)
(***************************************************************************)
EXTENDS Registration, InputCoercion

CONSTANTS t, x, y, one, two

MCListOf == (t :> "tools") @@ (x :> "resources") @@ (y :> "resources")
MCName == (t :> "t") @@ (x :> "x") @@ (y :> "x")
MCMaxDefinitions == (t :> 2) @@ (x :> 1) @@ (y :> 1)

MCNumbers == ("0" :> 0) @@ ("1" :> 1) @@ ("7" :> 7) @@ ("07" :> 7) @@ ("0x7" :> 7)
MCDecimals == {"0", "1", "7", "07"}
MCTextOf == (0 :> "0") @@ (1 :> "1") @@ (7 :> "7")
MCStructures == ("{}" :> <<"object", "empty">>) @@ ("{a,b}" :> <<"object", "ab">>)
             @@ ("[]" :> Array(<<>>)) @@ ("[7,x]" :> Array(<<Number(7), Text("x")>>))
MCPieces == ("1,yes" :> <<"1", "yes">>) @@ ("[7,x]" :> <<"[7", "x]">>) @@ ("{a,b}" :> <<"{a", "b}">>)

MCTyped == DOMAIN MCNumbers \cup DOMAIN MCStructures \cup DOMAIN MCPieces
             \cup {"", "x", "yes", "off", "true", "false", "null"}
MCValues == {Undefined, Null, Number(0), Number(1), Number(7), Boolean(TRUE), Boolean(FALSE)}
             \cup {Text(s) : s \in MCTyped}
             \cup {MCStructures[s] : s \in DOMAIN MCStructures}
             \cup {Array(<<Text("7"), Boolean(TRUE)>>), Array(<<Array(<<Number(1)>>)>>)}

\* A default a programmer gives a parameter of each type.
Fitting ==
    [type \in Kinds |->
        CASE type \in {"number", "any"} -> Number(7)
          [] type = "boolean" -> Boolean(FALSE)
          [] type = "string" -> Text("x")
          [] type = "object" -> MCStructures["{}"]
          [] type \in {"array", "number[]"} -> Array(<<Number(7)>>)
          [] type = "boolean[]" -> Array(<<Boolean(TRUE)>>)
          [] type = "string[]" -> Array(<<>>)]

\* A configuration's default is not checked against its type; a zod schema's is.
Defaults(form, type) ==
    CASE form = "shorthand" -> {Undefined}
      [] form = "zod" -> {Undefined, Fitting[type]}
      [] OTHER -> {Undefined, Fitting[type], Number(7), Text("yes")}

MCParameters ==
    {p \in [form : {"shorthand", "zod", "config"}, type : Kinds, optional : BOOLEAN,
            coerce : {"unset", "always", "never"},
            default : UNION {Defaults("config", type) : type \in Kinds}] :
        /\ p.default \in Defaults(p.form, p.type)
        /\ p.form # "config" => p.coerce = "unset"}

-----------------------------------------------------------------------------
\* Two coercions, a guess at typed texts and a schema come to what a session's
\* schema alone does, so that a tool can be tried from the program and from a shell:
\* whatever is sent, a missing argument and its default included.  Excepted are the
\* parameters that coerceArguments alone converts, and of typed texts those the
\* command line reads as something else and those a session refuses.
ASSUME CallersAgree ==
    \A p \in Parameters, coerceInputs \in BOOLEAN :
        ~CoercedByAppOnly(p, coerceInputs) =>
            /\ \A v \in Values :
                   AppArgument(p, coerceInputs, v) = SessionArgument(p, coerceInputs, v)
            /\ p.type \notin {"array", "any"} =>
                   \A typed \in {s \in Typed : Recoverable(s)} :
                       LET inSession == SessionArgument(p, coerceInputs, Text(typed))
                       IN  inSession \in {Refused, TypedArgument(p, typed)}

\* To coerce twice is to coerce once.
ASSUME CoerceOnce ==
    \A type \in Kinds, v \in Values : CoerceTo(type, CoerceTo(type, v)) = CoerceTo(type, v)
=============================================================================
