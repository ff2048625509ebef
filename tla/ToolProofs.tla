----------------------------- MODULE ToolProofs -----------------------------
(***************************************************************************)
(* What holds of the tools of any application.                             *)
(*                                                                         *)
(* InputCoercion and Registration: to coerce an argument twice is to       *)
(* coerce it once, for all values, all texts and all that Number and       *)
(* JSON.parse may make of them, which is why callTool, whose               *)
(* coerceArguments runs before schemas that coerce again, gives a handler  *)
(* what a session gives it; what the command line makes of a typed text    *)
(* loses nothing that a schema would have kept; and what a registration    *)
(* at run time reaches, for any number of items and sessions.              *)
(*                                                                         *)
(* ToolPipeline: the handler that starts once in an attempt, the results   *)
(* and the order of the cache, and the records of the calls, for any       *)
(* tools, middlewares, settings and calls.                                 *)
(***************************************************************************)
EXTENDS InputCoercion, Registration, ToolPipeline, ArrayProofs

-----------------------------------------------------------------------------
\* The coercions of single values.
LEMMA SimpleIdempotent ==
    ASSUME NEW v
    PROVE  /\ CoerceNumber(CoerceNumber(v)) = CoerceNumber(v)
           /\ CoerceBoolean(CoerceBoolean(v)) = CoerceBoolean(v)
           /\ CoerceString(CoerceString(v)) = CoerceString(v)
           /\ CoerceObject(CoerceObject(v)) = CoerceObject(v)
           /\ CoerceArray(CoerceArray(v)) = CoerceArray(v)
<1>1. CoerceNumber(CoerceNumber(v)) = CoerceNumber(v)
  BY DEF CoerceNumber, Kind, Number
<1>2. CoerceBoolean(CoerceBoolean(v)) = CoerceBoolean(v)
  BY DEF CoerceBoolean, Kind, Boolean
<1>3. CoerceString(CoerceString(v)) = CoerceString(v)
  BY DEF CoerceString, Kind, Text
<1>4. CoerceObject(CoerceObject(v)) = CoerceObject(v)
  BY DEF CoerceObject, ReadsAs, Kind
<1>5. CoerceArray(CoerceArray(v)) = CoerceArray(v)
  BY DEF CoerceArray, ReadsAs, Nullish, Kind, Array
<1>6. QED
  BY <1>1, <1>2, <1>3, <1>4, <1>5

\* An argument becomes an array, unless it is null or missing.
LEMMA ArrayOrNullish ==
    ASSUME NEW v
    PROVE  Kind(CoerceArray(v)) = "array" \/ (CoerceArray(v) = v /\ Nullish(v))
BY DEF CoerceArray, ReadsAs, Nullish, Kind, Array

\* The coercions of an array's elements.
LEMMA EachIdempotent ==
    ASSUME NEW v
    PROVE  /\ Each(CoerceNumber, CoerceArray(Each(CoerceNumber, CoerceArray(v))))
                 = Each(CoerceNumber, CoerceArray(v))
           /\ Each(CoerceBoolean, CoerceArray(Each(CoerceBoolean, CoerceArray(v))))
                 = Each(CoerceBoolean, CoerceArray(v))
           /\ Each(CoerceString, CoerceArray(Each(CoerceString, CoerceArray(v))))
                 = Each(CoerceString, CoerceArray(v))
<1> DEFINE a == CoerceArray(v)
<1>1. CASE Kind(a) = "array"
  <2>1. ASSUME NEW w
        PROVE  Kind(Array(w)) = "array" /\ Array(w)[2] = w /\ CoerceArray(Array(w)) = Array(w)
    <3>1. Kind(Array(w)) = "array"
      BY DEF Array, Kind
    <3>2. Array(w)[2] = w
      BY DEF Array
    <3>3. CoerceArray(Array(w)) = Array(w)
      BY <3>1 DEF CoerceArray, ReadsAs
    <3>4. QED
      BY <3>1, <3>2, <3>3
  <2> HIDE DEF a
  <2>2. Each(CoerceNumber, CoerceArray(Each(CoerceNumber, a))) = Each(CoerceNumber, a)
    <3> DEFINE b == [i \in DOMAIN a[2] |-> CoerceNumber(a[2][i])]
    <3>1. Each(CoerceNumber, a) = Array(b)
      BY <1>1 DEF Each
    <3>2. [i \in DOMAIN b |-> CoerceNumber(b[i])] = b
      BY SimpleIdempotent
    <3> HIDE DEF b
    <3>3. Each(CoerceNumber, Array(b)) = Array([i \in DOMAIN b |-> CoerceNumber(b[i])])
      BY <2>1 DEF Each
    <3>4. QED
      BY <2>1, <3>1, <3>2, <3>3
  <2>3. Each(CoerceBoolean, CoerceArray(Each(CoerceBoolean, a))) = Each(CoerceBoolean, a)
    <3> DEFINE b == [i \in DOMAIN a[2] |-> CoerceBoolean(a[2][i])]
    <3>1. Each(CoerceBoolean, a) = Array(b)
      BY <1>1 DEF Each
    <3>2. [i \in DOMAIN b |-> CoerceBoolean(b[i])] = b
      BY SimpleIdempotent
    <3> HIDE DEF b
    <3>3. Each(CoerceBoolean, Array(b)) = Array([i \in DOMAIN b |-> CoerceBoolean(b[i])])
      BY <2>1 DEF Each
    <3>4. QED
      BY <2>1, <3>1, <3>2, <3>3
  <2>4. Each(CoerceString, CoerceArray(Each(CoerceString, a))) = Each(CoerceString, a)
    <3> DEFINE b == [i \in DOMAIN a[2] |-> CoerceString(a[2][i])]
    <3>1. Each(CoerceString, a) = Array(b)
      BY <1>1 DEF Each
    <3>2. [i \in DOMAIN b |-> CoerceString(b[i])] = b
      BY SimpleIdempotent
    <3> HIDE DEF b
    <3>3. Each(CoerceString, Array(b)) = Array([i \in DOMAIN b |-> CoerceString(b[i])])
      BY <2>1 DEF Each
    <3>4. QED
      BY <2>1, <3>1, <3>2, <3>3
  <2>5. QED
    BY <2>2, <2>3, <2>4 DEF a
<1>2. CASE a = v /\ Nullish(v)
  BY <1>2, SimpleIdempotent DEF Each, Nullish
<1>3. QED
  BY <1>1, <1>2, ArrayOrNullish

\* smartCoerceValue: to coerce twice is to coerce once.
THEOREM CoercionIdempotent ==
    ASSUME NEW type, NEW v
    PROVE  CoerceTo(type, CoerceTo(type, v)) = CoerceTo(type, v)
BY SimpleIdempotent, EachIdempotent DEF CoerceTo

\* A missing argument stays missing, and no other becomes one.
LEMMA MissingStays ==
    ASSUME NEW type, NEW v
    PROVE  CoerceTo(type, v) = Undefined <=> v = Undefined
<1> USE DEF Undefined, Kind, Nullish, Number, Boolean, Text, Array
<1>1. CoerceNumber(v) = Undefined <=> v = Undefined
  BY DEF CoerceNumber
<1>2. CoerceBoolean(v) = Undefined <=> v = Undefined
  BY DEF CoerceBoolean
<1>3. CoerceString(v) = Undefined <=> v = Undefined
  BY DEF CoerceString
<1>4. CoerceObject(v) = Undefined <=> v = Undefined
  BY DEF CoerceObject, ReadsAs
<1>5. CoerceArray(v) = Undefined <=> v = Undefined
  BY DEF CoerceArray, ReadsAs
<1>6. /\ Each(CoerceNumber, CoerceArray(v)) = Undefined <=> v = Undefined
      /\ Each(CoerceBoolean, CoerceArray(v)) = Undefined <=> v = Undefined
      /\ Each(CoerceString, CoerceArray(v)) = Undefined <=> v = Undefined
  BY <1>5 DEF Each
<1>7. QED
  BY <1>1, <1>2, <1>3, <1>4, <1>5, <1>6 DEF CoerceTo

\* A client's session and callTool give a handler the same for every argument of
\* every parameter, but for those that coerceArguments alone converts.
THEOREM SessionAndAppAgree ==
    ASSUME NEW p \in Parameters, NEW coerceInputs \in BOOLEAN, NEW v,
           ~CoercedByAppOnly(p, coerceInputs)
    PROVE  SessionArgument(p, coerceInputs, v) = AppArgument(p, coerceInputs, v)
<1> DEFINE w == CoerceTo(p.type, v)
<1>1. CASE ~coerceInputs
  BY <1>1 DEF SessionArgument, AppArgument
<1>2. CASE coerceInputs /\ Preprocesses(p, coerceInputs)
  <2>1. CoerceTo(p.type, w) = w /\ (w = Undefined <=> v = Undefined)
    BY CoercionIdempotent, MissingStays
  <2>2. AppArgument(p, coerceInputs, v) = Parse(p, coerceInputs, w)
    BY <1>2 DEF AppArgument
  <2> HIDE DEF w
  <2>3. Parse(p, coerceInputs, w) = Parse(p, coerceInputs, v)
    BY <1>2, <2>1 DEF Parse, w
  <2>4. QED
    BY <2>2, <2>3 DEF SessionArgument
<1>3. CASE coerceInputs /\ ~Preprocesses(p, coerceInputs)
  <2>1. p.type = "any"
    BY <1>3, CoercionAssumption DEF Preprocesses, CoercedByAppOnly
  <2>2. w = v
    BY <2>1 DEF CoerceTo
  <2>3. QED
    BY <2>2 DEF AppArgument, SessionArgument
<1>4. QED
  BY <1>1, <1>2, <1>3

-----------------------------------------------------------------------------
\* A text the command line does not lose is read as a boolean, as a decimal
\* number, or as itself.
LEMMA ReadBack ==
    ASSUME NEW t, Recoverable(t)
    PROVE  \/ t \in {"true", "false"} /\ CliValue(t) = Boolean(t = "true")
           \/ t \in Decimals /\ CliValue(t) = Number(Numbers[t])
           \/ CliValue(t) = Text(t)
<1> USE CoercionAssumption DEF Kind, Text
<1>1. CASE t \in {"true", "false"}
  BY <1>1 DEF CliValue
<1>2. CASE t = "null"
  BY <1>2 DEF CliValue, Recoverable, CoerceString, Null
<1>3. CASE t \in Decimals
  BY <1>3 DEF CliValue
<1>4. CASE t \in DOMAIN Structures
  <2>1. CliValue(t) = Structures[t]
    BY <1>4 DEF CliValue
  <2>2. Kind(Structures[t]) \in {"object", "array"}
    BY <1>4
  <2>3. CoerceString(Structures[t]) = Structures[t]
    BY <2>2 DEF CoerceString
  <2>4. QED
    BY <2>1, <2>2, <2>3 DEF Recoverable
<1>5. CASE t \notin {"true", "false", "null"} \cup Decimals \cup DOMAIN Structures
  BY <1>5 DEF CliValue
<1>6. QED
  BY <1>1, <1>2, <1>3, <1>4, <1>5

\* A coercion that makes an acceptable value of a text makes the same of what the
\* command line reads the text as.
LEMMA ReadAsText ==
    ASSUME NEW t, Recoverable(t),
           NEW type \in Kinds \ {"array", "any"},
           Accepts(type, CoerceTo(type, Text(t)))
    PROVE  CoerceTo(type, CliValue(t)) = CoerceTo(type, Text(t))
<1> DEFINE v == CliValue(t)
<1> USE CoercionAssumption
<1>1. Kind(Text(t)) = "string" /\ Text(t)[2] = t
  BY DEF Kind, Text
<1>2. CASE v = Text(t)
  BY <1>2
<1>3. CASE t \in {"true", "false"} /\ v = Boolean(t = "true")
  <2>1. Kind(v) = "boolean" /\ v[2] = (t = "true")
    BY <1>3 DEF Kind, Boolean
  <2>2. t \notin DOMAIN Numbers /\ t \notin DOMAIN Structures /\ t \notin DOMAIN Pieces
    BY <1>3
  <2>3. CoerceNumber(Text(t)) = Text(t)
    BY <1>1, <2>2 DEF CoerceNumber
  <2>4. CoerceBoolean(Text(t)) = v /\ CoerceBoolean(v) = v
    BY <1>1, <1>3, <2>1 DEF CoerceBoolean
  <2>5. CoerceString(Text(t)) = Text(t) /\ CoerceString(v) = Text(t)
    BY <1>1, <1>3, <2>1 DEF CoerceString
  <2>6. CoerceObject(Text(t)) = Text(t)
    BY <1>1, <2>2 DEF CoerceObject, ReadsAs
  <2>7. CoerceArray(Text(t)) = Array(<<Text(t)>>) /\ CoerceArray(v) = Array(<<v>>)
    BY <1>1, <2>1, <2>2 DEF CoerceArray, ReadsAs, Nullish
  <2> HIDE DEF v
  <2>8. CASE type \in {"number", "object"}
    BY <1>1, <2>3, <2>6, <2>8 DEF Accepts, CoerceTo, ElementKind
  <2>9. CASE type \in {"boolean", "string"}
    BY <2>4, <2>5, <2>9 DEF CoerceTo, v
  <2>10. CASE type \in {"number[]", "boolean[]", "string[]"}
    <3>1. \A w : Kind(Array(<<w>>)) = "array" /\ Array(<<w>>)[2] = <<w>>
      BY DEF Kind, Array
    <3>2. /\ Each(CoerceBoolean, Array(<<Text(t)>>)) = Each(CoerceBoolean, Array(<<v>>))
          /\ Each(CoerceString, Array(<<Text(t)>>)) = Each(CoerceString, Array(<<v>>))
      BY <2>4, <2>5, <3>1 DEF Each
    <3>3. CASE type = "number[]"
      <4>1. CoerceTo(type, Text(t)) = Array([i \in DOMAIN <<Text(t)>> |-> CoerceNumber(<<Text(t)>>[i])])
        BY <2>7, <3>1, <3>3 DEF CoerceTo, Each
      <4>2. CoerceTo(type, Text(t))[2][1] = Text(t)
        BY <2>3, <4>1 DEF Array
      <4>3. 1 \in DOMAIN CoerceTo(type, Text(t))[2]
        BY <4>1 DEF Array
      <4>4. QED
        BY <1>1, <3>3, <4>2, <4>3 DEF Accepts, ElementKind
    <3>4. CASE type = "boolean[]"
      BY <2>7, <3>2, <3>4 DEF CoerceTo, v
    <3>5. CASE type = "string[]"
      BY <2>7, <3>2, <3>5 DEF CoerceTo, v
    <3>6. QED
      BY <2>10, <3>3, <3>4, <3>5
  <2>11. QED
    BY <2>8, <2>9, <2>10 DEF Kinds
<1>4. CASE t \in Decimals /\ v = Number(Numbers[t])
  <2>1. Kind(v) = "number" /\ v[2] = Numbers[t]
    BY <1>4 DEF Kind, Number
  <2>2. /\ t \in DOMAIN Numbers /\ t \notin DOMAIN Structures /\ t \notin DOMAIN Pieces
        /\ t \notin {"true", "false", "yes", "no", "on", "off"}
    BY <1>4
  <2>3. CoerceNumber(Text(t)) = v /\ CoerceNumber(v) = v
    BY <1>1, <1>4, <2>1, <2>2 DEF CoerceNumber
  <2>4. CoerceBoolean(Text(t)) = Text(t) \/ CoerceBoolean(Text(t)) = CoerceBoolean(v)
    <3>1. CASE t = "0"
      <4>1. v[2] = 0
        BY <2>1, <2>2, <3>1
      <4>2. CoerceBoolean(v) = Boolean(FALSE)
        <5>1. CoerceBoolean(v) = Boolean(v[2] = 1)
          BY <2>1, <4>1 DEF CoerceBoolean
        <5>2. (v[2] = 1) = FALSE
          BY <4>1
        <5>3. QED
          BY <5>1, <5>2
      <4>3. CoerceBoolean(Text(t)) = Boolean(FALSE)
        BY <1>1, <3>1 DEF CoerceBoolean
      <4>4. QED
        BY <4>2, <4>3
    <3>2. CASE t = "1"
      <4>1. v[2] = 1
        BY <2>1, <2>2, <3>2
      <4>2. CoerceBoolean(v) = Boolean(TRUE)
        BY <2>1, <4>1 DEF CoerceBoolean, Boolean
      <4>3. CoerceBoolean(Text(t)) = Boolean(TRUE)
        BY <1>1, <3>2 DEF CoerceBoolean
      <4>4. QED
        BY <4>2, <4>3
    <3>3. CASE t \notin {"0", "1"}
      BY <1>1, <2>2, <3>3 DEF CoerceBoolean
    <3>4. QED
      BY <3>1, <3>2, <3>3
  <2>5. CoerceString(Text(t)) = Text(t) /\ CoerceString(v) = Text(t)
    BY <1>1 DEF CoerceString, Recoverable
  <2>6. CoerceObject(Text(t)) = Text(t)
    BY <1>1, <2>2 DEF CoerceObject, ReadsAs
  <2>7. CoerceArray(Text(t)) = Array(<<Text(t)>>) /\ CoerceArray(v) = Array(<<v>>)
    BY <1>1, <2>1, <2>2 DEF CoerceArray, ReadsAs, Nullish
  <2> HIDE DEF v
  <2>8. CASE type = "object"
    BY <1>1, <2>6, <2>8 DEF Accepts, CoerceTo, ElementKind
  <2>9. CASE type = "boolean"
    BY <1>1, <2>4, <2>9 DEF Accepts, CoerceTo, ElementKind, v
  <2>10. CASE type \in {"number", "string"}
    BY <2>3, <2>5, <2>10 DEF CoerceTo, v
  <2>11. CASE type \in {"number[]", "boolean[]", "string[]"}
    <3>1. \A w : Kind(Array(<<w>>)) = "array" /\ Array(<<w>>)[2] = <<w>>
      BY DEF Kind, Array
    <3>2. /\ Each(CoerceNumber, Array(<<Text(t)>>)) = Each(CoerceNumber, Array(<<v>>))
          /\ Each(CoerceString, Array(<<Text(t)>>)) = Each(CoerceString, Array(<<v>>))
      BY <2>3, <2>5, <3>1 DEF Each
    <3>3. CASE type = "boolean[]"
      <4>1. CoerceTo(type, Text(t)) = Array([i \in DOMAIN <<Text(t)>> |-> CoerceBoolean(<<Text(t)>>[i])])
        BY <2>7, <3>1, <3>3 DEF CoerceTo, Each
      <4>2. CoerceTo(type, Text(t))[2][1] = CoerceBoolean(Text(t))
        BY <4>1 DEF Array
      <4>3. 1 \in DOMAIN CoerceTo(type, Text(t))[2]
        BY <4>1 DEF Array
      <4>4. CoerceBoolean(Text(t)) = CoerceBoolean(v)
        BY <1>1, <2>4, <3>3, <4>2, <4>3 DEF Accepts, ElementKind
      <4>5. Each(CoerceBoolean, Array(<<Text(t)>>)) = Each(CoerceBoolean, Array(<<v>>))
        BY <3>1, <4>4 DEF Each
      <4>6. QED
        BY <2>7, <3>3, <4>5 DEF CoerceTo, v
    <3>4. CASE type = "number[]"
      BY <2>7, <3>2, <3>4 DEF CoerceTo, v
    <3>5. CASE type = "string[]"
      BY <2>7, <3>2, <3>5 DEF CoerceTo, v
    <3>6. QED
      BY <2>11, <3>3, <3>4, <3>5
  <2>12. QED
    BY <2>8, <2>9, <2>10, <2>11 DEF Kinds
<1>5. QED
  BY <1>2, <1>3, <1>4, ReadBack

\* The command line gives a handler what a client's session gives it for the same
\* text, if the text is not lost and the parameter has a type of its own.
THEOREM CommandLineAgrees ==
    ASSUME NEW p \in Parameters, NEW coerceInputs \in BOOLEAN, NEW t,
           SessionArgument(p, coerceInputs, Text(t)) # Refused,
           Recoverable(t), p.type \notin {"array", "any"}
    PROVE  TypedArgument(p, t) = SessionArgument(p, coerceInputs, Text(t))
<1> DEFINE w == CoerceTo(p.type, Text(t))
<1>1. p.type \in Kinds \ {"array", "any"}
  BY CoercionAssumption
<1>2. Text(t) # Undefined /\ Kind(Text(t)) = "string"
  BY DEF Text, Undefined, Kind
<1>3. Accepts(p.type, w) /\ SessionArgument(p, coerceInputs, Text(t)) = w
  <2>1. CASE Preprocesses(p, coerceInputs)
    BY <1>2, <2>1 DEF SessionArgument, Parse
  <2>2. CASE ~Preprocesses(p, coerceInputs)
    <3>1. Accepts(p.type, Text(t)) /\ SessionArgument(p, coerceInputs, Text(t)) = Text(t)
      BY <1>2, <2>2 DEF SessionArgument, Parse
    <3>2. p.type = "string"
      BY <1>1, <1>2, <3>1 DEF Accepts, ElementKind, Kinds
    <3>3. w = Text(t)
      BY <1>2, <3>2 DEF CoerceTo, CoerceString
    <3>4. QED
      BY <3>1, <3>3
  <2>3. QED
    BY <2>1, <2>2
<1>4. CoerceTo(p.type, CliValue(t)) = w
  BY <1>1, <1>3, ReadAsText
<1>5. CoerceTo(p.type, w) = w /\ w # Undefined
  BY <1>2, CoercionIdempotent, MissingStays
<1>6. TypedArgument(p, t) = Parse(p, TRUE, w)
  BY <1>4 DEF TypedArgument, AppArgument
<1> HIDE DEF w
<1>7. Parse(p, TRUE, w) = w
  BY <1>3, <1>5 DEF Parse
<1>8. QED
  BY <1>3, <1>6, <1>7

-----------------------------------------------------------------------------
\* A registered item is in a session's server, or that server was on its way, or
\* has another item of its name.
Reaches(s, i) ==
    \/ copies[s][i] # 0
    \/ i \in missed[s]
    \/ \E j \in Items \ {i} : copies[s][j] # 0 /\ ListOf[j] = ListOf[i] /\ Name[j] = Name[i]

\* The map holds the open sessions; what they have of the registries was there when
\* their server was made, or was given to them since.
IInv ==
    /\ registry \in [Items -> Nat]
    /\ \A i \in Items : registry[i] <= MaxDefinitions[i]
    /\ sessions \in Seq(Sessions) /\ Injective(sessions)
    /\ phase \in [Sessions -> {"none", "starting", "open", "closed"}]
    /\ Elements(sessions) = {s \in Sessions : phase[s] = "open"}
    /\ copies \in [Sessions -> [Items -> Nat]]
    /\ missed \in [Sessions -> SUBSET Items]
    /\ \A s \in Sessions : phase[s] \in {"starting", "open"} =>
          \A i \in Registered : Reaches(s, i)

LEMMA InitIInv == Init => IInv
<1> SUFFICES ASSUME Init PROVE IInv
  OBVIOUS
<1>1. /\ sessions = <<>> /\ Elements(sessions) = {} /\ Injective(sessions)
      /\ \A s \in Sessions : phase[s] = "none"
  BY DEF Init, Elements, Injective
<1>2. QED
  BY <1>1, RegistrationAssumption, EmptySeq DEF Init, IInv, Nothing

\* Leaving is to lose one's place in the map.
LEMMA StepIInv ==
    ASSUME IInv, [Next]_vars
    PROVE  IInv'
<1> USE RegistrationAssumption
<1>1. ASSUME NEW i \in Items, Register(i)
      PROVE  IInv'
  <2> DEFINE n == registry[i] + 1
  <2>1. /\ registry' = [registry EXCEPT ![i] = n]
        /\ n \in Nat \ {0} /\ n <= MaxDefinitions[i]
    BY <1>1 DEF Register, Stored, IInv
  <2>2. /\ copies' = [s \in Sessions |-> IF s \in Reached THEN Added(s, i, n) ELSE copies[s]]
        /\ missed' = [s \in Sessions |->
               IF phase[s] = "starting" THEN missed[s] \cup {i}
               ELSE IF phase[s] = "open" THEN missed[s] \ {i} ELSE missed[s]]
        /\ UNCHANGED <<phase, sessions, answered, stream, known>>
    BY <1>1 DEF Register
  <2> HIDE DEF n
  <2>3. \A s \in Sessions : Added(s, i, n) \in [Items -> Nat]
    BY <2>1 DEF Added, IInv
  <2>4. copies' \in [Sessions -> [Items -> Nat]] /\ missed' \in [Sessions -> SUBSET Items]
    BY <2>2, <2>3 DEF IInv
  <2>5. \A s \in Sessions : s \in Reached <=> phase[s] = "open"
    BY DEF IInv, Reached, Range, Elements
  <2>6. ASSUME NEW s \in Sessions, phase[s] \in {"starting", "open"}, NEW j \in Registered'
        PROVE  Reaches(s, j)'
    <3>1. \A m \in Items : copies[s][m] # 0 => copies'[s][m] # 0
      BY <2>1, <2>2 DEF Added, IInv
    <3>2. CASE j # i
      <4>1. j \in Registered /\ j \in Items
        BY <2>1, <2>6, <3>2 DEF Registered, IInv
      <4>2. Reaches(s, j)
        BY <2>6, <4>1 DEF IInv
      <4>3. j \in missed[s] => j \in missed'[s]
        BY <2>2, <3>2
      <4>4. QED
        BY <3>1, <4>1, <4>2, <4>3 DEF Reaches
    <3>3. CASE j = i /\ phase[s] = "starting"
      BY <2>2, <3>3 DEF Reaches
    <3>4. CASE j = i /\ phase[s] = "open"
      <4>1. copies'[s] = Added(s, i, n)
        BY <2>2, <2>5, <3>4
      <4>2. CASE NameTaken(i, copies[s])
        BY <3>1, <3>4, <4>2 DEF NameTaken, Reaches
      <4>3. CASE ~NameTaken(i, copies[s])
        <5>1. copies'[s][i] = n
          BY <4>1, <4>3 DEF Added, IInv
        <5>2. QED
          BY <2>1, <3>4, <5>1 DEF Reaches
      <4>4. QED
        BY <4>2, <4>3
    <3>5. QED
      BY <2>6, <3>2, <3>3, <3>4
  <2>7. QED
    BY <2>1, <2>2, <2>4, <2>6 DEF IInv
<1>2. ASSUME NEW i \in Items, RegisterTool(i) \/ RegisterTemplate(i)
      PROVE  IInv'
  BY <1>1, <1>2 DEF RegisterTool, RegisterTemplate
<1>3. ASSUME NEW s \in Sessions, Create(s)
      PROVE  IInv'
  BY <1>3 DEF Create, IInv, Registered, Reaches
<1>4. ASSUME NEW s \in Sessions, FailToCreate(s)
      PROVE  IInv'
  BY <1>4 DEF FailToCreate, IInv, Registered, Reaches
<1>5. ASSUME NEW s \in Sessions, Open(s)
      PROVE  IInv'
  <2>1. s \notin Elements(sessions) /\ sessions \in Seq(Sessions) /\ Injective(sessions)
    BY <1>5 DEF Open, IInv
  <2>2. /\ Elements(sessions') = Elements(sessions) \cup {s}
        /\ Injective(sessions') /\ sessions' \in Seq(Sessions)
    BY <1>5, <2>1, AppendElements, AppendProperties DEF Open
  <2>3. Elements(sessions') = {u \in Sessions : phase'[u] = "open"}
    BY <1>5, <2>2 DEF Open, IInv
  <2>4. QED
    BY <1>5, <2>2, <2>3 DEF Open, IInv, Registered, Reaches
<1>6. ASSUME NEW s \in Sessions, Dropped(s)
      PROVE  /\ phase' = [phase EXCEPT ![s] = "closed"]
             /\ copies' \in [Sessions -> [Items -> Nat]] /\ missed' \in [Sessions -> SUBSET Items]
             /\ UNCHANGED registry
             /\ \A u \in Sessions : phase'[u] \in {"starting", "open"} =>
                   \A i \in Registered' : Reaches(u, i)'
  BY <1>6 DEF Dropped, IInv, Nothing, Registered, Reaches
<1>7. ASSUME NEW s \in Sessions, Reject(s)
      PROVE  IInv'
  BY <1>6, <1>7 DEF Reject, IInv
<1>8. ASSUME NEW s \in Sessions, Close(s)
      PROVE  IInv'
  <2>1. PICK n \in DOMAIN sessions : sessions[n] = s /\ sessions' = Without(sessions, n)
    BY <1>8 DEF Close
  <2>2. /\ Elements(sessions') = Elements(sessions) \ {s}
        /\ Injective(sessions') /\ sessions' \in Seq(Sessions)
    BY <2>1, WithoutElements, WithoutProperties DEF IInv
  <2>3. Dropped(s)
    BY <1>8 DEF Close
  <2>4. Elements(sessions') = {u \in Sessions : phase'[u] = "open"}
    BY <1>6, <2>2, <2>3 DEF IInv
  <2>5. QED
    BY <1>6, <2>2, <2>3, <2>4 DEF IInv
<1>9. ASSUME NEW s \in Sessions, OpenStream(s)
      PROVE  IInv'
  BY <1>9 DEF OpenStream, IInv, Registered, Reaches
<1>10. ASSUME NEW round, Tell(round)
       PROVE  IInv'
  BY <1>10 DEF Tell, IInv, Registered, Reaches
<1>11. CASE UNCHANGED vars
  BY <1>11 DEF vars, IInv, Registered, Reaches
<1>12. QED
  BY <1>2, <1>3, <1>4, <1>5, <1>7, <1>8, <1>9, <1>10, <1>11 DEF Next

LEMMA AlwaysIInv == Spec => []IInv
BY InitIInv, StepIInv, PTL DEF Spec

\* What a session's server answers for, its client, and the rounds under way.
ClientsTyped ==
    /\ answered \in [Sessions -> SUBSET Lists]
    /\ stream \in [Sessions -> BOOLEAN]
    /\ known \in [Sessions -> [Items -> Definitions]]
    /\ rounds \subseteq Rounds
    /\ \A r \in rounds : \E u \in Elements(sessions) : u \notin r.told

\* Whom a round has not told yet: it goes to one of them next.
LEMMA UntoldElements ==
    ASSUME sessions \in Seq(Sessions), NEW r
    PROVE  /\ Untold(r) \in Seq(Sessions)
           /\ Elements(Untold(r)) = Elements(sessions) \ r.told
           /\ Untold(r) # <<>> <=> \E u \in Elements(sessions) : u \notin r.told
<1>1. /\ Untold(r) \in Seq(Sessions)
      /\ Elements(Untold(r)) = Elements(sessions) \cap (Sessions \ r.told)
  BY OnlyElements DEF Untold
<1>2. Elements(sessions) \subseteq Sessions
  BY ElementOfSeq DEF Elements
<1>3. Untold(r) # <<>> <=> Elements(Untold(r)) # {}
  <2>1. CASE Untold(r) # <<>>
    <3>1. Untold(r)[1] \in Elements(Untold(r))
      BY <1>1, <2>1, EmptySeq, LenProperties DEF Elements
    <3>2. QED
      BY <2>1, <3>1
  <2>2. CASE Untold(r) = <<>>
    BY <2>2 DEF Elements
  <2>3. QED
    BY <2>1, <2>2
<1>4. QED
  BY <1>1, <1>2, <1>3

LEMMA StepClients ==
    ASSUME IInv, ClientsTyped, [Next]_vars
    PROVE  ClientsTyped'
<1> USE DEF ClientsTyped
<1>1. \A s \in Sessions : Offered(s) \in [Items -> Definitions]
  BY DEF Offered, IInv, Definitions
<1>2. ASSUME NEW i \in Items, Register(i)
      PROVE  ClientsTyped'
  <2> DEFINE r == [item |-> i, definition |-> registry[i] + 1, told |-> {}]
  <2>1. r \in Rounds
    BY DEF IInv, Rounds, Definitions
  <2>2. /\ rounds' \subseteq rounds \cup {r}
        /\ UNCHANGED <<answered, stream, known>>
    BY <1>2 DEF Register
  <2>3. rounds' = rounds \/ \E u \in Elements(sessions) : u \notin r.told
    <3>1. CASE sessions # <<>>
      <4>1. sessions[1] \in Elements(sessions)
        BY <3>1, EmptySeq, LenProperties DEF IInv, Elements
      <4>2. QED
        BY <4>1
    <3>2. QED
      BY <1>2, <3>1 DEF Register
  <2>4. sessions' = sessions
    BY <1>2 DEF Register
  <2>5. QED
    BY <2>1, <2>2, <2>3, <2>4
<1>3. ASSUME NEW i \in Items, RegisterTool(i) \/ RegisterTemplate(i)
      PROVE  ClientsTyped'
  BY <1>2, <1>3 DEF RegisterTool, RegisterTemplate
<1>4. ASSUME NEW s \in Sessions, Create(s)
      PROVE  ClientsTyped'
  <2>1. {"resources"} \cup {ListOf[i] : i \in Registered} \in SUBSET Lists
    BY RegistrationAssumption DEF RegistrationAssumption, Lists, Registered
  <2>2. QED
    BY <1>4, <2>1 DEF Create
<1>5. ASSUME NEW s \in Sessions, FailToCreate(s) \/ Open(s)
      PROVE  ClientsTyped'
  <2>1. CASE Open(s)
    <3>1. Elements(sessions') = Elements(sessions) \cup {s}
      BY <2>1, AppendElements DEF Open, IInv
    <3>2. QED
      BY <2>1, <3>1 DEF Open
  <2>2. QED
    BY <1>5, <2>1 DEF FailToCreate
<1>6. ASSUME NEW s \in Sessions, Dropped(s), rounds' \subseteq Rounds,
             \A r \in rounds' : \E u \in Elements(sessions') : u \notin r.told
      PROVE  ClientsTyped'
  BY <1>6 DEF Dropped, Nothing, Definitions
<1>7. ASSUME NEW s \in Sessions, Reject(s)
      PROVE  ClientsTyped'
  BY <1>6, <1>7 DEF Reject
<1>8. ASSUME NEW s \in Sessions, Close(s)
      PROVE  ClientsTyped'
  <2>1. \A q \in rounds : [q EXCEPT !.told = q.told \ {s}] \in Rounds
    BY DEF Rounds
  <2>2. Dropped(s) /\ rounds' \subseteq {[q EXCEPT !.told = q.told \ {s}] : q \in rounds}
    BY <1>8 DEF Close
  <2>3. PICK n \in DOMAIN sessions : sessions[n] = s /\ sessions' = Without(sessions, n)
    BY <1>8 DEF Close
  <2>4. Elements(sessions') = Range(sessions) \ {s}
    <3>1. Elements(sessions') = Elements(sessions) \ {s}
      BY <2>3, WithoutElements DEF IInv
    <3>2. Range(sessions) = Elements(sessions)
      BY DEF Range, Elements
    <3>3. QED
      BY <3>1, <3>2
  <2>5. \A r \in rounds' : \E u \in Range(sessions) \ {s} : u \notin r.told
    BY <1>8 DEF Close
  <2>6. QED
    BY <1>6, <2>1, <2>2, <2>4, <2>5
<1>9. ASSUME NEW s \in Sessions, OpenStream(s)
      PROVE  ClientsTyped'
  BY <1>1, <1>9 DEF OpenStream
<1>10. ASSUME NEW round \in rounds, Tell(round)
       PROVE  ClientsTyped'
  <2> DEFINE s == Head(Untold(round))
             next == [round EXCEPT !.told = round.told \cup {s}]
  <2>1. sessions \in Seq(Sessions)
    BY DEF IInv
  <2>2. s \in Sessions
    BY <2>1, UntoldElements, HeadTailProperties
  <2>3. /\ rounds' \subseteq rounds \cup {next}
        /\ next \in rounds' => next \in rounds \/ Untold(next) # <<>>
        /\ known' = IF stream[s] THEN [known EXCEPT ![s] = Fetched(s, ListOf[round.item])]
                                 ELSE known
        /\ UNCHANGED <<sessions, answered, stream>>
    BY <1>10 DEF Tell
  <2>4. Fetched(s, ListOf[round.item]) \in [Items -> Definitions]
    BY <1>1, <2>2 DEF Fetched
  <2>5. next \in Rounds
    BY <2>2 DEF Rounds
  <2>6. next \in rounds' => \E u \in Elements(sessions) : u \notin next.told
    BY <2>1, <2>3, UntoldElements
  <2> HIDE DEF s, next
  <2>7. QED
    BY <2>2, <2>3, <2>4, <2>5, <2>6
<1>11. CASE UNCHANGED vars
  BY <1>11 DEF vars
<1>12. QED
  BY <1>3, <1>4, <1>5, <1>7, <1>8, <1>9, <1>10, <1>11 DEF Next

\* The variables of Registration keep their types: what a client knows and what a
\* session holds are definitions, and a round announces one and goes to a session
\* that is there.
THEOREM TypeCorrect == Spec => []TypeOK
<1>1. Init => ClientsTyped
  BY DEF Init, ClientsTyped, Nothing, Definitions
<1>2. IInv /\ ClientsTyped => TypeOK
  BY DEF IInv, ClientsTyped, TypeOK, Definitions
<1>3. QED
  BY <1>1, <1>2, StepClients, AlwaysIInv, PTL DEF Spec

\* Every open session offers whatever is registered, but for what app.ts:279 cannot
\* reach, for any number of sessions that start, open and close meanwhile.
THEOREM RegistrationsReachSessions == Spec => []OffersComplete
<1>1. IInv => OffersComplete
  <2> SUFFICES ASSUME IInv, NEW s \in Range(sessions), NEW i \in Registered,
                      ListOf[i] \in answered[s]
               PROVE  \/ Offered(s)[i] # 0
                      \/ i \in missed[s]
                      \/ \E j \in Items \ {i} : copies[s][j] # 0 /\ Name[j] = Name[i]
    BY DEF OffersComplete
  <2>1. s \in Elements(sessions)
    BY DEF Range, Elements
  <2>2. Reaches(s, i)
    BY <2>1 DEF IInv
  <2>3. Offered(s)[i] = copies[s][i]
    BY DEF Offered, Registered
  <2>4. QED
    BY <2>2, <2>3 DEF Reaches
<1>2. QED
  BY <1>1, AlwaysIInv, PTL

-----------------------------------------------------------------------------
\* How the calls go through the cache, the middlewares and the records.
Stages == {"idle", "queued", "running", "waiting", "answered"}

\* What each call was made with, and the functions around its handler.
StagesOK ==
    /\ stage \in [Calls -> Stages]
    /\ call \in [Calls -> Requests \cup {NoCall}]
    /\ \A c \in Calls : stage[c] # "idle" => call[c] \in Requests
    /\ registered \in Seq(Middlewares)

\* The innermost function dispatch has come to is the handler just when that was
\* started, and no attempt is dispatched before its time.
DispatchOK ==
    /\ pipeline \in [Calls -> Seq(Middlewares)]
    /\ attempt \in [Calls -> Nat]
    /\ index \in [Calls -> [Tries -> Nat]]
    /\ handled \in [Calls -> [Tries -> Nat]]
    /\ \A c \in Calls : stage[c] \in {"idle", "queued"} => attempt[c] = 0
    /\ \A c \in Calls, n \in Tries :
          /\ n > attempt[c] => index[c][n] = 0
          /\ index[c][n] <= Len(pipeline[c]) + 1
          /\ handled[c][n] = (IF index[c][n] = Len(pipeline[c]) + 1 THEN 1 ELSE 0)

LEMMA TriesNat == Tries \subseteq Nat \ {0}
BY PipelineAssumption DEF PipelineAssumption, Tries

LEMMA ToolOfRequest ==
    ASSUME StagesOK, NEW c \in Calls, stage[c] # "idle"
    PROVE  /\ call[c] \in Requests /\ call[c].key \in Keys /\ call[c].key # None
           /\ Tool(c) = ToolOf[call[c].key] /\ Tool(c) \in Tools
<1>1. call[c] \in Requests
  BY DEF StagesOK
<1>2. call[c].key \in Keys
  BY <1>1 DEF Requests
<1>3. QED
  BY <1>1, <1>2, PipelineAssumption DEF Tool, PipelineAssumption

LEMMA ComposedSeq ==
    ASSUME StagesOK, NEW t \in Tools
    PROVE  MiddlewaresForTool(t) \in Seq(Middlewares)
<1> DEFINE S == {m \in Middlewares : t \in Filter[m]}
<1>1. Only(registered, S) \in Seq(Middlewares)
  BY OnlyElements DEF StagesOK
<1>2. Own[t] \in Seq(Middlewares)
  BY PipelineAssumption DEF PipelineAssumption
<1>3. MiddlewaresForTool(t) = Only(registered, S) \o Own[t]
  BY DEF MiddlewaresForTool
<1> HIDE DEF S
<1>4. QED
  BY <1>1, <1>2, <1>3, ConcatProperties

\* dispatch starts the next function of an attempt.
LEMMA DispatchKeeps ==
    ASSUME NEW c \in Calls, NEW n, NEW i \in Nat \ {0}, NEW p \in Seq(Middlewares),
           index \in [Calls -> [Tries -> Nat]], handled \in [Calls -> [Tries -> Nat]],
           Dispatch(c, n, i, p), i <= Len(p) + 1,
           n \in Tries => handled[c][n] = 0
    PROVE  /\ index' \in [Calls -> [Tries -> Nat]]
           /\ handled' \in [Calls -> [Tries -> Nat]]
           /\ \A d \in Calls, m \in Tries : d # c \/ m # n =>
                 index'[d][m] = index[d][m] /\ handled'[d][m] = handled[d][m]
           /\ n \in Tries =>
                 /\ index'[c][n] = i
                 /\ i = Len(p) + 1 => handled'[c][n] = 1
                 /\ i # Len(p) + 1 => handled'[c][n] = 0
<1> DEFINE one == IF i = Len(p) + 1 THEN 1 ELSE 0
<1>1. /\ one \in Nat /\ \A h \in Nat : h + one \in Nat
      /\ One(i = Len(p) + 1) = one
  BY DEF One
<1>2. /\ index' = [index EXCEPT ![c] = [index[c] EXCEPT ![n] = i]]
      /\ handled' = [handled EXCEPT ![c] = [handled[c] EXCEPT ![n] = handled[c][n] + one]]
  BY <1>1 DEF Dispatch
<1> HIDE DEF one
<1>3. /\ index[c] \in [Tries -> Nat] /\ handled[c] \in [Tries -> Nat]
      /\ [index[c] EXCEPT ![n] = i] \in [Tries -> Nat]
      /\ [handled[c] EXCEPT ![n] = handled[c][n] + one] \in [Tries -> Nat]
  BY <1>1
<1>4. n \in Tries => 0 + one = one
  BY <1>1
<1>5. QED
  BY <1>2, <1>3, <1>4 DEF one

\* A call gets its answer.
Ends(c) ==
    \/ Succeed(c) \/ ReturnFault(c) \/ ReturnSpoiled(c) \/ Fail(c)
    \/ TimeOut(c) \/ Cancel(c)

LEMMA EndsAnswers ==
    ASSUME NEW c \in Calls, Ends(c)
    PROVE  /\ stage[c] \in {"queued", "running", "waiting"}
           /\ stage' = [stage EXCEPT ![c] = "answered"]
           /\ madeAt' = [madeAt EXCEPT ![c] = now]
           /\ UNCHANGED <<now, registered, call, cleared, pipeline, attempt, index, handled,
                          servedBy>>
BY DEF Ends, Succeed, ReturnFault, ReturnSpoiled, Fail, TimeOut,
   Cancel, Abort, SettleOuter, Unsettled, Answer, flight

LEMMA StepStages ==
    ASSUME StagesOK, [PipelineNext]_(pipelineVars)
    PROVE  StagesOK'
<1> USE DEF StagesOK, Stages
<1>1. ASSUME NEW c \in Calls, NEW r \in Load[c], Invoke(c, r)
      PROVE  StagesOK'
  <2>1. r \in Requests
    BY PipelineAssumption DEF PipelineAssumption
  <2>2. /\ call' = [call EXCEPT ![c] = r] /\ registered' = registered
        /\ \/ stage' = [stage EXCEPT ![c] = "queued"]
           \/ stage' = [stage EXCEPT ![c] = "answered"]
    BY <1>1 DEF Invoke
  <2>3. QED
    BY <2>1, <2>2
<1>2. ASSUME NEW c \in Calls, Begin(c) \/ TryAgain(c)
      PROVE  StagesOK'
  <2>1. /\ stage[c] # "idle" /\ stage' = [stage EXCEPT ![c] = "running"]
        /\ UNCHANGED <<call, registered>>
    BY <1>2 DEF Begin, TryAgain
  <2>2. QED
    BY <2>1
<1>3. ASSUME NEW c \in Calls, Ends(c)
      PROVE  StagesOK'
  <2>1. /\ stage[c] # "idle" /\ stage' = [stage EXCEPT ![c] = "answered"]
        /\ UNCHANGED <<call, registered>>
    BY <1>3, EndsAnswers
  <2>2. QED
    BY <2>1
<1>4. ASSUME NEW c \in Calls, FailAttempt(c)
      PROVE  StagesOK'
  <2>1. /\ stage[c] # "idle" /\ stage' = [stage EXCEPT ![c] = "waiting"]
        /\ UNCHANGED <<call, registered>>
    BY <1>4 DEF FailAttempt, SettleOuter, Unsettled
  <2>2. QED
    BY <2>1
<1>5. ASSUME NEW c \in Calls, NEW n, NEW i, CallNext(c, n, i)
      PROVE  StagesOK'
  BY <1>5 DEF CallNext
<1>6. ASSUME NEW m \in Middlewares, Use(m)
      PROVE  StagesOK'
  BY <1>6, AppendProperties DEF Use
<1>7. ASSUME NEW tools, ClearCache(tools)
      PROVE  StagesOK'
  BY <1>7 DEF ClearCache
<1>8. CASE Tick \/ UNCHANGED pipelineVars
  BY <1>8 DEF Tick, pipelineVars
<1>9. QED
  BY <1>1, <1>2, <1>3, <1>4, <1>5, <1>6, <1>7, <1>8 DEF PipelineNext, Step, Ends

LEMMA BeginDispatch ==
    ASSUME StagesOK, DispatchOK, NEW c \in Calls, Begin(c)
    PROVE  DispatchOK'
<1> DEFINE p == MiddlewaresForTool(Tool(c))
<1>1. /\ stage[c] = "queued" /\ stage' = [stage EXCEPT ![c] = "running"]
      /\ pipeline' = [pipeline EXCEPT ![c] = p] /\ attempt' = [attempt EXCEPT ![c] = 1]
      /\ Dispatch(c, 1, 1, pipeline'[c])
  BY DEF Begin
<1>2. p \in Seq(Middlewares)
  BY <1>1, ToolOfRequest, ComposedSeq
<1> HIDE DEF p
<1>3. /\ pipeline'[c] = p /\ Len(p) \in Nat /\ attempt[c] = 0
      /\ \A n \in Tries : index[c][n] = 0 /\ handled[c][n] = 0
  <2>1. pipeline'[c] = p /\ Len(p) \in Nat /\ attempt[c] = 0 /\ Len(pipeline[c]) \in Nat
    BY <1>1, <1>2, LenProperties DEF DispatchOK
  <2>2. ASSUME NEW n \in Tries
        PROVE  index[c][n] = 0 /\ handled[c][n] = 0
    <3>1. index[c][n] = 0
      BY <2>1, TriesNat DEF DispatchOK
    <3>2. QED
      BY <2>1, <3>1 DEF DispatchOK
  <2>3. QED
    BY <2>1, <2>2
<1>4. /\ index' \in [Calls -> [Tries -> Nat]]
      /\ handled' \in [Calls -> [Tries -> Nat]]
      /\ \A d \in Calls, m \in Tries : d # c \/ m # 1 =>
            index'[d][m] = index[d][m] /\ handled'[d][m] = handled[d][m]
      /\ 1 \in Tries =>
            /\ index'[c][1] = 1
            /\ 1 = Len(p) + 1 => handled'[c][1] = 1
            /\ 1 # Len(p) + 1 => handled'[c][1] = 0
  <2>1. Dispatch(c, 1, 1, p) /\ 1 <= Len(p) + 1 /\ 1 \in Nat \ {0}
    BY <1>1, <1>3
  <2>2. /\ index \in [Calls -> [Tries -> Nat]]
        /\ handled \in [Calls -> [Tries -> Nat]]
    BY DEF DispatchOK
  <2>3. 1 \in Tries => handled[c][1] = 0
    BY <1>3
  <2>4. p \in Seq(Middlewares)
    BY <1>2
  <2>5. QED
    BY <2>1, <2>2, <2>3, <2>4, DispatchKeeps
<1>5. ASSUME NEW d \in Calls, NEW n \in Tries
      PROVE  /\ n > attempt'[d] => index'[d][n] = 0
             /\ index'[d][n] <= Len(pipeline'[d]) + 1
             /\ handled'[d][n] = (IF index'[d][n] = Len(pipeline'[d]) + 1 THEN 1 ELSE 0)
  <2>1. CASE d # c
    BY <1>1, <1>4, <2>1 DEF DispatchOK
  <2>2. CASE d = c /\ n # 1
    <3>1. index'[c][n] = 0 /\ handled'[c][n] = 0 /\ pipeline'[c] = p /\ Len(p) \in Nat
      BY <1>3, <1>4, <2>2
    <3>2. QED
      BY <2>2, <3>1
  <2>3. CASE d = c /\ n = 1
    <3>1. /\ index'[c][1] = 1 /\ handled'[c][1] = (IF 1 = Len(p) + 1 THEN 1 ELSE 0) /\ pipeline'[c] = p
          /\ Len(p) \in Nat /\ attempt'[c] = 1
      BY <1>1, <1>3, <1>4, <2>3 DEF DispatchOK
    <3>2. QED
      BY <2>3, <3>1
  <2>4. QED
    BY <2>1, <2>2, <2>3
<1>6. \A d \in Calls : stage'[d] \in {"idle", "queued"} => attempt'[d] = 0
  BY <1>1 DEF DispatchOK, StagesOK
<1>7. QED
  BY <1>1, <1>2, <1>4, <1>5, <1>6 DEF DispatchOK

LEMMA AgainDispatch ==
    ASSUME StagesOK, DispatchOK, NEW c \in Calls, TryAgain(c)
    PROVE  DispatchOK'
<1> DEFINE p == pipeline[c]
           a == attempt[c] + 1
<1>1. /\ stage[c] = "waiting" /\ stage' = [stage EXCEPT ![c] = "running"]
      /\ pipeline' = pipeline /\ attempt' = [attempt EXCEPT ![c] = a]
      /\ Dispatch(c, attempt'[c], 1, p)
  BY DEF TryAgain
<1>2. /\ p \in Seq(Middlewares) /\ Len(p) \in Nat
      /\ attempt[c] \in Nat /\ a \in Nat /\ a > attempt[c] /\ attempt'[c] = a
  BY <1>1, LenProperties DEF DispatchOK
<1> HIDE DEF p, a
<1>3. ASSUME a \in Tries PROVE index[c][a] = 0 /\ handled[c][a] = 0
  <2>1. index[c][a] = 0
    BY <1>2, <1>3 DEF DispatchOK
  <2>2. QED
    BY <1>2, <1>3, <2>1 DEF DispatchOK, p
<1>4. /\ index' \in [Calls -> [Tries -> Nat]]
      /\ handled' \in [Calls -> [Tries -> Nat]]
      /\ \A d \in Calls, m \in Tries : d # c \/ m # a =>
            index'[d][m] = index[d][m] /\ handled'[d][m] = handled[d][m]
      /\ a \in Tries =>
            /\ index'[c][a] = 1
            /\ 1 = Len(p) + 1 => handled'[c][a] = 1
            /\ 1 # Len(p) + 1 => handled'[c][a] = 0
  <2>1. Dispatch(c, a, 1, p) /\ 1 <= Len(p) + 1 /\ 1 \in Nat \ {0}
    BY <1>1, <1>2
  <2>2. /\ index \in [Calls -> [Tries -> Nat]]
        /\ handled \in [Calls -> [Tries -> Nat]]
    BY DEF DispatchOK
  <2>3. a \in Tries => handled[c][a] = 0
    BY <1>3
  <2>4. p \in Seq(Middlewares)
    BY <1>2
  <2>5. QED
    BY <2>1, <2>2, <2>3, <2>4, DispatchKeeps
<1>5. ASSUME NEW d \in Calls, NEW n \in Tries
      PROVE  /\ n > attempt'[d] => index'[d][n] = 0
             /\ index'[d][n] <= Len(pipeline'[d]) + 1
             /\ handled'[d][n] = (IF index'[d][n] = Len(pipeline'[d]) + 1 THEN 1 ELSE 0)
  <2>1. CASE d # c
    BY <1>1, <1>4, <2>1 DEF DispatchOK
  <2>2. CASE d = c /\ n # a
    <3>1. /\ index'[c][n] = index[c][n] /\ handled'[c][n] = handled[c][n]
          /\ pipeline'[c] = pipeline[c]
      BY <1>1, <1>4, <2>2
    <3>2. n \in Nat /\ (n > a => n > attempt[c])
      BY <1>2, TriesNat
    <3>3. QED
      BY <1>2, <2>2, <3>1, <3>2 DEF DispatchOK
  <2>3. CASE d = c /\ n = a
    <3>1. /\ index'[c][a] = 1 /\ handled'[c][a] = (IF 1 = Len(p) + 1 THEN 1 ELSE 0) /\ pipeline'[c] = p
          /\ ~(a > a)
      BY <1>1, <1>2, <1>4, <2>3 DEF p
    <3>2. QED
      BY <1>2, <2>3, <3>1
  <2>4. QED
    BY <2>1, <2>2, <2>3
<1>6. \A d \in Calls : stage'[d] \in {"idle", "queued"} => attempt'[d] = 0
  BY <1>1 DEF DispatchOK, StagesOK
<1>7. QED
  BY <1>1, <1>2, <1>4, <1>5, <1>6 DEF DispatchOK

LEMMA NextDispatch ==
    ASSUME StagesOK, DispatchOK, NEW c \in Calls, NEW n \in Tries,
           NEW i \in 1 .. index[c][n], CallNext(c, n, i)
    PROVE  DispatchOK'
<1> DEFINE p == pipeline[c]
<1>1. /\ i \in DOMAIN p /\ i + 1 > index[c][n] /\ Dispatch(c, n, i + 1, p)
      /\ UNCHANGED <<stage, pipeline, attempt>>
  BY DEF CallNext, NotYet
<1>2. /\ p \in Seq(Middlewares) /\ Len(p) \in Nat /\ DOMAIN p = 1 .. Len(p)
      /\ index[c][n] \in Nat /\ n \in Nat /\ attempt[c] \in Nat
  BY LenProperties, TriesNat DEF DispatchOK
<1>3. /\ i \in Nat /\ i = index[c][n] /\ i + 1 \in Nat \ {0} /\ i + 1 <= Len(p) + 1
      /\ i # Len(p) + 1
  BY <1>1, <1>2
<1>4. handled[c][n] = 0
  <2>1. handled[c][n] = (IF index[c][n] = Len(p) + 1 THEN 1 ELSE 0)
    BY DEF DispatchOK
  <2>2. QED
    BY <1>3, <2>1
<1> HIDE DEF p
<1>5. /\ index' \in [Calls -> [Tries -> Nat]]
      /\ handled' \in [Calls -> [Tries -> Nat]]
      /\ \A d \in Calls, m \in Tries : d # c \/ m # n =>
            index'[d][m] = index[d][m] /\ handled'[d][m] = handled[d][m]
      /\ index'[c][n] = i + 1
      /\ i + 1 = Len(p) + 1 => handled'[c][n] = 1
      /\ i + 1 # Len(p) + 1 => handled'[c][n] = 0
  <2>1. /\ index \in [Calls -> [Tries -> Nat]]
        /\ handled \in [Calls -> [Tries -> Nat]]
    BY DEF DispatchOK
  <2>2. PICK j \in Nat \ {0} : j = i + 1
    BY <1>3
  <2>3. Dispatch(c, n, j, p) /\ j <= Len(p) + 1 /\ (n \in Tries => handled[c][n] = 0)
    BY <1>1, <1>3, <1>4, <2>2
  <2>4. /\ index' \in [Calls -> [Tries -> Nat]]
        /\ handled' \in [Calls -> [Tries -> Nat]]
        /\ \A d \in Calls, m \in Tries : d # c \/ m # n =>
              index'[d][m] = index[d][m] /\ handled'[d][m] = handled[d][m]
        /\ n \in Tries =>
              /\ index'[c][n] = j
              /\ j = Len(p) + 1 => handled'[c][n] = 1
              /\ j # Len(p) + 1 => handled'[c][n] = 0
    BY <1>2, <2>1, <2>3, DispatchKeeps
  <2>5. QED
    BY <2>2, <2>4
<1>6. ASSUME NEW d \in Calls, NEW m \in Tries
      PROVE  /\ m > attempt'[d] => index'[d][m] = 0
             /\ index'[d][m] <= Len(pipeline'[d]) + 1
             /\ handled'[d][m] = (IF index'[d][m] = Len(pipeline'[d]) + 1 THEN 1 ELSE 0)
  <2>1. CASE d # c \/ m # n
    <3>1. index'[d][m] = index[d][m] /\ handled'[d][m] = handled[d][m]
      BY <1>5, <2>1
    <3>2. attempt' = attempt /\ pipeline' = pipeline
      BY <1>1
    <3>3. QED
      BY <3>1, <3>2 DEF DispatchOK
  <2>2. CASE d = c /\ m = n
    <3>1. ~(n > attempt[c])
      <4>1. index[c][n] # 0
        BY <1>2, <1>3
      <4>2. QED
        BY <4>1 DEF DispatchOK
    <3>2. QED
      BY <1>1, <1>3, <1>5, <2>2, <3>1 DEF p
  <2>3. QED
    BY <2>1, <2>2
<1>7. QED
  BY <1>1, <1>5, <1>6 DEF DispatchOK

LEMMA StepDispatch ==
    ASSUME StagesOK, DispatchOK, [PipelineNext]_(pipelineVars)
    PROVE  DispatchOK'
<1>1. ASSUME UNCHANGED flight,
             \A c \in Calls : stage'[c] \in {"idle", "queued"} => stage[c] \in {"idle", "queued"}
      PROVE  DispatchOK'
  BY <1>1 DEF DispatchOK, flight
<1>2. ASSUME NEW c \in Calls, NEW r \in Load[c], Invoke(c, r)
      PROVE  DispatchOK'
  <2>1. /\ UNCHANGED flight /\ stage[c] = "idle"
        /\ \/ stage' = [stage EXCEPT ![c] = "queued"]
           \/ stage' = [stage EXCEPT ![c] = "answered"]
    BY <1>2 DEF Invoke
  <2>2. QED
    BY <1>1, <2>1 DEF StagesOK
<1>3. ASSUME NEW c \in Calls, Ends(c) \/ FailAttempt(c)
      PROVE  DispatchOK'
  <2>1. /\ UNCHANGED flight
        /\ \/ stage' = [stage EXCEPT ![c] = "waiting"]
           \/ stage' = [stage EXCEPT ![c] = "answered"]
    BY <1>3, EndsAnswers DEF FailAttempt, SettleOuter, flight
  <2>2. QED
    BY <1>1, <2>1 DEF StagesOK
<1>4. ASSUME NEW tools, ClearCache(tools)
      PROVE  DispatchOK'
  BY <1>1, <1>4 DEF ClearCache
<1>5. ASSUME NEW m, Use(m)
      PROVE  DispatchOK'
  BY <1>1, <1>5 DEF Use
<1>6. CASE Tick \/ UNCHANGED pipelineVars
  BY <1>1, <1>6 DEF Tick, pipelineVars, flight
<1>7. QED
  BY <1>2, <1>3, <1>4, <1>5, <1>6, BeginDispatch, AgainDispatch, NextDispatch
     DEF PipelineNext, Step, Ends

LEMMA InitPipe ==
    ASSUME PipelineInit
    PROVE  StagesOK /\ DispatchOK
<1>1. StagesOK
  BY EmptySeq DEF PipelineInit, StagesOK, Stages
<1>2. ASSUME NEW c \in Calls, NEW n \in Tries
      PROVE  handled[c][n] = (IF index[c][n] = Len(pipeline[c]) + 1 THEN 1 ELSE 0)
  BY EmptySeq DEF PipelineInit
<1>3. DispatchOK
  BY <1>2, EmptySeq DEF PipelineInit, DispatchOK
<1>4. QED
  BY <1>1, <1>3

\* However often and however late middlewares call next(), an attempt starts the
\* handler of its call once.
THEOREM HandlersRunOnce == PipelineSpec => []HandlerOncePerAttempt
<1>1. StagesOK /\ DispatchOK => HandlerOncePerAttempt
  BY DEF DispatchOK, HandlerOncePerAttempt
<1>2. QED
  BY <1>1, InitPipe, StepStages, StepDispatch, PTL DEF PipelineSpec

CacheEntry == [key : Keys, by : Calls, expires : Nat]

\* Every entry of the cache holds the result of a call that succeeded and that no
\* clear has covered since, until the time to live is over.
CacheOK ==
    /\ now \in Nat
    /\ madeAt \in [Calls -> Nat]
    /\ outcome \in [Calls -> {"none", "hit", "good", "faulty", "spoiled", "failed"}]
    /\ servedBy \in [Calls -> Calls]
    /\ \A c \in cleared : c \in Calls /\ stage[c] = "answered"
    /\ entries \in Seq(CacheEntry)
    /\ \A e \in Elements(entries) :
          /\ stage[e.by] = "answered" /\ outcome[e.by] = "good" /\ call[e.by].key = e.key
          /\ e.expires = madeAt[e.by] + Ttl[ToolOf[e.key]]
          /\ e.by \notin cleared

\* What a lookup, an entry that is set and a clear leave in the cache.
LEMMA GetKeeps ==
    ASSUME NEW k, entries \in Seq(CacheEntry)
    PROVE  /\ Get(entries, k) \in Seq(CacheEntry)
           /\ Elements(Get(entries, k)) \subseteq Elements(entries)
<1> DEFINE A == Elements(entries) \ EntriesOf(entries, k)
           B == {e \in EntriesOf(entries, k) : ~Expired(e)}
<1>1. Get(entries, k) = Only(entries, A) \o Only(entries, B)
  BY DEF Get, Others
<1> HIDE DEF A, B
<1>2. /\ Only(entries, A) \in Seq(CacheEntry) /\ Elements(Only(entries, A)) \subseteq Elements(entries)
      /\ Only(entries, B) \in Seq(CacheEntry) /\ Elements(Only(entries, B)) \subseteq Elements(entries)
  BY OnlyElements
<1>3. QED
  BY <1>1, <1>2, ConcatElements, ConcatProperties

LEMMA EvictKeeps ==
    ASSUME NEW S, NEW s \in Seq(S), NEW max \in Nat
    PROVE  \E n \in 0 .. Len(s) :
              /\ Len(Evict(s, max)) = Len(s) - n /\ Evict(s, max) \in Seq(S)
              /\ \A i \in 1 .. (Len(s) - n) : Evict(s, max)[i] = s[n + i]
              /\ Len(s) - n = 0 \/ Len(s) - n < max
<1> DEFINE n == Len(s) - max + 1
<1>1. Len(s) \in Nat /\ n \in Int
  BY LenProperties
<1>2. CASE n <= 0
  <2>1. Evict(s, max) = s
    BY <1>2 DEF Evict
  <2>2. /\ 0 \in 0 .. Len(s) /\ Len(s) - 0 = Len(s) /\ Len(s) < max
        /\ \A i \in 1 .. Len(s) : 0 + i = i
    BY <1>1, <1>2
  <2>3. QED
    BY <2>1, <2>2
<1>3. CASE n > 0 /\ n >= Len(s)
  <2>1. Evict(s, max) = <<>>
    BY <1>1, <1>3 DEF Evict
  <2>2. /\ Len(s) \in 0 .. Len(s) /\ Len(s) - Len(s) = 0 /\ 1 .. (Len(s) - Len(s)) = {}
    BY <1>1
  <2>3. QED
    BY <2>1, <2>2, EmptySeq
<1>4. CASE n > 0 /\ n < Len(s)
  <2>1. Evict(s, max) = SubSeq(s, n + 1, Len(s))
    BY <1>1, <1>4 DEF Evict
  <2>2. /\ n \in 0 .. Len(s) /\ Len(s) - (n + 1) + 1 = Len(s) - n /\ Len(s) - n < max
        /\ n + 1 <= Len(s) /\ n + 1 \in 1 .. Len(s)
        /\ \A i \in 1 .. (Len(s) - n) : (n + 1) + i - 1 = n + i
    BY <1>1, <1>4
  <2> HIDE DEF n
  <2>3. /\ SubSeq(s, n + 1, Len(s)) \in Seq(S) /\ Len(SubSeq(s, n + 1, Len(s))) = Len(s) - n
        /\ \A i \in 1 .. (Len(s) - n) : SubSeq(s, n + 1, Len(s))[i] = s[n + i]
    BY <1>1, <2>2, SubSeqProperties
  <2>4. QED
    BY <2>1, <2>2, <2>3
<1>5. QED
  BY <1>1, <1>2, <1>3, <1>4

\* The entry that a call sets.
EntryOf(k, c) == [key |-> k, by |-> c, expires |-> now + Ttl[ToolOf[k]]]

LEMMA PutKeeps ==
    ASSUME NEW k \in Keys, NEW c \in Calls, entries \in Seq(CacheEntry),
           now \in Nat
    PROVE  /\ EntryOf(k, c) \in CacheEntry
           /\ Put(entries, k, c) \in Seq(CacheEntry)
           /\ Elements(Put(entries, k, c)) \subseteq Elements(entries) \cup {EntryOf(k, c)}
<1> DEFINE rest == Others(entries, k)
           max == MaxSize[ToolOf[k]]
           left == Evict(rest, max)
<1>1. max \in Nat /\ Ttl[ToolOf[k]] \in Nat
  BY PipelineAssumption DEF PipelineAssumption
<1>2. rest \in Seq(CacheEntry) /\ Elements(rest) \subseteq Elements(entries)
  BY OnlyElements DEF Others
<1>3. Put(entries, k, c) = Append(left, EntryOf(k, c))
  BY DEF Put, EntryOf
<1> HIDE DEF rest, max
<1>4. PICK n \in 0 .. Len(rest) :
         /\ Len(left) = Len(rest) - n /\ left \in Seq(CacheEntry)
         /\ \A i \in 1 .. (Len(rest) - n) : left[i] = rest[n + i]
         /\ Len(rest) - n = 0 \/ Len(rest) - n < max
  BY <1>1, <1>2, EvictKeeps
<1> HIDE DEF left
<1>5. Elements(left) \subseteq Elements(rest)
  <2>1. /\ Len(rest) \in Nat /\ DOMAIN rest = 1 .. Len(rest)
        /\ DOMAIN left = 1 .. (Len(rest) - n)
    BY <1>2, <1>4, LenProperties
  <2>2. \A i \in DOMAIN left : left[i] = rest[n + i] /\ n + i \in DOMAIN rest
    BY <1>4, <2>1
  <2>3. QED
    BY <2>2 DEF Elements
<1>6. EntryOf(k, c) \in CacheEntry
  BY <1>1 DEF EntryOf, CacheEntry
<1>7. QED
  BY <1>2, <1>3, <1>4, <1>5, <1>6, AppendElements, AppendProperties

LEMMA CacheAdds ==
    ASSUME StagesOK, CacheOK, NEW c \in Calls, Ends(c)
    PROVE  CacheOK'
<1>1. /\ stage[c] \in {"queued", "running", "waiting"}
      /\ stage' = [stage EXCEPT ![c] = "answered"] /\ madeAt' = [madeAt EXCEPT ![c] = now]
      /\ UNCHANGED <<now, call, cleared, servedBy>>
  BY EndsAnswers
<1>2. \A d \in Calls : stage[d] = "answered" => d # c /\ stage'[d] = "answered" /\ madeAt'[d] = madeAt[d]
  BY <1>1 DEF StagesOK, CacheOK
<1>3. \E what \in {"good", "faulty", "spoiled", "failed"} :
         /\ outcome' = [outcome EXCEPT ![c] = what]
         /\ \/ entries' = entries
            \/ what = "good" /\ entries' = Put(entries, call[c].key, c)
  BY DEF Ends, Succeed, ReturnFault, ReturnSpoiled, Fail, TimeOut,
     Cancel, Abort, Answer
<1>4. call[c].key \in Keys /\ c \notin cleared /\ madeAt'[c] = now
  BY <1>1, ToolOfRequest DEF CacheOK
<1>5. /\ now' \in Nat /\ madeAt' \in [Calls -> Nat] /\ servedBy' \in [Calls -> Calls]
      /\ outcome' \in [Calls -> {"none", "hit", "good", "faulty", "spoiled", "failed"}]
      /\ \A d \in cleared' : d \in Calls /\ stage'[d] = "answered"
  BY <1>1, <1>2, <1>3 DEF CacheOK
<1>6. ASSUME NEW e \in Elements(entries)
      PROVE  /\ stage'[e.by] = "answered" /\ outcome'[e.by] = "good" /\ call'[e.by].key = e.key
             /\ e.expires = madeAt'[e.by] + Ttl[ToolOf[e.key]]
             /\ e.by \notin cleared'
  <2>1. e \in CacheEntry /\ e.by \in Calls
    <3>1. e \in CacheEntry
      BY DEF CacheOK, Elements
    <3>2. QED
      BY <3>1 DEF CacheEntry
  <2>2. /\ stage[e.by] = "answered" /\ outcome[e.by] = "good" /\ call[e.by].key = e.key
        /\ e.expires = madeAt[e.by] + Ttl[ToolOf[e.key]] /\ e.by \notin cleared
    BY DEF CacheOK
  <2>3. outcome'[e.by] = outcome[e.by]
    BY <1>2, <1>3, <2>1, <2>2 DEF CacheOK
  <2>4. QED
    BY <1>1, <1>2, <2>1, <2>2, <2>3
<1>7. CASE entries' = entries
  BY <1>5, <1>6, <1>7 DEF CacheOK
<1>8. CASE outcome'[c] = "good" /\ entries' = Put(entries, call[c].key, c)
  <2> DEFINE x == EntryOf(call[c].key, c)
  <2>1. /\ x.by = c /\ x.key = call[c].key
        /\ x.expires = now + Ttl[ToolOf[call[c].key]]
    BY DEF EntryOf
  <2>2. entries' \in Seq(CacheEntry) /\ Elements(entries') \subseteq Elements(entries) \cup {x}
    BY <1>4, <1>8, PutKeeps DEF CacheOK
  <2>3. stage'[c] = "answered"
    BY <1>1 DEF StagesOK
  <2> HIDE DEF x
  <2>4. /\ stage'[x.by] = "answered" /\ outcome'[x.by] = "good" /\ call'[x.by].key = x.key
        /\ x.expires = madeAt'[x.by] + Ttl[ToolOf[x.key]]
        /\ x.by \notin cleared'
    BY <1>1, <1>4, <1>8, <2>1, <2>3
  <2>5. ASSUME NEW e \in Elements(entries)'
        PROVE  /\ stage'[e.by] = "answered" /\ outcome'[e.by] = "good" /\ call'[e.by].key = e.key
               /\ e.expires = madeAt'[e.by] + Ttl[ToolOf[e.key]]
               /\ e.by \notin cleared'
    BY <1>6, <2>2, <2>4
  <2>6. QED
    BY <1>5, <2>2, <2>5 DEF CacheOK
<1>9. QED
  BY <1>3, <1>7, <1>8 DEF CacheOK

LEMMA CacheHits ==
    ASSUME StagesOK, CacheOK, NEW c \in Calls, NEW r \in Load[c],
           Invoke(c, r)
    PROVE  /\ CacheOK'
           /\ stage'[c] = "answered" =>
                 LET d == servedBy'[c]
                 IN  /\ d # c /\ outcome[d] = "good" /\ call[d].key = call'[c].key
                     /\ now - madeAt[d] <= Ttl[Tool(d)]
                     /\ d \notin cleared
<1> DEFINE k == r.key
           found == IF r.bypass THEN {}
                    ELSE {e \in EntriesOf(entries, k) : ~Expired(e)}
<1>1. r \in Requests /\ k \in Keys
  BY PipelineAssumption DEF PipelineAssumption, Requests
<1>2. /\ stage[c] = "idle" /\ call' = [call EXCEPT ![c] = r]
      /\ UNCHANGED <<now, cleared, madeAt>>
      /\ entries' = IF r.bypass THEN entries ELSE Get(entries, k)
      /\ \/ stage' = [stage EXCEPT ![c] = "queued"] /\ UNCHANGED <<outcome, servedBy>>
         \/ \E e \in found :
               /\ stage' = [stage EXCEPT ![c] = "answered"]
               /\ outcome' = [outcome EXCEPT ![c] = "hit"]
               /\ servedBy' = [servedBy EXCEPT ![c] = e.by]
  BY DEF Invoke, ghosts
<1>3. entries' \in Seq(CacheEntry) /\ Elements(entries)' \subseteq Elements(entries)
  BY <1>2, GetKeeps DEF CacheOK
<1>4. found \subseteq Elements(entries) /\ \A e \in found : ~Expired(e) /\ e.key = k
  BY DEF EntriesOf
<1> HIDE DEF k, found
<1>5. ASSUME NEW e \in Elements(entries)
      PROVE  /\ e \in CacheEntry /\ e.by \in Calls /\ e.expires \in Nat /\ e.key \in Keys
             /\ e.by # c /\ e.by \notin cleared
             /\ stage[e.by] = "answered" /\ outcome[e.by] = "good" /\ call[e.by].key = e.key
             /\ e.expires = madeAt[e.by] + Ttl[ToolOf[e.key]]
  <2>1. e \in CacheEntry
    BY DEF CacheOK, Elements
  <2>2. QED
    BY <1>2, <2>1 DEF CacheOK, CacheEntry
<1>6. \A d \in Calls : d # c =>
         stage'[d] = stage[d] /\ outcome'[d] = outcome[d] /\ call'[d] = call[d]
  BY <1>2 DEF StagesOK, CacheOK
<1>7. /\ servedBy' \in [Calls -> Calls]
      /\ outcome' \in [Calls -> {"none", "hit", "good", "faulty", "spoiled", "failed"}]
  <2>1. CASE UNCHANGED <<outcome, servedBy>>
    BY <2>1 DEF CacheOK
  <2>2. ASSUME NEW e \in found, outcome' = [outcome EXCEPT ![c] = "hit"],
               servedBy' = [servedBy EXCEPT ![c] = e.by]
        PROVE  /\ servedBy' \in [Calls -> Calls]
               /\ outcome' \in [Calls -> {"none", "hit", "good", "faulty", "spoiled", "failed"}]
    <3>1. e.by \in Calls
      BY <1>4, <1>5
    <3>2. QED
      BY <2>2, <3>1 DEF CacheOK
  <2>3. QED
    BY <1>2, <2>1, <2>2
<1>8. CacheOK'
  <2>1. \A d \in cleared' : d \in Calls /\ stage'[d] = "answered"
    BY <1>2, <1>6 DEF CacheOK
  <2>2. ASSUME NEW e \in Elements(entries)'
        PROVE  /\ stage'[e.by] = "answered" /\ outcome'[e.by] = "good"
               /\ call'[e.by].key = e.key
               /\ e.expires = madeAt'[e.by] + Ttl[ToolOf[e.key]]
               /\ e.by \notin cleared'
    BY <1>2, <1>3, <1>5, <1>6
  <2>3. QED
    BY <1>2, <1>3, <1>7, <2>1, <2>2 DEF CacheOK
<1>9. ASSUME stage'[c] = "answered"
      PROVE  LET d == servedBy'[c]
             IN  /\ d # c /\ outcome[d] = "good" /\ call[d].key = call'[c].key
                 /\ now - madeAt[d] <= Ttl[Tool(d)]
                 /\ d \notin cleared
  <2>1. PICK e \in found : servedBy' = [servedBy EXCEPT ![c] = e.by]
    BY <1>2, <1>9 DEF StagesOK
  <2>2. servedBy'[c] = e.by /\ call'[c].key = k /\ e.key = k /\ e \in Elements(entries)
    BY <1>2, <1>4, <2>1 DEF StagesOK, CacheOK, k
  <2>3. Tool(e.by) = ToolOf[e.key]
    BY <1>5, <2>2, ToolOfRequest
  <2>4. now <= e.expires
    BY <1>4, <1>5, <2>2 DEF Expired, CacheOK
  <2>5. now - madeAt[e.by] <= Ttl[ToolOf[e.key]]
    <3>1. now \in Nat /\ madeAt[e.by] \in Nat /\ Ttl[ToolOf[e.key]] \in Nat
      BY <1>5, <2>2, PipelineAssumption DEF CacheOK, PipelineAssumption
    <3>2. QED
      BY <1>5, <2>2, <2>4, <3>1
  <2>6. QED
    BY <1>5, <2>2, <2>3, <2>5
<1>10. QED
  BY <1>8, <1>9

LEMMA StepCache ==
    ASSUME StagesOK, CacheOK, [PipelineNext]_(pipelineVars)
    PROVE  CacheOK'
<1>1. ASSUME UNCHANGED <<now, call, outcome, madeAt, servedBy, cleared, entries>>,
             \A c \in Calls : stage[c] = "answered" => stage'[c] = "answered"
      PROVE  CacheOK'
  <2>1. ASSUME NEW e \in Elements(entries)
        PROVE  e.by \in Calls /\ stage'[e.by] = "answered"
    <3>1. e \in CacheEntry
      BY DEF CacheOK, Elements
    <3>2. e.by \in Calls
      BY <3>1 DEF CacheEntry
    <3>3. QED
      BY <1>1, <3>2 DEF CacheOK
  <2>2. QED
    BY <1>1, <2>1 DEF CacheOK
<1>2. ASSUME NEW c \in Calls, Begin(c) \/ TryAgain(c) \/ FailAttempt(c)
      PROVE  CacheOK'
  <2>1. /\ UNCHANGED <<now, call, outcome, madeAt, servedBy, cleared, entries>>
        /\ stage[c] # "answered" /\ \E x \in Stages : stage' = [stage EXCEPT ![c] = x]
    BY <1>2 DEF Begin, TryAgain, FailAttempt, SettleOuter, Unsettled,
       ghosts, Stages
  <2>2. QED
    BY <1>1, <2>1 DEF StagesOK
<1>3. ASSUME NEW c, NEW n, NEW i, CallNext(c, n, i)
      PROVE  CacheOK'
  BY <1>1, <1>3 DEF CallNext, ghosts
<1>4. ASSUME NEW m, Use(m)
      PROVE  CacheOK'
  BY <1>1, <1>4 DEF Use, ghosts
<1>5. ASSUME NEW tools, ClearCache(tools)
      PROVE  CacheOK'
  <2> DEFINE R == {e \in Elements(entries) : ToolOf[e.key] \notin tools}
  <2>1. /\ entries' = Only(entries, R)
        /\ cleared' = cleared \cup {c \in Calls : stage[c] = "answered" /\ Tool(c) \in tools}
        /\ UNCHANGED <<now, stage, call, outcome, madeAt, servedBy>>
    BY <1>5 DEF ClearCache, Clear, ghosts
  <2>2. \A e \in R : e \in Elements(entries) /\ ToolOf[e.key] \notin tools
    OBVIOUS
  <2> HIDE DEF R
  <2>3. entries' \in Seq(CacheEntry) /\ Elements(entries)' \subseteq R
    BY <2>1, OnlyElements DEF CacheOK
  <2>4. ASSUME NEW e \in R
        PROVE  /\ stage[e.by] = "answered" /\ outcome[e.by] = "good" /\ call[e.by].key = e.key
               /\ e.expires = madeAt[e.by] + Ttl[ToolOf[e.key]]
               /\ e.by \notin cleared'
    <3>1. e \in CacheEntry
      BY <2>2 DEF CacheOK, Elements
    <3>2. e.by \in Calls /\ stage[e.by] = "answered" /\ call[e.by].key = e.key
      BY <2>2, <3>1 DEF CacheOK, CacheEntry
    <3>3. Tool(e.by) \notin tools
      BY <2>2, <3>2, ToolOfRequest
    <3>4. QED
      BY <2>1, <2>2, <3>3 DEF CacheOK
  <2>5. QED
    BY <2>1, <2>3, <2>4 DEF CacheOK
<1>6. CASE Tick
  <2>1. /\ now' = now + 1 /\ UNCHANGED <<stage, call, outcome, madeAt, servedBy, cleared, entries>>
    BY <1>6 DEF Tick, ghosts
  <2>2. QED
    BY <2>1 DEF CacheOK
<1>7. CASE UNCHANGED pipelineVars
  BY <1>1, <1>7 DEF pipelineVars
<1>8. QED
  BY <1>2, <1>3, <1>4, <1>5, <1>6, <1>7, CacheAdds, CacheHits DEF PipelineNext, Step, Ends

\* The clock, and the times that results were put together at.
ClockOK == now \in 0 .. MaxTime /\ madeAt \in [Calls -> 0 .. MaxTime]

LEMMA StepClock ==
    ASSUME ClockOK, [PipelineNext]_pipelineVars
    PROVE  ClockOK'
<1> USE DEF ClockOK
<1>1. ASSUME NEW c \in Calls, Ends(c)
      PROVE  ClockOK'
  BY <1>1, EndsAnswers
<1>2. CASE Tick
  BY <1>2, PipelineAssumption DEF Tick, ghosts, PipelineAssumption
<1>3. ASSUME UNCHANGED <<now, madeAt>>
      PROVE  ClockOK'
  BY <1>3
<1>4. ASSUME NEW c, \/ \E r : Invoke(c, r)
                    \/ Begin(c) \/ TryAgain(c) \/ FailAttempt(c)
                    \/ \E n, i : CallNext(c, n, i)
      PROVE  UNCHANGED <<now, madeAt>>
  BY <1>4 DEF Invoke, Begin, TryAgain, FailAttempt, SettleOuter, CallNext, ghosts
<1>5. ASSUME \/ \E tools : ClearCache(tools)
             \/ \E m : Use(m)
             \/ UNCHANGED pipelineVars
      PROVE  UNCHANGED <<now, madeAt>>
  BY <1>5 DEF ClearCache, Use, ghosts, pipelineVars
<1>6. QED
  BY <1>1, <1>2, <1>3, <1>4, <1>5 DEF PipelineNext, Step, Ends

\* The variables of ToolPipeline keep their types: the cache holds entries of calls
\* only, a chain is one of middlewares, and each attempt counts for itself.
THEOREM PipelineTypeCorrect == PipelineSpec => []PipelineTypeOK
<1>1. PipelineInit => CacheOK /\ ClockOK
  BY EmptySeq, PipelineAssumption
  DEF PipelineInit, CacheOK, ClockOK, Elements, PipelineAssumption
<1>2. StagesOK /\ DispatchOK /\ CacheOK /\ ClockOK => PipelineTypeOK
  BY DEF StagesOK, DispatchOK, CacheOK, ClockOK, PipelineTypeOK, Stages, CacheEntry
<1>3. QED
  BY <1>1, <1>2, InitPipe, StepStages, StepDispatch, StepCache, StepClock, PTL DEF PipelineSpec

LEMMA StepHits ==
    ASSUME StagesOK, CacheOK, [PipelineNext]_(pipelineVars),
           NEW c \in Calls, stage[c] = "idle", stage'[c] = "answered"
    PROVE  LET d == servedBy'[c]
           IN  /\ d # c /\ outcome[d] = "good" /\ call[d].key = call'[c].key
               /\ now - madeAt[d] <= Ttl[Tool(d)]
               /\ d \notin cleared
<1>1. ASSUME \E d \in Calls : stage[d] # "idle" /\ \E x \in Stages : stage' = [stage EXCEPT ![d] = x]
      PROVE  FALSE
  BY <1>1 DEF StagesOK
<1>2. stage' # stage
  OBVIOUS
<1>3. ASSUME NEW d \in Calls, NEW r \in Load[d], Invoke(d, r)
      PROVE  d = c
  <2>1. \E x \in Stages : stage' = [stage EXCEPT ![d] = x]
    BY <1>3 DEF Invoke, Stages
  <2>2. QED
    BY <2>1 DEF StagesOK
<1>4. ASSUME NEW d \in Calls, Begin(d) \/ TryAgain(d) \/ FailAttempt(d)
      PROVE  FALSE
  <2>1. stage[d] # "idle" /\ \E x \in Stages : stage' = [stage EXCEPT ![d] = x]
    BY <1>4 DEF Begin, TryAgain, FailAttempt, SettleOuter, Unsettled, Stages
  <2>2. QED
    BY <1>1, <2>1
<1>5. ASSUME NEW d \in Calls, Ends(d)
      PROVE  FALSE
  <2>1. stage[d] # "idle" /\ \E x \in Stages : stage' = [stage EXCEPT ![d] = x]
    BY <1>5, EndsAnswers DEF Stages
  <2>2. QED
    BY <1>1, <2>1
<1>6. ~\E d, n, i : CallNext(d, n, i)
  BY <1>2 DEF CallNext
<1>7. ~Tick /\ ~(\E m : Use(m)) /\ ~(\E tools : ClearCache(tools)) /\ ~UNCHANGED pipelineVars
  BY <1>2 DEF Tick, Use, ClearCache, pipelineVars
<1>8. \E r \in Load[c] : Invoke(c, r)
  BY <1>3, <1>4, <1>5, <1>6, <1>7 DEF PipelineNext, Step, Ends
<1>9. QED
  BY <1>8, CacheHits

\* A call answered from the cache gets the result of a call of the same tool and
\* arguments, put together within the time to live and not covered by a clear.
THEOREM CachedResultsAreFresh == PipelineSpec => HitsAreFresh
<1>1. PipelineInit => CacheOK
  BY EmptySeq DEF PipelineInit, CacheOK, Elements
<1>2. StagesOK /\ CacheOK /\ [PipelineNext]_(pipelineVars) =>
        [\A c \in Calls : stage[c] = "idle" /\ stage'[c] = "answered" =>
            LET d == servedBy'[c]
            IN  /\ d # c /\ outcome[d] = "good" /\ call[d].key = call'[c].key
                /\ now - madeAt[d] <= Ttl[Tool(d)]
                /\ d \notin cleared]_(pipelineVars)
  BY StepHits
<1>3. QED
  BY <1>1, <1>2, InitPipe, StepStages, StepCache, PTL DEF PipelineSpec, HitsAreFresh

\* The keys of the entries of a cache, in their order.
KeysOf(cache) == [i \in DOMAIN cache |-> cache[i].key]

LEMMA KeysOfSeq ==
    ASSUME NEW s \in Seq(CacheEntry)
    PROVE  /\ KeysOf(s) \in Seq(Keys) /\ DOMAIN KeysOf(s) = DOMAIN s /\ Len(KeysOf(s)) = Len(s)
           /\ Elements(KeysOf(s)) = {e.key : e \in Elements(s)}
<1>1. Len(s) \in Nat /\ DOMAIN s = 1 .. Len(s) /\ \A i \in DOMAIN s : s[i].key \in Keys
  <2>1. Len(s) \in Nat /\ DOMAIN s = 1 .. Len(s)
    BY LenProperties
  <2>2. \A i \in 1 .. Len(s) : s[i] \in CacheEntry
    BY ElementOfSeq
  <2>3. QED
    BY <2>1, <2>2 DEF CacheEntry
<1>2. KeysOf(s) \in Seq(Keys) /\ Len(KeysOf(s)) = Len(s)
  BY <1>1 DEF KeysOf
<1>3. QED
  BY <1>2 DEF KeysOf, Elements

\* The keys of some of the entries.
LEMMA KeysOfOnly ==
    ASSUME NEW s \in Seq(CacheEntry), Injective(KeysOf(s)), NEW T
    PROVE  KeysOf(Only(s, T)) = Only(KeysOf(s), {e.key : e \in Elements(s) \cap T})
<1> DEFINE R == {e.key : e \in Elements(s) \cap T}
<1>1. DOMAIN KeysOf(s) = DOMAIN s /\ \A n \in DOMAIN s : KeysOf(s)[n] = s[n].key
  BY DEF KeysOf
<1>2. ASSUME NEW n \in DOMAIN s
      PROVE  s[n] \in T <=> KeysOf(s)[n] \in R
  <2>1. ASSUME s[n].key \in R
        PROVE  s[n] \in T
    <3>1. PICK m \in DOMAIN s : s[m] \in T /\ s[m].key = s[n].key
      BY <2>1 DEF Elements
    <3>2. m = n
      BY <1>1, <3>1 DEF Injective
    <3>3. QED
      BY <3>1, <3>2
  <2>2. QED
    BY <1>1, <2>1 DEF Elements
<1> HIDE DEF R
<1>3. /\ DOMAIN Only(KeysOf(s), R) = DOMAIN Only(s, T)
      /\ \A i \in DOMAIN Only(s, T) :
            \E n \in DOMAIN s : Only(s, T)[i] = s[n] /\ Only(KeysOf(s), R)[i] = KeysOf(s)[n]
  BY <1>1, <1>2, OnlyAlike
<1>4. \A i \in DOMAIN Only(s, T) : Only(KeysOf(s), R)[i] = Only(s, T)[i].key
  BY <1>1, <1>3
<1>5. Only(KeysOf(s), R) \in Seq(Keys)
  BY KeysOfSeq, OnlyElements
<1>6. Only(KeysOf(s), R) = [i \in DOMAIN Only(s, T) |-> Only(s, T)[i].key]
  <2>1. Only(KeysOf(s), R) = [i \in DOMAIN Only(KeysOf(s), R) |-> Only(KeysOf(s), R)[i]]
    BY DEF Only
  <2>2. QED
    BY <1>3, <1>4, <2>1
<1>7. QED
  BY <1>6 DEF KeysOf, R

LEMMA KeysOfAppend ==
    ASSUME NEW s \in Seq(CacheEntry), NEW e \in CacheEntry
    PROVE  KeysOf(Append(s, e)) = Append(KeysOf(s), e.key)
<1>1. e.key \in Keys
  BY DEF CacheEntry
<1>2. /\ KeysOf(s) \in Seq(Keys) /\ Len(KeysOf(s)) = Len(s)
      /\ Append(s, e) \in Seq(CacheEntry) /\ Len(s) \in Nat
      /\ KeysOf(Append(s, e)) \in Seq(Keys) /\ Len(KeysOf(Append(s, e))) = Len(Append(s, e))
  BY KeysOfSeq, AppendProperties, LenProperties
<1>3. Append(KeysOf(s), e.key) \in Seq(Keys) /\ Len(Append(KeysOf(s), e.key)) = Len(s) + 1
  BY <1>1, <1>2, AppendProperties
<1>4. Len(KeysOf(Append(s, e))) = Len(s) + 1
  BY <1>2, AppendProperties
<1>5. ASSUME NEW i \in 1 .. (Len(s) + 1)
      PROVE  KeysOf(Append(s, e))[i] = Append(KeysOf(s), e.key)[i]
  <2>1. DOMAIN Append(s, e) = 1 .. (Len(s) + 1) /\ DOMAIN s = 1 .. Len(s)
    BY <1>2, AppendProperties, LenProperties
  <2>2. KeysOf(Append(s, e))[i] = Append(s, e)[i].key
    BY <2>1 DEF KeysOf
  <2>3. CASE i \in 1 .. Len(s)
    <3>1. KeysOf(s)[i] = s[i].key /\ Append(s, e)[i] = s[i]
      BY <2>1, <2>3, AppendProperties DEF KeysOf
    <3>2. Append(KeysOf(s), e.key)[i] = KeysOf(s)[i]
      BY <1>1, <1>2, <2>3, AppendProperties
    <3>3. QED
      BY <2>2, <3>1, <3>2
  <2>4. CASE i = Len(s) + 1
    BY <1>1, <1>2, <2>2, <2>4, AppendProperties
  <2>5. QED
    BY <1>2, <2>3, <2>4
<1>6. QED
  BY <1>2, <1>3, <1>4, <1>5, SeqEqual

\* The keys of the cache are what the ghost keeps of them, and every key it was used
\* with is there once.
InOrder(cache) == KeysOf(cache) = Only(used, {e.key : e \in Elements(cache)})

OrderOK ==
    /\ used \in Seq(Keys) /\ Injective(used)
    /\ entries \in Seq(CacheEntry) /\ InOrder(entries)
    /\ Len(entries) <= 1 \/ \E t \in Tools : Len(entries) <= MaxSize[t]

LEMMA OnlyInOrder ==
    ASSUME NEW s \in Seq(CacheEntry), used \in Seq(Keys), Injective(used), InOrder(s), NEW T
    PROVE  Only(s, T) \in Seq(CacheEntry) /\ InOrder(Only(s, T)) /\ Len(Only(s, T)) <= Len(s)
<1> DEFINE E == {e.key : e \in Elements(s)}
           R == {e.key : e \in Elements(s) \cap T}
<1>1. /\ Only(s, T) \in Seq(CacheEntry) /\ Elements(Only(s, T)) = Elements(s) \cap T
      /\ Len(Only(s, T)) <= Len(s)
  BY OnlyElements, OnlyLength
<1>2. KeysOf(s) = Only(used, E)
  BY DEF InOrder
<1>3. R \subseteq E
  OBVIOUS
<1> HIDE DEF E
<1>4. Injective(KeysOf(s))
  BY <1>2, OnlyElements
<1>5. KeysOf(Only(s, T)) = Only(KeysOf(s), R)
  BY <1>4, KeysOfOnly
<1> HIDE DEF R
<1>6. Only(Only(used, E), R) = Only(used, E \cap R)
  BY OnlyOnly
<1>7. E \cap R = R
  BY <1>3
<1>8. KeysOf(Only(s, T)) = Only(used, R)
  BY <1>2, <1>5, <1>6, <1>7
<1>9. QED
  BY <1>1, <1>8 DEF InOrder, R

\* An entry whose key is the one used last goes to the end.
LEMMA AppendInOrder ==
    ASSUME NEW s \in Seq(CacheEntry), used \in Seq(Keys), Injective(used), InOrder(s),
           NEW e \in CacheEntry, \A x \in Elements(s) : x.key # e.key,
           used' = MovedToEnd(e.key)
    PROVE  /\ used' \in Seq(Keys) /\ Injective(used)'
           /\ Append(s, e) \in Seq(CacheEntry) /\ Len(Append(s, e)) = Len(s) + 1
           /\ KeysOf(Append(s, e)) = Only(used', {x.key : x \in Elements(Append(s, e))})
<1> DEFINE k == e.key
           rest == Only(used, Keys \ {k})
           E == {x.key : x \in Elements(s)}
<1>1. k \in Keys /\ k \notin E /\ E \subseteq Keys
  <2>1. \A x \in Elements(s) : x \in CacheEntry
    BY ElementOfSeq DEF Elements
  <2>2. QED
    BY <2>1 DEF CacheEntry
<1>2. /\ Append(s, e) \in Seq(CacheEntry) /\ Len(Append(s, e)) = Len(s) + 1
      /\ Elements(Append(s, e)) = Elements(s) \cup {e}
  BY AppendElements, AppendProperties
<1>3. {x.key : x \in Elements(Append(s, e))} = E \cup {k}
  BY <1>2
<1>4. used' = Append(rest, k) /\ KeysOf(s) = Only(used, E) /\ KeysOf(Append(s, e)) = Append(KeysOf(s), k)
  BY KeysOfAppend DEF MovedToEnd, InOrder
<1> HIDE DEF k, E
<1>5. rest \in Seq(Keys) /\ Elements(rest) = Elements(used) \cap (Keys \ {k}) /\ Injective(rest)
  BY OnlyElements
<1>6. k \notin Elements(rest)
  BY <1>5
<1>7. Only(rest, E \cup {k}) = Only(used, E)
  <2>1. Only(rest, E \cup {k}) = Only(used, (Keys \ {k}) \cap (E \cup {k}))
    BY OnlyOnly
  <2>2. (Keys \ {k}) \cap (E \cup {k}) = E
    BY <1>1
  <2>3. QED
    BY <2>1, <2>2
<1> HIDE DEF rest
<1>8. used' \in Seq(Keys) /\ Injective(used')
  BY <1>1, <1>4, <1>5, <1>6, AppendElements, AppendProperties
<1>9. Only(Append(rest, k), E \cup {k}) = Append(Only(rest, E \cup {k}), k)
  <2>1. PICK T : T = E \cup {k}
    OBVIOUS
  <2>2. k \in T /\ k \in Keys
    BY <1>1, <2>1
  <2>3. Only(Append(rest, k), T) = Append(Only(rest, T), k)
    BY <1>5, <2>2, OnlyAppend
  <2>4. QED
    BY <2>1, <2>3
<1>10. KeysOf(Append(s, e)) = Only(used', E \cup {k})
  BY <1>4, <1>7, <1>9
<1>11. QED
  BY <1>2, <1>3, <1>8, <1>10 DEF Injective

LEMMA MissInOrder ==
    ASSUME OrderOK, NEW k, \A e \in EntriesOf(entries, k) : Expired(e)
    PROVE  /\ Get(entries, k) \in Seq(CacheEntry) /\ InOrder(Get(entries, k))
           /\ Len(Get(entries, k)) <= Len(entries)
<1> DEFINE A == Elements(entries) \ EntriesOf(entries, k)
           B == {e \in EntriesOf(entries, k) : ~Expired(e)}
<1>1. Get(entries, k) = Only(entries, A) \o Only(entries, B)
  BY DEF Get, Others
<1>2. \A n \in DOMAIN entries : entries[n] \notin B
  OBVIOUS
<1> HIDE DEF A, B
<1>3. Only(entries, B) = <<>>
  BY <1>2, OnlyNone DEF OrderOK
<1>4. /\ Only(entries, A) \in Seq(CacheEntry) /\ InOrder(Only(entries, A))
      /\ Len(Only(entries, A)) <= Len(entries)
  BY OnlyInOrder DEF OrderOK
<1>5. Only(entries, A) \o <<>> = Only(entries, A)
  BY <1>4, ConcatEmptySeq
<1>6. QED
  BY <1>1, <1>3, <1>4, <1>5

LEMMA HitInOrder ==
    ASSUME OrderOK, NEW k, NEW e \in EntriesOf(entries, k), ~Expired(e),
           used' = MovedToEnd(k), entries' = Get(entries, k)
    PROVE  /\ used' \in Seq(Keys) /\ Injective(used)'
           /\ entries' \in Seq(CacheEntry) /\ Len(entries') <= Len(entries) /\ InOrder(entries)'
<1> DEFINE A == Elements(entries) \ EntriesOf(entries, k)
           B == {x \in EntriesOf(entries, k) : ~Expired(x)}
<1>1. entries' = Only(entries, A) \o Only(entries, B)
  BY DEF Get, Others
<1>2. EntriesOf(entries, k) = {x \in Elements(entries) : x.key = k}
  BY DEF EntriesOf
<1>3. PICK n \in DOMAIN entries : entries[n] = e /\ e.key = k
  BY <1>2 DEF Elements
<1>4. Injective(KeysOf(entries))
  BY OnlyElements DEF OrderOK, InOrder
<1>5. \A m \in DOMAIN entries : entries[m].key = k => m = n
  BY <1>3, <1>4 DEF Injective, KeysOf
<1>6. \A m \in DOMAIN entries : entries[m] \in B <=> m = n
  BY <1>2, <1>3, <1>5 DEF Elements
<1>7. \A x \in A : x.key # k
  BY <1>2
<1>8. e \in CacheEntry
  BY <1>3 DEF OrderOK
<1> HIDE DEF A, B
<1>9. Only(entries, B) = <<e>>
  BY <1>3, <1>6, OnlyOne DEF OrderOK
<1>10. /\ Only(entries, A) \in Seq(CacheEntry) /\ InOrder(Only(entries, A))
       /\ Elements(Only(entries, A)) \subseteq A
  BY OnlyInOrder, OnlyElements DEF OrderOK
<1>11. Only(entries, A) \o <<e>> = Append(Only(entries, A), e)
  BY <1>8, <1>10, AppendIsConcat
<1>12. Len(Only(entries, A)) + 1 <= Len(entries)
  <2>1. entries[n] \notin A
    BY <1>3, <1>7
  <2>2. Len(Only(entries, A)) < Len(entries)
    BY <1>3, <2>1, OnlyLength DEF OrderOK
  <2>3. QED
    BY <1>10, <2>2, LenProperties DEF OrderOK
<1>13. entries' = Append(Only(entries, A), e)
  BY <1>1, <1>9, <1>11
<1>14. /\ used' \in Seq(Keys) /\ Injective(used)'
       /\ Append(Only(entries, A), e) \in Seq(CacheEntry)
       /\ Len(Append(Only(entries, A), e)) = Len(Only(entries, A)) + 1
       /\ KeysOf(Append(Only(entries, A), e))
             = Only(used', {x.key : x \in Elements(Append(Only(entries, A), e))})
  <2>1. PICK s \in Seq(CacheEntry) : s = Only(entries, A)
    BY <1>10
  <2>2. InOrder(s) /\ (\A x \in Elements(s) : x.key # e.key) /\ used' = MovedToEnd(e.key)
    BY <1>3, <1>7, <1>10, <2>1
  <2>3. /\ used' \in Seq(Keys) /\ Injective(used)'
        /\ Append(s, e) \in Seq(CacheEntry) /\ Len(Append(s, e)) = Len(s) + 1
        /\ KeysOf(Append(s, e)) = Only(used', {x.key : x \in Elements(Append(s, e))})
    BY <1>8, <2>2, AppendInOrder DEF OrderOK
  <2>4. QED
    BY <2>1, <2>3
<1>15. QED
  BY <1>12, <1>13, <1>14 DEF InOrder

LEMMA PutInOrder ==
    ASSUME OrderOK, CacheOK, NEW k \in Keys, NEW c \in Calls,
           used' = MovedToEnd(k), entries' = Put(entries, k, c)
    PROVE  OrderOK'
<1> DEFINE A == Elements(entries) \ EntriesOf(entries, k)
           rest == Only(entries, A)
           max == MaxSize[ToolOf[k]]
           left == Evict(rest, max)
           e == EntryOf(k, c)
<1>1. max \in Nat /\ ToolOf[k] \in Tools
  BY PipelineAssumption DEF PipelineAssumption
<1>2. e \in CacheEntry /\ e.key = k
  <2>1. e \in CacheEntry
    BY PutKeeps DEF CacheOK
  <2>2. QED
    BY <2>1 DEF EntryOf
<1>3. entries' = Append(left, e)
  BY DEF Put, Others, EntryOf
<1>4. \A x \in A : x.key # k
  BY DEF EntriesOf
<1> HIDE DEF A, max, e
<1>5. rest \in Seq(CacheEntry) /\ InOrder(rest) /\ Elements(rest) \subseteq A
  BY OnlyInOrder, OnlyElements DEF OrderOK
<1> HIDE DEF rest
<1>6. PICK n \in 0 .. Len(rest) :
         /\ Len(left) = Len(rest) - n /\ left \in Seq(CacheEntry)
         /\ \A i \in 1 .. (Len(rest) - n) : left[i] = rest[n + i]
         /\ Len(rest) - n = 0 \/ Len(rest) - n < max
  BY <1>1, <1>5, EvictKeeps
<1> HIDE DEF left
<1>7. /\ KeysOf(rest) \in Seq(Keys) /\ KeysOf(left) \in Seq(Keys) /\ Injective(KeysOf(rest))
      /\ Len(KeysOf(rest)) = Len(rest) /\ Len(KeysOf(left)) = Len(left)
      /\ Elements(KeysOf(left)) = {x.key : x \in Elements(left)}
      /\ Elements(KeysOf(rest)) = {x.key : x \in Elements(rest)}
  <2>1. Injective(KeysOf(rest))
    BY <1>5, OnlyElements DEF InOrder, OrderOK
  <2>2. QED
    BY <1>5, <1>6, <2>1, KeysOfSeq
<1>8. /\ Len(rest) \in Nat /\ DOMAIN rest = 1 .. Len(rest) /\ DOMAIN left = 1 .. (Len(rest) - n)
  BY <1>5, <1>6, LenProperties
<1>9. \A i \in 1 .. (Len(rest) - n) : KeysOf(left)[i] = KeysOf(rest)[n + i]
  <2> TAKE i \in 1 .. (Len(rest) - n)
  <2>1. n + i \in DOMAIN rest /\ i \in DOMAIN left
    BY <1>8
  <2>2. QED
    BY <1>6, <2>1 DEF KeysOf
<1>10. KeysOf(left) = Only(KeysOf(rest), Elements(KeysOf(left)))
  BY <1>6, <1>7, <1>9, SuffixIsOnly
<1>11. Elements(left) \subseteq Elements(rest)
  <2>1. \A i \in DOMAIN left : left[i] = rest[n + i] /\ n + i \in DOMAIN rest
    BY <1>6, <1>8
  <2>2. QED
    BY <2>1 DEF Elements
<1>12. InOrder(left)
  <2> DEFINE E == {x.key : x \in Elements(rest)}
             F == {x.key : x \in Elements(left)}
  <2>1. F \subseteq E
    BY <1>11
  <2>2. KeysOf(rest) = Only(used, E) /\ KeysOf(left) = Only(KeysOf(rest), F)
    BY <1>5, <1>7, <1>10 DEF InOrder
  <2> HIDE DEF E, F
  <2>3. Only(Only(used, E), F) = Only(used, E \cap F)
    BY OnlyOnly DEF OrderOK
  <2>4. E \cap F = F
    BY <2>1
  <2>5. KeysOf(left) = Only(used, F)
    BY <2>2, <2>3, <2>4
  <2>6. QED
    BY <2>5 DEF InOrder, F
<1>13. /\ used' \in Seq(Keys) /\ Injective(used)'
       /\ Append(left, e) \in Seq(CacheEntry) /\ Len(Append(left, e)) = Len(left) + 1
       /\ KeysOf(Append(left, e)) = Only(used', {x.key : x \in Elements(Append(left, e))})
  <2>1. (\A x \in Elements(left) : x.key # e.key) /\ used' = MovedToEnd(e.key)
    BY <1>2, <1>4, <1>5, <1>11
  <2>2. QED
    BY <1>2, <1>6, <1>12, <2>1, AppendInOrder DEF OrderOK
<1>14. Len(entries') <= 1 \/ Len(entries') <= max
  BY <1>1, <1>3, <1>6, <1>8, <1>13
<1>15. QED
  BY <1>1, <1>3, <1>13, <1>14 DEF OrderOK, InOrder, max

\* What does not use a key leaves the order alone.
LEMMA StepOrder ==
    ASSUME StagesOK, CacheOK, OrderOK, [PipelineNext]_(pipelineVars)
    PROVE  OrderOK'
<1>1. ASSUME UNCHANGED <<entries, used>>
      PROVE  OrderOK'
  BY <1>1 DEF OrderOK, InOrder
<1>2. ASSUME used' \in Seq(Keys), Injective(used)', entries' \in Seq(CacheEntry), InOrder(entries)',
             Len(entries') <= Len(entries)
      PROVE  OrderOK'
  <2>1. Len(entries') \in Nat /\ Len(entries) \in Nat
    BY <1>2, LenProperties DEF OrderOK
  <2>2. Len(entries') <= 1 \/ \E t \in Tools : Len(entries') <= MaxSize[t]
    <3>1. CASE Len(entries) <= 1
      BY <1>2, <2>1, <3>1
    <3>2. ASSUME NEW t \in Tools, Len(entries) <= MaxSize[t]
          PROVE  Len(entries') <= MaxSize[t]
      BY <1>2, <2>1, <3>2, PipelineAssumption DEF PipelineAssumption
    <3>3. QED
      BY <3>1, <3>2 DEF OrderOK
  <2>3. QED
    BY <1>2, <2>2 DEF OrderOK, InOrder
<1>3. ASSUME NEW c \in Calls, NEW r \in Load[c], Invoke(c, r)
      PROVE  OrderOK'
  <2> DEFINE found == {e \in EntriesOf(entries, r.key) : ~Expired(e)}
  <2>1. CASE r.bypass
    BY <1>1, <1>3, <2>1 DEF Invoke
  <2>2. CASE ~r.bypass /\ found = {}
    <3>1. entries' = Get(entries, r.key) /\ UNCHANGED used
      BY <1>3, <2>2 DEF Invoke
    <3>2. /\ entries' \in Seq(CacheEntry) /\ Len(entries') <= Len(entries)
          /\ InOrder(Get(entries, r.key))
      BY <2>2, <3>1, MissInOrder
    <3>3. QED
      BY <1>2, <3>1, <3>2 DEF OrderOK, InOrder, Injective
  <2>3. CASE ~r.bypass /\ found # {}
    <3>1. PICK e \in found : TRUE
      BY <2>3
    <3>2. entries' = Get(entries, r.key) /\ used' = MovedToEnd(r.key)
      BY <1>3, <2>3 DEF Invoke
    <3>3. /\ used' \in Seq(Keys) /\ Injective(used)'
          /\ entries' \in Seq(CacheEntry) /\ Len(entries') <= Len(entries) /\ InOrder(entries)'
      BY <3>1, <3>2, HitInOrder
    <3>4. QED
      BY <1>2, <3>3
  <2>4. QED
    BY <2>1, <2>2, <2>3
<1>4. ASSUME NEW c \in Calls, Ends(c)
      PROVE  OrderOK'
  <2>1. \/ UNCHANGED <<entries, used>>
        \/ entries' = Put(entries, call[c].key, c) /\ used' = MovedToEnd(call[c].key)
    BY <1>4 DEF Ends, Succeed, ReturnFault, ReturnSpoiled, Fail, TimeOut,
       Cancel, Abort
  <2>2. call[c].key \in Keys
    BY <1>4, EndsAnswers, ToolOfRequest
  <2>3. QED
    BY <1>1, <2>1, <2>2, PutInOrder
<1>5. ASSUME NEW tools, ClearCache(tools)
      PROVE  OrderOK'
  <2>1. PICK T : entries' = Only(entries, T) /\ UNCHANGED used
    BY <1>5 DEF ClearCache, Clear
  <2>2. /\ entries' \in Seq(CacheEntry) /\ Len(entries') <= Len(entries)
        /\ InOrder(Only(entries, T))
    BY <2>1, OnlyInOrder DEF OrderOK
  <2>3. QED
    BY <1>2, <2>1, <2>2 DEF OrderOK, InOrder, Injective
<1>6. ASSUME NEW c, Begin(c) \/ TryAgain(c) \/ FailAttempt(c)
                    \/ \E n, i : CallNext(c, n, i)
      PROVE  OrderOK'
  BY <1>1, <1>6 DEF Begin, TryAgain, FailAttempt, CallNext
<1>7. CASE (\E m : Use(m)) \/ Tick \/ UNCHANGED pipelineVars
  BY <1>1, <1>7 DEF Use, Tick, pipelineVars
<1>8. QED
  BY <1>3, <1>4, <1>5, <1>6, <1>7 DEF PipelineNext, Step, Ends

\* The cache keeps its entries in the order of their last use, and never outgrows
\* the largest limit.
THEOREM TheLeastRecentGoes == PipelineSpec => []LeastRecentFirst
<1>1. PipelineInit => CacheOK /\ OrderOK
  <2> SUFFICES ASSUME PipelineInit
               PROVE  CacheOK /\ OrderOK
    OBVIOUS
  <2>1. entries = <<>> /\ used = <<>>
    BY DEF PipelineInit
  <2>2. KeysOf(<<>>) = <<>> /\ Injective(<<>>) /\ Len(<<>>) = 0
    BY EmptySeq DEF KeysOf, Injective
  <2>3. Only(<<>>, {x.key : x \in Elements(<<>>)}) = <<>>
    BY OnlyEmpty
  <2>4. OrderOK
    BY <2>1, <2>2, <2>3, EmptySeq DEF OrderOK, InOrder
  <2>5. QED
    BY <2>4, EmptySeq DEF PipelineInit, CacheOK, Elements
<1>2. OrderOK => LeastRecentFirst
  <2>1. OrderOK => KeysOf(entries) = Only(used, {x.key : x \in Elements(entries)})
    BY DEF OrderOK, InOrder
  <2>2. QED
    BY <2>1 DEF LeastRecentFirst, KeysOf, OrderOK
<1>3. QED
  BY <1>1, <1>2, InitPipe, StepStages, StepCache, StepOrder, PTL DEF PipelineSpec

Answered == {c \in Calls : stage[c] = "answered"}
Callers == Tools \cup {None}

GoodWays == {"hit", "good", "faulty", "spoiled"}
FailedWays == {"failed", "spoiled"}
AnswerWays == GoodWays \cup FailedWays

\* How many calls of some tools, by some callers, were answered in some ways.
CallsWith(ways, tools, callers) ==
    {c \in Answered : outcome[c] \in ways /\ Tool(c) \in tools /\ call[c].caller \in callers}
HowMany(ways, tools, callers) == Cardinality(CallsWith(ways, tools, callers))

RecordsOK ==
    /\ IsFiniteSet(Answered)
    /\ \A c \in Answered : outcome[c] \in AnswerWays
    /\ analytics.success = HowMany(GoodWays, Tools, Callers)
    /\ analytics.failed = HowMany(FailedWays, Tools, Callers)
    /\ analytics.cached = HowMany({"hit"}, Tools, Callers)
    /\ analytics.total = analytics.success + analytics.failed
    /\ \A t \in Tools :
          /\ analytics.tools[t].success = HowMany(GoodWays, {t}, Callers)
          /\ analytics.tools[t].errors = HowMany(FailedWays, {t}, Callers)
          /\ analytics.tools[t].hits = HowMany({"hit"}, {t}, Callers)
          /\ analytics.tools[t].calls
                = HowMany(AnswerWays, {t}, Callers) + HowMany({"spoiled"}, {t}, Callers)
          /\ \A u \in Tools :
                analytics.edges[<<u, t>>] = HowMany(AnswerWays, {t}, {u}) + HowMany({"spoiled"}, {t}, {u})

LEMMA NumberNat ==
    ASSUME IsFiniteSet(Answered), NEW ways, NEW tools, NEW callers
    PROVE  IsFiniteSet(CallsWith(ways, tools, callers)) /\ HowMany(ways, tools, callers) \in Nat
<1>1. CallsWith(ways, tools, callers) \subseteq Answered
  BY DEF CallsWith
<1>2. QED
  BY <1>1, FS_Subset, FS_CardinalityType DEF HowMany

\* A call that is answered counts once in every number it belongs to.
Counted(what, tool, caller) ==
    \A ways, tools, callers :
        /\ what \in ways /\ tool \in tools /\ caller \in callers
              => HowMany(ways, tools, callers)' = HowMany(ways, tools, callers) + 1
        /\ ~(what \in ways /\ tool \in tools /\ caller \in callers)
              => HowMany(ways, tools, callers)' = HowMany(ways, tools, callers)

LEMMA OneMore ==
    ASSUME StagesOK, CacheOK, IsFiniteSet(Answered), NEW c \in Calls, stage[c] # "answered",
           stage' = [stage EXCEPT ![c] = "answered"],
           NEW what, outcome' = [outcome EXCEPT ![c] = what],
           \A d \in Calls : d # c => call'[d] = call[d],
           NEW tool, Tool(c)' = tool, NEW caller, call'[c].caller = caller
    PROVE  /\ IsFiniteSet(Answered)' /\ Answered' = Answered \cup {c}
           /\ Counted(what, tool, caller)
<1>1. Answered' = Answered \cup {c} /\ c \notin Answered
  BY DEF Answered, StagesOK
<1>2. IsFiniteSet(Answered')
  BY <1>1, FS_AddElement
<1>3. ASSUME NEW d \in Answered
      PROVE  outcome'[d] = outcome[d] /\ call'[d] = call[d] /\ Tool(d)' = Tool(d)
  <2>1. d \in Calls /\ d # c
    BY <1>1 DEF Answered
  <2>2. QED
    BY <2>1 DEF CacheOK, Tool
<1>4. outcome'[c] = what
  BY DEF CacheOK
<1>5. ASSUME NEW ways, NEW tools, NEW callers
      PROVE  /\ what \in ways /\ tool \in tools /\ caller \in callers
                   => HowMany(ways, tools, callers)' = HowMany(ways, tools, callers) + 1
             /\ ~(what \in ways /\ tool \in tools /\ caller \in callers)
                   => HowMany(ways, tools, callers)' = HowMany(ways, tools, callers)
  <2> DEFINE S == CallsWith(ways, tools, callers)
             T == CallsWith(ways, tools, callers)'
  <2>1. c \notin S /\ IsFiniteSet(S)
    <3>1. c \notin S
      BY <1>1 DEF CallsWith
    <3>2. IsFiniteSet(S)
      BY NumberNat
    <3>3. QED
      BY <3>1, <3>2
  <2>2. ASSUME what \in ways /\ tool \in tools /\ caller \in callers
        PROVE  T = S \cup {c}
    BY <1>1, <1>3, <1>4, <2>2 DEF CallsWith
  <2>3. ASSUME ~(what \in ways /\ tool \in tools /\ caller \in callers)
        PROVE  T = S
    BY <1>1, <1>3, <1>4, <2>3 DEF CallsWith
  <2>4. HowMany(ways, tools, callers) = Cardinality(S) /\ HowMany(ways, tools, callers)' = Cardinality(T)
    BY DEF HowMany
  <2> HIDE DEF S, T
  <2>5. Cardinality(S \cup {c}) = Cardinality(S) + 1
    BY <2>1, FS_AddElement
  <2>6. QED
    BY <2>2, <2>3, <2>4, <2>5
<1>6. QED
  BY <1>1, <1>2, <1>5 DEF Counted

\* What a record adds.
Adds(a, b, tool, caller, status, hit) ==
    /\ b.total = a.total + 1
    /\ b.success = a.success + (IF status = "success" THEN 1 ELSE 0)
    /\ b.failed = a.failed + (IF status # "success" THEN 1 ELSE 0)
    /\ b.cached = a.cached + (IF hit THEN 1 ELSE 0)
    /\ \A t \in Tools :
          /\ b.tools[t].calls = a.tools[t].calls + (IF t = tool THEN 1 ELSE 0)
          /\ b.tools[t].success
                = a.tools[t].success + (IF t = tool /\ status = "success" THEN 1 ELSE 0)
          /\ b.tools[t].errors
                = a.tools[t].errors + (IF t = tool /\ status # "success" THEN 1 ELSE 0)
          /\ b.tools[t].hits = a.tools[t].hits + (IF t = tool /\ hit THEN 1 ELSE 0)
          /\ \A u \in Tools :
                b.edges[<<u, t>>] = a.edges[<<u, t>>] + (IF u = caller /\ t = tool THEN 1 ELSE 0)

LEMMA RecordCounts ==
    \A a, tool, caller, status, hit :
        Adds(a, RecordInvocation(a, tool, caller, status, hit), tool, caller, status, hit)
<1> TAKE a, tool, caller, status, hit
<1> DEFINE b == RecordInvocation(a, tool, caller, status, hit)
<1>1. ASSUME NEW t \in Tools, NEW u \in Tools
      PROVE  <<u, t>> = <<caller, tool>> <=> u = caller /\ t = tool
  OBVIOUS
<1>2. QED
  BY <1>1 DEF Adds, RecordInvocation, One

\* A call that is recorded once.
LEMMA RecordedOnce ==
    ASSUME StagesOK, CacheOK, RecordsOK, NEW c \in Calls, stage[c] # "answered",
           stage' = [stage EXCEPT ![c] = "answered"],
           NEW what \in AnswerWays, what # "spoiled", outcome' = [outcome EXCEPT ![c] = what],
           \A d \in Calls : d # c => call'[d] = call[d],
           NEW tool \in Tools, Tool(c)' = tool,
           NEW caller \in Callers, call'[c].caller = caller,
           NEW status \in {"success", "error", "timeout", "cancelled"},
           status = "success" <=> what \in GoodWays, NEW hit \in BOOLEAN, hit <=> what = "hit",
           analytics' = RecordInvocation(analytics, tool, caller, status, hit)
    PROVE  RecordsOK'
<1> DEFINE b == analytics'
<1>1. Adds(analytics, b, tool, caller, status, hit)
  BY RecordCounts
<1>2. /\ IsFiniteSet(Answered)' /\ Answered' = Answered \cup {c}
      /\ \A ways, tools, callers :
            /\ what \in ways /\ tool \in tools /\ caller \in callers
                  => HowMany(ways, tools, callers)' = HowMany(ways, tools, callers) + 1
            /\ ~(what \in ways /\ tool \in tools /\ caller \in callers)
                  => HowMany(ways, tools, callers)' = HowMany(ways, tools, callers)
  <2>1. IsFiniteSet(Answered)
    BY DEF RecordsOK
  <2>2. IsFiniteSet(Answered)' /\ Answered' = Answered \cup {c} /\ Counted(what, tool, caller)
    BY <2>1, OneMore
  <2>3. QED
    BY <2>2 DEF Counted
<1>3. \A ways, tools, callers : HowMany(ways, tools, callers) \in Nat
  BY NumberNat DEF RecordsOK
<1> HIDE DEF b
<1>4. \A d \in Answered' : outcome'[d] \in AnswerWays
  BY <1>2 DEF RecordsOK, CacheOK, Answered
<1>5. /\ what \in GoodWays <=> status = "success"
      /\ what \in FailedWays <=> status # "success"
      /\ what \in {"hit"} <=> hit
      /\ what \notin {"spoiled"}
  BY DEF AnswerWays, GoodWays, FailedWays
<1>6. /\ b.success = HowMany(GoodWays, Tools, Callers)'
      /\ b.failed = HowMany(FailedWays, Tools, Callers)'
      /\ b.cached = HowMany({"hit"}, Tools, Callers)'
      /\ b.total = b.success + b.failed
  <2>1. /\ HowMany(GoodWays, Tools, Callers)'
              = HowMany(GoodWays, Tools, Callers) + (IF status = "success" THEN 1 ELSE 0)
        /\ HowMany(FailedWays, Tools, Callers)'
              = HowMany(FailedWays, Tools, Callers) + (IF status # "success" THEN 1 ELSE 0)
        /\ HowMany({"hit"}, Tools, Callers)' = HowMany({"hit"}, Tools, Callers) + (IF hit THEN 1 ELSE 0)
    BY <1>2, <1>3, <1>5
  <2>2. b.success = HowMany(GoodWays, Tools, Callers)' /\ b.failed = HowMany(FailedWays, Tools, Callers)'
    BY <1>1, <2>1 DEF RecordsOK, Adds
  <2>3. b.cached = HowMany({"hit"}, Tools, Callers)'
    BY <1>1, <2>1 DEF RecordsOK, Adds
  <2>4. b.total = b.success + b.failed
    BY <1>1, <1>3 DEF RecordsOK, Adds
  <2>5. QED
    BY <2>2, <2>3, <2>4
<1>7. ASSUME NEW t \in Tools
      PROVE  /\ b.tools[t].success = HowMany(GoodWays, {t}, Callers)'
             /\ b.tools[t].errors = HowMany(FailedWays, {t}, Callers)'
             /\ b.tools[t].hits = HowMany({"hit"}, {t}, Callers)'
             /\ b.tools[t].calls = HowMany(AnswerWays, {t}, Callers)' + HowMany({"spoiled"}, {t}, Callers)'
  <2>1. /\ HowMany(GoodWays, {t}, Callers)'
              = HowMany(GoodWays, {t}, Callers) + (IF t = tool /\ status = "success" THEN 1 ELSE 0)
        /\ HowMany(FailedWays, {t}, Callers)'
              = HowMany(FailedWays, {t}, Callers) + (IF t = tool /\ status # "success" THEN 1 ELSE 0)
        /\ HowMany({"hit"}, {t}, Callers)'
              = HowMany({"hit"}, {t}, Callers) + (IF t = tool /\ hit THEN 1 ELSE 0)
    BY <1>2, <1>3, <1>5
  <2>2. /\ HowMany(AnswerWays, {t}, Callers)'
              = HowMany(AnswerWays, {t}, Callers) + (IF t = tool THEN 1 ELSE 0)
        /\ HowMany({"spoiled"}, {t}, Callers)' = HowMany({"spoiled"}, {t}, Callers)
    BY <1>2, <1>3, <1>5
  <2>3. b.tools[t].success = HowMany(GoodWays, {t}, Callers)'
    <3>1. analytics.tools[t].success = HowMany(GoodWays, {t}, Callers)
      BY DEF RecordsOK
    <3>2. QED
      BY <1>1, <2>1, <3>1 DEF Adds
  <2>4. b.tools[t].errors = HowMany(FailedWays, {t}, Callers)'
    <3>1. analytics.tools[t].errors = HowMany(FailedWays, {t}, Callers)
      BY DEF RecordsOK
    <3>2. QED
      BY <1>1, <2>1, <3>1 DEF Adds
  <2>5. b.tools[t].hits = HowMany({"hit"}, {t}, Callers)'
    <3>1. analytics.tools[t].hits = HowMany({"hit"}, {t}, Callers)
      BY DEF RecordsOK
    <3>2. QED
      BY <1>1, <2>1, <3>1 DEF Adds
  <2>6. b.tools[t].calls = HowMany(AnswerWays, {t}, Callers)' + HowMany({"spoiled"}, {t}, Callers)'
    <3>1. analytics.tools[t].calls
             = HowMany(AnswerWays, {t}, Callers) + HowMany({"spoiled"}, {t}, Callers)
      BY DEF RecordsOK
    <3>2. b.tools[t].calls = analytics.tools[t].calls + (IF t = tool THEN 1 ELSE 0)
      BY <1>1 DEF Adds
    <3>3. QED
      BY <1>3, <2>2, <3>1, <3>2
  <2>7. QED
    BY <2>3, <2>4, <2>5, <2>6
<1>8. ASSUME NEW t \in Tools, NEW u \in Tools
      PROVE  b.edges[<<u, t>>] = HowMany(AnswerWays, {t}, {u})' + HowMany({"spoiled"}, {t}, {u})'
  <2>1. /\ HowMany(AnswerWays, {t}, {u})'
              = HowMany(AnswerWays, {t}, {u}) + (IF u = caller /\ t = tool THEN 1 ELSE 0)
        /\ HowMany({"spoiled"}, {t}, {u})' = HowMany({"spoiled"}, {t}, {u})
    BY <1>2, <1>3, <1>5
  <2>2. analytics.edges[<<u, t>>] = HowMany(AnswerWays, {t}, {u}) + HowMany({"spoiled"}, {t}, {u})
    BY DEF RecordsOK
  <2>3. b.edges[<<u, t>>] = analytics.edges[<<u, t>>] + (IF u = caller /\ t = tool THEN 1 ELSE 0)
    BY <1>1 DEF Adds
  <2>4. QED
    BY <1>3, <2>1, <2>2, <2>3
<1>9. QED
  BY <1>2, <1>4, <1>6, <1>7, <1>8 DEF RecordsOK, b

\* A call whose result could not be normalized is recorded twice.
LEMMA RecordedTwice ==
    ASSUME StagesOK, CacheOK, RecordsOK, NEW c \in Calls, stage[c] # "answered",
           stage' = [stage EXCEPT ![c] = "answered"], outcome' = [outcome EXCEPT ![c] = "spoiled"],
           \A d \in Calls : d # c => call'[d] = call[d],
           NEW tool \in Tools, Tool(c)' = tool,
           NEW caller \in Callers, call'[c].caller = caller,
           analytics' = RecordInvocation(
                            RecordInvocation(analytics, tool, caller, "success", FALSE),
                            tool, caller, "error", FALSE)
    PROVE  RecordsOK'
<1> DEFINE b == analytics'
           a == RecordInvocation(analytics, tool, caller, "success", FALSE)
<1>1. /\ a.total = analytics.total + 1
      /\ a.success = analytics.success + 1
      /\ a.failed = analytics.failed + 0
      /\ a.cached = analytics.cached + 0
      /\ \A t \in Tools :
            /\ a.tools[t].calls = analytics.tools[t].calls + (IF t = tool THEN 1 ELSE 0)
            /\ a.tools[t].success = analytics.tools[t].success + (IF t = tool THEN 1 ELSE 0)
            /\ a.tools[t].errors = analytics.tools[t].errors + 0
            /\ a.tools[t].hits = analytics.tools[t].hits + 0
            /\ \A u \in Tools :
                  a.edges[<<u, t>>]
                     = analytics.edges[<<u, t>>] + (IF u = caller /\ t = tool THEN 1 ELSE 0)
  <2>1. Adds(analytics, a, tool, caller, "success", FALSE)
    BY RecordCounts
  <2> HIDE DEF a
  <2>2. QED
    BY <2>1 DEF Adds
<1>2. b = RecordInvocation(a, tool, caller, "error", FALSE)
  OBVIOUS
<1> HIDE DEF a, b
<1>3. /\ b.total = a.total + 1
      /\ b.success = a.success + 0
      /\ b.failed = a.failed + 1
      /\ b.cached = a.cached + 0
      /\ \A t \in Tools :
            /\ b.tools[t].calls = a.tools[t].calls + (IF t = tool THEN 1 ELSE 0)
            /\ b.tools[t].success = a.tools[t].success + 0
            /\ b.tools[t].errors = a.tools[t].errors + (IF t = tool THEN 1 ELSE 0)
            /\ b.tools[t].hits = a.tools[t].hits + 0
            /\ \A u \in Tools :
                  b.edges[<<u, t>>] = a.edges[<<u, t>>] + (IF u = caller /\ t = tool THEN 1 ELSE 0)
  <2>1. Adds(a, b, tool, caller, "error", FALSE)
    BY <1>2, RecordCounts
  <2>2. QED
    BY <2>1 DEF Adds
<1>4. /\ IsFiniteSet(Answered)' /\ Answered' = Answered \cup {c}
      /\ \A ways, tools, callers :
            /\ "spoiled" \in ways /\ tool \in tools /\ caller \in callers
                  => HowMany(ways, tools, callers)' = HowMany(ways, tools, callers) + 1
            /\ ~("spoiled" \in ways /\ tool \in tools /\ caller \in callers)
                  => HowMany(ways, tools, callers)' = HowMany(ways, tools, callers)
  <2>1. IsFiniteSet(Answered)
    BY DEF RecordsOK
  <2>2. IsFiniteSet(Answered)' /\ Answered' = Answered \cup {c} /\ Counted("spoiled", tool, caller)
    BY <2>1, OneMore
  <2>3. QED
    BY <2>2 DEF Counted
<1>5. \A ways, tools, callers : HowMany(ways, tools, callers) \in Nat
  BY NumberNat DEF RecordsOK
<1>6. /\ "spoiled" \in GoodWays /\ "spoiled" \in FailedWays /\ "spoiled" \in AnswerWays
      /\ "spoiled" \notin {"hit"} /\ "spoiled" \in {"spoiled"}
  BY DEF GoodWays, FailedWays, AnswerWays
<1>7. \A d \in Answered' : outcome'[d] \in AnswerWays
  BY <1>4, <1>6 DEF RecordsOK, CacheOK, Answered
<1>8. /\ b.success = HowMany(GoodWays, Tools, Callers)'
      /\ b.failed = HowMany(FailedWays, Tools, Callers)'
      /\ b.cached = HowMany({"hit"}, Tools, Callers)'
      /\ b.total = b.success + b.failed
  <2>1. /\ HowMany(GoodWays, Tools, Callers)' = HowMany(GoodWays, Tools, Callers) + 1
        /\ HowMany(FailedWays, Tools, Callers)' = HowMany(FailedWays, Tools, Callers) + 1
        /\ HowMany({"hit"}, Tools, Callers)' = HowMany({"hit"}, Tools, Callers)
    BY <1>4, <1>6
  <2>2. /\ analytics.success = HowMany(GoodWays, Tools, Callers)
        /\ analytics.failed = HowMany(FailedWays, Tools, Callers)
        /\ analytics.cached = HowMany({"hit"}, Tools, Callers)
        /\ analytics.total = analytics.success + analytics.failed
    BY DEF RecordsOK
  <2>3. QED
    BY <1>1, <1>3, <1>5, <2>1, <2>2
<1>9. ASSUME NEW t \in Tools
      PROVE  /\ b.tools[t].success = HowMany(GoodWays, {t}, Callers)'
             /\ b.tools[t].errors = HowMany(FailedWays, {t}, Callers)'
             /\ b.tools[t].hits = HowMany({"hit"}, {t}, Callers)'
             /\ b.tools[t].calls = HowMany(AnswerWays, {t}, Callers)' + HowMany({"spoiled"}, {t}, Callers)'
  <2>1. /\ HowMany(GoodWays, {t}, Callers)'
              = HowMany(GoodWays, {t}, Callers) + (IF t = tool THEN 1 ELSE 0)
        /\ HowMany(FailedWays, {t}, Callers)'
              = HowMany(FailedWays, {t}, Callers) + (IF t = tool THEN 1 ELSE 0)
        /\ HowMany({"hit"}, {t}, Callers)' = HowMany({"hit"}, {t}, Callers)
        /\ HowMany(AnswerWays, {t}, Callers)'
              = HowMany(AnswerWays, {t}, Callers) + (IF t = tool THEN 1 ELSE 0)
        /\ HowMany({"spoiled"}, {t}, Callers)'
              = HowMany({"spoiled"}, {t}, Callers) + (IF t = tool THEN 1 ELSE 0)
    BY <1>4, <1>5, <1>6
  <2>2. /\ analytics.tools[t].success = HowMany(GoodWays, {t}, Callers)
        /\ analytics.tools[t].errors = HowMany(FailedWays, {t}, Callers)
        /\ analytics.tools[t].hits = HowMany({"hit"}, {t}, Callers)
        /\ analytics.tools[t].calls
              = HowMany(AnswerWays, {t}, Callers) + HowMany({"spoiled"}, {t}, Callers)
    BY DEF RecordsOK
  <2>3. /\ b.tools[t].success = HowMany(GoodWays, {t}, Callers)'
        /\ b.tools[t].errors = HowMany(FailedWays, {t}, Callers)'
        /\ b.tools[t].hits = HowMany({"hit"}, {t}, Callers)'
    BY <1>1, <1>3, <1>5, <2>1, <2>2
  <2>4. b.tools[t].calls = HowMany(AnswerWays, {t}, Callers)' + HowMany({"spoiled"}, {t}, Callers)'
    BY <1>1, <1>3, <1>5, <2>1, <2>2
  <2>5. QED
    BY <2>3, <2>4
<1>10. ASSUME NEW t \in Tools, NEW u \in Tools
       PROVE  b.edges[<<u, t>>] = HowMany(AnswerWays, {t}, {u})' + HowMany({"spoiled"}, {t}, {u})'
  <2>1. /\ HowMany(AnswerWays, {t}, {u})'
              = HowMany(AnswerWays, {t}, {u}) + (IF u = caller /\ t = tool THEN 1 ELSE 0)
        /\ HowMany({"spoiled"}, {t}, {u})'
              = HowMany({"spoiled"}, {t}, {u}) + (IF u = caller /\ t = tool THEN 1 ELSE 0)
    BY <1>4, <1>5, <1>6
  <2>2. analytics.edges[<<u, t>>] = HowMany(AnswerWays, {t}, {u}) + HowMany({"spoiled"}, {t}, {u})
    BY DEF RecordsOK
  <2>3. QED
    BY <1>1, <1>3, <1>5, <2>1, <2>2
<1>11. QED
  BY <1>4, <1>7, <1>8, <1>9, <1>10 DEF RecordsOK, b

LEMMA EndRecorded ==
    ASSUME StagesOK, CacheOK, RecordsOK, NEW c \in Calls, Ends(c)
    PROVE  RecordsOK'
<1> DEFINE tool == Tool(c)
           caller == call[c].caller
<1>1. /\ stage[c] \in {"queued", "running", "waiting"}
      /\ stage' = [stage EXCEPT ![c] = "answered"] /\ call' = call
  BY EndsAnswers
<1>2. /\ stage[c] # "answered" /\ tool \in Tools /\ caller \in Callers
      /\ Tool(c)' = tool /\ call'[c].caller = caller
      /\ \A d \in Calls : d # c => call'[d] = call[d]
  BY <1>1, ToolOfRequest DEF Callers, Requests, Tool
<1>3. CASE ReturnSpoiled(c)
  <2>1. /\ outcome' = [outcome EXCEPT ![c] = "spoiled"]
        /\ analytics' = RecordInvocation(
                            RecordInvocation(analytics, tool, caller, "success", FALSE),
                            tool, caller, "error", FALSE)
    BY <1>3 DEF ReturnSpoiled, Answer, Record
  <2> HIDE DEF tool, caller
  <2>2. QED
    BY <1>1, <1>2, <2>1, RecordedTwice
<1>4. CASE ~ReturnSpoiled(c)
  <2>1. \E what \in {"good", "faulty", "failed"}, status \in {"success", "error", "timeout", "cancelled"} :
           /\ outcome' = [outcome EXCEPT ![c] = what]
           /\ status = "success" <=> what # "failed"
           /\ analytics' = RecordInvocation(analytics, tool, caller, status, FALSE)
    BY <1>4 DEF Ends, Succeed, ReturnFault, Fail, TimeOut, Cancel,
       Abort, Answer, Record
  <2> HIDE DEF tool, caller
  <2>2. PICK what \in {"good", "faulty", "failed"}, status \in {"success", "error", "timeout", "cancelled"} :
           /\ outcome' = [outcome EXCEPT ![c] = what]
           /\ status = "success" <=> what # "failed"
           /\ analytics' = RecordInvocation(analytics, tool, caller, status, FALSE)
    BY <2>1
  <2>3. /\ what \in AnswerWays /\ what # "spoiled" /\ (status = "success" <=> what \in GoodWays)
        /\ FALSE \in BOOLEAN /\ (FALSE <=> what = "hit")
    BY <2>2 DEF AnswerWays, GoodWays, FailedWays
  <2>4. QED
    BY <1>1, <1>2, <2>2, <2>3, RecordedOnce
<1>5. QED
  BY <1>3, <1>4

LEMMA SameRecords ==
    ASSUME StagesOK, RecordsOK, UNCHANGED <<analytics, outcome>>,
           \A c \in Calls : stage'[c] = "answered" <=> stage[c] = "answered",
           \A c \in Calls : stage[c] = "answered" => call'[c] = call[c]
    PROVE  RecordsOK'
<1>1. Answered' = Answered
  BY DEF Answered
<1>2. \A ways, tools, callers : CallsWith(ways, tools, callers)' = CallsWith(ways, tools, callers)
  <2> TAKE ways, tools, callers
  <2>1. \A c \in Answered : call'[c] = call[c] /\ outcome'[c] = outcome[c]
    BY DEF Answered
  <2>2. QED
    BY <1>1, <2>1 DEF CallsWith, Tool
<1>3. \A ways, tools, callers : HowMany(ways, tools, callers)' = HowMany(ways, tools, callers)
  BY <1>2 DEF HowMany
<1>4. QED
  BY <1>1, <1>3 DEF RecordsOK

LEMMA StepRecords ==
    ASSUME StagesOK, CacheOK, RecordsOK, [PipelineNext]_(pipelineVars)
    PROVE  RecordsOK'
<1>1. ASSUME NEW c \in Calls, NEW r \in Load[c], Invoke(c, r)
      PROVE  RecordsOK'
  <2> DEFINE tool == ToolOf[r.key]
             caller == r.caller
  <2>1. /\ stage[c] = "idle" /\ call' = [call EXCEPT ![c] = r]
        /\ \/ stage' = [stage EXCEPT ![c] = "queued"] /\ UNCHANGED <<analytics, outcome>>
           \/ /\ stage' = [stage EXCEPT ![c] = "answered"]
              /\ outcome' = [outcome EXCEPT ![c] = "hit"]
              /\ analytics' = RecordInvocation(analytics, tool, caller, "success", TRUE)
    BY <1>1 DEF Invoke, ghosts
  <2>2. /\ stage[c] # "answered" /\ call'[c] = r
        /\ \A d \in Calls : d # c => call'[d] = call[d]
    BY <2>1 DEF StagesOK
  <2>3. r \in Requests /\ r.key \in Keys /\ r.key # None /\ tool \in Tools /\ caller \in Callers
    <3>1. r \in Requests /\ ToolOf \in [Keys -> Tools] /\ None \notin Keys
      BY PipelineAssumption DEF PipelineAssumption
    <3>2. QED
      BY <3>1 DEF Requests, Callers
  <2>4. CASE stage' = [stage EXCEPT ![c] = "queued"] /\ UNCHANGED <<analytics, outcome>>
    <3>1. \A d \in Calls : stage'[d] = "answered" <=> stage[d] = "answered"
      BY <2>2, <2>4 DEF StagesOK
    <3>2. QED
      BY <2>2, <2>4, <3>1, SameRecords
  <2>5. CASE /\ stage' = [stage EXCEPT ![c] = "answered"]
             /\ outcome' = [outcome EXCEPT ![c] = "hit"]
             /\ analytics' = RecordInvocation(analytics, tool, caller, "success", TRUE)
    <3>1. Tool(c)' = tool /\ call'[c].caller = caller
      BY <2>2, <2>3 DEF Tool
    <3>2. /\ "hit" \in AnswerWays /\ "hit" # "spoiled" /\ ("success" = "success" <=> "hit" \in GoodWays)
          /\ TRUE \in BOOLEAN /\ (TRUE <=> "hit" = "hit")
          /\ "success" \in {"success", "error", "timeout", "cancelled"}
      BY DEF AnswerWays, GoodWays
    <3> HIDE DEF tool, caller
    <3>3. QED
      BY <2>2, <2>3, <2>5, <3>1, <3>2, RecordedOnce
  <2>6. QED
    BY <2>1, <2>4, <2>5
<1>2. ASSUME NEW c \in Calls, Begin(c) \/ TryAgain(c) \/ FailAttempt(c)
      PROVE  RecordsOK'
  <2>1. /\ UNCHANGED <<analytics, outcome, call>> /\ stage[c] # "answered"
        /\ \E x \in {"running", "waiting"} : stage' = [stage EXCEPT ![c] = x]
    BY <1>2 DEF Begin, TryAgain, FailAttempt, SettleOuter, Unsettled, ghosts
  <2>2. \A d \in Calls : stage'[d] = "answered" <=> stage[d] = "answered"
    BY <2>1 DEF StagesOK
  <2>3. QED
    BY <2>1, <2>2, SameRecords
<1>3. ASSUME UNCHANGED <<analytics, outcome, call, stage>>
      PROVE  RecordsOK'
  BY <1>3, SameRecords
<1>4. ASSUME NEW c, NEW n, NEW i, CallNext(c, n, i)
      PROVE  RecordsOK'
  BY <1>3, <1>4 DEF CallNext, ghosts
<1>5. ASSUME NEW tools, ClearCache(tools)
      PROVE  RecordsOK'
  BY <1>3, <1>5 DEF ClearCache, ghosts
<1>6. CASE (\E m : Use(m)) \/ Tick \/ UNCHANGED pipelineVars
  BY <1>3, <1>6 DEF Use, Tick, pipelineVars, ghosts
<1>7. QED
  BY <1>1, <1>2, <1>4, <1>5, <1>6, EndRecorded DEF PipelineNext, Step, Ends

LEMMA InitRecords ==
    ASSUME PipelineInit
    PROVE  RecordsOK
<1>1. Answered = {}
  BY DEF PipelineInit, Answered
<1>2. \A ways, tools, callers : HowMany(ways, tools, callers) = 0
  <2> TAKE ways, tools, callers
  <2>1. CallsWith(ways, tools, callers) = {}
    BY <1>1 DEF CallsWith
  <2>2. QED
    BY <2>1, FS_EmptySet DEF HowMany
<1>3. IsFiniteSet(Answered)
  BY <1>1, FS_EmptySet
<1>4. analytics = NoAnalytics
  BY DEF PipelineInit
<1>5. /\ analytics.success = 0 /\ analytics.failed = 0 /\ analytics.cached = 0 /\ analytics.total = 0
      /\ \A t \in Tools :
            /\ analytics.tools[t].success = 0 /\ analytics.tools[t].errors = 0
            /\ analytics.tools[t].hits = 0 /\ analytics.tools[t].calls = 0
            /\ \A u \in Tools : analytics.edges[<<u, t>>] = 0
  BY <1>4 DEF NoAnalytics
<1>6. QED
  BY <1>1, <1>2, <1>3, <1>5 DEF RecordsOK

\* The numbers are those of the calls answered.
LEMMA RecordsGiveCounts ==
    ASSUME StagesOK, RecordsOK
    PROVE  RecordsAddUp
<1> DEFINE replied == {c \in Calls : stage[c] = "answered"}
           spoiled == {c \in replied : outcome[c] = "spoiled"}
           failed == {c \in replied : outcome[c] = "failed"}
           hits == {c \in replied : outcome[c] = "hit"}
           number(S, t) == Cardinality({c \in S : Tool(c) = t})
<1>1. \A c \in replied : /\ outcome[c] \in AnswerWays /\ Tool(c) \in Tools
                          /\ call[c].caller \in Callers
  <2> TAKE c \in replied
  <2>1. c \in Calls /\ stage[c] # "idle" /\ outcome[c] \in AnswerWays
    BY DEF RecordsOK, Answered
  <2>2. QED
    BY <2>1, ToolOfRequest DEF Requests, Callers
<1>2. Answered = replied
  BY DEF Answered
<1>3. /\ CallsWith(GoodWays, Tools, Callers) = replied \ failed
      /\ CallsWith(FailedWays, Tools, Callers) = failed \cup spoiled
      /\ CallsWith({"hit"}, Tools, Callers) = hits
  BY <1>1, <1>2 DEF CallsWith, AnswerWays, GoodWays, FailedWays
<1>4. ASSUME NEW t \in Tools
      PROVE  /\ CallsWith(GoodWays, {t}, Callers) = {c \in replied \ failed : Tool(c) = t}
             /\ CallsWith(FailedWays, {t}, Callers) = {c \in failed \cup spoiled : Tool(c) = t}
             /\ CallsWith({"hit"}, {t}, Callers) = {c \in hits : Tool(c) = t}
             /\ CallsWith(AnswerWays, {t}, Callers) = {c \in replied : Tool(c) = t}
             /\ CallsWith({"spoiled"}, {t}, Callers) = {c \in spoiled : Tool(c) = t}
  BY <1>1, <1>2 DEF CallsWith, AnswerWays, GoodWays, FailedWays
<1>5. ASSUME NEW t \in Tools, NEW u \in Tools
      PROVE  LET called == {c \in replied : call[c].caller = u}
             IN  /\ CallsWith(AnswerWays, {t}, {u}) = {c \in called : Tool(c) = t}
                 /\ CallsWith({"spoiled"}, {t}, {u}) = {c \in called \cap spoiled : Tool(c) = t}
  BY <1>1, <1>2 DEF CallsWith, AnswerWays, GoodWays, FailedWays
<1>6. /\ analytics.success = Cardinality(replied \ failed)
      /\ analytics.failed = Cardinality(failed \cup spoiled)
      /\ analytics.cached = Cardinality(hits)
      /\ analytics.total = analytics.success + analytics.failed
  BY <1>3 DEF RecordsOK, HowMany
<1>7. ASSUME NEW t \in Tools
      PROVE  /\ analytics.tools[t].success = number(replied \ failed, t)
             /\ analytics.tools[t].errors = number(failed \cup spoiled, t)
             /\ analytics.tools[t].hits = number(hits, t)
             /\ analytics.tools[t].calls = number(replied, t) + number(spoiled, t)
  BY <1>4 DEF RecordsOK, HowMany
<1>8. ASSUME NEW t \in Tools, NEW u \in Tools
      PROVE  LET called == {c \in replied : call[c].caller = u}
             IN  analytics.edges[<<u, t>>] = number(called, t) + number(called \cap spoiled, t)
  <2>1. analytics.edges[<<u, t>>] = HowMany(AnswerWays, {t}, {u}) + HowMany({"spoiled"}, {t}, {u})
    BY DEF RecordsOK
  <2>2. QED
    BY <1>5, <2>1 DEF HowMany
<1>9. QED
  BY <1>6, <1>7, <1>8 DEF RecordsAddUp

\* The records add up, over the tools and over the edges between them, and to the
\* calls answered.
THEOREM RecordsMatchAnswers == PipelineSpec => []RecordsAddUp
<1>1. PipelineInit => CacheOK
  BY EmptySeq DEF PipelineInit, CacheOK, Elements
<1>2. QED
  BY <1>1, InitPipe, InitRecords, StepStages, StepCache, StepRecords, RecordsGiveCounts, PTL DEF PipelineSpec
=============================================================================
