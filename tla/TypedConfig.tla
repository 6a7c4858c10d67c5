----------------------------- MODULE TypedConfig -----------------------------
(***************************************************************************)
(* The arguments of a step as a typed struct (src/resolver/resolver.go):   *)
(* ResolveConfig, which fills the struct field by field; TypedConfig,      *)
(* which reads the same arguments one by one; GenerateSchema, which tells  *)
(* the platform which fields there are, how they are entered and what they *)
(* default to.  The three read the same struct tags and are written apart. *)
(*                                                                         *)
(* ResolveString is used by its promise (Resolver!ResolvesOnce): a text    *)
(* with templates becomes the text that Resolution has for it.             *)
(***************************************************************************)
EXTENDS Integers, Sequences

CONSTANTS
    Structs,     \* the structs of executors: sequences of fields
    Sources,     \* the arguments of steps: functions from keys to values
    Resolution,  \* what the words that hold templates resolve to
    Half,        \* narrow integers go from -Half to Half - 1 (2^31 in int32)
    Float32,     \* the numbers that a float32 holds, counted in halves
    Limit        \* numbers from here on are infinite in a float32

(***************************************************************************)
(* A text by what the conversions look at: its word in lower case without  *)
(* the blanks around it, whether there are any, the number it begins with  *)
(* if it does, and whether it holds a template.                            *)
(***************************************************************************)
NoNumber == <<>>
Text(word, number) ==
    [word |-> word, padded |-> FALSE, number |-> number, template |-> FALSE]
EmptyText == Text("", NoNumber)

(* Values: what decoded JSON holds, and the int of a Go caller.  A float   *)
(* counts halves, which a float64 holds all of; the infinities are what a  *)
(* float32 may be left with.  A map is flat: paths of keys to what is no   *)
(* map.                                                                    *)
Nil == [kind |-> "nil"]
Str(text) == [kind |-> "string", text |-> text]
Bool(on) == [kind |-> "bool", on |-> on]
Whole(n) == [kind |-> "int", n |-> n]
Float(halves) == [kind |-> "float", halves |-> halves]
Infinity(negative) == [kind |-> "infinity", negative |-> negative]
Map(of) == [kind |-> "map", of |-> of]
Slice(of) == [kind |-> "slice", of |-> of]

(***************************************************************************)
(* A field: its Go name, the key of its json tag, its kind, its default    *)
(* tag and whether it is exported.  "binding" stands for Binding and Expr, *)
(* "map" and "slice" for those of interface{}, "typedMap" and "typedSlice" *)
(* for those of anything else, "float" for float64.  Of the kinds that no  *)
(* case names there are "int16" for numbers and "array" for two interfaces.*)
(***************************************************************************)
NoTag == "no tag"
NoDefault == [kind |-> "no default"]

Texts == {"string", "binding"}
Narrow == {"int32", "int16"}
Floats == {"float", "float32"}
Numbers == {"int64", "int32"} \cup Floats
Ordinary == Texts \cup Numbers \cup {"bool", "map", "slice"}
Kinds == Ordinary \cup {"typedMap", "typedSlice", "interface", "int16", "array"}
ArrayLength == 2

\* The zero value of a field; nil maps, slices and interfaces are Nil.
Zero(kind) ==
    CASE kind \in Texts -> Str(EmptyText)
      [] kind \in {"int64"} \cup Narrow -> Whole(0)
      [] kind \in Floats -> Float(0)
      [] kind = "bool" -> Bool(FALSE)
      [] kind = "array" -> Slice([i \in 1 .. ArrayLength |-> Nil])
      [] OTHER -> Nil

(***************************************************************************)
(* What decoded JSON, or a Go caller, puts into the arguments, and what is *)
(* in a default tag.  "a list" stands for what a map or a slice prints,    *)
(* resolved like any other text.  The values that templates stand for hold *)
(* none themselves; of a value that spells one out see Resolver.           *)
(***************************************************************************)
IsText(text) == text.number \in Seq(Int) /\ (text.template => text.word \in DOMAIN Resolution)
IsLeaf(v) == v.kind = "string" => IsText(v.text)
IsValue(v) ==
    /\ v.kind \in {"nil", "string", "bool", "int", "float", "map", "slice"}
    /\ v.kind = "nil" => v = Nil
    /\ IsLeaf(v)
    /\ v.kind = "int" => v.n \in Int
    /\ v.kind = "float" => v.halves \in Int /\ v = Float(v.halves)
    /\ v.kind = "map" => \A path \in DOMAIN v.of : IsLeaf(v.of[path])
    /\ v.kind = "slice" => Len(v.of) \in Nat

ASSUME ConfigAssumption ==
    /\ Half \in Nat \ {0}
    /\ Limit \in Nat /\ 0 \in Float32
    /\ \A h \in Float32 : h \in Int /\ -Limit < h /\ h < Limit
    /\ "a list" \in DOMAIN Resolution
    /\ \A word \in DOMAIN Resolution : ~Resolution[word].template
    /\ \A fields \in Structs :
          /\ Len(fields) \in Nat /\ DOMAIN fields = 1 .. Len(fields)
          /\ \A i \in DOMAIN fields :
                /\ fields[i].kind \in Kinds
                /\ fields[i].default # NoDefault => IsText(fields[i].default)
    /\ \A arguments \in Sources : \A key \in DOMAIN arguments : IsValue(arguments[key])

VARIABLES
    struct,   \* the type of dst
    src,      \* the arguments
    dst,      \* the struct being filled, by field
    at,       \* the loop's index
    outcome   \* "running", "ok", "error" or "panic"

vars == <<struct, src, dst, at, outcome>>

-----------------------------------------------------------------------------
(* Resolving *)

ResolveString(text) == IF text.template THEN Resolution[text.word] ELSE text

ResolveLeaf(v) == IF v.kind = "string" THEN Str(ResolveString(v.text)) ELSE v

(* Mutant of ResolveMap: maps in a map are kept as they are.               *)
ResolveTop(m) ==
    Map([path \in DOMAIN m.of |->
            IF Len(path) = 1 THEN ResolveLeaf(m.of[path]) ELSE m.of[path]])

\* Strings in the map and in maps in it; strings in slices stay.
ResolveMap(m) == Map([path \in DOMAIN m.of |-> ResolveLeaf(m.of[path])])

-----------------------------------------------------------------------------
(* Conversions.  Failed is an error. *)

Failed == [kind |-> "failed"]

\* Toward zero, as Go converts a float.
Truncated(halves) == IF halves >= 0 THEN halves \div 2 ELSE -((-halves) \div 2)

\* What a field of fewer bits keeps.
Wrapped(n) == ((n + Half) % (2 * Half)) - Half
Fits(n) == -Half <= n /\ n < Half

HoldsTemplate(v) ==
    \/ v.kind = "string" /\ v.text.template
    \/ v.kind = "slice" /\ \E i \in DOMAIN v.of : v.of[i].kind = "string" /\ v.of[i].text.template

\* What %v prints.
Printed(v) ==
    CASE v.kind = "bool" -> Text(IF v.on THEN "true" ELSE "false", NoNumber)
      [] v.kind = "int" -> Text("a number", <<v.n>>)
      [] v.kind = "float" -> Text("a number", <<Truncated(v.halves)>>)
      [] v.kind = "map" -> [Text("a list", NoNumber) EXCEPT
                                !.template = \E p \in DOMAIN v.of : HoldsTemplate(v.of[p])]
      [] v.kind = "slice" -> [Text("a list", NoNumber) EXCEPT !.template = HoldsTemplate(v)]

TextOf(v) ==
    CASE v.kind = "nil" -> EmptyText
      [] v.kind = "string" -> v.text
      [] OTHER -> Printed(v)

ToInt(v) ==
    CASE v.kind = "nil" -> Whole(0)
      [] v.kind = "int" -> v
      [] v.kind = "float" -> Whole(Truncated(v.halves))
      [] v.kind = "string" /\ v.text.number # NoNumber -> Whole(Head(v.text.number))
      [] OTHER -> Failed

ToFloat(v) ==
    CASE v.kind = "nil" -> Float(0)
      [] v.kind = "float" -> v
      [] v.kind = "int" -> Float(2 * v.n)
      [] v.kind = "string" /\ v.text.number # NoNumber -> Float(2 * Head(v.text.number))
      [] OTHER -> Failed

(* Mutant of ToBool: only texts are understood.                            *)
TextToBool(v) ==
    CASE v.kind = "nil" -> Bool(FALSE)
      [] v.kind = "string" -> Bool(v.text.word \in {"true", "1", "yes"})
      [] OTHER -> Failed

ToBool(v) ==
    CASE v.kind = "nil" -> Bool(FALSE)
      [] v.kind = "bool" -> v
      [] v.kind = "string" -> Bool(v.text.word \in {"true", "1", "yes"})
      [] OTHER -> Failed

-----------------------------------------------------------------------------
(* setFieldValue *)

Set(v) == [to |-> "set", value |-> v]
Keep == [to |-> "keep"]
Error == [to |-> "error"]
Panic == [to |-> "panic"]

SetUnless(failure, v) == IF v = Failed THEN failure ELSE Set(v)

SetInt(kind, v) ==
    LET whole == ToInt(v)
    IN  IF whole # Failed /\ kind \in Narrow THEN Set(Whole(Wrapped(whole.n)))
        ELSE SetUnless(Error, whole)

Distance(a, b) == IF a < b THEN b - a ELSE a - b

\* What a float32 makes of a number: the nearest one that it holds (of two
\* that are as near, Go takes the even one), or an infinity.
Rounded(halves) ==
    IF halves <= -Limit \/ Limit <= halves THEN Infinity(halves < 0)
    ELSE Float(CHOOSE near \in Float32 :
                  \A h \in Float32 : Distance(halves, near) <= Distance(halves, h))

SetFloat(kind, v) ==
    LET number == ToFloat(v)
    IN  IF number # Failed /\ kind = "float32" THEN Set(Rounded(number.halves))
        ELSE SetUnless(Error, number)

SetMap(kind, v) ==
    CASE v.kind = "nil" -> Keep
      [] v.kind = "map" -> IF kind = "map" THEN Set(ResolveMap(v)) ELSE Panic
      [] OTHER -> Error

SetSlice(kind, v) ==
    CASE v.kind = "nil" -> Keep
      [] v.kind = "slice" -> IF kind = "slice" THEN Set(v) ELSE Panic
      [] OTHER -> Error

(* Mutant of SetOther: whether v converts is not asked.                    *)
SetAny(kind, v) ==
    CASE v.kind = "nil" -> Keep
      [] kind = "int16" /\ v.kind = "int" -> Set(Whole(Wrapped(v.n)))
      [] kind = "int16" /\ v.kind = "float" -> Set(Whole(Wrapped(Truncated(v.halves))))
      [] OTHER -> Panic

\* Kinds without a case: Go's conversion, by way of an int64 for a number.  A
\* slice that is shorter than the array panics; what does not convert is
\* dropped in silence.
SetOther(kind, v) ==
    CASE kind = "int16" /\ v.kind = "int" -> Set(Whole(Wrapped(v.n)))
      [] kind = "int16" /\ v.kind = "float" -> Set(Whole(Wrapped(Truncated(v.halves))))
      [] kind = "array" /\ v.kind = "slice" ->
            IF Len(v.of) < ArrayLength THEN Panic
            ELSE Set(Slice([i \in 1 .. ArrayLength |-> v.of[i]]))
      [] OTHER -> Keep

\* What becomes of a field of a kind that is given v.
SetFieldValue(kind, v) ==
    CASE kind \in Texts -> Set(Str(ResolveString(TextOf(v))))
      [] kind \in {"int64", "int32"} -> SetInt(kind, v)
      [] kind \in Floats -> SetFloat(kind, v)
      [] kind = "bool" -> SetUnless(Error, ToBool(v))
      [] kind \in {"map", "typedMap"} -> SetMap(kind, v)
      [] kind \in {"slice", "typedSlice"} -> SetSlice(kind, v)
      [] kind = "interface" -> IF v.kind = "nil" THEN Panic ELSE Set(v)
      [] kind \in {"int16", "array"} -> SetOther(kind, v)

-----------------------------------------------------------------------------
(* ResolveConfig *)

KeyOf(f) == IF f.json \in {NoTag, "-"} THEN f.name ELSE f.json

Given(f) == KeyOf(f) \in DOMAIN src

(* Mutant of Input: the default tag is not read.                           *)
NoDefaultInput(f) == IF Given(f) THEN {src[KeyOf(f)]} ELSE {}

\* What the field is set from, if there is anything.
Input(f) ==
    IF Given(f) THEN {src[KeyOf(f)]}
    ELSE {Str(f.default) : tag \in {f.default} \ {NoDefault}}

Init ==
    /\ struct \in Structs
    /\ src \in Sources
    /\ dst = [i \in DOMAIN struct |-> Zero(struct[i].kind)]
    /\ at = 1
    /\ outcome = "running"

\* The loop is at a field.
AtField(f) == outcome = "running" /\ at \in DOMAIN struct /\ f = struct[at]

\* The key is missing and there is no default.
Skip(f) ==
    /\ AtField(f)
    /\ Input(f) = {}
    /\ at' = at + 1
    /\ UNCHANGED <<struct, src, dst, outcome>>

SetField(f) ==
    /\ AtField(f)
    /\ \E v \in Input(f) : LET result == SetFieldValue(f.kind, v) IN
          CASE result.to = "set" /\ f.exported ->
                  /\ dst' = [dst EXCEPT ![at] = result.value]
                  /\ at' = at + 1
                  /\ UNCHANGED outcome
            [] result.to = "keep" ->
                  /\ at' = at + 1
                  /\ UNCHANGED <<dst, outcome>>
            [] result.to = "error" ->
                  /\ outcome' = "error"
                  /\ UNCHANGED <<dst, at>>
            [] OTHER ->
                  /\ outcome' = "panic"
                  /\ UNCHANGED <<dst, at>>
    /\ UNCHANGED <<struct, src>>

Finish ==
    /\ outcome = "running"
    /\ at \notin DOMAIN struct
    /\ outcome' = "ok"
    /\ UNCHANGED <<struct, src, dst, at>>

Next ==
    \/ \E i \in DOMAIN struct : Skip(struct[i]) \/ SetField(struct[i])
    \/ Finish

Spec == Init /\ [][Next]_vars

-----------------------------------------------------------------------------
(* GenerateSchema *)

\* Fields without a json tag, or hidden by one, are not reported.
Reported(f) == f.json \notin {NoTag, "-"}

GoTypeToFieldType(kind) ==
    CASE kind = "binding" -> "expression"
      [] kind \in Numbers -> "number"
      [] kind = "bool" -> "toggle"
      [] kind \in {"slice", "typedSlice"} -> "tags"
      [] kind \in {"map", "typedMap"} -> "keyvalue"
      [] kind \in {"string", "interface", "int16", "array"} -> "text"

\* The default that is reported for a default tag.
ParseDefault(text, kind) ==
    LET number == IF text.number = NoNumber THEN 0 ELSE Head(text.number)
    IN  CASE kind \in {"int64", "int32"} -> Whole(number)
          [] kind \in Floats -> Float(2 * number)
          [] kind = "bool" -> Bool(text.word = "true" /\ ~text.padded)
          [] OTHER -> Str(text)

\* What the platform is told of a struct, display aside: a field without a
\* default is required, which ResolveConfig does not ask for.
GenerateSchema(fields) ==
    {[key |-> KeyOf(f), type |-> GoTypeToFieldType(f.kind), required |-> f.default = NoDefault,
      default |-> IF f.default = NoDefault THEN NoDefault ELSE ParseDefault(f.default, f.kind)] :
        f \in {fields[i] : i \in {j \in DOMAIN fields : Reported(fields[j])}}}

-----------------------------------------------------------------------------
(* TypedConfig.  A missing key reads as nil. *)

Get(key) == IF key \in DOMAIN src THEN src[key] ELSE Nil

(* Mutant of StringAt: the text is handed out as it is.                    *)
RawStringAt(key) == IF Get(key) = Nil THEN EmptyText ELSE TextOf(Get(key))

StringAt(key) == IF Get(key) = Nil THEN EmptyText ELSE ResolveString(TextOf(Get(key)))

IntAt(key) == ToInt(Get(key))
BoolAt(key) == ToBool(Get(key))
MapAt(key) == IF Get(key).kind = "map" THEN ResolveMap(Get(key)) ELSE Failed
SliceAt(key) == IF Get(key).kind = "slice" THEN Get(key) ELSE Failed

-----------------------------------------------------------------------------
(* Correctness *)

\* A default that both readers of the tag understand in the same way: no
\* template in it, no bits to cut off, and no other word for true than "true".
Plain(f) ==
    CASE f.kind \in Texts -> ~f.default.template
      [] f.kind \in {"int64", "float", "interface"} -> TRUE
      [] f.kind = "int32" -> Fits(Head(f.default.number))
      [] f.kind = "float32" -> 2 * Head(f.default.number) \in Float32
      [] f.kind = "bool" -> f.default.word \notin {"1", "yes"}
                              /\ (f.default.word = "true" => ~f.default.padded)
      [] OTHER -> FALSE

\* A call that succeeds without an argument delivers the default that the
\* schema reports for it if the default tag is plain: setFieldValue and
\* parseDefault read the one tag with different conversions.
DefaultsAsReported ==
    outcome = "ok" =>
        \A i \in DOMAIN struct : \A reported \in GenerateSchema(struct) :
            LET f == struct[i]
            IN  (reported.key = KeyOf(f) /\ ~Given(f) /\ ~reported.required /\ Plain(f))
                => dst[i] = reported.default

\* What a field of the schema's type is entered as.
Enters(type, v) ==
    CASE type \in {"text", "expression"} -> v.kind = "string"
      [] type = "number" -> v.kind = "float"
      [] type = "toggle" -> v.kind = "bool"
      [] type = "tags" -> v.kind = "slice"
      [] type = "keyvalue" -> v.kind = "map"

\* A field of the kind can hold the number that was entered.
Holds(kind, v) ==
    CASE kind = "int64" -> v.halves % 2 = 0
      [] kind = "int32" -> v.halves % 2 = 0 /\ Fits(v.halves \div 2)
      [] kind = "float32" -> v.halves \in Float32
      [] OTHER -> TRUE

Unchanged(kind, v, stored) ==
    IF kind \in {"int64", "int32"} THEN 2 * stored.n = v.halves ELSE stored = v

\* Every value entered in the way the schema asks for is accepted, and what is
\* no text and no map is stored unchanged wherever its field can hold it: what
\* GenerateSchema reports of a kind and what setFieldValue takes fit together.
EnteredIsAccepted ==
    LET entered(f) ==
            Given(f) => \E reported \in GenerateSchema(struct) :
                           reported.key = KeyOf(f) /\ Enters(reported.type, src[KeyOf(f)])
        usable(f) == f.exported /\ f.kind \in Ordinary /\ entered(f)
                        /\ (f.default # NoDefault => Given(f))
    IN  (\A i \in DOMAIN struct : usable(struct[i])) =>
            /\ outcome \in {"running", "ok"}
            /\ outcome = "ok" =>
                  \A i \in DOMAIN struct :
                     LET f == struct[i] v == src[KeyOf(f)]
                     IN  (Given(f) /\ f.kind \in Numbers \cup {"bool", "slice"} /\ Holds(f.kind, v))
                         => Unchanged(f.kind, v, dst[i])

\* No text of the struct holds a template after a call that succeeded, in a
\* string, in a map or in a map of a map; executors use them as they are.
NoTemplateLeft ==
    outcome = "ok" =>
        \A i \in DOMAIN struct :
            /\ struct[i].kind \in Texts => ~dst[i].text.template
            /\ dst[i].kind = "map" /\ struct[i].kind = "map" =>
                  \A path \in DOMAIN dst[i].of :
                     dst[i].of[path].kind = "string" => ~dst[i].of[path].text.template

\* An executor whose struct has exported fields of ordinary kinds and int16
\* is not brought down by any arguments: what does not fit is an error.
NeverPanics ==
    (\A i \in DOMAIN struct : struct[i].exported /\ struct[i].kind \in Ordinary \cup {"int16"})
    => outcome # "panic"

\* ResolveConfig and the accessors of TypedConfig give an executor the same
\* value for an argument.
AccessorsAgree ==
    outcome = "ok" =>
        \A i \in DOMAIN struct :
            LET f == struct[i]
            IN  Given(f) =>
                  CASE f.kind \in Texts -> dst[i].text = StringAt(KeyOf(f))
                    [] f.kind = "int64" -> dst[i] = IntAt(KeyOf(f))
                    [] f.kind = "bool" -> dst[i] = BoolAt(KeyOf(f))
                    [] f.kind = "map" -> dst[i] \in {Nil, MapAt(KeyOf(f))}
                    [] f.kind = "slice" -> dst[i] \in {Nil, SliceAt(KeyOf(f))}
                    [] OTHER -> TRUE

\* README.md:519, "Default value if field is missing": a number in the default
\* tag of an integer field that can hold it is what a call without the
\* argument finds there.
MissingTakesDefault ==
    outcome = "ok" =>
        \A i \in DOMAIN struct :
            LET f == struct[i]
            IN  (/\ f.kind \in {"int64"} \cup Narrow /\ f.exported /\ ~Given(f)
                 /\ f.default # NoDefault /\ f.default.number # NoNumber
                 /\ f.kind \in Narrow => Fits(Head(f.default.number)))
                => dst[i] = Whole(Head(f.default.number))

\* README.md:368, "All fields are typed and resolved!", below a struct with a
\* slice: no text in a field holds a template once the call has succeeded.
AllFieldsResolved == outcome = "ok" => \A i \in DOMAIN struct : ~HoldsTemplate(dst[i])

=============================================================================
