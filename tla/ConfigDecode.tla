---------------------------- MODULE ConfigDecode ----------------------------
(***************************************************************************)
(* decodeInto (src/config/schema.go:521-576) for every call of a Skill: a  *)
(* first loop over the declared fields overlays the document on the        *)
(* defaults, a second one, run when no value was invalid, looks for fields *)
(* that are required and still empty.  One action per round of a loop.     *)
(* Decode runs it strictly on the platform's document; From without a      *)
(* server runs it on no document and does not ask for required fields.     *)
(***************************************************************************)
EXTENDS ConfigSchema

CONSTANTS
    Structs,    \* the structs a Skill may be written with
    Documents   \* the documents a call may carry: key -> value

(***************************************************************************)
(* A struct is a sequence of fields whose defaults are texts.  What JSON   *)
(* gives a key is null, a typed value or some other thing without a value. *)
(***************************************************************************)
ASSUME DecodeAssumption ==
    /\ \A s \in Structs :
          /\ Len(s) \in Nat /\ DOMAIN s = 1 .. Len(s)
          /\ \A i \in DOMAIN s :
                /\ s[i].default \in Texts \cup {NoTag}
                /\ Len(s[i].when) \in Nat /\ DOMAIN s[i].when = 1 .. Len(s[i].when)
    /\ \A d \in Documents : \A k \in DOMAIN d :
          /\ d[k][1] \in {"bool", "number", "text"} => d[k] = <<d[k][1], d[k][2]>>
          /\ d[k] # NoValue
    /\ \A s \in Texts : Text(s) # NoValue
    /\ \A s \in DOMAIN AsInt : Num(AsInt[s]) # NoValue
    /\ \A s \in DOMAIN AsBool : Bool(AsBool[s]) # NoValue

VARIABLES
    struct,      \* T, the Skill's config struct
    stage,       \* "start", "panicked", "serving", "overlay", "require", "done"
    doc,         \* the document being decoded
    strict,      \* checkRequired
    at,          \* the field the loop has reached
    dst,         \* the struct being written: key -> value
    effective,   \* what conditions are evaluated on: key -> value
    errs         \* the errors joined so far

vars == <<struct, stage, doc, strict, at, dst, effective, errs>>

fields == Declaration(struct)

Skill(f) == f.field.audience # "host"

(* The zero value of a field's Go type, and of its effective value.        *)
Zero(f) ==
    CASE f.field.type = "bool" -> Bool(FALSE)
      [] f.field.type = "int" -> Num(0)
      [] OTHER -> Empty

(* An error names the key; shows is the value of the document it prints.   *)
Err(f, reason, shows) == [key |-> f.field.key, reason |-> reason, shows |-> shows]

(* A document gives a field a value unless the key is missing or null.     *)
Gives(d, key) == key \in DOMAIN d /\ d[key] # <<"null">>

(* field.decode: the kind of value the field's type wants, within the Go   *)
(* type's width.                                                           *)
RightType(f, v) ==
    CASE f.field.type = "bool" -> v[1] = "bool"
      [] f.field.type = "int" -> v[1] = "number" /\ v[2] \in Width(f.field.go)
      [] OTHER -> v[1] = "text"

(* Mutant of Refusal: every error prints the value.                        *)
RefusalEchoed(f, v) == Err(f, IF RightType(f, v) THEN "constraint" ELSE "type", {v})

(* The error of a value that is refused.  Only enum and int errors print   *)
(* the value.                                                              *)
Refusal(f, v) ==
    IF ~RightType(f, v) THEN Err(f, "type", {})
    ELSE Err(f, "constraint", IF f.field.type \in {"enum", "int"} THEN {v} ELSE {})

(* Mutant of Accepts: the constraints are not looked at.                   *)
AcceptsType(f, v) == RightType(f, v)

Accepts(f, v) == RightType(f, v) /\ Passes(f.field, v)

(* field.set: SetInt keeps the bits that fit.                              *)
Stored(f, v) == IF f.field.type = "int" THEN Num(Wrapped(f.field.go, v[2])) ELSE v

-----------------------------------------------------------------------------
Init ==
    /\ struct \in Structs
    /\ stage = "start"
    /\ doc = <<>> /\ strict = FALSE /\ at = 1
    /\ dst = <<>> /\ effective = <<>> /\ errs = {}

(* NewSkillServer panics on an invalid declaration.                        *)
Declare ==
    /\ stage = "start"
    /\ stage' = IF Declares(struct) THEN "serving" ELSE "panicked"
    /\ UNCHANGED <<struct, doc, strict, at, dst, effective, errs>>

Begin(d, checkRequired) ==
    /\ stage = "serving"
    /\ stage' = "overlay"
    /\ doc' = d
    /\ strict' = checkRequired
    /\ at' = 1
    /\ dst' = [k \in {fields[j].field.key : j \in DOMAIN fields} |->
                 Zero(CHOOSE f \in Among(fields) : f.field.key = k)]
    /\ effective' = <<>>
    /\ errs' = {}
    /\ UNCHANGED struct

(* Decode of a call's document, and From without a server.                 *)
Decode == \E d \in Documents : Begin(d, TRUE)
Defaults == Begin(<<>>, FALSE)

InLoop(point) == stage = point /\ at <= Len(fields)

(* A field's value after defaults: what zeroed returns.                    *)
OrZero(f, v) == IF v = NoValue THEN Zero(f) ELSE v

Assign(m, k, v) == [x \in DOMAIN m \cup {k} |-> IF x = k THEN v ELSE m[x]]

(* Mutant of Keep: conditions see the default.                             *)
KeepDefault(f, v) ==
    /\ dst' = IF Skill(f) /\ v # NoValue THEN Assign(dst, f.field.key, Stored(f, v)) ELSE dst
    /\ effective' = Assign(effective, f.field.key, OrZero(f, f.default))
    /\ UNCHANGED errs

(* The value v of the round is nil, the default or the document's.         *)
Keep(f, v) ==
    /\ dst' = IF Skill(f) /\ v # NoValue THEN Assign(dst, f.field.key, Stored(f, v)) ELSE dst
    /\ effective' = Assign(effective, f.field.key, OrZero(f, v))
    /\ UNCHANGED errs

(* Mutant of Overlay: null is a value like any other.                      *)
OverlayNull ==
    /\ InLoop("overlay")
    /\ LET f == fields[at] key == f.field.key IN
         IF ~Skill(f) \/ key \notin DOMAIN doc THEN Keep(f, f.default)
         ELSE IF Accepts(f, doc[key]) THEN Keep(f, doc[key])
         ELSE errs' = errs \cup {Refusal(f, doc[key])} /\ UNCHANGED <<dst, effective>>
    /\ at' = at + 1
    /\ UNCHANGED <<struct, stage, doc, strict>>

Overlay ==
    /\ InLoop("overlay")
    /\ LET f == fields[at] key == f.field.key IN
         IF ~Skill(f) \/ ~Gives(doc, key) THEN Keep(f, f.default)
         ELSE IF Accepts(f, doc[key]) THEN Keep(f, doc[key])
         ELSE errs' = errs \cup {Refusal(f, doc[key])} /\ UNCHANGED <<dst, effective>>
    /\ at' = at + 1
    /\ UNCHANGED <<struct, stage, doc, strict>>

Overlaid ==
    /\ stage = "overlay" /\ at > Len(fields)
    /\ stage' = IF ~strict \/ errs # {} THEN "done" ELSE "require"
    /\ at' = 1
    /\ UNCHANGED <<struct, doc, strict, dst, effective, errs>>

(* The conditions of a requiredWhen all hold; there is at least one.       *)
Holds(f) ==
    /\ f.when # <<>>
    /\ \A j \in DOMAIN f.when : effective[f.when[j].key] = f.when[j].value

Require ==
    /\ InLoop("require")
    /\ LET f == fields[at] IN
         errs' = errs \cup
           IF ~Skill(f) \/ effective[f.field.key] # Empty THEN {}
           ELSE IF f.field.required THEN {Err(f, "required", {})}
           ELSE IF Holds(f) THEN {Err(f, "required when", {f.when[j].value : j \in DOMAIN f.when})}
           ELSE {}
    /\ at' = at + 1
    /\ UNCHANGED <<struct, stage, doc, strict, dst, effective>>

Required ==
    /\ stage = "require" /\ at > Len(fields)
    /\ stage' = "done"
    /\ UNCHANGED <<struct, doc, strict, at, dst, effective, errs>>

(* The struct or the errors are handed on, and the next call comes.        *)
Return ==
    /\ stage = "done"
    /\ stage' = "serving"
    /\ doc' = <<>> /\ strict' = FALSE /\ at' = 1
    /\ dst' = <<>> /\ effective' = <<>> /\ errs' = {}
    /\ UNCHANGED struct

Next ==
    \/ Declare \/ Decode \/ Defaults
    \/ Overlay \/ Overlaid \/ Require \/ Required \/ Return

Spec == Init /\ [][Next]_vars

-----------------------------------------------------------------------------
Decoding == stage \in {"overlay", "require", "done"}

(* What the reported schema says of a document, without any order: the     *)
(* value a field takes, the fields whose value is refused, and the fields  *)
(* that are missing.                                                       *)
Given(f) == Skill(f) /\ Gives(doc, f.field.key)

Expected(f) ==
    IF Given(f) THEN doc[f.field.key] ELSE IF f.default = NoValue THEN Zero(f) ELSE f.default

Refused == {f \in Among(fields) : Given(f) /\ ~Accepts(f, doc[f.field.key])}

Applies(f) ==
    /\ DOMAIN f.requiredWhen # {}
    /\ \A g \in Among(fields) : g.field.key \in DOMAIN f.requiredWhen =>
         Expected(g) = f.requiredWhen[g.field.key]

Missing ==
    {f \in Among(fields) :
        Skill(f) /\ Expected(f) = Empty /\ (f.field.required \/ Applies(f))}

KeysOf(some) == {f.field.key : f \in some}

(* A strict decode does what a reader of the reported schema expects: it   *)
(* reports every refused value, or else every missing field, or else       *)
(* delivers the document over the defaults and leaves host fields zero.    *)
SchemaDecides ==
    stage = "done" /\ strict =>
        /\ {e.key : e \in errs} = KeysOf(IF Refused # {} THEN Refused ELSE Missing)
        /\ errs = {} => \A f \in Among(fields) :
             dst[f.field.key] = IF Skill(f) THEN Expected(f) ELSE Zero(f)

(* The second loop reads the document only through effective, which the    *)
(* rounds of the first fill beside the struct: the conditions on a field   *)
(* are judged by the very value that the executor will find in it, and     *)
(* nothing of a host field has reached the struct.                         *)
ConditionsReadDelivered ==
    stage = "require" =>
        \A f \in Among(fields) :
            /\ f.field.key \in DOMAIN effective
            /\ dst[f.field.key] = IF Skill(f) THEN effective[f.field.key] ELSE Zero(f)

(* Every value an executor can meet in its config passes the field's       *)
(* declared constraints, or the field has neither value nor default.       *)
DeliveredIsChecked ==
    stage = "done" /\ errs = {} =>
        \A f \in Among(fields) : Skill(f) =>
            \/ Passes(f.field, dst[f.field.key])
            \/ ~Gives(doc, f.field.key) /\ f.default = NoValue

(* No error prints the value of a secret, unless another field was given   *)
(* the same value or a tag declares it.                                    *)
SecretsNeverShown ==
    Decoding => \A f \in Among(fields), e \in errs :
        /\ f.field.type = "secret" /\ f.field.key \in DOMAIN doc
        /\ \A g \in Among(fields) :
             /\ g # f /\ g.field.key \in DOMAIN doc => doc[g.field.key] # doc[f.field.key]
             /\ \A c \in Among(g.when) : c.value # doc[f.field.key]
        => doc[f.field.key] \notin e.shows

(* src/README.md:595: missing or null keys take their declared default.    *)
MissingTakesDefault ==
    stage = "done" /\ errs = {} =>
        \A f \in Among(fields) :
            Skill(f) /\ ~Gives(doc, f.field.key) /\ f.default # NoValue
                => dst[f.field.key] = f.default

(* src/config/schema.go:123, "RequiredWhen in declaration order": a decode *)
(* without errors leaves no field empty that the reported conditions       *)
(* require.                                                                *)
ReportedConditionsEnforced == stage = "done" /\ strict /\ errs = {} => Missing = {}
=============================================================================
