---------------------------- MODULE ConfigSchema ----------------------------
(***************************************************************************)
(* The declaration of a Skill's operator config (src/config/schema.go): a  *)
(* struct with tags becomes the fields that Health reports and decodeInto  *)
(* reads.  Errors are kept as "this declaration is refused", since         *)
(* NewSkillServer panics on any of them.  Labels, descriptions, summary    *)
(* flags and scopes, which no decode looks at, are left out.               *)
(***************************************************************************)
EXTENDS Integers, Sequences

CONSTANTS
    Texts,      \* strings of tags and documents, the empty one included
    AsInt,      \* strconv.ParseInt, defined on the texts it accepts
    AsBool,     \* strconv.ParseBool, defined on the texts it accepts
    MinInt,     \* math.MinInt64
    MaxInt,     \* math.MaxInt64
    NoTag,      \* the struct tag is not there
    NoValue     \* nil: no default

ASSUME SchemaAssumption ==
    /\ "" \in Texts
    /\ DOMAIN AsInt \subseteq Texts
    /\ \A s \in DOMAIN AsInt : AsInt[s] \in MinInt .. MaxInt
    /\ DOMAIN AsBool \subseteq Texts
    /\ \A s \in DOMAIN AsBool : AsBool[s] \in BOOLEAN
    /\ MinInt \in Int /\ MaxInt \in Int
    /\ MinInt <= -128 /\ 127 <= MaxInt

(* A typed value: what parseText and decode return and set stores.         *)
Bool(b) == <<"bool", b>>
Num(n) == <<"number", n>>
Text(s) == <<"text", s>>

Empty == Text("")

GoInts == {"int8", "int64"}
GoTypes == GoInts \cup {"string", "secret", "bool"}

(* The numbers a Go integer type holds, and what SetInt makes of another.  *)
Width(go) == IF go = "int8" THEN -128 .. 127 ELSE MinInt .. MaxInt

Wrapped(go, n) == IF go = "int8" THEN ((n + 128) % 256) - 128 ELSE n

(* FieldType follows the Go type; the type tag may only repeat it, or make *)
(* a url of a string.                                                      *)
GoFieldType(sf) ==
    CASE sf.go = "secret" -> "secret"
      [] sf.go = "string" -> IF sf.enum = NoTag THEN "string" ELSE "enum"
      [] sf.go = "bool" -> "bool"
      [] OTHER -> "int"

FieldType(sf) == IF sf.type = NoTag THEN GoFieldType(sf) ELSE sf.type

(* field.check, on a value of the field's type.                            *)
Passes(f, v) ==
    /\ f.type = "enum" => v[2] \in f.enum
    /\ f.type = "int" => f.min <= v[2] /\ v[2] <= f.max
    /\ f.type = "string" => v[2] \in f.pattern

(* field.parseText: a default or a condition written in a tag.             *)
Parses(f, s) ==
    CASE f.type = "bool" -> s \in DOMAIN AsBool
      [] f.type = "int" -> s \in DOMAIN AsInt
      [] f.type = "secret" -> FALSE
      [] OTHER -> TRUE

Parsed(f, s) ==
    CASE f.type = "bool" -> Bool(AsBool[s])
      [] f.type = "int" -> Num(AsInt[s])
      [] OTHER -> Text(s)

ParsesTo(f, s) == Parses(f, s) /\ Passes(f, Parsed(f, s))

Among(s) == {s[i] : i \in DOMAIN s}
NoRepeats(s) == \A i, j \in DOMAIN s : s[i] = s[j] => i = j

(* The constraints of a field, read from its tags: no enum, bound or       *)
(* pattern allows everything.                                              *)
Constrained(sf) ==
    [key |-> sf.key, type |-> FieldType(sf), go |-> sf.go,
     audience |-> IF sf.audience = "host" THEN "host" ELSE "skill",
     enum |-> IF sf.enum = NoTag THEN {} ELSE Among(sf.enum),
     min |-> IF sf.min = NoTag THEN MinInt ELSE AsInt[sf.min],
     max |-> IF sf.max = NoTag THEN MaxInt ELSE AsInt[sf.max],
     pattern |-> IF sf.pattern = NoTag THEN Texts ELSE sf.pattern,
     required |-> sf.required # NoTag /\ AsBool[sf.required]]

(* declareField: the tags of one field fit together.                       *)
FieldDeclares(sf) ==
    /\ sf.go \in GoTypes
    /\ \/ sf.type \in {NoTag, GoFieldType(sf)}
       \/ sf.type = "url" /\ GoFieldType(sf) = "string"
    /\ sf.enum # NoTag =>
         FieldType(sf) = "enum" /\ NoRepeats(sf.enum) /\ "" \notin Among(sf.enum)
    /\ sf.required \in DOMAIN AsBool \cup {NoTag}
    /\ sf.audience \in {NoTag, "", "skill", "host"}
    /\ \A bound \in {sf.min, sf.max} \ {NoTag} :
         FieldType(sf) = "int" /\ bound \in DOMAIN AsInt
    /\ sf.min # NoTag /\ sf.max # NoTag => AsInt[sf.min] <= AsInt[sf.max]
    /\ sf.pattern # NoTag => FieldType(sf) = "string"
    /\ sf.default # NoTag => ParsesTo(Constrained(sf), sf.default)

(* A requiredWhen condition names another declared field, not a secret,    *)
(* and a value of its type.                                                *)
ConditionDeclares(struct, sf, cond) ==
    \E ref \in Among(struct) :
        /\ ref.key = cond.key /\ ref # sf
        /\ FieldType(ref) # "secret"
        /\ ParsesTo(Constrained(ref), cond.text)

(* declare: the struct as a whole.                                         *)
Declares(struct) ==
    /\ struct # <<>>
    /\ \A i \in DOMAIN struct : FieldDeclares(struct[i])
    /\ NoRepeats([i \in DOMAIN struct |-> struct[i].key])
    /\ \A sf \in Among(struct) : \A cond \in Among(sf.when) :
         ConditionDeclares(struct, sf, cond)

(* The field named key, once the struct declares.                          *)
Named(struct, key) == CHOOSE sf \in Among(struct) : sf.key = key

Condition(struct, cond) ==
    [key |-> cond.key, value |-> Parsed(Constrained(Named(struct, cond.key)), cond.text)]

(* The declared field: the Field that is reported, with requiredWhen as a  *)
(* map in which the last condition on a key wins, and beside it what       *)
(* decodeInto reads: the same conditions in declaration order.             *)
Declared(struct, sf) ==
    LET f == Constrained(sf)
        when == [j \in DOMAIN sf.when |-> Condition(struct, sf.when[j])]
        last(k) == CHOOSE j \in DOMAIN when :
                     when[j].key = k /\ \A l \in DOMAIN when : when[l].key = k => l <= j
    IN  [field |-> f,
         default |-> IF sf.default = NoTag THEN NoValue ELSE Parsed(f, sf.default),
         when |-> when,
         requiredWhen |-> [k \in {when[j].key : j \in DOMAIN when} |-> when[last(k)].value]]

Declaration(struct) == [i \in DOMAIN struct |-> Declared(struct, struct[i])]
=============================================================================
