-------------------------- MODULE ConfigDecodeProofs --------------------------
(***************************************************************************)
(* Theorems on ConfigDecode, for any structs, documents and constraints.   *)
(***************************************************************************)
EXTENDS ConfigDecode, TLAPS

\* Every default of an integer field is one that its Go type holds; the code
\* declares others too, and cuts them when it stores them.
DefaultsFit ==
    \A f \in Among(fields) :
        f.field.type = "int" /\ f.default # NoValue => f.default[2] \in Width(f.field.go)

\* No requiredWhen names a key twice; the code reports the last of the two
\* conditions, and decodes by both.
ConditionsDiffer ==
    \A f \in Among(fields) : \A i, j \in DOMAIN f.when : f.when[i].key = f.when[j].key => i = j

-----------------------------------------------------------------------------
(* The inductive invariant *)

Started == stage \notin {"start", "panicked"}

Key(i) == fields[i].field.key

\* The value of a round: the document's or the default.
Value(f) == IF Given(f) THEN doc[f.field.key] ELSE f.default

RefusedAt == {i \in DOMAIN fields : Given(fields[i]) /\ ~Accepts(fields[i], doc[Key(i)])}

\* The fields that the second loop finds required and empty.
LacksAt ==
    {i \in DOMAIN fields : /\ Skill(fields[i]) /\ effective[Key(i)] = Empty
                           /\ fields[i].field.required \/ Holds(fields[i])}

\* What a round of the first loop leaves behind for a value that is not refused.
Kept(i) ==
    /\ Key(i) \in DOMAIN effective
    /\ effective[Key(i)] = OrZero(fields[i], Value(fields[i]))
    /\ dst[Key(i)] = IF Skill(fields[i]) /\ Value(fields[i]) # NoValue
                     THEN Stored(fields[i], Value(fields[i])) ELSE Zero(fields[i])

KeptUpTo(n) == \A i \in DOMAIN fields \ RefusedAt : i < n => Kept(i)

\* The errors are those of the fields found, all and only.
Reported(found) ==
    /\ \A i \in found : \E e \in errs : e.key = Key(i)
    /\ \A e \in errs : \E i \in found : e.key = Key(i)

Shapes ==
    /\ struct \in Structs
    /\ stage \in {"start", "panicked", "serving", "overlay", "require", "done"}
    /\ doc \in Documents \cup {<<>>}
    /\ strict \in BOOLEAN
    /\ at \in 1 .. (Len(struct) + 1)
    /\ Decoding => DOMAIN dst = {Key(j) : j \in DOMAIN fields}
    /\ Decoding => DOMAIN effective \subseteq DOMAIN dst
    /\ Started => Declares(struct)

Loops ==
    /\ stage = "overlay" =>
          /\ KeptUpTo(at)
          /\ \A i \in DOMAIN fields : i >= at => dst[Key(i)] = Zero(fields[i])
          /\ Reported({i \in RefusedAt : i < at})
    /\ stage = "require" =>
          /\ strict /\ RefusedAt = {} /\ KeptUpTo(Len(fields) + 1)
          /\ Reported({i \in LacksAt : i < at})
    /\ stage = "done" =>
          /\ KeptUpTo(Len(fields) + 1)
          /\ RefusedAt # {} => Reported(RefusedAt)
          /\ RefusedAt = {} /\ strict => Reported(LacksAt)
          /\ RefusedAt = {} /\ ~strict => errs = {}

\* What errors print is what the document gives a field that is no secret, or
\* what a condition was declared with.
Shown ==
    Decoding => \A e \in errs : \A v \in e.shows :
        \/ \E f \in Among(fields) :
              f.field.type # "secret" /\ f.field.key \in DOMAIN doc /\ doc[f.field.key] = v
        \/ \E f \in Among(fields) : \E c \in Among(f.when) : c.value = v

Inv == Shapes /\ Loops /\ Shown

-----------------------------------------------------------------------------
(* What a declaration makes of a struct *)

(* A declaration has a field for each of the struct's, under its key.      *)
LEMMA FieldsOfStruct ==
    ASSUME struct \in Structs
    PROVE  /\ Len(struct) \in Nat /\ Len(fields) = Len(struct)
           /\ DOMAIN fields = 1 .. Len(fields) /\ DOMAIN struct = DOMAIN fields
           /\ \A i \in DOMAIN fields : Key(i) = struct[i].key /\ fields[i] = Declared(struct, struct[i])
PROOF
<1>1. Len(struct) \in Nat /\ DOMAIN struct = 1 .. Len(struct)
    BY DecodeAssumption
<1>2. fields = [i \in 1 .. Len(struct) |-> Declared(struct, struct[i])]
    BY <1>1 DEF fields, Declaration
<1>3. Len(fields) = Len(struct)
    BY <1>1, <1>2
<1>4. \A sf : Declared(struct, sf).field.key = sf.key
    BY DEF Declared, Constrained
<1> QED
    BY <1>1, <1>2, <1>3, <1>4 DEF Key

(* No two fields have one key.                                             *)
LEMMA KeysDiffer ==
    ASSUME struct \in Structs, Declares(struct)
    PROVE  \A i, j \in DOMAIN fields : Key(i) = Key(j) => i = j
PROOF
<1>1. \A i, j \in DOMAIN struct : struct[i].key = struct[j].key => i = j
    BY DEF Declares, NoRepeats
<1> QED
    BY <1>1, FieldsOfStruct

(* A default has the field's type and passes its constraints.              *)
LEMMA DefaultPasses ==
    ASSUME struct \in Structs, Declares(struct), NEW i \in DOMAIN fields,
           fields[i].default # NoValue
    PROVE  /\ Passes(fields[i].field, fields[i].default)
           /\ fields[i].field.type = "int" => fields[i].default = Num(fields[i].default[2])
PROOF
<1> DEFINE sf == struct[i]
           f == Constrained(sf)
<1>1. i \in DOMAIN struct /\ fields[i] = Declared(struct, sf)
    BY FieldsOfStruct
<1>2. /\ fields[i].field = f
      /\ fields[i].default = IF sf.default = NoTag THEN NoValue ELSE Parsed(f, sf.default)
    BY <1>1 DEF Declared
<1>3. sf.default # NoTag /\ fields[i].default = Parsed(f, sf.default)
    BY <1>2
<1>4. FieldDeclares(sf)
    BY <1>1 DEF Declares
<1>5. ParsesTo(f, sf.default)
    BY <1>3, <1>4 DEF FieldDeclares
<1>6. f.type = "int" => Parsed(f, sf.default) = Num(AsInt[sf.default])
    BY DEF Parsed
<1> QED
    BY <1>2, <1>3, <1>5, <1>6 DEF ParsesTo, Num

(* A condition is on a field of the struct.                                *)
LEMMA ConditionsNamed ==
    ASSUME struct \in Structs, Declares(struct), NEW i \in DOMAIN fields,
           NEW j \in DOMAIN fields[i].when
    PROVE  \E k \in DOMAIN fields : Key(k) = fields[i].when[j].key
PROOF
<1> DEFINE sf == struct[i]
<1>1. i \in DOMAIN struct /\ fields[i] = Declared(struct, sf)
    BY FieldsOfStruct
<1>2. fields[i].when = [l \in DOMAIN sf.when |-> Condition(struct, sf.when[l])]
    BY <1>1 DEF Declared
<1>3. j \in DOMAIN sf.when /\ fields[i].when[j].key = sf.when[j].key
    BY <1>2 DEF Condition
<1>4. sf \in Among(struct) /\ sf.when[j] \in Among(sf.when)
    BY <1>1, <1>3 DEF Among
<1>5. ConditionDeclares(struct, sf, sf.when[j])
    BY <1>4 DEF Declares
<1>6. \E ref \in Among(struct) : ref.key = sf.when[j].key
    BY <1>5 DEF ConditionDeclares
<1> QED
    BY <1>3, <1>6, FieldsOfStruct DEF Among

(* Conditions on different keys are reported as they are decoded by.       *)
LEMMA ConditionsReported ==
    ASSUME struct \in Structs, NEW i \in DOMAIN fields,
           \A j, l \in DOMAIN fields[i].when : fields[i].when[j].key = fields[i].when[l].key => j = l
    PROVE  LET f == fields[i]
           IN  /\ DOMAIN f.requiredWhen = {f.when[j].key : j \in DOMAIN f.when}
               /\ \A j \in DOMAIN f.when : f.requiredWhen[f.when[j].key] = f.when[j].value
               /\ f.when = <<>> <=> DOMAIN f.when = {}
PROOF
<1> DEFINE sf == struct[i]
           when == [j \in DOMAIN sf.when |-> Condition(struct, sf.when[j])]
           last(k) == CHOOSE j \in DOMAIN when :
                        when[j].key = k /\ \A l \in DOMAIN when : when[l].key = k => l <= j
<1>1. i \in DOMAIN struct /\ fields[i] = Declared(struct, sf)
    BY FieldsOfStruct
<1>2. /\ fields[i].when = when
      /\ fields[i].requiredWhen = [k \in {when[j].key : j \in DOMAIN when} |-> when[last(k)].value]
    BY <1>1 DEF Declared
<1>3. Len(sf.when) \in Nat /\ DOMAIN sf.when = 1 .. Len(sf.when) /\ DOMAIN when = DOMAIN sf.when
    BY <1>1, DecodeAssumption
<1>4. ASSUME NEW j \in DOMAIN when PROVE last(when[j].key) = j
  <2>1. \A l \in DOMAIN when : when[l].key = when[j].key => l = j
    BY <1>2
  <2>2. j \in Nat
    BY <1>3
  <2> HIDE DEF when
  <2>3. \A l \in DOMAIN when : when[l].key = when[j].key => l <= j
    BY <2>1, <2>2
  <2> QED
    BY <2>1, <2>3
<1>5. when = <<>> <=> DOMAIN when = {}
    BY <1>3
<1> HIDE DEF when, last
<1>6. DOMAIN fields[i].requiredWhen = {fields[i].when[j].key : j \in DOMAIN fields[i].when}
    BY <1>2
<1>7. ASSUME NEW j \in DOMAIN fields[i].when
      PROVE  fields[i].requiredWhen[fields[i].when[j].key] = fields[i].when[j].value
    BY <1>2, <1>4
<1> QED
    BY <1>2, <1>5, <1>6, <1>7

(* What the Go type holds is stored as it is.                              *)
LEMMA StoredAsIs ==
    ASSUME NEW f, NEW v, f.field.type = "int" => v = Num(v[2]) /\ v[2] \in Width(f.field.go)
    PROVE  Stored(f, v) = v
PROOF
<1>1. CASE f.field.type = "int"
  <2>1. PICK n : n = v[2]
    OBVIOUS
  <2>2. n \in Width(f.field.go) /\ v = Num(n)
    BY <1>1, <2>1
  <2>3. Wrapped(f.field.go, n) = n
    <3>1. CASE f.field.go = "int8"
      <4>1. n + 128 \in 0 .. 255
        BY <2>2, <3>1 DEF Width
      <4>2. (n + 128) % 256 = n + 128
        BY <4>1
      <4> QED
        BY <2>2, <3>1, <4>2 DEF Wrapped, Width
    <3>2. CASE f.field.go # "int8"
      BY <3>2 DEF Wrapped
    <3> QED
      BY <3>1, <3>2
  <2> QED
    BY <1>1, <2>1, <2>2, <2>3 DEF Stored
<1>2. CASE f.field.type # "int"
    BY <1>2 DEF Stored
<1> QED
    BY <1>1, <1>2

-----------------------------------------------------------------------------
(* The steps *)

(* A step that leaves the struct alone leaves the declaration alone.       *)
LEMMA SameFields ==
    ASSUME UNCHANGED struct
    PROVE  fields' = fields
PROOF BY DEF fields

(* No struct has been declared.                                            *)
LEMMA InitInv == Init => Inv
PROOF
<1> SUFFICES ASSUME Init PROVE Inv
    OBVIOUS
<1>1. Len(struct) \in Nat /\ struct \in Structs
    BY DecodeAssumption DEF Init
<1>2. stage = "start" /\ doc = <<>> /\ strict = FALSE /\ at = 1
    BY DEF Init
<1>3. Shapes
  <2>1. strict \in BOOLEAN
    BY <1>2
  <2>2. at \in 1 .. (Len(struct) + 1)
    BY <1>1, <1>2
  <2> QED
    BY <1>1, <1>2, <2>1, <2>2 DEF Shapes, Decoding, Started
<1>4. Loops /\ Shown
    BY <1>2 DEF Loops, Shown, Decoding
<1> QED
    BY <1>3, <1>4 DEF Inv

(* Outside the loops there is nothing to say of them.                      *)
LEMMA IdleInv ==
    ASSUME Inv, Declare \/ Return
    PROVE  Inv'
PROOF
<1>1. UNCHANGED struct /\ stage' \in {"serving", "panicked"}
    BY DEF Declare, Return
<1>2. stage' = "serving" => Declares(struct)
    BY DEF Declare, Return, Inv, Shapes, Started
<1>3. doc' \in Documents \cup {<<>>} /\ strict' \in BOOLEAN /\ at' \in 1 .. (Len(struct) + 1)
  <2>1. Len(struct) \in Nat
    BY FieldsOfStruct DEF Inv, Shapes
  <2>2. CASE Declare
    BY <2>2 DEF Declare, Inv, Shapes
  <2>3. CASE Return
    <3>1. strict' \in BOOLEAN
      BY <2>3 DEF Return
    <3> QED
      BY <2>1, <2>3, <3>1 DEF Return
  <2> QED
    BY <2>2, <2>3
<1>4. Shapes'
    BY <1>1, <1>2, <1>3 DEF Inv, Shapes, Started, Decoding
<1>5. Loops' /\ Shown'
    BY <1>1 DEF Loops, Shown, Decoding
<1> QED
    BY <1>4, <1>5 DEF Inv

(* A decode begins with the zero struct and no errors.                     *)
LEMMA BeginInv ==
    ASSUME Inv, NEW d \in Documents \cup {<<>>}, NEW checkRequired \in BOOLEAN,
           Begin(d, checkRequired)
    PROVE  Inv'
PROOF
<1>1. struct \in Structs /\ Declares(struct) /\ Len(struct) \in Nat
    BY FieldsOfStruct DEF Inv, Shapes, Started, Begin
<1>2. /\ UNCHANGED struct /\ stage' = "overlay" /\ doc' = d /\ strict' = checkRequired
      /\ at' = 1 /\ effective' = <<>> /\ errs' = {}
      /\ dst' = [k \in {fields[j].field.key : j \in DOMAIN fields} |->
                   Zero(CHOOSE f \in Among(fields) : f.field.key = k)]
    BY DEF Begin
<1>3. fields' = fields
    BY <1>2, SameFields
<1>4. DOMAIN dst' = {Key(j) : j \in DOMAIN fields}
    BY <1>2 DEF Key
<1>5. ASSUME NEW i \in DOMAIN fields PROVE dst'[Key(i)] = Zero(fields[i])
  <2>1. \A f \in Among(fields) : f.field.key = Key(i) => f = fields[i]
    BY <1>1, KeysDiffer DEF Among, Key
  <2>2. fields[i] \in Among(fields) /\ fields[i].field.key = Key(i)
    BY DEF Among, Key
  <2>3. (CHOOSE f \in Among(fields) : f.field.key = Key(i)) = fields[i]
    BY <2>1, <2>2
  <2>4. Key(i) \in {fields[j].field.key : j \in DOMAIN fields}
    BY DEF Key
  <2> QED
    BY <1>2, <2>3, <2>4
<1>6. Shapes'
    BY <1>1, <1>2, <1>3, <1>4 DEF Shapes, Started, Key
<1>7. Loops'
  <2>1. \A i \in DOMAIN fields : i >= 1
    BY <1>1, FieldsOfStruct
  <2>2. KeptUpTo(at)'
    BY <1>2, <1>3, <1>1, FieldsOfStruct, <2>1 DEF KeptUpTo
  <2>3. Reported({i \in RefusedAt : i < at})'
    BY <1>2, <1>3, <1>1, FieldsOfStruct, <2>1 DEF Reported, RefusedAt
  <2> QED
    BY <1>2, <1>3, <1>5, <2>2, <2>3 DEF Loops, Key
<1>8. Shown'
    BY <1>2 DEF Shown
<1> QED
    BY <1>6, <1>7, <1>8 DEF Inv

(* What every step inside the loops leaves alone.                          *)
LEMMA LoopKeeps ==
    ASSUME Inv, Decoding, UNCHANGED <<struct, doc>>
    PROVE  /\ struct \in Structs /\ Declares(struct)
           /\ Len(fields) \in Nat /\ Len(fields) = Len(struct) /\ DOMAIN fields = 1 .. Len(fields)
           /\ fields' = fields /\ RefusedAt' = RefusedAt
           /\ \A i : Key(i)' = Key(i)
           /\ \A f : Value(f)' = Value(f)
PROOF
<1>1. struct \in Structs /\ Declares(struct)
    BY DEF Inv, Shapes, Started, Decoding
<1>2. fields' = fields
    BY SameFields
<1> QED
    BY <1>1, <1>2, FieldsOfStruct DEF RefusedAt, Key, Value, Given

(* A round of the first loop reports a value or takes it.                  *)
LEMMA OverlayRound ==
    ASSUME Inv, Overlay
    PROVE  /\ at \in DOMAIN fields
           /\ at' = at + 1 /\ UNCHANGED <<struct, stage, doc, strict>>
           /\ at \in RefusedAt =>
                /\ errs' = errs \cup {Refusal(fields[at], doc[Key(at)])}
                /\ UNCHANGED <<dst, effective>>
           /\ at \notin RefusedAt =>
                /\ errs' = errs
                /\ effective' = Assign(effective, Key(at), OrZero(fields[at], Value(fields[at])))
                /\ dst' = IF Skill(fields[at]) /\ Value(fields[at]) # NoValue
                          THEN Assign(dst, Key(at), Stored(fields[at], Value(fields[at]))) ELSE dst
PROOF
<1>1. stage = "overlay" /\ at <= Len(fields) /\ struct \in Structs /\ at \in 1 .. (Len(struct) + 1)
    BY DEF Overlay, InLoop, Inv, Shapes
<1>2. at \in DOMAIN fields
    BY <1>1, FieldsOfStruct
<1>3. at' = at + 1 /\ UNCHANGED <<struct, stage, doc, strict>>
    BY DEF Overlay
<1> DEFINE f == fields[at]
<1>4. CASE ~Given(f)
  <2>1. at \notin RefusedAt /\ Value(f) = f.default
    BY <1>4 DEF RefusedAt, Value
  <2>2. Keep(f, f.default)
    BY <1>4 DEF Overlay, Given
  <2> QED
    BY <1>2, <1>3, <2>1, <2>2 DEF Keep, Key
<1>5. CASE Given(f) /\ Accepts(f, doc[f.field.key])
  <2>1. at \notin RefusedAt /\ Value(f) = doc[f.field.key]
    BY <1>5 DEF RefusedAt, Value, Key
  <2>2. Keep(f, doc[f.field.key])
    BY <1>5 DEF Overlay, Given
  <2> QED
    BY <1>2, <1>3, <2>1, <2>2 DEF Keep, Key
<1>6. CASE Given(f) /\ ~Accepts(f, doc[f.field.key])
  <2>1. at \in RefusedAt
    BY <1>2, <1>6 DEF RefusedAt, Key
  <2>2. errs' = errs \cup {Refusal(f, doc[f.field.key])} /\ UNCHANGED <<dst, effective>>
    BY <1>6 DEF Overlay, Given
  <2> QED
    BY <1>2, <1>3, <2>1, <2>2 DEF Key
<1> QED
    BY <1>4, <1>5, <1>6

(* The first loop: rounds do not disturb each other, since keys differ.    *)
LEMMA OverlayInv ==
    ASSUME Inv, Overlay
    PROVE  Inv'
PROOF
<1>1. /\ stage = "overlay" /\ Shapes /\ Loops /\ Shown
      /\ Decoding
    BY DEF Overlay, InLoop, Inv, Decoding
<1>2. /\ at \in DOMAIN fields
      /\ at' = at + 1 /\ UNCHANGED <<struct, stage, doc, strict>>
    BY OverlayRound
<1>3. /\ struct \in Structs /\ Declares(struct)
      /\ Len(fields) \in Nat /\ Len(fields) = Len(struct) /\ DOMAIN fields = 1 .. Len(fields)
      /\ fields' = fields /\ RefusedAt' = RefusedAt
      /\ \A i : Key(i)' = Key(i)
      /\ \A f : Value(f)' = Value(f)
    BY <1>1, <1>2, LoopKeeps
<1>4. \A i, j \in DOMAIN fields : Key(i) = Key(j) => i = j
    BY <1>3, KeysDiffer
<1>5. /\ DOMAIN dst = {Key(j) : j \in DOMAIN fields} /\ DOMAIN effective \subseteq DOMAIN dst
    BY <1>1 DEF Shapes
<1>6. /\ DOMAIN dst' = DOMAIN dst /\ DOMAIN effective' \subseteq DOMAIN dst
      /\ DOMAIN effective \subseteq DOMAIN effective'
      /\ \A i \in DOMAIN fields : i # at => dst'[Key(i)] = dst[Key(i)]
      /\ \A i \in DOMAIN fields : i # at /\ Key(i) \in DOMAIN effective =>
            effective'[Key(i)] = effective[Key(i)]
  <2>1. CASE at \in RefusedAt
    BY <2>1, <1>5, OverlayRound
  <2>2. CASE at \notin RefusedAt
    BY <2>2, <1>2, <1>4, <1>5, OverlayRound DEF Assign
  <2> QED
    BY <2>1, <2>2
<1>7. Shapes'
  <2>1. at' \in 1 .. (Len(struct) + 1)
    BY <1>2, <1>3
  <2> QED
    BY <1>1, <1>2, <1>3, <1>5, <1>6, <2>1 DEF Shapes, Started, Decoding
<1>8. KeptUpTo(at)'
  <2>1. ASSUME NEW i \in DOMAIN fields \ RefusedAt, i < at + 1 PROVE Kept(i)'
    <3>1. CASE i = at
      <4>1. dst[Key(i)] = Zero(fields[i])
        BY <1>1, <1>3, <3>1 DEF Loops
      <4>2. Key(i) \in DOMAIN dst
        BY <1>5
      <4>3. /\ Key(i) \in DOMAIN effective'
            /\ effective'[Key(i)] = OrZero(fields[i], Value(fields[i]))
        BY <2>1, <3>1, OverlayRound DEF Assign
      <4>4. dst'[Key(i)] = IF Skill(fields[i]) /\ Value(fields[i]) # NoValue
                           THEN Stored(fields[i], Value(fields[i])) ELSE Zero(fields[i])
        BY <2>1, <3>1, <4>1, <4>2, OverlayRound DEF Assign
      <4> QED
        BY <1>3, <4>3, <4>4 DEF Kept
    <3>2. CASE i # at
      <4>1. i < at
        BY <1>2, <1>3, <2>1, <3>2
      <4>2. Kept(i)
        BY <1>1, <2>1, <4>1 DEF Loops, KeptUpTo
      <4> QED
        BY <1>3, <1>6, <3>2, <4>2 DEF Kept
    <3> QED
      BY <3>1, <3>2
  <2> QED
    BY <1>2, <1>3, <2>1 DEF KeptUpTo
<1>9. \A i \in DOMAIN fields : i >= at + 1 => dst'[Key(i)] = Zero(fields[i])
  <2>1. \A i \in DOMAIN fields : i >= at => dst[Key(i)] = Zero(fields[i])
    BY <1>1 DEF Loops
  <2>2. \A i \in DOMAIN fields : i >= at + 1 => i >= at /\ i # at
    BY <1>2, <1>3
  <2> QED
    BY <1>6, <2>1, <2>2
<1>10. Reported({i \in RefusedAt : i < at})'
  <2>1. Reported({i \in RefusedAt : i < at})
    BY <1>1 DEF Loops
  <2>2. RefusedAt \subseteq DOMAIN fields
    BY DEF RefusedAt
  <2>3. \A i \in DOMAIN fields : i < at + 1 <=> i < at \/ i = at
    BY <1>2, <1>3
  <2>4. CASE at \in RefusedAt
    <3>1. errs' = errs \cup {Refusal(fields[at], doc[Key(at)])}
      BY <2>4, OverlayRound
    <3>2. Refusal(fields[at], doc[Key(at)]).key = Key(at)
      BY DEF Refusal, Err, Key
    <3> QED
      BY <1>2, <1>3, <2>1, <2>2, <2>3, <2>4, <3>1, <3>2 DEF Reported
  <2>5. CASE at \notin RefusedAt
    <3>1. errs' = errs
      BY <2>5, OverlayRound
    <3>2. {i \in RefusedAt : i < at + 1} = {i \in RefusedAt : i < at}
      BY <2>2, <2>3, <2>5
    <3> QED
      BY <1>2, <1>3, <2>1, <3>1, <3>2 DEF Reported
  <2> QED
    BY <2>4, <2>5
<1>11. Loops'
    BY <1>1, <1>2, <1>3, <1>8, <1>9, <1>10 DEF Loops
<1>12. Shown'
  <2>1. ASSUME NEW e \in errs', NEW v \in e.shows, e \notin errs
        PROVE  fields[at].field.type # "secret" /\ Key(at) \in DOMAIN doc /\ doc[Key(at)] = v
    <3>1. at \in RefusedAt /\ e = Refusal(fields[at], doc[Key(at)])
      BY <2>1, OverlayRound
    <3>2. Key(at) \in DOMAIN doc
      BY <3>1 DEF RefusedAt, Given, Gives, Key
    <3>3. e.shows = {} \/ (e.shows = {doc[Key(at)]} /\ fields[at].field.type \in {"enum", "int"})
      BY <3>1 DEF Refusal, Err
    <3> QED
      BY <2>1, <3>2, <3>3
  <2>2. fields[at] \in Among(fields)
    BY <1>2 DEF Among
  <2> QED
    BY <1>1, <1>2, <1>3, <2>1, <2>2 DEF Shown, Key, Decoding
<1> QED
    BY <1>7, <1>11, <1>12 DEF Inv

(* The end of the first loop: what is left to say is what a strict decode  *)
(* of values that were all taken finds missing.                            *)
LEMMA OverlaidInv ==
    ASSUME Inv, Overlaid
    PROVE  Inv'
PROOF
<1>1. /\ stage = "overlay" /\ Shapes /\ Loops /\ Shown /\ Decoding /\ at > Len(fields)
      /\ stage' = IF ~strict \/ errs # {} THEN "done" ELSE "require"
      /\ at' = 1 /\ UNCHANGED <<struct, doc, strict, dst, effective, errs>>
    BY DEF Overlaid, Inv, Decoding
<1>2. /\ struct \in Structs /\ Declares(struct)
      /\ Len(fields) \in Nat /\ Len(fields) = Len(struct) /\ DOMAIN fields = 1 .. Len(fields)
      /\ fields' = fields /\ RefusedAt' = RefusedAt
      /\ \A i : Key(i)' = Key(i)
      /\ \A f : Value(f)' = Value(f)
    BY <1>1, LoopKeeps
<1>3. at \in Nat /\ \A i \in DOMAIN fields : i < at /\ i < Len(fields) + 1 /\ ~(i < 1)
    BY <1>1, <1>2 DEF Shapes
<1>4. Shapes'
    BY <1>1, <1>2 DEF Shapes, Started, Decoding
<1>5. KeptUpTo(Len(fields) + 1)'
  <2>1. \A i : Kept(i) => Kept(i)'
    BY <1>1, <1>2 DEF Kept
  <2>2. KeptUpTo(at)
    BY <1>1 DEF Loops
  <2> QED
    BY <1>2, <1>3, <2>1, <2>2 DEF KeptUpTo
<1>6. Reported(RefusedAt) /\ (errs = {} <=> RefusedAt = {})
  <2>1. {i \in RefusedAt : i < at} = RefusedAt
    BY <1>3 DEF RefusedAt
  <2>2. Reported(RefusedAt)
    BY <1>1, <2>1 DEF Loops
  <2> QED
    BY <2>2 DEF Reported
<1>7. Loops'
  <2>1. CASE ~strict \/ errs # {}
    BY <1>1, <1>2, <1>5, <1>6, <2>1 DEF Loops, Reported
  <2>2. CASE strict /\ errs = {}
    <3>1. {i \in LacksAt' : i < 1} = {}
      BY <1>2, <1>3 DEF LacksAt
    <3> QED
      BY <1>1, <1>2, <1>5, <1>6, <2>2, <3>1 DEF Loops, Reported
  <2> QED
    BY <2>1, <2>2
<1>8. Shown'
    BY <1>1, <1>2 DEF Shown
<1> QED
    BY <1>4, <1>7, <1>8 DEF Inv

(* A round of the second loop reports a field it finds required and empty. *)
LEMMA RequireRound ==
    ASSUME Inv, Require
    PROVE  /\ at \in DOMAIN fields
           /\ at' = at + 1 /\ UNCHANGED <<struct, stage, doc, strict, dst, effective>>
           /\ at \notin LacksAt => errs' = errs
           /\ at \in LacksAt =>
                \E reason, shows :
                   /\ errs' = errs \cup {Err(fields[at], reason, shows)}
                   /\ \A v \in shows : \E c \in Among(fields[at].when) : c.value = v
PROOF
<1> DEFINE f == fields[at]
<1>1. stage = "require" /\ at <= Len(fields) /\ struct \in Structs /\ at \in 1 .. (Len(struct) + 1)
    BY DEF Require, InLoop, Inv, Shapes
<1>2. at \in DOMAIN fields
    BY <1>1, FieldsOfStruct
<1>3. at' = at + 1 /\ UNCHANGED <<struct, stage, doc, strict, dst, effective>>
    BY DEF Require
<1>4. errs' = errs \cup
           IF ~Skill(f) \/ effective[f.field.key] # Empty THEN {}
           ELSE IF f.field.required THEN {Err(f, "required", {})}
           ELSE IF Holds(f) THEN {Err(f, "required when", {f.when[j].value : j \in DOMAIN f.when})}
           ELSE {}
    BY DEF Require
<1>5. at \in LacksAt <=> Skill(f) /\ effective[f.field.key] = Empty /\ (f.field.required \/ Holds(f))
    BY <1>2 DEF LacksAt, Key
<1>6. ASSUME at \in LacksAt
      PROVE  \E reason, shows :
                /\ errs' = errs \cup {Err(f, reason, shows)}
                /\ \A v \in shows : \E c \in Among(f.when) : c.value = v
  <2>1. CASE f.field.required
    <3>1. errs' = errs \cup {Err(f, "required", {})}
      BY <1>4, <1>5, <1>6, <2>1
    <3> QED
      BY <3>1
  <2>2. CASE ~f.field.required
    <3>1. errs' = errs \cup {Err(f, "required when", {f.when[j].value : j \in DOMAIN f.when})}
      BY <1>4, <1>5, <1>6, <2>2
    <3>2. \A v \in {f.when[j].value : j \in DOMAIN f.when} : \E c \in Among(f.when) : c.value = v
      BY DEF Among
    <3> QED
      BY <3>1, <3>2
  <2> QED
    BY <2>1, <2>2
<1>7. at \notin LacksAt => errs' = errs
    BY <1>4, <1>5
<1> QED
    BY <1>2, <1>3, <1>6, <1>7

(* The second loop adds the errors of fields that lack a value.            *)
LEMMA RequireInv ==
    ASSUME Inv, Require
    PROVE  Inv'
PROOF
<1>1. stage = "require" /\ Shapes /\ Loops /\ Shown /\ Decoding
    BY DEF Require, InLoop, Inv, Decoding
<1>2. /\ at \in DOMAIN fields
      /\ at' = at + 1 /\ UNCHANGED <<struct, stage, doc, strict, dst, effective>>
    BY RequireRound
<1>3. /\ struct \in Structs /\ Declares(struct)
      /\ Len(fields) \in Nat /\ Len(fields) = Len(struct) /\ DOMAIN fields = 1 .. Len(fields)
      /\ fields' = fields /\ RefusedAt' = RefusedAt
      /\ \A i : Key(i)' = Key(i)
      /\ \A f : Value(f)' = Value(f)
    BY <1>1, <1>2, LoopKeeps
<1>4. LacksAt' = LacksAt
    BY <1>2, <1>3 DEF LacksAt, Holds
<1>5. Shapes'
  <2>1. at' \in 1 .. (Len(struct) + 1)
    BY <1>2, <1>3
  <2> QED
    BY <1>1, <1>2, <1>3, <2>1 DEF Shapes, Started, Decoding
<1>6. KeptUpTo(Len(fields) + 1)'
  <2>1. \A i : Kept(i) => Kept(i)'
    BY <1>2, <1>3 DEF Kept
  <2>2. KeptUpTo(Len(fields) + 1)
    BY <1>1 DEF Loops
  <2> QED
    BY <1>3, <2>1, <2>2 DEF KeptUpTo
<1>7. Reported({i \in LacksAt : i < at})'
  <2>1. Reported({i \in LacksAt : i < at})
    BY <1>1 DEF Loops
  <2>2. LacksAt \subseteq DOMAIN fields
    BY DEF LacksAt
  <2>3. \A i \in DOMAIN fields : i < at + 1 <=> i < at \/ i = at
    BY <1>2, <1>3
  <2>4. CASE at \in LacksAt
    <3>1. PICK reason, shows : errs' = errs \cup {Err(fields[at], reason, shows)}
      BY <2>4, RequireRound
    <3>2. Err(fields[at], reason, shows).key = Key(at)
      BY DEF Err, Key
    <3> QED
      BY <1>2, <1>3, <1>4, <2>1, <2>2, <2>3, <2>4, <3>1, <3>2 DEF Reported
  <2>5. CASE at \notin LacksAt
    <3>1. errs' = errs
      BY <2>5, RequireRound
    <3>2. {i \in LacksAt : i < at + 1} = {i \in LacksAt : i < at}
      BY <2>2, <2>3, <2>5
    <3> QED
      BY <1>2, <1>3, <1>4, <2>1, <3>1, <3>2 DEF Reported
  <2> QED
    BY <2>4, <2>5
<1>8. Loops'
    BY <1>1, <1>2, <1>3, <1>6, <1>7 DEF Loops
<1>9. Shown'
  <2>1. ASSUME NEW e \in errs', NEW v \in e.shows, e \notin errs
        PROVE  \E c \in Among(fields[at].when) : c.value = v
    <3>1. CASE at \in LacksAt
      <4>1. PICK reason, shows :
               /\ errs' = errs \cup {Err(fields[at], reason, shows)}
               /\ \A w \in shows : \E c \in Among(fields[at].when) : c.value = w
        BY <3>1, RequireRound
      <4>2. e.shows = shows
        BY <2>1, <4>1 DEF Err
      <4> QED
        BY <2>1, <4>1, <4>2
    <3>2. CASE at \notin LacksAt
      BY <2>1, <3>2, RequireRound
    <3> QED
      BY <3>1, <3>2
  <2>2. fields[at] \in Among(fields)
    BY <1>2 DEF Among
  <2> QED
    BY <1>1, <1>2, <1>3, <2>1, <2>2 DEF Shown, Decoding
<1> QED
    BY <1>5, <1>8, <1>9 DEF Inv

(* The end of the second loop: every field that lacks a value is reported. *)
LEMMA RequiredInv ==
    ASSUME Inv, Required
    PROVE  Inv'
PROOF
<1>1. /\ stage = "require" /\ Shapes /\ Loops /\ Shown /\ Decoding /\ at > Len(fields)
      /\ stage' = "done" /\ UNCHANGED <<struct, doc, strict, at, dst, effective, errs>>
    BY DEF Required, Inv, Decoding
<1>2. /\ struct \in Structs /\ Declares(struct)
      /\ Len(fields) \in Nat /\ Len(fields) = Len(struct) /\ DOMAIN fields = 1 .. Len(fields)
      /\ fields' = fields /\ RefusedAt' = RefusedAt
      /\ \A i : Key(i)' = Key(i)
      /\ \A f : Value(f)' = Value(f)
    BY <1>1, LoopKeeps
<1>3. LacksAt' = LacksAt
    BY <1>1, <1>2 DEF LacksAt, Holds
<1>4. Shapes'
    BY <1>1, <1>2 DEF Shapes, Started, Decoding
<1>5. KeptUpTo(Len(fields) + 1)'
  <2>1. \A i : Kept(i) => Kept(i)'
    BY <1>1, <1>2 DEF Kept
  <2>2. KeptUpTo(Len(fields) + 1)
    BY <1>1 DEF Loops
  <2> QED
    BY <1>2, <2>1, <2>2 DEF KeptUpTo
<1>6. Reported(LacksAt)'
  <2>1. {i \in LacksAt : i < at} = LacksAt
    BY <1>1, <1>2 DEF LacksAt, Shapes
  <2>2. Reported(LacksAt)
    BY <1>1, <2>1 DEF Loops
  <2> QED
    BY <1>1, <1>2, <1>3, <2>2 DEF Reported
<1>7. Loops'
    BY <1>1, <1>2, <1>5, <1>6 DEF Loops
<1>8. Shown'
    BY <1>1, <1>2 DEF Shown, Decoding
<1> QED
    BY <1>4, <1>7, <1>8 DEF Inv

(* The state of the two loops is what Inv says, for every struct that a    *)
(* Skill may declare and every document that a call may carry.             *)
THEOREM Invariance == Spec => []Inv
PROOF
<1>1. Inv /\ [Next]_vars => Inv'
  <2> SUFFICES ASSUME Inv, [Next]_vars PROVE Inv'
    OBVIOUS
  <2>1. CASE Decode \/ Defaults
    BY <2>1, BeginInv DEF Decode, Defaults
  <2>2. CASE UNCHANGED vars
    <3>1. fields' = fields
      BY <2>2, SameFields DEF vars
    <3>2. /\ RefusedAt' = RefusedAt /\ LacksAt' = LacksAt
          /\ \A i : Key(i)' = Key(i)
          /\ \A f : Value(f)' = Value(f)
      BY <2>2, <3>1 DEF vars, RefusedAt, LacksAt, Holds, Key, Value, Given
    <3>3. \A i : Kept(i)' <=> Kept(i)
      BY <2>2, <3>1, <3>2 DEF vars, Kept
    <3>4. Shapes'
      BY <2>2, <3>1, <3>2 DEF vars, Inv, Shapes, Started, Decoding
    <3>5. Loops'
      BY <2>2, <3>1, <3>2, <3>3 DEF vars, Inv, Loops, KeptUpTo, Reported
    <3>6. Shown'
      BY <2>2, <3>1 DEF vars, Inv, Shown, Decoding
    <3> QED
      BY <3>4, <3>5, <3>6 DEF Inv
  <2> QED
    BY <2>1, <2>2, IdleInv, OverlayInv, OverlaidInv, RequireInv, RequiredInv DEF Next
<1> QED
    BY <1>1, InitInv, PTL DEF Spec

(* No error prints a secret's value, unless another field was given it or  *)
(* a condition declares it, whatever the struct (schema.go:481-502).       *)
THEOREM SecretsKept == Spec => []SecretsNeverShown
PROOF
<1>1. Inv => SecretsNeverShown
  <2> SUFFICES ASSUME Inv, Decoding, NEW f \in Among(fields), NEW e \in errs,
                      f.field.type = "secret", f.field.key \in DOMAIN doc,
                      \A g \in Among(fields) :
                         /\ g # f /\ g.field.key \in DOMAIN doc =>
                               doc[g.field.key] # doc[f.field.key]
                         /\ \A c \in Among(g.when) : c.value # doc[f.field.key],
                      doc[f.field.key] \in e.shows
               PROVE  FALSE
    BY DEF SecretsNeverShown
  <2> QED
    BY DEF Inv, Shown
<1> QED
    BY <1>1, Invariance, PTL

-----------------------------------------------------------------------------
(* What a decode delivers *)

(* A decode without errors has refused nothing.                            *)
LEMMA NothingRefused ==
    ASSUME Inv, stage = "done", errs = {}
    PROVE  RefusedAt = {}
PROOF BY DEF Inv, Loops, Reported

(* After the first loop, if it refused nothing, every field has been kept. *)
LEMMA AllKept ==
    ASSUME Inv, stage \in {"require", "done"}, RefusedAt = {}, NEW i \in DOMAIN fields
    PROVE  /\ struct \in Structs /\ Declares(struct) /\ doc \in Documents \cup {<<>>}
           /\ Kept(i)
PROOF
<1>1. /\ struct \in Structs /\ Declares(struct) /\ doc \in Documents \cup {<<>>}
      /\ i < Len(fields) + 1
    BY FieldsOfStruct DEF Inv, Shapes, Started
<1> QED
    BY <1>1 DEF Inv, Loops, KeptUpTo

(* Every field is written as the reported schema has it.                   *)
LEMMA Delivered ==
    ASSUME Inv, DefaultsFit, stage \in {"require", "done"}, RefusedAt = {},
           NEW i \in DOMAIN fields
    PROVE  dst[Key(i)] = IF Skill(fields[i]) THEN Expected(fields[i]) ELSE Zero(fields[i])
PROOF
<1> DEFINE f == fields[i]
<1>1. struct \in Structs /\ Declares(struct) /\ doc \in Documents \cup {<<>>}
    BY AllKept
<1>2. Kept(i)
    BY AllKept
<1>3. CASE Given(f)
  <2>1. Skill(f) /\ Value(f) = doc[Key(i)] /\ Expected(f) = doc[Key(i)] /\ Key(i) \in DOMAIN doc
    BY <1>3 DEF Given, Gives, Value, Expected, Key
  <2>2. RightType(f, doc[Key(i)])
    BY <1>2, <1>3 DEF RefusedAt, Accepts
  <2>3. doc \in Documents
    BY <1>1, <2>1
  <2>4. /\ doc[Key(i)][1] \in {"bool", "number", "text"} =>
              doc[Key(i)] = <<doc[Key(i)][1], doc[Key(i)][2]>>
        /\ doc[Key(i)] # NoValue
    BY <2>1, <2>3, DecodeAssumption
  <2>5. Stored(f, doc[Key(i)]) = doc[Key(i)]
    <3>1. f.field.type = "int" =>
             doc[Key(i)] = Num(doc[Key(i)][2]) /\ doc[Key(i)][2] \in Width(f.field.go)
      BY <2>2, <2>4 DEF RightType, Num
    <3> QED
      BY <3>1, StoredAsIs
  <2> QED
    BY <1>2, <2>1, <2>4, <2>5 DEF Kept
<1>4. CASE ~Given(f) /\ f.default = NoValue
    BY <1>2, <1>4 DEF Kept, Value, Expected
<1>5. CASE ~Given(f) /\ f.default # NoValue
  <2>1. f.field.type = "int" => f.default = Num(f.default[2]) /\ f.default[2] \in Width(f.field.go)
    BY <1>1, <1>5, DefaultPasses DEF DefaultsFit, Among
  <2>2. Stored(f, f.default) = f.default
    BY <2>1, StoredAsIs
  <2>3. Value(f) = f.default /\ Expected(f) = f.default
    BY <1>5 DEF Value, Expected
  <2> QED
    BY <1>2, <1>5, <2>2, <2>3 DEF Kept
<1> QED
    BY <1>3, <1>4, <1>5

(* What an executor meets in its config passes the declared constraints,   *)
(* as long as the declared defaults fit their Go types.                    *)
THEOREM DeliveryChecked == Spec => [](DefaultsFit => DeliveredIsChecked)
PROOF
<1>1. Inv => (DefaultsFit => DeliveredIsChecked)
  <2> SUFFICES ASSUME Inv, DefaultsFit, stage = "done", errs = {}, NEW i \in DOMAIN fields,
                      Skill(fields[i])
               PROVE  \/ Passes(fields[i].field, dst[Key(i)])
                      \/ ~Gives(doc, Key(i)) /\ fields[i].default = NoValue
    BY DEF DeliveredIsChecked, Among, Key
  <2>1. dst[Key(i)] = Expected(fields[i]) /\ RefusedAt = {}
    BY Delivered, NothingRefused
  <2>2. CASE Given(fields[i])
    BY <2>1, <2>2 DEF RefusedAt, Accepts, Expected, Key
  <2>3. CASE ~Given(fields[i]) /\ fields[i].default # NoValue
    <3>1. struct \in Structs /\ Declares(struct)
      BY DEF Inv, Shapes, Started
    <3>2. Passes(fields[i].field, fields[i].default)
      BY <2>3, <3>1, DefaultPasses
    <3> QED
      BY <2>1, <2>3, <3>2 DEF Expected
  <2> QED
    BY <2>2, <2>3 DEF Given, Key
<1> QED
    BY <1>1, Invariance, PTL

-----------------------------------------------------------------------------
(* What a decode reports *)

(* The value a condition is evaluated on is the one the schema gives.      *)
LEMMA EffectiveExpected ==
    ASSUME Inv, stage \in {"require", "done"}, RefusedAt = {}, NEW i \in DOMAIN fields
    PROVE  effective[Key(i)] = Expected(fields[i]) /\ Key(i) \in DOMAIN effective
PROOF
<1> DEFINE f == fields[i]
<1>1. doc \in Documents \cup {<<>>}
    BY AllKept
<1>2. effective[Key(i)] = OrZero(f, Value(f)) /\ Key(i) \in DOMAIN effective
    BY AllKept DEF Kept
<1>3. ASSUME Given(f) PROVE doc[Key(i)] # NoValue
  <2>1. Key(i) \in DOMAIN doc
    BY <1>3 DEF Given, Gives, Key
  <2> QED
    BY <1>1, <2>1, DecodeAssumption
<1> QED
    BY <1>2, <1>3 DEF OrZero, Value, Expected, Key

(* Conditions are judged by the values that are delivered, whatever the    *)
(* struct, as long as the declared defaults fit their Go types.            *)
THEOREM ConditionsAgree == Spec => [](DefaultsFit => ConditionsReadDelivered)
PROOF
<1>1. Inv => (DefaultsFit => ConditionsReadDelivered)
  <2> SUFFICES ASSUME Inv, DefaultsFit, stage = "require", NEW i \in DOMAIN fields
               PROVE  /\ Key(i) \in DOMAIN effective
                      /\ dst[Key(i)] = IF Skill(fields[i]) THEN effective[Key(i)] ELSE Zero(fields[i])
    BY DEF ConditionsReadDelivered, Among, Key
  <2>1. RefusedAt = {}
    BY DEF Inv, Loops
  <2> QED
    BY <2>1, Delivered, EffectiveExpected
<1> QED
    BY <1>1, Invariance, PTL

(* A field lacks a value exactly when the reported schema says so.         *)
LEMMA LacksMissing ==
    ASSUME Inv, ConditionsDiffer, stage = "done", RefusedAt = {}, NEW i \in DOMAIN fields
    PROVE  i \in LacksAt <=> fields[i] \in Missing
PROOF
<1> DEFINE f == fields[i]
<1>1. struct \in Structs /\ Declares(struct)
    BY DEF Inv, Shapes, Started
<1>2. effective[Key(i)] = Expected(f)
    BY EffectiveExpected
<1>3. /\ DOMAIN f.requiredWhen = {f.when[j].key : j \in DOMAIN f.when}
      /\ \A j \in DOMAIN f.when : f.requiredWhen[f.when[j].key] = f.when[j].value
      /\ f.when = <<>> <=> DOMAIN f.when = {}
  <2>1. \A j, l \in DOMAIN f.when : f.when[j].key = f.when[l].key => j = l
    BY DEF ConditionsDiffer, Among
  <2> QED
    BY <1>1, <2>1, ConditionsReported
<1>4. Holds(f) <=> Applies(f)
  <2>1. ASSUME Holds(f) PROVE Applies(f)
    <3>1. ASSUME NEW k \in DOMAIN fields, Key(k) \in DOMAIN f.requiredWhen
          PROVE  Expected(fields[k]) = f.requiredWhen[Key(k)]
      <4>1. PICK j \in DOMAIN f.when : f.when[j].key = Key(k)
        BY <1>3, <3>1
      <4> QED
        BY <1>3, <2>1, <4>1, EffectiveExpected DEF Holds
    <3> QED
      BY <1>3, <2>1, <3>1 DEF Applies, Holds, Among, Key
  <2>2. ASSUME Applies(f) PROVE Holds(f)
    <3>1. ASSUME NEW j \in DOMAIN f.when PROVE effective[f.when[j].key] = f.when[j].value
      <4>1. PICK k \in DOMAIN fields : Key(k) = f.when[j].key
        BY <1>1, ConditionsNamed
      <4>2. Expected(fields[k]) = f.requiredWhen[Key(k)]
        BY <1>3, <2>2, <4>1 DEF Applies, Among, Key
      <4> QED
        BY <1>3, <4>1, <4>2, EffectiveExpected
    <3> QED
      BY <1>3, <2>2, <3>1 DEF Applies, Holds
  <2> QED
    BY <2>1, <2>2
<1> QED
    BY <1>2, <1>4 DEF LacksAt, Missing, Among

(* A strict decode reports every refused value, or else every missing      *)
(* field, or else delivers, as a reader of the reported schema expects:    *)
(* as long as the defaults fit and no requiredWhen names a key twice.      *)
THEOREM SchemaDecided == Spec => [](DefaultsFit /\ ConditionsDiffer => SchemaDecides)
PROOF
<1>1. ASSUME Inv, DefaultsFit, ConditionsDiffer, stage = "done", strict
      PROVE  {e.key : e \in errs} = KeysOf(IF Refused # {} THEN Refused ELSE Missing)
  <2>1. /\ Refused = {fields[i] : i \in RefusedAt} /\ (RefusedAt = {} <=> Refused = {})
    BY DEF Refused, RefusedAt, Among, Key
  <2>2. CASE RefusedAt # {}
    <3>1. Reported(RefusedAt)
      BY <1>1, <2>2 DEF Inv, Loops
    <3> QED
      BY <2>1, <2>2, <3>1 DEF Reported, KeysOf, Key
  <2>3. CASE RefusedAt = {}
    <3>1. Reported(LacksAt)
      BY <1>1, <2>3 DEF Inv, Loops
    <3>2. Missing = {fields[i] : i \in LacksAt}
      <4>1. \A i \in DOMAIN fields : i \in LacksAt <=> fields[i] \in Missing
        BY <1>1, <2>3, LacksMissing
      <4>2. LacksAt \subseteq DOMAIN fields
        BY DEF LacksAt
      <4>3. \A f \in Missing : \E i \in DOMAIN fields : f = fields[i]
        BY DEF Missing, Among
      <4> QED
        BY <4>1, <4>2, <4>3
    <3> QED
      BY <2>1, <2>3, <3>1, <3>2 DEF Reported, KeysOf, Key
  <2> QED
    BY <2>2, <2>3
<1>2. ASSUME Inv, DefaultsFit, stage = "done", errs = {}, NEW f \in Among(fields)
      PROVE  dst[f.field.key] = IF Skill(f) THEN Expected(f) ELSE Zero(f)
    BY <1>2, NothingRefused, Delivered DEF Among, Key
<1>3. Inv => (DefaultsFit /\ ConditionsDiffer => SchemaDecides)
    BY <1>1, <1>2 DEF SchemaDecides
<1> QED
    BY <1>3, Invariance, PTL
=============================================================================
