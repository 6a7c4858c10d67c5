-------------------------- MODULE TypedConfigProofs --------------------------
(***************************************************************************)
(* Theorems on TypedConfig, for all structs and arguments that             *)
(* ConfigAssumption allows: fields of any kinds in any order, any values.  *)
(***************************************************************************)
EXTENDS TypedConfig, TLAPS

-----------------------------------------------------------------------------
(* What the conversions return *)

(* The parts of the assumption that are of use one at a time.              *)
LEMMA HalfAssumed == Half \in Nat \ {0}
PROOF BY ConfigAssumption, Zenon

LEMMA ResolutionAssumed ==
    /\ "a list" \in DOMAIN Resolution
    /\ \A word \in DOMAIN Resolution : ~Resolution[word].template
PROOF BY ConfigAssumption, Zenon

(* Text that is resolved holds no template.                                *)
LEMMA Resolved ==
    ASSUME NEW text, IsText(text)
    PROVE  ~ResolveString(text).template
PROOF BY ResolutionAssumed DEF IsText, ResolveString

(* Text is one that ResolveString takes.                                   *)
LEMMA PlainText ==
    ASSUME NEW word, NEW number \in Seq(Int)
    PROVE  IsText(Text(word, number))
PROOF BY DEF Text, IsText

(* So is what a list is printed as.                                        *)
LEMMA ListText ==
    ASSUME NEW template \in BOOLEAN
    PROVE  IsText([Text("a list", NoNumber) EXCEPT !.template = template])
PROOF
<1> DEFINE list == [Text("a list", NoNumber) EXCEPT !.template = template]
<1>1. list.number \in Seq(Int) /\ list.word = "a list"
    BY DEF Text, NoNumber
<1> HIDE DEF list
<1>2. IsText(list)
    BY <1>1, ResolutionAssumed DEF IsText
<1> QED
    BY <1>2 DEF list

(* The text of every value is one that ResolveString takes.                *)
LEMMA TextOfIsText ==
    ASSUME NEW v, IsValue(v)
    PROVE  IsText(TextOf(v))
PROOF
<1>0. NoNumber \in Seq(Int)
    BY DEF NoNumber
<1>1. CASE v.kind = "nil"
  <2>1. TextOf(v) = Text("", NoNumber)
    BY <1>1 DEF TextOf, EmptyText
  <2> QED
    BY <1>0, <2>1, PlainText
<1>2. CASE v.kind = "string"
    BY <1>2 DEF IsValue, IsLeaf, TextOf
<1>3. CASE v.kind = "bool"
  <2>1. TextOf(v) = Text(IF v.on THEN "true" ELSE "false", NoNumber)
    BY <1>3 DEF TextOf, Printed
  <2> QED
    BY <1>0, <2>1, PlainText
<1>4. CASE v.kind = "int"
  <2>1. TextOf(v) = Text("a number", <<v.n>>) /\ <<v.n>> \in Seq(Int)
    BY <1>4 DEF TextOf, Printed, IsValue
  <2> QED
    BY <2>1, PlainText
<1>5. CASE v.kind = "float"
  <2>1. Truncated(v.halves) \in Int
    BY <1>5 DEF IsValue, Truncated
  <2>2. TextOf(v) = Text("a number", <<Truncated(v.halves)>>)
    BY <1>5 DEF TextOf, Printed
  <2>3. <<Truncated(v.halves)>> \in Seq(Int)
    BY <2>1
  <2> QED
    BY <2>2, <2>3, PlainText
<1>6. CASE v.kind = "map"
  <2>1. TextOf(v) = [Text("a list", NoNumber) EXCEPT
                        !.template = \E p \in DOMAIN v.of : HoldsTemplate(v.of[p])]
    BY <1>6 DEF TextOf, Printed
  <2> QED
    BY <2>1, ListText
<1>7. CASE v.kind = "slice"
  <2>1. TextOf(v) = [Text("a list", NoNumber) EXCEPT !.template = HoldsTemplate(v)]
    BY <1>7 DEF TextOf, Printed
  <2>2. HoldsTemplate(v) \in BOOLEAN
    BY DEF HoldsTemplate
  <2> QED
    BY <2>1, <2>2, ListText
<1> QED
    BY <1>1, <1>2, <1>3, <1>4, <1>5, <1>6, <1>7 DEF IsValue

(* What a field of fewer bits keeps fits into it.                          *)
LEMMA WrappedFits ==
    ASSUME NEW n \in Int
    PROVE  Wrapped(n) \in Int /\ Fits(Wrapped(n))
PROOF
<1>1. 2 * Half \in Nat /\ 2 * Half > 0 /\ Half \in Int /\ n + Half \in Int
    BY HalfAssumed
<1>2. (n + Half) % (2 * Half) \in 0 .. (2 * Half - 1)
    BY <1>1
<1> QED
    BY <1>1, <1>2 DEF Wrapped, Fits

(* Leaves of a map that is resolved hold no template.                      *)
LEMMA MapResolved ==
    ASSUME NEW v, IsValue(v), v.kind = "map"
    PROVE  /\ ResolveMap(v).kind = "map"
           /\ \A path \in DOMAIN ResolveMap(v).of :
                 ResolveMap(v).of[path].kind = "string" => ~ResolveMap(v).of[path].text.template
PROOF
<1>1. ResolveMap(v).kind = "map" /\ ResolveMap(v).of = [path \in DOMAIN v.of |-> ResolveLeaf(v.of[path])]
    BY DEF ResolveMap, Map
<1>2. ASSUME NEW leaf, IsLeaf(leaf)
      PROVE  ResolveLeaf(leaf).kind = "string" => ~ResolveLeaf(leaf).text.template
  <2>1. CASE leaf.kind = "string"
    <3>1. ResolveLeaf(leaf).text = ResolveString(leaf.text) /\ IsText(leaf.text)
      BY <1>2, <2>1 DEF ResolveLeaf, Str, IsLeaf
    <3> QED
      BY <3>1, Resolved
  <2>2. CASE leaf.kind # "string"
    BY <2>2 DEF ResolveLeaf
  <2> QED
    BY <2>1, <2>2
<1> QED
    BY <1>1, <1>2 DEF IsValue

-----------------------------------------------------------------------------
(* setFieldValue, kind by kind *)

(* What a field may hold: no template in its text or in a map's texts.     *)
Untemplated(kind, v) ==
    /\ kind \in Texts => ~v.text.template
    /\ kind = "map" /\ v.kind = "map" =>
          \A path \in DOMAIN v.of : v.of[path].kind = "string" => ~v.of[path].text.template

(* What is set is what the field may hold; a kind with a case of its own   *)
(* sets, keeps or refuses, and never panics.                               *)
LEMMA SetHolds ==
    ASSUME NEW kind \in Kinds, NEW v, IsValue(v),
           NEW result, result = SetFieldValue(kind, v)
    PROVE  /\ result.to = "set" => Untemplated(kind, result.value)
           /\ result.to \in {"set", "keep", "error", "panic"}
           /\ kind \in Ordinary \cup {"int16"} => result.to # "panic"
PROOF
<1> USE DEF Untemplated, Texts, Floats
<1>1. CASE kind \in Texts
  <2>1. result.to = "set" /\ result.value.kind = "string"
           /\ result.value.text = ResolveString(TextOf(v))
    BY <1>1 DEF SetFieldValue, Set, Str
  <2>2. ~result.value.text.template
    BY <2>1, TextOfIsText, Resolved
  <2> QED
    BY <1>1, <2>1, <2>2
<1>2. CASE kind \in {"int64", "int32"}
  <2>1. result = Error \/ \E w : result = Set(w)
    BY <1>2 DEF SetFieldValue, SetInt, SetUnless
  <2> QED
    BY <1>2, <2>1 DEF Error, Set
<1>3. CASE kind \in Floats
  <2>1. result = Error \/ \E w : result = Set(w)
    BY <1>3 DEF SetFieldValue, SetFloat, SetUnless
  <2> QED
    BY <1>3, <2>1 DEF Error, Set
<1>4. CASE kind = "bool"
  <2>1. result = IF ToBool(v) = Failed THEN Error ELSE Set(ToBool(v))
    BY <1>4 DEF SetFieldValue, SetUnless
  <2> QED
    BY <1>4, <2>1 DEF Error, Set
<1>5. CASE kind = "map"
  <2>1. result \in {Keep, Error} \/ (v.kind = "map" /\ result = Set(ResolveMap(v)))
    BY <1>5 DEF SetFieldValue, SetMap
  <2> QED
    BY <1>5, <2>1, MapResolved DEF Keep, Error, Set
<1>6. CASE kind = "typedMap"
  <2>1. result \in {Keep, Error, Panic}
    BY <1>6 DEF SetFieldValue, SetMap
  <2> QED
    BY <1>6, <2>1 DEF Keep, Error, Panic, Ordinary, Numbers
<1>7. CASE kind = "slice"
  <2>1. result \in {Keep, Error} \/ (v.kind = "slice" /\ result = Set(v))
    BY <1>7 DEF SetFieldValue, SetSlice
  <2> QED
    BY <1>7, <2>1 DEF Keep, Error, Set
<1>8. CASE kind = "typedSlice"
  <2>1. result \in {Keep, Error, Panic}
    BY <1>8 DEF SetFieldValue, SetSlice
  <2> QED
    BY <1>8, <2>1 DEF Keep, Error, Panic, Ordinary, Numbers
<1>9. CASE kind = "interface"
  <2>1. result = Panic \/ result = Set(v)
    BY <1>9 DEF SetFieldValue
  <2> QED
    BY <1>9, <2>1 DEF Panic, Set, Ordinary, Numbers
<1>10. CASE kind = "int16"
  <2>1. result = Keep \/ \E w : result = Set(w)
    BY <1>10 DEF SetFieldValue, SetOther
  <2> QED
    BY <1>10, <2>1 DEF Keep, Set
<1>11. CASE kind = "array"
  <2>1. result \in {Keep, Panic} \/ \E w : result = Set(w)
    BY <1>11 DEF SetFieldValue, SetOther
  <2> QED
    BY <1>11, <2>1 DEF Keep, Panic, Set, Ordinary, Numbers
<1> QED
    BY <1>1, <1>2, <1>3, <1>4, <1>5, <1>6, <1>7, <1>8, <1>9, <1>10, <1>11
       DEF Kinds, Ordinary, Numbers

(* So is the zero value.                                                   *)
LEMMA ZeroHolds ==
    ASSUME NEW kind \in Kinds
    PROVE  Untemplated(kind, Zero(kind))
PROOF
<1>1. CASE kind \in Texts
  <2>1. Zero(kind).text = EmptyText /\ ~EmptyText.template
    BY <1>1 DEF Zero, Str, EmptyText, Text, Texts, Floats, Narrow
  <2> QED
    BY <1>1, <2>1 DEF Untemplated, Texts
<1>2. CASE kind = "map"
  <2>1. Zero(kind).kind = "nil"
    BY <1>2 DEF Zero, Nil, Texts, Narrow, Floats
  <2> QED
    BY <1>2, <2>1 DEF Untemplated, Texts
<1> QED
    BY <1>1, <1>2 DEF Untemplated

-----------------------------------------------------------------------------
(* The inductive invariant *)

\* Fields the loop has passed hold what setFieldValue made of their argument
\* or default, the others, and those it left alone, their zero value.
Passed ==
    \A i \in DOMAIN struct :
       /\ i >= at => dst[i] = Zero(struct[i].kind)
       /\ i < at => \A v \in Input(struct[i]) :
             LET result == SetFieldValue(struct[i].kind, v)
             IN  \/ result.to = "set" /\ dst[i] = result.value
                 \/ result.to = "keep" /\ dst[i] = Zero(struct[i].kind)

Sturdy(fields) ==
    \A i \in DOMAIN fields : fields[i].exported /\ fields[i].kind \in Ordinary \cup {"int16"}

Inv ==
    /\ struct \in Structs /\ src \in Sources
    /\ dst = [i \in DOMAIN struct |-> dst[i]]
    /\ \A i \in DOMAIN struct : Untemplated(struct[i].kind, dst[i])
    /\ at \in 1 .. (Len(struct) + 1)
    /\ outcome \in {"running", "ok", "error", "panic"}
    /\ outcome = "ok" => at \notin DOMAIN struct
    /\ Sturdy(struct) => outcome # "panic"
    /\ Passed

(* What is assumed of the struct and of what its fields are set from.      *)
LEMMA FieldsAssumed ==
    ASSUME struct \in Structs, src \in Sources
    PROVE  /\ Len(struct) \in Nat /\ DOMAIN struct = 1 .. Len(struct)
           /\ \A i \in DOMAIN struct :
                 /\ struct[i].kind \in Kinds
                 /\ \A v \in Input(struct[i]) : IsValue(v)
PROOF
<1>1. /\ Len(struct) \in Nat /\ DOMAIN struct = 1 .. Len(struct)
      /\ \A i \in DOMAIN struct :
            /\ struct[i].kind \in Kinds
            /\ struct[i].default # NoDefault => IsText(struct[i].default)
    BY ConfigAssumption, Zenon
<1>2. \A key \in DOMAIN src : IsValue(src[key])
    BY ConfigAssumption, Zenon
<1>3. ASSUME NEW text, IsText(text) PROVE IsValue(Str(text))
    BY <1>3 DEF IsValue, IsLeaf, Str
<1>4. ASSUME NEW i \in DOMAIN struct, NEW v \in Input(struct[i]) PROVE IsValue(v)
  <2>1. CASE Given(struct[i])
    BY <1>2, <1>4, <2>1 DEF Input, Given
  <2>2. CASE ~Given(struct[i])
    <3>1. v = Str(struct[i].default) /\ struct[i].default # NoDefault
      BY <1>4, <2>2 DEF Input
    <3> QED
      BY <1>1, <1>3, <3>1
  <2> QED
    BY <2>1, <2>2
<1> QED
    BY <1>1, <1>4

(* A field is set from one value at most.                                  *)
LEMMA OneInput ==
    ASSUME NEW f
    PROVE  \A v, w \in Input(f) : v = w
PROOF BY DEF Input

(* Nothing has been passed and every field holds its zero value.           *)
LEMMA InvInit == Init => Inv
PROOF
<1> SUFFICES ASSUME Init PROVE Inv
    OBVIOUS
<1>1. /\ struct \in Structs /\ src \in Sources /\ at = 1 /\ outcome = "running"
      /\ dst = [i \in DOMAIN struct |-> Zero(struct[i].kind)]
    BY DEF Init
<1>2. Len(struct) \in Nat /\ DOMAIN struct = 1 .. Len(struct)
    BY <1>1, FieldsAssumed
<1>3. \A i \in DOMAIN struct : Untemplated(struct[i].kind, dst[i]) /\ dst[i] = Zero(struct[i].kind)
    BY <1>1, FieldsAssumed, ZeroHolds
<1>4. Passed
    BY <1>1, <1>2, <1>3 DEF Passed
<1> QED
    BY <1>1, <1>2, <1>3, <1>4 DEF Inv

(***************************************************************************)
(* A step at a field: it is left as it is, set, or ends the call.          *)
(***************************************************************************)
LEMMA StepsOfNext ==
    ASSUME Inv, Next
    PROVE  /\ UNCHANGED <<struct, src>>
           /\ outcome = "running"
           /\ \/ at \notin DOMAIN struct /\ outcome' = "ok" /\ UNCHANGED <<dst, at>>
              \/ /\ at \in DOMAIN struct /\ Input(struct[at]) = {}
                 /\ at' = at + 1 /\ UNCHANGED <<dst, outcome>>
              \/ \E v \in Input(struct[at]) : \E result :
                    /\ at \in DOMAIN struct
                    /\ result = SetFieldValue(struct[at].kind, v)
                    /\ \/ /\ result.to = "set" /\ struct[at].exported
                          /\ dst' = [dst EXCEPT ![at] = result.value]
                          /\ at' = at + 1 /\ UNCHANGED outcome
                       \/ result.to = "keep" /\ at' = at + 1 /\ UNCHANGED <<dst, outcome>>
                       \/ result.to = "error" /\ outcome' = "error" /\ UNCHANGED <<dst, at>>
                       \/ /\ result.to = "panic" \/ (result.to = "set" /\ ~struct[at].exported)
                          /\ outcome' = "panic" /\ UNCHANGED <<dst, at>>
PROOF
<1>1. CASE Finish
    BY <1>1 DEF Finish
<1>2. ASSUME NEW i \in DOMAIN struct, Skip(struct[i])
      PROVE  /\ UNCHANGED <<struct, src>> /\ outcome = "running"
             /\ at \in DOMAIN struct /\ Input(struct[at]) = {}
             /\ at' = at + 1 /\ UNCHANGED <<dst, outcome>>
    BY <1>2 DEF Skip, AtField
<1>3. ASSUME NEW i \in DOMAIN struct, SetField(struct[i])
      PROVE  /\ UNCHANGED <<struct, src>> /\ outcome = "running"
             /\ \E v \in Input(struct[at]) : \E result :
                   /\ at \in DOMAIN struct
                   /\ result = SetFieldValue(struct[at].kind, v)
                   /\ \/ /\ result.to = "set" /\ struct[at].exported
                         /\ dst' = [dst EXCEPT ![at] = result.value]
                         /\ at' = at + 1 /\ UNCHANGED outcome
                      \/ result.to = "keep" /\ at' = at + 1 /\ UNCHANGED <<dst, outcome>>
                      \/ result.to = "error" /\ outcome' = "error" /\ UNCHANGED <<dst, at>>
                      \/ /\ result.to = "panic" \/ (result.to = "set" /\ ~struct[at].exported)
                         /\ outcome' = "panic" /\ UNCHANGED <<dst, at>>
  <2>1. outcome = "running" /\ at \in DOMAIN struct /\ struct[i] = struct[at]
    BY <1>3 DEF SetField, AtField
  <2>2. UNCHANGED <<struct, src>>
    BY <1>3 DEF SetField
  <2>3. PICK v \in Input(struct[at]) :
           LET result == SetFieldValue(struct[at].kind, v) IN
           CASE result.to = "set" /\ struct[at].exported ->
                   /\ dst' = [dst EXCEPT ![at] = result.value]
                   /\ at' = at + 1
                   /\ UNCHANGED outcome
             [] result.to = "keep" ->
                   /\ at' = at + 1
                   /\ UNCHANGED <<dst, outcome>>
             [] result.to = "error" ->
                   /\ outcome' = "error"
                   /\ UNCHANGED <<dst, at>>
             [] OTHER ->
                   /\ outcome' = "panic"
                   /\ UNCHANGED <<dst, at>>
    BY <1>3, <2>1 DEF SetField
  <2> DEFINE result == SetFieldValue(struct[at].kind, v)
  <2>4. result.to \in {"set", "keep", "error", "panic"}
    BY <2>1, FieldsAssumed, SetHolds DEF Inv
  <2> QED
    BY <2>1, <2>2, <2>3, <2>4
<1> QED
    BY <1>1, <1>2, <1>3 DEF Next

(* Every step keeps the invariant.                                         *)
LEMMA InvNext == Inv /\ [Next]_vars => Inv'
PROOF
<1> SUFFICES ASSUME Inv, [Next]_vars PROVE Inv'
    OBVIOUS
<1>t. /\ struct \in Structs /\ src \in Sources /\ at \in 1 .. (Len(struct) + 1)
      /\ dst = [i \in DOMAIN struct |-> dst[i]]
      /\ \A i \in DOMAIN struct : Untemplated(struct[i].kind, dst[i])
      /\ Passed /\ (Sturdy(struct) => outcome # "panic")
    BY DEF Inv
<1>s. Len(struct) \in Nat /\ DOMAIN struct = 1 .. Len(struct)
    BY <1>t, FieldsAssumed
<1>1. CASE UNCHANGED vars
  <2>1. Input(struct[at])' = Input(struct[at]) /\ \A f : Input(f)' = Input(f)
    BY <1>1 DEF vars, Input, Given
  <2>2. Passed'
    BY <1>1, <1>t, <2>1 DEF vars, Passed
  <2> QED
    BY <1>1, <2>2 DEF vars, Inv
<1>2. CASE Next
  <2>1. UNCHANGED <<struct, src>> /\ outcome = "running"
    BY <1>2, StepsOfNext
  <2>2. \A f : Input(f)' = Input(f)
    BY <2>1 DEF Input, Given
  <2>3. CASE UNCHANGED <<dst, at>> /\ outcome' \in {"ok", "error", "panic"}
    <3>1. Passed'
      BY <2>1, <2>2, <2>3, <1>t DEF Passed
    <3>2. outcome' = "ok" => at \notin DOMAIN struct
      BY <1>2, <2>1, <2>3, StepsOfNext
    <3>3. ASSUME Sturdy(struct), outcome' = "panic" PROVE FALSE
      <4>1. PICK v, result :
               /\ at \in DOMAIN struct /\ v \in Input(struct[at])
               /\ result = SetFieldValue(struct[at].kind, v)
               /\ result.to = "panic" \/ (result.to = "set" /\ ~struct[at].exported)
        BY <1>2, <2>1, <2>3, <3>3, StepsOfNext
      <4>2. struct[at].exported /\ struct[at].kind \in Ordinary \cup {"int16"}
        BY <3>3, <4>1 DEF Sturdy
      <4>3. result.to # "panic"
        BY <1>t, <4>1, <4>2, FieldsAssumed, SetHolds
      <4> QED
        BY <4>1, <4>2, <4>3
    <3> QED
      BY <1>t, <2>1, <2>3, <3>1, <3>2, <3>3 DEF Inv
  <2>4. ASSUME at \in DOMAIN struct, at' = at + 1, UNCHANGED outcome,
               NEW new, Untemplated(struct[at].kind, new), dst' = [dst EXCEPT ![at] = new],
               \A v \in Input(struct[at]) :
                  LET result == SetFieldValue(struct[at].kind, v)
                  IN  \/ result.to = "set" /\ new = result.value
                      \/ result.to = "keep" /\ new = Zero(struct[at].kind)
        PROVE  Inv'
    <3>1. /\ DOMAIN dst = DOMAIN struct /\ dst'[at] = new
          /\ \A i \in DOMAIN struct \ {at} : dst'[i] = dst[i]
      BY <1>t, <2>4
    <3>2. dst' = [i \in DOMAIN struct |-> dst'[i]]
      BY <1>t, <2>4
    <3>3. \A i \in DOMAIN struct : Untemplated(struct[i].kind, dst'[i])
      BY <1>t, <2>4, <3>1
    <3>4. \A i \in DOMAIN struct :
             /\ i >= at + 1 => dst'[i] = Zero(struct[i].kind)
             /\ i < at + 1 => \A v \in Input(struct[i]) :
                   LET result == SetFieldValue(struct[i].kind, v)
                   IN  \/ result.to = "set" /\ dst'[i] = result.value
                       \/ result.to = "keep" /\ dst'[i] = Zero(struct[i].kind)
      <4>1. \A i \in DOMAIN struct : (i < at + 1 => i < at \/ i = at) /\ (i >= at + 1 => i >= at /\ i # at)
        BY <1>s, <1>t
      <4> QED
        BY <1>t, <2>4, <3>1, <4>1 DEF Passed
    <3>5. Passed'
      BY <2>1, <2>2, <2>4, <3>4 DEF Passed
    <3>6. at + 1 \in 1 .. (Len(struct) + 1)
      BY <1>s, <1>t, <2>4
    <3>7. /\ (struct \in Structs /\ src \in Sources)'
          /\ (dst = [i \in DOMAIN struct |-> dst[i]])'
          /\ (at \in 1 .. (Len(struct) + 1))'
      BY <1>t, <2>1, <2>4, <3>2, <3>6
    <3>8. (\A i \in DOMAIN struct : Untemplated(struct[i].kind, dst[i]))'
      BY <2>1, <3>3 DEF Untemplated
    <3>9. /\ outcome' \in {"running", "ok", "error", "panic"} /\ outcome' # "ok"
          /\ (Sturdy(struct) => outcome # "panic")'
      BY <2>1, <2>4
    <3> QED
      BY <3>5, <3>7, <3>8, <3>9 DEF Inv
  <2>5. dst = [dst EXCEPT ![at] = dst[at]]
    BY <1>t
  <2>6. CASE at \in DOMAIN struct /\ Input(struct[at]) = {} /\ at' = at + 1
               /\ UNCHANGED <<dst, outcome>>
    BY <1>t, <2>4, <2>5, <2>6
  <2>7. ASSUME NEW v \in Input(struct[at]), NEW result, at \in DOMAIN struct,
               result = SetFieldValue(struct[at].kind, v), result.to = "keep",
               at' = at + 1, UNCHANGED <<dst, outcome>>
        PROVE  Inv'
    <3>1. dst[at] = Zero(struct[at].kind)
      BY <1>s, <1>t, <2>7 DEF Passed
    <3> QED
      BY <1>t, <2>4, <2>5, <2>7, <3>1, OneInput
  <2>8. ASSUME NEW v \in Input(struct[at]), NEW result, at \in DOMAIN struct,
               result = SetFieldValue(struct[at].kind, v), result.to = "set",
               dst' = [dst EXCEPT ![at] = result.value], at' = at + 1, UNCHANGED outcome
        PROVE  Inv'
    <3>1. Untemplated(struct[at].kind, result.value)
      BY <1>t, <2>8, FieldsAssumed, SetHolds
    <3> DEFINE new == result.value
    <3>2. \A w \in Input(struct[at]) : w = v
      BY OneInput
    <3>3. \A w \in Input(struct[at]) :
             LET made == SetFieldValue(struct[at].kind, w)
             IN  \/ made.to = "set" /\ new = made.value
                 \/ made.to = "keep" /\ new = Zero(struct[at].kind)
      BY <2>8, <3>2
    <3>4. Untemplated(struct[at].kind, new) /\ dst' = [dst EXCEPT ![at] = new]
      BY <2>8, <3>1
    <3> HIDE DEF new
    <3> QED
      BY <2>4, <2>8, <3>3, <3>4
  <2> QED
    BY <1>2, <2>3, <2>6, <2>7, <2>8, StepsOfNext
<1> QED
    BY <1>1, <1>2

-----------------------------------------------------------------------------
(* The theorems *)

(* The inductive invariant holds in every reachable state.                 *)
THEOREM Invariance == Spec => []Inv
PROOF BY InvInit, InvNext, PTL DEF Spec

(* A struct of exported fields of ordinary kinds is safe from arguments:   *)
(* setFieldValue may refuse one, and does not panic.                       *)
THEOREM ArgumentsNeverPanic == Spec => []NeverPanics
PROOF
<1>1. Inv => NeverPanics
    BY DEF Inv, NeverPanics, Sturdy
<1> QED
    BY <1>1, Invariance, PTL

(* What ResolveConfig delivers holds no template, in texts and in maps.    *)
THEOREM AllResolved == Spec => []NoTemplateLeft
PROOF
<1>1. Inv => NoTemplateLeft
    BY DEF Inv, NoTemplateLeft, Untemplated
<1> QED
    BY <1>1, Invariance, PTL

(* An argument reads the same from the struct and through TypedConfig.     *)
THEOREM SameByEitherWay == Spec => []AccessorsAgree
PROOF
<1>1. Inv => AccessorsAgree
  <2> SUFFICES ASSUME Inv, outcome = "ok", NEW i \in DOMAIN struct, Given(struct[i])
               PROVE  LET f == struct[i]
                      IN  CASE f.kind \in Texts -> dst[i].text = StringAt(KeyOf(f))
                            [] f.kind = "int64" -> dst[i] = IntAt(KeyOf(f))
                            [] f.kind = "bool" -> dst[i] = BoolAt(KeyOf(f))
                            [] f.kind = "map" -> dst[i] \in {Nil, MapAt(KeyOf(f))}
                            [] f.kind = "slice" -> dst[i] \in {Nil, SliceAt(KeyOf(f))}
                            [] OTHER -> TRUE
    BY DEF AccessorsAgree
  <2> DEFINE f == struct[i]
             v == src[KeyOf(f)]
             result == SetFieldValue(f.kind, v)
  <2>1. v \in Input(f) /\ Get(KeyOf(f)) = v /\ IsValue(v) /\ f.kind \in Kinds
    BY FieldsAssumed DEF Inv, Input, Given, Get
  <2>2. i < at
    BY FieldsAssumed DEF Inv
  <2>3. \/ result.to = "set" /\ dst[i] = result.value
        \/ result.to = "keep" /\ dst[i] = Zero(f.kind)
    BY <2>1, <2>2 DEF Inv, Passed
  <2>4. v.kind = "nil" => v = Nil
    BY <2>1 DEF IsValue
  <2> HIDE DEF f, v
  <2>5. CASE f.kind \in Texts
    <3>1. dst[i].text = ResolveString(TextOf(v))
      BY <2>3, <2>5 DEF SetFieldValue, Set, Str, Texts, Floats
    <3>2. v = Nil => TextOf(v) = EmptyText /\ ResolveString(EmptyText) = EmptyText
      BY DEF Nil, TextOf, ResolveString, EmptyText, Text
    <3>3. dst[i].text = StringAt(KeyOf(f))
      BY <2>1, <3>1, <3>2 DEF StringAt
    <3> QED
      BY <2>5, <3>3 DEF f, Texts
  <2>6. CASE f.kind = "int64"
    <3>1. result = IF ToInt(v) = Failed THEN Error ELSE Set(ToInt(v))
      BY <2>6 DEF SetFieldValue, SetInt, SetUnless, Texts, Narrow, Floats
    <3>2. dst[i] = IntAt(KeyOf(f))
      BY <2>1, <2>3, <3>1 DEF IntAt, Error, Set
    <3> QED
      BY <2>6, <3>2 DEF f, Texts
  <2>7. CASE f.kind = "bool"
    <3>1. result = IF ToBool(v) = Failed THEN Error ELSE Set(ToBool(v))
      BY <2>7 DEF SetFieldValue, SetUnless, Texts, Floats
    <3>2. dst[i] = BoolAt(KeyOf(f))
      BY <2>1, <2>3, <3>1 DEF BoolAt, Error, Set
    <3> QED
      BY <2>7, <3>2 DEF f, Texts
  <2>8. CASE f.kind = "map"
    <3>1. result \in {Keep, Error} \/ (v.kind = "map" /\ result = Set(ResolveMap(v)))
      BY <2>8 DEF SetFieldValue, SetMap, Texts, Floats
    <3>2. Zero(f.kind) = Nil
      BY <2>8 DEF Zero, Texts, Narrow, Floats
    <3>3. dst[i] \in {Nil, MapAt(KeyOf(f))}
      BY <2>1, <2>3, <3>1, <3>2 DEF MapAt, Keep, Error, Set
    <3> QED
      BY <2>8, <3>3 DEF f, Texts
  <2>9. CASE f.kind = "slice"
    <3>1. result \in {Keep, Error} \/ (v.kind = "slice" /\ result = Set(v))
      BY <2>9 DEF SetFieldValue, SetSlice, Texts, Floats
    <3>2. Zero(f.kind) = Nil
      BY <2>9 DEF Zero, Texts, Narrow, Floats
    <3>3. dst[i] \in {Nil, SliceAt(KeyOf(f))}
      BY <2>1, <2>3, <3>1, <3>2 DEF SliceAt, Keep, Error, Set
    <3> QED
      BY <2>9, <3>3 DEF f, Texts
  <2>10. CASE f.kind \notin Texts \cup {"int64", "bool", "map", "slice"}
    BY <2>10 DEF f
  <2> QED
    BY <2>5, <2>6, <2>7, <2>8, <2>9, <2>10
<1> QED
    BY <1>1, Invariance, PTL
-----------------------------------------------------------------------------
(* What the schema says of arguments and defaults *)

\* No two fields read one key; the code does not ask for it, and reports and
\* reads both.
KeysApart == \A i, j \in DOMAIN struct : KeyOf(struct[i]) = KeyOf(struct[j]) => i = j

(* What is reported under a field's key is reported of the field.          *)
LEMMA ReportedOfField ==
    ASSUME KeysApart, NEW i \in DOMAIN struct, NEW reported \in GenerateSchema(struct),
           reported.key = KeyOf(struct[i])
    PROVE  LET f == struct[i]
           IN  /\ reported.type = GoTypeToFieldType(f.kind)
               /\ reported.required <=> f.default = NoDefault
               /\ f.default # NoDefault => reported.default = ParseDefault(f.default, f.kind)
PROOF
<1>1. PICK j \in DOMAIN struct :
         reported = [key |-> KeyOf(struct[j]), type |-> GoTypeToFieldType(struct[j].kind),
                     required |-> struct[j].default = NoDefault,
                     default |-> IF struct[j].default = NoDefault THEN NoDefault
                                 ELSE ParseDefault(struct[j].default, struct[j].kind)]
    BY DEF GenerateSchema
<1>2. i = j
    BY <1>1 DEF KeysApart
<1> QED
    BY <1>1, <1>2

(* Nothing is cut off exactly of what fits.                                *)
LEMMA WrappedSame ==
    ASSUME NEW n \in Int
    PROVE  Wrapped(n) = n <=> Fits(n)
PROOF
<1>1. ASSUME Fits(n) PROVE Wrapped(n) = n
  <2>1. PICK width \in Nat \ {0} : width = 2 * Half
    BY HalfAssumed
  <2>2. PICK m \in Int : m = n + Half
    BY HalfAssumed
  <2>3. 0 <= m /\ m < width
    BY <1>1, <2>1, <2>2, HalfAssumed DEF Fits
  <2>4. m % width = m
    BY <2>3
  <2> QED
    BY <2>1, <2>2, <2>4, HalfAssumed DEF Wrapped
<1> QED
    BY <1>1, WrappedFits

(* A float32 that holds a number keeps it.                                 *)
LEMMA RoundedSame ==
    ASSUME NEW h \in Float32
    PROVE  Rounded(h) = Float(h)
PROOF
<1>1. h \in Int /\ -Limit < h /\ h < Limit /\ Limit \in Int
  <2>1. Limit \in Nat /\ h \in Int /\ -Limit < h /\ h < Limit
    BY ConfigAssumption, Zenon
  <2> QED
    BY <2>1
<1>2. \A g \in Float32 : g \in Int
    BY ConfigAssumption, Zenon
<1> DEFINE Nearest(near) == \A g \in Float32 : Distance(h, near) <= Distance(h, g)
<1>3. \A g \in Float32 : Distance(h, g) \in Int /\ 0 <= Distance(h, g)
    BY <1>1, <1>2 DEF Distance
<1>4. Distance(h, h) = 0
    BY <1>1 DEF Distance
<1>5. Nearest(h)
    BY <1>3, <1>4
<1>6. ASSUME NEW near \in Float32, Nearest(near) PROVE near = h
  <2>1. Distance(h, near) <= 0
    BY <1>4, <1>6
  <2> QED
    BY <1>1, <1>2, <2>1 DEF Distance
<1> HIDE DEF Nearest
<1>7. (CHOOSE near \in Float32 : Nearest(near)) = h
    BY <1>5, <1>6
<1>8. ~(h <= -Limit \/ Limit <= h)
    BY <1>1
<1> QED
    BY <1>7, <1>8 DEF Rounded, Nearest

(* A field set from a plain default tag holds what the schema reports of   *)
(* the tag.                                                                *)
LEMMA DefaultRead ==
    ASSUME NEW f, f.kind \in Kinds, IsText(f.default),
           NEW result, result = SetFieldValue(f.kind, Str(f.default)),
           NEW v, \/ result.to = "set" /\ v = result.value
                  \/ result.to = "keep" /\ v = Zero(f.kind)
    PROVE  Plain(f) => v = ParseDefault(f.default, f.kind)
PROOF
<1> DEFINE text == f.default
<1> USE DEF Texts, Narrow, Floats
<1>s. Str(text).kind = "string" /\ Str(text).text = text
    BY DEF Str
<1>n. text.number # NoNumber => Head(text.number) \in Int
    BY DEF IsText, NoNumber
<1>1. CASE f.kind \in Texts
  <2>1. v = Str(ResolveString(text)) /\ ParseDefault(text, f.kind) = Str(text)
    BY <1>1, <1>s DEF SetFieldValue, Set, TextOf, ParseDefault
  <2>2. ResolveString(text) = text <=> ~text.template
    BY ResolutionAssumed DEF ResolveString, IsText
  <2> QED
    BY <1>1, <2>1, <2>2 DEF Str, Plain
<1>2. CASE f.kind \in {"int64", "int32"}
  <2>1. ToInt(Str(text)) = IF text.number # NoNumber THEN Whole(Head(text.number)) ELSE Failed
    BY <1>s DEF ToInt
  <2>2. result = SetInt(f.kind, Str(text))
    BY <1>2 DEF SetFieldValue
  <2>3. text.number # NoNumber
    BY <2>1, <2>2 DEF SetInt, SetUnless, Error
  <2>4. ParseDefault(text, f.kind) = Whole(Head(text.number))
    BY <1>2, <2>3 DEF ParseDefault
  <2>5. Whole(Head(text.number)) # Failed /\ Whole(Head(text.number)).n = Head(text.number)
    BY DEF Whole, Failed
  <2>6. v = IF f.kind = "int32" THEN Whole(Wrapped(Head(text.number))) ELSE Whole(Head(text.number))
    BY <1>2, <2>1, <2>2, <2>3, <2>5 DEF SetInt, SetUnless, Set
  <2> QED
    BY <1>2, <1>n, <2>3, <2>4, <2>6, WrappedSame DEF Whole, Plain
<1>3. CASE f.kind \in Floats
  <2>1. ToFloat(Str(text)) = IF text.number # NoNumber THEN Float(2 * Head(text.number)) ELSE Failed
    BY <1>s DEF ToFloat
  <2>2. result = SetFloat(f.kind, Str(text))
    BY <1>3 DEF SetFieldValue
  <2>3. text.number # NoNumber
    BY <2>1, <2>2 DEF SetFloat, SetUnless, Error
  <2>4. \A h : Float(h) # Failed /\ Float(h).halves = h
    BY DEF Float, Failed
  <2>5. v = IF f.kind = "float32" THEN Rounded(2 * Head(text.number)) ELSE Float(2 * Head(text.number))
    BY <1>3, <2>1, <2>2, <2>3, <2>4 DEF SetFloat, SetUnless, Set
  <2>6. ParseDefault(text, f.kind) = Float(2 * Head(text.number))
    BY <1>3, <2>3 DEF ParseDefault
  <2>7. f.kind = "float32" /\ Plain(f) => 2 * Head(text.number) \in Float32
    BY DEF Plain
  <2> QED
    BY <1>3, <2>5, <2>6, <2>7, RoundedSame
<1>4. CASE f.kind = "bool"
  <2>1. ToBool(Str(text)) = Bool(text.word \in {"true", "1", "yes"})
    BY <1>s DEF ToBool
  <2>2. result = SetUnless(Error, ToBool(Str(text)))
    BY <1>4 DEF SetFieldValue
  <2>3. \A on : Bool(on) # Failed
    BY DEF Bool, Failed
  <2>4. v = Bool(text.word \in {"true", "1", "yes"})
    BY <2>1, <2>2, <2>3 DEF SetUnless, Set
  <2>5. ParseDefault(text, f.kind) = Bool(text.word = "true" /\ ~text.padded)
    BY <1>4 DEF ParseDefault
  <2>6. Plain(f) => text.word \notin {"1", "yes"} /\ (text.word = "true" => ~text.padded)
    BY <1>4 DEF Plain
  <2> QED
    BY <2>4, <2>5, <2>6
<1>5. CASE f.kind = "interface"
  <2>1. v = Str(text) /\ ParseDefault(text, f.kind) = Str(text)
    BY <1>5, <1>s DEF SetFieldValue, Set, Panic, ParseDefault
  <2> QED
    BY <2>1
<1>6. CASE f.kind \in {"map", "typedMap", "slice", "typedSlice", "int16", "array"}
    BY <1>6 DEF Plain
<1> QED
    BY <1>1, <1>2, <1>3, <1>4, <1>5, <1>6 DEF Kinds, Ordinary, Numbers

(* Where no two fields read one key, a plain default is delivered as the   *)
(* schema reports it, whatever the kind: rounding, cutting off and dropping *)
(* only happen to tags that are not plain.                                 *)
THEOREM ReportedDefaults == Spec => [](KeysApart => DefaultsAsReported)
PROOF
<1>1. Inv => (KeysApart => DefaultsAsReported)
  <2> SUFFICES ASSUME Inv, KeysApart, outcome = "ok", NEW i \in DOMAIN struct,
                      NEW reported \in GenerateSchema(struct),
                      reported.key = KeyOf(struct[i]), ~Given(struct[i]), ~reported.required,
                      Plain(struct[i])
               PROVE  dst[i] = reported.default
    BY DEF DefaultsAsReported
  <2> DEFINE f == struct[i]
             result == SetFieldValue(f.kind, Str(f.default))
  <2>1. f.default # NoDefault /\ reported.default = ParseDefault(f.default, f.kind)
    BY ReportedOfField
  <2>2. Str(f.default) \in Input(f) /\ f.kind \in Kinds
    BY <2>1, FieldsAssumed DEF Inv, Input
  <2>3. i < at
    BY FieldsAssumed DEF Inv
  <2>4. \/ result.to = "set" /\ dst[i] = result.value
        \/ result.to = "keep" /\ dst[i] = Zero(f.kind)
    BY <2>2, <2>3 DEF Inv, Passed
  <2>5. IsText(f.default)
    BY <2>2, FieldsAssumed DEF Inv, IsValue, IsLeaf, Str
  <2> HIDE DEF f
  <2>6. Plain(f) => dst[i] = ParseDefault(f.default, f.kind)
    BY <2>2, <2>4, <2>5, DefaultRead
  <2> QED
    BY <2>1, <2>6 DEF f
<1> QED
    BY <1>1, Invariance, PTL

\* A field whose argument, if there is one, was entered as the schema asks,
\* and that is not left to its default tag.
Usable(f) ==
    /\ f.exported /\ f.kind \in Ordinary
    /\ f.default # NoDefault => Given(f)
    /\ Given(f) => \E reported \in GenerateSchema(struct) :
                      reported.key = KeyOf(f) /\ Enters(reported.type, src[KeyOf(f)])

AllUsable == KeysApart /\ \A i \in DOMAIN struct : Usable(struct[i])

\* Nothing of it is refused, and nothing panics.
Accepted == AllUsable => outcome \in {"running", "ok"}

\* What is no text and no map, and can be held by a field of the kind.
Storable(kind, v) == kind \in Numbers \cup {"bool", "slice"} /\ Holds(kind, v)

(* An even number of halves is a whole number, as Go truncates it.         *)
LEMMA WholeNumber ==
    ASSUME NEW h \in Int, h % 2 = 0
    PROVE  Truncated(h) = h \div 2 /\ 2 * Truncated(h) = h
PROOF BY DEF Truncated

(* A value of the type that is reported of an ordinary kind is set, and is *)
(* set unchanged where it is storable.                                     *)
LEMMA EnteredIsSet ==
    ASSUME NEW kind \in Ordinary, NEW v, IsValue(v), Enters(GoTypeToFieldType(kind), v),
           NEW result, result = SetFieldValue(kind, v)
    PROVE  /\ result.to = "set"
           /\ Storable(kind, v) => Unchanged(kind, v, result.value)
PROOF
<1> USE DEF Texts, Narrow, Floats, Numbers
<1>1. CASE kind \in Texts
  <2>1. result.to = "set"
    BY <1>1 DEF SetFieldValue, Set
  <2> QED
    BY <1>1, <2>1 DEF Storable
<1>2. CASE kind \in {"int64", "int32"}
  <2>1. v.kind = "float" /\ v.halves \in Int
    BY <1>2 DEF Enters, GoTypeToFieldType, IsValue
  <2>2. ToInt(v) = Whole(Truncated(v.halves)) /\ ToInt(v) # Failed
           /\ ToInt(v).n = Truncated(v.halves)
    BY <2>1 DEF ToInt, Whole, Failed
  <2>3. result = SetInt(kind, v)
    BY <1>2 DEF SetFieldValue
  <2>4. result = Set(Whole(IF kind = "int32" THEN Wrapped(Truncated(v.halves))
                           ELSE Truncated(v.halves)))
    BY <1>2, <2>2, <2>3 DEF SetInt, SetUnless
  <2>5. result.value.n = IF kind = "int32" THEN Wrapped(Truncated(v.halves))
                         ELSE Truncated(v.halves)
    BY <2>4 DEF Set, Whole
  <2>6. Holds(kind, v) => v.halves % 2 = 0 /\ (kind = "int32" => Fits(v.halves \div 2))
    BY <1>2 DEF Holds
  <2>7. ASSUME v.halves % 2 = 0, kind = "int32" => Fits(v.halves \div 2)
        PROVE  2 * result.value.n = v.halves
    <3>1. Truncated(v.halves) = v.halves \div 2 /\ 2 * Truncated(v.halves) = v.halves
      BY <2>1, <2>7, WholeNumber
    <3>2. kind = "int32" => Wrapped(Truncated(v.halves)) = Truncated(v.halves)
      BY <2>1, <2>7, <3>1, WrappedSame
    <3> QED
      BY <2>5, <3>1, <3>2
  <2> QED
    BY <1>2, <2>4, <2>6, <2>7 DEF Set, Unchanged, Storable
<1>3. CASE kind \in Floats
  <2>n. GoTypeToFieldType(kind) = "number"
    BY <1>3 DEF GoTypeToFieldType
  <2>1. v.kind = "float" /\ v # Failed
    BY <2>n DEF Enters, Failed
  <2>f. v = Float(v.halves)
    BY <2>1 DEF IsValue
  <2>2. result = Set(IF kind = "float32" THEN Rounded(v.halves) ELSE v)
    BY <1>3, <2>1 DEF SetFieldValue, SetFloat, SetUnless, ToFloat
  <2>3. kind = "float32" /\ Holds(kind, v) => Rounded(v.halves) = Float(v.halves)
    BY RoundedSame DEF Holds
  <2> QED
    BY <1>3, <2>f, <2>2, <2>3 DEF Set, Unchanged, Storable
<1>4. CASE kind = "bool"
  <2>1. v.kind = "bool" /\ v # Failed
    BY <1>4 DEF Enters, GoTypeToFieldType, Failed
  <2>2. result = Set(v)
    BY <1>4, <2>1 DEF SetFieldValue, SetUnless, ToBool
  <2> QED
    BY <1>4, <2>2 DEF Set, Unchanged
<1>5. CASE kind = "map"
  <2>1. v.kind = "map"
    BY <1>5 DEF Enters, GoTypeToFieldType
  <2> QED
    BY <1>5, <2>1 DEF SetFieldValue, SetMap, Set, Storable
<1>6. CASE kind = "slice"
  <2>1. v.kind = "slice"
    BY <1>6 DEF Enters, GoTypeToFieldType
  <2> QED
    BY <1>6, <2>1 DEF SetFieldValue, SetSlice, Set, Unchanged
<1> QED
    BY <1>1, <1>2, <1>3, <1>4, <1>5, <1>6 DEF Ordinary

(* Where all is usable, a field is set from its argument or left alone.    *)
LEMMA UsableIsSet ==
    ASSUME AllUsable, struct \in Structs, src \in Sources,
           NEW i \in DOMAIN struct, NEW v \in Input(struct[i]),
           NEW result, result = SetFieldValue(struct[i].kind, v)
    PROVE  /\ result.to = "set" /\ v = src[KeyOf(struct[i])]
           /\ Storable(struct[i].kind, v) => Unchanged(struct[i].kind, v, result.value)
PROOF
<1> DEFINE f == struct[i]
<1>1. Usable(f) /\ KeysApart
    BY DEF AllUsable
<1>2. Given(f) /\ v = src[KeyOf(f)]
    BY <1>1 DEF Usable, Input
<1>3. PICK reported \in GenerateSchema(struct) :
         reported.key = KeyOf(f) /\ Enters(reported.type, v)
    BY <1>1, <1>2 DEF Usable
<1>4. Enters(GoTypeToFieldType(f.kind), v) /\ f.kind \in Ordinary
    BY <1>1, <1>3, ReportedOfField DEF Usable
<1>5. IsValue(v)
    BY FieldsAssumed
<1> QED
    BY <1>2, <1>4, <1>5, EnteredIsSet

(* No step of a call with usable arguments ends it otherwise than well.    *)
LEMMA AcceptedNext == Inv /\ Accepted /\ [Next]_vars => Accepted'
PROOF
<1> SUFFICES ASSUME Inv, Accepted, [Next]_vars, AllUsable'
             PROVE  outcome' \in {"running", "ok"}
    BY DEF Accepted
<1>1. UNCHANGED <<struct, src>>
    BY StepsOfNext DEF vars
<1>2. AllUsable
    BY <1>1 DEF AllUsable, KeysApart, Usable, Given, GenerateSchema
<1>3. CASE UNCHANGED vars
    BY <1>2, <1>3 DEF vars, Accepted
<1>4. CASE Next
  <2>1. SUFFICES ASSUME outcome' \notin {"running", "ok"}
                 PROVE  FALSE
    OBVIOUS
  <2>2. PICK v, result :
           /\ at \in DOMAIN struct /\ v \in Input(struct[at])
           /\ result = SetFieldValue(struct[at].kind, v)
           /\ \/ result.to \in {"error", "panic"}
              \/ result.to = "set" /\ ~struct[at].exported
    BY <1>4, <2>1, StepsOfNext
  <2>3. result.to = "set" /\ struct[at].exported
    BY <1>2, <2>2, UsableIsSet DEF Inv, AllUsable, Usable
  <2> QED
    BY <2>2, <2>3
<1> QED
    BY <1>3, <1>4

(* What is entered in the way the schema asks for is accepted, and what is *)
(* no text and no map is stored unchanged in every field that can hold it, *)
(* if no two fields read one key.                                          *)
THEOREM EnteredAccepted == Spec => [](KeysApart => EnteredIsAccepted)
PROOF
<1>1. Init => Accepted
    BY DEF Init, Accepted
<1>2. Inv /\ Accepted => (KeysApart => EnteredIsAccepted)
  <2> SUFFICES ASSUME Inv, Accepted, KeysApart,
                      \A i \in DOMAIN struct : Usable(struct[i])
               PROVE  /\ outcome \in {"running", "ok"}
                      /\ outcome = "ok" =>
                            \A i \in DOMAIN struct :
                               LET f == struct[i] v == src[KeyOf(f)]
                               IN  Given(f) /\ Storable(f.kind, v) => Unchanged(f.kind, v, dst[i])
    BY DEF EnteredIsAccepted, Usable, Storable
  <2>1. AllUsable
    BY DEF AllUsable
  <2>2. ASSUME outcome = "ok", NEW i \in DOMAIN struct, Given(struct[i]),
               Storable(struct[i].kind, src[KeyOf(struct[i])])
        PROVE  Unchanged(struct[i].kind, src[KeyOf(struct[i])], dst[i])
    <3> DEFINE v == src[KeyOf(struct[i])]
               result == SetFieldValue(struct[i].kind, v)
    <3>1. v \in Input(struct[i])
      BY <2>2 DEF Input
    <3>2. i < at
      BY <2>2, FieldsAssumed DEF Inv
    <3>3. result.to = "set" /\ Unchanged(struct[i].kind, v, result.value)
      BY <2>1, <2>2, <3>1, UsableIsSet DEF Inv
    <3> QED
      BY <3>1, <3>2, <3>3 DEF Inv, Passed
  <2> QED
    BY <2>1, <2>2 DEF Accepted
<1> QED
    BY <1>1, <1>2, AcceptedNext, Invariance, PTL DEF Spec
=============================================================================
