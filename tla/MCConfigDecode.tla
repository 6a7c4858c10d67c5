-------------------------- MODULE MCConfigDecode --------------------------
(***************************************************************************)
(* Structs of three fields: a mode (enum, maybe for the host only), a key  *)
(* (a secret or a string with a pattern, required always or when other     *)
(* fields say so) and a level (int8 with a range, or bool), with tags that *)
(* fit and tags that do not.  Documents give each field every kind of      *)
(* value, refused ones, null and nothing.                                  *)
(***************************************************************************)
EXTENDS ConfigDecode, TLC

MCTexts == {"", "a", "b", "c", "key", "true", "1", "5", "300"}
MCAsInt == "1" :> 1 @@ "5" :> 5 @@ "300" :> 300
MCMinInt == -100000
MCAsBool == "true" :> TRUE @@ "1" :> TRUE

Untagged(key, go) ==
    [key |-> key, go |-> go, type |-> NoTag, enum |-> NoTag, default |-> NoTag,
     required |-> NoTag, when |-> <<>>, audience |-> NoTag, min |-> NoTag,
     max |-> NoTag, pattern |-> NoTag]

Cond(key, text) == [key |-> key, text |-> text]

Mode == [Untagged("mode", "string") EXCEPT !.enum = <<"a", "b">>]

Modes ==
    {[Mode EXCEPT !.default = d] : d \in {NoTag, "b", "c"}} \cup
    {[Mode EXCEPT !.default = "a", !.audience = "host"],
     [Mode EXCEPT !.required = "true"]}

Key1 == Untagged("key", "secret")
Key2 == [Untagged("key", "string") EXCEPT !.pattern = {"a", "key"}]

Whens == {<<>>, <<Cond("mode", "a")>>, <<Cond("mode", "b"), Cond("level", "5")>>}

KeyFields ==
    {[Key1 EXCEPT !.when = w] : w \in Whens} \cup
    {[Key1 EXCEPT !.required = "true"], [Key1 EXCEPT !.when = <<Cond("mode", "c")>>],
     [Key2 EXCEPT !.when = <<Cond("level", "1")>>], [Key2 EXCEPT !.type = "url"],
     [Key2 EXCEPT !.default = "a"]}

Level == Untagged("level", "int8")

Levels ==
    {Level, [Level EXCEPT !.default = "5"], [Level EXCEPT !.min = "1", !.max = "5"],
     [Level EXCEPT !.min = "5", !.max = "1"],
     [Untagged("level", "bool") EXCEPT !.default = "true"]}

MCStructs == {<<m, k, l>> : m \in Modes, k \in KeyFields, l \in Levels}

(* A default that its Go type cannot hold.                                 *)
NarrowStructs == {<<[Level EXCEPT !.default = "300"], k>> : k \in {Key1, Key2}}

(* A requiredWhen that names one key twice.                                *)
TwiceStructs ==
    {<<[Mode EXCEPT !.default = "b"],
       [k EXCEPT !.when = <<Cond("mode", "a"), Cond("mode", "b")>>], Level>> : k \in {Key1, Key2}}

Maybe(key, values) == {<<>>} \cup {key :> v : v \in values}

Null == <<"null">>
Fraction == <<"fraction">>

MCDocuments ==
    {m @@ k @@ l :
        m \in Maybe("mode", {Null, Text("a"), Text("c")}),
        k \in Maybe("key", {Null, Empty, Text("key"), Num(1)}),
        l \in Maybe("level", {Null, Bool(TRUE), Num(0), Num(5), Num(300), Fraction})}
=============================================================================
