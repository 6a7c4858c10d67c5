---------------------------- MODULE MCTypedConfig ----------------------------
(***************************************************************************)
(* Structs of one field, over every kind, tag and default, and of two, so  *)
(* that a field follows one that was set, kept, skipped or refused; every  *)
(* value for each of the two keys, one of them absent at most.             *)
(***************************************************************************)
EXTENDS TypedConfig, TLC

Template(word) == [Text(word, NoNumber) EXCEPT !.template = TRUE]
Padded(word, number) == [Text(word, number) EXCEPT !.padded = TRUE]

MCResolution ==
    ("{{a}}" :> Text("a", NoNumber)) @@ ("a list" :> Text("a list of a", NoNumber))

Words ==
    {EmptyText, Text("a", NoNumber), Text("5", <<5>>), Text("5x", <<5>>), Text("1", <<1>>),
     Padded("true", NoNumber), Text("yes", NoNumber), Text("9", <<9>>), Template("{{a}}")}

\* 2.5 and 9 are no numbers of the small float32, 9 and above are infinite.
Fractions == {Float(5), Float(-3), Float(18), Float(6)}

Values ==
    {Nil, Bool(TRUE), Whole(3), Whole(9), Map(<<>>),
     Map((<<"k">> :> Str(Template("{{a}}"))) @@ (<<"m", "k">> :> Str(Template("{{a}}")))),
     Map(<<"k">> :> Slice(<<Str(Template("{{a}}"))>>)),
     Slice(<<Str(Text("a", NoNumber)), Whole(3)>>), Slice(<<Str(Template("{{a}}"))>>)}
        \cup Fractions \cup {Str(text) : text \in Words}

Field(name, json, kind, default, exported) ==
    [name |-> name, json |-> json, kind |-> kind, default |-> default, exported |-> exported]

Defaults == {NoDefault, Text("true", NoNumber), Text("false", NoNumber)} \cup (Words \ {EmptyText})

Alone ==
    {<<Field("A", "a", kind, default, TRUE)>> : kind \in Kinds, default \in Defaults}
        \cup {<<Field("A", json, kind, NoDefault, exported)>> :
                 kind \in Kinds, json \in {NoTag, "-", "", "a"}, exported \in BOOLEAN}

Pairs ==
    {<<Field("A", "a", first, NoDefault, TRUE), Field("B", "b", second, default, TRUE)>> :
        first \in {"string", "int64", "map", "int16"},
        second \in {"binding", "bool", "int32", "typedSlice"},
        default \in {NoDefault, Text("yes", NoNumber)}}

MCStructs == Alone \cup Pairs

MCSources ==
    {<<>>} \cup {k :> v : k \in {"a", "A", ""}, v \in Values}
        \cup {("a" :> v) @@ ("b" :> w) : v \in {Nil, Whole(3), Str(Template("{{a}}"))}, w \in Values}

MCHalf == 8

\* Two bits of significand: steps of one half up to 2, of two up to 4 and so on.
MCFloat32 == LET positive == {1, 2, 3, 4, 6, 8, 12} IN {0} \cup positive \cup {-h : h \in positive}
MCLimit == 14

=============================================================================
