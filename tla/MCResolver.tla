----------------------------- MODULE MCResolver -----------------------------
(***************************************************************************)
(* Two configurations and texts that reach the ends of the resolver: a     *)
(* template that is unknown, unfinished, blank, nested in another, next to *)
(* another or between lone braces, and values that hold pieces of          *)
(* templates, templates, a template of themselves, and signs.              *)
(***************************************************************************)
EXTENDS Resolver, TLC

T(path) == <<"{", "{">> \o path \o <<"}", "}">>
VarA == <<"var", ".", "a">>
PrevA == <<"prev", ".", "a">>
NodesA == <<"nodes", ".", "a", ".", "b">>

MCNames == {<<"a">>}
MCKeyOrder == << <<"a">>, <<"b">> >>

MCSettable ==
    {Nil, Object(<<"b">> :> Object(<<>>))}
        \cup {String(text) : text \in
                {<<>>, <<"x">>, <<"{">>, <<"}">>, <<"!">>, <<"=">>, <<"x", "=", "=", "x">>,
                 <<"}", "}">>, <<"{", "{", "var">>, T(PrevA), T(VarA), <<"x">> \o T(VarA)}}

MCOutputs == {Scalar(<<"0">>), Object(<<"b">> :> String(<<"x">>)), Object(<<"b">> :> String(<<"!">>))}

Unset == [root \in Roots |-> IF root = <<"elapsed_ms">> THEN Scalar(<<"0">>) ELSE NilMap]

MCConfigs ==
    {Unset,
     [Unset EXCEPT ![<<"prev">>] = Object(<<"a">> :> String(<<"x">>)),
                   ![<<"run">>] = Object((<<"a">> :> Nil) @@ (<<"b">> :> Scalar(<<"false">>)))],
     [Unset EXCEPT ![<<"prev">>] = Object(<<"a">> :> String(<<"{">>))]}

\* Three levels of values are all there are.
MCValues ==
    LET members(S) == UNION {{v.of[key] : key \in DOMAIN v.of} : v \in {u \in S : u.kind = "map"}}
        outer == MCSettable \cup MCOutputs \cup UNION {{c[root] : root \in Roots} : c \in MCConfigs}
        inner == members(outer)
    IN  outer \cup inner \cup members(inner)

Operands == {T(VarA), T(PrevA), T(<<" ">> \o NodesA \o <<" ">>), T(<<"elapsed_ms", ".", "a">>)}

MCTemplates ==
    Operands
        \cup {l \o sign \o r : l \in Operands, r \in {<<" ", "x">>, T(NodesA)},
                                sign \in {<<"=", "=">>, <<"!", "=">>}}
        \cup {T(VarA) \o r : r \in Operands}
        \cup {<<>>, <<"x">>, T(<<>>), T(<<"unknown">>), T(<<"prev">>), T(<<"run">>), T(<<"nodes">>),
              T(<<"run", ".", ".", "b", ".">>), T(<<"prev", ".", "a", ".", "a">>),
              <<"{", "{">> \o VarA, <<"}", "}">> \o T(VarA), <<"{">> \o T(VarA) \o <<"}">>,
              T(<<"nodes", ".">> \o T(VarA)), T(VarA) \o <<"{">> \o PrevA \o <<"}", "}">>}

MaxLengthMC == 30

=============================================================================
