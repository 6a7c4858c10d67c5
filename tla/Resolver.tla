------------------------------ MODULE Resolver ------------------------------
(***************************************************************************)
(* resolver.Resolver: the templates of a step's configuration.             *)
(*                                                                         *)
(* ResolveString replaces the first {{path}} of a text by the value at     *)
(* that path and starts again from the first character, so that what a     *)
(* value puts in is read again.  Here one action is one turn of that loop. *)
(* EvaluateCondition compares what is left when the loop ends.             *)
(*                                                                         *)
(* A text is a sequence of characters, in which a word (a name, a number)  *)
(* counts as one character: only braces, dots, blanks and the signs of a   *)
(* comparison are told apart by the code.  Names are texts of one word.    *)
(***************************************************************************)
EXTENDS Integers, Sequences, SequencesExt

CONSTANTS
    Configs,    \* what New may be given: functions from Roots to values
    Values,     \* every value these hold, and those that follow
    Templates,  \* the texts that executors resolve
    Names,      \* the names of variables and steps that are set
    Settable,   \* the values variables are set to
    Outputs,    \* the outputs steps are given
    KeyOrder,   \* every key of a map, as encoding/json orders them
    MaxLength   \* how long a text may grow before the model stops it

(***************************************************************************)
(* Values: nil, a string, a number or boolean as %v prints it, a map, or a *)
(* map that is nil inside the interface, which is not the nil interface.   *)
(* Slices and structs, which end a path as a number does, are left out.    *)
(***************************************************************************)
Nil == [kind |-> "nil"]
NilMap == [kind |-> "nilmap"]
String(text) == [kind |-> "string", text |-> text]
Scalar(text) == [kind |-> "scalar", text |-> text]

\* What encoding/json writes for a value; Object stores it with a map.
Json(v) ==
    CASE v.kind \in {"nil", "nilmap"} -> <<"null">>
      [] v.kind = "string" -> <<"\"">> \o v.text \o <<"\"">>
      [] v.kind = "scalar" -> v.text
      [] v.kind = "map" -> v.json

Object(of) ==
    LET member(key) == <<"\"">> \o key \o <<"\"", ":">> \o Json(of[key])
        written[n \in 0 .. Len(KeyOrder)] ==
            IF n = 0 THEN <<>>
            ELSE IF KeyOrder[n] \notin DOMAIN of THEN written[n - 1]
            ELSE written[n - 1] \o (IF written[n - 1] = <<>> THEN <<>> ELSE <<",">>)
                    \o member(KeyOrder[n])
    IN  [kind |-> "map", of |-> of, json |-> <<"{">> \o written[Len(KeyOrder)] \o <<"}">>]

Roots == {<<"trigger">>, <<"bindings">>, <<"prev">>, <<"nodes">>, <<"var">>,
          <<"self">>, <<"run">>, <<"elapsed_ms">>}

IsValue(v) ==
    /\ v.kind \in {"nil", "nilmap", "string", "scalar", "map"}
    /\ v.kind \in {"string", "scalar"} => v.text \in Seq(STRING)
    /\ v.kind = "map" => v.json \in Seq(STRING) /\ \A key \in DOMAIN v.of : v.of[key] \in Values

Sources(c) ==
    /\ DOMAIN c = Roots
    /\ \A root \in Roots \ {<<"elapsed_ms">>} : c[root].kind \in {"map", "nilmap"}

ASSUME ResolverAssumption ==
    /\ KeyOrder \in Seq(Seq(STRING)) /\ MaxLength \in Nat
    /\ Templates \subseteq Seq(STRING)
    /\ \A v \in Values : IsValue(v)
    /\ Settable \subseteq Values /\ Outputs \subseteq Values
    /\ \A c \in Configs : Sources(c) /\ \A root \in Roots : c[root] \in Values

VARIABLES
    config,     \* Resolver.config, by the name a path starts with
    call,       \* the operation and the text it was given
    phase,      \* "idle", "resolving", "returned"
    result,     \* ResolveString's result
    verdict,    \* what EvaluateCondition returned
    used        \* history: the texts put in during this call

vars == <<config, call, phase, result, verdict, used>>

-----------------------------------------------------------------------------
(* Paths *)

\* The first place at or after from where a is followed by b, or 0.
FirstPair(s, from, a, b) ==
    LET at == {i \in from .. (Len(s) - 1) : s[i] = a /\ s[i + 1] = b}
    IN  IF at = {} THEN 0 ELSE CHOOSE i \in at : \A j \in at : i <= j

FindTemplateStart(s) == FirstPair(s, 1, "{", "{")
FindTemplateEnd(s, start) == FirstPair(s, start + 2, "}", "}")

TrimSpace(s) ==
    LET kept == {i \in DOMAIN s : s[i] # " "}
    IN  IF kept = {} THEN <<>>
        ELSE SubSeq(s, CHOOSE i \in kept : \A j \in kept : i <= j,
                       CHOOSE i \in kept : \A j \in kept : j <= i)

\* The runs of characters between dots; there is none between two dots.
SplitPath(path) ==
    LET closed(s) == IF s.current = <<>> THEN s.parts ELSE Append(s.parts, s.current)
        after[n \in 0 .. Len(path)] ==
            IF n = 0 THEN [parts |-> <<>>, current |-> <<>>]
            ELSE IF path[n] = "." THEN [parts |-> closed(after[n - 1]), current |-> <<>>]
            ELSE [after[n - 1] EXCEPT !.current = Append(@, path[n])]
    IN  closed(after[Len(path)])

\* Down one key after the other; nil as soon as there is no such key.
GetNestedValue(data, path) ==
    LET member(v, key) == IF v.kind = "map" /\ key \in DOMAIN v.of THEN v.of[key] ELSE Nil
        down[n \in 0 .. Len(path)] == IF n = 0 THEN data ELSE member(down[n - 1], path[n])
    IN  down[Len(path)]

\* nodes and var go down their first part by hand, with the same outcome.
ResolvePath(path) ==
    LET parts == SplitPath(path)
    IN  IF parts = <<>> \/ Head(parts) \notin Roots THEN Nil
        ELSE IF Head(parts) = <<"elapsed_ms">> THEN config[<<"elapsed_ms">>]
        ELSE GetNestedValue(config[Head(parts)], Tail(parts))

Replacement(v) ==
    CASE v.kind = "nil" -> <<>>
      [] v.kind \in {"string", "scalar"} -> v.text
      [] v.kind \in {"nilmap", "map"} -> Json(v)

-----------------------------------------------------------------------------
(* The operations *)

\* The first template that begins and ends, if there is one.
FirstTemplate(s) ==
    LET start == FindTemplateStart(s)
        end == FindTemplateEnd(s, start)
    IN  {[start |-> i, end |-> j, path |-> TrimSpace(SubSeq(s, i + 2, j - 1))] :
            i \in {start} \ {0}, j \in {end} \ {0}}

HasTemplate(s) == FirstTemplate(s) # {}

EqualsIn(s) == FirstPair(s, 1, "=", "=")
DiffersIn(s) == FirstPair(s, 1, "!", "=")
Before(s, i) == TrimSpace(SubSeq(s, 1, i - 1))
After(s, i) == TrimSpace(SubSeq(s, i + 2, Len(s)))

\* A mutant of Holds: != is looked for before ==.
DiffersFirst(s) ==
    IF DiffersIn(s) # 0 THEN Before(s, DiffersIn(s)) # After(s, DiffersIn(s))
    ELSE IF EqualsIn(s) # 0 THEN Before(s, EqualsIn(s)) = After(s, EqualsIn(s))
    ELSE s \notin {<<>>, <<"false">>, <<"0">>}

\* EvaluateCondition, once its text is resolved.
Holds(s) ==
    IF EqualsIn(s) # 0 THEN Before(s, EqualsIn(s)) = After(s, EqualsIn(s))
    ELSE IF DiffersIn(s) # 0 THEN Before(s, DiffersIn(s)) # After(s, DiffersIn(s))
    ELSE s \notin {<<>>, <<"false">>, <<"0">>}

\* No call is under way, and none is remembered.
Idle(ph, c, res, ver, use) ==
    /\ ph = "idle"
    /\ c = [op |-> "ResolveString", text |-> <<>>]
    /\ res = <<>>
    /\ ver = FALSE
    /\ use = {}

Init ==
    /\ config \in Configs
    /\ Idle(phase, call, result, verdict, used)

\* An executor calls ResolveString or EvaluateCondition.
Call(op, text) ==
    /\ phase # "resolving"
    /\ call' = [op |-> op, text |-> text]
    /\ phase' = "resolving"
    /\ result' = text
    /\ verdict' = FALSE
    /\ used' = {}
    /\ UNCHANGED config

\* A mutant of Replace: the text goes on one character too early.
LeavesABrace ==
    /\ phase = "resolving"
    /\ \E t \in FirstTemplate(result) : \E value \in {Replacement(ResolvePath(t.path))} :
          /\ result' = SubSeq(result, 1, t.start - 1) \o value \o SubSeq(result, t.end + 1, Len(result))
          /\ used' = used \cup {value}
    /\ Len(result') <= MaxLength
    /\ UNCHANGED <<config, call, phase, verdict>>

\* A mutant of Replace: a template without a value is left as it is.
LeavesTheUnknown ==
    /\ phase = "resolving"
    /\ \E t \in FirstTemplate(result) : \E value \in {Replacement(ResolvePath(t.path))} :
          /\ result' = IF value = <<>> THEN result
                     ELSE SubSeq(result, 1, t.start - 1) \o value
                             \o SubSeq(result, t.end + 2, Len(result))
          /\ used' = used \cup {value}
    /\ Len(result') <= MaxLength
    /\ UNCHANGED <<config, call, phase, verdict>>

\* One turn of ResolveString's loop.
Replace ==
    /\ phase = "resolving"
    /\ \E t \in FirstTemplate(result) : \E value \in {Replacement(ResolvePath(t.path))} :
          /\ result' = SubSeq(result, 1, t.start - 1) \o value \o SubSeq(result, t.end + 2, Len(result))
          /\ used' = used \cup {value}
    /\ Len(result') <= MaxLength
    /\ UNCHANGED <<config, call, phase, verdict>>

\* The loop breaks, and the operation returns.
Return ==
    /\ phase = "resolving"
    /\ ~HasTemplate(result)
    /\ phase' = "returned"
    /\ verdict' = (call.op = "EvaluateCondition" /\ Holds(result))
    /\ UNCHANGED <<config, call, result, used>>

\* m[name] = value, on a map that is made first when it is nil.
Put(m, name, value) ==
    LET old == IF m.kind = "map" THEN m.of ELSE <<>>
    IN  Object([k \in DOMAIN old \cup {name} |-> IF k = name THEN value ELSE old[k]])

\* An executor uses its resolver from one goroutine: no call is under way.
SetVariable(name, value) ==
    /\ phase # "resolving"
    /\ config' = [config EXCEPT ![<<"var">>] = Put(@, name, value)]
    /\ Idle(phase', call', result', verdict', used')

SetStepOutput(name, value) ==
    /\ phase # "resolving"
    /\ config' = [config EXCEPT ![<<"nodes">>] = Put(@, name, value)]
    /\ Idle(phase', call', result', verdict', used')

Turn == Replace \/ Return

Next ==
    \/ \E op \in {"ResolveString", "EvaluateCondition"}, text \in Templates : Call(op, text)
    \/ Turn
    \/ \E name \in Names, value \in Settable : SetVariable(name, value)
    \/ \E name \in Names, output \in Outputs : SetStepOutput(name, output)

Spec == Init /\ [][Next]_vars

\* The loop of a call that was made goes on turning.
FairSpec == Spec /\ WF_vars(Turn)

-----------------------------------------------------------------------------
(* Correctness *)

\* The text with each template replaced where it stands and nothing that was
\* put in read again: what a reader of a template expects.
Substituted(text) ==
    LET rest(i) == SubSeq(text, i, Len(text))
        from[i \in 1 .. (Len(text) + 1)] ==
            IF ~HasTemplate(rest(i)) THEN rest(i)
            ELSE LET t == CHOOSE t \in FirstTemplate(rest(i)) : TRUE
                 IN  SubSeq(rest(i), 1, t.start - 1) \o Replacement(ResolvePath(t.path))
                        \o from[i + t.end + 1]
    IN  from[1]

\* A text that can begin no template, on its own or with what follows it.
Plain(text) == FindTemplateStart(text) = 0 /\ (text = <<>> \/ Last(text) # "{")

\* Reading the result again after each replacement changes nothing as long as
\* the values put in begin no template: ResolveString returns its text with
\* every template replaced where it stands, and no other.
ResolvesOnce ==
    (phase = "returned" /\ \A text \in used : Plain(text)) => result = Substituted(call.text)

\* Where the sign at place i divides the condition that was written.
DividesAt(i, equal) ==
    LET left == SubSeq(call.text, 1, i - 1)
        right == SubSeq(call.text, i + 2, Len(call.text))
    IN  (i # 0 /\ ~Contains(left \o right, "=") /\ Plain(Substituted(left)))
        => verdict = ((TrimSpace(Substituted(left)) = TrimSpace(Substituted(right))) = equal)

\* A condition with one sign between its operands, of which no value holds a
\* template or an equals sign, compares exactly the values of the operands as
\* it was written: looking for the sign in the resolved text, where the values
\* stand, does not take another for it, with an exclamation mark in them or not.
ComparesOperands ==
    (/\ phase = "returned"
     /\ call.op = "EvaluateCondition"
     /\ \A text \in used : Plain(text) /\ ~Contains(text, "="))
    => /\ DividesAt(EqualsIn(call.text), TRUE)
       /\ EqualsIn(call.text) = 0 => DividesAt(DiffersIn(call.text), FALSE)

\* A value that could feed the loop: it brings as many closing braces as a
\* template uses up.
Feeds(text) == \E i, j \in DOMAIN text : i < j /\ text[i] = "}" /\ text[j] = "}"

\* A call ends unless some value it puts in holds two closing braces, as a
\* template or the JSON of a map in a map does: nothing else, unknown paths and
\* halves of templates included, keeps the loop turning.
EndsUnlessFed ==
    phase = "resolving" ~> (phase = "returned" \/ \E text \in used : Feeds(text))

Closings(text) == {i \in DOMAIN text : text[i] = "}"}
Count(text) == Cardinality(Closings(text))

\* Why it ends: a turn of the loop leaves fewer closing braces in the text than
\* it found, whatever the text and the path were, until some value feeds it.
EachTurnUsesUp ==
    [][(phase = "resolving" /\ phase' = "resolving" /\ \A text \in used' : ~Feeds(text))
         => Count(result') < Count(result)]_vars

=============================================================================
