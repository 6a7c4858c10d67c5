--------------------------- MODULE ConfigService ---------------------------
(***************************************************************************)
(* What Spec.Bind promises a call, with no cache at all: one step, at any  *)
(* moment after the call arrived, hands back the decode of the call's own  *)
(* document, or the successful decode of a document that the platform      *)
(* sends under the very same (tenant, version).  Nothing of another tenant *)
(* or of another version can be answered, and a failed decode can only be  *)
(* the call's own.                                                         *)
(***************************************************************************)
EXTENDS ConfigCalls

VARIABLES
    current,   \* the platform's effective config version of each tenant
    call,      \* the call a caller serves
    answer     \* what Bind returned to it

vars == <<current, call, answer>>

TypeOK ==
    /\ current \in [Tenants -> 1 .. MaxVersion]
    /\ call \in [Callers -> Calls \cup {NoCall}]
    /\ answer \in [Callers -> Outcomes \cup {NoConfig}]

Init ==
    /\ current = [t \in Tenants |-> 1]
    /\ call = [c \in Callers |-> NoCall]
    /\ answer = [c \in Callers |-> NoConfig]

(* The operator saves a new config for the tenant, if there is one. *)
Publish(t) ==
    /\ current[t] < MaxVersion
    /\ Sends[<<t, current[t] + 1>>] # {}
    /\ current' = [current EXCEPT ![t] = @ + 1]
    /\ UNCHANGED <<call, answer>>

(* An Execute call reaches Bind. *)
Ask(c) ==
    /\ call[c] = NoCall
    /\ \E k \in Calls :
         /\ k.version \in {NoVersion, current[k.tenant]}
         /\ MayCarry(k)
         /\ call' = [call EXCEPT ![c] = k]
    /\ UNCHANGED <<current, answer>>

(* What a call may be answered. *)
Shared(k) == {Decode(x) : x \in Sends[KeyOf(k)]} \ {DecodeError}

Allowed(k) ==
    {Decode(k.values)} \cup IF k.version = NoVersion THEN {} ELSE Shared(k)

Answer(c) ==
    /\ call[c] # NoCall
    /\ answer[c] = NoConfig
    /\ \E out \in Allowed(call[c]) : answer' = [answer EXCEPT ![c] = out]
    /\ UNCHANGED <<current, call>>

(* Bind has returned and the goroutine goes on with the answer. *)
Return(c) ==
    /\ answer[c] # NoConfig
    /\ call' = [call EXCEPT ![c] = NoCall]
    /\ answer' = [answer EXCEPT ![c] = NoConfig]
    /\ UNCHANGED current

Next ==
    \/ \E t \in Tenants : Publish(t)
    \/ \E c \in Callers : Ask(c) \/ Answer(c) \/ Return(c)

Spec == Init /\ [][Next]_vars
=============================================================================
