---------------------------- MODULE ConfigCalls ----------------------------
(***************************************************************************)
(* The calls a Skill receives and the pure part of decoding their operator *)
(* config (src/config/spec.go).  Shared by ConfigService, which says what  *)
(* Bind promises, and ConfigCache, which says how Spec.decodeCall does it. *)
(***************************************************************************)
EXTENDS Naturals

CONSTANTS
    Callers,      \* goroutines serving Execute calls
    Tenants,      \* authenticated tenants, the empty one included
    MaxVersion,   \* config versions of a tenant are 1 .. MaxVersion
    Values,       \* config documents (structpb.Struct), by content
    Configs,      \* decoded configs (T)
    DecodeError,  \* the outcome of a decode that fails
    NoConfig,     \* no outcome yet
    NoCall,       \* the caller has no call
    DecodeOf,     \* what Spec.Decode makes of a document
    Sends         \* documents the platform sends under a (tenant, version)

(* The version of a call whose ConfigVersion is the empty string. *)
NoVersion == 0

Keys == Tenants \X (1 .. MaxVersion)

Outcomes == Configs \cup {DecodeError}

(* What one call carries: Call in src/config/spec.go. *)
Calls == [tenant : Tenants, version : 0 .. MaxVersion, values : Values]

(* Spec.Decode: a pure function of the document and of the declared type. *)
Decode(values) == DecodeOf[values]

KeyOf(call) == <<call.tenant, call.version>>

ASSUME CallsAssumption ==
    /\ MaxVersion \in Nat \ {0}
    /\ DecodeOf \in [Values -> Outcomes]
    /\ Sends \in [Keys -> SUBSET Values]
    /\ DecodeError \notin Configs
    /\ NoConfig \notin Outcomes
    /\ NoCall \notin Calls

(* The documents a call of a tenant may carry: those the platform sends    *)
(* under its version, anything when the version is empty.                  *)
MayCarry(call) ==
    \/ call.version = NoVersion
    \/ call.version # NoVersion /\ call.values \in Sends[KeyOf(call)]

(* The platform's promise: a version determines the document.              *)
Determined(key) == \A x, y \in Sends[key] : x = y
=============================================================================
