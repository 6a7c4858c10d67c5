------------------------- MODULE SkillServerProofs -------------------------
(***************************************************************************)
(* The server, for any number of calls, tenants, versions and node types:  *)
(* what an executor reads, which error a call is answered with, and what a *)
(* graceful stop leaves behind.                                            *)
(***************************************************************************)
EXTENDS SkillServer, Recursion, TLAPS

(* The variables a step of a call changes at the call's own goroutine.     *)
Shape ==
    /\ DOMAIN reply = Callers
    /\ stage \in [Callers -> {"idle", "lookup", "bind", "execute", "health", "check", "reply"}]
    /\ request \in [Callers -> Requests]
    /\ call \in [Callers -> Calls \cup {NoCall}]
    /\ answer \in [Callers -> Outcomes \cup {NoConfig}]

(* The registry is complete before the first call, and what the platform   *)
(* is told comes from it.                                                  *)
Early == {"built", "setup", "listening", "panicked"}

Registered ==
    /\ schemas \subseteq executors
    /\ told \subseteq executors
    /\ process \in Early => told = {} /\ \A c \in Callers : stage[c] = "idle"

(* What is known of a call at each point of Execute and Health.            *)
Idle(c) ==
    /\ request[c] = NoRequest /\ reply[c] = Reply("none")
    /\ call[c] = NoCall /\ answer[c] = NoConfig

Asked(c) ==
    /\ request[c] \in [node : Nodes] /\ reply[c] = Reply("none")
    /\ call[c] \in Calls /\ MayCarry(call[c])

Runs(c) ==
    IF "config" \in declared
    THEN answer[c] \in Service!Allowed(call[c]) \ {DecodeError}
    ELSE answer[c] = NoConfig

Why(c) ==
    Executing(c) =>
        LET known == request[c].node \in executors
            broken == "config" \in declared /\ Decode(call[c].values) = DecodeError
        IN  /\ reply[c].type = "validation" <=> ~known
            /\ OwnDocument(c) => (reply[c].type = "config" <=> known /\ broken)

InCall(c) ==
    /\ stage[c] = "idle" => Idle(c)
    /\ stage[c] \in {"lookup", "bind", "execute"} => Asked(c)
    /\ stage[c] \in {"lookup", "bind"} => answer[c] = NoConfig
    /\ stage[c] \in {"bind", "execute"} => request[c].node \in executors
    /\ stage[c] = "bind" => "config" \in declared
    /\ stage[c] = "execute" => Runs(c)
    /\ stage[c] \in {"health", "check"} =>
         request[c] \in [asks : BOOLEAN, values : Values] /\ reply[c] = Reply("none")
    /\ stage[c] = "reply" => Why(c) /\ (Executing(c) \/ reply[c].type = "health")

Inv ==
    /\ Shape
    /\ Registered
    /\ \A c \in Callers : InCall(c)

(* A request of Health is none of Execute's.                               *)
LEMMA RequestKinds ==
    /\ \A r \in [node : Nodes] : r # NoRequest /\ "node" \in DOMAIN r
    /\ \A r \in [asks : BOOLEAN, values : Values] : "node" \notin DOMAIN r
  BY ServerAssumption

(* When its version determines its document, a call may be answered the    *)
(* decode of its own document only.                                        *)
LEMMA OwnAnswer ==
    ASSUME NEW k, MayCarry(k), k.version = NoVersion \/ Determined(KeyOf(k)),
           NEW out \in Service!Allowed(k)
    PROVE  out = Decode(k.values)
<1>1. Service!Allowed(k) =
        {Decode(k.values)} \cup
        IF k.version = NoVersion THEN {}
        ELSE {Decode(x) : x \in Sends[KeyOf(k)]} \ {DecodeError}
  BY DEF Service!Allowed, Service!Shared, Service!Decode, Service!KeyOf,
         Service!NoVersion, Decode, KeyOf, NoVersion
<1>2. CASE k.version = NoVersion
  BY <1>1, <1>2
<1>3. CASE k.version # NoVersion
  <2>1. \A x \in Sends[KeyOf(k)] : x = k.values
    BY <1>3 DEF MayCarry, Determined
  <2> QED BY <1>1, <1>3, <2>1
<1> QED BY <1>2, <1>3

LEMMA InitInv == Init => Inv
<1> SUFFICES ASSUME Init PROVE Inv
  OBVIOUS
<1>1. Service!Init
  BY DEF Init
<1>2. /\ call = [c \in Callers |-> NoCall]
      /\ answer = [c \in Callers |-> NoConfig]
  BY <1>1 DEF Service!Init
<1>3. Shape
  BY <1>2 DEF Init, Shape, Requests
<1>4. \A c \in Callers : InCall(c)
  BY <1>2 DEF Init, InCall, Idle
<1> QED BY <1>3, <1>4 DEF Init, Inv, Registered

-----------------------------------------------------------------------------
(* A step that leaves the registry and the calls alone leaves what is      *)
(* known of the calls alone.                                               *)
LEMMA CallsAlone ==
    ASSUME Inv, UNCHANGED <<declared, executors, call, answer, rpcs>>
    PROVE  Shape' /\ \A c \in Callers : InCall(c)'
<1>1. Shape'
  BY DEF Inv, Shape, rpcs
<1>2. ASSUME NEW c \in Callers PROVE InCall(c)'
  <2>1. InCall(c)
    BY DEF Inv
  <2> QED BY <2>1 DEF InCall, Idle, Asked, Runs, Why, Executing, OwnDocument, rpcs,
                      MayCarry, Service!Allowed, Service!Shared
<1> QED BY <1>1, <1>2

(* While the registry grows there are no calls.                            *)
LEMMA RegistryStep ==
    ASSUME Inv, process \in Early, UNCHANGED <<told, binding, rpcs>>,
           executors \subseteq executors', schemas' \subseteq executors'
    PROVE  Inv'
<1>1. \A c \in Callers : stage[c] = "idle" /\ stage'[c] = "idle"
  BY DEF Inv, Registered, rpcs
<1>2. Shape'
  BY DEF Inv, Shape, binding, rpcs
<1>3. Registered'
  BY <1>1 DEF Inv, Registered
<1>4. \A c \in Callers : InCall(c)'
  BY <1>1 DEF Inv, InCall, Idle, binding, rpcs
<1> QED BY <1>2, <1>3, <1>4 DEF Inv

(* A step of one call's goroutine.                                         *)
LEMMA CallStep ==
    ASSUME Inv, NEW c \in Callers,
           process = "serving", UNCHANGED <<life, registry, told>>,
           Shape', InCall(c)',
           \A d \in Callers \ {c} :
               /\ stage'[d] = stage[d] /\ request'[d] = request[d]
               /\ reply'[d] = reply[d] /\ call'[d] = call[d] /\ answer'[d] = answer[d]
    PROVE  Inv'
<1>1. ASSUME NEW d \in Callers \ {c} PROVE InCall(d)'
  <2>1. InCall(d)
    BY DEF Inv
  <2> QED BY <2>1 DEF InCall, Idle, Asked, Runs, Why, Executing, OwnDocument, registry,
                      MayCarry, Service!Allowed, Service!Shared
<1>2. Registered'
  BY DEF Inv, Registered, Early, life, registry
<1> QED BY <1>1, <1>2 DEF Inv

(* Execute, up to the executor.                                            *)
LEMMA ExecuteStep ==
    ASSUME Inv, NEW c \in Callers,
           AcceptExecute(c) \/ Lookup(c) \/ Bind(c)
    PROVE  Inv'
<1> USE DEF At, Go, Answered, Reply
<1>0. Shape /\ InCall(c)
  BY DEF Inv
<1>1. CASE AcceptExecute(c)
  <2>1. PICK k \in Calls : MayCarry(k) /\ call' = [call EXCEPT ![c] = k]
    BY <1>1 DEF AcceptExecute, Service!Ask, Service!Calls, Service!MayCarry,
                Service!NoVersion, Service!KeyOf, Calls, MayCarry, NoVersion, KeyOf
  <2>2. PICK n \in Nodes : request' = [request EXCEPT ![c] = [node |-> n]]
    BY <1>1 DEF AcceptExecute
  <2>3. UNCHANGED <<current, answer, reply, life, registry, told>>
    BY <1>1 DEF AcceptExecute, Service!Ask
  <2>4. /\ process = "serving" /\ stage[c] = "idle"
        /\ stage' = [stage EXCEPT ![c] = "lookup"]
    BY <1>1 DEF AcceptExecute, Arrives
  <2>5. Shape'
    BY <1>0, <2>1, <2>2, <2>3, <2>4 DEF Shape, Requests
  <2>6. InCall(c)'
    BY <1>0, <2>1, <2>2, <2>3, <2>4 DEF Shape, InCall, Idle, Asked, MayCarry
  <2> QED BY <2>1, <2>2, <2>3, <2>4, <2>5, <2>6, <1>0, CallStep DEF Shape
<1>2. CASE Lookup(c)
  <2>1. /\ process = "serving" /\ stage[c] = "lookup"
        /\ UNCHANGED <<life, registry, told, binding, request>>
    BY <1>2 DEF Lookup
  <2>2. CASE request[c].node \notin executors
    <3>1. /\ stage' = [stage EXCEPT ![c] = "reply"]
          /\ reply' = [reply EXCEPT ![c] = [type |-> "validation", check |-> NoCheck]]
      BY <1>2, <2>2 DEF Lookup
    <3>2. Shape'
      BY <1>0, <2>1, <3>1 DEF Shape, binding
    <3>3. InCall(c)'
      BY <1>0, <2>1, <2>2, <3>1, RequestKinds
      DEF Shape, InCall, Asked, Why, Executing, binding, registry
    <3> QED BY <1>0, <2>1, <3>1, <3>2, <3>3, CallStep DEF Shape, binding
  <2>3. CASE request[c].node \in executors
    <3>1. /\ stage' = [stage EXCEPT ![c] = IF "config" \in declared THEN "bind" ELSE "execute"]
          /\ reply' = reply
      BY <1>2, <2>3 DEF Lookup
    <3>2. Shape'
      BY <1>0, <2>1, <3>1 DEF Shape, binding
    <3>3. InCall(c)'
      BY <1>0, <2>1, <2>3, <3>1 DEF Shape, InCall, Asked, Runs, MayCarry, binding, registry
    <3> QED BY <1>0, <2>1, <3>1, <3>2, <3>3, CallStep DEF Shape, binding
  <2> QED BY <2>2, <2>3
<1>3. CASE Bind(c)
  <2>1. /\ process = "serving" /\ stage[c] = "bind"
        /\ UNCHANGED <<life, registry, told, request, current, call>>
        /\ Asked(c) /\ request[c].node \in executors /\ "config" \in declared
    BY <1>0, <1>3 DEF Bind, Service!Answer, InCall
  <2>2. PICK out \in Service!Allowed(call[c]) : answer' = [answer EXCEPT ![c] = out]
    BY <1>3 DEF Bind, Service!Answer
  <2>3. out \in Outcomes
    <3>1. \A x \in Values : Decode(x) \in Outcomes
      BY CallsAssumption DEF Decode
    <3>2. call[c].values \in Values
      BY <2>1 DEF Asked, Calls
    <3>3. call[c].version # NoVersion => Sends[KeyOf(call[c])] \subseteq Values
      BY <2>1, CallsAssumption DEF Asked, Calls, KeyOf, Keys, NoVersion
    <3> QED BY <3>1, <3>2, <3>3 DEF Service!Allowed, Service!Shared, Service!Decode,
               Service!KeyOf, Service!NoVersion, Decode, KeyOf, NoVersion
  <2>4. answer'[c] = out /\ answer' \in [Callers -> Outcomes \cup {NoConfig}]
    BY <1>0, <2>2, <2>3 DEF Shape
  <2>5. CASE out = DecodeError
    <3>1. /\ stage' = [stage EXCEPT ![c] = "reply"]
          /\ reply' = [reply EXCEPT ![c] = [type |-> "config", check |-> NoCheck]]
      BY <1>3, <2>4, <2>5 DEF Bind
    <3>2. Shape'
      BY <1>0, <2>1, <2>4, <3>1 DEF Shape
    <3>3. OwnDocument(c) => Decode(call[c].values) = DecodeError
      BY <2>1, <2>5, OwnAnswer DEF OwnDocument, Asked
    <3>4. Why(c)'
      BY <1>0, <2>1, <3>1, <3>3 DEF Shape, Why, Executing, OwnDocument, registry
    <3>5. InCall(c)'
      BY <1>0, <2>1, <3>1, <3>4, RequestKinds DEF Shape, InCall, Executing, Asked
    <3> QED BY <1>0, <2>1, <2>2, <3>1, <3>2, <3>5, CallStep DEF Shape
  <2>6. CASE out # DecodeError
    <3>1. stage' = [stage EXCEPT ![c] = "execute"] /\ reply' = reply
      BY <1>3, <2>4, <2>6 DEF Bind
    <3>2. Shape'
      BY <1>0, <2>1, <2>4, <3>1 DEF Shape
    <3>3. Runs(c)'
      BY <2>1, <2>2, <2>4, <2>6 DEF Runs, registry, Service!Allowed, Service!Shared
    <3>4. InCall(c)'
      BY <1>0, <2>1, <3>1, <3>3 DEF Shape, InCall, Asked, MayCarry, registry
    <3> QED BY <1>0, <2>1, <2>2, <3>1, <3>2, <3>4, CallStep DEF Shape
  <2> QED BY <2>5, <2>6
<1> QED BY <1>1, <1>2, <1>3

(* The executor's return, and the end of a call.                           *)
LEMMA ReturnStep ==
    ASSUME Inv, NEW c \in Callers, ExecutorReturns(c) \/ Send(c)
    PROVE  Inv'
<1> USE DEF At, Go, Answered
<1>0. Shape /\ InCall(c)
  BY DEF Inv
<1>1. CASE ExecutorReturns(c)
  <2>1. /\ process = "serving" /\ stage[c] = "execute"
        /\ UNCHANGED <<life, registry, told, binding, request>>
        /\ stage' = [stage EXCEPT ![c] = "reply"]
        /\ Asked(c) /\ request[c].node \in executors /\ Runs(c)
    BY <1>0, <1>1 DEF ExecutorReturns, InCall
  <2>2. PICK outcome \in {"ok", "execution"} : reply' = [reply EXCEPT ![c] = Reply(outcome)]
    BY <1>1 DEF ExecutorReturns
  <2>3. Shape'
    BY <1>0, <2>1, <2>2 DEF Shape, binding
  <2>4. "config" \in declared /\ OwnDocument(c) => Decode(call[c].values) # DecodeError
    BY <2>1, OwnAnswer DEF OwnDocument, Asked, Runs
  <2>5. reply'[c].type \notin {"validation", "config"}
    BY <1>0, <2>2 DEF Shape, Reply
  <2>6. Why(c)'
    BY <2>1, <2>4, <2>5 DEF Why, Executing, OwnDocument, binding, registry
  <2>7. InCall(c)'
    BY <1>0, <2>1, <2>6, RequestKinds DEF Shape, InCall, Executing, Asked
  <2> QED BY <1>0, <2>1, <2>2, <2>3, <2>7, CallStep DEF Shape, binding
<1>2. CASE Send(c)
  <2>1. /\ process = "serving" /\ UNCHANGED <<life, registry, told, current>>
        /\ stage' = [stage EXCEPT ![c] = "idle"]
        /\ call' = [call EXCEPT ![c] = NoCall]
        /\ answer' = [answer EXCEPT ![c] = NoConfig]
        /\ request' = [request EXCEPT ![c] = NoRequest]
        /\ reply' = [reply EXCEPT ![c] = Reply("none")]
    BY <1>2 DEF Send
  <2>2. Shape'
    BY <1>0, <2>1 DEF Shape, Requests
  <2>3. InCall(c)'
    <3>1. stage'[c] = "idle" /\ request'[c] = NoRequest /\ call'[c] = NoCall
          /\ answer'[c] = NoConfig /\ reply'[c] = Reply("none")
      BY <1>0, <2>1 DEF Shape
    <3> QED BY <3>1 DEF InCall, Idle, Reply
  <2> QED BY <1>0, <2>1, <2>2, <2>3, CallStep DEF Shape
<1> QED BY <1>1, <1>2

(* Health: its answers are none of Execute's errors.                       *)
LEMMA HealthStep ==
    ASSUME Inv, NEW c \in Callers,
           AcceptHealth(c) \/ Health(c) \/ CheckReturns(c) \/ CheckPanics(c)
    PROVE  Inv'
<1> USE DEF At, Go, Answered
<1>0. Shape /\ InCall(c)
  BY DEF Inv
<1>1. CASE AcceptHealth(c)
  <2>1. PICK asks \in BOOLEAN, v \in Values :
          request' = [request EXCEPT ![c] = [asks |-> asks, values |-> v]]
    BY <1>1 DEF AcceptHealth
  <2>2. /\ process = "serving" /\ stage[c] = "idle"
        /\ stage' = [stage EXCEPT ![c] = "health"]
        /\ UNCHANGED <<life, registry, told, binding, reply>>
    BY <1>1 DEF AcceptHealth, Arrives
  <2>3. [asks |-> asks, values |-> v] \in [asks : BOOLEAN, values : Values]
    OBVIOUS
  <2>4. Shape'
    BY <1>0, <2>1, <2>2, <2>3 DEF Shape, Requests, binding
  <2>5. InCall(c)'
    BY <1>0, <2>1, <2>2, <2>3 DEF Shape, InCall, Idle, Reply
  <2> QED BY <1>0, <2>1, <2>2, <2>4, <2>5, CallStep DEF Shape, binding
<1>2. ASSUME stage[c] \in {"health", "check"}, process = "serving",
             UNCHANGED <<life, registry, told, binding, request>>,
             NEW r,
             \/ stage' = [stage EXCEPT ![c] = "check"] /\ reply' = reply
             \/ /\ stage' = [stage EXCEPT ![c] = "reply"]
                /\ reply' = [reply EXCEPT ![c] = r] /\ r.type = "health"
      PROVE  Inv'
  <2>1. request[c] \in [asks : BOOLEAN, values : Values] /\ reply[c] = Reply("none")
    BY <1>0, <1>2 DEF InCall
  <2>2. ~Executing(c)'
    BY <1>2, <2>1, RequestKinds DEF Executing
  <2>3. CASE stage' = [stage EXCEPT ![c] = "check"] /\ reply' = reply
    <3>1. Shape'
      BY <1>0, <1>2, <2>3 DEF Shape, binding
    <3>2. InCall(c)'
      BY <1>0, <1>2, <2>1, <2>3 DEF Shape, InCall, Reply
    <3> QED BY <1>0, <1>2, <2>3, <3>1, <3>2, CallStep DEF Shape, binding
  <2>4. CASE /\ stage' = [stage EXCEPT ![c] = "reply"]
             /\ reply' = [reply EXCEPT ![c] = r] /\ r.type = "health"
    <3>1. Shape'
      BY <1>0, <1>2, <2>4 DEF Shape, binding
    <3>2. reply'[c].type = "health"
      BY <1>0, <2>4 DEF Shape
    <3>3. InCall(c)'
      BY <1>0, <2>2, <2>4, <3>2 DEF Shape, InCall, Why
    <3> QED BY <1>0, <1>2, <2>4, <3>1, <3>3, CallStep DEF Shape, binding
  <2> QED BY <1>2, <2>3, <2>4
<1>3. CASE Health(c)
  <2>1. /\ stage[c] = "health" /\ process = "serving"
        /\ UNCHANGED <<life, registry, told, binding, request>>
    BY <1>3 DEF Health
  <2>2. CASE stage' = [stage EXCEPT ![c] = "check"] /\ reply' = reply
    BY <1>2, <2>1, <2>2
  <2>3. CASE stage' = [stage EXCEPT ![c] = "reply"] /\ reply' = [reply EXCEPT ![c] = Reply("health")]
    <3>1. Reply("health").type = "health"
      BY DEF Reply
    <3> QED BY <1>2, <2>1, <2>3, <3>1
  <2>4. CASE /\ stage' = [stage EXCEPT ![c] = "reply"]
             /\ reply' = [reply EXCEPT ![c] =
                  CheckReply("fail", "fail", <<"fail">>)]
    <3> DEFINE r == CheckReply("fail", "fail", <<"fail">>)
    <3>1. r.type = "health"
      BY DEF CheckReply
    <3>2. reply' = [reply EXCEPT ![c] = r]
      BY <2>4
    <3> HIDE DEF r
    <3> QED BY <1>2, <2>1, <2>4, <3>1, <3>2
  <2> QED BY <1>3, <2>2, <2>3, <2>4 DEF Health
<1>4. CASE CheckReturns(c)
  <2>1. /\ stage[c] = "check" /\ process = "serving"
        /\ UNCHANGED <<life, registry, told, binding, request>>
    BY <1>4 DEF CheckReturns
  <2>2. PICK rows \in Rows, own \in Statuses \cup {""} :
          /\ stage' = [stage EXCEPT ![c] = "reply"]
          /\ reply' = [reply EXCEPT ![c] =
               CheckReply(IF own = "" THEN Derived(rows) ELSE own, own, rows)]
    BY <1>4 DEF CheckReturns
  <2> DEFINE r == CheckReply(IF own = "" THEN Derived(rows) ELSE own, own, rows)
  <2>3. r.type = "health"
    BY DEF CheckReply
  <2>4. reply' = [reply EXCEPT ![c] = r]
    BY <2>2
  <2> HIDE DEF r
  <2> QED BY <1>2, <2>1, <2>2, <2>3, <2>4
<1>5. CASE CheckPanics(c)
  <2>1. /\ stage[c] = "check" /\ process = "serving"
        /\ UNCHANGED <<life, registry, told, binding, request>>
        /\ stage' = [stage EXCEPT ![c] = "reply"]
        /\ reply' = [reply EXCEPT ![c] = Reply("health")]
    BY <1>5 DEF CheckPanics
  <2>2. Reply("health").type = "health"
    BY DEF Reply
  <2> QED BY <1>2, <2>1, <2>2
<1> QED BY <1>1, <1>3, <1>4, <1>5

(* The life of the process.                                                *)
LEMMA LifeStep ==
    ASSUME Inv, \/ Life \/ GracefulStop \/ GetNodeTypes \/ GetNodeSchema
                \/ \E n \in Nodes : RegisterExecutor(n) \/ RegisterExecutorWithSchema(n)
                \/ \E t \in Tenants : Publish(t)
                \/ \E c \in Callers : ExecutorPanics(c)
    PROVE  Inv'
<1> USE DEF Early
<1>0. schemas \subseteq executors
  BY DEF Inv, Registered
<1>1. CASE NewSkillServer
  <2>1. /\ process \in Early
        /\ UNCHANGED <<executors, schemas, told, binding, rpcs>>
    BY <1>1 DEF NewSkillServer
  <2> QED BY <1>0, <2>1, RegistryStep
<1>2. ASSUME NEW n \in Nodes, RegisterExecutor(n) PROVE Inv'
  <2>1. /\ process \in Early /\ UNCHANGED <<told, binding, rpcs>>
        /\ executors' = executors \cup {n} /\ schemas' \subseteq schemas \cup {n}
    BY <1>2 DEF RegisterExecutor, life
  <2> QED BY <1>0, <2>1, RegistryStep
<1>3. ASSUME NEW n \in Nodes, RegisterExecutorWithSchema(n) PROVE Inv'
  <2>1. /\ process \in Early /\ UNCHANGED <<told, binding, rpcs>>
        /\ executors' = executors \cup {n} /\ schemas' = schemas \cup {n}
    BY <1>3 DEF RegisterExecutorWithSchema, life
  <2> QED BY <1>0, <2>1, RegistryStep
<1>4. CASE Listen \/ Serve
  <2>1. /\ process \in Early
        /\ UNCHANGED <<executors, schemas, told, binding, rpcs>>
    BY <1>4 DEF Listen, Serve, registry
  <2> QED BY <1>0, <2>1, RegistryStep
<1>5. CASE Stopped
  <2>1. Shape' /\ \A c \in Callers : InCall(c)'
    BY <1>5, CallsAlone DEF Stopped, Ended, binding, registry
  <2>2. Registered'
    BY <1>5 DEF Inv, Stopped, Ended, Registered, registry, rpcs
  <2> QED BY <2>1, <2>2 DEF Inv
<1>6. CASE Notify \/ Signal \/ ReceiveSignal \/ GoneAway
           \/ GetNodeTypes \/ GetNodeSchema \/ \E c \in Callers : ExecutorPanics(c)
  <2>1. UNCHANGED <<registry, binding, rpcs>>
    BY <1>6 DEF Notify, Signal, ReceiveSignal, GoneAway, GetNodeTypes, GetNodeSchema,
                ExecutorPanics, life
  <2>2. /\ process' \in {process, "killed", "crashed"}
        /\ told' \subseteq told \cup executors \cup schemas
        /\ process \in Early => told' = told
    BY <1>6 DEF Notify, Signal, ReceiveSignal, GoneAway, GetNodeTypes, GetNodeSchema,
                ExecutorPanics, life
  <2>3. Shape' /\ \A c \in Callers : InCall(c)'
    BY <2>1, CallsAlone DEF binding, registry
  <2>4. Registered'
    BY <2>1, <2>2 DEF Inv, Registered, registry, rpcs
  <2> QED BY <2>3, <2>4 DEF Inv
<1>7. ASSUME NEW t \in Tenants, Publish(t) PROVE Inv'
  <2>1. UNCHANGED <<life, registry, told, call, answer, rpcs>>
    BY <1>7 DEF Publish, Service!Publish
  <2>2. Shape' /\ \A c \in Callers : InCall(c)'
    BY <2>1, CallsAlone DEF registry
  <2> QED BY <2>1, <2>2 DEF Inv, Registered, life, registry, rpcs
<1> QED BY <1>1, <1>2, <1>3, <1>4, <1>5, <1>6, <1>7 DEF Life, GracefulStop

(* What is known of the calls and of the registry holds at every moment.   *)
THEOREM Invariance == Spec => []Inv
<1>1. Inv /\ [Next]_vars => Inv'
  <2> SUFFICES ASSUME Inv, [Next]_vars PROVE Inv'
    OBVIOUS
  <2>1. ASSUME NEW c \in Callers,
               AcceptExecute(c) \/ AcceptHealth(c) \/ Handle(c) \/ RunsSkill(c)
        PROVE  Inv'
    BY <2>1, ExecuteStep, ReturnStep, HealthStep, LifeStep DEF Handle, RunsSkill
  <2>2. CASE UNCHANGED vars
    <3>1. Shape' /\ \A c \in Callers : InCall(c)'
      BY <2>2, CallsAlone DEF vars, binding, registry
    <3> QED BY <2>2, <3>1 DEF vars, life, registry, rpcs, Inv, Registered
  <2> QED BY <2>1, <2>2, LifeStep DEF Next
<1> QED BY <1>1, InitInv, PTL DEF Spec

(* An executor runs for a registered node type only and reads the decode   *)
(* of the config sent for its own call (config.From).                      *)
THEOREM ExecutorsReadTheirOwn == Spec => []ReadsOwnConfig
<1>1. Inv => ReadsOwnConfig
  <2> SUFFICES ASSUME Inv, NEW c \in Callers, stage[c] = "execute"
               PROVE  /\ request[c].node \in executors
                      /\ IF "config" \in declared
                         THEN /\ From(c) \in Service!Allowed(call[c]) \ {DecodeError}
                              /\ OwnDocument(c) => From(c) = Decode(call[c].values)
                         ELSE From(c) = NoConfig
    BY DEF ReadsOwnConfig
  <2>1. Asked(c) /\ Runs(c) /\ request[c].node \in executors
    BY DEF Inv, InCall
  <2> QED BY <2>1, OwnAnswer DEF Runs, Asked, From, OwnDocument
<1> QED BY <1>1, Invariance, PTL

(* Unknown node types and configs that do not decode are told apart from   *)
(* each other and from what the executor says.                             *)
THEOREM ErrorsTellWhy == Spec => []ErrorTellsWhy
<1>1. Inv => ErrorTellsWhy
  BY DEF Inv, InCall, Why, ErrorTellsWhy
<1> QED BY <1>1, Invariance, PTL

(* What the platform has been told of can be executed.                     *)
THEOREM ToldCanBeExecuted == Spec => []ToldIsExecutable
<1>1. Inv => ToldIsExecutable
  <2> SUFFICES ASSUME Inv, NEW c \in Callers, reply[c].type = "validation"
               PROVE  request[c].node \notin told
    BY DEF ToldIsExecutable
  <2>1. stage[c] = "reply"
    BY DEF Inv, Shape, InCall, Idle, Asked, Reply
  <2>2. request[c].node \notin executors
    BY <2>1 DEF Inv, InCall, Why
  <2> QED BY <2>2 DEF Inv, Registered
<1> QED BY <1>1, Invariance, PTL

-----------------------------------------------------------------------------
(* Types, and what Health answers.                                         *)

Worst(rows) ==
    IF \E i \in DOMAIN rows : rows[i] = "fail" THEN "fail"
    ELSE IF \E i \in DOMAIN rows : rows[i] = "warn" THEN "warn"
    ELSE "ok"

(* The loop over the rows that stops at the first failed one finds the     *)
(* worst of them.                                                          *)
LEMMA DerivedIsWorst ==
    ASSUME NEW rows \in Seq(Statuses)
    PROVE  Derived(rows) = Worst(rows)
<1>1. PICK N \in Nat : N = Len(rows) /\ rows \in [1 .. N -> Statuses]
  OBVIOUS
<1>2. N \in Nat /\ Len(rows) = N /\ DOMAIN rows = 1 .. N
  BY <1>1
<1> DEFINE next(s, n) == IF s = "fail" \/ rows[n] = "ok" THEN s ELSE rows[n]
           step == [x \in (1 .. N) \X Statuses |-> next(x[2], x[1])]
           status[n \in 0 .. Len(rows)] ==
               IF n = 0 THEN "ok"
               ELSE IF status[n - 1] = "fail" \/ rows[n] = "ok" THEN status[n - 1]
               ELSE rows[n]
<1>3. \E f : f = [n \in 0 .. Len(rows) |->
                    IF n = 0 THEN "ok"
                    ELSE IF f[n - 1] = "fail" \/ rows[n] = "ok" THEN f[n - 1]
                    ELSE rows[n]]
  <2>1. step \in [(1 .. N) \X Statuses -> Statuses] /\ "ok" \in Statuses
    BY <1>1, <1>2 DEF Statuses
  <2>2. \A n \in 1 .. N, s \in Statuses : step[<<n, s>>] = next(s, n)
    OBVIOUS
  <2> HIDE DEF step
  <2>3. PICK f : Follows(f, N, Statuses, "ok", step)
    BY <1>2, <2>1, FromBefore
  <2>4. \A n \in 1 .. N : f[n] = next(f[n - 1], n)
    <3>1. \A n \in 1 .. N : f[n - 1] \in Statuses
      BY <1>2, <2>3 DEF Follows
    <3> QED BY <2>2, <2>3, <3>1 DEF Follows
  <2> DEFINE g == [n \in 0 .. Len(rows) |->
                     IF n = 0 THEN "ok"
                     ELSE IF f[n - 1] = "fail" \/ rows[n] = "ok" THEN f[n - 1]
                     ELSE rows[n]]
  <2>5. \A n \in 0 .. N : g[n] = f[n]
    BY <1>2, <2>3, <2>4 DEF Follows
  <2>6. g = [n \in 0 .. N |-> g[n]] /\ f = [n \in 0 .. N |-> f[n]]
    BY <1>2, <2>3 DEF Follows
  <2>7. f = g
    <3> HIDE DEF g
    <3> QED BY <2>5, <2>6
  <2> QED BY <2>7
<1>4. status = [n \in 0 .. Len(rows) |->
                  IF n = 0 THEN "ok"
                  ELSE IF status[n - 1] = "fail" \/ rows[n] = "ok" THEN status[n - 1]
                  ELSE rows[n]]
  BY <1>3
<1>5. Derived(rows) = status[Len(rows)]
  BY DEF Derived
<1> HIDE DEF status
<1>6. status[0] = "ok" /\ \A n \in 1 .. N : status[n] = next(status[n - 1], n)
  BY <1>2, <1>4
<1> DEFINE WorstUpTo(n) ==
               IF \E i \in 1 .. n : rows[i] = "fail" THEN "fail"
               ELSE IF \E i \in 1 .. n : rows[i] = "warn" THEN "warn" ELSE "ok"
           S == {n \in 0 .. N : status[n] = WorstUpTo(n)}
<1>7. 0 \in S
  BY <1>2, <1>6
<1>8. ASSUME NEW n \in 1 .. N, n - 1 \in S PROVE n \in S
  <2>1. \A i \in 1 .. n : i \in 1 .. (n - 1) \/ i = n
    OBVIOUS
  <2>2. \A i \in 1 .. (n - 1) : i \in 1 .. n
    OBVIOUS
  <2>3. n \in 1 .. n /\ rows[n] \in Statuses
    BY <1>1
  <2>4. status[n - 1] = WorstUpTo(n - 1) /\ status[n] = next(status[n - 1], n)
    BY <1>6, <1>8
  <2>5. status[n] = WorstUpTo(n)
    BY <2>1, <2>2, <2>3, <2>4 DEF Statuses
  <2> QED BY <2>5
<1> HIDE DEF S
<1>9. N \in S
  <2>1. \A n \in 0 .. N : n \in S
    BY <1>2, <1>7, <1>8, UpTo
  <2> QED BY <1>2, <2>1
<1> QED BY <1>2, <1>5, <1>9 DEF S, Worst

\* The status of a check is the one it named, or else its worst row's.
Judged(check) == check.status = IF check.named # "" THEN check.named ELSE Worst(check.rows)

\* A check that is answered was wanted and is judged; a wanted one of values
\* that do not decode failed.
Tells(c) ==
    LET check == reply[c].check
        wanted == request[c].asks /\ "check" \in declared
    IN  /\ check # NoCheck => wanted /\ Judged(check)
        /\ wanted /\ Decode(request[c].values) = DecodeError =>
             check # NoCheck /\ check.status = "fail"

\* What is known of a Health call at each point.
InHealth(c) ==
    /\ stage[c] = "check" =>
         /\ "check" \in declared /\ request[c].asks
         /\ Decode(request[c].values) # DecodeError
    /\ stage[c] = "reply" /\ ~Executing(c) => Tells(c)

\* The types that the inductive invariant leaves open.
Types ==
    /\ process \in Lives
    /\ watcher \in {"none", "started", "waiting", "stopping", "ended"}
    /\ pending \in BOOLEAN /\ streams \in BOOLEAN
    /\ declared \subseteq {"config", "check"}
    /\ executors \subseteq Nodes
    /\ current \in [Tenants -> 1 .. MaxVersion]
    /\ reply \in [Callers -> Replies]

Known == Types /\ \A c \in Callers : InHealth(c)

HealthInv == Inv /\ Known

(* The status that is answered where the check named none, or one.         *)
LEMMA AnsweredJudged ==
    ASSUME NEW rows, Derived(rows) = Worst(rows), NEW own
    PROVE  Judged(CheckReply(IF own = "" THEN Derived(rows) ELSE own, own, rows).check)
BY DEF Judged, CheckReply

(* And of values that do not decode.                                       *)
LEMMA NamedJudged ==
    /\ Judged(CheckReply("fail", "fail", <<"fail">>).check)
    /\ CheckReply("fail", "fail", <<"fail">>).check.status = "fail"
BY DEF Judged, CheckReply

(* Every reply is one: that of no check, of a failed decode, of a check    *)
(* with a status of its own and of one without.                            *)
LEMMA RepliesTyped ==
    /\ \A type \in {"none", "ok", "validation", "config", "execution", "health"} :
          Reply(type) \in Replies
    /\ Rows \cup {<<"fail">>} \subseteq Seq(Statuses)
    /\ CheckReply("fail", "fail", <<"fail">>) \in Replies
    /\ CheckReply("fail", "fail", <<"fail">>).check # NoCheck
    /\ \A rows \in Rows, own \in Statuses \cup {""} :
          CheckReply(IF own = "" THEN Derived(rows) ELSE own, own, rows) \in Replies
<1>1. Rows \cup {<<"fail">>} \subseteq Seq(Statuses)
  <2>1. \A n \in 0 .. MaxRows : \A rows \in [1 .. n -> Statuses] : rows \in Seq(Statuses)
    BY ServerAssumption
  <2>2. <<"fail">> \in Seq(Statuses)
    BY DEF Statuses
  <2> QED BY <2>1, <2>2 DEF Rows
<1>2. \A rows \in Rows : Derived(rows) \in Statuses
  BY <1>1, DerivedIsWorst DEF Worst, Statuses
<1>3. /\ CheckReply("fail", "fail", <<"fail">>) \in Replies
      /\ CheckReply("fail", "fail", <<"fail">>).check # NoCheck
  <2>1. [status |-> "fail", named |-> "fail", rows |-> <<"fail">>] \in Checks
    BY DEF Checks, Statuses
  <2> QED BY <2>1, ServerAssumption DEF CheckReply, Replies
<1>4. \A status \in Statuses, own \in Statuses \cup {""}, rows \in Rows :
         CheckReply(status, own, rows) \in Replies
  BY DEF CheckReply, Replies, Checks
<1>5. \A rows \in Rows, own \in Statuses \cup {""} :
         CheckReply(IF own = "" THEN Derived(rows) ELSE own, own, rows) \in Replies
  BY <1>2, <1>4
<1>6. \A type \in {"none", "ok", "validation", "config", "execution", "health"} :
         Reply(type) \in Replies
  BY DEF Reply, Replies
<1> QED BY <1>1, <1>3, <1>4, <1>5, <1>6

(* The process, its registry and the platform keep their types.            *)
LEMMA LifeTyped ==
    ASSUME Types, \/ Life \/ GracefulStop \/ GetNodeTypes \/ GetNodeSchema
                  \/ \E n \in Nodes : RegisterExecutor(n) \/ RegisterExecutorWithSchema(n)
                  \/ \E t \in Tenants : Publish(t)
                  \/ \E c \in Callers : ExecutorPanics(c)
    PROVE  Types'
<1> USE DEF Types, Lives, Running
<1>1. CASE NewSkillServer
  BY <1>1 DEF NewSkillServer, binding, rpcs
<1>2. CASE Listen \/ Serve
  BY <1>2 DEF Listen, Serve, registry, binding, rpcs
<1>3. CASE Notify \/ Signal \/ ReceiveSignal
  BY <1>3 DEF Notify, Signal, ReceiveSignal, registry, binding, rpcs
<1>4. CASE GoneAway \/ Stopped
  BY <1>4 DEF GoneAway, Stopped, Ended, registry, binding, rpcs
<1>5. CASE GetNodeTypes \/ GetNodeSchema
  BY <1>5 DEF GetNodeTypes, GetNodeSchema, life, registry, binding, rpcs
<1>6. ASSUME NEW n \in Nodes, RegisterExecutor(n) \/ RegisterExecutorWithSchema(n)
      PROVE  Types'
  BY <1>6 DEF RegisterExecutor, RegisterExecutorWithSchema, life, binding, rpcs
<1>7. ASSUME NEW t \in Tenants, Publish(t) PROVE Types'
  <2>1. /\ UNCHANGED <<life, registry, rpcs>> /\ current[t] < MaxVersion
        /\ current' = [current EXCEPT ![t] = @ + 1]
    BY <1>7 DEF Publish, Service!Publish
  <2>2. current' \in [Tenants -> 1 .. MaxVersion]
    BY <2>1, CallsAssumption
  <2> QED BY <2>1, <2>2 DEF life, registry, rpcs
<1>8. CASE \E c \in Callers : ExecutorPanics(c)
  BY <1>8 DEF ExecutorPanics, registry, binding, rpcs
<1> QED BY <1>1, <1>2, <1>3, <1>4, <1>5, <1>6, <1>7, <1>8 DEF Life, GracefulStop

(* So do the replies of the calls.                                         *)
LEMMA CallTyped ==
    ASSUME Types, NEW c \in Callers,
           \/ AcceptExecute(c) \/ AcceptHealth(c) \/ Handle(c)
           \/ ExecutorReturns(c) \/ CheckReturns(c) \/ CheckPanics(c)
    PROVE  Types'
<1> USE DEF Answered
<1>1. UNCHANGED <<life, registry, current>>
  BY DEF AcceptExecute, AcceptHealth, Handle, Lookup, Bind, Health, Send, ExecutorReturns,
         CheckReturns, CheckPanics, Service!Ask, Service!Answer, binding
<1>2. \/ reply' = reply
      \/ \E r \in Replies : reply' = [reply EXCEPT ![c] = r]
  <2>1. CASE AcceptExecute(c) \/ AcceptHealth(c)
    BY <2>1 DEF AcceptExecute, AcceptHealth
  <2>2. CASE Lookup(c) \/ Bind(c) \/ Send(c)
    BY <2>2, RepliesTyped DEF Lookup, Bind, Send
  <2>3. CASE Health(c)
    <3>1. \/ reply' = reply \/ reply' = [reply EXCEPT ![c] = Reply("health")]
          \/ reply' = [reply EXCEPT ![c] =
                CheckReply("fail", "fail", <<"fail">>)]
      BY <2>3 DEF Health
    <3> QED BY <3>1, RepliesTyped
  <2>4. CASE ExecutorReturns(c) \/ CheckPanics(c)
    BY <2>4, RepliesTyped DEF ExecutorReturns, CheckPanics
  <2>5. CASE CheckReturns(c)
    BY <2>5, RepliesTyped DEF CheckReturns
  <2> QED BY <2>1, <2>2, <2>3, <2>4, <2>5 DEF Handle
<1> QED BY <1>1, <1>2 DEF Types, life, registry

(* What is known of a Health call stays known when its goroutine, and what *)
(* was declared, stay as they are.                                         *)
LEMMA HealthAlone ==
    ASSUME NEW c \in Callers, InHealth(c), declared' = declared,
           stage'[c] = stage[c], request'[c] = request[c], reply'[c] = reply[c]
    PROVE  InHealth(c)'
BY DEF InHealth, Tells, Executing

(* A step of the process or of the platform.                               *)
LEMMA LifeKnown ==
    ASSUME HealthInv, \/ Life \/ GracefulStop \/ GetNodeTypes \/ GetNodeSchema
                      \/ \E n \in Nodes : RegisterExecutor(n) \/ RegisterExecutorWithSchema(n)
                      \/ \E t \in Tenants : Publish(t)
                      \/ \E c \in Callers : ExecutorPanics(c)
    PROVE  \A c \in Callers : InHealth(c)'
<1>1. UNCHANGED rpcs
  BY DEF Life, GracefulStop, NewSkillServer, Listen, Serve, Notify, Signal, ReceiveSignal,
         GoneAway, Stopped, Ended, GetNodeTypes, GetNodeSchema, RegisterExecutor,
         RegisterExecutorWithSchema, Publish, ExecutorPanics
<1>2. CASE NewSkillServer
  <2>1. \A c \in Callers : stage'[c] = "idle"
    BY <1>1, <1>2 DEF NewSkillServer, HealthInv, Inv, Registered, Early, rpcs
  <2> QED BY <2>1 DEF InHealth
<1>3. CASE ~NewSkillServer
  <2>1. declared' = declared
    BY <1>3 DEF Life, GracefulStop, Listen, Serve, Notify, Signal, ReceiveSignal,
           GoneAway, Stopped, Ended, GetNodeTypes, GetNodeSchema, RegisterExecutor,
           RegisterExecutorWithSchema, Publish, ExecutorPanics, registry
  <2> QED BY <1>1, <2>1, HealthAlone DEF HealthInv, Known, rpcs
<1> QED BY <1>2, <1>3

(* A step of a call's goroutine.                                           *)
LEMMA CallKnown ==
    ASSUME HealthInv, NEW c \in Callers,
           \/ AcceptExecute(c) \/ AcceptHealth(c) \/ Handle(c)
           \/ ExecutorReturns(c) \/ CheckReturns(c) \/ CheckPanics(c)
    PROVE  \A d \in Callers : InHealth(d)'
<1> USE DEF Answered, Go, At
<1>0. Shape /\ InCall(c) /\ InHealth(c)
  BY DEF HealthInv, Known, Inv
<1>1. declared' = declared
  BY DEF AcceptExecute, AcceptHealth, Handle, Lookup, Bind, Health, Send, ExecutorReturns,
         CheckReturns, CheckPanics, registry
<1>2. ASSUME NEW d \in Callers \ {c} PROVE InHealth(d)'
  <2>1. /\ stage'[d] = stage[d] /\ request'[d] = request[d] /\ reply'[d] = reply[d]
    BY <1>0 DEF Shape, AcceptExecute, AcceptHealth, Handle, Lookup, Bind, Health, Send,
         ExecutorReturns, CheckReturns, CheckPanics
  <2> QED BY <1>1, <2>1, HealthAlone DEF HealthInv, Known
<1>3. InHealth(c)'
  <2>1. CASE AcceptExecute(c) \/ AcceptHealth(c)
    <3>1. stage'[c] \in {"lookup", "health"}
      BY <1>0, <2>1 DEF Shape, AcceptExecute, AcceptHealth
    <3> QED BY <3>1 DEF InHealth
  <2>2. CASE Lookup(c) \/ Bind(c) \/ ExecutorReturns(c)
    <3>1. request'[c] = request[c] /\ stage'[c] # "check" /\ Asked(c)
      BY <1>0, <2>2 DEF Shape, InCall, Lookup, Bind, ExecutorReturns
    <3>2. Executing(c)'
      BY <3>1, RequestKinds DEF Asked, Executing
    <3> QED BY <3>1, <3>2 DEF InHealth
  <2>3. CASE Send(c)
    <3>1. stage'[c] = "idle"
      BY <1>0, <2>3 DEF Shape, Send
    <3> QED BY <3>1 DEF InHealth
  <2>4. CASE Health(c)
    <3>1. request'[c] = request[c] /\ stage[c] = "health"
      BY <2>4 DEF Health
    <3>2. CASE ~("check" \in declared /\ request[c].asks)
      <4>1. stage'[c] = "reply" /\ reply'[c] = Reply("health")
        BY <1>0, <2>4, <3>2 DEF Shape, Health
      <4> QED BY <1>1, <3>1, <3>2, <4>1 DEF InHealth, Tells, Reply
    <3>3. CASE /\ "check" \in declared /\ request[c].asks
               /\ Decode(request[c].values) = DecodeError
      <4>1. /\ stage'[c] = "reply"
            /\ reply'[c] = CheckReply("fail", "fail", <<"fail">>)
        BY <1>0, <2>4, <3>3 DEF Shape, Health
      <4>3. Judged(reply'[c].check) /\ reply'[c].check # NoCheck /\ reply'[c].check.status = "fail"
        <5>1. CheckReply("fail", "fail", <<"fail">>).check # NoCheck
          BY RepliesTyped
        <5>2. /\ Judged(CheckReply("fail", "fail", <<"fail">>).check)
              /\ CheckReply("fail", "fail", <<"fail">>).check.status = "fail"
          BY NamedJudged
        <5> QED BY <4>1, <5>1, <5>2
      <4> QED BY <1>1, <3>1, <3>3, <4>1, <4>3 DEF InHealth, Tells
    <3>4. CASE /\ "check" \in declared /\ request[c].asks
               /\ Decode(request[c].values) # DecodeError
      <4>1. stage'[c] = "check"
        BY <1>0, <2>4, <3>4 DEF Shape, Health
      <4> QED BY <1>1, <3>1, <3>4, <4>1 DEF InHealth
    <3> QED BY <3>2, <3>3, <3>4
  <2>5. CASE CheckReturns(c)
    <3>1. /\ request'[c] = request[c] /\ "check" \in declared /\ request[c].asks
          /\ Decode(request[c].values) # DecodeError
      BY <1>0, <2>5 DEF CheckReturns, InHealth
    <3>2. stage'[c] = "reply" /\ Judged(reply'[c].check)
      <4>1. PICK rows \in Rows, own \in Statuses \cup {""} :
               /\ stage' = [stage EXCEPT ![c] = "reply"]
               /\ reply' = [reply EXCEPT ![c] =
                     CheckReply(IF own = "" THEN Derived(rows) ELSE own, own, rows)]
        BY <2>5 DEF CheckReturns
      <4> DEFINE r == CheckReply(IF own = "" THEN Derived(rows) ELSE own, own, rows)
      <4>2. Judged(r.check)
        BY RepliesTyped, DerivedIsWorst, AnsweredJudged
      <4> HIDE DEF r
      <4>3. stage'[c] = "reply" /\ reply'[c] = r
        BY <1>0, <4>1 DEF Shape, r
      <4> QED BY <4>2, <4>3
    <3> QED BY <1>1, <3>1, <3>2 DEF InHealth, Tells
  <2>6. CASE CheckPanics(c)
    <3>1. request'[c] = request[c] /\ Decode(request[c].values) # DecodeError
      BY <1>0, <2>6 DEF CheckPanics, InHealth
    <3>2. stage'[c] = "reply" /\ reply'[c] = Reply("health")
      BY <1>0, <2>6 DEF Shape, CheckPanics
    <3> QED BY <3>1, <3>2 DEF InHealth, Tells, Reply
  <2> QED BY <2>1, <2>2, <2>3, <2>4, <2>5, <2>6 DEF Handle
<1> QED BY <1>2, <1>3

(* Types and what is known of Health calls hold at every moment.           *)
THEOREM HealthInvariance == Spec => []HealthInv
<1>1. Init => Known
  <2> SUFFICES ASSUME Init PROVE Known
    OBVIOUS
  <2>1. current \in [Tenants -> 1 .. MaxVersion]
    BY CallsAssumption DEF Init, Service!Init
  <2>2. reply \in [Callers -> Replies]
    BY RepliesTyped DEF Init
  <2>3. Types
    BY <2>1, <2>2 DEF Init, Types, Lives
  <2>4. \A c \in Callers : InHealth(c)
    BY DEF Init, InHealth
  <2> QED BY <2>3, <2>4 DEF Known
<1>2. HealthInv /\ [Next]_vars => Known'
  <2> SUFFICES ASSUME HealthInv, [Next]_vars
               PROVE  Types' /\ \A c \in Callers : InHealth(c)'
    BY DEF Known
  <2>0. Types
    BY DEF HealthInv, Known
  <2>1. CASE UNCHANGED vars
    <3>1. Types'
      BY <2>0, <2>1 DEF vars, life, registry, binding, rpcs, Types
    <3>2. \A c \in Callers : InHealth(c)'
      BY <2>1, HealthAlone DEF HealthInv, Known, vars, registry, rpcs
    <3> QED BY <3>1, <3>2
  <2>2. ASSUME NEW c \in Callers,
               AcceptExecute(c) \/ AcceptHealth(c) \/ Handle(c) \/ RunsSkill(c)
        PROVE  Types' /\ \A d \in Callers : InHealth(d)'
    BY <2>0, <2>2, CallTyped, CallKnown, LifeTyped, LifeKnown DEF RunsSkill
  <2> QED BY <2>0, <2>1, <2>2, LifeTyped, LifeKnown DEF Next
<1> QED BY <1>1, <1>2, Invariance, PTL DEF Spec, HealthInv

(* The type invariant.                                                     *)
THEOREM TypeCorrect == Spec => []TypeOK
<1>1. HealthInv => TypeOK
  <2> SUFFICES ASSUME HealthInv PROVE TypeOK
    OBVIOUS
  <2>1. Service!TypeOK
    BY DEF HealthInv, Known, Inv, Shape, Types, Service!TypeOK, Service!Calls, Service!Outcomes,
           Calls, Outcomes
  <2> QED BY <2>1 DEF HealthInv, Known, Inv, Shape, Registered, Types, TypeOK
<1> QED BY <1>1, HealthInvariance, PTL

(* Health answers a check only if it was wanted, with the status that the  *)
(* check named or else its worst row's, and a failed one where the values  *)
(* do not decode.                                                          *)
THEOREM HealthAnswers == Spec => []HealthTells
<1>1. HealthInv => HealthTells
  BY DEF HealthInv, Known, InHealth, Tells, Judged, Worst, HealthTells
<1> QED BY <1>1, HealthInvariance, PTL
=============================================================================
