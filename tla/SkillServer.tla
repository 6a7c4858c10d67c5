---------------------------- MODULE SkillServer ----------------------------
(***************************************************************************)
(* A Skill's process (src/grpc/server.go): it is built and its executors   *)
(* are registered, it listens, serves Execute and Health calls from many   *)
(* goroutines, and is told to stop by a signal.  Bind is ConfigService, of *)
(* which decodeCall is an implementation (ConfigCache).  grpc.Server, the  *)
(* signal delivery and the executors are external: an executor may succeed,*)
(* fail, panic, return neither result nor error, or never return.          *)
(***************************************************************************)
EXTENDS ConfigCalls, SequencesExt

CONSTANTS
    Nodes,      \* node types a call may name
    MaxRows,    \* bound on the rows a config check returns
    NoRequest,  \* the goroutine serves nothing
    NoCheck     \* the Health answer has no config check

VARIABLES
    process,    \* the life of the process, see Lives
    watcher,    \* the goroutine that waits for a signal
    pending,    \* a signal is in sigCh
    streams,    \* connections take new calls
    declared,   \* options of NewSkillServer: subset of {"config", "check"}
    executors,  \* DOMAIN of SkillServer.executors
    schemas,    \* DOMAIN of SkillServer.schemas
    told,       \* node types the platform has been told of
    current, call, answer,   \* Bind: see ConfigService
    stage,      \* where each goroutine is in its call
    request,    \* the request it serves
    reply       \* what it is about to answer

life == <<process, watcher, pending, streams>>
registry == <<declared, executors, schemas>>
binding == <<current, call, answer>>
rpcs == <<stage, request, reply>>
vars == <<life, registry, told, binding, rpcs>>

Service == INSTANCE ConfigService

Lives ==
    {"built",       \* before NewSkillServer
     "setup", "listening", "serving",
     "panicked",    \* NewSkillServer refused the options
     "returned",    \* Serve returned nil
     "failed",      \* Serve returned an error
     "killed",      \* by a signal nobody had asked for
     "crashed"}     \* by a panic in a call

Running == process \in {"setup", "listening", "serving"}

Statuses == {"ok", "warn", "fail"}

Rows == UNION {[1 .. n -> Statuses] : n \in 0 .. MaxRows}

\* The config check of a Health answer.  named records the status that the
\* Skill's check gave itself, if it did, which the answer does not tell; a
\* config that does not decode is a failed row of a check named failed.
Checks == [status : Statuses, named : Statuses \cup {""}, rows : Rows \cup {<<"fail">>}]

Replies ==
    [type : {"none", "ok", "validation", "config", "execution", "health"},
     check : Checks \cup {NoCheck}]

Reply(type) == [type |-> type, check |-> NoCheck]

CheckReply(status, named, rows) ==
    [type |-> "health", check |-> [status |-> status, named |-> named, rows |-> rows]]

Requests ==
    [node : Nodes] \cup [asks : BOOLEAN, values : Values] \cup {NoRequest}

ASSUME ServerAssumption ==
    /\ MaxRows \in Nat
    /\ NoCheck \notin Checks
    /\ NoRequest \notin [node : Nodes] \cup [asks : BOOLEAN, values : Values]

Init ==
    /\ process = "built" /\ watcher = "none"
    /\ pending = FALSE /\ streams = FALSE
    /\ declared = {} /\ executors = {} /\ schemas = {} /\ told = {}
    /\ Service!Init
    /\ stage = [c \in Callers |-> "idle"]
    /\ request = [c \in Callers |-> NoRequest]
    /\ reply = [c \in Callers |-> Reply("none")]

-----------------------------------------------------------------------------
(* Building and registering.                                               *)

(* NewSkillServer: a check without a config, one for another type and a    *)
(* config that does not declare are refused.                               *)
NewSkillServer ==
    /\ process = "built"
    /\ \/ \E options \in {{}, {"config"}, {"config", "check"}} :
            process' = "setup" /\ declared' = options
       \/ process' = "panicked" /\ UNCHANGED declared
    /\ UNCHANGED <<watcher, pending, streams, executors, schemas, told, binding, rpcs>>

(* A config type given or not: a schema registered before stays.           *)
RegisterExecutor(n) ==
    /\ process = "setup"
    /\ executors' = executors \cup {n}
    /\ schemas' \in {schemas, schemas \cup {n}}
    /\ UNCHANGED <<life, declared, told, binding, rpcs>>

(* Mutant of RegisterExecutorWithSchema: the executor is forgotten.        *)
RegisterSchemaOnly(n) ==
    /\ process = "setup"
    /\ schemas' = schemas \cup {n}
    /\ UNCHANGED <<life, declared, executors, told, binding, rpcs>>

RegisterExecutorWithSchema(n) ==
    /\ process = "setup"
    /\ executors' = executors \cup {n}
    /\ schemas' = schemas \cup {n}
    /\ UNCHANGED <<life, declared, told, binding, rpcs>>

-----------------------------------------------------------------------------
(* Serving and stopping.                                                   *)

(* Serve: the port is taken, or the goroutine for the signal is started.   *)
Listen ==
    /\ process = "setup"
    /\ \/ process' = "failed" /\ UNCHANGED watcher
       \/ process' = "listening" /\ watcher' = "started"
    /\ UNCHANGED <<pending, streams, registry, told, binding, rpcs>>

(* grpcServer.Serve; a server stopped before it served returns an error.   *)
Serve ==
    /\ process = "listening"
    /\ IF watcher \in {"stopping", "ended"}
       THEN process' = "failed" /\ UNCHANGED streams
       ELSE process' = "serving" /\ streams' = TRUE
    /\ UNCHANGED <<watcher, pending, registry, told, binding, rpcs>>

(* signal.Notify, whenever the goroutine gets to run.                      *)
Notify ==
    /\ watcher = "started" /\ Running
    /\ watcher' = "waiting"
    /\ UNCHANGED <<process, pending, streams, registry, told, binding, rpcs>>

(* SIGTERM or SIGINT: ends a process that has not asked for it; else it    *)
(* goes to a channel of one place and is dropped when that is taken.       *)
Signal ==
    /\ Running
    /\ IF watcher \in {"none", "started"}
       THEN process' = "killed" /\ UNCHANGED pending
       ELSE pending' = TRUE /\ UNCHANGED process
    /\ UNCHANGED <<watcher, streams, registry, told, binding, rpcs>>

(* Mutant of ReceiveSignal: the goroutine ends without stopping anything.  *)
ReceiveOnly ==
    /\ Running /\ watcher = "waiting" /\ pending
    /\ watcher' = "ended" /\ pending' = FALSE
    /\ UNCHANGED <<process, streams, registry, told, binding, rpcs>>

(* The goroutine takes the signal and calls GracefulStop; later signals    *)
(* fill the channel and nobody takes them.                                 *)
ReceiveSignal ==
    /\ Running /\ watcher = "waiting" /\ pending
    /\ watcher' = "stopping" /\ pending' = FALSE
    /\ UNCHANGED <<process, streams, registry, told, binding, rpcs>>

(* GracefulStop, first part: clients are told to go away, and what they    *)
(* sent before they heard is still taken.                                  *)
GoneAway ==
    /\ Running /\ watcher = "stopping" /\ streams
    /\ streams' = FALSE
    /\ UNCHANGED <<process, watcher, pending, registry, told, binding, rpcs>>

Ended == /\ watcher' = "ended"
         /\ process' = IF process = "serving" THEN "returned" ELSE process
         /\ UNCHANGED <<pending, streams, registry, told, binding, rpcs>>

(* Mutant of Stopped: Stop in place of GracefulStop.                       *)
StoppedAtOnce ==
    /\ Running /\ watcher = "stopping"
    /\ Ended

(* Second part: it returns when every call has, and so does Serve.         *)
Stopped ==
    /\ Running /\ watcher = "stopping" /\ ~streams
    /\ \A c \in Callers : stage[c] = "idle"
    /\ Ended

-----------------------------------------------------------------------------
(* Calls.  Nothing else happens in a goroutine while Serve has not begun   *)
(* or after the process has ended.                                         *)

At(c, point) == process = "serving" /\ stage[c] = point

Arrives(c) == At(c, "idle") /\ streams

Go(c, point) == stage' = [stage EXCEPT ![c] = point]

Answered(c, r) == Go(c, "reply") /\ reply' = [reply EXCEPT ![c] = r]

(* GetNodeTypes, and GetNodeSchema when there is a schema to answer.       *)
GetNodeTypes ==
    /\ process = "serving" /\ streams
    /\ told' = told \cup executors
    /\ UNCHANGED <<life, registry, binding, rpcs>>

GetNodeSchema ==
    /\ process = "serving" /\ streams
    /\ \E n \in schemas : told' = told \cup {n}
    /\ UNCHANGED <<life, registry, binding, rpcs>>

(* An Execute call arrives with its tenant's config.                       *)
AcceptExecute(c) ==
    /\ Arrives(c)
    /\ Service!Ask(c)
    /\ \E n \in Nodes : request' = [request EXCEPT ![c] = [node |-> n]]
    /\ Go(c, "lookup")
    /\ UNCHANGED <<life, registry, told, reply>>

(* Mutant of Lookup: the wrong map is looked into.                         *)
LookupSchema(c) ==
    /\ At(c, "lookup")
    /\ IF request[c].node \notin schemas
       THEN Answered(c, Reply("validation"))
       ELSE Go(c, IF "config" \in declared THEN "bind" ELSE "execute") /\ UNCHANGED reply
    /\ UNCHANGED <<life, registry, told, binding, request>>

(* The executor is looked up and the call's own resolver is made from its  *)
(* arguments, none of which reaches the operator config.                   *)
Lookup(c) ==
    /\ At(c, "lookup")
    /\ IF request[c].node \notin executors
       THEN Answered(c, Reply("validation"))
       ELSE Go(c, IF "config" \in declared THEN "bind" ELSE "execute") /\ UNCHANGED reply
    /\ UNCHANGED <<life, registry, told, binding, request>>

(* Mutant of Bind: the executor runs on the config that did not decode.    *)
BindUnchecked(c) ==
    /\ At(c, "bind")
    /\ Service!Answer(c)
    /\ Go(c, "execute")
    /\ UNCHANGED <<life, registry, told, request, reply>>

(* The config is bound to the context, or the call fails.                  *)
Bind(c) ==
    /\ At(c, "bind")
    /\ Service!Answer(c)
    /\ IF answer'[c] = DecodeError
       THEN Answered(c, Reply("config"))
       ELSE Go(c, "execute") /\ UNCHANGED reply
    /\ UNCHANGED <<life, registry, told, request>>

(* config.From in an executor: the bound config, or none and the defaults. *)
From(c) == answer[c]

(* The executor returns.  StepResult.Error is not looked at.               *)
ExecutorReturns(c) ==
    /\ At(c, "execute")
    /\ \E outcome \in {"ok", "execution"} : Answered(c, Reply(outcome))
    /\ UNCHANGED <<life, registry, told, binding, request>>

(* It panics (From of another type does), or it returns neither a result   *)
(* nor an error and result.Output panics: no one recovers.                 *)
ExecutorPanics(c) ==
    /\ At(c, "execute")
    /\ process' = "crashed"
    /\ UNCHANGED <<watcher, pending, streams, registry, told, binding, rpcs>>

(* A Health call arrives.                                                  *)
AcceptHealth(c) ==
    /\ Arrives(c)
    /\ \E asks \in BOOLEAN, v \in Values :
         request' = [request EXCEPT ![c] = [asks |-> asks, values |-> v]]
    /\ Go(c, "health")
    /\ UNCHANGED <<life, registry, told, binding, reply>>

(* Health up to the Skill's own check: not declared or not asked for, or   *)
(* the values do not decode and are a failed row, or the check runs.       *)
Health(c) ==
    /\ At(c, "health")
    /\ IF ~("check" \in declared /\ request[c].asks)
       THEN Answered(c, Reply("health"))
       ELSE IF Decode(request[c].values) = DecodeError
       THEN Answered(c, CheckReply("fail", "fail", <<"fail">>))
       ELSE Go(c, "check") /\ UNCHANGED reply
    /\ UNCHANGED <<life, registry, told, binding, request>>

(* Mutant of Derived: the last row that is not ok decides.                 *)
LastRow(rows) == FoldLeft(LAMBDA s, row : IF row = "ok" THEN s ELSE row, "ok", rows)

(* The status of a result that names none: a loop over the rows that stops *)
(* at the first failed one.                                                *)
Derived(rows) ==
    LET status[n \in 0 .. Len(rows)] ==
            IF n = 0 THEN "ok"
            ELSE IF status[n - 1] = "fail" \/ rows[n] = "ok" THEN status[n - 1]
            ELSE rows[n]
    IN  status[Len(rows)]

(* Mutant of CheckReturns: a status that is not named is left empty.       *)
CheckUnderived(c) ==
    /\ At(c, "check")
    /\ \E rows \in Rows, own \in Statuses \cup {""} : Answered(c, CheckReply(own, own, rows))
    /\ UNCHANGED <<life, registry, told, binding, request>>

(* The check returns rows, and a status of its own or none.                *)
CheckReturns(c) ==
    /\ At(c, "check")
    /\ \E rows \in Rows, own \in Statuses \cup {""} :
         Answered(c, CheckReply(IF own = "" THEN Derived(rows) ELSE own, own, rows))
    /\ UNCHANGED <<life, registry, told, binding, request>>

(* The check panics: recovered, made into a failed row, and returned with  *)
(* ok still false, so Health leaves it out.                                *)
CheckPanics(c) ==
    /\ At(c, "check")
    /\ Answered(c, Reply("health"))
    /\ UNCHANGED <<life, registry, told, binding, request>>

(* The answer is sent and the goroutine ends.                              *)
Send(c) ==
    /\ At(c, "reply")
    /\ Go(c, "idle")
    /\ call' = [call EXCEPT ![c] = NoCall]
    /\ answer' = [answer EXCEPT ![c] = NoConfig]
    /\ request' = [request EXCEPT ![c] = NoRequest]
    /\ reply' = [reply EXCEPT ![c] = Reply("none")]
    /\ UNCHANGED <<life, registry, told, current>>

Publish(t) == Service!Publish(t) /\ UNCHANGED <<life, registry, told, rpcs>>

-----------------------------------------------------------------------------
Life == NewSkillServer \/ Listen \/ Serve \/ Notify \/ Signal \/ ReceiveSignal

GracefulStop == GoneAway \/ Stopped

(* What the server's own code does next in a call.                         *)
Handle(c) == Lookup(c) \/ Bind(c) \/ Health(c) \/ Send(c)

(* What the Skill's code does in one.                                      *)
RunsSkill(c) ==
    ExecutorReturns(c) \/ ExecutorPanics(c) \/ CheckReturns(c) \/ CheckPanics(c)

Next ==
    \/ Life \/ GracefulStop
    \/ \E n \in Nodes : RegisterExecutor(n) \/ RegisterExecutorWithSchema(n)
    \/ GetNodeTypes \/ GetNodeSchema
    \/ \E t \in Tenants : Publish(t)
    \/ \E c \in Callers : AcceptExecute(c) \/ AcceptHealth(c) \/ Handle(c) \/ RunsSkill(c)

Spec == Init /\ [][Next]_vars

(* Goroutines keep running: Bind returns (EveryCallReturns of ConfigCache) *)
(* and grpc gives up on a client that does not hear it is to go away.      *)
(* Nothing makes an executor or a check return, or a signal arrive.        *)
FairSpec ==
    /\ Spec
    /\ WF_vars(Serve) /\ WF_vars(Notify) /\ WF_vars(ReceiveSignal)
    /\ WF_vars(GoneAway) /\ WF_vars(Stopped)
    /\ \A c \in Callers : WF_vars(Handle(c))

-----------------------------------------------------------------------------
TypeOK ==
    /\ process \in Lives
    /\ watcher \in {"none", "started", "waiting", "stopping", "ended"}
    /\ pending \in BOOLEAN /\ streams \in BOOLEAN
    /\ declared \subseteq {"config", "check"}
    /\ executors \subseteq Nodes /\ schemas \subseteq Nodes /\ told \subseteq Nodes
    /\ Service!TypeOK
    /\ stage \in [Callers -> {"idle", "lookup", "bind", "execute", "health", "check", "reply"}]
    /\ request \in [Callers -> Requests]
    /\ reply \in [Callers -> Replies]

Executing(c) == request[c] # NoRequest /\ "node" \in DOMAIN request[c]

(* The document of an Execute call is the one its answer must come from.   *)
OwnDocument(c) == call[c].version = NoVersion \/ Determined(KeyOf(call[c]))

(* spec.go:170-173: an executor runs for a registered node type only, and  *)
(* what it reads with From is the decode of the config sent for its own    *)
(* call, whatever tenants, versions and failed decodes the calls beside it *)
(* bring; a config that does not decode never reaches it.                  *)
ReadsOwnConfig ==
    \A c \in Callers : stage[c] = "execute" =>
        /\ request[c].node \in executors
        /\ IF "config" \in declared
           THEN /\ From(c) \in Service!Allowed(call[c]) \ {DecodeError}
                /\ OwnDocument(c) => From(c) = Decode(call[c].values)
           ELSE From(c) = NoConfig

(* The error type tells the platform whose fault it is: "validation" for a *)
(* node type the Skill does not have, "config" for an operator config that *)
(* does not decode, in that order; otherwise the executor has spoken.      *)
ErrorTellsWhy ==
    \A c \in Callers : stage[c] = "reply" /\ Executing(c) =>
        LET known == request[c].node \in executors
            broken == "config" \in declared /\ Decode(call[c].values) = DecodeError
        IN  /\ reply[c].type = "validation" <=> ~known
            /\ OwnDocument(c) => (reply[c].type = "config" <=> known /\ broken)

(* A node type that GetNodeTypes listed, or that GetNodeSchema had a       *)
(* schema for, is not refused as unknown by a later Execute.               *)
ToldIsExecutable ==
    \A c \in Callers : reply[c].type = "validation" => request[c].node \notin told

(* skill.proto:130, README.md:619-623 and spec.go:30-31: a Health answer   *)
(* holds a check only if one was asked for and is declared; its status is  *)
(* the one that the check named, and the worst row's, ok without rows, if  *)
(* it named none; values that do not decode are a failed check.            *)
HealthTells ==
    \A c \in Callers : stage[c] = "reply" /\ ~Executing(c) =>
        LET check == reply[c].check
            wanted == request[c].asks /\ "check" \in declared
            found(status) == \E i \in DOMAIN check.rows : check.rows[i] = status
            worst == IF found("fail") THEN "fail" ELSE IF found("warn") THEN "warn" ELSE "ok"
        IN  /\ check # NoCheck =>
                 wanted /\ check.status = IF check.named # "" THEN check.named ELSE worst
            /\ wanted /\ Decode(request[c].values) = DecodeError =>
                 check # NoCheck /\ check.status = "fail"

InSkill(c) == At(c, "execute") \/ At(c, "check")

SkillReturns == \A c \in Callers : InSkill(c) ~> ~InSkill(c)

(* While the Skill's own code returns, a signal that was taken ends Serve, *)
(* whether it came before grpcServer.Serve, in the middle of calls or as   *)
(* the second of two.                                                      *)
SignalEndsServe == SkillReturns => (pending ~> ~Running)

(* And while it returns, every call is answered, unless the whole process  *)
(* goes down with a panic or a signal that nobody waits for yet.           *)
CallsAreAnswered ==
    SkillReturns =>
        \A c \in Callers :
            stage[c] \in {"lookup", "health"} ~>
                stage[c] = "idle" \/ process \in {"crashed", "killed"}

(* spec.go:58-59 and README.md:621-623: ok is false when no check is       *)
(* declared, so a declared check that was asked for is in the answer.      *)
CheckIncluded ==
    \A c \in Callers : stage[c] = "reply" /\ ~Executing(c) =>
        (request[c].asks /\ "check" \in declared => reply[c].check # NoCheck)

(* server.go:297, "Handle graceful shutdown": a signal does not end the    *)
(* process while it has calls to answer.                                   *)
SignalLosesNoCall == process = "killed" => \A c \in Callers : stage[c] = "idle"
=============================================================================
