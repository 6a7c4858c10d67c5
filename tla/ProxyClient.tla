----------------------------- MODULE ProxyClient -----------------------------
(***************************************************************************)
(* The Kubernetes client (src/k8sclient/client.go) and the proxy it asks.  *)
(* Every method builds a request and hands it to doRequest or doRequestRaw,*)
(* which post it once and wait for the answer at most for the Timeout of   *)
(* NewClient.  The methods differ in what can go wrong before anything is  *)
(* sent and in what they read of the answer.                               *)
(*                                                                         *)
(* The proxy and the network are external: requests wait to be carried out *)
(* or denied, for ever if need be, and the connection breaks at any time.  *)
(* A request that is lost, or a proxy that has crashed, is one that waits. *)
(***************************************************************************)
EXTENDS Naturals, Sequences

CONSTANTS
    Callers,    \* goroutines of executors
    MaxCalls,   \* how many calls each of them makes
    Requests,   \* what executors ask for, by what the methods make of it
    Asks,       \* which of them a goroutine asks for
    KindMap,    \* the kinds the client knows, with their groups and versions
    URLs,       \* settings of the proxy's address
    BadURLs,    \* those of them that are no URL
    Nothing     \* no answer, or an answer without what was asked for

(***************************************************************************)
(* A request: the endpoint it is for, the name of the resource's kind,     *)
(* whether what is sent has a JSON form, and what becomes of the answer's  *)
(* body: it is decoded and handed on, decoded and dropped, handed on as it *)
(* is, or not read.                                                        *)
(***************************************************************************)
Request(path, kind, body) == [path |-> path, kind |-> kind, marshals |-> TRUE, body |-> body]

GetResource(kind) == Request("/resource", kind, "decode")
ListResources(kind) == Request("/resource/list", kind, "decode")
DeleteResource(kind) == Request("/resource/delete", kind, "unread")
UpdateResource(kind, marshals) ==
    [Request("/resource/update", kind, "decode") EXCEPT !.marshals = marshals]
GetPodLogs == Request("/logs", "", "raw")
ListEvents(kind) == Request("/events", kind, "decode")
RestartResource(kind) == Request("/restart", kind, "unread")
ScaleResource(kind) == [UpdateResource(kind, TRUE) EXCEPT !.body = "drop"]

Paths == {"/resource", "/resource/list", "/resource/delete", "/resource/update",
          "/logs", "/events", "/restart"}
Changing == {req \in Requests : req.path \in {"/resource/delete", "/resource/update", "/restart"}}

ASSUME ClientAssumption ==
    /\ MaxCalls \in [Callers -> Nat]
    /\ Asks \in [Callers -> SUBSET Requests]
    /\ Requests \subseteq [path : Paths, kind : STRING, marshals : BOOLEAN,
                           body : {"decode", "drop", "raw", "unread"}]
    /\ BadURLs \subseteq URLs
    /\ Nothing \notin Nat

VARIABLES
    proxyURL,   \* Client.proxyURL
    history,    \* the changes to the cluster, by the calls that made them
    call,       \* the call of a caller, or its last
    requests,   \* the requests the proxy has yet to deal with
    answers     \* the answers to calls that have not returned

vars == <<proxyURL, history, call, requests, answers>>

-----------------------------------------------------------------------------
(* What the methods make of their arguments *)

NewClient(setting, env) ==
    IF setting # "" THEN setting ELSE IF env # "" THEN env ELSE "http://localhost:8081"

ParseKind(kind) == IF kind \in DOMAIN KindMap THEN KindMap[kind] ELSE Nothing

\* GetPodLogs asks for none.
KnowsKind(req) == req.path = "/logs" \/ ParseKind(req.kind) # Nothing

-----------------------------------------------------------------------------

NoCall == [n |-> 0, phase |-> "idle", req |-> Nothing, shows |-> Nothing, result |-> "none"]

Id(c) == <<c, call[c].n>>

Init ==
    /\ \E setting, env \in URLs : proxyURL = NewClient(setting, env)
    /\ history = <<>>
    /\ call = [c \in Callers |-> NoCall]
    /\ requests = {}
    /\ answers = {}

\* The method returns to the executor; the answer that may come is dropped.
Return(c, shows, result) ==
    /\ call' = [call EXCEPT ![c] = [n |-> @.n, phase |-> "idle", req |-> @.req,
                                    shows |-> shows, result |-> result]]
    /\ answers' = {a \in answers : a.id # Id(c)}

Ask(c, req) ==
    /\ call[c].phase = "idle"
    /\ call[c].n < MaxCalls[c]
    /\ call' = [call EXCEPT ![c] = [n |-> @.n + 1, phase |-> "asked", req |-> req,
                                    shows |-> Nothing, result |-> "none"]]
    /\ UNCHANGED <<proxyURL, history, requests, answers>>

RefuseKind(c) ==
    /\ call[c].phase = "asked"
    /\ ~KnowsKind(call[c].req)
    /\ Return(c, Nothing, "kind")
    /\ UNCHANGED <<proxyURL, history, requests>>

\* mustMarshal, of UpdateResource's patch.  The goroutine is gone.
MustMarshalPanics(c) ==
    /\ call[c].phase = "asked"
    /\ KnowsKind(call[c].req)
    /\ ~call[c].req.marshals
    /\ call' = [call EXCEPT ![c].phase = "gone", ![c].result = "panic"]
    /\ UNCHANGED <<proxyURL, history, requests, answers>>

Prepared(c) ==
    /\ call[c].phase = "asked"
    /\ KnowsKind(call[c].req)
    /\ call[c].req.marshals

CreateFails(c) ==
    /\ Prepared(c)
    /\ proxyURL \in BadURLs
    /\ Return(c, Nothing, "create")
    /\ UNCHANGED <<proxyURL, history, requests>>

\* POSTs are not sent again by net/http once anything was written.
Send(c) ==
    /\ Prepared(c)
    /\ proxyURL \notin BadURLs
    /\ requests' = requests \cup {[id |-> Id(c), req |-> call[c].req]}
    /\ call' = [call EXCEPT ![c].phase = "waiting"]
    /\ UNCHANGED <<proxyURL, history, answers>>

Answered(c, a) == a \in answers /\ a.id = Id(c)

(* Mutant of Receive: the body is read whether or not it is asked for.     *)
ReceiveAll(c) ==
    /\ call[c].phase = "waiting"
    /\ \E a \in answers : Answered(c, a)
    /\ call' = [call EXCEPT ![c].phase = "reading"]
    /\ UNCHANGED <<proxyURL, history, requests, answers>>

\* httpClient.Do returns with the status; the body is still to come.
Receive(c) ==
    /\ call[c].phase = "waiting"
    /\ \E a \in answers :
          /\ Answered(c, a)
          /\ \/ /\ call[c].req.body = "unread" /\ a.status = "OK"
                /\ Return(c, Nothing, "ok")
             \/ /\ ~(call[c].req.body = "unread" /\ a.status = "OK")
                /\ call' = [call EXCEPT ![c].phase = "reading"]
                /\ UNCHANGED answers
    /\ UNCHANGED <<proxyURL, history, requests>>

\* What the body of an answer with StatusOK makes of the call.  io.ReadAll
\* takes it as it is, Decode wants one JSON value, in which the field that is
\* looked for may be missing.
Returned(c, a) ==
    LET req == call[c].req
    IN  CASE a.body = "empty" /\ req.body # "raw" -> Return(c, Nothing, "decode")
          [] a.body = "whole" /\ req.body # "drop" -> Return(c, a.shows, "ok")
          [] OTHER -> Return(c, Nothing, "ok")

(* Mutant of ReadBody: the status is not looked at.                        *)
ReadAnyBody(c) ==
    /\ call[c].phase = "reading"
    /\ \E a \in answers : Answered(c, a) /\ Returned(c, a)
    /\ UNCHANGED <<proxyURL, history, requests>>

(* Mutant of ReadBody: what does not decode is asked for again.            *)
ReadOrRetry(c) ==
    /\ call[c].phase = "reading"
    /\ \E a \in answers :
          /\ Answered(c, a)
          /\ \/ a.status = "OK" /\ a.body # "empty" /\ Returned(c, a) /\ UNCHANGED requests
             \/ a.status # "OK" /\ Return(c, Nothing, "status") /\ UNCHANGED requests
             \/ /\ a.status = "OK" /\ a.body = "empty"
                /\ requests' = requests \cup {[id |-> Id(c), req |-> call[c].req]}
                /\ call' = [call EXCEPT ![c].phase = "waiting"]
                /\ answers' = answers \ {a}
    /\ UNCHANGED <<proxyURL, history>>

\* The rest of doRequest and of doRequestRaw.
ReadBody(c) ==
    /\ call[c].phase = "reading"
    /\ \E a \in answers :
          /\ Answered(c, a)
          /\ \/ a.status = "OK" /\ Returned(c, a)
             \/ a.status # "OK" /\ Return(c, Nothing, "status")
    /\ UNCHANGED <<proxyURL, history, requests>>

(* Mutant of Interrupt: the time for the body is not limited.              *)
InterruptHeaders(c) ==
    /\ call[c].phase = "waiting"
    /\ Return(c, Nothing, "request")
    /\ UNCHANGED <<proxyURL, history, requests>>

\* No connection, or a broken one, the caller's context ended, or the Timeout,
\* which covers the body.  The body of an error is read as far as it goes.
Interrupt(c) ==
    /\ \/ /\ Prepared(c) /\ proxyURL \notin BadURLs
          /\ Return(c, Nothing, "request")
       \/ /\ call[c].phase = "waiting"
          /\ Return(c, Nothing, "request")
       \/ /\ call[c].phase = "reading"
          /\ \E a \in answers :
                /\ Answered(c, a)
                /\ Return(c, Nothing,
                          IF a.status # "OK" THEN "status"
                          ELSE IF call[c].req.body = "raw" THEN "read" ELSE "decode")
    /\ UNCHANGED <<proxyURL, history, requests>>

-----------------------------------------------------------------------------
(* The proxy *)

Waiting(r) == \E c \in Callers : r.id = Id(c) /\ call[c].phase = "waiting"

\* An answer nobody waits for finds no connection.
Answer(r, status, shows, body) ==
    /\ answers' = IF Waiting(r)
                  THEN answers \cup {[id |-> r.id, status |-> status, shows |-> shows, body |-> body]}
                  ELSE answers
    /\ requests' = requests \ {r}

\* The cluster is changed, or read, at once; even so the answer may be an
\* error, or tell nothing.
CarryOut(r) ==
    /\ history' = IF r.req \in Changing THEN Append(history, r.id) ELSE history
    /\ \/ \E body \in {"whole", "foreign", "empty"} : Answer(r, "OK", Len(history'), body)
       \/ Answer(r, "error", Len(history'), "whole")
    /\ UNCHANGED <<proxyURL, call>>

\* Not authorized, no such resource, no such kind for the operation.
Deny(r) ==
    /\ Answer(r, "error", Nothing, "whole")
    /\ UNCHANGED <<proxyURL, history, call>>

-----------------------------------------------------------------------------

Prepare(c) == RefuseKind(c) \/ MustMarshalPanics(c) \/ CreateFails(c) \/ Send(c)

DoRequest(c) == Prepare(c) \/ Receive(c) \/ ReadBody(c) \/ Interrupt(c)

Next ==
    \/ \E c \in Callers :
          \/ \E req \in Asks[c] : Ask(c, req)
          \/ DoRequest(c)
    \/ \E r \in requests : CarryOut(r) \/ Deny(r)

Spec == Init /\ [][Next]_vars

\* The client runs and its clock goes on; nothing is asked of the proxy, or of
\* the network: neither a status nor a body need ever arrive.
FairSpec == Spec /\ \A c \in Callers : WF_vars(Prepare(c)) /\ WF_vars(Interrupt(c))

-----------------------------------------------------------------------------
(* Correctness *)

\* The type invariant; a method that is not interested in the body does not
\* fail because of it, and what a method does not hand on is not shown.
Phases == {"idle", "asked", "waiting", "reading", "gone"}
Errors == {"kind", "create", "request", "status", "decode", "read", "panic"}

Results == {"none", "ok"} \cup Errors

Ids == Callers \X (Nat \ {0})

TypeOK ==
    /\ history \in Seq(Ids)
    /\ call \in [Callers -> [n : Nat, phase : Phases, req : Requests \cup {Nothing},
                             shows : Nat \cup {Nothing}, result : Results]]
    /\ requests \subseteq [id : Ids, req : Requests]
    /\ answers \subseteq [id : Ids, status : {"OK", "error"}, shows : Nat \cup {Nothing},
                          body : {"whole", "foreign", "empty"}]
    /\ \A c \in Callers :
          /\ call[c].n <= MaxCalls[c]
          /\ call[c].result # "none" /\ call[c].req.body = "unread" =>
                call[c].result \notin {"decode", "read"} /\ call[c].shows = Nothing

Carried(id) == \E i \in DOMAIN history : history[i] = id
UnderWay(id) == \E r \in requests : r.id = id

\* What an executor may conclude from what a method returned: no error, and
\* the change has been made, once; an error of the client's own, or a panic,
\* and it has not been made and never will; an error of the answer, and it has
\* been made or never will.  Only "request failed" leaves the future open.
ErrorsTellTheFate ==
    /\ \A i, j \in DOMAIN history : history[i] = history[j] => i = j
    /\ \A c \in Callers :
          LET result == call[c].result
          IN  /\ result = "ok" /\ call[c].req \in Changing => Carried(Id(c))
              /\ result \in {"kind", "create", "panic"} => ~Carried(Id(c))
              /\ result \notin {"none", "request"} => ~UnderWay(Id(c))

\* A call returns, or takes its goroutine with it, whatever the proxy does.
CallsReturn ==
    \A c \in Callers : call[c].phase \in {"asked", "waiting", "reading"}
                          ~> call[c].phase \in {"idle", "gone"}

-----------------------------------------------------------------------------
(* Refinement *)

\* What has become of the cluster for a call that has not returned.
Shown(c) ==
    IF \E a \in answers : Answered(c, a)
    THEN (CHOOSE a \in answers : Answered(c, a)).shows
    ELSE Nothing

\* Requests of reads that wait leave no trace in the history.
AbstractResult ==
    [none |-> "none", ok |-> "ok", kind |-> "refused", create |-> "refused", panic |-> "refused",
     request |-> "unknown", status |-> "settled", decode |-> "settled", read |-> "settled"]

AbstractCall(c) ==
    IF call[c].phase \in {"idle", "gone"}
    THEN [n |-> call[c].n, phase |-> "idle", shows |-> call[c].shows,
          result |-> AbstractResult[call[c].result]]
    ELSE [n |-> call[c].n, phase |-> IF Shown(c) = Nothing THEN "open" ELSE "effective",
          req |-> call[c].req, shows |-> Shown(c), result |-> "none"]

Calls == INSTANCE ProxyCalls WITH
    call <- [c \in Callers |-> AbstractCall(c)],
    late <- {r \in requests : ~Waiting(r)}

\* The client and the proxy keep the promise of ProxyCalls: one effect, within
\* the call if it succeeds, and shown as it was then.
Implements == Calls!Spec

=============================================================================
