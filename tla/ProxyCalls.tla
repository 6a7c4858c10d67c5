----------------------------- MODULE ProxyCalls -----------------------------
(***************************************************************************)
(* What a call of the Kubernetes client promises (src/k8sclient/client.go).*)
(* It takes effect on the cluster at one moment and at most once; a call   *)
(* that succeeds has taken effect, after it began and before it returned,  *)
(* and shows the cluster of that moment or nothing.  A call that fails has *)
(* not taken effect and never will, or is settled one way or the other, or *)
(* is abandoned: then its request may take effect after any later call.    *)
(***************************************************************************)
EXTENDS Naturals, Sequences

CONSTANTS
    Callers,    \* goroutines of executors
    Requests,   \* what can be asked of the cluster
    Changing,   \* the requests that change it
    Nothing     \* no answer, or an answer without what was asked for

VARIABLES
    history,    \* the changes to the cluster, by the calls that made them
    call,       \* the last call of a caller
    late        \* the requests of abandoned calls

vars == <<history, call, late>>

(* The cluster after a request, and the version of it that is read then.   *)
After(id, req) == IF req \in Changing THEN Append(history, id) ELSE history

NoCall == [n |-> 0, phase |-> "idle", shows |-> Nothing, result |-> "none"]

Id(c) == <<c, call[c].n>>

Init ==
    /\ history = <<>>
    /\ call = [c \in Callers |-> NoCall]
    /\ late = {}

Begin(c, req) ==
    /\ call[c].phase = "idle"
    /\ call' = [call EXCEPT ![c] = [n |-> @.n + 1, phase |-> "open", req |-> req,
                                    shows |-> Nothing, result |-> "none"]]
    /\ UNCHANGED <<history, late>>

TakeEffect(c) ==
    /\ call[c].phase = "open"
    /\ history' = After(Id(c), call[c].req)
    /\ call' = [call EXCEPT ![c].phase = "effective", ![c].shows = Len(history')]
    /\ UNCHANGED late

Return(c, shows, result) ==
    call' = [call EXCEPT ![c] = [n |-> @.n, phase |-> "idle", shows |-> shows, result |-> result]]

Succeed(c) ==
    /\ call[c].phase = "effective"
    /\ \E shows \in {call[c].shows, Nothing} : Return(c, shows, "ok")
    /\ UNCHANGED <<history, late>>

(* An error that says that nothing was asked of the cluster.               *)
Refuse(c) ==
    /\ call[c].phase = "open"
    /\ Return(c, Nothing, "refused")
    /\ UNCHANGED <<history, late>>

(* An error with an answer behind it.                                      *)
Settle(c) ==
    /\ call[c].phase \in {"open", "effective"}
    /\ Return(c, Nothing, "settled")
    /\ UNCHANGED <<history, late>>

(* An error that leaves it open whether the request is still under way.    *)
Abandon(c) ==
    /\ call[c].phase \in {"open", "effective"}
    /\ Return(c, Nothing, "unknown")
    /\ \/ UNCHANGED late
       \/ call[c].phase = "open" /\ late' = late \cup {[id |-> Id(c), req |-> call[c].req]}
    /\ UNCHANGED history

(* The request of an abandoned call takes effect, or never does.           *)
Late(r) ==
    /\ history' \in {history, After(r.id, r.req)}
    /\ late' = late \ {r}
    /\ UNCHANGED call

Next ==
    \/ \E c \in Callers :
          \/ \E req \in Requests : Begin(c, req)
          \/ TakeEffect(c) \/ Succeed(c) \/ Refuse(c) \/ Settle(c) \/ Abandon(c)
    \/ \E r \in late : Late(r)

Spec == Init /\ [][Next]_vars
=============================================================================
