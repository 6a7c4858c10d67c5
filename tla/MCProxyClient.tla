---------------------------- MODULE MCProxyClient ----------------------------
(***************************************************************************)
(* Two goroutines, one of which calls twice: its abandoned call may still  *)
(* be under way when it and the other go on.  It asks for one request of   *)
(* every way that leads through the client, the other reads and writes.    *)
(***************************************************************************)
EXTENDS ProxyClient, TLC

CONSTANTS c1, c2

MCCallers == {c1, c2}
MCMaxCalls == (c1 :> 2) @@ (c2 :> 1)

MCRequests ==
    {GetResource("pod"), ListEvents("unheard of"), GetPodLogs, DeleteResource("pod"),
     UpdateResource("deployment", TRUE), UpdateResource("deployment", FALSE),
     ScaleResource("deployment"), ListResources("pod"), RestartResource("deployment")}

MCAsks ==
    LET others == {ListResources("pod"), RestartResource("deployment")}
    IN  (c1 :> MCRequests \ others) @@ (c2 :> others)

MCKindMap == ("pod" :> "v1 Pod") @@ ("deployment" :> "apps/v1 Deployment")
MCURLs == {"", "://"}
MCBadURLs == {"://"}

=============================================================================
