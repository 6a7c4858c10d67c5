-------------------------- MODULE ProxyClientProofs --------------------------
(***************************************************************************)
(* Theorems on ProxyClient: errors tell executors what became of their     *)
(* requests, and the client with its proxy implements ProxyCalls, for any  *)
(* number of goroutines, calls and requests.                               *)
(***************************************************************************)
EXTENDS ProxyClient, TLAPS

-----------------------------------------------------------------------------
(* The inductive invariant *)

\* A request under way is that of the call its caller waits in, or of one that
\* was abandoned; there is one of a call.
RequestsSent ==
    /\ \A r \in requests : \A c \in Callers :
          r.id[1] = c =>
             /\ r.id[2] <= call[c].n
             /\ r.id[2] = call[c].n =>
                   \/ call[c].phase = "waiting" /\ r.req = call[c].req
                   \/ call[c].phase = "idle" /\ call[c].result = "request"
    /\ \A r, s \in requests : r.id = s.id => r = s
    /\ \A r \in requests : ~Carried(r.id)

\* An answer is that of a call that waits or reads, whose request is no longer
\* under way; there is one of a call, and it tells what was done.
AnswersTrue ==
    /\ \A a \in answers :
          /\ \E c \in Callers : a.id = Id(c) /\ call[c].phase \in {"waiting", "reading"}
          /\ ~UnderWay(a.id)
          /\ a.status = "OK" => a.shows # Nothing
          /\ \A c \in Callers :
                a.id = Id(c) /\ call[c].req \in Changing /\ a.shows # Nothing => Carried(a.id)
    /\ \A a, b \in answers : a.id = b.id => a = b

\* A change was made once, by a call that was sent and that no error of the
\* client's own has ended.
HistoryTrue ==
    /\ \A i, j \in DOMAIN history : history[i] = history[j] => i = j
    /\ \A i \in DOMAIN history : \A c \in Callers :
          history[i][1] = c =>
             /\ history[i][2] <= call[c].n
             /\ history[i][2] = call[c].n =>
                   /\ call[c].phase \in {"waiting", "reading", "idle"}
                   /\ call[c].result \notin {"kind", "create", "panic"}

\* What is known of a call at each phase.
CallsTrue ==
    \A c \in Callers :
       /\ call[c].phase \in {"asked", "waiting", "reading"} =>
             call[c].req \in Requests /\ call[c].result = "none" /\ call[c].shows = Nothing
                /\ call[c].n > 0
       /\ call[c].phase = "asked" => ~Carried(Id(c))
       /\ call[c].phase = "gone" => call[c].result = "panic"
       /\ call[c].result = "ok" /\ call[c].req \in Changing => Carried(Id(c))
       /\ call[c].phase = "idle" /\ call[c].result = "none" => call[c].n = 0

\* What a method that reads no body returns.
UnreadTrue ==
    \A c \in Callers :
       call[c].req.body = "unread" =>
          /\ call[c].phase = "reading" => \A a \in answers : Answered(c, a) => a.status # "OK"
          /\ call[c].result # "none" => call[c].result \notin {"decode", "read"} /\ call[c].shows = Nothing

Within == \A c \in Callers : call[c].n <= MaxCalls[c]

Types ==
    /\ history \in Seq(Ids)
    /\ call \in [Callers -> [n : Nat, phase : Phases, req : Requests \cup {Nothing},
                             shows : Nat \cup {Nothing}, result : Results]]
    /\ requests \subseteq [id : Ids, req : Requests]
    /\ answers \subseteq [id : Ids, status : {"OK", "error"}, shows : Nat \cup {Nothing},
                          body : {"whole", "foreign", "empty"}]

Inv == Types /\ RequestsSent /\ AnswersTrue /\ HistoryTrue /\ CallsTrue /\ UnreadTrue /\ Within

-----------------------------------------------------------------------------

(* Nothing has been asked and nothing done.                                *)
LEMMA InvInit == Init => Inv
PROOF
<1> SUFFICES ASSUME Init PROVE Inv
    OBVIOUS
<1>1. history = <<>> /\ requests = {} /\ answers = {} /\ call = [c \in Callers |-> NoCall]
    BY DEF Init
<1>2. Types
    BY <1>1, ClientAssumption DEF Types, NoCall, Phases, Results, Errors, Ids
<1>3. RequestsSent /\ AnswersTrue /\ HistoryTrue
    BY <1>1 DEF RequestsSent, AnswersTrue, HistoryTrue
<1>4. CallsTrue
    BY <1>1 DEF CallsTrue, NoCall
<1>5. UnreadTrue /\ Within
    BY <1>1, ClientAssumption DEF UnreadTrue, Within, NoCall
<1> QED
    BY <1>2, <1>3, <1>4, <1>5 DEF Inv

(***************************************************************************)
(* The steps of a call by what they do to it: it ends before anything was  *)
(* sent, without an answer, or with one; or its status has arrived.        *)
(***************************************************************************)
EndsUnsent(c, result) ==
    /\ call[c].phase = "asked"
    /\ result \in {"kind", "create", "request"}
    /\ Return(c, Nothing, result)

EndsUnanswered(c) ==
    /\ call[c].phase = "waiting"
    /\ Return(c, Nothing, "request")

EndsAnswered(c, a, shows, result) ==
    /\ Answered(c, a)
    /\ Return(c, shows, result)
    /\ \/ /\ call[c].phase = "waiting"
          /\ result = "ok" /\ a.status = "OK" /\ shows = Nothing
       \/ /\ call[c].phase = "reading"
          /\ result = "ok" /\ a.status = "OK" /\ shows \in {a.shows, Nothing}
       \/ /\ call[c].phase = "reading"
          /\ result = "status" /\ shows = Nothing
       \/ /\ call[c].phase = "reading"
          /\ result \in {"decode", "read"} /\ a.status = "OK" /\ shows = Nothing

StatusArrives(c, a) ==
    /\ Answered(c, a)
    /\ call[c].phase = "waiting"
    /\ ~(call[c].req.body = "unread" /\ a.status = "OK")
    /\ call' = [call EXCEPT ![c].phase = "reading"]
    /\ UNCHANGED answers

Ends(c) ==
    /\ UNCHANGED <<history, requests>>
    /\ \/ \E result \in Results : EndsUnsent(c, result)
       \/ EndsUnanswered(c)
       \/ \E a \in answers, shows \in Nat \cup {Nothing}, result \in Results :
             EndsAnswered(c, a, shows, result)

(* Every step is an Ask, one of the steps above, a panic, or the proxy's.  *)
LEMMA StepsOfNext ==
    ASSUME Types, Next
    PROVE  \/ \E c \in Callers, req \in Requests : req \in Asks[c] /\ Ask(c, req)
           \/ \E c \in Callers : Ends(c) \/ MustMarshalPanics(c) \/ Send(c)
           \/ \E c \in Callers, a \in answers :
                 StatusArrives(c, a) /\ UNCHANGED <<history, requests>>
           \/ \E r \in requests : CarryOut(r) \/ Deny(r)
PROOF
<1>1. ASSUME NEW c \in Callers, RefuseKind(c) \/ CreateFails(c) PROVE Ends(c)
    BY <1>1 DEF RefuseKind, CreateFails, Prepared, Ends, EndsUnsent, Results, Errors
<1>2. ASSUME NEW c \in Callers, Receive(c)
      PROVE  \/ Ends(c)
             \/ \E a \in answers : StatusArrives(c, a) /\ UNCHANGED <<history, requests>>
  <2>1. PICK a \in answers :
           /\ Answered(c, a)
           /\ \/ a.status = "OK" /\ Return(c, Nothing, "ok")
              \/ /\ ~(call[c].req.body = "unread" /\ a.status = "OK")
                 /\ call' = [call EXCEPT ![c].phase = "reading"]
                 /\ UNCHANGED answers
    BY <1>2 DEF Receive
  <2>2. call[c].phase = "waiting" /\ UNCHANGED <<history, requests>>
    BY <1>2 DEF Receive
  <2>3. CASE a.status = "OK" /\ Return(c, Nothing, "ok")
    <3>1. EndsAnswered(c, a, Nothing, "ok")
      BY <2>1, <2>2, <2>3 DEF EndsAnswered
    <3> QED
      BY <2>2, <3>1 DEF Ends, Results, Errors
  <2> QED
    BY <2>1, <2>2, <2>3 DEF StatusArrives
<1>3. ASSUME NEW c \in Callers, ReadBody(c) PROVE Ends(c)
  <2>1. PICK a \in answers :
           /\ Answered(c, a)
           /\ \/ a.status = "OK" /\ Returned(c, a)
              \/ a.status # "OK" /\ Return(c, Nothing, "status")
    BY <1>3 DEF ReadBody
  <2>2. call[c].phase = "reading" /\ UNCHANGED <<history, requests>>
    BY <1>3 DEF ReadBody
  <2>3. \E shows \in {a.shows, Nothing}, result \in {"ok", "decode", "status"} :
           EndsAnswered(c, a, shows, result)
    BY <2>1, <2>2 DEF EndsAnswered, Returned
  <2>4. a.shows \in Nat \cup {Nothing}
    BY DEF Types
  <2> QED
    BY <2>2, <2>3, <2>4 DEF Ends, Results, Errors
<1>4. ASSUME NEW c \in Callers, Interrupt(c) PROVE Ends(c)
  <2>1. UNCHANGED <<history, requests>>
    BY <1>4 DEF Interrupt
  <2>2. CASE Prepared(c) /\ Return(c, Nothing, "request")
    BY <2>1, <2>2 DEF Prepared, Ends, EndsUnsent, Results, Errors
  <2>3. CASE call[c].phase = "waiting" /\ Return(c, Nothing, "request")
    BY <2>1, <2>3 DEF Ends, EndsUnanswered
  <2>4. ASSUME NEW a \in answers, call[c].phase = "reading", Answered(c, a),
               Return(c, Nothing, IF a.status # "OK" THEN "status"
                                  ELSE IF call[c].req.body = "raw" THEN "read" ELSE "decode")
        PROVE  Ends(c)
    <3>1. \E result \in {"status", "read", "decode"} : EndsAnswered(c, a, Nothing, result)
      BY <2>4 DEF EndsAnswered
    <3> QED
      BY <2>1, <3>1 DEF Ends, Results, Errors
  <2> QED
    BY <1>4, <2>2, <2>3, <2>4 DEF Interrupt
<1> QED
    BY <1>1, <1>2, <1>3, <1>4, ClientAssumption DEF Next, DoRequest, Prepare

(* Every step keeps the types.                                             *)
LEMMA TypesKept == Types /\ CallsTrue /\ [Next]_vars => Types'
PROOF
<1> SUFFICES ASSUME Types, CallsTrue, [Next]_vars PROVE Types'
    OBVIOUS
<1> DEFINE Record == [n : Nat, phase : Phases, req : Requests \cup {Nothing},
                      shows : Nat \cup {Nothing}, result : Results]
<1>c. call \in [Callers -> Record]
    BY DEF Types
<1>1. ASSUME NEW c \in Callers, NEW req \in Requests, Ask(c, req) PROVE Types'
    BY <1>1 DEF Ask, Types, Phases, Results, Errors
<1>2. ASSUME NEW c \in Callers, Ends(c) PROVE Types'
  <2>1. \E shows \in Nat \cup {Nothing}, result \in Results : Return(c, shows, result)
    BY <1>2 DEF Ends, EndsUnsent, EndsUnanswered, EndsAnswered, Results, Errors
  <2> QED
    BY <1>2, <2>1 DEF Ends, Return, Types, Phases
<1>3. ASSUME NEW c \in Callers, MustMarshalPanics(c) PROVE Types'
  <2>1. call' = [call EXCEPT ![c] = [call[c] EXCEPT !.phase = "gone", !.result = "panic"]]
    BY <1>3 DEF MustMarshalPanics
  <2>2. [call[c] EXCEPT !.phase = "gone", !.result = "panic"] \in Record
    BY <1>c DEF Phases, Results, Errors
  <2>3. call' \in [Callers -> Record]
    BY <1>c, <2>1, <2>2
  <2> QED
    BY <1>3, <2>3 DEF MustMarshalPanics, Types
<1>4. ASSUME NEW c \in Callers, Send(c) PROVE Types'
  <2>1. Id(c) \in Ids /\ call[c].req \in Requests
    BY <1>4 DEF Send, Prepared, CallsTrue, Id, Ids, Types
  <2>2. requests' \subseteq [id : Ids, req : Requests]
    BY <1>4, <2>1 DEF Send, Types
  <2>3. call' = [call EXCEPT ![c] = [call[c] EXCEPT !.phase = "waiting"]]
    BY <1>4 DEF Send
  <2>4. [call[c] EXCEPT !.phase = "waiting"] \in Record
    BY <1>c DEF Phases
  <2>5. call' \in [Callers -> Record]
    BY <1>c, <2>3, <2>4
  <2> QED
    BY <1>4, <2>2, <2>5 DEF Send, Types
<1>5. ASSUME NEW c \in Callers, NEW a \in answers, StatusArrives(c, a),
             UNCHANGED <<history, requests>>
      PROVE  Types'
    BY <1>5 DEF StatusArrives, Types, Phases
<1>6. ASSUME NEW r \in requests, NEW status \in {"OK", "error"}, NEW shows \in Nat \cup {Nothing},
             NEW body \in {"whole", "foreign", "empty"}, Answer(r, status, shows, body),
             history' \in Seq(Ids), UNCHANGED call
      PROVE  Types'
    BY <1>6 DEF Answer, Types
<1>7. ASSUME NEW r \in requests, CarryOut(r) PROVE Types'
  <2>1. history' \in Seq(Ids) /\ Len(history') \in Nat
    BY <1>7 DEF CarryOut, Types
  <2> QED
    BY <1>7, <2>1, <1>6 DEF CarryOut
<1>8. ASSUME NEW r \in requests, Deny(r) PROVE Types'
    BY <1>8, <1>6 DEF Deny, Types
<1>9. CASE UNCHANGED vars
    BY <1>9 DEF vars, Types
<1> QED
    BY <1>1, <1>2, <1>3, <1>4, <1>5, <1>7, <1>8, <1>9, StepsOfNext

(* An id is the pair of a caller and a number; there is one of a call.     *)
LEMMA IdsArePairs ==
    ASSUME Types
    PROVE  /\ \A id \in Ids : id = <<id[1], id[2]>> /\ id[1] \in Callers /\ id[2] \in Nat
           /\ \A r \in requests : r.id \in Ids
           /\ \A a \in answers : a.id \in Ids
           /\ \A i \in DOMAIN history : history[i] \in Ids
           /\ \A c \in Callers : Id(c)[1] = c /\ Id(c)[2] = call[c].n /\ call[c].n \in Nat
PROOF BY DEF Types, Ids, Id

(* Return changes the caller's record alone.                               *)
LEMMA ReturnChanges ==
    ASSUME Types, NEW c \in Callers, NEW shows, NEW result, Return(c, shows, result)
    PROVE  /\ \A d \in Callers \ {c} : call'[d] = call[d] /\ Id(d)' = Id(d)
           /\ call'[c].n = call[c].n /\ Id(c)' = Id(c)
           /\ call'[c].phase = "idle" /\ call'[c].req = call[c].req
           /\ call'[c].shows = shows /\ call'[c].result = result
           /\ answers' = {a \in answers : a.id # Id(c)}
PROOF BY DEF Types, Return, Id

(* A call that ends returns.                                               *)
LEMMA EndsReturns ==
    ASSUME NEW c \in Callers, Ends(c)
    PROVE  \E shows, result : Return(c, shows, result)
PROOF BY DEF Ends, EndsUnsent, EndsUnanswered, EndsAnswered

(* What the proxy does to a request.                                       *)
LEMMA AnswerChanges ==
    ASSUME Types, NEW r \in requests, NEW status, NEW shows, NEW body,
           Answer(r, status, shows, body)
    PROVE  /\ requests' = requests \ {r}
           /\ Waiting(r) => answers' = answers \cup
                 {[id |-> r.id, status |-> status, shows |-> shows, body |-> body]}
           /\ ~Waiting(r) => answers' = answers
PROOF BY DEF Answer

(* A request stays that of its call, and there is one, not carried out.    *)
LEMMA RequestsKept == Inv /\ [Next]_vars => RequestsSent'
PROOF
<1> SUFFICES ASSUME Inv, [Next]_vars PROVE RequestsSent'
    OBVIOUS
<1> USE DEF RequestsSent
<1>t. Types /\ RequestsSent /\ AnswersTrue /\ CallsTrue
    BY DEF Inv
<1>i. /\ \A r \in requests : r.id = <<r.id[1], r.id[2]>> /\ r.id[1] \in Callers /\ r.id[2] \in Nat
      /\ \A c \in Callers : call[c].n \in Nat
    BY <1>t, IdsArePairs
<1>1. ASSUME NEW c \in Callers, NEW req \in Requests, Ask(c, req) PROVE RequestsSent'
    BY <1>1, <1>t, <1>i DEF Ask, Types, Carried
<1>2. ASSUME NEW c \in Callers, Ends(c) PROVE RequestsSent'
  <2>1. UNCHANGED <<requests, history>>
    BY <1>2 DEF Ends
  <2>2. \A d \in Callers \ {c} : call'[d] = call[d]
    BY <1>2, <1>t, EndsReturns, ReturnChanges
  <2>3. call'[c].n = call[c].n
    BY <1>2, <1>t, EndsReturns, ReturnChanges
  <2>4. ASSUME NEW r \in requests, r.id[1] = c, r.id[2] = call[c].n
        PROVE  call'[c].phase = "idle" /\ call'[c].result = "request"
    <3>1. UnderWay(Id(c))
      BY <2>4, <1>i DEF UnderWay, Id
    <3>2. call[c].phase # "asked"
      BY <2>4, <1>t
    <3>3. EndsUnanswered(c)
      BY <1>2, <1>t, <3>1, <3>2 DEF Ends, EndsUnsent, EndsAnswered, Answered, AnswersTrue
    <3> QED
      BY <3>3, <1>t, ReturnChanges DEF EndsUnanswered
  <2> QED
    BY <1>t, <1>i, <2>1, <2>2, <2>3, <2>4 DEF Carried
<1>3. ASSUME NEW c \in Callers, MustMarshalPanics(c) PROVE RequestsSent'
    BY <1>3, <1>t, <1>i DEF MustMarshalPanics, Types, Carried
<1>4. ASSUME NEW c \in Callers, Send(c) PROVE RequestsSent'
  <2> DEFINE r == [id |-> Id(c), req |-> call[c].req]
  <2>1. requests' = requests \cup {r} /\ UNCHANGED history
    BY <1>4 DEF Send
  <2>2. call[c].phase = "asked" /\ call' = [call EXCEPT ![c].phase = "waiting"]
    BY <1>4 DEF Send, Prepared
  <2>3. \A s \in requests : s.id # Id(c)
    BY <1>t, <1>i, <2>2 DEF Id
  <2>4. ~Carried(Id(c))
    BY <1>t, <2>2 DEF CallsTrue
  <2>5. \A s \in requests' : \A d \in Callers :
           s.id[1] = d =>
              /\ s.id[2] <= call'[d].n
              /\ s.id[2] = call'[d].n =>
                    \/ call'[d].phase = "waiting" /\ s.req = call'[d].req
                    \/ call'[d].phase = "idle" /\ call'[d].result = "request"
    BY <1>t, <1>i, <2>1, <2>2 DEF Types, Id
  <2> QED
    BY <1>t, <2>1, <2>3, <2>4, <2>5 DEF Carried
<1>5. ASSUME NEW c \in Callers, NEW a \in answers, StatusArrives(c, a),
             UNCHANGED <<history, requests>>
      PROVE  RequestsSent'
  <2>1. ~UnderWay(Id(c))
    BY <1>5, <1>t DEF StatusArrives, Answered, AnswersTrue
  <2>2. \A r \in requests : r.id # Id(c)
    BY <2>1 DEF UnderWay
  <2> QED
    BY <1>5, <1>t, <1>i, <2>2 DEF StatusArrives, Types, Id, Carried
<1>6. ASSUME NEW r \in requests, CarryOut(r) PROVE RequestsSent'
  <2>1. requests' = requests \ {r} /\ UNCHANGED call
    BY <1>6 DEF CarryOut, Answer
  <2>2. \A s \in requests' : ~Carried(s.id)'
    BY <1>6, <1>t, <2>1 DEF CarryOut, Carried, Types
  <2> QED
    BY <1>t, <2>1, <2>2
<1>7. ASSUME NEW r \in requests, Deny(r) PROVE RequestsSent'
    BY <1>7, <1>t DEF Deny, Answer, Carried
<1>8. CASE UNCHANGED vars
    BY <1>8, <1>t DEF vars, Carried
<1> QED
    BY <1>t, <1>1, <1>2, <1>3, <1>4, <1>5, <1>6, <1>7, <1>8, StepsOfNext

(* What has been carried out stays so; only the proxy adds to it.          *)
LEMMA CarriedGrows ==
    ASSUME Types, NEW r \in requests, CarryOut(r)
    PROVE  /\ \A id : Carried(id)' <=> Carried(id) \/ (id = r.id /\ r.req \in Changing)
           /\ Len(history') \in Nat
           /\ history' = history \/ history' = Append(history, r.id)
PROOF
<1>1. CASE r.req \in Changing
  <2>1. history' = Append(history, r.id)
    BY <1>1 DEF CarryOut
  <2>2. /\ DOMAIN history' = 1 .. Len(history) + 1 /\ Len(history) \in Nat
        /\ DOMAIN history = 1 .. Len(history)
        /\ \A i \in DOMAIN history : history'[i] = history[i]
        /\ history'[Len(history) + 1] = r.id
        /\ Len(history') = Len(history) + 1
    BY <2>1 DEF Types
  <2>3. DOMAIN history' = DOMAIN history \cup {Len(history) + 1}
    BY <2>2
  <2>4. \A id : Carried(id)' <=> Carried(id) \/ id = r.id
    BY <2>2, <2>3 DEF Carried
  <2> QED
    BY <1>1, <2>1, <2>2, <2>4
<1>2. CASE r.req \notin Changing
    BY <1>2 DEF CarryOut, Carried, Types
<1> QED
    BY <1>1, <1>2

(***************************************************************************)
(* Whose request it is that waits: that of the call its caller waits in.   *)
(***************************************************************************)
LEMMA WaitingIsOfCall ==
    ASSUME Inv, NEW r \in requests
    PROVE  /\ \A c \in Callers : r.id = Id(c) /\ call[c].phase # "idle" =>
                  call[c].phase = "waiting" /\ r.req = call[c].req
           /\ \A a \in answers : a.id # r.id
           /\ \A c, d \in Callers : Id(c) = Id(d) => c = d
PROOF BY IdsArePairs DEF Inv, RequestsSent, AnswersTrue, UnderWay

(* A new answer is to a call that waits and tells what was done.           *)
LEMMA AnswersKeptByProxy ==
    ASSUME Inv, NEW r \in requests, NEW status \in {"OK", "error"},
           NEW shows \in Nat \cup {Nothing}, NEW body, Answer(r, status, shows, body),
           UNCHANGED call, status = "OK" => shows # Nothing,
           \A id : Carried(id) => Carried(id)',
           shows # Nothing /\ r.req \in Changing => Carried(r.id)'
    PROVE  AnswersTrue'
PROOF
<1> DEFINE new == [id |-> r.id, status |-> status, shows |-> shows, body |-> body]
<1>1. requests' = requests \ {r}
    BY DEF Answer
<1>2. \A a \in answers' : a \in answers \/ (Waiting(r) /\ a = new)
    BY DEF Answer
<1>3. \A a \in answers : a.id # r.id
    BY WaitingIsOfCall
<1>4. /\ \A s \in requests' : s.id # r.id
      /\ \A id : UnderWay(id)' => UnderWay(id)
    BY <1>1 DEF Inv, RequestsSent, UnderWay
<1>5. \A c \in Callers : r.id = Id(c) /\ call[c].phase # "idle" => r.req = call[c].req
    BY WaitingIsOfCall
<1>6. ASSUME NEW a \in answers' 
      PROVE  /\ \E c \in Callers : a.id = Id(c)' /\ call'[c].phase \in {"waiting", "reading"}
             /\ ~UnderWay(a.id)'
             /\ a.status = "OK" => a.shows # Nothing
             /\ \A c \in Callers :
                   a.id = Id(c)' /\ call'[c].req \in Changing /\ a.shows # Nothing => Carried(a.id)'
  <2>1. CASE a \in answers
    BY <2>1, <1>4 DEF Inv, AnswersTrue, Id
  <2>2. CASE Waiting(r) /\ a = new
    <3>1. \A c \in Callers : a.id = Id(c) => call[c].phase = "waiting" /\ r.req = call[c].req
      BY <2>2, WaitingIsOfCall DEF Waiting
    <3>2. ~UnderWay(a.id)'
      BY <2>2, <1>4 DEF UnderWay
    <3> QED
      BY <2>2, <3>1, <3>2 DEF Waiting, Id
  <2> QED
    BY <1>2, <2>1, <2>2
<1>7. \A a, b \in answers' : a.id = b.id => a = b
    BY <1>2, <1>3 DEF Inv, AnswersTrue
<1> QED
    BY <1>6, <1>7 DEF AnswersTrue, Changing

(* Every step keeps what is known of the answers.                          *)
LEMMA AnswersKept == Inv /\ [Next]_vars => AnswersTrue'
PROOF
<1> SUFFICES ASSUME Inv, [Next]_vars PROVE AnswersTrue'
    OBVIOUS
<1>t. Types /\ RequestsSent /\ AnswersTrue /\ CallsTrue
    BY DEF Inv
<1>i. /\ \A c, d \in Callers : Id(c) = Id(d) => c = d
      /\ \A a \in answers : \E c \in Callers :
            a.id = Id(c) /\ call[c].phase \in {"waiting", "reading"}
      /\ \A c \in Callers : call[c].n \in Nat
    BY <1>t, IdsArePairs DEF AnswersTrue
\* A step of a caller that leaves no answers of its own.
<1>a. ASSUME NEW c \in Callers, UNCHANGED history, answers' \subseteq answers,
             \A a \in answers' : a.id # Id(c),
             \A d \in Callers \ {c} : call'[d] = call[d], Id(c)'[1] = c,
             \A id : UnderWay(id)' => UnderWay(id) \/ id = Id(c)
      PROVE  AnswersTrue'
  <2>1. \A a \in answers' : \E d \in Callers \ {c} :
           a.id = Id(d) /\ Id(d)' = Id(d) /\ call'[d] = call[d] /\ call[d].phase \in {"waiting", "reading"}
    BY <1>a, <1>i DEF Id
  <2>2. \A a \in answers' : a.id # Id(c)'
    BY <2>1, <1>a, <1>t, IdsArePairs
  <2>3. \A d \in Callers \ {c} : Id(d)' = Id(d)
    BY <1>a DEF Id
  <2> QED
    BY <1>a, <1>t, <2>1, <2>2, <2>3 DEF AnswersTrue, Carried
<1>n. \A c \in Callers : call[c].phase \in {"idle", "asked"} => \A a \in answers : a.id # Id(c)
    BY <1>i
<1>1. ASSUME NEW c \in Callers, NEW req \in Requests, Ask(c, req) PROVE AnswersTrue'
    BY <1>1, <1>t, <1>n, <1>a DEF Ask, Types, Id, UnderWay
<1>2. ASSUME NEW c \in Callers, Ends(c) PROVE AnswersTrue'
  <2>1. PICK shows, result : Return(c, shows, result)
    BY <1>2, EndsReturns
  <2>2. UNCHANGED <<history, requests>>
    BY <1>2 DEF Ends
  <2> QED
    BY <2>1, <2>2, <1>t, <1>a, ReturnChanges, IdsArePairs DEF UnderWay
<1>3. ASSUME NEW c \in Callers, MustMarshalPanics(c) PROVE AnswersTrue'
    BY <1>3, <1>t, <1>n, <1>a DEF MustMarshalPanics, Types, Id, UnderWay
<1>4. ASSUME NEW c \in Callers, Send(c) PROVE AnswersTrue'
  <2>1. requests' = requests \cup {[id |-> Id(c), req |-> call[c].req]}
    BY <1>4 DEF Send
  <2>2. \A id : UnderWay(id)' => UnderWay(id) \/ id = Id(c)
    BY <2>1 DEF UnderWay
  <2>3. call' = [call EXCEPT ![c].phase = "waiting"] /\ call[c].phase = "asked"
           /\ UNCHANGED <<history, answers>>
    BY <1>4 DEF Send, Prepared
  <2>4. Id(c)'[1] = c /\ \A d \in Callers \ {c} : call'[d] = call[d]
    BY <2>3, <1>t DEF Types, Id
  <2> QED
    BY <2>2, <2>3, <2>4, <1>n, <1>a
<1>5. ASSUME NEW c \in Callers, NEW a \in answers, StatusArrives(c, a),
             UNCHANGED <<history, requests>>
      PROVE  AnswersTrue'
  <2>1. /\ \A d \in Callers : Id(d)' = Id(d) /\ call'[d].req = call[d].req
        /\ \A d \in Callers : call[d].phase \in {"waiting", "reading"} =>
              call'[d].phase \in {"waiting", "reading"}
    BY <1>5, <1>t DEF StatusArrives, Types, Id
  <2> QED
    BY <1>5, <2>1, <1>t DEF StatusArrives, AnswersTrue, UnderWay, Carried
<1>6. ASSUME NEW r \in requests, CarryOut(r) PROVE AnswersTrue'
  <2>1. /\ \A id : Carried(id) => Carried(id)'
        /\ r.req \in Changing => Carried(r.id)'
        /\ Len(history') \in Nat /\ Len(history') # Nothing
    BY <1>6, <1>t, CarriedGrows, ClientAssumption
  <2>2. \E status \in {"OK", "error"} : \E body : Answer(r, status, Len(history'), body)
    BY <1>6 DEF CarryOut
  <2>3. UNCHANGED call
    BY <1>6 DEF CarryOut
  <2> QED
    BY <2>1, <2>2, <2>3, AnswersKeptByProxy
<1>7. ASSUME NEW r \in requests, Deny(r) PROVE AnswersTrue'
    BY <1>7, AnswersKeptByProxy DEF Deny, Carried
<1>8. CASE UNCHANGED vars
    BY <1>8, <1>t DEF vars, AnswersTrue, Id, UnderWay, Carried
<1> QED
    BY <1>t, <1>1, <1>2, <1>3, <1>4, <1>5, <1>6, <1>7, <1>8, StepsOfNext

(***************************************************************************)
(* How a step of a call may end it.                                        *)
(***************************************************************************)
LEMMA EndsWell ==
    ASSUME Inv, NEW c \in Callers, Ends(c)
    PROVE  /\ UNCHANGED <<history, requests>> /\ answers' \subseteq answers
           /\ \A d \in Callers \ {c} : call'[d] = call[d]
           /\ call'[c].n = call[c].n /\ call'[c].req = call[c].req /\ call'[c].phase = "idle"
           /\ call'[c].result \in {"ok", "kind", "create", "request", "status", "decode", "read"}
           /\ call'[c].result \in {"kind", "create"} => call[c].phase = "asked"
           /\ call'[c].result = "ok" /\ call[c].req \in Changing => Carried(Id(c))
           /\ call[c].req.body = "unread" =>
                 call'[c].result \notin {"decode", "read"} /\ call'[c].shows = Nothing
PROOF
<1>t. Types /\ AnswersTrue /\ UnreadTrue
    BY DEF Inv
<1>1. UNCHANGED <<history, requests>>
    BY DEF Ends
<1>2. /\ answers' \subseteq answers
      /\ \A d \in Callers \ {c} : call'[d] = call[d]
      /\ call'[c].n = call[c].n /\ call'[c].req = call[c].req /\ call'[c].phase = "idle"
    BY <1>t, EndsReturns, ReturnChanges
<1>3. ASSUME NEW result \in Results, EndsUnsent(c, result)
      PROVE  /\ call[c].phase = "asked" /\ call'[c].result \in {"kind", "create", "request"}
             /\ call'[c].shows = Nothing
    BY <1>3, <1>t, ReturnChanges DEF EndsUnsent
<1>4. ASSUME EndsUnanswered(c)
      PROVE  call'[c].result = "request" /\ call'[c].shows = Nothing
    BY <1>4, <1>t, ReturnChanges DEF EndsUnanswered
<1>5. ASSUME NEW a \in answers, NEW shows, NEW result, EndsAnswered(c, a, shows, result)
      PROVE  /\ call'[c].result \in {"ok", "status", "decode", "read"}
             /\ call'[c].result = "ok" /\ call[c].req \in Changing => Carried(Id(c))
             /\ call[c].req.body = "unread" =>
                   call'[c].result \notin {"decode", "read"} /\ call'[c].shows = Nothing
  <2>1. call'[c].result = result /\ call'[c].shows = shows
    BY <1>5, <1>t, ReturnChanges DEF EndsAnswered
  <2>2. result \in {"ok", "status", "decode", "read"}
    BY <1>5 DEF EndsAnswered
  <2>3. result = "ok" /\ call[c].req \in Changing => Carried(Id(c))
    BY <1>5, <1>t DEF EndsAnswered, Answered, AnswersTrue
  <2>4. call[c].req.body = "unread" => result \notin {"decode", "read"} /\ shows = Nothing
    BY <1>5, <1>t DEF EndsAnswered, UnreadTrue
  <2> QED
    BY <2>1, <2>2, <2>3, <2>4
<1> QED
    BY <1>1, <1>2, <1>3, <1>4, <1>5 DEF Ends

(* No change is made twice, nor by a call that never asked for it.         *)
LEMMA HistoryKept == Inv /\ [Next]_vars => HistoryTrue'
PROOF
<1> SUFFICES ASSUME Inv, [Next]_vars PROVE HistoryTrue'
    OBVIOUS
<1> USE DEF HistoryTrue
<1>t. Types /\ RequestsSent /\ HistoryTrue /\ CallsTrue
    BY DEF Inv
<1>i. /\ \A c \in Callers : call[c].n \in Nat
      /\ \A i \in DOMAIN history : history[i][2] \in Nat
    BY <1>t, IdsArePairs
<1>1. ASSUME NEW c \in Callers, NEW req \in Requests, Ask(c, req) PROVE HistoryTrue'
    BY <1>1, <1>t, <1>i DEF Ask, Types
<1>2. ASSUME NEW c \in Callers, Ends(c) PROVE HistoryTrue'
    BY <1>2, <1>t, <1>i, EndsWell
<1>3. ASSUME NEW c \in Callers, MustMarshalPanics(c) PROVE HistoryTrue'
    BY <1>3, <1>t, <1>i DEF MustMarshalPanics, Types
<1>4. ASSUME NEW c \in Callers, Send(c) PROVE HistoryTrue'
    BY <1>4, <1>t, <1>i DEF Send, Prepared, Types
<1>5. ASSUME NEW c \in Callers, NEW a \in answers, StatusArrives(c, a),
             UNCHANGED <<history, requests>>
      PROVE  HistoryTrue'
    BY <1>5, <1>t, <1>i DEF StatusArrives, Types
<1>6. ASSUME NEW r \in requests, CarryOut(r) PROVE HistoryTrue'
  <2>1. UNCHANGED call
    BY <1>6 DEF CarryOut
  <2>2. CASE history' = history
    BY <2>1, <2>2, <1>t
  <2>3. CASE history' = Append(history, r.id)
    <3>1. /\ DOMAIN history' = DOMAIN history \cup {Len(history) + 1}
          /\ \A i \in DOMAIN history : history'[i] = history[i]
          /\ history'[Len(history) + 1] = r.id
      BY <2>3, <1>t DEF Types
    <3>2. \A i \in DOMAIN history : history[i] # r.id
      BY <1>t DEF Carried, RequestsSent
    <3>3. \A c \in Callers :
             r.id[1] = c =>
                /\ r.id[2] <= call[c].n
                /\ r.id[2] = call[c].n =>
                      /\ call[c].phase \in {"waiting", "idle"}
                      /\ call[c].result \notin {"kind", "create", "panic"}
      BY <1>t DEF CallsTrue, RequestsSent
    <3> QED
      BY <2>1, <3>1, <3>2, <3>3, <1>t
  <2> QED
    BY <1>6, <1>t, <2>2, <2>3, CarriedGrows
<1>7. ASSUME NEW r \in requests, Deny(r) PROVE HistoryTrue'
    BY <1>7, <1>t DEF Deny
<1>8. CASE UNCHANGED vars
    BY <1>8, <1>t DEF vars
<1> QED
    BY <1>t, <1>1, <1>2, <1>3, <1>4, <1>5, <1>6, <1>7, <1>8, StepsOfNext

(* Every step keeps what is known of calls, and their number.              *)
LEMMA CallsKept == Inv /\ [Next]_vars => CallsTrue' /\ Within'
PROOF
<1> SUFFICES ASSUME Inv, [Next]_vars PROVE CallsTrue' /\ Within'
    OBVIOUS
<1> USE DEF CallsTrue, Within
<1>t. Types /\ RequestsSent /\ HistoryTrue /\ CallsTrue /\ Within
    BY DEF Inv
<1>i. /\ \A c \in Callers : call[c].n \in Nat
      /\ \A i \in DOMAIN history : history[i] = <<history[i][1], history[i][2]>>
    BY <1>t, IdsArePairs
<1>c. Changing' = Changing
    BY DEF Changing
<1>1. ASSUME NEW c \in Callers, NEW req \in Requests, Ask(c, req) PROVE CallsTrue' /\ Within'
  <2>1. /\ call[c].n < MaxCalls[c] /\ UNCHANGED history
        /\ call'[c] = [n |-> call[c].n + 1, phase |-> "asked", req |-> req,
                       shows |-> Nothing, result |-> "none"]
        /\ \A d \in Callers \ {c} : call'[d] = call[d]
    BY <1>1, <1>t DEF Ask, Types
  <2>2. ~Carried(<<c, call[c].n + 1>>)
    BY <1>t, <1>i DEF Carried, HistoryTrue
  <2>3. Id(c)' = <<c, call[c].n + 1>> /\ \A d \in Callers \ {c} : Id(d)' = Id(d)
    BY <2>1 DEF Id
  <2>4. \A id : Carried(id)' <=> Carried(id)
    BY <2>1 DEF Carried
  <2>5. MaxCalls[c] \in Nat
    BY ClientAssumption
  <2> QED
    BY <2>1, <2>2, <2>3, <2>4, <2>5, <1>t, <1>i, <1>c
<1>2. ASSUME NEW c \in Callers, Ends(c) PROVE CallsTrue' /\ Within'
  <2>1. /\ \A id : Carried(id)' <=> Carried(id)
        /\ \A d \in Callers : Id(d)' = Id(d)
    BY <1>2, EndsWell DEF Carried, Id
  <2> QED
    BY <1>2, <2>1, <1>t, <1>c, EndsWell
<1>3. ASSUME NEW c \in Callers, MustMarshalPanics(c) PROVE CallsTrue' /\ Within'
    BY <1>3, <1>t, <1>c DEF MustMarshalPanics, Types, Carried, Id
<1>4. ASSUME NEW c \in Callers, Send(c) PROVE CallsTrue' /\ Within'
    BY <1>4, <1>t, <1>c DEF Send, Prepared, Types, Carried, Id
<1>5. ASSUME NEW c \in Callers, NEW a \in answers, StatusArrives(c, a),
             UNCHANGED <<history, requests>>
      PROVE  CallsTrue' /\ Within'
    BY <1>5, <1>t, <1>c DEF StatusArrives, Types, Carried, Id
<1>6. ASSUME NEW r \in requests, CarryOut(r) PROVE CallsTrue' /\ Within'
  <2>1. UNCHANGED call
    BY <1>6 DEF CarryOut
  <2>2. \A c \in Callers : Id(c)' = Id(c)
    BY <2>1 DEF Id
  <2>3. \A c \in Callers : call[c].phase = "asked" => Id(c) # r.id
    BY WaitingIsOfCall
  <2>4. \A c \in Callers : call[c].phase = "asked" => ~Carried(Id(c))'
    BY <1>6, <1>t, <2>2, <2>3, CarriedGrows
  <2>5. \A c \in Callers : Carried(Id(c)) => Carried(Id(c))'
    BY <1>6, <1>t, <2>2, CarriedGrows
  <2> QED
    BY <1>t, <1>c, <2>1, <2>4, <2>5
<1>7. ASSUME NEW r \in requests, Deny(r) PROVE CallsTrue' /\ Within'
    BY <1>7, <1>t, <1>c DEF Deny, Carried, Id
<1>8. CASE UNCHANGED vars
    BY <1>8, <1>t, <1>c DEF vars, Carried, Id
<1> QED
    BY <1>t, <1>1, <1>2, <1>3, <1>4, <1>5, <1>6, <1>7, <1>8, StepsOfNext

(* A body that is not read has no part in what is returned.                *)
LEMMA UnreadKept == Inv /\ [Next]_vars => UnreadTrue'
PROOF
<1> SUFFICES ASSUME Inv, [Next]_vars PROVE UnreadTrue'
    OBVIOUS
<1> USE DEF UnreadTrue
<1>t. Types /\ AnswersTrue /\ CallsTrue /\ UnreadTrue
    BY DEF Inv
<1>1. ASSUME NEW c \in Callers, NEW req \in Requests, Ask(c, req) PROVE UnreadTrue'
    BY <1>1, <1>t DEF Ask, Types, Answered, Id
<1>2. ASSUME NEW c \in Callers, Ends(c) PROVE UnreadTrue'
  <2>1. \A d \in Callers : \A a : Answered(d, a)' => Answered(d, a)
    BY <1>2, EndsWell DEF Answered, Id
  <2>2. \A d \in Callers \ {c} : call'[d] = call[d]
    BY <1>2, EndsWell
  <2>3. /\ call'[c].phase = "idle" /\ answers' \subseteq answers
        /\ call'[c].req.body = "unread" =>
              call'[c].result \notin {"decode", "read"} /\ call'[c].shows = Nothing
    BY <1>2, EndsWell
  <2> QED
    BY <1>t, <2>1, <2>2, <2>3
<1>3. ASSUME NEW c \in Callers, MustMarshalPanics(c) PROVE UnreadTrue'
  <2>1. /\ \A d \in Callers \ {c} : call'[d] = call[d]
        /\ call'[c].phase = "gone" /\ call'[c].result = "panic" /\ call'[c].shows = call[c].shows
        /\ \A d \in Callers : Id(d)' = Id(d)
    BY <1>3, <1>t DEF MustMarshalPanics, Types, Id
  <2>2. UNCHANGED answers /\ call[c].phase = "asked"
    BY <1>3 DEF MustMarshalPanics
  <2>3. call[c].shows = Nothing
    BY <2>2, <1>t DEF CallsTrue
  <2> QED
    BY <1>t, <2>1, <2>2, <2>3 DEF Answered
<1>4. ASSUME NEW c \in Callers, Send(c) PROVE UnreadTrue'
    BY <1>4, <1>t DEF Send, Prepared, Types, Answered, Id
<1>5. ASSUME NEW c \in Callers, NEW a \in answers, StatusArrives(c, a),
             UNCHANGED <<history, requests>>
      PROVE  UnreadTrue'
  <2>1. \A b \in answers : b.id = Id(c) => b = a
    BY <1>5, <1>t DEF StatusArrives, Answered, AnswersTrue
  <2>2. UNCHANGED answers /\ call[c].phase = "waiting"
           /\ ~(call[c].req.body = "unread" /\ a.status = "OK")
    BY <1>5 DEF StatusArrives
  <2>3. /\ \A d \in Callers \ {c} : call'[d] = call[d]
        /\ call'[c].req = call[c].req /\ call'[c].result = call[c].result
        /\ \A d \in Callers : Id(d)' = Id(d)
    BY <1>5, <1>t DEF StatusArrives, Types, Id
  <2>4. call[c].result = "none"
    BY <2>2, <1>t DEF CallsTrue
  <2> QED
    BY <1>t, <2>1, <2>2, <2>3, <2>4 DEF Answered
<1>6. ASSUME NEW r \in requests, CarryOut(r) \/ Deny(r) PROVE UnreadTrue'
  <2>1. UNCHANGED call
    BY <1>6 DEF CarryOut, Deny
  <2>2. \A a \in answers' : a \in answers \/ (Waiting(r) /\ a.id = r.id)
    BY <1>6 DEF CarryOut, Deny, Answer
  <2>3. \A c \in Callers : call[c].phase = "reading" => Id(c) # r.id
    BY WaitingIsOfCall
  <2> QED
    BY <1>t, <2>1, <2>2, <2>3 DEF Answered, Id
<1>7. CASE UNCHANGED vars
    BY <1>7, <1>t DEF vars, Answered, Id
<1> QED
    BY <1>t, <1>1, <1>2, <1>3, <1>4, <1>5, <1>6, <1>7, StepsOfNext

-----------------------------------------------------------------------------
(* The theorems *)

(* The inductive invariant holds in every reachable state.                 *)
THEOREM Invariance == Spec => []Inv
PROOF
<1>1. Inv /\ [Next]_vars => Inv'
    BY TypesKept, RequestsKept, AnswersKept, HistoryKept, CallsKept, UnreadKept DEF Inv
<1> QED
    BY <1>1, InvInit, PTL DEF Spec

(* The type invariant: a method that reads no body neither fails because   *)
(* of one nor hands one on, and no goroutine makes more calls than it may. *)
THEOREM TypeCorrect == Spec => []TypeOK
PROOF
<1>1. Inv => TypeOK
    BY DEF Inv, Types, UnreadTrue, Within, TypeOK
<1> QED
    BY <1>1, Invariance, PTL

(* The error a method of the client returns tells what became of the       *)
(* request, except for "request failed".                                   *)
THEOREM FateTold == Spec => []ErrorsTellTheFate
PROOF
<1>1. Inv => ErrorsTellTheFate
  <2> SUFFICES ASSUME Inv PROVE ErrorsTellTheFate
    OBVIOUS
  <2>t. Types /\ RequestsSent /\ HistoryTrue /\ CallsTrue
    BY DEF Inv
  <2>1. \A c \in Callers :
           call[c].result \in {"kind", "create", "panic"} => ~Carried(Id(c))
    BY <2>t, IdsArePairs DEF HistoryTrue, Carried
  <2>2. \A c \in Callers : call[c].result \notin {"none", "request"} => ~UnderWay(Id(c))
    BY <2>t, IdsArePairs DEF RequestsSent, UnderWay, CallsTrue
  <2> QED
    BY <2>t, <2>1, <2>2 DEF ErrorsTellTheFate, HistoryTrue, CallsTrue
<1> QED
    BY <1>1, Invariance, PTL

-----------------------------------------------------------------------------
(* Refinement *)

AbstractCalls == [c \in Callers |-> AbstractCall(c)]

Abandoned == {r \in requests : ~Waiting(r)}

(* The errors of the client by what they promise.                          *)
LEMMA AbstractResults ==
    /\ AbstractResult["none"] = "none" /\ AbstractResult["ok"] = "ok"
    /\ \A result \in {"kind", "create", "panic"} : AbstractResult[result] = "refused"
    /\ \A result \in {"status", "decode", "read"} : AbstractResult[result] = "settled"
    /\ AbstractResult["request"] = "unknown"
PROOF BY DEF AbstractResult

(***************************************************************************)
(* What is chosen among answers of which there is one of a call, and what  *)
(* a call shows: the same as its answer does, before and after a step.     *)
(***************************************************************************)
LEMMA ChosenAnswer ==
    ASSUME NEW Given, NEW id, \A a, b \in Given : a.id = b.id => a = b, NEW a \in Given, a.id = id
    PROVE  (CHOOSE b \in Given : b \in Given /\ b.id = id) = a
PROOF
<1>1. \A b \in Given : b \in Given /\ b.id = id => b = a
    OBVIOUS
<1> QED
    BY <1>1

(* Before the step.                                                        *)
LEMMA ShownTells ==
    ASSUME Inv, NEW c \in Callers
    PROVE  /\ \A a \in answers : a.id = Id(c) => Shown(c) = a.shows
           /\ (\A a \in answers : a.id # Id(c)) => Shown(c) = Nothing
PROOF BY ChosenAnswer DEF Inv, AnswersTrue, Shown, Answered

(* After the step.                                                         *)
LEMMA ShownTellsNext ==
    ASSUME Inv', NEW c \in Callers
    PROVE  /\ \A a \in answers' : a.id = Id(c)' => Shown(c)' = a.shows
           /\ (\A a \in answers' : a.id # Id(c)') => Shown(c)' = Nothing
PROOF BY ChosenAnswer DEF Inv, AnswersTrue, Shown, Answered

(* A step that changes neither a call nor its answer changes nothing that  *)
(* is promised of it.                                                      *)
LEMMA SameCall ==
    ASSUME Inv, Inv', NEW c \in Callers, Id(c)' = Id(c),
           \A a : a.id = Id(c) => (a \in answers' <=> a \in answers)
    PROVE  /\ Shown(c)' = Shown(c)
           /\ call'[c] = call[c] => AbstractCall(c)' = AbstractCall(c)
PROOF
<1>1. Shown(c)' = Shown(c)
    BY ShownTells, ShownTellsNext
<1> QED
    BY <1>1 DEF AbstractCall, AbstractResult

(* A step of one caller leaves the calls of the others as they are.        *)
LEMMA OthersSame ==
    ASSUME Inv, Inv', NEW c \in Callers, \A d \in Callers \ {c} : call'[d] = call[d],
           answers' = {a \in answers : a.id # Id(c)} \/ answers' = answers,
           NEW new, AbstractCall(c)' = new
    PROVE  AbstractCalls' = [AbstractCalls EXCEPT ![c] = new]
PROOF
<1>1. ASSUME NEW d \in Callers \ {c} PROVE AbstractCall(d)' = AbstractCall(d)
  <2>1. Id(d)' = Id(d) /\ Id(d) # Id(c) /\ d \in Callers
    BY DEF Id
  <2>2. \A a : a.id = Id(d) => (a \in answers' <=> a \in answers)
    BY <2>1
  <2> QED
    BY <2>1, <2>2, SameCall
<1> QED
    BY <1>1 DEF AbstractCalls

(* Nor does it abandon a request, unless its call waits or comes to wait.  *)
LEMMA NoneAbandoned ==
    ASSUME Inv, NEW c \in Callers, \A d \in Callers \ {c} : call'[d] = call[d],
           UNCHANGED requests,
           \/ call[c].phase # "waiting" /\ call'[c].phase # "waiting"
           \/ ~UnderWay(Id(c)) /\ Id(c)' = Id(c)
    PROVE  Abandoned' = Abandoned
PROOF
<1>1. \A d \in Callers \ {c} : Id(d)' = Id(d)
    BY DEF Id
<1>2. \A r \in requests : Waiting(r)' <=> Waiting(r)
    BY <1>1 DEF Waiting, UnderWay
<1> QED
    BY <1>2 DEF Abandoned

(***************************************************************************)
(* Each step of ProxyClient as a step of ProxyCalls.                       *)
(***************************************************************************)
LEMMA AskBegins ==
    ASSUME Inv, Inv', NEW c \in Callers, NEW req \in Requests, Ask(c, req)
    PROVE  Calls!Begin(c, req)
PROOF
<1>t. Types /\ AnswersTrue
    BY DEF Inv
<1>1. /\ call[c].phase = "idle" /\ UNCHANGED <<history, requests, answers>>
      /\ \A d \in Callers \ {c} : call'[d] = call[d]
      /\ call'[c] = [n |-> call[c].n + 1, phase |-> "asked", req |-> req,
                     shows |-> Nothing, result |-> "none"]
    BY <1>t DEF Ask, Types
<1>2. Shown(c)' = Nothing
  <2>1. \A a \in answers : a.id # Id(c)'
    BY <1>1, <1>t, IdsArePairs DEF AnswersTrue, Id
  <2> QED
    BY <1>1, <2>1, ShownTellsNext
<1>3. AbstractCall(c)' = [n |-> call[c].n + 1, phase |-> "open", req |-> req,
                          shows |-> Nothing, result |-> "none"]
    BY <1>1, <1>2 DEF AbstractCall
<1>4. AbstractCall(c).phase = "idle" /\ AbstractCall(c).n = call[c].n
    BY <1>1 DEF AbstractCall
<1>5. AbstractCalls' = [AbstractCalls EXCEPT ![c] = AbstractCall(c)']
    BY <1>1, OthersSame
<1>6. Abandoned' = Abandoned
    BY <1>1, NoneAbandoned
<1> QED
    BY <1>1, <1>3, <1>4, <1>5, <1>6 DEF Calls!Begin, AbstractCalls, Abandoned

(* Under which phase a call that has not returned appears.                 *)
LEMMA Phase ==
    ASSUME Inv, NEW c \in Callers, call[c].phase \in {"asked", "waiting", "reading"}
    PROVE  /\ AbstractCall(c).n = call[c].n /\ AbstractCall(c).req = call[c].req
           /\ AbstractCall(c).phase \in {"open", "effective"}
           /\ call[c].phase = "asked" => AbstractCall(c).phase = "open"
           /\ UnderWay(Id(c)) => AbstractCall(c).phase = "open"
           /\ AbstractCall(c).shows = Shown(c) 
           /\ AbstractCall(c).phase = "open" <=> Shown(c) = Nothing
PROOF
<1>1. AbstractCall(c) =
         [n |-> call[c].n, phase |-> IF Shown(c) = Nothing THEN "open" ELSE "effective",
          req |-> call[c].req, shows |-> Shown(c), result |-> "none"]
    BY DEF AbstractCall
<1>2. call[c].phase = "asked" => Shown(c) = Nothing
    BY ShownTells, IdsArePairs DEF Inv, AnswersTrue
<1>3. UnderWay(Id(c)) => Shown(c) = Nothing
    BY ShownTells DEF Inv, AnswersTrue
<1> QED
    BY <1>1, <1>2, <1>3

(* How a call that ends does so in ProxyCalls.                             *)
LEMMA EndsAbstractly ==
    ASSUME Inv, Inv', NEW c \in Callers, call[c].phase \in {"asked", "waiting", "reading"},
           NEW shows, NEW result, Return(c, shows, result)
    PROVE  /\ AbstractCalls' = [AbstractCalls EXCEPT ![c] =
                   [n |-> AbstractCall(c).n, phase |-> "idle", shows |-> shows,
                    result |-> AbstractResult[result]]]
           /\ \A d \in Callers \ {c} : call'[d] = call[d]
           /\ call'[c].phase = "idle" /\ Id(c)' = Id(c)
PROOF
<1>1. /\ \A d \in Callers \ {c} : call'[d] = call[d]
      /\ call'[c].n = call[c].n /\ call'[c].phase = "idle" /\ call'[c].shows = shows
      /\ call'[c].result = result /\ Id(c)' = Id(c)
      /\ answers' = {a \in answers : a.id # Id(c)}
    BY ReturnChanges DEF Inv
<1>2. AbstractCall(c)' = [n |-> AbstractCall(c).n, phase |-> "idle", shows |-> shows,
                          result |-> AbstractResult[result]]
    BY <1>1, Phase DEF AbstractCall, AbstractResult
<1> QED
    BY <1>1, <1>2, OthersSame

(* A call that ends is refused, abandoned, settled or successful.          *)
LEMMA EndsRefines ==
    ASSUME Inv, Inv', NEW c \in Callers, Ends(c)
    PROVE  Calls!Refuse(c) \/ Calls!Abandon(c) \/ Calls!Settle(c) \/ Calls!Succeed(c)
PROOF
<1> USE DEF AbstractCalls, Abandoned
<1>t. Types /\ RequestsSent /\ AnswersTrue
    BY DEF Inv
<1>h. UNCHANGED <<history, requests>>
    BY DEF Ends
<1>1. ASSUME NEW result \in Results, EndsUnsent(c, result)
      PROVE  Calls!Refuse(c) \/ Calls!Abandon(c)
  <2>1. call[c].phase = "asked" /\ result \in {"kind", "create", "request"}
           /\ Return(c, Nothing, result)
    BY <1>1 DEF EndsUnsent
  <2>2. Abandoned' = Abandoned
    BY <1>h, <2>1, EndsAbstractly, NoneAbandoned
  <2>3. AbstractCall(c).phase = "open"
    BY <2>1, Phase
  <2>4. AbstractResult[result] \in {"refused", "unknown"}
    BY <2>1, AbstractResults
  <2>5. AbstractCalls' = [AbstractCalls EXCEPT ![c] =
            [n |-> AbstractCall(c).n, phase |-> "idle", shows |-> Nothing,
             result |-> AbstractResult[result]]]
    BY <2>1, EndsAbstractly
  <2> QED
    BY <1>h, <2>2, <2>3, <2>4, <2>5 DEF Calls!Refuse, Calls!Abandon, Calls!Return
<1>2. ASSUME EndsUnanswered(c) PROVE Calls!Abandon(c)
  <2>1. call[c].phase = "waiting" /\ Return(c, Nothing, "request")
    BY <1>2 DEF EndsUnanswered
  <2>2. AbstractCalls' = [AbstractCalls EXCEPT ![c] =
            [n |-> AbstractCall(c).n, phase |-> "idle", shows |-> Nothing, result |-> "unknown"]]
    BY <2>1, EndsAbstractly, AbstractResults
  <2>3. /\ AbstractCall(c).phase \in {"open", "effective"}
        /\ AbstractCall(c).n = call[c].n /\ AbstractCall(c).req = call[c].req
    BY <2>1, Phase
  <2>4. CASE UnderWay(Id(c))
    <3>1. PICK r \in requests : r.id = Id(c)
      BY <2>4 DEF UnderWay
    <3>2. r = [id |-> Id(c), req |-> call[c].req]
      BY <3>1, <2>1, <1>t, WaitingIsOfCall DEF Types
    <3>3. AbstractCall(c).phase = "open"
      BY <2>1, <2>4, Phase
    <3>4. \A d \in Callers \ {c} : call'[d] = call[d] /\ Id(d)' = Id(d)
      BY <2>1, EndsAbstractly DEF Id
    <3>5. call'[c].phase = "idle"
      BY <2>1, EndsAbstractly
    <3>6. \A s \in requests : Waiting(s)' <=> Waiting(s) /\ s.id # Id(c)
      BY <3>4, <3>5, WaitingIsOfCall DEF Waiting
    <3>7. Waiting(r) /\ \A s \in requests : s.id = Id(c) => s = r
      BY <3>1, <2>1, <1>t DEF Waiting, RequestsSent
    <3>8. Abandoned' = Abandoned \cup {r}
      BY <1>h, <3>1, <3>6, <3>7
    <3>9. <<c, AbstractCalls[c].n>> = Id(c)
      BY <2>3 DEF Id
    <3> QED
      BY <1>h, <2>2, <2>3, <3>2, <3>3, <3>8, <3>9 DEF Calls!Abandon, Calls!Return, Calls!Id
  <2>5. CASE ~UnderWay(Id(c))
    <3>1. Abandoned' = Abandoned
      BY <1>h, <2>1, <2>5, EndsAbstractly, NoneAbandoned
    <3> QED
      BY <1>h, <2>2, <2>3, <3>1 DEF Calls!Abandon, Calls!Return
  <2> QED
    BY <2>4, <2>5
<1>3. ASSUME NEW a \in answers, NEW shows, NEW result, EndsAnswered(c, a, shows, result)
      PROVE  Calls!Succeed(c) \/ Calls!Settle(c)
  <2>1. /\ call[c].phase \in {"waiting", "reading"} /\ Return(c, shows, result)
        /\ a.id = Id(c)
    BY <1>3 DEF EndsAnswered, Answered
  <2>2. Shown(c) = a.shows /\ ~UnderWay(Id(c))
    BY <2>1, <1>t, ShownTells DEF AnswersTrue
  <2>3. Abandoned' = Abandoned
    BY <1>h, <2>1, <2>2, EndsAbstractly, NoneAbandoned
  <2>4. AbstractCalls' = [AbstractCalls EXCEPT ![c] =
            [n |-> AbstractCall(c).n, phase |-> "idle", shows |-> shows,
             result |-> AbstractResult[result]]]
    BY <2>1, EndsAbstractly
  <2>5. CASE result = "ok"
    <3>1. a.status = "OK" /\ shows \in {a.shows, Nothing}
      BY <1>3, <2>5 DEF EndsAnswered
    <3>2. AbstractCall(c).phase = "effective" /\ AbstractCall(c).shows = a.shows
      BY <2>1, <2>2, <3>1, <1>t, Phase DEF AnswersTrue
    <3> QED
      BY <1>h, <2>3, <2>4, <2>5, <3>1, <3>2, AbstractResults DEF Calls!Succeed, Calls!Return
  <2>6. CASE result # "ok"
    <3>1. result \in {"status", "decode", "read"} /\ shows = Nothing
      BY <1>3, <2>6 DEF EndsAnswered
    <3>2. AbstractCall(c).phase \in {"open", "effective"}
      BY <2>1, Phase
    <3> QED
      BY <1>h, <2>3, <2>4, <3>1, <3>2, AbstractResults DEF Calls!Settle, Calls!Return
  <2> QED
    BY <2>5, <2>6
<1> QED
    BY <1>1, <1>2, <1>3 DEF Ends

(* The panic of mustMarshal refuses the call: nothing was sent.            *)
LEMMA PanicRefuses ==
    ASSUME Inv, Inv', NEW c \in Callers, MustMarshalPanics(c)
    PROVE  Calls!Refuse(c)
PROOF
<1>1. /\ call[c].phase = "asked" /\ UNCHANGED <<history, requests, answers>>
      /\ \A d \in Callers \ {c} : call'[d] = call[d]
      /\ call'[c].n = call[c].n /\ call'[c].phase = "gone" /\ call'[c].result = "panic"
      /\ call'[c].shows = Nothing
    BY DEF MustMarshalPanics, Inv, Types, CallsTrue
<1>2. AbstractCall(c)' = [n |-> AbstractCall(c).n, phase |-> "idle", shows |-> Nothing,
                          result |-> AbstractResult["panic"]]
    BY <1>1, Phase DEF AbstractCall, AbstractResult
<1>3. Abandoned' = Abandoned
    BY <1>1, NoneAbandoned
<1>4. AbstractCalls' = [AbstractCalls EXCEPT ![c] = AbstractCall(c)']
    BY <1>1, OthersSame
<1> QED
    BY <1>1, <1>2, <1>3, <1>4, Phase, AbstractResults
    DEF Calls!Refuse, Calls!Return, AbstractCalls, Abandoned

(* Neither posting a request nor the arrival of a status is seen.          *)
LEMMA SendStutters ==
    ASSUME Inv, Inv', NEW c \in Callers, Send(c)
    PROVE  UNCHANGED Calls!vars
PROOF
<1>1. /\ call[c].phase = "asked" /\ UNCHANGED <<history, answers>>
      /\ call' = [call EXCEPT ![c].phase = "waiting"]
      /\ requests' = requests \cup {[id |-> Id(c), req |-> call[c].req]}
    BY DEF Send, Prepared
<1>2. /\ \A d \in Callers : Id(d)' = Id(d)
      /\ \A d \in Callers \ {c} : call'[d] = call[d]
      /\ call'[c] = [call[c] EXCEPT !.phase = "waiting"]
    BY <1>1 DEF Inv, Types, Id
<1>3. Shown(c)' = Shown(c)
    BY <1>1, <1>2, SameCall
<1>4. AbstractCall(c)' = AbstractCall(c)
    BY <1>1, <1>2, <1>3 DEF AbstractCall, Inv, Types
<1>5. AbstractCalls' = AbstractCalls
  <2>1. AbstractCalls' = [AbstractCalls EXCEPT ![c] = AbstractCall(c)]
    BY <1>1, <1>2, <1>4, OthersSame
  <2> QED
    BY <2>1 DEF AbstractCalls
<1>6. Abandoned' = Abandoned
  <2> DEFINE new == [id |-> Id(c), req |-> call[c].req]
  <2>1. call'[c].phase = "waiting"
    BY <1>1 DEF Inv, Types
  <2>2. \A r : r.id = Id(c) => Waiting(r)'
    BY <1>2, <2>1 DEF Waiting
  <2>3. \A r \in requests : r.id # Id(c)
    BY <1>1, WaitingIsOfCall
  <2>4. \A r \in requests : Waiting(r)' <=> Waiting(r)
    BY <1>2, <2>3 DEF Waiting
  <2>5. requests' = requests \cup {new} /\ new.id = Id(c)
    BY <1>1
  <2> HIDE DEF new
  <2> QED
    BY <2>2, <2>4, <2>5 DEF Abandoned
<1> QED
    BY <1>1, <1>5, <1>6 DEF Calls!vars, AbstractCalls, Abandoned

(* The status only makes the method read on.                               *)
LEMMA StatusStutters ==
    ASSUME Inv, Inv', NEW c \in Callers, NEW a \in answers, StatusArrives(c, a),
           UNCHANGED <<history, requests>>
    PROVE  UNCHANGED Calls!vars
PROOF
<1>1. /\ call[c].phase = "waiting" /\ UNCHANGED answers /\ a.id = Id(c)
      /\ call' = [call EXCEPT ![c].phase = "reading"]
    BY DEF StatusArrives, Answered
<1>2. /\ \A d \in Callers : Id(d)' = Id(d)
      /\ \A d \in Callers \ {c} : call'[d] = call[d]
      /\ call'[c] = [call[c] EXCEPT !.phase = "reading"]
    BY <1>1 DEF Inv, Types, Id
<1>3. Shown(c)' = Shown(c)
    BY <1>1, <1>2, SameCall
<1>4. AbstractCall(c)' = AbstractCall(c)
    BY <1>1, <1>2, <1>3 DEF AbstractCall, Inv, Types
<1>5. AbstractCalls' = AbstractCalls
  <2>1. AbstractCalls' = [AbstractCalls EXCEPT ![c] = AbstractCall(c)]
    BY <1>1, <1>2, <1>4, OthersSame
  <2> QED
    BY <2>1 DEF AbstractCalls
<1>6. Abandoned' = Abandoned
  <2>1. ~UnderWay(Id(c))
    BY <1>1 DEF Inv, AnswersTrue
  <2> QED
    BY <1>2, <2>1, NoneAbandoned
<1> QED
    BY <1>5, <1>6 DEF Calls!vars, AbstractCalls, Abandoned

(***************************************************************************)
(* An answer to a call that waits makes it show what the answer does, one  *)
(* to a call that does not wait leaves the calls as they are.              *)
(***************************************************************************)
LEMMA AnswerShows ==
    ASSUME Inv, Inv', NEW r \in requests, NEW status, NEW shows, NEW body,
           Answer(r, status, shows, body), UNCHANGED call
    PROVE  /\ ~Waiting(r) => AbstractCalls' = AbstractCalls /\ Abandoned' = Abandoned \ {r}
           /\ \A c \in Callers : r.id = Id(c) /\ call[c].phase = "waiting" =>
                 /\ Shown(c)' = shows
                 /\ AbstractCalls' = [AbstractCalls EXCEPT ![c] = AbstractCall(c)']
                 /\ Abandoned' = Abandoned
PROOF
<1> DEFINE new == [id |-> r.id, status |-> status, shows |-> shows, body |-> body]
<1>1. /\ requests' = requests \ {r}
      /\ Waiting(r) => answers' = answers \cup {new}
      /\ ~Waiting(r) => answers' = answers
    BY DEF Answer
<1>2. /\ \A c \in Callers : Id(c)' = Id(c) /\ call'[c] = call[c]
      /\ \A s : Waiting(s)' <=> Waiting(s)
    BY DEF Id, Waiting
<1>3. /\ ~Waiting(r) => Abandoned' = Abandoned \ {r}
      /\ Waiting(r) => Abandoned' = Abandoned
    BY <1>1, <1>2 DEF Abandoned
<1>4. ASSUME NEW d \in Callers, ~Waiting(r) \/ r.id # Id(d)
      PROVE  AbstractCall(d)' = AbstractCall(d)
  <2>1. \A a : a.id = Id(d) => (a \in answers' <=> a \in answers)
    BY <1>1, <1>4
  <2> QED
    BY <1>2, <2>1, SameCall
<1>5. ~Waiting(r) => AbstractCalls' = AbstractCalls
    BY <1>4 DEF AbstractCalls
<1>6. ASSUME NEW c \in Callers, r.id = Id(c), call[c].phase = "waiting"
      PROVE  /\ Shown(c)' = shows
             /\ AbstractCalls' = [AbstractCalls EXCEPT ![c] = AbstractCall(c)']
             /\ Abandoned' = Abandoned
  <2>1. Waiting(r)
    BY <1>6 DEF Waiting
  <2>2. new \in answers' /\ new.id = Id(c)' /\ new.shows = shows
    BY <1>1, <1>2, <1>6, <2>1
  <2>3. Shown(c)' = shows
    BY <2>2, ShownTellsNext
  <2>4. \A d \in Callers \ {c} : AbstractCall(d)' = AbstractCall(d)
    BY <1>4, <1>6, WaitingIsOfCall
  <2> QED
    BY <1>3, <2>1, <2>3, <2>4 DEF AbstractCalls
<1> QED
    BY <1>3, <1>5, <1>6

(* What the proxy carries out takes effect, in the call or late.           *)
LEMMA ProxyRefines ==
    ASSUME Inv, Inv', NEW r \in requests, CarryOut(r) \/ Deny(r)
    PROVE  \/ UNCHANGED Calls!vars
           \/ \E c \in Callers : Calls!TakeEffect(c)
           \/ r \in Abandoned /\ Calls!Late(r)
PROOF
<1> USE DEF AbstractCalls, Abandoned
<1>t. Types /\ Types'
    BY DEF Inv
<1>h. UNCHANGED call
    BY DEF CarryOut, Deny
<1>1. CASE CarryOut(r)
  <2>1. \E status, body : Answer(r, status, Len(history'), body)
    BY <1>1 DEF CarryOut
  <2>2. history' = IF r.req \in Changing THEN Append(history, r.id) ELSE history
    BY <1>1 DEF CarryOut
  <2>3. CASE ~Waiting(r)
    <3>1. AbstractCalls' = AbstractCalls /\ Abandoned' = Abandoned \ {r}
      BY <1>h, <2>1, <2>3, AnswerShows
    <3> QED
      BY <2>2, <2>3, <3>1 DEF Calls!Late, Calls!After
  <2>4. ASSUME NEW c \in Callers, r.id = Id(c), call[c].phase = "waiting"
        PROVE  Calls!TakeEffect(c)
    <3>1. /\ Shown(c)' = Len(history') /\ Abandoned' = Abandoned
          /\ AbstractCalls' = [AbstractCalls EXCEPT ![c] = AbstractCall(c)']
      BY <1>h, <2>1, <2>4, AnswerShows
    <3>2. r.req = call[c].req
      BY <2>4, WaitingIsOfCall
    <3>3. Len(history') \in Nat /\ Len(history') # Nothing
      BY <1>t, ClientAssumption DEF Types
    <3>4. Shown(c) = Nothing
      BY <2>4, ShownTells, WaitingIsOfCall
    <3>5. AbstractCall(c) = [n |-> call[c].n, phase |-> "open", req |-> call[c].req,
                             shows |-> Nothing, result |-> "none"]
      BY <2>4, <3>4 DEF AbstractCall
    <3>6. AbstractCall(c)' = [n |-> call[c].n, phase |-> "effective", req |-> call[c].req,
                              shows |-> Len(history'), result |-> "none"]
      BY <1>h, <2>4, <3>1, <3>3 DEF AbstractCall
    <3>7. Id(c) = <<c, AbstractCalls[c].n>>
      BY <3>5 DEF Id
    <3>8. AbstractCall(c)' = [AbstractCall(c) EXCEPT !.phase = "effective", !.shows = Len(history')]
      <4>1. call[c].req \in Requests /\ call[c].n \in Nat
        BY <2>4, IdsArePairs DEF Inv, CallsTrue
      <4> DEFINE Open == [n : Nat, phase : {"open", "effective"}, req : Requests,
                          shows : Nat \cup {Nothing}, result : {"none"}]
                 effective == [AbstractCall(c) EXCEPT !.phase = "effective"]
      <4>2. AbstractCall(c) \in Open
        BY <3>5, <4>1
      <4>3. /\ effective \in Open
            /\ effective = [n |-> call[c].n, phase |-> "effective", req |-> call[c].req,
                            shows |-> Nothing, result |-> "none"]
        BY <3>5, <4>2
      <4>4. [AbstractCall(c) EXCEPT !.phase = "effective", !.shows = Len(history')] =
               [effective EXCEPT !.shows = Len(history')]
        OBVIOUS
      <4> HIDE DEF effective
      <4>5. [effective EXCEPT !.shows = Len(history')] =
               [n |-> call[c].n, phase |-> "effective", req |-> call[c].req,
                shows |-> Len(history'), result |-> "none"]
        BY <3>3, <4>1, <4>3
      <4> QED
        BY <3>6, <4>4, <4>5
    <3>9. history' = IF AbstractCalls[c].req \in Changing
                     THEN Append(history, <<c, AbstractCalls[c].n>>) ELSE history
      BY <2>2, <2>4, <3>2, <3>5, <3>7
    <3>10. AbstractCalls[c].phase = "open"
      BY <3>5
    <3>11. AbstractCalls' = [AbstractCalls EXCEPT ![c].phase = "effective",
                                                  ![c].shows = Len(history')]
      BY <3>1, <3>8
    <3> QED
      BY <3>1, <3>9, <3>10, <3>11 DEF Calls!TakeEffect, Calls!After, Calls!Id
  <2> QED
    BY <2>3, <2>4 DEF Waiting
<1>2. CASE Deny(r)
  <2>1. Answer(r, "error", Nothing, "whole") /\ UNCHANGED history
    BY <1>2 DEF Deny
  <2>2. CASE ~Waiting(r)
    <3>1. AbstractCalls' = AbstractCalls /\ Abandoned' = Abandoned \ {r}
      BY <1>h, <2>1, <2>2, AnswerShows
    <3> QED
      BY <2>1, <2>2, <3>1 DEF Calls!Late
  <2>3. ASSUME NEW c \in Callers, r.id = Id(c), call[c].phase = "waiting"
        PROVE  UNCHANGED Calls!vars
    <3>1. /\ Shown(c)' = Nothing /\ Abandoned' = Abandoned
          /\ AbstractCalls' = [AbstractCalls EXCEPT ![c] = AbstractCall(c)']
      BY <1>h, <2>1, <2>3, AnswerShows
    <3>2. Shown(c) = Nothing
      BY <2>3, ShownTells, WaitingIsOfCall
    <3>3. AbstractCall(c)' = AbstractCall(c)
      BY <1>h, <2>3, <3>1, <3>2 DEF AbstractCall
    <3> QED
      BY <2>1, <3>1, <3>3 DEF Calls!vars
  <2> QED
    BY <2>2, <2>3 DEF Waiting
<1> QED
    BY <1>1, <1>2

(* The client and the proxy do what ProxyCalls promises: a call takes      *)
(* effect at one moment, at most once, before it returns unless it was     *)
(* abandoned, and shows the cluster of that moment.                        *)
THEOREM ClientImplementsCalls == Spec => Implements
PROOF
<1>1. Init => Calls!Init
  <2> SUFFICES ASSUME Init PROVE Calls!Init
    OBVIOUS
  <2>1. call = [c \in Callers |-> NoCall] /\ requests = {} /\ history = <<>>
    BY DEF Init
  <2>2. \A c \in Callers : AbstractCall(c) =
           [n |-> 0, phase |-> "idle", shows |-> Nothing, result |-> "none"]
    BY <2>1 DEF AbstractCall, NoCall, AbstractResult
  <2> QED
    BY <2>1, <2>2 DEF Calls!Init, Calls!NoCall
<1>2. Inv /\ Inv' /\ [Next]_vars => [Calls!Next]_Calls!vars
  <2> SUFFICES ASSUME Inv, Inv', [Next]_vars PROVE [Calls!Next]_Calls!vars
    OBVIOUS
  <2>1. CASE Next
    <3>1. Types
      BY DEF Inv
    <3>2. ASSUME NEW c \in Callers, NEW req \in Requests, Ask(c, req) PROVE Calls!Next
      BY <3>2, AskBegins DEF Calls!Next
    <3>3. ASSUME NEW c \in Callers, Ends(c) PROVE Calls!Next
      BY <3>3, EndsRefines DEF Calls!Next
    <3>4. ASSUME NEW c \in Callers, MustMarshalPanics(c) PROVE Calls!Next
      BY <3>4, PanicRefuses DEF Calls!Next
    <3>5. ASSUME NEW r \in requests, CarryOut(r) \/ Deny(r)
          PROVE  Calls!Next \/ UNCHANGED Calls!vars
      BY <3>5, ProxyRefines DEF Calls!Next, Abandoned
    <3> QED
      BY <2>1, <3>1, <3>2, <3>3, <3>4, <3>5, StepsOfNext, SendStutters, StatusStutters
  <2>2. CASE UNCHANGED vars
    BY <2>2 DEF vars, Calls!vars, AbstractCall, Shown, Answered, Id, Waiting
  <2> QED
    BY <2>1, <2>2
<1> QED
    BY <1>1, <1>2, Invariance, PTL DEF Spec, Implements, Calls!Spec

=============================================================================
