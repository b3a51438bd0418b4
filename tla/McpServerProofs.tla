-------------------------- MODULE McpServerProofs --------------------------
(***************************************************************************)
(* Proofs about McpServer: its type invariant, the uid and one-call        *)
(* invariants, and that it implements Gateway.  The inductive invariant    *)
(* says, for each process, how far its exchange with Odoo can have come in *)
(* each phase and what Odoo can have done by then; for /healthz of a       *)
(* process that serves one request, what a uid then says of Odoo.          *)
(***************************************************************************)
EXTENDS McpServer, TLAPS

\* Where a process is in its request, the exchange and Odoo's work agree.
Local(w) ==
    /\ phase[w] = "authenticating" =>
         /\ wire[w].kind \in {"sent", "uid", "denied", "page"}
         /\ request[w] \in CallRequests \/ request[w].page = "healthz"
         /\ done[w] = <<>>
    /\ phase[w] = "executing" =>
         /\ wire[w].kind \in {"sent", "result", "fault", "page"}
         /\ request[w] \in CallRequests
         /\ wire[w].kind = "sent" => done[w] = <<>>
         /\ wire[w].kind = "result" => done[w] # <<>>
    /\ done[w] # <<>> => request[w] \in CallRequests /\ done[w] = <<CallOf(w)>>
    /\ Busy(w) => answer[w].content = "none"
    /\ wire[w].uid # 0 => wire[w].uid \in issued
    /\ "page" \notin Faults => wire[w].kind # "page"

Inv == TypeOK /\ \A w \in Workers : Local(w)

----------------------------------------------------------------------------
(* The handlers' cases *)

LEMMA KindIsOutcome ==
  ASSUME NEW doc
  PROVE  mcp_handle(doc).kind \in OutcomeKinds
<1>1. ASSUME NEW tool, NEW d, NEW args, NEW id
      PROVE  dispatch_tool(tool, d, args, id).kind \in {"tool_error", "call"}
  BY DEF dispatch_tool, Outcome
<1>2. ASSUME NEW d, NEW members, NEW id
      PROVE  tools_call(d, members, id).kind \in OutcomeKinds
  <2> DEFINE name     == Field(d, members, "name")
             args     == Field(d, members, "arguments")
             toolname == IF d[name.start].esc = 0 THEN d[name.start].v ELSE "escaped"
             given    == IF args.type = "object" THEN MembersAt(d, args.start) ELSE <<>>
  <2>1. tools_call(d, members, id) =
          IF name.type = "string" THEN dispatch_tool(toolname, d, given, id)
                                  ELSE Outcome("error", id, -32602, NoCall)
    BY DEF tools_call
  <2> HIDE DEF name, args, toolname, given
  <2>2. Outcome("error", id, -32602, NoCall).kind \in OutcomeKinds
    BY DEF Outcome, OutcomeKinds
  <2>3. dispatch_tool(toolname, d, given, id).kind \in OutcomeKinds
    BY <1>1 DEF OutcomeKinds
  <2> QED BY <2>1, <2>2, <2>3
<1>3. ASSUME NEW d, NEW id, NEW method, NEW params
      PROVE  HandleMethod(d, id, method, params).kind \in OutcomeKinds
  <2>1. tools_call(d, MembersAt(d, params.start), id).kind \in OutcomeKinds
    BY <1>2
  <2> QED BY <2>1 DEF HandleMethod, Outcome, OutcomeKinds
<1>4. HandleMembers(doc, MembersAt(doc, 1)).kind \in OutcomeKinds
  BY <1>3 DEF HandleMembers
<1> QED BY <1>4 DEF mcp_handle, Outcome, OutcomeKinds

LEMMA OutcomeOfDocument ==
  ASSUME NEW d \in Documents
  PROVE  /\ OutcomeOf(d) \in OutcomeKinds
         /\ HandleOf[d].call \in Calls
BY KindIsOutcome DEF OutcomeOf, HandleOf, Calls

LEMMA CallRequestFacts ==
  ASSUME NEW r \in Requests
  PROVE  /\ r.body \in Documents \cup {"empty"}
         /\ r \in CallRequests => r.page = "mcp" /\ r.verb = "POST" /\ r.body \in Documents
         /\ r.page \in {"mcp", "healthz", "other"}
BY DocumentsAssumption DEF Requests, Request, CallRequests

\* What the server answers without a call to Odoo.
OwnAnswers ==
    {"not found", "method not allowed", "empty body", "healthy"}
      \cup (OutcomeKinds \ {"call"})

\* What it answers when authentication or the call has failed.
FailureAnswers == {"unhealthy", "odoo error"}

OwnStatus == {200, 204, 400, 404, 405}

LEMMA AcceptCases ==
  ASSUME NEW w \in Workers, NEW r \in Requests, Accept(w, r)
  PROVE  \/ /\ r \notin CallRequests
            /\ \E c \in OwnAnswers : \E s \in OwnStatus : Reply(w, s, c)
         \/ /\ r \in CallRequests
            /\ uid[w] > 0
            /\ Post(w, "executing")
         \/ /\ r \in CallRequests \/ r.page = "healthz"
            /\ Post(w, "authenticating")
<1>1. r.page \in {"mcp", "healthz", "other"}
  BY CallRequestFacts
<1>2. CASE r.page = "mcp"
  <2>1. handle_mcp(w, r.verb, r.body)
    BY <1>2 DEF Accept
  <2>2. CASE r.verb # "POST"
    <3>1. Reply(w, 405, "method not allowed")
      BY <2>1, <2>2 DEF handle_mcp
    <3>2. r \notin CallRequests
      BY <2>2, CallRequestFacts
    <3> QED BY <3>1, <3>2 DEF OwnAnswers, OwnStatus
  <2>3. CASE r.verb = "POST" /\ r.body = "empty"
    <3>1. Reply(w, 400, "empty body")
      BY <2>1, <2>3 DEF handle_mcp
    <3>2. r \notin CallRequests
      BY <2>3, DocumentsAssumption DEF CallRequests
    <3> QED BY <3>1, <3>2 DEF OwnAnswers, OwnStatus
  <2>4. CASE r.verb = "POST" /\ r.body # "empty"
    <3>1. r.body \in Documents
      BY <2>4, CallRequestFacts
    <3>2. OutcomeOf(r.body) \in OutcomeKinds
      BY <3>1, OutcomeOfDocument
    <3>3. CASE OutcomeOf(r.body) = "call"
      <4>1. r \in CallRequests
        BY <3>1, <3>3 DEF CallRequests
      <4>2. Post(w, IF uid[w] > 0 THEN "executing" ELSE "authenticating")
        BY <2>1, <2>4, <3>3 DEF handle_mcp
      <4> QED BY <4>1, <4>2
    <3>4. CASE OutcomeOf(r.body) = "silent"
      <4>1. Reply(w, 204, "silent")
        BY <2>1, <2>4, <3>4 DEF handle_mcp
      <4> QED BY <3>4, <4>1 DEF CallRequests, OwnAnswers, OwnStatus, OutcomeKinds
    <3>5. CASE OutcomeOf(r.body) \notin {"call", "silent"}
      <4>1. Reply(w, 200, OutcomeOf(r.body))
        BY <2>1, <2>4, <3>5 DEF handle_mcp
      <4>2. OutcomeOf(r.body) \in OwnAnswers
        BY <3>2, <3>5 DEF OwnAnswers
      <4> QED BY <3>5, <4>1, <4>2 DEF CallRequests, OwnStatus
    <3> QED BY <3>3, <3>4, <3>5
  <2> QED BY <2>2, <2>3, <2>4
<1>3. CASE r.page = "healthz"
  <2>1. handle_healthz(w)
    BY <1>3 DEF Accept
  <2>2. r \notin CallRequests
    BY <1>3, CallRequestFacts
  <2> QED BY <1>3, <2>1, <2>2 DEF handle_healthz, OwnAnswers, OwnStatus
<1>4. CASE r.page = "other"
  <2>1. Reply(w, 404, "not found")
    BY <1>4 DEF Accept
  <2>2. r \notin CallRequests
    BY <1>4, CallRequestFacts
  <2> QED BY <2>1, <2>2 DEF OwnAnswers, OwnStatus
<1> QED BY <1>1, <1>2, <1>3, <1>4

----------------------------------------------------------------------------
(* What one process's step does to its own part of the state, and to the    *)
(* parts of the others                                                      *)

Others(w) ==
    \A v \in Workers \ {w} :
      /\ phase'[v] = phase[v] /\ wire'[v] = wire[v] /\ answer'[v] = answer[v]
      /\ request'[v] = request[v] /\ done'[v] = done[v]

\* The invariant after a step of process w.
LEMMA OneMoves ==
  ASSUME Inv, NEW w \in Workers, Others(w), issued \subseteq issued', TypeOK', Local(w)'
  PROVE  Inv'
<1> SUFFICES ASSUME NEW v \in Workers \ {w} PROVE Local(v)'
  BY DEF Inv
<1>1. Local(v)
  BY DEF Inv
<1>2. /\ phase'[v] = phase[v] /\ wire'[v] = wire[v]
      /\ request'[v] = request[v] /\ done'[v] = done[v] /\ answer'[v] = answer[v]
  BY DEF Others
<1>3. CallOf(v)' = CallOf(v)
  BY <1>2 DEF CallOf, HandleOf
<1>4. CallRequests' = CallRequests
  BY DEF CallRequests, OutcomeOf, HandleOf
<1> QED BY <1>1, <1>2, <1>3, <1>4 DEF Local, Busy

LEMMA ReplyEffect ==
  ASSUME TypeOK, NEW w \in Workers, NEW c \in Contents,
         NEW s \in {0, 200, 204, 400, 404, 405, 503}, Reply(w, s, c)
  PROVE  /\ phase' \in [Workers -> Phases]
         /\ wire' \in [Workers -> [kind : WireKinds, uid : Nat]]
         /\ answer' \in [Workers -> Answers]
         /\ phase'[w] \in {"waiting", "gone"}
         /\ wire'[w] = Wire("idle", 0)
         /\ answer'[w].content = c
         /\ \A v \in Workers \ {w} :
              phase'[v] = phase[v] /\ wire'[v] = wire[v] /\ answer'[v] = answer[v]
<1>1. AfterReply \in {"waiting", "gone"}
  BY DEF AfterReply
<1>2. phase' \in [Workers -> Phases] /\ phase'[w] \in {"waiting", "gone"}
  BY <1>1 DEF Reply, TypeOK, Phases
<1>3. wire' \in [Workers -> [kind : WireKinds, uid : Nat]] /\ wire'[w] = Wire("idle", 0)
  BY DEF Reply, TypeOK, Wire, WireKinds
<1>4. answer' \in [Workers -> Answers] /\ answer'[w].content = c
  <2> DEFINE a == [status |-> s, content |-> c]
  <2>1. a \in Answers /\ a.content = c
    BY DEF Answers
  <2>2. answer' = [answer EXCEPT ![w] = a] /\ answer \in [Workers -> Answers]
    BY DEF Reply, TypeOK
  <2> HIDE DEF a
  <2> QED BY <2>1, <2>2
<1>5. ASSUME NEW v \in Workers \ {w}
      PROVE  phase'[v] = phase[v] /\ wire'[v] = wire[v] /\ answer'[v] = answer[v]
  BY DEF Reply, TypeOK
<1> QED BY <1>2, <1>3, <1>4, <1>5

LEMMA PostEffect ==
  ASSUME TypeOK, NEW w \in Workers, NEW step \in {"authenticating", "executing"},
         Post(w, step)
  PROVE  /\ phase' \in [Workers -> Phases]
         /\ wire' \in [Workers -> [kind : WireKinds, uid : Nat]]
         /\ answer' \in [Workers -> Answers]
         /\ phase'[w] = step
         /\ wire'[w] = Wire("sent", 0)
         /\ answer'[w].content = "none"
         /\ \A v \in Workers \ {w} :
              phase'[v] = phase[v] /\ wire'[v] = wire[v] /\ answer'[v] = answer[v]
<1>1. phase' \in [Workers -> Phases] /\ phase'[w] = step
  BY DEF Post, TypeOK, Phases
<1>2. wire' \in [Workers -> [kind : WireKinds, uid : Nat]] /\ wire'[w] = Wire("sent", 0)
  BY DEF Post, TypeOK, Wire, WireKinds
<1>3. answer' \in [Workers -> Answers] /\ answer'[w].content = "none"
  <2>1. NoAnswer \in Answers /\ NoAnswer.content = "none"
    BY DEF Answers, NoAnswer, Contents
  <2> QED BY <2>1 DEF Post, TypeOK
<1>4. ASSUME NEW v \in Workers \ {w}
      PROVE  phase'[v] = phase[v] /\ wire'[v] = wire[v] /\ answer'[v] = answer[v]
  BY DEF Post, TypeOK
<1> QED BY <1>1, <1>2, <1>3, <1>4

----------------------------------------------------------------------------
(* Each step of a process keeps the invariant *)

LEMMA InitInv == Init => Inv
<1> SUFFICES ASSUME Init PROVE Inv
  OBVIOUS
<1>1. Request("other", "GET", "empty") \in Requests
  BY DEF Requests
<1>2. TypeOK
  <2>1. Wire("idle", 0) \in [kind : WireKinds, uid : Nat]
    BY DEF Wire, WireKinds
  <2>2. NoAnswer \in Answers
    BY DEF NoAnswer, Answers, Contents
  <2> QED BY <1>1, <2>1, <2>2 DEF Init, TypeOK, Phases
<1>3. ASSUME NEW w \in Workers PROVE Local(w)
  BY DEF Init, Local, Busy, Wire, NoAnswer
<1> QED BY <1>2, <1>3 DEF Inv

LEMMA AcceptInv ==
  ASSUME Inv, NEW w \in Workers, NEW r \in Requests, Accept(w, r)
  PROVE  Inv'
<1>1. TypeOK
  BY DEF Inv
<1>2. /\ request' \in [Workers -> Requests] /\ request'[w] = r
      /\ done' \in [Workers -> Seq(Calls)] /\ done'[w] = <<>>
      /\ proved' \in [Workers -> BOOLEAN]
      /\ fcgi' = fcgi /\ uid' = uid /\ account' = account /\ up' = up /\ issued' = issued
      /\ \A v \in Workers \ {w} : request'[v] = request[v] /\ done'[v] = done[v]
  <2>1. /\ request' = [request EXCEPT ![w] = r]
        /\ done' = [done EXCEPT ![w] = <<>>]
        /\ proved' = [proved EXCEPT ![w] = FALSE]
        /\ fcgi' = fcgi /\ uid' = uid /\ account' = account /\ up' = up /\ issued' = issued
    BY DEF Accept, world
  <2>2. request' \in [Workers -> Requests] /\ request'[w] = r
    BY <1>1, <2>1 DEF TypeOK
  <2>3. done' \in [Workers -> Seq(Calls)] /\ done'[w] = <<>>
    BY <1>1, <2>1 DEF TypeOK
  <2>4. proved' \in [Workers -> BOOLEAN]
    BY <1>1, <2>1 DEF TypeOK
  <2>5. ASSUME NEW v \in Workers \ {w} PROVE request'[v] = request[v] /\ done'[v] = done[v]
    BY <1>1, <2>1 DEF TypeOK
  <2> QED BY <2>1, <2>2, <2>3, <2>4, <2>5
<1>3. /\ phase' \in [Workers -> Phases]
      /\ wire' \in [Workers -> [kind : WireKinds, uid : Nat]]
      /\ answer' \in [Workers -> Answers]
      /\ \A v \in Workers \ {w} :
           phase'[v] = phase[v] /\ wire'[v] = wire[v] /\ answer'[v] = answer[v]
      /\ \/ phase'[w] \in {"waiting", "gone"} /\ wire'[w] = Wire("idle", 0)
         \/ /\ phase'[w] = "executing" /\ wire'[w] = Wire("sent", 0)
            /\ answer'[w].content = "none"
            /\ r \in CallRequests
         \/ /\ phase'[w] = "authenticating" /\ wire'[w] = Wire("sent", 0)
            /\ answer'[w].content = "none"
            /\ r \in CallRequests \/ r.page = "healthz"
  <2>1. CASE \E c \in OwnAnswers : \E s \in OwnStatus : Reply(w, s, c)
    <3>1. PICK c \in OwnAnswers, s \in OwnStatus : Reply(w, s, c)
      BY <2>1
    <3>2. c \in Contents
      BY DEF OwnAnswers, Contents
    <3>3. s \in {0, 200, 204, 400, 404, 405, 503}
      BY DEF OwnStatus
    <3> QED BY <1>1, <3>1, <3>2, <3>3, ReplyEffect
  <2>2. CASE r \in CallRequests /\ Post(w, "executing")
    BY <1>1, <2>2, PostEffect
  <2>3. CASE (r \in CallRequests \/ r.page = "healthz") /\ Post(w, "authenticating")
    BY <1>1, <2>3, PostEffect
  <2> QED BY <2>1, <2>2, <2>3, AcceptCases
<1>4. TypeOK'
  BY <1>1, <1>2, <1>3 DEF TypeOK
<1>5. Local(w)'
  <2>1. CallRequests' = CallRequests
    BY DEF CallRequests, OutcomeOf, HandleOf
  <2> QED BY <1>2, <1>3, <2>1 DEF Local, Busy, Wire
<1>6. Others(w)
  BY <1>2, <1>3 DEF Others
<1> QED BY <1>2, <1>4, <1>5, <1>6, OneMoves

LEMMA CallRequestsSame == CallRequests' = CallRequests
BY DEF CallRequests, OutcomeOf, HandleOf

LEMMA OdooAuthenticatesInv ==
  ASSUME Inv, NEW w \in Workers, OdooAuthenticates(w)
  PROVE  Inv'
<1> DEFINE m == IF account = 0 THEN Wire("denied", 0) ELSE Wire("uid", account)
<1>1. TypeOK /\ Local(w)
  BY DEF Inv
<1>2. account \in Nat /\ (account # 0 => account \in Uids)
  BY <1>1, UidsAssumption DEF TypeOK
<1>3. /\ m \in [kind : WireKinds, uid : Nat]
      /\ m.kind \in {"denied", "uid"}
      /\ m.uid = account
  BY <1>2 DEF Wire, WireKinds
<1>4. /\ phase[w] = "authenticating"
      /\ wire' = [wire EXCEPT ![w] = m]
      /\ proved' = [proved EXCEPT ![w] = account # 0]
      /\ issued' = issued \cup ({account} \ {0})
      /\ UNCHANGED <<fcgi, phase, request, uid, answer, done, account, up>>
  BY DEF OdooAuthenticates, Sent
<1> HIDE DEF m
<1>5. wire' \in [Workers -> [kind : WireKinds, uid : Nat]] /\ wire'[w] = m
  BY <1>1, <1>3, <1>4 DEF TypeOK
<1>6. issued' \subseteq Uids /\ issued \subseteq issued' /\ (account # 0 => account \in issued')
  BY <1>1, <1>2, <1>4 DEF TypeOK
<1>7. TypeOK'
  <2>1. proved' \in [Workers -> BOOLEAN]
    BY <1>1, <1>4 DEF TypeOK
  <2> QED BY <1>1, <1>4, <1>5, <1>6, <2>1 DEF TypeOK
<1>8. Local(w)'
  <2>1. CallOf(w)' = CallOf(w)
    BY <1>4 DEF CallOf, HandleOf
  <2> QED BY <1>1, <1>3, <1>4, <1>5, <1>6, <2>1, CallRequestsSame DEF Local, Busy
<1>9. Others(w)
  BY <1>1, <1>4 DEF TypeOK, Others
<1> QED BY <1>6, <1>7, <1>8, <1>9, OneMoves

LEMMA OdooExecutesInv ==
  ASSUME Inv, NEW w \in Workers, OdooExecutes(w)
  PROVE  Inv'
<1>1. TypeOK /\ Local(w)
  BY DEF Inv
<1>2. /\ phase[w] = "executing" /\ wire[w].kind = "sent"
      /\ UNCHANGED <<fcgi, phase, request, uid, answer, proved, account, up, issued>>
  BY DEF OdooExecutes, Sent, world
<1>3. request[w] \in CallRequests /\ done[w] = <<>> /\ CallOf(w) \in Calls
  <2>1. request[w] \in CallRequests /\ done[w] = <<>>
    BY <1>1, <1>2 DEF Local, Busy
  <2> QED BY <2>1, OutcomeOfDocument DEF CallRequests, CallOf
<1>4. \/ done' = [done EXCEPT ![w] = <<CallOf(w)>>] /\ wire' = [wire EXCEPT ![w] = Wire("result", 0)]
      \/ done' = done /\ wire' = [wire EXCEPT ![w] = Wire("fault", 0)]
  <2>1. Append(<<>>, CallOf(w)) = <<CallOf(w)>>
    OBVIOUS
  <2>2. [done EXCEPT ![w] = Append(@, CallOf(w))] = [done EXCEPT ![w] = <<CallOf(w)>>]
    BY <1>1, <1>3, <2>1 DEF TypeOK
  <2> QED BY <2>2 DEF OdooExecutes
<1>5. /\ wire' \in [Workers -> [kind : WireKinds, uid : Nat]]
      /\ \/ wire'[w] = Wire("result", 0) /\ done'[w] = <<CallOf(w)>>
         \/ wire'[w] = Wire("fault", 0) /\ done'[w] = <<>>
  <2>1. /\ Wire("result", 0) \in [kind : WireKinds, uid : Nat]
        /\ Wire("fault", 0) \in [kind : WireKinds, uid : Nat]
    BY DEF Wire, WireKinds
  <2> QED BY <1>1, <1>3, <1>4, <2>1 DEF TypeOK
<1>6. done' \in [Workers -> Seq(Calls)]
  <2>1. <<CallOf(w)>> \in Seq(Calls)
    BY <1>3
  <2>2. done \in [Workers -> Seq(Calls)]
    BY <1>1 DEF TypeOK
  <2> QED BY <1>4, <2>1, <2>2
<1>7. TypeOK'
  BY <1>1, <1>2, <1>5, <1>6 DEF TypeOK
<1>8. Local(w)'
  <2>1. CallOf(w)' = CallOf(w)
    BY <1>2 DEF CallOf, HandleOf
  <2>2. /\ wire'[w].kind \in {"result", "fault"} /\ wire'[w].uid = 0
        /\ wire'[w].kind = "result" => done'[w] # <<>>
        /\ done'[w] # <<>> => done'[w] = <<CallOf(w)>>
    <3>1. CASE wire'[w] = Wire("result", 0) /\ done'[w] = <<CallOf(w)>>
      <4>1. <<CallOf(w)>> # <<>>
        OBVIOUS
      <4> QED BY <3>1, <4>1 DEF Wire
    <3>2. CASE wire'[w] = Wire("fault", 0) /\ done'[w] = <<>>
      BY <3>2 DEF Wire
    <3> QED BY <1>5, <3>1, <3>2
  <2>3. answer[w].content = "none"
    BY <1>1, <1>2 DEF Local, Busy
  <2> QED BY <1>2, <1>3, <2>1, <2>2, <2>3, CallRequestsSame DEF Local, Busy
<1>9. Others(w)
  BY <1>1, <1>2, <1>4 DEF TypeOK, Others
<1> QED BY <1>2, <1>7, <1>8, <1>9, OneMoves

LEMMA FrontEndPageInv ==
  ASSUME Inv, NEW w \in Workers, FrontEndPage(w)
  PROVE  Inv'
<1>1. TypeOK /\ Local(w)
  BY DEF Inv
<1>2. /\ "page" \in Faults
      /\ wire' = [wire EXCEPT ![w] = Wire("page", 0)]
      /\ UNCHANGED <<fcgi, phase, request, uid, answer, done, proved, account, up, issued>>
  BY DEF FrontEndPage, world
<1>3. wire' \in [Workers -> [kind : WireKinds, uid : Nat]] /\ wire'[w] = Wire("page", 0)
  BY <1>1, <1>2 DEF TypeOK, Wire, WireKinds
<1>4. TypeOK'
  BY <1>1, <1>2, <1>3 DEF TypeOK
<1>5. Local(w)'
  <2>1. CallOf(w)' = CallOf(w)
    BY <1>2 DEF CallOf, HandleOf
  <2>2. wire'[w].kind = "page" /\ wire'[w].uid = 0
    BY <1>3 DEF Wire
  <2> QED BY <1>1, <1>2, <2>1, <2>2, CallRequestsSame DEF Local, Busy
<1>6. Others(w)
  BY <1>1, <1>2 DEF TypeOK, Others
<1> QED BY <1>2, <1>4, <1>5, <1>6, OneMoves

\* The ways in which net_http_post can end for the handler.
LEMMA ReturnCases ==
  ASSUME Inv, NEW w \in Workers, NetFails(w) \/ Deliver(w) \/ DeliverCut(w)
  PROVE  /\ Returns(w)
         /\ \/ Failure(w)
            \/ /\ phase[w] = "authenticating"
               /\ \E n \in Nat \ {0} :
                    Authenticated(w, n) /\ ("cut" \notin Faults => n \in issued)
            \/ /\ phase[w] = "executing" /\ UNCHANGED uid
               /\ Reply(w, 200, "odoo")
               /\ "cut" \notin Faults => wire[w].kind \in {"result", "page"}
<1>1. TypeOK /\ Local(w)
  BY DEF Inv
<1>2. wire[w].uid \in Nat
  BY <1>1 DEF TypeOK
<1>3. CASE NetFails(w)
  BY <1>3 DEF NetFails
<1>4. CASE Deliver(w)
  <2>1. CASE phase[w] = "authenticating" /\ odoo_auth(w, wire[w].uid)
    <3>1. CASE wire[w].uid > 0
      BY <1>1, <1>2, <1>4, <2>1, <3>1 DEF odoo_auth, Local, Deliver
    <3>2. CASE ~(wire[w].uid > 0)
      BY <1>4, <2>1, <3>2 DEF odoo_auth, Deliver
    <3> QED BY <3>1, <3>2
  <2>2. CASE phase[w] = "executing" /\ odoo_execute(w, wire[w].kind = "fault")
    <3>1. CASE wire[w].kind = "fault"
      BY <1>4, <2>2, <3>1 DEF odoo_execute, Deliver
    <3>2. CASE wire[w].kind # "fault"
      <4>1. wire[w].kind \in {"result", "page"}
        BY <1>1, <1>4, <2>2, <3>2 DEF Local, Busy, Deliver
      <4> QED BY <1>4, <2>2, <3>2, <4>1 DEF odoo_execute, Deliver
    <3> QED BY <3>1, <3>2
  <2> QED BY <1>4, <2>1, <2>2 DEF Deliver
<1>5. CASE DeliverCut(w)
  <2>1. CASE phase[w] = "authenticating" /\ \E p \in Prefixes(wire[w].uid) : odoo_auth(w, p)
    <3>1. PICK p \in Prefixes(wire[w].uid) : odoo_auth(w, p)
      BY <2>1
    <3>2. p \in Nat
      BY <1>2 DEF Prefixes
    <3> QED BY <1>5, <2>1, <3>1, <3>2 DEF odoo_auth, DeliverCut
  <2>2. CASE phase[w] = "executing" /\ odoo_execute(w, FALSE)
    BY <1>5, <2>2 DEF odoo_execute, DeliverCut
  <2> QED BY <1>5, <2>1, <2>2 DEF DeliverCut
<1> QED BY <1>3, <1>4, <1>5

\* The exchange of process w is over and it has answered.
LEMMA AnsweredInv ==
  ASSUME Inv, NEW w \in Workers, Returns(w), NEW c \in Contents,
         NEW s \in {0, 200, 204, 400, 404, 405, 503}, Reply(w, s, c),
         uid' \in [Workers -> Nat]
  PROVE  Inv'
<1>1. TypeOK /\ Local(w)
  BY DEF Inv
<1>2. UNCHANGED <<fcgi, request, done, proved, account, up, issued>>
  BY DEF Returns, world
<1>3. /\ phase' \in [Workers -> Phases] /\ phase'[w] \in {"waiting", "gone"}
      /\ wire' \in [Workers -> [kind : WireKinds, uid : Nat]] /\ wire'[w] = Wire("idle", 0)
      /\ answer' \in [Workers -> Answers]
      /\ \A v \in Workers \ {w} :
           phase'[v] = phase[v] /\ wire'[v] = wire[v] /\ answer'[v] = answer[v]
  BY <1>1, ReplyEffect
<1>4. TypeOK'
  BY <1>1, <1>2, <1>3 DEF TypeOK
<1>5. Local(w)'
  <2>1. CallOf(w)' = CallOf(w)
    BY <1>2 DEF CallOf, HandleOf
  <2>2. wire'[w].kind = "idle" /\ wire'[w].uid = 0
    BY <1>3 DEF Wire
  <2> QED BY <1>1, <1>2, <1>3, <2>1, <2>2, CallRequestsSame DEF Local, Busy
<1>6. Others(w)
  BY <1>2, <1>3 DEF Others
<1> QED BY <1>2, <1>4, <1>5, <1>6, OneMoves

\* odoo_auth has succeeded for a tool call, and execute_kw is posted.
LEMMA PostedInv ==
  ASSUME Inv, NEW w \in Workers, Returns(w), phase[w] = "authenticating",
         request[w].page # "healthz", Post(w, "executing"), uid' \in [Workers -> Nat]
  PROVE  Inv'
<1>1. TypeOK /\ Local(w)
  BY DEF Inv
<1>2. UNCHANGED <<fcgi, request, done, proved, account, up, issued>>
  BY DEF Returns, world
<1>3. /\ phase' \in [Workers -> Phases] /\ phase'[w] = "executing"
      /\ wire' \in [Workers -> [kind : WireKinds, uid : Nat]] /\ wire'[w] = Wire("sent", 0)
      /\ answer' \in [Workers -> Answers] /\ answer'[w].content = "none"
      /\ \A v \in Workers \ {w} :
           phase'[v] = phase[v] /\ wire'[v] = wire[v] /\ answer'[v] = answer[v]
  BY <1>1, PostEffect
<1>4. TypeOK'
  BY <1>1, <1>2, <1>3 DEF TypeOK
<1>5. Local(w)'
  <2>1. request[w] \in CallRequests /\ done[w] = <<>>
    BY <1>1 DEF Local, Busy
  <2>2. wire'[w].kind = "sent" /\ wire'[w].uid = 0
    BY <1>3 DEF Wire
  <2> QED BY <1>2, <1>3, <2>1, <2>2, CallRequestsSame DEF Local, Busy
<1>6. Others(w)
  BY <1>2, <1>3 DEF Others
<1> QED BY <1>2, <1>4, <1>5, <1>6, OneMoves

LEMMA ReturnInv ==
  ASSUME Inv, NEW w \in Workers, NetFails(w) \/ Deliver(w) \/ DeliverCut(w)
  PROVE  Inv'
<1>1. TypeOK
  BY DEF Inv
<1>2. uid \in [Workers -> Nat]
  BY <1>1 DEF TypeOK
<1>3. Returns(w)
  BY ReturnCases
<1>4. CASE Failure(w)
  <2>1. uid' \in [Workers -> Nat]
    BY <1>2, <1>4 DEF Failure
  <2>2. "unhealthy" \in Contents /\ "odoo error" \in Contents
    BY DEF Contents
  <2>3. PICK c \in Contents, code \in {200, 503} : Reply(w, code, c)
    BY <1>4, <2>2 DEF Failure
  <2>4. code \in {0, 200, 204, 400, 404, 405, 503}
    OBVIOUS
  <2> QED BY <1>3, <2>1, <2>3, <2>4, AnsweredInv
<1>5. CASE phase[w] = "authenticating" /\ \E n \in Nat \ {0} : Authenticated(w, n)
  <2>1. PICK n \in Nat \ {0} : Authenticated(w, n)
    BY <1>5
  <2>2. uid' \in [Workers -> Nat]
    BY <1>2, <2>1 DEF Authenticated
  <2>3. CASE request[w].page = "healthz"
    <3>1. Reply(w, 200, "healthy")
      BY <2>1, <2>3 DEF Authenticated
    <3>2. "healthy" \in Contents
      BY DEF Contents
    <3> QED BY <1>3, <2>2, <3>1, <3>2, AnsweredInv
  <2>4. CASE request[w].page # "healthz"
    <3>1. Post(w, "executing")
      BY <2>1, <2>4 DEF Authenticated
    <3> QED BY <1>3, <1>5, <2>2, <2>4, <3>1, PostedInv
  <2> QED BY <2>3, <2>4
<1>6. CASE Reply(w, 200, "odoo") /\ UNCHANGED uid
  <2>1. "odoo" \in Contents
    BY DEF Contents
  <2> QED BY <1>2, <1>3, <1>6, <2>1, AnsweredInv
<1> QED BY <1>4, <1>5, <1>6, ReturnCases

LEMMA ComingAndGoingInv ==
  ASSUME Inv, NEW w \in Workers, Exit(w) \/ Crash(w) \/ Spawn(w)
  PROVE  Inv'
<1>1. TypeOK /\ Local(w)
  BY DEF Inv
<1>2. /\ \/ phase' = [phase EXCEPT ![w] = "gone"]
         \/ phase' = [phase EXCEPT ![w] = "waiting"]
      /\ uid' = [uid EXCEPT ![w] = 0]
      /\ wire' = wire \/ wire' = [wire EXCEPT ![w] = Wire("idle", 0)]
      /\ UNCHANGED <<fcgi, request, answer, done, proved, account, up, issued>>
  BY DEF Exit, Crash, Spawn, world
<1>3. phase' \in [Workers -> Phases] /\ phase'[w] \in {"gone", "waiting"}
  BY <1>1, <1>2 DEF TypeOK, Phases
<1>4. wire' \in [Workers -> [kind : WireKinds, uid : Nat]]
  <2>1. Wire("idle", 0) \in [kind : WireKinds, uid : Nat]
    BY DEF Wire, WireKinds
  <2> QED BY <1>1, <1>2, <2>1 DEF TypeOK
<1>5. uid' \in [Workers -> Nat]
  BY <1>1, <1>2 DEF TypeOK
<1>6. TypeOK'
  BY <1>1, <1>2, <1>3, <1>4, <1>5 DEF TypeOK
<1>7. Local(w)'
  <2>1. CallOf(w)' = CallOf(w)
    BY <1>2 DEF CallOf, HandleOf
  <2>2. wire'[w] = wire[w] \/ (wire'[w].kind = "idle" /\ wire'[w].uid = 0)
    BY <1>1, <1>2 DEF TypeOK, Wire
  <2> QED BY <1>1, <1>2, <1>3, <2>1, <2>2, CallRequestsSame DEF Local, Busy
<1>8. Others(w)
  BY <1>1, <1>2 DEF TypeOK, Others
<1> QED BY <1>2, <1>6, <1>7, <1>8, OneMoves

\* A step that leaves the processes and the grants alone keeps it.
LEMMA WorldInv ==
  ASSUME Inv, UNCHANGED <<fcgi, server, done, proved, issued>>,
         account' \in Uids \cup {0}, up' \in BOOLEAN
  PROVE  Inv'
<1>1. TypeOK
  BY DEF Inv
<1>2. TypeOK'
  BY <1>1 DEF TypeOK, server
<1>3. ASSUME NEW w \in Workers PROVE Local(w)'
  <2>1. Local(w)
    BY DEF Inv
  <2>2. CallOf(w)' = CallOf(w)
    BY DEF CallOf, HandleOf, server
  <2> QED BY <2>1, <2>2, CallRequestsSame DEF Local, Busy, server
<1> QED BY <1>2, <1>3 DEF Inv

LEMMA NextInv == Inv /\ [Next]_vars => Inv'
<1> SUFFICES ASSUME Inv, [Next]_vars PROVE Inv'
  OBVIOUS
<1>1. TypeOK
  BY DEF Inv
<1>2. CASE Next
  <2>1. ASSUME NEW w \in Workers, NEW r \in Requests, Accept(w, r) PROVE Inv'
    BY <2>1, AcceptInv
  <2>2. ASSUME NEW w \in Workers, Exchange(w) PROVE Inv'
    BY <2>2, OdooAuthenticatesInv, OdooExecutesInv, FrontEndPageInv, ReturnInv DEF Exchange
  <2>3. ASSUME NEW w \in Workers, Exit(w) \/ Crash(w) \/ Spawn(w) PROVE Inv'
    BY <2>3, ComingAndGoingInv
  <2>4. CASE Outage
    BY <1>1, <2>4, WorldInv DEF Outage, TypeOK
  <2>5. CASE Rotate
    BY <1>1, <2>5, WorldInv DEF Rotate, TypeOK
  <2> QED BY <1>2, <2>1, <2>2, <2>3, <2>4, <2>5 DEF Next
<1>3. CASE UNCHANGED vars
  BY <1>1, <1>3, WorldInv DEF vars, world, TypeOK
<1> QED BY <1>2, <1>3

LEMMA InvAlways == Spec => []Inv
BY InitInv, NextInv, PTL DEF Spec

----------------------------------------------------------------------------
(* The theorems *)

\* The ranges of the server's variables.
THEOREM ServerTypeOK == Spec => []TypeOK
<1>1. Inv => TypeOK
  BY DEF Inv
<1> QED BY <1>1, InvAlways, PTL

\* Whatever breaks between a process and Odoo, in whatever order, one request
\* has at most one call carried out, and only the call it asks for.
THEOREM ServerOneCall == Spec => []OneCallPerRequest
<1>1. Inv => OneCallPerRequest
  BY DEF Inv, Local, OneCallPerRequest, CallRequests
<1> QED BY <1>1, InvAlways, PTL

\* A process holds a uid only if Odoo has granted it, as long as an answer
\* is never cut short.
THEOREM ServerUidIssued ==
  ASSUME "cut" \notin Faults
  PROVE  Spec => []UidIssued
<1>1. Init => UidIssued
  BY DEF Init, UidIssued
<1>2. Inv /\ UidIssued /\ [Next]_vars => UidIssued'
  <2> SUFFICES ASSUME Inv, UidIssued, [Next]_vars PROVE UidIssued'
    OBVIOUS
  <2>1. TypeOK
    BY DEF Inv
  <2>2. issued \subseteq issued'
    BY DEF Next, vars, world, Accept, Exchange, OdooAuthenticates, OdooExecutes, FrontEndPage,
           NetFails, Deliver, DeliverCut, Returns, Exit, Crash, Spawn, Outage, Rotate
  <2>3. CASE uid' = uid
    BY <2>2, <2>3 DEF UidIssued
  <2>4. ASSUME NEW w \in Workers, Exit(w) \/ Crash(w) \/ Spawn(w) PROVE UidIssued'
    BY <2>1, <2>2, <2>4 DEF Exit, Crash, Spawn, UidIssued, TypeOK
  <2>5. ASSUME NEW w \in Workers, NetFails(w) \/ Deliver(w) \/ DeliverCut(w)
        PROVE  UidIssued'
    <3>1. CASE \E n \in Nat \ {0} : Authenticated(w, n) /\ n \in issued
      BY <2>1, <2>2, <3>1 DEF Authenticated, UidIssued, TypeOK
    <3> QED BY <2>3, <2>5, <3>1, ReturnCases DEF Failure
  <2> QED BY <2>3, <2>4, <2>5
          DEF Next, vars, server, world, Accept, Exchange, OdooAuthenticates, OdooExecutes,
              FrontEndPage, Outage, Rotate
<1> QED BY <1>1, <1>2, InvAlways, PTL DEF Spec

----------------------------------------------------------------------------
(* McpServer implements Gateway *)

\* A step of one process seen through the refinement mapping.
LEMMA BarOneMoves ==
  ASSUME NEW w \in Workers, Others(w)
  PROVE  /\ StageBar' = [StageBar EXCEPT ![w] = StageIn(phase'[w])]
         /\ ToldBar' = [ToldBar EXCEPT ![w] = ToldBy(answer'[w].content)]
BY DEF Others, StageBar, ToldBar

LEMMA BarValue ==
  ASSUME NEW w \in Workers
  PROVE  StageBar[w] = StageIn(phase[w]) /\ ToldBar[w] = ToldBy(answer[w].content)
BY DEF StageBar, ToldBar

LEMMA ToldByCases ==
  /\ \A c \in OwnAnswers : ToldBy(c) = "own"
  /\ ToldBy("none") = "nothing"
  /\ ToldBy("odoo") = "result"
  /\ \A c \in FailureAnswers : ToldBy(c) = "failure"
BY DEF ToldBy, OwnAnswers, FailureAnswers, OutcomeKinds

\* The abstract answer that a reply of process w gives.
LEMMA ReplyTells ==
  ASSUME TypeOK, NEW w \in Workers, NEW c \in Contents,
         NEW s \in {0, 200, 204, 400, 404, 405, 503}, Reply(w, s, c),
         \A v \in Workers \ {w} : request'[v] = request[v] /\ done'[v] = done[v]
  PROVE  Promise!Answers(w, ToldBy(c))
<1>1. /\ phase'[w] \in {"waiting", "gone"} /\ answer'[w].content = c
      /\ \A v \in Workers \ {w} :
           phase'[v] = phase[v] /\ wire'[v] = wire[v] /\ answer'[v] = answer[v]
  BY ReplyEffect
<1>2. Others(w)
  BY <1>1 DEF Others
<1>3. StageIn(phase'[w]) \in {"idle", "gone"}
  BY <1>1 DEF StageIn
<1> QED BY <1>1, <1>2, <1>3, BarOneMoves DEF Promise!Answers

LEMMA InitPromise == Init => Promise!Init
<1> SUFFICES ASSUME Init PROVE Promise!Init
  OBVIOUS
<1>1. Request("other", "GET", "empty") \in Requests \ CallRequests
  BY DocumentsAssumption DEF Requests, Request, CallRequests
<1>2. StageBar = [w \in Workers |-> "idle"]
  BY DEF Init, StageBar, StageIn
<1>3. ToldBar = [w \in Workers |-> "nothing"]
  BY DEF Init, ToldBar, ToldBy, NoAnswer
<1> QED BY <1>1, <1>2, <1>3 DEF Init, Promise!Init

LEMMA AcceptPromise ==
  ASSUME Inv, NEW w \in Workers, NEW r \in Requests, Accept(w, r)
  PROVE  Promise!Take(w, r)
<1>1. TypeOK
  BY DEF Inv
<1>2. /\ phase[w] = "waiting"
      /\ request' = [request EXCEPT ![w] = r]
      /\ done' = [done EXCEPT ![w] = <<>>]
  BY DEF Accept
<1>3. StageBar[w] = "idle"
  BY <1>2, BarValue DEF StageIn
<1>3a. \A v \in Workers \ {w} : request'[v] = request[v] /\ done'[v] = done[v]
  BY <1>1, <1>2 DEF TypeOK
<1>4. CASE r \notin CallRequests /\ \E c \in OwnAnswers : \E s \in OwnStatus : Reply(w, s, c)
  <2>1. PICK c \in OwnAnswers, s \in OwnStatus : Reply(w, s, c)
    BY <1>4
  <2>2. c \in Contents
    BY DEF OwnAnswers, Contents
  <2>3. s \in {0, 200, 204, 400, 404, 405, 503}
    BY DEF OwnStatus
  <2>4. Promise!Answers(w, ToldBy(c))
    BY <1>1, <1>3a, <2>1, <2>2, <2>3, ReplyTells
  <2>5. ToldBy(c) = "own"
    BY ToldByCases
  <2> QED BY <1>2, <1>3, <1>4, <2>4, <2>5 DEF Promise!Take
<1>5. CASE Post(w, "executing") \/ Post(w, "authenticating")
  <2>1. /\ phase'[w] \in {"executing", "authenticating"} /\ answer'[w].content = "none"
        /\ \A v \in Workers \ {w} :
             phase'[v] = phase[v] /\ wire'[v] = wire[v] /\ answer'[v] = answer[v]
    BY <1>1, <1>5, PostEffect
  <2>2. Others(w)
    BY <1>3a, <2>1 DEF Others
  <2>3. StageIn(phase'[w]) = "serving" /\ ToldBy(answer'[w].content) = "nothing"
    BY <2>1, ToldByCases DEF StageIn
  <2>4. /\ StageBar' = [StageBar EXCEPT ![w] = "serving"]
        /\ ToldBar' = [ToldBar EXCEPT ![w] = "nothing"]
    BY <2>2, <2>3, BarOneMoves
  <2> QED BY <1>2, <1>3, <2>4 DEF Promise!Take
<1> QED BY <1>4, <1>5, AcceptCases

LEMMA OdooExecutesPromise ==
  ASSUME Inv, NEW w \in Workers, OdooExecutes(w)
  PROVE  Promise!CarryOut(w) \/ UNCHANGED Promise!vars
<1>1. TypeOK /\ Local(w)
  BY DEF Inv
<1>2. phase[w] = "executing" /\ wire[w].kind = "sent" /\ UNCHANGED <<phase, request, answer>>
  BY DEF OdooExecutes, Sent
<1>3. UNCHANGED <<StageBar, ToldBar, request>>
  BY <1>2 DEF StageBar, ToldBar
<1>4. request[w] \in CallRequests /\ done[w] = <<>>
  BY <1>1, <1>2 DEF Local
<1>5. CASE done' = done
  BY <1>3, <1>5 DEF Promise!vars
<1>6. CASE done' = [done EXCEPT ![w] = Append(@, CallOf(w))]
  <2>1. Append(<<>>, CallOf(w)) = <<CallOf(w)>>
    OBVIOUS
  <2>2. done' = [done EXCEPT ![w] = <<CallOf(w)>>]
    BY <1>1, <1>4, <1>6, <2>1 DEF TypeOK
  <2>3. CallOf(w) = [r \in CallRequests |-> HandleOf[r.body].call][request[w]]
    BY <1>4 DEF CallOf
  <2>4. StageBar[w] = "serving"
    BY <1>2, BarValue DEF StageIn
  <2> QED BY <1>3, <1>4, <2>2, <2>3, <2>4 DEF Promise!CarryOut
<1> QED BY <1>5, <1>6 DEF OdooExecutes

LEMMA ReturnPromise ==
  ASSUME Inv, "cut" \notin Faults, "page" \notin Faults,
         NEW w \in Workers, NetFails(w) \/ Deliver(w) \/ DeliverCut(w)
  PROVE  Promise!Tell(w) \/ UNCHANGED Promise!vars
<1>1. TypeOK /\ Local(w)
  BY DEF Inv
<1>2. Busy(w) /\ request' = request /\ done' = done
  BY ReturnCases DEF Returns
<1>2a. \A v \in Workers \ {w} : request'[v] = request[v] /\ done'[v] = done[v]
  BY <1>2
<1>3. StageBar[w] = "serving"
  BY <1>2, BarValue DEF Busy, StageIn
<1>4. CASE Failure(w)
  <2>1. FailureAnswers \subseteq Contents
    BY DEF FailureAnswers, Contents
  <2>2. PICK c \in FailureAnswers, code \in {200, 503} : Reply(w, code, c)
    BY <1>4 DEF Failure, FailureAnswers
  <2>3. code \in {0, 200, 204, 400, 404, 405, 503}
    OBVIOUS
  <2>3a. c \in Contents
    BY <2>1
  <2>3b. Reply(w, code, c)
    BY <2>2
  <2>4. Promise!Answers(w, ToldBy(c))
    BY <1>1, <1>2a, <2>3, <2>3a, <2>3b, ReplyTells
  <2>4a. ToldBy(c) = "failure"
    BY ToldByCases
  <2>5. Promise!Answers(w, "failure")
    BY <2>4, <2>4a
  <2> QED BY <1>2, <1>3, <2>5 DEF Promise!Tell
<1>5. CASE phase[w] = "authenticating" /\ \E n \in Nat \ {0} : Authenticated(w, n)
  <2>1. PICK n \in Nat \ {0} : Authenticated(w, n)
    BY <1>5
  <2>2. CASE request[w].page = "healthz"
    <3>1. PICK c \in OwnAnswers, code \in {200} : Reply(w, code, c)
      BY <2>1, <2>2 DEF Authenticated, OwnAnswers
    <3>2. c \in Contents
      BY DEF OwnAnswers, Contents
    <3>3. code \in {0, 200, 204, 400, 404, 405, 503}
      OBVIOUS
    <3>5. Promise!Answers(w, ToldBy(c))
      BY <1>1, <1>2a, <3>1, <3>2, <3>3, ReplyTells
    <3>5a. ToldBy(c) = "own"
      BY ToldByCases
    <3>4. request[w] \notin CallRequests
      <4>1. request[w] \in Requests
        BY <1>1 DEF TypeOK
      <4> QED BY <2>2, <4>1, CallRequestFacts
    <3> QED BY <1>2, <1>3, <3>4, <3>5, <3>5a DEF Promise!Tell
  <2>3. CASE request[w].page # "healthz"
    <3>1. Post(w, "executing")
      BY <2>1, <2>3 DEF Authenticated
    <3>2. /\ phase'[w] = "executing" /\ answer'[w].content = "none"
          /\ \A v \in Workers \ {w} :
               phase'[v] = phase[v] /\ wire'[v] = wire[v] /\ answer'[v] = answer[v]
      BY <1>1, <3>1, PostEffect
    <3>3. answer[w].content = "none"
      BY <1>1, <1>2 DEF Local
    <3>4. \A v \in Workers : /\ StageIn(phase'[v]) = StageIn(phase[v])
                            /\ ToldBy(answer'[v].content) = ToldBy(answer[v].content)
      BY <1>5, <3>2, <3>3 DEF StageIn
    <3>5. StageBar' = StageBar /\ ToldBar' = ToldBar
      BY <3>4 DEF StageBar, ToldBar
    <3> QED BY <1>2, <3>5 DEF Promise!vars
  <2> QED BY <2>2, <2>3
<1>6. CASE /\ phase[w] = "executing" /\ Reply(w, 200, "odoo")
           /\ wire[w].kind \in {"result", "page"}
  <2>1. PICK c \in {"odoo"}, code \in {200} : Reply(w, code, c)
    BY <1>6
  <2>2. code \in {0, 200, 204, 400, 404, 405, 503} /\ c \in Contents
    BY DEF Contents
  <2>3. Promise!Answers(w, ToldBy(c))
    BY <1>1, <1>2a, <2>1, <2>2, ReplyTells
  <2>3a. ToldBy(c) = "result"
    BY ToldByCases
  <2>4. request[w] \in CallRequests /\ done[w] # <<>>
    BY <1>1, <1>6 DEF Local
  <2> QED BY <1>2, <1>3, <2>3, <2>3a, <2>4 DEF Promise!Tell
<1> QED BY <1>4, <1>5, <1>6, ReturnCases

LEMMA ComingAndGoingPromise ==
  ASSUME Inv, NEW w \in Workers, Exit(w) \/ Crash(w) \/ Spawn(w)
  PROVE  Promise!Die(w) \/ Promise!Start(w)
<1>1. TypeOK
  BY DEF Inv
<1>2. UNCHANGED <<request, done, answer, ToldBar>>
  BY DEF Exit, Crash, Spawn, ToldBar
<1>3. CASE Exit(w) \/ Crash(w)
  <2>1. phase[w] # "gone" /\ phase' = [phase EXCEPT ![w] = "gone"]
    BY <1>3 DEF Exit, Crash, Busy
  <2>2. StageBar[w] # "gone"
    BY <1>1, <2>1, BarValue DEF StageIn
  <2>3. StageBar' = [StageBar EXCEPT ![w] = "gone"]
    BY <1>1, <2>1 DEF StageBar, StageIn, TypeOK
  <2> QED BY <1>2, <2>2, <2>3 DEF Promise!Die
<1>4. CASE Spawn(w)
  <2>1. phase[w] = "gone" /\ phase' = [phase EXCEPT ![w] = "waiting"]
    BY <1>4 DEF Spawn
  <2>2. StageBar[w] = "gone"
    BY <1>1, <2>1, BarValue DEF StageIn
  <2>3. StageBar' = [StageBar EXCEPT ![w] = "idle"]
    BY <1>1, <2>1 DEF StageBar, StageIn, TypeOK
  <2> QED BY <1>2, <2>2, <2>3 DEF Promise!Start
<1> QED BY <1>3, <1>4

LEMMA NextPromise ==
  ASSUME Inv, "cut" \notin Faults, "page" \notin Faults, [Next]_vars
  PROVE  [Promise!Next]_(Promise!vars)
<1>1. ASSUME UNCHANGED <<phase, request, answer, done>> PROVE UNCHANGED Promise!vars
  BY <1>1 DEF Promise!vars, StageBar, ToldBar
<1>2. CASE Next
  <2>1. ASSUME NEW w \in Workers, NEW r \in Requests, Accept(w, r) PROVE Promise!Next
    BY <2>1, AcceptPromise DEF Promise!Next
  <2>2. ASSUME NEW w \in Workers, Exchange(w) PROVE Promise!Next \/ UNCHANGED Promise!vars
    <3>1. CASE OdooAuthenticates(w)
      BY <1>1, <3>1 DEF OdooAuthenticates
    <3>2. CASE OdooExecutes(w)
      BY <3>2, OdooExecutesPromise DEF Promise!Next
    <3>3. CASE NetFails(w) \/ Deliver(w) \/ DeliverCut(w)
      BY <3>3, ReturnPromise DEF Promise!Next
    <3> QED BY <2>2, <3>1, <3>2, <3>3 DEF Exchange, FrontEndPage
  <2>3. ASSUME NEW w \in Workers, Exit(w) \/ Crash(w) \/ Spawn(w) PROVE Promise!Next
    BY <2>3, ComingAndGoingPromise DEF Promise!Next
  <2>4. CASE Outage \/ Rotate
    BY <1>1, <2>4 DEF Outage, Rotate, server
  <2> QED BY <1>2, <2>1, <2>2, <2>3, <2>4 DEF Next
<1>3. CASE UNCHANGED vars
  BY <1>1, <1>3 DEF vars, server
<1> QED BY <1>2, <1>3

\* The server implements Gateway for any number of processes, documents and
\* uids, as long as answers of Odoo are neither cut nor replaced by pages:
\* at most one call per request, a result only for a call carried out.
THEOREM ServerKeepsPromise ==
  ASSUME "cut" \notin Faults, "page" \notin Faults
  PROVE  Spec => KeepsPromise
<1>1. Inv /\ [Next]_vars => [Promise!Next]_(Promise!vars)
  BY NextPromise
<1> QED BY <1>1, InitPromise, InvAlways, PTL DEF Spec, KeepsPromise, Promise!Spec

----------------------------------------------------------------------------
(***************************************************************************)
(* /healthz tells the truth when the server runs as a plain CGI program: a *)
(* process has no uid before its one request, so that a healthy answer     *)
(* rests on a login of that request.                                       *)
(***************************************************************************)
\* What a CGI process knows of its login at each point of its request.
Unproved(w) ==
    ~fcgi =>
      /\ phase[w] = "waiting" => uid[w] = 0
      /\ phase[w] = "authenticating" /\ wire[w].uid # 0 => proved[w]
      /\ answer[w].content = "healthy" => proved[w]

HealthInv == \A w \in Workers : Unproved(w)

\* A process whose part of the state stands still keeps its share.
LEMMA UnprovedStands ==
  ASSUME NEW w \in Workers, Unproved(w), fcgi' = fcgi, phase'[w] = phase[w],
         uid'[w] = uid[w], wire'[w] = wire[w], proved'[w] = proved[w],
         answer'[w] = answer[w]
  PROVE  Unproved(w)'
BY DEF Unproved

----------------------------------------------------------------------------
(* The steps of a process, for itself *)

\* Without a uid no request is answered "healthy" on the spot.
LEMMA AcceptIsNotHealthy ==
  ASSUME TypeOK, NEW w \in Workers, NEW r \in Requests, Accept(w, r), uid[w] = 0
  PROVE  answer'[w].content # "healthy"
<1>1. r.page \in {"mcp", "healthz", "other"}
  BY CallRequestFacts
<1>2. ASSUME \E c \in Contents \ {"healthy"} : \E s \in OwnStatus : Reply(w, s, c)
      PROVE  answer'[w].content # "healthy"
  <2>1. PICK c \in Contents \ {"healthy"}, s \in OwnStatus : Reply(w, s, c)
    BY <1>2
  <2>2. s \in {0, 200, 204, 400, 404, 405, 503}
    BY DEF OwnStatus
  <2> QED BY <2>1, <2>2, ReplyEffect
<1>3. ASSUME NEW step \in {"authenticating", "executing"}, Post(w, step)
      PROVE  answer'[w].content # "healthy"
  <2>1. answer'[w].content = "none"
    BY <1>3, PostEffect
  <2> QED BY <2>1
<1>4. CASE r.page = "mcp"
  <2>1. handle_mcp(w, r.verb, r.body)
    BY <1>4 DEF Accept
  <2>2. CASE r.verb # "POST"
    <3>1. Reply(w, 405, "method not allowed") /\ "method not allowed" \in Contents
      BY <2>1, <2>2 DEF handle_mcp, Contents
    <3>2. 405 \in OwnStatus /\ "method not allowed" # "healthy"
      BY DEF OwnStatus
    <3> QED BY <1>2, <3>1, <3>2
  <2>3. CASE r.verb = "POST" /\ r.body = "empty"
    <3>1. Reply(w, 400, "empty body") /\ "empty body" \in Contents
      BY <2>1, <2>3 DEF handle_mcp, Contents
    <3>2. 400 \in OwnStatus /\ "empty body" # "healthy"
      BY DEF OwnStatus
    <3> QED BY <1>2, <3>1, <3>2
  <2>4. CASE r.verb = "POST" /\ r.body # "empty"
    <3>1. r.body \in Documents
      BY <2>4, CallRequestFacts
    <3>2. OutcomeOf(r.body) \in OutcomeKinds
      BY <3>1, OutcomeOfDocument
    <3>3. /\ OutcomeKinds \subseteq Contents /\ "healthy" \notin OutcomeKinds
          /\ "silent" \in OutcomeKinds
      BY DEF Contents, OutcomeKinds
    <3>4. \/ Post(w, "authenticating") \/ Post(w, "executing")
          \/ Reply(w, 204, "silent") \/ Reply(w, 200, OutcomeOf(r.body))
      BY <2>1, <2>4 DEF handle_mcp
    <3>5. 200 \in OwnStatus /\ 204 \in OwnStatus
      BY DEF OwnStatus
    <3> QED BY <1>2, <1>3, <3>2, <3>3, <3>4, <3>5
  <2> QED BY <2>2, <2>3, <2>4
<1>5. CASE r.page = "healthz"
  <2>1. Post(w, "authenticating")
    BY <1>5 DEF Accept, handle_healthz
  <2> QED BY <1>3, <2>1
<1>6. CASE r.page = "other"
  <2>1. Reply(w, 404, "not found") /\ "not found" \in Contents
    BY <1>6 DEF Accept, Contents
  <2>2. 404 \in OwnStatus /\ "not found" # "healthy"
    BY DEF OwnStatus
  <2> QED BY <1>2, <2>1, <2>2
<1> QED BY <1>1, <1>4, <1>5, <1>6

LEMMA AcceptUnproved ==
  ASSUME TypeOK, NEW w \in Workers, Unproved(w), NEW r \in Requests, Accept(w, r)
  PROVE  Unproved(w)'
<1>1. phase[w] = "waiting" /\ fcgi' = fcgi /\ uid' = uid
  BY DEF Accept
<1>2. SUFFICES ASSUME ~fcgi PROVE Unproved(w)'
  BY <1>1 DEF Unproved
<1>3. uid[w] = 0
  BY <1>1, <1>2 DEF Unproved
<1>4. answer'[w].content # "healthy"
  BY <1>3, AcceptIsNotHealthy
<1>5. wire'[w].uid = 0
  <2>1. CASE \E c \in OwnAnswers : \E s \in OwnStatus : Reply(w, s, c)
    BY <2>1 DEF Reply, Wire, TypeOK
  <2>2. CASE Post(w, "executing") \/ Post(w, "authenticating")
    BY <2>2 DEF Post, Wire, TypeOK
  <2> QED BY <2>1, <2>2, AcceptCases
<1> QED BY <1>1, <1>3, <1>4, <1>5 DEF Unproved

LEMMA OdooUnproved ==
  ASSUME TypeOK, NEW w \in Workers, Unproved(w), Local(w),
         OdooAuthenticates(w) \/ OdooExecutes(w) \/ FrontEndPage(w)
  PROVE  Unproved(w)'
<1>1. /\ Busy(w) /\ answer[w].content = "none"
      /\ UNCHANGED <<fcgi, phase, uid, answer>>
  BY DEF OdooAuthenticates, OdooExecutes, FrontEndPage, Sent, Busy, Local
<1>2. CASE OdooAuthenticates(w)
  <2>1. CASE account = 0
    <3>1. wire'[w].uid = 0
      BY <1>2, <2>1 DEF OdooAuthenticates, Wire, TypeOK
    <3> QED BY <1>1, <3>1 DEF Unproved, Busy
  <2>2. CASE account # 0
    <3>1. proved'[w] = TRUE
      BY <1>2, <2>2 DEF OdooAuthenticates, TypeOK
    <3> QED BY <1>1, <3>1 DEF Unproved, Busy
  <2> QED BY <2>1, <2>2
<1>3. CASE OdooExecutes(w) \/ FrontEndPage(w)
  <2>1. wire'[w].uid = 0
    BY <1>3 DEF OdooExecutes, FrontEndPage, Wire, TypeOK
  <2> QED BY <1>1, <2>1 DEF Unproved, Busy
<1> QED BY <1>2, <1>3

\* odoo_auth ends well only if the answer has a uid in it, whole or cut.
LEMMA HealthyRestsOnGrant ==
  ASSUME TypeOK, NEW w \in Workers, NetFails(w) \/ Deliver(w) \/ DeliverCut(w)
  PROVE  \/ Failure(w)
         \/ Reply(w, 200, "odoo")
         \/ /\ phase[w] = "authenticating" /\ wire[w].uid # 0
            /\ \E n \in Nat : Authenticated(w, n)
<1>1. wire[w].uid \in Nat
  BY DEF TypeOK
<1>2. CASE NetFails(w)
  BY <1>2 DEF NetFails
<1>3. CASE phase[w] = "executing" /\ \E fault \in BOOLEAN : odoo_execute(w, fault)
  BY <1>3 DEF odoo_execute
<1>4. CASE phase[w] = "authenticating" /\ \E n \in 0..wire[w].uid : odoo_auth(w, n)
  <2>1. PICK n \in 0..wire[w].uid : odoo_auth(w, n)
    BY <1>4
  <2>2. n \in Nat /\ (n > 0 => wire[w].uid # 0)
    BY <1>1
  <2> QED BY <1>4, <2>1, <2>2 DEF odoo_auth
<1>5. CASE Deliver(w)
  <2>1. wire[w].uid \in 0..wire[w].uid
    BY <1>1
  <2> QED BY <1>3, <1>4, <1>5, <2>1 DEF Deliver
<1>6. CASE DeliverCut(w)
  <2>1. Prefixes(wire[w].uid) \subseteq 0..wire[w].uid
    BY DEF Prefixes
  <2> QED BY <1>3, <1>4, <1>6, <2>1 DEF DeliverCut
<1> QED BY <1>2, <1>5, <1>6

LEMMA ReturnUnproved ==
  ASSUME TypeOK, NEW w \in Workers, Unproved(w),
         NetFails(w) \/ Deliver(w) \/ DeliverCut(w)
  PROVE  Unproved(w)'
<1>1. fcgi' = fcgi /\ proved' = proved
  BY DEF NetFails, Deliver, DeliverCut, Returns
<1>2. SUFFICES ASSUME ~fcgi PROVE Unproved(w)'
  BY <1>1 DEF Unproved
<1>3. ASSUME \/ Reply(w, 503, "unhealthy") \/ Reply(w, 200, "odoo error")
             \/ Reply(w, 200, "odoo") \/ (Reply(w, 200, "healthy") /\ proved[w])
      PROVE  Unproved(w)'
  <2>1. phase'[w] = "gone"
    BY <1>2, <1>3 DEF Reply, AfterReply, TypeOK
  <2>2. answer'[w].content = "healthy" => proved[w]
    <3>1. CASE Reply(w, 503, "unhealthy")
      BY <3>1 DEF Reply, TypeOK
    <3>2. CASE Reply(w, 200, "odoo error")
      BY <3>2 DEF Reply, TypeOK
    <3>3. CASE Reply(w, 200, "odoo")
      BY <3>3 DEF Reply, TypeOK
    <3> QED BY <1>3, <3>1, <3>2, <3>3
  <2> QED BY <1>1, <2>1, <2>2 DEF Unproved
<1>5. CASE Failure(w)
  <2>1. Reply(w, 503, "unhealthy") \/ Reply(w, 200, "odoo error")
    BY <1>5 DEF Failure
  <2> QED BY <1>3, <2>1
<1>6. CASE Reply(w, 200, "odoo")
  BY <1>3, <1>6
<1>7. CASE /\ phase[w] = "authenticating" /\ wire[w].uid # 0
           /\ \E n \in Nat : Authenticated(w, n)
  <2>1. proved[w]
    BY <1>2, <1>7 DEF Unproved
  <2>2. CASE Reply(w, 200, "healthy")
    BY <1>3, <2>1, <2>2
  <2>3. CASE Post(w, "executing")
    <3>1. phase'[w] = "executing" /\ answer'[w].content = "none"
      BY <2>3, PostEffect
    <3> QED BY <3>1 DEF Unproved
  <2> QED BY <1>7, <2>2, <2>3 DEF Authenticated
<1> QED BY <1>5, <1>6, <1>7, HealthyRestsOnGrant

LEMMA ComingAndGoingUnproved ==
  ASSUME TypeOK, NEW w \in Workers, Unproved(w), Exit(w) \/ Crash(w) \/ Spawn(w)
  PROVE  Unproved(w)'
<1>1. /\ phase'[w] \in {"gone", "waiting"} /\ uid'[w] = 0
      /\ UNCHANGED <<fcgi, answer, proved>>
  BY DEF Exit, Crash, Spawn, TypeOK
<1> QED BY <1>1 DEF Unproved

----------------------------------------------------------------------------
(* Any step *)

\* A step of process w leaves the others as they are.
LEMMA OthersStand ==
  ASSUME TypeOK, NEW w \in Workers, NEW v \in Workers \ {w},
         \/ \E r \in Requests : Accept(w, r)
         \/ Exchange(w) \/ Exit(w) \/ Crash(w) \/ Spawn(w)
  PROVE  /\ fcgi' = fcgi /\ phase'[v] = phase[v] /\ uid'[v] = uid[v]
         /\ wire'[v] = wire[v] /\ proved'[v] = proved[v] /\ answer'[v] = answer[v]
<1>1. ASSUME NEW s, NEW c, Reply(w, s, c)
      PROVE  phase'[v] = phase[v] /\ wire'[v] = wire[v] /\ answer'[v] = answer[v]
  BY <1>1 DEF Reply, TypeOK
<1>2. ASSUME NEW step, Post(w, step)
      PROVE  phase'[v] = phase[v] /\ wire'[v] = wire[v] /\ answer'[v] = answer[v]
  BY <1>2 DEF Post, TypeOK
<1>3. ASSUME NEW r \in Requests, Accept(w, r)
      PROVE  /\ fcgi' = fcgi /\ uid'[v] = uid[v] /\ proved'[v] = proved[v]
             /\ \/ \E s \in OwnStatus : \E c \in OwnAnswers : Reply(w, s, c)
                \/ \E step \in {"authenticating", "executing"} : Post(w, step)
  <2>1. fcgi' = fcgi /\ uid'[v] = uid[v] /\ proved'[v] = proved[v]
    BY <1>3 DEF Accept, TypeOK
  <2>2. \/ \E s \in OwnStatus : \E c \in OwnAnswers : Reply(w, s, c)
        \/ Post(w, "authenticating") \/ Post(w, "executing")
    BY <1>3, AcceptCases
  <2> QED BY <2>1, <2>2
<1>4. CASE OdooAuthenticates(w) \/ OdooExecutes(w) \/ FrontEndPage(w)
  BY <1>4 DEF OdooAuthenticates, OdooExecutes, FrontEndPage, TypeOK
<1>5. CASE NetFails(w) \/ Deliver(w) \/ DeliverCut(w)
  <2>1. fcgi' = fcgi /\ proved' = proved
    BY <1>5 DEF NetFails, Deliver, DeliverCut, Returns
  <2>2. \/ Failure(w) \/ \E n \in Nat : Authenticated(w, n)
        \/ \E fault \in BOOLEAN : odoo_execute(w, fault)
    <3>1. CASE NetFails(w)
      BY <3>1 DEF NetFails
    <3>2. CASE Deliver(w) \/ DeliverCut(w)
      <4>1. wire[w].uid \in Nat /\ Prefixes(wire[w].uid) \subseteq Nat
        BY DEF Prefixes, TypeOK
      <4>2. \/ \E n \in Nat : odoo_auth(w, n)
            \/ \E fault \in BOOLEAN : odoo_execute(w, fault)
        BY <3>2, <4>1 DEF Deliver, DeliverCut
      <4> QED BY <4>2 DEF odoo_auth
    <3> QED BY <1>5, <3>1, <3>2
  <2>3. uid'[v] = uid[v]
    BY <2>2 DEF Failure, Authenticated, odoo_execute, TypeOK
  <2>4. \/ Reply(w, 503, "unhealthy") \/ Reply(w, 200, "odoo error")
        \/ Reply(w, 200, "odoo") \/ Reply(w, 200, "healthy") \/ Post(w, "executing")
    BY <2>2 DEF Failure, Authenticated, odoo_execute
  <2>5. phase'[v] = phase[v] /\ wire'[v] = wire[v] /\ answer'[v] = answer[v]
    BY <1>1, <1>2, <2>4
  <2> QED BY <2>1, <2>3, <2>5
<1>6. CASE Exit(w) \/ Crash(w) \/ Spawn(w)
  BY <1>6 DEF Exit, Crash, Spawn, TypeOK
<1> QED BY <1>1, <1>2, <1>3, <1>4, <1>5, <1>6 DEF Exchange

LEMMA HealthInvNext == TypeOK /\ (\A w \in Workers : Local(w)) /\ HealthInv /\ [Next]_vars => HealthInv'
<1> SUFFICES ASSUME TypeOK, \A w \in Workers : Local(w), HealthInv, [Next]_vars,
                    NEW v \in Workers
             PROVE  Unproved(v)'
  BY DEF HealthInv
<1>1. Unproved(v) /\ Local(v)
  BY DEF HealthInv
<1>2. ASSUME NEW w \in Workers,
             \/ \E r \in Requests : Accept(w, r)
             \/ Exchange(w) \/ Exit(w) \/ Crash(w) \/ Spawn(w)
      PROVE  Unproved(v)'
  <2>1. CASE v # w
    BY <1>1, <1>2, <2>1, OthersStand, UnprovedStands
  <2>2. CASE v = w
    BY <1>1, <1>2, <2>2, AcceptUnproved, OdooUnproved, ReturnUnproved,
       ComingAndGoingUnproved DEF Exchange
  <2> QED BY <2>1, <2>2
<1>3. CASE Outage \/ Rotate \/ UNCHANGED vars
  BY <1>1, <1>3, UnprovedStands DEF Outage, Rotate, vars, server
<1> QED BY <1>2, <1>3 DEF Next

\* As a CGI program the server calls itself healthy only when Odoo has granted
\* its credentials during that very request, whatever breaks, is cut or is
\* answered by a front end.
THEOREM ServerCgiHealthIsLive == Spec => []CgiHealthIsLive
<1>1. Init => HealthInv
  BY DEF Init, HealthInv, Unproved, Wire, NoAnswer
<1>2. Inv => TypeOK /\ \A w \in Workers : Local(w)
  BY DEF Inv
<1>3. HealthInv => CgiHealthIsLive
  BY DEF HealthInv, Unproved, CgiHealthIsLive, HealthIsLive
<1> QED BY <1>1, <1>2, <1>3, HealthInvNext, InvAlways, PTL DEF Spec
=============================================================================
