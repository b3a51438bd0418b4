----------------------------- MODULE McpServer -----------------------------
(***************************************************************************)
(* The server processes of main.c at work: each takes one HTTP request at  *)
(* a time, answers it by itself or through calls to Odoo, and caches the   *)
(* uid that odoo_auth obtained.  Under FastCGI a process serves requests   *)
(* until its parse fails; as a plain CGI program it serves one and exits.  *)
(*                                                                         *)
(* Odoo, its front end and the network are the environment.  One HTTPS     *)
(* exchange (net_http_post) is a message that is sent, handled by Odoo or  *)
(* answered by the front end, and delivered, cut short or lost.            *)
(***************************************************************************)
EXTENDS McpDispatch

CONSTANTS
    Workers,    \* server processes
    Documents,  \* the bodies clients post, by name
    TextOf,     \* their tokens
    ReqMax,     \* REQ_MAX, in tokens
    Uids,       \* the user ids Odoo may grant for the configured credentials
    Faults      \* what may go wrong beyond Odoo being down:
                \* "lost"   the connection breaks
                \* "cut"    the answer's body ends early
                \* "page"   the front end answers with an HTTP error page
                \* "refuse" Odoo refuses the call (access rights, validation)

ASSUME UidsAssumption == Uids \subseteq Nat \ {0}
ASSUME FaultsAssumption == Faults \subseteq {"lost", "cut", "page", "refuse"}
ASSUME DocumentsAssumption == "empty" \notin Documents

VARIABLES
    fcgi,     \* khttp_fcgi_init succeeded
    phase,    \* per process: "waiting" for a request, "authenticating" or
              \* "executing" in net_http_post, or "gone"
    request,  \* the request last accepted: [page, verb, body]
    uid,      \* OdooCtx.uid, 0 when not authenticated
    wire,     \* the exchange with Odoo: [kind, uid]
    answer,   \* the HTTP answer to that request: [status, content]
    done,     \* the calls Odoo has carried out for that request
    proved,   \* Odoo granted the credentials during that request
    account,  \* the uid Odoo grants the credentials now, 0 if it denies them
    up,       \* Odoo can be reached
    issued    \* every uid Odoo has granted

server == <<phase, request, uid, wire, answer>>
world  == <<account, up, issued>>
vars   == <<fcgi, server, done, proved, world>>

\* A request, as far as the handler of its page looks at it.
Request(page, verb, body) == [page |-> page, verb |-> verb, body |-> body]

Requests ==
    {Request(page, "GET", "empty") : page \in {"mcp", "healthz", "other"}}
      \cup {Request("mcp", "POST", body) : body \in Documents \cup {"empty"}}

Phases == {"waiting", "authenticating", "executing", "gone"}
Busy(w) == phase[w] \in {"authenticating", "executing"}

WireKinds == {"idle", "sent", "uid", "denied", "fault", "result", "page"}
Wire(kind, n) == [kind |-> kind, uid |-> n]

Contents ==
    {"none", "not found", "method not allowed", "empty body", "healthy", "unhealthy",
     "odoo", "odoo error"} \cup OutcomeKinds

Answers == [status : {0, 200, 204, 400, 404, 405, 503}, content : Contents]
NoAnswer == [status |-> 0, content |-> "none"]

\* What the server keeps of a body: one longer than its buffer loses its end.
Received(text) == IF Len(text) >= ReqMax THEN SubSeq(text, 1, ReqMax - 1) ELSE text

HandleOf == [d \in Documents |-> mcp_handle(Received(TextOf[d]))]

OutcomeOf(d) == HandleOf[d].kind
Calls == {HandleOf[d].call : d \in Documents}

\* The ranges of the variables.
TypeOK ==
    /\ fcgi \in BOOLEAN
    /\ phase \in [Workers -> Phases]
    /\ request \in [Workers -> Requests]
    /\ uid \in [Workers -> Nat]
    /\ wire \in [Workers -> [kind : WireKinds, uid : Nat]]
    /\ answer \in [Workers -> Answers]
    /\ done \in [Workers -> Seq(Calls)]
    /\ proved \in [Workers -> BOOLEAN]
    /\ account \in Uids \cup {0}
    /\ up \in BOOLEAN
    /\ issued \subseteq Uids

\* Every process has started: config and registry loaded, no uid.
Init ==
    /\ fcgi \in BOOLEAN
    /\ phase = [w \in Workers |-> "waiting"]
    /\ request = [w \in Workers |-> Request("other", "GET", "empty")]
    /\ uid = [w \in Workers |-> 0]
    /\ wire = [w \in Workers |-> Wire("idle", 0)]
    /\ answer = [w \in Workers |-> NoAnswer]
    /\ done = [w \in Workers |-> <<>>]
    /\ proved = [w \in Workers |-> FALSE]
    /\ account \in Uids
    /\ up \in BOOLEAN
    /\ issued = {}

----------------------------------------------------------------------------
(* Answers *)

\* Faulty variant: CGI goes on as well.
AfterReply_Loops == "waiting"

\* Back to khttp_fcgi_parse, or out of the loop: CGI serves one request.
AfterReply == IF fcgi THEN "waiting" ELSE "gone"

Reply(w, status, content) ==
    /\ phase' = [phase EXCEPT ![w] = AfterReply]
    /\ wire' = [wire EXCEPT ![w] = Wire("idle", 0)]
    /\ answer' = [answer EXCEPT ![w] = [status |-> status, content |-> content]]

\* net_http_post is entered for the given step of odoo_execute.
Post(w, step) ==
    /\ phase' = [phase EXCEPT ![w] = step]
    /\ wire' = [wire EXCEPT ![w] = Wire("sent", 0)]
    /\ answer' = [answer EXCEPT ![w] = NoAnswer]

----------------------------------------------------------------------------
(* Accepting a request: everything up to the first call to Odoo *)

\* handle_healthz: a cached uid is taken for health.
handle_healthz(w) ==
    IF uid[w] > 0 THEN Reply(w, 200, "healthy") ELSE Post(w, "authenticating")

\* handle_mcp, with mcp_handle in it, up to odoo_auth's own first line.
handle_mcp(w, verb, body) ==
    CASE verb # "POST" -> Reply(w, 405, "method not allowed")
      [] verb = "POST" /\ body = "empty" -> Reply(w, 400, "empty body")
      [] verb = "POST" /\ body # "empty" ->
           CASE OutcomeOf(body) = "call" ->
                  Post(w, IF uid[w] > 0 THEN "executing" ELSE "authenticating")
             [] OutcomeOf(body) = "silent" -> Reply(w, 204, "silent")
             [] OTHER -> Reply(w, 200, OutcomeOf(body))

Accept(w, r) ==
    /\ phase[w] = "waiting"
    /\ request' = [request EXCEPT ![w] = r]
    /\ done' = [done EXCEPT ![w] = <<>>]
    /\ proved' = [proved EXCEPT ![w] = FALSE]
    /\ CASE r.page = "mcp"     -> handle_mcp(w, r.verb, r.body)
         [] r.page = "healthz" -> handle_healthz(w)
         [] r.page = "other"   -> Reply(w, 404, "not found")
    /\ UNCHANGED <<fcgi, uid, world>>

----------------------------------------------------------------------------
(* Odoo, its front end and the network *)

Sent(w, step) == phase[w] = step /\ wire[w].kind = "sent"

\* authenticate answers with the account's uid, or with False.
OdooAuthenticates(w) ==
    /\ Sent(w, "authenticating") /\ up
    /\ wire' = [wire EXCEPT ![w] = IF account = 0 THEN Wire("denied", 0)
                                                   ELSE Wire("uid", account)]
    /\ proved' = [proved EXCEPT ![w] = account # 0]
    /\ issued' = issued \cup ({account} \ {0})
    /\ UNCHANGED <<fcgi, phase, request, uid, answer, done, account, up>>

CallOf(w) == HandleOf[request[w].body].call

\* execute_kw checks uid and key at every call, and then runs the method.
OdooExecutes(w) ==
    /\ Sent(w, "executing") /\ up
    /\ \/ /\ uid[w] = account
          /\ done' = [done EXCEPT ![w] = Append(@, CallOf(w))]
          /\ wire' = [wire EXCEPT ![w] = Wire("result", 0)]
       \/ /\ uid[w] # account \/ "refuse" \in Faults
          /\ wire' = [wire EXCEPT ![w] = Wire("fault", 0)]
          /\ UNCHANGED done
    /\ UNCHANGED <<fcgi, phase, request, uid, answer, proved, world>>

\* The front end gives up on Odoo, before or after Odoo has done its work.
FrontEndPage(w) ==
    /\ "page" \in Faults /\ Busy(w) /\ wire[w].kind # "page"
    /\ wire' = [wire EXCEPT ![w] = Wire("page", 0)]
    /\ UNCHANGED <<fcgi, phase, request, uid, answer, done, proved, world>>

----------------------------------------------------------------------------
(* net_http_post returns *)

\* Faulty variants: the error is stored as the uid; the call is tried again.
Failure_StoresError(w) ==
    /\ IF request[w].page = "healthz" THEN Reply(w, 503, "unhealthy")
                                      ELSE Reply(w, 200, "odoo error")
    /\ uid' = [uid EXCEPT ![w] = -1]

Failure_Retries(w) == Post(w, phase[w]) /\ UNCHANGED uid

\* odoo_auth ends without a uid, or odoo_execute with -1.  dispatch_tool makes
\* a text of it and no error.
Failure(w) ==
    /\ IF request[w].page = "healthz" THEN Reply(w, 503, "unhealthy")
                                      ELSE Reply(w, 200, "odoo error")
    /\ UNCHANGED uid

\* odoo_auth has read the integer n in the answer.
Authenticated(w, n) ==
    /\ uid' = [uid EXCEPT ![w] = n]
    /\ IF request[w].page = "healthz" THEN Reply(w, 200, "healthy")
                                      ELSE Post(w, "executing")

\* Faulty variants: an answer without a uid is taken for one; the check of the
\* sign is the wrong way round.
odoo_auth_AnyAnswer(w, n) == Authenticated(w, IF n > 0 THEN n ELSE 1)


\* xmlrpc_int_value, 0 without a tag, and the check of its sign.
odoo_auth(w, n) == IF n > 0 THEN Authenticated(w, n) ELSE Failure(w)

\* Faulty variant: a fault is passed on as the result.
odoo_execute_NoFaultCheck(w, fault) == Reply(w, 200, "odoo") /\ UNCHANGED uid

\* odoo_execute: whatever is no fault is the result.
odoo_execute(w, fault) ==
    IF fault THEN Failure(w) ELSE Reply(w, 200, "odoo") /\ UNCHANGED uid

Returns(w) ==
    /\ Busy(w)
    /\ UNCHANGED <<fcgi, request, done, proved, world>>

\* A refused or broken connection: net_http_post returns -1.
NetFails(w) ==
    /\ Returns(w)
    /\ ~up \/ "lost" \in Faults
    /\ Failure(w)

\* The answer arrives whole.
Deliver(w) ==
    /\ Returns(w)
    /\ wire[w].kind # "sent"
    /\ \/ phase[w] = "authenticating" /\ odoo_auth(w, wire[w].uid)
       \/ phase[w] = "executing" /\ odoo_execute(w, wire[w].kind = "fault")

\* What is left of the integer n, of ten digits at most, when the text ends
\* inside it or before it.
Prefixes(n) == {p \in 0..n : p = 0 \/ \E k \in 1..9 : p = n \div 10^k}

\* The connection breaks or the 64 KiB buffer is full inside the body:
\* tls_read's error ends the loop like an end of file.
DeliverCut(w) ==
    /\ Returns(w)
    /\ "cut" \in Faults /\ wire[w].kind # "sent"
    /\ \/ phase[w] = "authenticating" /\ \E p \in Prefixes(wire[w].uid) : odoo_auth(w, p)
       \/ phase[w] = "executing" /\ odoo_execute(w, FALSE)

----------------------------------------------------------------------------
(* Processes and accounts come and go *)

\* khttp_fcgi_parse fails: the loop ends.
Exit(w) ==
    /\ phase[w] = "waiting"
    /\ phase' = [phase EXCEPT ![w] = "gone"]
    /\ uid' = [uid EXCEPT ![w] = 0]
    /\ UNCHANGED <<fcgi, request, wire, answer, done, proved, world>>

\* The process is killed; what it had sent may still be carried out: the
\* crash comes before or after that step.
Crash(w) ==
    /\ Busy(w)
    /\ phase' = [phase EXCEPT ![w] = "gone"]
    /\ uid' = [uid EXCEPT ![w] = 0]
    /\ wire' = [wire EXCEPT ![w] = Wire("idle", 0)]
    /\ UNCHANGED <<fcgi, request, answer, done, proved, world>>

\* A new process, for the next CGI request or by the FastCGI manager.
Spawn(w) ==
    /\ phase[w] = "gone"
    /\ phase' = [phase EXCEPT ![w] = "waiting"]
    /\ uid' = [uid EXCEPT ![w] = 0]
    /\ UNCHANGED <<fcgi, request, wire, answer, done, proved, world>>

\* Odoo goes down and comes back.
Outage ==
    /\ up' = ~up
    /\ UNCHANGED <<fcgi, server, done, proved, account, issued>>

\* The key is revoked, or its user recreated.
Rotate ==
    /\ account' \in Uids \cup {0}
    /\ UNCHANGED <<fcgi, server, done, proved, up, issued>>

----------------------------------------------------------------------------

\* One exchange with Odoo goes on.
Exchange(w) ==
    \/ OdooAuthenticates(w)
    \/ OdooExecutes(w)
    \/ FrontEndPage(w)
    \/ NetFails(w)
    \/ Deliver(w)
    \/ DeliverCut(w)

Next ==
    \/ \E w \in Workers :
         \/ \E r \in Requests : Accept(w, r)
         \/ Exchange(w)
         \/ Exit(w)
         \/ Crash(w)
         \/ Spawn(w)
    \/ Outage
    \/ Rotate

Spec == Init /\ [][Next]_vars

----------------------------------------------------------------------------
(* Properties *)

\* odoo_auth returns a uid > 0 on success and -1 on failure (odoo.h:30): the
\* uid a process holds is one that Odoo has granted.
UidIssued == \A w \in Workers : uid[w] # 0 => uid[w] \in issued

\* Odoo carries out at most the one call that the process's request asks for,
\* whatever breaks between the two posts of a request (odoo_auth, odoo_execute).
OneCallPerRequest ==
    \A w \in Workers :
      done[w] # <<>> =>
        /\ request[w].body \in Documents /\ OutcomeOf(request[w].body) = "call"
        /\ done[w] = <<CallOf(w)>>

\* /healthz tests live Odoo authentication (containers/odoo-mcp.container:40):
\* a healthy answer means that Odoo granted the credentials while the request
\* was served.
HealthIsLive ==
    \A w \in Workers : answer[w].content = "healthy" => proved[w]

\* As a plain CGI program it does: there is no uid cached from before.
CgiHealthIsLive == fcgi \/ HealthIsLive

\* Odoo is up, the account stands, and no process holds another uid.
Settled ==
    up /\ account # 0 /\ \A w \in Workers : uid[w] \in {0, account}

\* A step in which something goes wrong that is not the server's doing.
Trouble ==
    \E w \in Workers :
      \/ FrontEndPage(w)
      \/ "lost" \in Faults /\ NetFails(w)
      \/ DeliverCut(w)
      \/ OdooExecutes(w) /\ uid[w] = account /\ done' = done

FailsFor(w) ==
    /\ Busy(w) /\ phase'[w] \notin {"authenticating", "executing"}
    /\ answer'[w].content \in {"odoo error", "unhealthy"}


----------------------------------------------------------------------------
(* The promise *)

CallRequests ==
    {r \in Requests : r.body \in Documents /\ OutcomeOf(r.body) = "call"}

ToldBy(content) ==
    CASE content = "none" -> "nothing"
      [] content = "odoo" -> "result"
      [] content \in {"odoo error", "unhealthy"} -> "failure"
      [] OTHER -> "own"

StageIn(p) ==
    CASE p = "waiting" -> "idle"
      [] p = "gone" -> "gone"
      [] OTHER -> "serving"

StageBar == [w \in Workers |-> StageIn(phase[w])]
ToldBar  == [w \in Workers |-> ToldBy(answer[w].content)]

Promise ==
    INSTANCE Gateway WITH
      Processes <- Workers,
      CallFor   <- [r \in CallRequests |-> HandleOf[r.body].call],
      stage     <- StageBar,
      asked     <- request,
      carried   <- done,
      told      <- ToldBar

\* The processes, their cached uids and the two posts of odoo_execute keep the
\* promise of Gateway: each call at most once, results only of calls carried
\* out, and no request for a call answered without Odoo.
KeepsPromise == Promise!Spec
=============================================================================
