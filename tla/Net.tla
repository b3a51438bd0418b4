-------------------------------- MODULE Net --------------------------------
(***************************************************************************)
(* net_http_post (net.c) step by step: the URL, the socket, the TLS        *)
(* context, two writes, the read loop, the headers stripped off.  Each     *)
(* library call may fail, and each failure leaves by its own exit with     *)
(* whatever was acquired by then.                                          *)
(*                                                                         *)
(* The other side (Odoo, or the front end before it) reads a request of    *)
(* the announced length, answers once, and closes.  It has the patience of *)
(* a server without a timeout: with half a request it waits for the rest.  *)
(* Bytes are counted; what they say does not matter here.                  *)
(***************************************************************************)
EXTENDS Integers

CONSTANTS
    Urls,       \* [https, host, port, path]: the scheme, and lengths
    Addresses,  \* the most addresses a host name has
    BodySizes,  \* lengths of request bodies (blen)
    OutSizes,   \* sizes of the caller's buffer (olen)
    Answers,    \* [length, head]: all of the answer's bytes, and how many of
                \* them up to the blank line; head > length: there is none
    HostMax, PortMax, PathMax,  \* sizeof ParsedURL's fields
    HeadMax,    \* sizeof req, the buffer of the request head
    HeadFixed,  \* the head without path and host
    ReadBuf,    \* NET_READ_BUF
    RecordSize  \* bytes of one TLS record: tls_write may take no more

ASSUME UrlsAssumption ==
    Urls \subseteq [https : BOOLEAN, host : Nat, port : Nat, path : Nat]
ASSUME SizesAssumption ==
    /\ BodySizes \subseteq Nat /\ OutSizes \subseteq Nat \ {0}
    /\ Answers \subseteq [length : Nat, head : Nat \ {0}]
ASSUME BuffersAssumption ==
    /\ Addresses \in Nat /\ ReadBuf \in Nat \ {0, 1}
    /\ HostMax \in Nat \ {0} /\ PortMax \in Nat \ {0} /\ PathMax \in Nat \ {0, 1}
    /\ HeadFixed \in Nat /\ HeadMax \in Nat /\ RecordSize \in Nat
\* 4096 bytes of head always fit a record of 16384.
ASSUME RecordAssumption == HeadMax <= RecordSize

VARIABLES
    call,      \* the arguments: [url, body, out]
    pc,        \* the call that comes next, or "returned"
    addresses, \* entries of getaddrinfo's list not tried yet
    held,      \* what is acquired and not released: fd, cfg, ctx, rbuf
    misused,   \* something was released that was not held
    sent,      \* bytes handed to TLS: [head, body]
    peer,      \* the other side: "waiting", "answered", "closed"
    answer,    \* what it answers
    roff,      \* bytes in rbuf
    broken,    \* a read ended in an error
    result     \* what is returned, -1 until then

resources == <<held, misused>>
vars == <<call, pc, addresses, resources, sent, peer, answer, roff, broken, result>>

Steps ==
    {"parse_url", "getaddrinfo", "socket", "connect", "tls_config_new", "tls_client",
     "tls_configure", "tls_connect_socket", "head", "body", "malloc", "reading",
     "strip", "returned"}

Resources == {"fd", "cfg", "ctx", "rbuf"}
AtMost(n, bound) == IF n <= bound THEN n ELSE bound

\* parse_url's lengths are checked for host and port; a long path is cut.
ParsedPath(url) == IF url.path = 0 THEN 1 ELSE AtMost(url.path, PathMax - 1)
rlen == HeadFixed + ParsedPath(call.url) + call.url.host

TypeOK ==
    /\ call \in [url : Urls, body : BodySizes, out : OutSizes]
    /\ pc \in Steps
    /\ addresses \in 0..Addresses
    /\ held \subseteq Resources
    /\ misused \in BOOLEAN
    /\ sent \in [head : Nat, body : Nat]
    /\ peer \in {"waiting", "answered", "closed"}
    /\ answer \in Answers
    /\ roff \in Nat
    /\ broken \in BOOLEAN
    /\ result \in Int

Init ==
    /\ call \in [url : Urls, body : BodySizes, out : OutSizes]
    /\ pc = "parse_url"
    /\ addresses = 0
    /\ held = {} /\ misused = FALSE
    /\ sent = [head |-> 0, body |-> 0]
    /\ peer = "waiting" /\ answer \in Answers
    /\ roff = 0 /\ broken = FALSE
    /\ result = -1

----------------------------------------------------------------------------
(* Acquiring, releasing, returning *)

Goto(step) == pc' = step /\ UNCHANGED result

Acquire(r) ==
    /\ held' = held \cup {r}
    /\ misused' = (misused \/ r \in held)

Release(R) ==
    /\ held' = held \ R
    /\ misused' = (misused \/ ~(R \subseteq held))

Return(n) == pc' = "returned" /\ result' = n

\* The label "fail".
Fail == Release({"ctx", "cfg", "fd"}) /\ Return(-1)

\* What a call on the way to the first byte leaves alone.
Local == UNCHANGED <<call, sent, peer, answer, roff, broken>>

----------------------------------------------------------------------------
(* parse_url and tcp_connect *)

parse_url ==
    /\ pc = "parse_url"
    /\ IF call.url.https /\ call.url.host < HostMax /\ call.url.port < PortMax
         THEN Goto("getaddrinfo") ELSE Return(-1)
    /\ UNCHANGED <<addresses, resources>> /\ Local

getaddrinfo ==
    /\ pc = "getaddrinfo"
    /\ \/ Return(-1) /\ UNCHANGED addresses
       \/ Goto("socket") /\ addresses' \in 1..Addresses
    /\ UNCHANGED resources /\ Local

\* socket() for the next address; with none left the list is freed and
\* tcp_connect gives up.
socket ==
    /\ pc = "socket"
    /\ \/ /\ addresses = 0
          /\ Return(-1)
          /\ UNCHANGED <<addresses, resources>>
       \/ /\ addresses # 0
          /\ \/ Goto("socket") /\ UNCHANGED resources
             \/ Goto("connect") /\ Acquire("fd")
          /\ addresses' = addresses - 1
    /\ Local

\* Faulty variant: the socket of an address that refuses stays open.
Refused_StaysOpen == UNCHANGED resources

\* connect() failed: on with the next address.
Refused == Release({"fd"})

connect ==
    /\ pc = "connect"
    /\ \/ Goto("tls_config_new") /\ UNCHANGED resources
       \/ Goto("socket") /\ Refused
    /\ UNCHANGED addresses /\ Local

----------------------------------------------------------------------------
(* TLS *)

tls_config_new ==
    /\ pc = "tls_config_new"
    /\ \/ Goto("tls_client") /\ Acquire("cfg")
       \/ Release({"fd"}) /\ Return(-1)
    /\ UNCHANGED addresses /\ Local

tls_client ==
    /\ pc = "tls_client"
    /\ \/ Goto("tls_configure") /\ Acquire("ctx")
       \/ Release({"cfg", "fd"}) /\ Return(-1)
    /\ UNCHANGED addresses /\ Local

\* tls_configure, then the handshake of tls_connect_socket.
tls_setup(step, next) ==
    /\ pc = step
    /\ \/ Goto(next) /\ UNCHANGED resources
       \/ Fail
    /\ UNCHANGED addresses /\ Local

\* What tls_write may take of n bytes: all, or no more than a record.
tls_write(n) == {n, AtMost(n, RecordSize)}

\* snprintf of the head, its check, and the write of it.
WriteHead ==
    /\ pc = "head"
    /\ \/ /\ rlen < HeadMax
          /\ Goto(IF call.body = 0 THEN "malloc" ELSE "body")
          /\ \E k \in tls_write(rlen) : sent' = [sent EXCEPT !.head = k]
          /\ UNCHANGED resources
       \/ Fail /\ UNCHANGED sent
    /\ UNCHANGED <<call, addresses, peer, answer, roff, broken>>

\* Faulty variant: the body is sized by the head.
WriteBody_HeadLength ==
    /\ pc = "body"
    /\ \/ /\ Goto("malloc")
          /\ sent' = [sent EXCEPT !.body = AtMost(rlen, call.body)]
          /\ UNCHANGED resources
       \/ Fail /\ UNCHANGED sent
    /\ UNCHANGED <<call, addresses, peer, answer, roff, broken>>

\* The body is written once: what tls_write does not take is not sent.
WriteBody ==
    /\ pc = "body"
    /\ \/ /\ Goto("malloc")
          /\ \E k \in tls_write(call.body) : sent' = [sent EXCEPT !.body = k]
          /\ UNCHANGED resources
       \/ Fail /\ UNCHANGED sent
    /\ UNCHANGED <<call, addresses, peer, answer, roff, broken>>

malloc ==
    /\ pc = "malloc"
    /\ \/ Goto("reading") /\ Acquire("rbuf")
       \/ Fail
    /\ UNCHANGED addresses /\ Local

\* Bytes of the answer that can be read now.
Available == IF peer = "waiting" THEN 0 ELSE answer.length - roff

\* Faulty variant: no room is kept for the NUL.
Room_WholeBuffer == ReadBuf - roff

Room == ReadBuf - roff - 1

\* Faulty variant: one read is taken for the whole answer.
ReadBytes_Once ==
    /\ pc = "reading"
    /\ \E k \in 1..AtMost(Available, Room) : roff' = roff + k
    /\ Goto("strip")
    /\ UNCHANGED <<call, addresses, resources, sent, peer, answer, broken>>

\* tls_read has bytes.  The loop goes on while there is room.
ReadBytes ==
    /\ pc = "reading"
    /\ \E k \in 1..AtMost(Available, Room) :
         /\ roff' = roff + k
         /\ Goto(IF roff + k >= ReadBuf - 1 THEN "strip" ELSE "reading")
    /\ UNCHANGED <<call, addresses, resources, sent, peer, answer, broken>>

\* Faulty variant: a read of nothing is tried again.
ReadEnd_Repeats ==
    /\ pc = "reading"
    /\ peer = "closed" /\ Available = 0
    /\ Goto("reading")
    /\ UNCHANGED <<addresses, resources>> /\ Local

\* tls_read returns 0 at the end of the answer.
ReadEnd ==
    /\ pc = "reading"
    /\ peer = "closed" /\ Available = 0
    /\ Goto("strip")
    /\ UNCHANGED <<addresses, resources>> /\ Local

\* tls_read returns less than 0: the connection broke, or the call only asks to
\* be repeated (TLS_WANT_POLLIN).  Either ends the loop.
ReadError ==
    /\ pc = "reading"
    /\ Goto("strip")
    /\ broken' = TRUE
    /\ UNCHANGED <<call, addresses, resources, sent, peer, answer, roff>>

\* Faulty variant: the head is counted in.
resp_len_WithHead == AtMost(roff, call.out - 1)

resp_len == AtMost(roff - answer.head, call.out - 1)

\* The body behind the blank line is copied out; everything is released.
strip ==
    /\ pc = "strip"
    /\ Release({"rbuf", "ctx", "cfg", "fd"})
    /\ \/ answer.head <= roff /\ Return(resp_len)
       \/ answer.head > roff /\ Return(-1)
    /\ UNCHANGED addresses /\ Local

\* What goes on by itself; a connection need not break.
Progress ==
    \/ parse_url \/ getaddrinfo \/ socket \/ connect
    \/ tls_config_new \/ tls_client
    \/ tls_setup("tls_configure", "tls_connect_socket")
    \/ tls_setup("tls_connect_socket", "head")
    \/ WriteHead \/ WriteBody \/ malloc
    \/ ReadBytes \/ ReadEnd \/ strip

----------------------------------------------------------------------------
(* The other side.  What was sent reaches it even when the caller is gone. *)

WholeRequest == sent.head = rlen /\ sent.body = call.body

Answer ==
    /\ peer = "waiting" /\ WholeRequest
    /\ peer' = "answered"
    /\ UNCHANGED <<call, pc, addresses, resources, sent, answer, roff, broken, result>>

\* "Connection: close".
Close ==
    /\ peer = "answered" /\ peer' = "closed"
    /\ UNCHANGED <<call, pc, addresses, resources, sent, answer, roff, broken, result>>

Next == Progress \/ ReadError \/ Answer \/ Close

Spec == Init /\ [][Next]_vars

\* The process runs; the other side answers a whole request and closes.
FairSpec == Spec /\ WF_vars(Progress) /\ WF_vars(Answer) /\ WF_vars(Close)

----------------------------------------------------------------------------
(* Properties *)

\* On every way out of net_http_post, whichever call failed, each thing that
\* was acquired has been released, once: no socket, context or buffer leaks
\* over a long run of requests, none is freed twice.
CleanReturn == ~misused /\ (pc = "returned" => held = {})

\* Neither rbuf nor the caller's buffer is written behind its end: the NUL of
\* each has its place (rbuf[roff] and out[resp_len]).
BuffersHold == roff < ReadBuf /\ result < call.out

\* An answer that came in without a break is returned whole, up to what the two
\* buffers can hold; however tls_read cuts it into pieces.
WholeUnlessCut ==
    pc = "returned" /\ result >= 0 /\ ~broken =>
      result = AtMost(AtMost(answer.length, ReadBuf - 1) - answer.head, call.out - 1)

\* The process waits for the answer, the other side for the rest of the request.
BothWait == pc = "reading" /\ peer = "waiting" /\ ~WholeRequest

\* Returns the bytes written to out, or -1 on error (net.h 50): it is never
\* left waiting for a side that waits for it.
NeverStalls == ~BothWait

\* A body that fits one record is sent whole, so that only longer ones can
\* leave both sides waiting.
StallsOnlyOnLongBodies == BothWait => call.body > RecordSize

\* With such a body net_http_post returns, as soon as the other side answers
\* and closes.
PostReturns == call.body <= RecordSize ~> pc = "returned"

Promise ==
    INSTANCE Exchange WITH
      stage <- IF pc = "returned" THEN "returned" ELSE "posting",
      taken <- peer # "waiting",
      got   <- result,
      body  <- answer.length - answer.head

\* The steps of net_http_post keep the promise of one exchange: an error, or the
\* beginning of an answer given to the request, which is taken once at most.
IsExchange == Promise!Spec
=============================================================================
