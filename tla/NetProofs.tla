----------------------------- MODULE NetProofs -----------------------------
(***************************************************************************)
(* Proofs about Net, for every size of the buffers, any URLs and any       *)
(* answers: type correctness, what is released on the way out, the two     *)
(* buffers, whole answers, when both sides can wait for each other, and    *)
(* that the steps of net_http_post implement Exchange.  Three invariants   *)
(* rest on each other: what is held at each step, how far the request and  *)
(* the answer have come at each step, and what is returned.                *)
(***************************************************************************)
EXTENDS Net, TLAPS

\* What is held before each step.
HeldBefore(step) ==
    CASE step \in {"parse_url", "getaddrinfo", "socket", "returned"} -> {}
      [] step \in {"connect", "tls_config_new"} -> {"fd"}
      [] step = "tls_client" -> {"fd", "cfg"}
      [] step \in {"tls_configure", "tls_connect_socket", "head", "body", "malloc"}
           -> {"fd", "cfg", "ctx"}
      [] OTHER -> Resources

Holding == ~misused /\ held = HeldBefore(pc)

\* The steps after which the request's head, and its body, have been written.
HeadWritten == {"body", "malloc", "reading"}
BodyWritten == {"malloc", "reading"}
ReadingIsOver == {"strip", "returned"}

\* How far the request has come.
Writing ==
    /\ pc \in HeadWritten => sent.head = rlen /\ rlen < HeadMax
    /\ pc = "body" => sent.body = 0
    /\ pc \in {"head", "parse_url", "getaddrinfo", "socket", "connect", "tls_config_new",
               "tls_client", "tls_configure", "tls_connect_socket"} => sent.body = 0
    /\ pc \in BodyWritten /\ call.body <= RecordSize => sent.body = call.body

\* How far the answer has come, and what is made of it.
Receiving ==
    /\ roff < ReadBuf /\ roff <= answer.length
    /\ roff > 0 => peer # "waiting"
    /\ pc \notin ReadingIsOver => ~broken
    /\ pc = "strip" /\ ~broken => roff = AtMost(answer.length, ReadBuf - 1)

Returning ==
    /\ result < call.out
    /\ pc # "returned" => result = -1
    /\ WholeUnlessCut

----------------------------------------------------------------------------
(* Types *)

LEMMA RlenType ==
  ASSUME TypeOK PROVE rlen \in Nat
BY UrlsAssumption, SizesAssumption, BuffersAssumption DEF TypeOK, rlen, ParsedPath, AtMost

LEMMA TypeInit == Init => TypeOK
<1> SUFFICES ASSUME Init PROVE TypeOK
  OBVIOUS
<1>1. addresses \in 0..Addresses /\ roff \in Nat /\ result \in Int
  BY BuffersAssumption DEF Init
<1>2. sent \in [head : Nat, body : Nat]
  BY DEF Init
<1>3. pc \in Steps /\ peer \in {"waiting", "answered", "closed"}
  BY DEF Init, Steps
<1>4. misused \in BOOLEAN /\ broken \in BOOLEAN /\ held \subseteq Resources
  BY DEF Init
<1> QED BY <1>1, <1>2, <1>3, <1>4 DEF Init, TypeOK

\* The range of what the caller and the other side bring along.
LEMMA GivenTypes ==
  ASSUME TypeOK
  PROVE  /\ call.out \in Nat \ {0} /\ call.body \in Nat
         /\ answer.length \in Nat /\ answer.head \in Nat \ {0}
         /\ roff \in Nat /\ result \in Int
BY SizesAssumption DEF TypeOK

LEMMA ResourcesType ==
  ASSUME TypeOK, NEW r \in Resources, NEW R,
         Acquire(r) \/ Release(R) \/ UNCHANGED resources
  PROVE  held' \subseteq Resources /\ misused' \in BOOLEAN
<1>1. held \subseteq Resources /\ misused \in BOOLEAN
  BY DEF TypeOK
<1> QED BY <1>1 DEF Acquire, Release, resources

LEMMA TypeStep ==
  ASSUME TypeOK, [Next]_vars
  PROVE  TypeOK'
<1>1. held' \subseteq Resources /\ misused' \in BOOLEAN
  <2>1. \/ \E r \in Resources : Acquire(r)
        \/ \E R : Release(R)
        \/ UNCHANGED resources
    BY DEF Next, Progress, parse_url, getaddrinfo, socket, connect, Refused,
         tls_config_new, tls_client, tls_setup, WriteHead, WriteBody, malloc, ReadBytes,
         ReadEnd, ReadError, strip, Answer, Close, vars, Fail, Resources
  <2> QED BY <2>1, ResourcesType DEF Resources
<1>2. pc' \in Steps /\ addresses' \in 0..Addresses
  BY BuffersAssumption DEF TypeOK, Next, Progress, parse_url, getaddrinfo, socket, connect,
       tls_config_new, tls_client, tls_setup, WriteHead, WriteBody, malloc, ReadBytes,
       ReadEnd, ReadError, strip, Answer, Close, vars, Fail, Goto, Return, Steps
<1>3. sent' \in [head : Nat, body : Nat]
  <2>1. \A n \in Nat : tls_write(n) \subseteq Nat
    BY BuffersAssumption DEF tls_write, AtMost
  <2>2. call.body \in Nat
    BY GivenTypes
  <2>3. CASE WriteHead
    BY <2>1, <2>3, RlenType DEF WriteHead, TypeOK
  <2>4. CASE WriteBody
    BY <2>1, <2>2, <2>4 DEF WriteBody, TypeOK
  <2>5. CASE UNCHANGED sent
    BY <2>5 DEF TypeOK
  <2> QED
    BY <2>3, <2>4, <2>5
    DEF Next, Progress, parse_url, getaddrinfo, socket, connect, tls_config_new,
      tls_client, tls_setup, malloc, ReadBytes, ReadEnd, ReadError, strip, Answer, Close,
      vars, Local
<1>4. /\ call' \in [url : Urls, body : BodySizes, out : OutSizes]
      /\ peer' \in {"waiting", "answered", "closed"}
      /\ answer' \in Answers
  BY DEF TypeOK, Next, Progress, parse_url, getaddrinfo, socket, connect,
       tls_config_new, tls_client, tls_setup, WriteHead, WriteBody, malloc, ReadBytes,
       ReadEnd, ReadError, strip, Answer, Close, vars, Local
<1>5. roff' \in Nat
  BY DEF TypeOK, Next, Progress, parse_url, getaddrinfo, socket, connect,
       tls_config_new, tls_client, tls_setup, WriteHead, WriteBody, malloc, ReadBytes,
       ReadEnd, ReadError, strip, Answer, Close, vars, Local
<1>6. broken' \in BOOLEAN
  BY DEF TypeOK, Next, Progress, parse_url, getaddrinfo, socket, connect,
       tls_config_new, tls_client, tls_setup, WriteHead, WriteBody, malloc, ReadBytes,
       ReadEnd, ReadError, strip, Answer, Close, vars, Local
<1>7. result' \in Int
  <2>1. resp_len \in Int
    BY GivenTypes DEF resp_len, AtMost
  <2> QED
    BY <2>1
    DEF TypeOK, Next, Progress, parse_url, getaddrinfo, socket, connect, tls_config_new,
      tls_client, tls_setup, WriteHead, WriteBody, malloc, ReadBytes, ReadEnd, ReadError,
      strip, Answer, Close, vars, Fail, Goto, Return
<1> QED BY <1>1, <1>2, <1>3, <1>4, <1>5, <1>6, <1>7 DEF TypeOK

\* The variables keep their types through every step and failure.
THEOREM NetTypeOK == Spec => []TypeOK
BY TypeInit, TypeStep, PTL DEF Spec

----------------------------------------------------------------------------
(* What is held *)

LEMMA HeldValues ==
  /\ \A s \in {"parse_url", "getaddrinfo", "socket", "returned"} : HeldBefore(s) = {}
  /\ \A s \in {"connect", "tls_config_new"} : HeldBefore(s) = {"fd"}
  /\ HeldBefore("tls_client") = {"fd", "cfg"}
  /\ \A s \in {"tls_configure", "tls_connect_socket", "head", "body", "malloc"} :
       HeldBefore(s) = {"fd", "cfg", "ctx"}
  /\ \A s \in {"reading", "strip"} : HeldBefore(s) = {"fd", "cfg", "ctx", "rbuf"}
BY DEF HeldBefore, Resources

LEMMA HoldingInit == Init => Holding
BY HeldValues DEF Init, Holding

\* What is held where the step s says so may be released there.
LEMMA Releasing ==
  ASSUME Holding, NEW R, R = HeldBefore(pc), Release(R), pc' \in {"socket", "returned"}
  PROVE  Holding'
<1>1. ~misused' /\ held' = held \ R
  BY DEF Holding, Release
<1>2. held' = {}
  BY <1>1 DEF Holding
<1> QED BY <1>1, <1>2, HeldValues DEF Holding

LEMMA Acquiring ==
  ASSUME Holding, NEW r, r \notin HeldBefore(pc), Acquire(r),
         HeldBefore(pc') = HeldBefore(pc) \cup {r}
  PROVE  Holding'
BY DEF Holding, Acquire

LEMMA Keeping ==
  ASSUME Holding, UNCHANGED resources, HeldBefore(pc') = HeldBefore(pc)
  PROVE  Holding'
BY DEF Holding, resources

LEMMA Failing ==
  ASSUME Holding, Fail,
         pc \in {"tls_configure", "tls_connect_socket", "head", "body", "malloc"}
  PROVE  Holding'
<1>1. {"ctx", "cfg", "fd"} = HeldBefore(pc)
  BY HeldValues
<1> QED BY <1>1, Releasing DEF Fail, Return

LEMMA HoldingStep ==
  ASSUME TypeOK, Holding, [Next]_vars
  PROVE  Holding'
<1> USE DEF Goto, Return
<1>1. CASE parse_url
  BY <1>1, Keeping, HeldValues DEF parse_url, resources
<1>2. CASE getaddrinfo
  BY <1>2, Keeping, HeldValues DEF getaddrinfo, resources
<1>3. CASE socket
  <2>1. CASE UNCHANGED resources /\ pc' \in {"socket", "returned"}
    BY <1>3, <2>1, Keeping, HeldValues DEF socket
  <2>2. CASE Acquire("fd") /\ pc' = "connect"
    BY <1>3, <2>2, Acquiring, HeldValues DEF socket
  <2> QED BY <1>3, <2>1, <2>2 DEF socket, resources
<1>4. CASE connect
  <2>1. CASE UNCHANGED resources /\ pc' = "tls_config_new"
    BY <1>4, <2>1, Keeping, HeldValues DEF connect
  <2>2. CASE Release({"fd"}) /\ pc' = "socket"
    BY <1>4, <2>2, Releasing, HeldValues DEF connect
  <2> QED BY <1>4, <2>1, <2>2 DEF connect, Refused
<1>5. CASE tls_config_new
  <2>1. CASE Acquire("cfg") /\ pc' = "tls_client"
    BY <1>5, <2>1, Acquiring, HeldValues DEF tls_config_new
  <2>2. CASE Release({"fd"}) /\ pc' = "returned"
    BY <1>5, <2>2, Releasing, HeldValues DEF tls_config_new
  <2> QED BY <1>5, <2>1, <2>2 DEF tls_config_new
<1>6. CASE tls_client
  <2>1. CASE Acquire("ctx") /\ pc' = "tls_configure"
    BY <1>6, <2>1, Acquiring, HeldValues DEF tls_client
  <2>2. CASE Release({"cfg", "fd"}) /\ pc' = "returned"
    <3>1. {"cfg", "fd"} = HeldBefore(pc)
      BY <1>6, HeldValues DEF tls_client
    <3> QED BY <2>2, <3>1, Releasing
  <2> QED BY <1>6, <2>1, <2>2 DEF tls_client
<1>7. CASE \/ tls_setup("tls_configure", "tls_connect_socket")
           \/ tls_setup("tls_connect_socket", "head")
  BY <1>7, Keeping, Failing, HeldValues DEF tls_setup
<1>8. CASE WriteHead
  BY <1>8, Keeping, Failing, HeldValues DEF WriteHead
<1>9. CASE WriteBody
  BY <1>9, Keeping, Failing, HeldValues DEF WriteBody
<1>10. CASE malloc
  <2>1. CASE Acquire("rbuf") /\ pc' = "reading"
    <3>1. HeldBefore(pc') = HeldBefore(pc) \cup {"rbuf"} /\ "rbuf" \notin HeldBefore(pc)
      BY <1>10, <2>1, HeldValues DEF malloc
    <3> QED BY <2>1, <3>1, Acquiring
  <2> QED BY <1>10, <2>1, Failing DEF malloc
<1>11. CASE ReadBytes
  BY <1>11, Keeping, HeldValues DEF ReadBytes
<1>12. CASE ReadEnd \/ ReadError
  BY <1>12, Keeping, HeldValues DEF ReadEnd, ReadError, resources
<1>13. CASE strip
  <2>1. {"rbuf", "ctx", "cfg", "fd"} = HeldBefore(pc)
    BY <1>13, HeldValues DEF strip
  <2> QED BY <1>13, <2>1, Releasing DEF strip
<1>14. CASE Answer \/ Close \/ UNCHANGED vars
  BY <1>14, Keeping DEF Answer, Close, vars
<1> QED
  BY <1>1, <1>2, <1>3, <1>4, <1>5, <1>6, <1>7, <1>8, <1>9, <1>10, <1>11, <1>12, <1>13,
     <1>14 DEF Next, Progress

\* Whichever call fails, everything acquired is released once.
THEOREM NetCleanReturn == Spec => []CleanReturn
<1>1. Holding => CleanReturn
  BY DEF Holding, HeldBefore, CleanReturn
<1> QED BY <1>1, HoldingInit, HoldingStep, TypeInit, TypeStep, PTL DEF Spec

----------------------------------------------------------------------------
(* What comes in, and what is returned *)

\* Every step either leaves the answer and what is read of it alone, or is a
\* step of the read loop or of the other side.
LEMMA BeforeReading ==
  ASSUME TypeOK, [Next]_vars, ~ReadBytes, ~ReadError, ~Answer, ~Close
  PROVE  UNCHANGED <<call, peer, answer, roff, broken>>
BY DEF Next, Progress, parse_url, getaddrinfo, socket, connect, tls_config_new,
     tls_client, tls_setup, WriteHead, WriteBody, malloc, ReadEnd, strip, vars, Local

LEMMA ReceivingInit == Init => Receiving
<1> SUFFICES ASSUME Init PROVE Receiving
  OBVIOUS
<1>1. answer.length \in Nat
  BY TypeInit, GivenTypes
<1> QED BY <1>1, BuffersAssumption DEF Init, Receiving, ReadingIsOver

LEMMA ReceivingStep ==
  ASSUME TypeOK, Receiving, [Next]_vars
  PROVE  Receiving'
<1>1. ReadBuf \in Nat \ {0, 1}
  BY BuffersAssumption
<1>2. CASE ReadBytes
  <2>1. PICK k \in 1..AtMost(Available, Room) :
          /\ roff' = roff + k
          /\ pc' = IF roff + k >= ReadBuf - 1 THEN "strip" ELSE "reading"
    BY <1>2 DEF ReadBytes, Goto
  <2>2. peer # "waiting" /\ k \in Nat \ {0} /\ roff + k <= answer.length /\ roff + k <= ReadBuf - 1
    BY <1>1, <2>1, GivenTypes DEF AtMost, Available, Room, Receiving
  <2>3. UNCHANGED <<peer, answer, broken>> /\ ~broken
    BY <1>2 DEF ReadBytes, Receiving, ReadingIsOver
  <2> QED
    BY <1>1, <2>1, <2>2, <2>3, GivenTypes DEF Receiving, AtMost, ReadingIsOver
<1>3. CASE ReadError
  BY <1>3 DEF ReadError, Receiving, ReadingIsOver, Goto
<1>4. CASE Answer \/ Close
  BY <1>4 DEF Answer, Close, Receiving
<1>5. CASE ReadEnd
  <2>1. roff = answer.length /\ peer # "waiting"
    BY <1>5, GivenTypes DEF ReadEnd, Available
  <2> QED
    BY <1>1, <1>5, <2>1, GivenTypes
    DEF ReadEnd, Local, Goto, Receiving, AtMost, ReadingIsOver
<1>6. CASE ~ReadBytes /\ ~ReadError /\ ~Answer /\ ~Close /\ ~ReadEnd
  <2>1. UNCHANGED <<peer, answer, roff, broken>>
    BY <1>6, BeforeReading
  <2>2. pc' = "strip" => pc = "strip"
    BY <1>6
    DEF Next, Progress, parse_url, getaddrinfo, socket, connect, tls_config_new,
      tls_client, tls_setup, WriteHead, WriteBody, malloc, strip, vars, Goto, Return, Fail
  <2>3. pc' \notin ReadingIsOver => pc \notin ReadingIsOver
    BY <1>6
    DEF Next, Progress, parse_url, getaddrinfo, socket, connect, tls_config_new,
      tls_client, tls_setup, WriteHead, WriteBody, malloc, strip, vars, Goto, Return, Fail,
      ReadingIsOver
  <2> QED BY <2>1, <2>2, <2>3 DEF Receiving
<1> QED BY <1>2, <1>3, <1>4, <1>5, <1>6

LEMMA ReturningInit == Init => Returning
<1> SUFFICES ASSUME Init PROVE Returning
  OBVIOUS
<1>1. call.out \in Nat
  BY TypeInit, GivenTypes
<1> QED BY <1>1 DEF Init, Returning, WholeUnlessCut

\* Only the last step returns anything but an error.
LEMMA OtherReturns ==
  ASSUME TypeOK, Returning, [Next]_vars, ~strip
  PROVE  /\ pc' # "returned" => result' = result /\ pc # "returned"
         /\ pc' = "returned" => result' = -1 \/ UNCHANGED <<pc, result, call, answer, roff, broken>>
BY DEF Returning, Next, Progress, parse_url, getaddrinfo, socket, connect, tls_config_new,
     tls_client, tls_setup, WriteHead, WriteBody, malloc, ReadBytes, ReadEnd, ReadError,
     Answer, Close, vars, Goto, Return, Fail

LEMMA ReturningStep ==
  ASSUME TypeOK, Receiving, Returning, [Next]_vars
  PROVE  Returning'
<1>1. UNCHANGED <<call, answer>>
  BY DEF Next, Progress, parse_url, getaddrinfo, socket, connect, tls_config_new,
       tls_client, tls_setup, WriteHead, WriteBody, malloc, ReadBytes, ReadEnd, ReadError,
       strip, Answer, Close, vars, Local
<1>2. CASE strip
  <2>1. pc = "strip" /\ pc' = "returned" /\ UNCHANGED <<roff, broken>>
    BY <1>2 DEF strip, Return, Local
  <2>2. CASE answer.head <= roff /\ result' = resp_len
    BY <1>1, <2>1, <2>2, GivenTypes, BuffersAssumption
    DEF Returning, Receiving, WholeUnlessCut, resp_len, AtMost
  <2>3. CASE result' = -1
    BY <1>1, <2>1, <2>3, GivenTypes DEF Returning, WholeUnlessCut
  <2> QED BY <1>2, <2>2, <2>3 DEF strip, Return
<1>3. CASE ~strip
  BY <1>1, <1>3, OtherReturns, GivenTypes DEF Returning, WholeUnlessCut
<1> QED BY <1>2, <1>3

LEMMA ReceivingAlways == Spec => [](TypeOK /\ Receiving /\ Returning)
BY TypeInit, ReceivingInit, ReturningInit, TypeStep, ReceivingStep, ReturningStep, PTL
DEF Spec

\* Neither buffer is written behind its end, however the answer comes in and
\* whatever its length.
THEOREM NetBuffersHold == Spec => []BuffersHold
<1>1. Receiving /\ Returning => BuffersHold
  BY DEF Receiving, Returning, BuffersHold
<1> QED BY <1>1, ReceivingAlways, PTL

\* An answer that came in without a break is returned as far as the buffers go.
THEOREM NetWholeUnlessCut == Spec => []WholeUnlessCut
<1>1. Returning => WholeUnlessCut
  BY DEF Returning
<1> QED BY <1>1, ReceivingAlways, PTL

----------------------------------------------------------------------------
(* What goes out *)

LEMMA WritingInit == Init => Writing
BY DEF Init, Writing, HeadWritten, BodyWritten

\* A record holds the whole head.
LEMMA HeadInOneRecord ==
  ASSUME TypeOK, rlen < HeadMax
  PROVE  tls_write(rlen) = {rlen}
<1>1. rlen \in Nat /\ HeadMax \in Nat /\ RecordSize \in Nat
  BY RlenType, BuffersAssumption
<1>2. rlen <= RecordSize
  BY <1>1, RecordAssumption
<1> QED BY <1>1, <1>2 DEF tls_write, AtMost

LEMMA RlenStays ==
  ASSUME [Next]_vars
  PROVE  UNCHANGED call /\ rlen' = rlen
<1>1. UNCHANGED call
  BY DEF Next, Progress, parse_url, getaddrinfo, socket, connect, tls_config_new,
       tls_client, tls_setup, WriteHead, WriteBody, malloc, ReadBytes, ReadEnd, ReadError,
       strip, Answer, Close, vars, Local
<1> QED BY <1>1 DEF rlen, ParsedPath

LEMMA WritingStep ==
  ASSUME TypeOK, Writing, [Next]_vars
  PROVE  Writing'
<1>1. UNCHANGED call /\ rlen' = rlen
  BY RlenStays
<1>2. CASE WriteHead
  <2>1. CASE pc' = "returned"
    BY <2>1 DEF Writing, HeadWritten, BodyWritten
  <2>2. CASE pc' # "returned"
    <3>1. rlen < HeadMax /\ pc' = (IF call.body = 0 THEN "malloc" ELSE "body")
      BY <1>2, <2>2 DEF WriteHead, Goto, Fail, Return
    <3>2. PICK k \in tls_write(rlen) : sent' = [sent EXCEPT !.head = k]
      BY <1>2, <2>2 DEF WriteHead, Fail, Return
    <3>3. sent'.head = rlen /\ sent'.body = sent.body
      BY <3>1, <3>2, HeadInOneRecord DEF TypeOK
    <3>4. sent.body = 0
      BY <1>2 DEF WriteHead, Writing
    <3> QED BY <1>1, <3>1, <3>3, <3>4 DEF Writing, HeadWritten, BodyWritten
  <2> QED BY <2>1, <2>2
<1>3. CASE WriteBody
  <2>1. CASE pc' = "returned"
    BY <2>1 DEF Writing, HeadWritten, BodyWritten
  <2>2. CASE pc' # "returned"
    <3>1. pc' = "malloc" /\ pc = "body"
      BY <1>3, <2>2 DEF WriteBody, Goto, Fail, Return
    <3>2. PICK k \in tls_write(call.body) : sent' = [sent EXCEPT !.body = k]
      BY <1>3, <2>2 DEF WriteBody, Fail, Return
    <3>3. sent'.head = sent.head /\ sent'.body = k
      BY <3>2 DEF TypeOK
    <3>4. call.body <= RecordSize => k = call.body
      BY <3>2, GivenTypes, BuffersAssumption DEF tls_write, AtMost
    <3> QED BY <1>1, <3>1, <3>3, <3>4 DEF Writing, HeadWritten, BodyWritten
  <2> QED BY <2>1, <2>2
<1>4. CASE ~WriteHead /\ ~WriteBody
  <2>1. UNCHANGED sent
    BY <1>4
    DEF Next, Progress, parse_url, getaddrinfo, socket, connect, tls_config_new,
      tls_client, tls_setup, malloc, ReadBytes, ReadEnd, ReadError, strip, Answer, Close,
      vars, Local
  <2>2. /\ pc' \in HeadWritten => pc \in HeadWritten
        /\ pc' \in BodyWritten => pc \in BodyWritten
        /\ pc' = "body" => pc = "body"
        /\ pc' \in Steps /\ pc' \notin HeadWritten \cup ReadingIsOver
             => pc \notin HeadWritten \cup ReadingIsOver
    BY <1>4
    DEF Next, Progress, parse_url, getaddrinfo, socket, connect, tls_config_new,
      tls_client, tls_setup, malloc, ReadBytes, ReadEnd, ReadError, strip, Answer, Close,
      vars, Goto, Return, Fail, HeadWritten, BodyWritten, ReadingIsOver
  <2>3. pc \in Steps
    BY DEF TypeOK
  <2> QED
    BY <1>1, <2>1, <2>2, <2>3 DEF Writing, Steps, HeadWritten, BodyWritten, ReadingIsOver
<1> QED BY <1>2, <1>3, <1>4

\* Both sides wait for each other only over a body of more than a record,
\* whatever the sizes.
THEOREM NetStallsOnlyOnLongBodies == Spec => []StallsOnlyOnLongBodies
<1>1. TypeOK /\ Writing => StallsOnlyOnLongBodies
  <2> SUFFICES ASSUME TypeOK, Writing, BothWait PROVE call.body > RecordSize
    BY DEF StallsOnlyOnLongBodies
  <2>1. sent.head = rlen /\ (call.body <= RecordSize => sent.body = call.body)
    BY DEF BothWait, Writing, HeadWritten, BodyWritten
  <2> QED
    BY <2>1, GivenTypes, BuffersAssumption DEF BothWait, WholeRequest
<1> QED BY <1>1, WritingInit, WritingStep, TypeInit, TypeStep, PTL DEF Spec

----------------------------------------------------------------------------
(* The promise of one exchange *)

LEMMA ExchangeInit == Init => Promise!Init
<1> SUFFICES ASSUME Init PROVE Promise!Init
  OBVIOUS
<1>1. answer.length - answer.head \in Int
  BY TypeInit, GivenTypes
<1> QED BY <1>1 DEF Init, Promise!Init

LEMMA ExchangeStep ==
  ASSUME TypeOK, Receiving, Returning, [Next]_vars
  PROVE  [Promise!Next]_(Promise!vars)
<1>1. CASE strip
  <2>1. pc = "strip" /\ pc' = "returned" /\ UNCHANGED <<peer, answer, roff>>
    BY <1>1 DEF strip, Return, Local
  <2>2. result = -1
    BY <2>1 DEF Returning
  <2>3. CASE answer.head <= roff /\ result' = resp_len
    <3>1. peer # "waiting" /\ resp_len \in 0..(answer.length - answer.head)
      BY <2>3, GivenTypes DEF Receiving, resp_len, AtMost
    <3> QED BY <2>1, <2>3, <3>1 DEF Promise!Next, Promise!ReturnAnswer
  <2>4. CASE result' = -1
    BY <2>1, <2>2, <2>4 DEF Promise!Next, Promise!ReturnError
  <2> QED BY <1>1, <2>3, <2>4 DEF strip, Return
<1>2. CASE Answer
  BY <1>2 DEF Answer, Promise!Next, Promise!Take
<1>3. CASE Close
  BY <1>3 DEF Close, Promise!vars
<1>4. CASE ~strip /\ ~Answer /\ ~Close
  <2>1. UNCHANGED <<peer, answer>>
    BY <1>4
    DEF Next, Progress, parse_url, getaddrinfo, socket, connect, tls_config_new,
      tls_client, tls_setup, WriteHead, WriteBody, malloc, ReadBytes, ReadEnd, ReadError,
      vars, Local
  <2>2. CASE pc' # "returned"
    BY <1>4, <2>1, <2>2, OtherReturns DEF Promise!vars
  <2>3. CASE pc' = "returned" /\ pc # "returned"
    <3>1. result' = result
      BY <1>4, <2>3, OtherReturns DEF Returning
    <3> QED BY <2>1, <2>3, <3>1 DEF Promise!Next, Promise!ReturnError
  <2>4. CASE pc' = "returned" /\ pc = "returned"
    <3>1. UNCHANGED result
      BY <1>4, <2>4
      DEF Next, Progress, parse_url, getaddrinfo, socket, connect, tls_config_new,
        tls_client, tls_setup, WriteHead, WriteBody, malloc, ReadBytes, ReadEnd, ReadError,
        vars
    <3> QED BY <2>1, <2>4, <3>1 DEF Promise!vars
  <2> QED BY <2>2, <2>3, <2>4
<1> QED BY <1>1, <1>2, <1>3, <1>4

\* The steps of net_http_post keep the promise that the server builds on, for
\* every size and every way the calls may fail.
THEOREM NetIsExchange == Spec => IsExchange
<1>1. TypeOK /\ Receiving /\ Returning /\ [Next]_vars => [Promise!Next]_(Promise!vars)
  BY ExchangeStep
<1> QED BY <1>1, ExchangeInit, ReceivingAlways, PTL DEF Spec, IsExchange, Promise!Spec
=============================================================================
