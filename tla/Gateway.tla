------------------------------ MODULE Gateway ------------------------------
(***************************************************************************)
(* What the server promises the clients of its processes, with Odoo as no  *)
(* more than calls that are carried out or not: a request for a call leads *)
(* to that one call at most; a result is only told of a call that was      *)
(* carried out; a failure may be told of one that was, too; and only other *)
(* requests are answered by the server itself.                             *)
(***************************************************************************)
EXTENDS Sequences

CONSTANTS
    Processes,
    Requests,
    CallRequests,  \* the requests that ask for a call
    CallFor        \* the call that each of them asks for

VARIABLES
    stage,    \* "idle", "serving" or "gone"
    asked,    \* the request last taken
    carried,  \* the calls carried out for it
    told      \* what its client was told: "nothing", "own", "result", "failure"

vars == <<stage, asked, carried, told>>

Init ==
    /\ stage = [p \in Processes |-> "idle"]
    /\ asked \in [Processes -> Requests \ CallRequests]
    /\ carried = [p \in Processes |-> <<>>]
    /\ told = [p \in Processes |-> "nothing"]

\* A process that has answered takes the next request, or was there for one.
Answers(p, t) ==
    /\ told' = [told EXCEPT ![p] = t]
    /\ \E s \in {"idle", "gone"} : stage' = [stage EXCEPT ![p] = s]

Take(p, r) ==
    /\ stage[p] = "idle"
    /\ asked' = [asked EXCEPT ![p] = r]
    /\ carried' = [carried EXCEPT ![p] = <<>>]
    /\ \/ r \notin CallRequests /\ Answers(p, "own")
       \/ /\ stage' = [stage EXCEPT ![p] = "serving"]
          /\ told' = [told EXCEPT ![p] = "nothing"]

CarryOut(p) ==
    /\ stage[p] = "serving" /\ asked[p] \in CallRequests
    /\ carried[p] = <<>>
    /\ carried' = [carried EXCEPT ![p] = <<CallFor[asked[p]]>>]
    /\ UNCHANGED <<stage, asked, told>>

Tell(p) ==
    /\ stage[p] = "serving"
    /\ \/ Answers(p, "failure")
       \/ asked[p] \in CallRequests /\ carried[p] # <<>> /\ Answers(p, "result")
       \/ asked[p] \notin CallRequests /\ Answers(p, "own")
    /\ UNCHANGED <<asked, carried>>

Die(p) ==
    /\ stage[p] # "gone"
    /\ stage' = [stage EXCEPT ![p] = "gone"]
    /\ UNCHANGED <<asked, carried, told>>

Start(p) ==
    /\ stage[p] = "gone"
    /\ stage' = [stage EXCEPT ![p] = "idle"]
    /\ UNCHANGED <<asked, carried, told>>

Next ==
    \E p \in Processes :
      \/ \E r \in Requests : Take(p, r)
      \/ CarryOut(p)
      \/ Tell(p)
      \/ Die(p)
      \/ Start(p)

Spec == Init /\ [][Next]_vars
=============================================================================
