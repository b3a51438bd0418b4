------------------------------ MODULE Exchange ------------------------------
(***************************************************************************)
(* What one net_http_post promises its caller (net.h 48): the other side   *)
(* takes the request once at most, before or after the caller has given    *)
(* up; the call ends in an error or in the beginning of an answer that the *)
(* other side gave, and only once it was given.  McpServer's step of one   *)
(* exchange (sent, answered, delivered whole, cut or lost) is this.        *)
(***************************************************************************)
EXTENDS Integers

VARIABLES
    stage,   \* "posting" or "returned"
    taken,   \* the other side has taken the whole request
    got,     \* bytes returned to the caller, -1 for an error or nothing yet
    body     \* the length of the answer's body, negative if it has none

vars == <<stage, taken, got, body>>

Init == stage = "posting" /\ taken = FALSE /\ got = -1 /\ body \in Int

Take ==
    /\ taken = FALSE /\ taken' = TRUE
    /\ UNCHANGED <<stage, got, body>>

ReturnError ==
    /\ stage = "posting" /\ stage' = "returned"
    /\ UNCHANGED <<taken, got, body>>

ReturnAnswer ==
    /\ stage = "posting" /\ stage' = "returned"
    /\ taken
    /\ got' \in 0..body
    /\ UNCHANGED <<taken, body>>

Next == Take \/ ReturnError \/ ReturnAnswer

Spec == Init /\ [][Next]_vars
=============================================================================
