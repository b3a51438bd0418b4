------------------------------ MODULE Requests ------------------------------
(***************************************************************************)
(* MCP requests a client composes, and what mcp_handle makes of them.  A   *)
(* request names a method, an id and a tool; its arguments are added one   *)
(* member at a time, in any order and also twice, and the members around   *)
(* them come in either order.                                              *)
(***************************************************************************)
EXTENDS McpDispatch

Means == INSTANCE JsonRpc

CONSTANTS
    Ids,        \* id tokens; NoId for a request without the member
    NoId,
    MethodNames,
    Tools,
    ArgumentMembers,  \* what arguments are made of: a name followed by the tokens of its value
    MaxArguments  \* bound on the arguments of one request

\* All is plain JSON: an id is a scalar, an argument a string and one value.
\* A limit and an offset are integers, as the tools' schemas say.
IsArgument(m) ==
    /\ m \in Seq(PlainTokens)
    /\ Len(m) > 1 /\ m[1].k = "string"
    /\ WellFormed(Tail(m))
    /\ m[1].v \in {"limit", "offset"} => m[2].k = "number" /\ m[2].num.form = "int"

ASSUME RequestAssumption ==
    /\ \A id \in Ids : id = NoId \/ (id \in PlainTokens /\ id.k \in Scalars \cup {"string"})
    /\ MethodNames \subseteq STRING /\ Tools \subseteq STRING
    /\ \A m \in ArgumentMembers : IsArgument(m)

VARIABLES
    rid, method, tool,
    arguments,  \* the tokens of the arguments added so far
    count,      \* how many they are
    flipped  \* params come before method, and arguments before name

vars == <<rid, method, tool, arguments, count, flipped>>

InOrder(a, b) == IF flipped THEN b \o a ELSE a \o b

\* The document that is posted.
Document ==
    LET args   == <<Str("arguments"), OpenObject>> \o arguments \o <<CloseObject>>
        params == <<Str("params"), OpenObject>>
                    \o InOrder(<<Str("name"), Str(tool)>>, args) \o <<CloseObject>>
    IN  <<OpenObject>>
          \o InOrder((IF rid = NoId THEN <<>> ELSE <<Str("id"), rid>>)
                       \o <<Str("method"), Str(method)>>, params)
          \o <<CloseObject>>

Request == JsonTree(Document)
Handled == mcp_handle(Document)

Init ==
    /\ rid \in Ids
    /\ method \in MethodNames
    /\ tool \in Tools
    /\ arguments = <<>>
    /\ count = 0
    /\ flipped \in BOOLEAN

\* Only a tools/call is looked at as far as its arguments.
AddArgument(member) ==
    /\ method = "tools/call"
    /\ count < MaxArguments
    /\ arguments' = arguments \o member
    /\ count' = count + 1
    /\ UNCHANGED <<rid, method, tool, flipped>>

Next == \E member \in ArgumentMembers : AddArgument(member)

Spec == Init /\ [][Next]_vars

----------------------------------------------------------------------------

\* What reaches Odoo is the call the request means: model, method, positional
\* and keyword arguments.  Every value goes from the request through a raw
\* scan into new JSON, which is read again and converted; names that recur
\* inside a domain or a values object are not mistaken for arguments.  Only a
\* number that an integer or six digits cannot hold is changed on the way, and
\* only a limit above the documented cap, which the code does not apply, is not
\* sent as it is meant.
CallIsMeant ==
    Handled.kind = "call" /\ NumbersFit(Document) /\ Means!WithinCap(Request)
      => XmlCall(Handled.call) = Means!Meaning(Request)

\* A complete request for a tool that reads or updates does reach Odoo,
\* whatever the order of its members.
CompleteCallsPlaced ==
    /\ method = "tools/call"
    /\ tool \in {"search_read_records", "get_model_fields", "update_record"}
    /\ Means!Complete(Request)
    => Handled.kind = "call"

\* An answer carries the id of its request, so that the client can tell
\* which of its requests is answered.
IdAnswered ==
    Handled.kind # "silent" => Leaf(Handled.id) = Means!AnswerId(Request)

\* create_record creates a record (README.md:18): a complete request for it
\* is placed with Odoo.
CreatePlaced ==
    method = "tools/call" /\ tool = "create_record" /\ Means!Complete(Request)
      => Handled.kind = "call"
=============================================================================
