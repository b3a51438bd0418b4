---------------------------- MODULE MCMcpServer ----------------------------
(* The documents of the runs, and the processes as a symmetric set.        *)
EXTENDS McpServer, TLC

Object(tokens) == <<OpenObject>> \o tokens \o <<CloseObject>>

RequestFor(method) ==
    Object(<<Str("id"), Num(1), Str("method"), Str(method)>>)

ToolCall(tool, arguments) ==
    Object(<<Str("method"), Str("tools/call"), Str("params")>>
             \o Object(<<Str("name"), Str(tool), Str("arguments")>> \o Object(arguments)))

Update ==
    ToolCall("update_record",
             <<Str("model"), Str("m1"),
               Str("record_ids"), OpenArray, Num(7), CloseArray,
               Str("values"), OpenObject, Str("f"), Num(1), Str("g"), Num(2), CloseObject>>)

MCDocuments == {"search", "update", "refused", "list", "notification", "invalid"}

MCTextOf ==
    [d \in MCDocuments |->
       CASE d = "search" -> ToolCall("search_read_records", <<Str("model"), Str("m1")>>)
         [] d = "update"       -> Update
         [] d = "refused"      -> ToolCall("update_record", <<Str("model"), Str("m1")>>)
         [] d = "list"         -> RequestFor("tools/list")
         [] d = "notification" -> Object(<<Str("method"), Str("notifications/initialized")>>)
         [] d = "invalid"      -> <<OpenArray, CloseArray>>]

\* The requests that reach Odoo.
CallDocuments == {"search", "update"}
CallTextOf == [d \in CallDocuments |-> MCTextOf[d]]

\* The update loses its second field and all closing brackets.
TightMax == Len(Update) - 5

CONSTANTS w1, w2
MCWorkers == {w1, w2}
Symmetry == Permutations(MCWorkers)
=============================================================================
