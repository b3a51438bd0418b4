------------------------------ MODULE JsonRpc ------------------------------
(***************************************************************************)
(* What an MCP request means, by the tree of its document: which call a    *)
(* tools/call asks for, and what id its answer must carry.  The reference  *)
(* for mcp.c, which never builds that tree.  As in every JSON reader that  *)
(* keeps the last of two equal names, a repeated member overrides.         *)
(***************************************************************************)
EXTENDS Json

Absent == <<"absent">>

IsObject(tree) == tree[1] = "struct"
IsString(tree) == tree[1] = "string"

\* The value of the last of an object's members at these places.
LastOf(object, places) ==
    IF places = {} THEN Absent
    ELSE object[2][CHOOSE i \in places : \A j \in places : j <= i][3]

Named(object, name) ==
    {i \in 1..Len(object[2]) : object[2][i][1] = name /\ object[2][i][2] = 0}

\* The value of the last member of an object that has this (plain) name.
Member(object, name) == LastOf(object, Named(object, name))

\* A "model" counts only as a string: one of another kind overrides nothing.
Model(object) ==
    LastOf(object, {i \in Named(object, "model") : IsString(object[2][i][3])})

Or(tree, default) == IF tree = Absent THEN default ELSE tree

EmptyObject == <<"struct", <<>>>>
Text(s)     == <<"string", s, 0>>
Array(items) == <<"array", items>>
Pair(name, tree) == <<name, 0, tree>>

Method(request) == Member(request, "method")
Params(request) == Member(request, "params")

Arguments(request) ==
    LET a == Member(Params(request), "arguments")
    IN  IF a # Absent /\ IsObject(a) THEN a ELSE EmptyObject

\* The tool a request names, or Absent.
Tool(request) ==
    IF Method(request) = Text("tools/call") /\ Params(request) # Absent
         /\ IsObject(Params(request))
    THEN Member(Params(request), "name")
    ELSE Absent

\* The largest limit of a search (docs/index.html:301).
LimitCap == 500

Capped(limit) ==
    IF limit[2] = "int" /\ limit[3] > LimitCap THEN <<"number", "int", LimitCap>> ELSE limit

\* The Odoo call a tool stands for, over the arguments a.
Meaning(request) ==
    LET a == Arguments(request)
        Arg(name, default) == Or(Member(a, name), default)
        Empty  == Array(<<>>)
        order  == Member(a, "order")
        search == <<Pair("fields", Arg("fields", Array(<<Text("id"), Text("name")>>))),
                    Pair("limit", Capped(Arg("limit", <<"number", "int", 80>>))),
                    Pair("offset", Arg("offset", <<"number", "int", 0>>))>>
        DoCall(method, args, kwargs) ==
          [model |-> Model(a)[2], method |-> method,
           args |-> Array(args), kwargs |-> <<"struct", kwargs>>]
    IN  CASE Tool(request) = Text("search_read_records") ->
               DoCall("search_read", <<Arg("domain", Empty)>>,
                      IF order # Absent /\ IsString(order)
                      THEN Append(search, Pair("order", order)) ELSE search)
          [] Tool(request) = Text("get_model_fields") ->
               DoCall("fields_get", <<Empty>>,
                      <<Pair("attributes",
                             Arg("attributes",
                                 Array(<<Text("string"), Text("type"), Text("required")>>)))>>)
          [] Tool(request) = Text("create_record") ->
               DoCall("create", <<Member(a, "values")>>, <<>>)
          [] Tool(request) = Text("update_record") ->
               DoCall("write", <<Member(a, "record_ids"), Member(a, "values")>>, <<>>)

\* The request names a model and, for the tools that write, what to write:
\* values in an object that is not empty, and the records to update.
Complete(request) ==
    LET a      == Arguments(request)
        values == Member(a, "values")
    IN  /\ Model(a) # Absent
        /\ Tool(request) \in {Text("create_record"), Text("update_record")} =>
             values # Absent /\ IsObject(values) /\ values # EmptyObject
        /\ Tool(request) = Text("update_record") => Member(a, "record_ids") # Absent

\* The request asks for no more records than the cap allows.
WithinCap(request) ==
    LET limit == Member(Arguments(request), "limit")
    IN  limit # Absent => Capped(limit) = limit

\* What the answer's id must be: the request's own, if that is a number or a
\* string, and null otherwise.
AnswerId(request) ==
    LET id == Member(request, "id")
    IN  IF id[1] \in {"number", "string"} THEN id ELSE <<"nil">>
=============================================================================
