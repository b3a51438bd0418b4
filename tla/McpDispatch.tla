---------------------------- MODULE McpDispatch ----------------------------
(***************************************************************************)
(* mcp.c: what the server makes of one request document.  mcp_handle reads *)
(* the document with the cursor and either answers by itself or calls      *)
(* odoo_execute; "outcome" is that decision, a pure function of the        *)
(* document.  What the Odoo call then does is McpServer's.                 *)
(***************************************************************************)
EXTENDS XmlRpc, FiniteSets

\* sj_eq(v, s): the text of the value, whatever its kind, is exactly s.
sj_eq(doc, v, s) == doc[v.start].v = s /\ doc[v.start].esc = 0

NullValue == Value("null", 0, 0)

\* The value the loop over the members leaves in a local that the members at
\* these places are assigned to: the last one's, and null without one.
LastOf(members, places) ==
    IF places = {} THEN NullValue
    ELSE members[CHOOSE i \in places : \A j \in places : j <= i].val

Named(doc, members, name) == {i \in 1..Len(members) : sj_eq(doc, members[i].key, name)}

\* Faulty variant: the first member so named wins.
Field_First(doc, members, name) ==
    LET places == Named(doc, members, name)
    IN  IF places = {} THEN NullValue
        ELSE members[CHOOSE i \in places : \A j \in places : i <= j].val

\* The value of the last member so named: each loop over members assigns a
\* local again whenever the name comes again.
Field(doc, members, name) == LastOf(members, Named(doc, members, name))

\* Only a string counts as the model.
ModelField(doc, members) ==
    LastOf(members, {i \in Named(doc, members, "model") : members[i].val.type = "string"})

\* have_domain, have_fields, ...
Have(v) == v.start # 0

----------------------------------------------------------------------------
(* Copying values of the request into new JSON *)

\* jbuf_sj_str escapes quotes and backslashes of a text that has them escaped
\* already, so every escape sequence gains a layer.
jbuf_sj_str(token) == [token EXCEPT !.esc = IF @ = 0 THEN 0 ELSE @ + 1]

\* The end of a raw scan from token i that counts some kinds of brackets: the
\* bracket that brings the count back to zero, or the end of the text.
Balance(doc, i, opening, closing) ==
    LET Count(j, kinds) == Cardinality({m \in i..j : doc[m].k \in kinds})
        Balanced == {j \in i..Len(doc) : Count(j, opening) = Count(j, closing)}
    IN  IF Balanced = {} THEN Len(doc)
        ELSE CHOOSE j \in Balanced : \A k \in Balanced : j <= k

\* Faulty variant: only braces are counted.
ClosingAt_Braces(doc, i) == Balance(doc, i, {"object"}, {"endobject"})

\* sj_value_to_json's raw scan from an opening bracket counts both kinds alike.
ClosingAt(doc, i) == Balance(doc, i, Openings, Closings)

sj_value_to_json(doc, v) ==
    CASE v.type \in Openings -> SubSeq(doc, v.start, ClosingAt(doc, v.start))
      [] v.type = "string"   -> <<jbuf_sj_str(doc[v.start])>>
      [] v.type \in {"number", "bool"} -> <<doc[v.start]>>
      [] OTHER -> <<NullToken>>

\* strtoll of the value's text, whatever its kind.
sj_ll(doc, v) == Num(strtoll(doc[v.start].num))

\* Faulty variant: only numbers are copied.
jbuf_id_NumbersOnly(doc, id) ==
    IF id.type = "number" THEN doc[id.start] ELSE NullToken

\* jbuf_id: a number or a string is copied, everything else becomes null.
jbuf_id(doc, id) ==
    CASE id.type = "number" -> doc[id.start]
      [] id.type = "string" -> jbuf_sj_str(doc[id.start])
      [] OTHER -> NullToken

----------------------------------------------------------------------------
(* Outcomes *)

Methods == {"search_read", "fields_get", "create", "write", "none"}

\* The arguments of odoo_execute, args and kwargs as JSON.
Call(model, method, args, kwargs) ==
    [model |-> model, method |-> method, args |-> args, kwargs |-> kwargs]

NoCall == Call("", "none", <<>>, <<>>)

\* What odoo_execute puts into the envelope of execute_kw.
XmlCall(call) ==
    [call EXCEPT !.args = json_to_xmlrpc(@), !.kwargs = json_to_xmlrpc(@)]

OutcomeKinds == {"parse_error", "error", "result", "silent", "tool_error", "call"}

Outcome(kind, id, code, call) == [kind |-> kind, id |-> id, code |-> code, call |-> call]

DefaultFields == <<OpenArray, Str("id"), Str("name"), CloseArray>>
DefaultAttributes ==
    <<OpenArray, Str("string"), Str("type"), Str("required"), CloseArray>>
NoTokens == <<OpenArray, CloseArray>>

InArray(doc) == <<OpenArray>> \o doc \o <<CloseArray>>

Copied(doc, v, default) == IF Have(v) THEN sj_value_to_json(doc, v) ELSE default

SearchKwargs(doc, fields, limit, offset, order) ==
    <<OpenObject, Str("fields")>> \o Copied(doc, fields, DefaultFields)
      \o <<Str("limit"), IF Have(limit) THEN sj_ll(doc, limit) ELSE Num(80),
           Str("offset"), IF Have(offset) THEN sj_ll(doc, offset) ELSE Num(0)>>
      \o (IF Have(order) /\ order.type = "string"
          THEN <<Str("order"), jbuf_sj_str(doc[order.start])>> ELSE <<>>)
      \o <<CloseObject>>

\* The bytes a value's start and end span: sj_read ends a bracket right after
\* its opening character, so a container spans one byte.
Span(v) == IF v.type \in Openings THEN 1 ELSE 2

\* create_record's gate: values.end <= values.start + 2.
EmptyValues(values) ==
    ~Have(values) \/ values.type # "object" \/ Span(values) <= 2

\* update_record's gate.
NothingToWrite(ids, values) == ~Have(ids) \/ ~Have(values)

\* dispatch_tool, up to odoo_execute, for the arguments object with the given
\* members in the text doc.  Its check that the arguments are an object cannot
\* fail: tools_call sees to it.
dispatch_tool(toolname, doc, members, id) ==
    LET Arg(name) == Field(doc, members, name)
        model     == ModelField(doc, members)
        Refuse    == Outcome("tool_error", id, 0, NoCall)
        Do(method, jargs, kwargs) ==
          Outcome("call", id, 0, Call(doc[model.start].v, method, jargs, kwargs))
    IN  CASE ~Have(model) -> Refuse
          [] OTHER ->
             CASE toolname = "search_read_records" ->
                    Do("search_read", InArray(Copied(doc, Arg("domain"), NoTokens)),
                       SearchKwargs(doc, Arg("fields"), Arg("limit"), Arg("offset"),
                                    Arg("order")))
               [] toolname = "get_model_fields" ->
                    Do("fields_get", InArray(NoTokens),
                       <<OpenObject, Str("attributes")>>
                         \o Copied(doc, Arg("attributes"), DefaultAttributes)
                         \o <<CloseObject>>)
               [] toolname = "create_record" ->
                    IF EmptyValues(Arg("values")) THEN Refuse
                    ELSE Do("create", InArray(sj_value_to_json(doc, Arg("values"))),
                            <<OpenObject, CloseObject>>)
               [] toolname = "update_record" ->
                    IF NothingToWrite(Arg("record_ids"), Arg("values")) THEN Refuse
                    ELSE Do("write", InArray(sj_value_to_json(doc, Arg("record_ids"))
                                               \o sj_value_to_json(doc, Arg("values"))),
                            <<OpenObject, CloseObject>>)
               [] OTHER -> Refuse

\* The tools/call branch of mcp_handle, for the members of the parameters.
\* Arguments that are no object are taken for an empty one.
tools_call(doc, members, id) ==
    LET name == Field(doc, members, "name")
        args == Field(doc, members, "arguments")
        \* an escaped name is no tool's name
        toolname == IF doc[name.start].esc = 0 THEN doc[name.start].v ELSE "escaped"
        given == IF args.type = "object" THEN MembersAt(doc, args.start) ELSE <<>>
    IN  IF name.type = "string" THEN dispatch_tool(toolname, doc, given, id)
                                ELSE Outcome("error", id, -32602, NoCall)

\* The parse check: the first value is an object, and its first member, if it
\* has one, can be read.  Nothing behind that is looked at.
ParseError(doc) ==
    LET root == sj_read(doc, sj_reader(1))
    IN  root.v.type # "object" \/ sj_iter_object(doc, root.r, root.v).r.error

\* The methods, once the request's members have been read.
HandleMethod(doc, id, method, params) ==
    LET Is(name) == sj_eq(doc, method, name)
    IN  CASE method.type # "string" -> Outcome("error", id, -32600, NoCall)
          [] method.type = "string" /\ (Is("initialize") \/ Is("tools/list")) ->
               Outcome("result", id, 0, NoCall)
          [] method.type = "string"
               /\ (Is("notifications/initialized") \/ Is("initialized")) ->
               Outcome("silent", NullToken, 0, NoCall)
          [] method.type = "string" /\ Is("tools/call") /\ params.type # "object" ->
               Outcome("error", id, -32602, NoCall)
          [] method.type = "string" /\ Is("tools/call") /\ params.type = "object" ->
               tools_call(doc, MembersAt(doc, params.start), id)
          [] OTHER -> Outcome("error", id, -32601, NoCall)

HandleMembers(doc, members) ==
    HandleMethod(doc, jbuf_id(doc, Field(doc, members, "id")),
                 Field(doc, members, "method"), Field(doc, members, "params"))

mcp_handle(doc) ==
    IF ParseError(doc) THEN Outcome("parse_error", NullToken, -32700, NoCall)
                       ELSE HandleMembers(doc, MembersAt(doc, 1))
=============================================================================
