----------------------------- MODULE MCRequests -----------------------------
(* Requests for TLC: the arguments a client may send, among them nested     *)
(* objects whose members have the names of arguments.                       *)
EXTENDS Requests

Object(tokens) == <<OpenObject>> \o tokens \o <<CloseObject>>
List(tokens)   == <<OpenArray>> \o tokens \o <<CloseArray>>
Arg(name, tokens) == <<Str(name)>> \o tokens

MCIds == {NoId, Num(1), Str("r1"), NullToken}

MCMethods == {"tools/call", "tools/list", "notifications/initialized", "other"}

MCTools == {"search_read_records", "get_model_fields", "create_record", "update_record", "other"}

MCArguments ==
    {Arg("model", <<Str("m1")>>),
     Arg("model", <<NullToken>>),
     Arg("domain", List(List(<<Str("model"), Str("m2")>>))),
     Arg("fields", List(<<Str("domain")>>)),
     Arg("limit", <<Num(500)>>),
     Arg("order", <<Str("name")>>),
     Arg("attributes", Object(<<Str("values")>> \o Object(<<>>))),
     Arg("record_ids", List(<<Num(7)>>)),
     Arg("values", Object(<<Str("model"), Str("m3"), Str("values")>> \o List(<<Numeral(Decimal(1, 15, -1))>>))),
     Arg("limit", <<Num(5)>>)}

\* The requests that write.
WriteTools == {"create_record", "update_record"}
CallMethod == {"tools/call"}
=============================================================================
