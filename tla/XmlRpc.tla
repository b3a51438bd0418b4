------------------------------- MODULE XmlRpc -------------------------------
(***************************************************************************)
(* json_to_xmlrpc of odoo.c: one pass of the cursor over a JSON text,      *)
(* emitting the XML-RPC value.  The result is the value's tree, with the   *)
(* tags of Json; a string carries its text as it is written into the XML.  *)
(***************************************************************************)
EXTENDS SjReader

CONSTANT LongMax  \* LLONG_MAX, the largest integer of the machine

\* It holds the default limit of a search.
ASSUME LongMaxAssumption == LongMax \in Nat /\ LongMax >= 80

LongMin == -LongMax - 1

EmptyStruct == <<"struct", <<>>>>

\* strtoll: the integer the leading digits spell, or the nearest one there is.
strtoll(num) ==
    IF num.lead > LongMax THEN LongMax
    ELSE IF num.lead < LongMin THEN LongMin ELSE num.lead

\* The precision that %g has by itself.
SixNines == 999999

\* How many digits of n are more than six.
Excess[n \in Nat] == IF n <= SixNines THEN 0 ELSE 1 + Excess[n \div 10]

\* m * 10^e without the zeros at the end of m.
Stripped[x \in (Nat \ {0}) \X Int] ==
    IF x[1] % 10 = 0 THEN Stripped[<<x[1] \div 10, x[2] + 1>>] ELSE x

\* %g: the decimal number m * 10^e to six significant digits.  (How exact ties
\* are rounded depends on the double that stands for the number.)
SixDigits(m, e) ==
    LET n == IF m < 0 THEN -m ELSE m
        k == Excess[n]
        s == Stripped[<<(n + 10^k \div 2) \div 10^k, e + k>>]
    IN  IF n <= SixNines THEN <<m, e>>
        ELSE <<IF m < 0 THEN -s[1] ELSE s[1], s[2]>>

\* Faulty variant: every number is taken for an integer.
xmlrpc_number_Integer(num) == <<"number", "int", strtoll(num)>>

\* <int> for a text without point and exponent, <double> for the others.
xmlrpc_number(num) ==
    LET g == SixDigits(num.mant, num.exp)
    IN  IF num.form = "int" THEN <<"number", "int", strtoll(num)>>
                            ELSE <<"number", "double", g[1], g[2]>>

\* A number that this carries over unchanged: an integer of the machine, or a
\* decimal number of at most six digits.
Fits(num) == IF num.form = "int" THEN num.lead \in LongMin..LongMax
                                 ELSE num.mant \in -SixNines..SixNines

NumbersFit(doc) == \A i \in 1..Len(doc) : doc[i].k = "number" => Fits(doc[i].num)

\* A scalar's XML-RPC value.  The text of a string is copied as it stands.
xmlrpc_scalar(token) ==
    CASE token.k = "null"   -> <<"nil">>
      [] token.k = "bool"   -> <<"boolean", token.v>>
      [] token.k = "number" -> xmlrpc_number(token.num)
      [] token.k = "string" -> <<"string", token.v, token.esc>>

\* sj_to_xmlrpc and its two loops: the tree, and the reader after it, when
\* W does what is nested in it or comes after it.
XmlRpcAt(doc, W, todo, r, v) ==
    CASE todo = "value" /\ v.type = "array" ->
           LET all == W[<<"items", r, v>>] IN [r |-> all.r, t |-> <<"array", all.t>>]
      [] todo = "value" /\ v.type = "object" ->
           LET all == W[<<"members", r, v>>] IN [r |-> all.r, t |-> <<"struct", all.t>>]
      [] todo = "value" /\ v.type \in Scalars \cup {"string"} ->
           [r |-> r, t |-> xmlrpc_scalar(doc[v.start])]
      [] todo = "items" ->
           LET it   == sj_iter_array(doc, r, v)
               one  == W[<<"value", it.r, it.val>>]
               rest == W[<<"items", one.r, v>>]
           IN  IF it.more THEN [r |-> rest.r, t |-> <<one.t>> \o rest.t]
                          ELSE [r |-> it.r, t |-> <<>>]
      [] todo = "members" ->
           LET it   == sj_iter_object(doc, r, v)
               name == doc[it.key.start]
               one  == W[<<"value", it.r, it.val>>]
               rest == W[<<"members", one.r, v>>]
           IN  IF it.more
               THEN [r |-> rest.r, t |-> <<<<name.v, name.esc, one.t>>>> \o rest.t]
               ELSE [r |-> it.r, t |-> <<>>]
      [] OTHER -> [r |-> r, t |-> EmptyStruct]

sj_to_xmlrpc(doc, r0, v0) ==
    LET W[x \in {"value", "items", "members"} \X Readers(doc) \X Values(doc)] ==
          XmlRpcAt(doc, W, x[1], x[2], x[3])
    IN  W[<<"value", r0, v0>>]

\* No text is an empty struct; a text without a first value is sent as the
\* string it is; anything after the first value is not looked at.
json_to_xmlrpc(doc) ==
    LET first == sj_read(doc, sj_reader(1))
    IN  CASE doc = <<>> -> EmptyStruct
          [] doc # <<>> /\ first.v.type = "error" -> <<"unparsed", doc>>
          [] OTHER -> sj_to_xmlrpc(doc, first.r, first.v).t
=============================================================================
