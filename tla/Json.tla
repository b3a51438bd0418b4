-------------------------------- MODULE Json --------------------------------
(***************************************************************************)
(* JSON documents as sequences of tokens, and what they denote: the        *)
(* reference that the code's reader, scanner and converter are checked     *)
(* against.  Nothing here is translated from the program.                  *)
(*                                                                         *)
(* Colons, commas and blanks are left out of a document, because sj_read   *)
(* skips all of them alike.  A string's text is what stands between its    *)
(* quotes; "esc" says through how many layers of backslash escapes it has  *)
(* gone (0: it holds no character that needs one).  Decoding the string    *)
(* takes one layer off.  A "bad" token is text that is no JSON token, or a *)
(* string cut before its closing quote.                                    *)
(*                                                                         *)
(* "num" is the number a text spells: an integer, or, with a fraction or   *)
(* an exponent, the decimal number mant * 10^exp, whose mant has no zero   *)
(* at its end; "lead" is the integer that its leading digits spell.  The   *)
(* text of a number is shorter than 32 characters, and its value within    *)
(* the range of a double.                                                  *)
(***************************************************************************)
EXTENDS Integers, Sequences

Scalars  == {"number", "bool", "null"}
Openings == {"object", "array"}
Closings == {"endobject", "endarray"}
Kinds    == Scalars \cup Openings \cup Closings \cup {"string", "bad"}

Integer(n) == [form |-> "int", lead |-> n, mant |-> 0, exp |-> 0]
Decimal(lead, mant, exp) ==
    [form |-> "double", lead |-> lead, mant |-> mant, exp |-> exp]
Numerals == [form : {"int", "double"}, lead : Int, mant : Int, exp : Int]

Token(kind, text) == [k |-> kind, v |-> text, esc |-> 0, num |-> Integer(0)]

OpenObject  == Token("object", "{")
CloseObject == Token("endobject", "}")
OpenArray   == Token("array", "[")
CloseArray  == Token("endarray", "]")
Str(text)     == Token("string", text)
Escaped(text) == [Token("string", text) EXCEPT !.esc = 1]
Numeral(num)  == [Token("number", "#") EXCEPT !.num = num]
Num(n)        == Numeral(Integer(n))
Bool(text)    == Token("bool", text)
NullToken     == Token("null", "null")
BadToken      == Token("bad", "?")

Decoded(esc) == IF esc = 0 THEN 0 ELSE esc - 1

(***************************************************************************)
(* Trees: the value a document denotes.  The tags are those of the XML-RPC *)
(* value that carries it, <int> and <double> both under "number".          *)
(***************************************************************************)
Number(num) ==
    IF num.form = "int" THEN <<"number", "int", num.lead>>
                        ELSE <<"number", "double", num.mant, num.exp>>

Leaf(token) ==
    CASE token.k = "number" -> Number(token.num)
      [] token.k = "bool"   -> <<"boolean", token.v>>
      [] token.k = "null"   -> <<"nil">>
      [] token.k = "string" -> <<"string", token.v, Decoded(token.esc)>>

\* "starts" tells where the members of an object have their keys and values.
Parsed(next, tree, starts) ==
    [ok |-> TRUE, next |-> next, tree |-> tree, starts |-> starts]
Failed == [ok |-> FALSE, next |-> 0, tree |-> <<>>, starts |-> <<>>]

Kind(doc, i) == IF i \in 1..Len(doc) THEN doc[i].k ELSE "eof"

Container(tag, inside) ==
    IF inside.ok THEN Parsed(inside.next, <<tag, inside.tree>>, <<>>) ELSE Failed

\* Wanted at token i: one value, or the rest of an object's members or of an
\* array's items with the closing bracket.  P tells what stands behind i.
ParseAt(doc, P, want, i) ==
    CASE want = "value" /\ Kind(doc, i) \in Scalars \cup {"string"} ->
           Parsed(i + 1, Leaf(doc[i]), <<>>)
      [] want = "value" /\ Kind(doc, i) = "object" ->
           Container("struct", P[<<"members", i + 1>>])
      [] want = "value" /\ Kind(doc, i) = "array" ->
           Container("array", P[<<"items", i + 1>>])
      [] want = "members" /\ Kind(doc, i) = "endobject" -> Parsed(i + 1, <<>>, <<>>)
      [] want = "items" /\ Kind(doc, i) = "endarray" -> Parsed(i + 1, <<>>, <<>>)
      [] want = "members" /\ Kind(doc, i) = "string" ->
           LET value == P[<<"value", i + 1>>]
               rest  == P[<<"members", value.next>>]
           IN  IF value.ok /\ rest.ok
               THEN Parsed(rest.next,
                           <<<<doc[i].v, Decoded(doc[i].esc), value.tree>>>> \o rest.tree,
                           <<<<i, i + 1>>>> \o rest.starts)
               ELSE Failed
      [] want = "items" /\ Kind(doc, i) \in Scalars \cup Openings \cup {"string"} ->
           LET value == P[<<"value", i>>]
               rest  == P[<<"items", value.next>>]
           IN  IF value.ok /\ rest.ok
               THEN Parsed(rest.next, <<value.tree>> \o rest.tree, <<>>)
               ELSE Failed
      [] OTHER -> Failed

\* Recursive descent.
Parse(doc) ==
    LET P[x \in {"value", "members", "items"} \X (1..(Len(doc) + 1))] ==
          ParseAt(doc, P, x[1], x[2])
    IN  P

\* A document is one value and nothing after it.
WellFormed(doc) ==
    LET p == Parse(doc)[<<"value", 1>>] IN p.ok /\ p.next = Len(doc) + 1

JsonTree(doc) == Parse(doc)[<<"value", 1>>].tree

\* The last token of the value that starts at token i of a well-formed doc.
ValueEnd(doc, i) == Parse(doc)[<<"value", i>>].next - 1

\* Where the members of the object at token i have their keys and values.
MemberStarts(doc, i) == Parse(doc)[<<"members", i + 1>>].starts

PlainText(doc) == \A i \in 1..Len(doc) : doc[i].esc = 0

PlainTokens == [k : Kinds, v : STRING, esc : {0}, num : Numerals]
=============================================================================
