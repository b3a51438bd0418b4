------------------------------ MODULE JsonText ------------------------------
(***************************************************************************)
(* Every JSON text up to a length, well formed or not, grown token by      *)
(* token, with what the cursor, the raw scan and the converter do with it. *)
(***************************************************************************)
EXTENDS McpDispatch

CONSTANTS
    Alphabet,  \* the tokens a text is made of
    MaxLength  \* bound on its length

ASSUME AlphabetAssumption == \A t \in Alphabet : t.k \in Kinds

VARIABLE text

TextInit == text = <<>>

\* The brackets opened and not closed, the two kinds alike.
Depth(t) == Len(SelectSeq(t, LAMBDA x : x.k \in Openings))
            - Len(SelectSeq(t, LAMBDA x : x.k \in Closings))

\* A text grows until its first value is complete.
TextNext ==
    /\ Len(text) < MaxLength
    /\ text = <<>> \/ Depth(text) > 0
    /\ \E t \in Alphabet : text' = Append(text, t)

TextSpec == TextInit /\ [][TextNext]_text

----------------------------------------------------------------------------

\* A JSON text is sent to Odoo as the value it denotes: the cursor rebuilds
\* the whole tree from depths alone (json_to_xmlrpc).  So is every number in it
\* that an integer, or six digits and an exponent, can hold.
ConvertsToItsTree ==
    WellFormed(text) /\ PlainText(text) /\ NumbersFit(text)
      => json_to_xmlrpc(text) = JsonTree(text)

\* From any opening bracket of a JSON text, the raw scan of sj_value_to_json
\* copies exactly the value that starts there: it stops at the matching
\* bracket although it does not tell the kinds of brackets apart.
ScanCopiesOneValue ==
    WellFormed(text) =>
      \A i \in 1..Len(text) :
        text[i].k \in Openings => ClosingAt(text, i) = ValueEnd(text, i)

\* Iterating an object with sj_iter_object and leaving the values unread
\* visits its own members, all of them and no other: nested values are
\* discarded whole, also when the object is read again from its bracket with
\* the rest of the text behind it, as mcp_handle and dispatch_tool do.
IteratesOwnMembers ==
    WellFormed(text) =>
      \A i \in 1..Len(text) :
        text[i].k = "object" =>
          LET members == MembersAt(text, i)
          IN  [m \in 1..Len(members) |-> <<members[m].key.start, members[m].val.start>>]
                = MemberStarts(text, i)
=============================================================================
