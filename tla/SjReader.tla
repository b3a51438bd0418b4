------------------------------ MODULE SjReader ------------------------------
(***************************************************************************)
(* The JSON cursor of sj.h over a tokenised document.  A reader holds a    *)
(* position, a bracket depth and an error flag; it never builds a tree, so *)
(* the nesting of what it reads is only in the depths that its caller      *)
(* hands back to it.  The two closing brackets mean the same to it, and a  *)
(* key may be a value of any kind.                                         *)
(***************************************************************************)
EXTENDS Json

\* Every reader and value over doc.  A value's depth is set for brackets only.
Readers(doc) == [cur : 1..(Len(doc) + 1), depth : Int, error : BOOLEAN]

ValueTypes == Scalars \cup Openings \cup {"string", "end", "error"}

Values(doc) == [type : ValueTypes, start : 0..(Len(doc) + 1), depth : Int]

Value(type, start, depth) == [type |-> type, start |-> start, depth |-> depth]

\* A reader on the text that starts at token i.
sj_reader(i) == [cur |-> i, depth |-> 0, error |-> FALSE]

Stuck(r) == [r |-> [r EXCEPT !.error = TRUE], v |-> Value("error", r.cur, 0)]

\* One token.  Past the end, at a stray closing bracket, at text that is no
\* token, and ever after, the answer is an error.
sj_read(doc, r) ==
    LET kind  == doc[r.cur].k
        after == [r EXCEPT !.cur = @ + 1]
    IN  CASE r.error \/ r.cur > Len(doc) -> Stuck(r)
          [] ~r.error /\ r.cur <= Len(doc) ->
             CASE kind \in Openings ->
                    [r |-> [after EXCEPT !.depth = @ + 1],
                     v |-> Value(kind, r.cur, r.depth + 1)]
               [] kind \in Closings /\ r.depth > 0 ->
                    [r |-> [after EXCEPT !.depth = @ - 1], v |-> Value("end", r.cur, 0)]
               [] kind \in Closings /\ r.depth <= 0 ->
                    Stuck([r EXCEPT !.depth = @ - 1])
               [] kind \in Scalars \cup {"string"} ->
                    [r |-> after, v |-> Value(kind, r.cur, 0)]
               [] kind = "bad" -> Stuck(r)

\* Faulty variant: nothing is skipped.
sj__discard_until_Nothing(doc, r, depth) == r

\* Skip what the caller left unread of the last value: read on to the depth
\* of the container that is iterated.
sj__discard_until(doc, r, depth) ==
    LET Skip[s \in Readers(doc)] ==
          IF s.depth = depth \/ s.error THEN s ELSE Skip[sj_read(doc, s).r]
    IN  Skip[r]

\* Faulty variant: only an error ends an array.
sj_iter_array_PastEnd(doc, r, arr) ==
    LET item == sj_read(doc, sj__discard_until(doc, r, arr.depth))
    IN  [more |-> item.v.type # "error", r |-> item.r, val |-> item.v]

sj_iter_array(doc, r, arr) ==
    LET item == sj_read(doc, sj__discard_until(doc, r, arr.depth))
    IN  [more |-> item.v.type \notin {"error", "end"}, r |-> item.r, val |-> item.v]

\* What sj_iter_object makes of the key and the value it has read.
Pair(key, val) ==
    CASE key.v.type \in {"error", "end"} ->
           [more |-> FALSE, r |-> key.r, key |-> key.v, val |-> key.v]
      [] key.v.type \notin {"error", "end"} /\ val.v.type = "end" ->
           [more |-> FALSE, r |-> [val.r EXCEPT !.error = TRUE],
            key |-> key.v, val |-> val.v]
      [] OTHER ->
           [more |-> val.v.type # "error", r |-> val.r, key |-> key.v, val |-> val.v]

ReadPair(doc, key) == Pair(key, sj_read(doc, key.r))

sj_iter_object(doc, r, obj) ==
    ReadPair(doc, sj_read(doc, sj__discard_until(doc, r, obj.depth)))

\* while (sj_iter_object(&r, obj, &key, &val)) with a body that leaves the
\* reader alone: the pairs it sees, in order.
Members(doc, r, obj) ==
    LET M[s \in Readers(doc)] ==
          LET it == sj_iter_object(doc, s, obj)
          IN  IF it.more THEN <<[key |-> it.key, val |-> it.val]>> \o M[it.r] ELSE <<>>
    IN  M[r]

\* The same with a fresh reader on the object at token i, and everything behind
\* its opening bracket in view.
MembersAt(doc, i) ==
    LET object == sj_read(doc, sj_reader(i))
    IN  Members(doc, object.r, object.v)
=============================================================================
