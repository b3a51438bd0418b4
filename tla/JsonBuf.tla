------------------------------ MODULE JsonBuf ------------------------------
(***************************************************************************)
(* The JSON builder of json.h: a text that grows piece by piece in memory  *)
(* of an arena.  When a piece does not fit, the text moves to a larger     *)
(* block and the old one is left behind; several texts grow in turn in the *)
(* same arena (a tool's answer while the answer around it has begun).      *)
(*                                                                         *)
(* heap is the arena's memory byte by byte, so that a write behind the end *)
(* of a block shows in whatever lies there.                                *)
(***************************************************************************)
EXTENDS Arena

CONSTANTS
    Strings,  \* the strings given to jbuf_str: sequences of characters
    Pieces,   \* what is given to jbuf_cstr: punctuation, numbers
    Capacity, \* the capacity jbuf_new is asked for
    MaxBufs   \* bound: builders in use

ASSUME BuildersAssumption == Capacity \in Nat \ {0} /\ MaxBufs \in Nat

NUL == "nul"

\* What is given are C strings, which end at their first NUL.
ASSUME TextsAssumption ==
    \A t \in Strings \cup Pieces :
      t \in Seq({t[i] : i \in 1..Len(t)}) /\ \A i \in 1..Len(t) : t[i] # NUL

VARIABLES
    bufs,  \* the JsonBufs: [region, offset, len, cap], offset in bytes
    heap,  \* address to byte, for every byte written so far
    todo,  \* pieces the present call has still to append, and to which buffer
    said   \* what each text has been made of: strings and pieces

builderVars == <<bufs, heap, todo, said>>

Idle == todo.pieces = <<>>
NoCall == [k |-> 0, pieces |-> <<>>]

BuilderInit ==
    /\ bufs = <<>> /\ heap = <<>> /\ said = <<>>
    /\ todo = NoCall

----------------------------------------------------------------------------
(* Escaping *)

\* Faulty variant: control characters other than newline go out as they are.
Escape_NewlineOnly(c) ==
    CASE c \in {"quote", "backslash"} -> <<"backslash", c>>
      [] c = "newline" -> <<"backslash", "n">>
      [] OTHER -> <<c>>

\* One character of a string.  "control" stands for those below 0x20 without a
\* short form.
Escape(c) ==
    CASE c \in {"quote", "backslash"} -> <<"backslash", c>>
      [] c = "newline" -> <<"backslash", "n">>
      [] c = "control" -> <<"backslash", "u", "0", "0", "1", "f">>
      [] OTHER -> <<c>>

Quoted(s) == <<<<"quote">>>> \o [i \in 1..Len(s) |-> Escape(s[i])] \o <<<<"quote">>>>

----------------------------------------------------------------------------
(* Memory *)

\* The block arena_alloc has just handed out, as a buffer of cap bytes.
Newest(len, cap) ==
    LET b == live'[Len(live')]
    IN  [region |-> b.region, offset |-> b.offset * WordBytes, len |-> len, cap |-> cap]

Byte(b, i) == <<b.region, b.offset + i>>

\* The memory once text and its NUL are written to b.
Written(b, text) ==
    LET at == {Byte(b, i) : i \in 0..Len(text)}
    IN  [a \in at \cup DOMAIN heap |->
           IF a \notin at THEN heap[a]
           ELSE IF a[2] - b.offset = Len(text) THEN NUL ELSE text[a[2] - b.offset + 1]]

Content(b) == [i \in 1..b.len |-> heap[Byte(b, i - 1)]]

jbuf_new ==
    /\ Idle /\ Len(bufs) < MaxBufs
    /\ arena_alloc(Capacity)
    /\ bufs' = Append(bufs, Newest(0, Capacity))
    /\ said' = Append(said, <<>>)
    /\ UNCHANGED <<heap, todo>>

\* Faulty variant: no room is kept for the NUL.
Full_NoNul(b, n) == b.len + n > b.cap

Full(b, n) == b.len + n >= b.cap

Larger(b, n) == b.cap * 2 + n

\* Appends one piece: its bytes, and the NUL.
jbuf_raw ==
    /\ ~Idle
    /\ LET b == bufs[todo.k]
           n == Len(Head(todo.pieces))
       IN
       \/ /\ ~Full(b, n)
          /\ bufs' = [bufs EXCEPT ![todo.k].len = @ + n]
          /\ UNCHANGED vars
       \/ /\ Full(b, n)
          /\ arena_alloc(Larger(b, n))
          /\ bufs' = [bufs EXCEPT ![todo.k] = Newest(b.len + n, Larger(b, n))]
    /\ heap' = Written(bufs'[todo.k], Content(bufs[todo.k]) \o Head(todo.pieces))
    /\ todo' = [todo EXCEPT !.pieces = Tail(@)]
    /\ UNCHANGED said

Begin(k, pieces, item) ==
    /\ Idle
    /\ todo' = [k |-> k, pieces |-> pieces]
    /\ said' = [said EXCEPT ![k] = Append(@, item)]
    /\ UNCHANGED <<vars, bufs, heap>>

jbuf_str(k, s) == Begin(k, Quoted(s), [string |-> s])
jbuf_cstr(k, piece) == Begin(k, <<piece>>, [piece |-> piece])

BuilderStep ==
    \/ jbuf_new
    \/ jbuf_raw
    \/ \E k \in 1..Len(bufs) :
         \/ \E s \in Strings : jbuf_str(k, s)
         \/ \E p \in Pieces : jbuf_cstr(k, p)

----------------------------------------------------------------------------
(* What a reader of the text finds *)

\* Bytes of one character of a string, and what it stands for.
Width(text, i) ==
    IF text[i] # "backslash" \/ i = Len(text) THEN 1
    ELSE IF text[i + 1] = "u" THEN 6 ELSE 2
Meant(text, i) ==
    CASE Width(text, i) = 1 -> text[i]
      [] Width(text, i) = 6 -> "control"
      [] OTHER -> IF text[i + 1] = "n" THEN "newline" ELSE text[i + 1]

\* Behind any text: where an escape that is cut off would end.
Nowhere(text) == Len(text) + 6

\* The characters of the JSON string whose first one is at position i, and the
\* position behind it: nowhere, if a character may not stand there or no quote
\* ends it.
Unescape(text) ==
    LET Rest[i \in 1..Nowhere(text)] ==
          IF i > Len(text) THEN <<<<>>, Nowhere(text)>>
          ELSE CASE text[i] = "quote" -> <<<<>>, i + 1>>
                 [] text[i] \in {"newline", "control", NUL} -> <<<<>>, Nowhere(text)>>
                 [] OTHER -> LET next == Rest[i + Width(text, i)]
                             IN  <<<<Meant(text, i)>> \o next[1], next[2]>>
    IN  Rest

\* The position behind an item that stands at position i, nowhere if another
\* thing stands there.
After(text, i, item) ==
    IF "string" \in DOMAIN item
    THEN LET s == Unescape(text)[i + 1]
         IN  IF i <= Len(text) /\ text[i] = "quote" /\ s[1] = item.string
             THEN s[2] ELSE Nowhere(text)
    ELSE LET next == i + Len(item.piece)
         IN  IF next - 1 <= Len(text) /\ SubSeq(text, i, next - 1) = item.piece
             THEN next ELSE Nowhere(text)

\* The position behind the first j of the items.
Behind(text, items) ==
    LET Following[j \in 0..Len(items)] ==
          IF j = 0 THEN 1
          ELSE IF Following[j - 1] = Nowhere(text) THEN Nowhere(text)
          ELSE After(text, Following[j - 1], items[j])
    IN  Following

\* The text is the strings and pieces it was made of, one after the other.
Reads(text, items) == Behind(text, items)[Len(items)] = Len(text) + 1

----------------------------------------------------------------------------
(* Properties *)

\* Every text, whichever of them grew in between and wherever it was moved,
\* reads as exactly the strings and pieces appended to it, in order: no byte
\* was overwritten by another text, none lost in a move, and every string is
\* one JSON string that decodes to what was given.
TextsReadBack ==
    \A k \in 1..Len(bufs) :
      Idle \/ todo.k # k => Reads(Content(bufs[k]), said[k])

\* A text that was begun is a C string: its NUL stands behind it, inside the
\* block the arena gave for it.
TextsEnd ==
    \A k \in 1..Len(bufs) :
      LET b == bufs[k] IN
      /\ b.len < b.cap
      /\ b.len > 0 => heap[Byte(b, b.len)] = NUL
      /\ \E i \in 1..Len(live) :
           /\ live[i].region = b.region
           /\ live[i].offset * WordBytes = b.offset
           /\ b.cap <= live[i].words * WordBytes
=============================================================================
