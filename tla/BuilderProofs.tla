--------------------------- MODULE BuilderProofs ---------------------------
(***************************************************************************)
(* The texts of a request stay C strings inside their blocks, for every    *)
(* word size, capacity, set of strings and pieces, and number of texts     *)
(* that grow in turn: jbuf_raw keeps room for the NUL, a text that moves   *)
(* lies in a block nobody else has, and a write into one text leaves the   *)
(* NUL of the others alone.                                                *)
(*                                                                         *)
(* A request that is sent again passes the same points as before, through  *)
(* the regions that were added for it then, and so adds none.              *)
(*                                                                         *)
(* Every text reads back as the strings and pieces it was made of: the     *)
(* invariant says where in a text its items and their escapes lie; that a  *)
(* reader finds them there is shown by induction over the text.            *)
(***************************************************************************)
EXTENDS Reactor, ArenaProofs, Induction

----------------------------------------------------------------------------
(* Bytes and words *)

LEMMA TimesGrows ==
  ASSUME NEW a \in Nat, NEW b \in Nat, NEW w \in Nat, a <= b
  PROVE  a * w \in Nat /\ b * w \in Nat /\ a * w <= b * w
  OBVIOUS

LEMMA TimesAdds ==
  ASSUME NEW a \in Nat, NEW b \in Nat, NEW w \in Nat
  PROVE  (a + b) * w = a * w + b * w
  OBVIOUS

\* The words given hold the bytes asked for.
LEMMA WordsCover ==
  ASSUME NEW n \in Nat
  PROVE  Words(n) \in Nat /\ Words(n) * WordBytes \in Nat /\ n <= Words(n) * WordBytes
<1> DEFINE s == n + WordBytes - 1
<1>1. s \in Nat /\ WordBytes \in Nat \ {0} /\ s = n + (WordBytes - 1)
  BY WordsAssumption
<1> HIDE DEF s
<1>2. \A a \in Nat, w \in Nat \ {0} : a \div w \in Nat /\ a % w \in 0..(w - 1) /\ a = w * (a \div w) + (a % w)
  OBVIOUS
<1>3. /\ s \div WordBytes \in Nat /\ s % WordBytes \in 0..(WordBytes - 1)
      /\ s = WordBytes * (s \div WordBytes) + (s % WordBytes)
  BY <1>1, <1>2
<1>4. WordBytes * (s \div WordBytes) = (s \div WordBytes) * WordBytes /\ (s \div WordBytes) * WordBytes \in Nat
  BY <1>1, <1>3
<1>5. n <= (s \div WordBytes) * WordBytes
  BY <1>1, <1>3, <1>4
<1> QED BY <1>3, <1>4, <1>5 DEF Words, s

----------------------------------------------------------------------------
(* The invariant *)

\* What texts are made of.
Bytes ==
    {"quote", "newline", "control", "backslash", "n", "u", "0", "1", "f"} \cup
    UNION {{t[i] : i \in 1..Len(t)} : t \in Strings \cup Pieces}

Buf == [region : Nat \ {0}, offset : Nat, len : Nat, cap : Nat]

\* b lies in the block c of the arena.
Lies(b, c) ==
    /\ c.region = b.region
    /\ c.offset * WordBytes = b.offset
    /\ b.cap <= c.words * WordBytes

\* No byte is in both.
Apart(b, c) ==
    b.region = c.region => b.offset + b.cap <= c.offset \/ c.offset + c.cap <= b.offset

\* Its bytes have been written, and the NUL behind them.
Stored(b) ==
    b.len > 0 =>
      (\A i \in 0..b.len : Byte(b, i) \in DOMAIN heap) /\ heap[Byte(b, b.len)] = NUL

BufsInv ==
    \A k \in 1..Len(bufs) :
      /\ bufs[k].len < bufs[k].cap
      /\ Stored(bufs[k])
      /\ \E i \in 1..Len(live) : Lies(bufs[k], live[i])
      /\ \A j \in 1..Len(bufs) : j # k => Apart(bufs[j], bufs[k])

TodoInv ==
    /\ todo \in [k : Nat, pieces : Seq(Seq(Bytes))]
    /\ ~Idle => todo.k \in 1..Len(bufs)

TextsInv == IInv /\ bufs \in Seq(Buf) /\ BufsInv /\ TodoInv

LEMMA BufTypes ==
  ASSUME TextsInv
  PROVE  /\ Len(bufs) \in Nat
         /\ \A k \in 1..Len(bufs) :
              /\ bufs[k] \in Buf /\ bufs[k].region \in Nat \ {0}
              /\ bufs[k].offset \in Nat /\ bufs[k].len \in Nat /\ bufs[k].cap \in Nat
<1>1. bufs \in Seq(Buf)
  BY DEF TextsInv
<1>2. \A k \in 1..Len(bufs) : bufs[k] \in Buf
  BY <1>1
<1>3. \A b \in Buf : b.region \in Nat \ {0} /\ b.offset \in Nat /\ b.len \in Nat /\ b.cap \in Nat
  BY DEF Buf
<1> QED BY <1>1, <1>2, <1>3

\* A string becomes pieces of such bytes.
LEMMA QuotedPieces ==
  ASSUME NEW s \in Strings
  PROVE  Quoted(s) \in Seq(Seq(Bytes))
<1>1. s \in Seq({s[i] : i \in 1..Len(s)}) /\ Len(s) \in Nat
  <2>1. s \in Seq({s[i] : i \in 1..Len(s)})
    BY TextsAssumption
  <2> QED BY <2>1
<1>2. \A i \in 1..Len(s) : s[i] \in Bytes
  BY DEF Bytes
<1>3. ASSUME NEW c \in Bytes PROVE Escape(c) \in Seq(Bytes)
  <2>1. {"quote", "backslash", "n", "u", "0", "1", "f"} \subseteq Bytes
    BY DEF Bytes
  <2>2. /\ <<"backslash", c>> \in Seq(Bytes) /\ <<"backslash", "n">> \in Seq(Bytes)
        /\ <<"backslash", "u", "0", "0", "1", "f">> \in Seq(Bytes) /\ <<c>> \in Seq(Bytes)
    BY <2>1
  <2> QED BY <2>2 DEF Escape
<1> DEFINE e == [i \in 1..Len(s) |-> Escape(s[i])]
           q == <<<<"quote">>>>
<1>4. e \in Seq(Seq(Bytes))
  <2> DEFINE B == Seq(Bytes)
  <2>1. e \in [1..Len(s) -> B]
    BY <1>2, <1>3
  <2> HIDE DEF e, B
  <2>2. e \in Seq(B)
    BY <1>1, <2>1
  <2> QED BY <2>2 DEF B
<1>5. q \in Seq(Seq(Bytes))
  <2>1. "quote" \in Bytes
    BY DEF Bytes
  <2>2. <<"quote">> \in Seq(Bytes)
    BY <2>1
  <2> QED BY <2>2
<1> HIDE DEF e, q
<1>6. q \o e \o q \in Seq(Seq(Bytes))
  BY <1>4, <1>5
<1> QED BY <1>6 DEF Quoted, e, q

LEMMA PieceBytes ==
  ASSUME NEW p \in Pieces
  PROVE  <<p>> \in Seq(Seq(Bytes))
<1>1. p \in Seq({p[i] : i \in 1..Len(p)})
  BY TextsAssumption
<1>2. {p[i] : i \in 1..Len(p)} \subseteq Bytes
  BY DEF Bytes
<1>3. p \in Seq(Bytes)
  BY <1>1, <1>2
<1> QED BY <1>3

----------------------------------------------------------------------------
(* Blocks for texts *)

\* Blocks that do not share a word do not share a byte.
LEMMA BytesApart ==
  ASSUME NEW b \in Buf, NEW c \in Buf, NEW d \in Block, NEW e \in Block,
         Lies(b, d), Lies(c, e), Before(d, e)
  PROVE  Apart(b, c) /\ Apart(c, b)
<1>1. /\ b.region \in Nat /\ b.offset \in Nat /\ b.cap \in Nat
      /\ c.region \in Nat /\ c.offset \in Nat /\ c.cap \in Nat
      /\ d.region \in Nat /\ d.offset \in Nat /\ d.words \in Nat
      /\ e.region \in Nat /\ e.offset \in Nat
  BY DEF Buf, Block
<1>2. ASSUME b.region = c.region PROVE b.offset + b.cap <= c.offset
  <2>1. d.offset + d.words <= e.offset
    BY <1>1, <1>2 DEF Lies, Before, LastWord
  <2>2. WordBytes \in Nat
    BY WordsAssumption
  <2>3. (d.offset + d.words) * WordBytes <= e.offset * WordBytes
    BY <1>1, <2>1, <2>2, TimesGrows
  <2>4. (d.offset + d.words) * WordBytes = d.offset * WordBytes + d.words * WordBytes
    BY <1>1, <2>2, TimesAdds
  <2>5. b.offset + d.words * WordBytes <= c.offset /\ b.cap <= d.words * WordBytes
    BY <2>3, <2>4 DEF Lies
  <2>6. d.words * WordBytes \in Nat
    BY <1>1, <2>2
  <2> QED BY <1>1, <2>5, <2>6
<1> QED BY <1>2 DEF Apart

\* What arena_alloc hands out for a text.
LEMMA NewBlock ==
  ASSUME TextsInv, NEW len \in Nat, NEW cap \in Nat, arena_alloc(cap)
  PROVE  /\ IInv'
         /\ Newest(len, cap) \in Buf
         /\ Newest(len, cap).len = len /\ Newest(len, cap).cap = cap
         /\ \A i \in 1..Len(live) : i \in 1..Len(live') /\ live'[i] = live[i]
         /\ \E i \in 1..Len(live') : Lies(Newest(len, cap), live'[i])
         /\ \A k \in 1..Len(bufs) : Apart(bufs[k], Newest(len, cap)) /\ Apart(Newest(len, cap), bufs[k])
<1> DEFINE nb == Newest(len, cap)
           n == Len(live) + 1
<1>1. IInv /\ IInv'
  BY AllocInv DEF TextsInv
<1>2. PICK r \in Nat \ {0}, c \in Nat : HandsOut(r, c, Words(cap))
  BY <1>1, AllocHandsOut
<1>3. live' = Append(live, [region |-> r, offset |-> c, words |-> Words(cap)])
  BY <1>2 DEF HandsOut
<1>4. /\ Len(live) \in Nat /\ Len(live') = n /\ n \in 1..Len(live')
      /\ live'[n] = [region |-> r, offset |-> c, words |-> Words(cap)]
      /\ \A i \in 1..Len(live) : i \in 1..Len(live') /\ live'[i] = live[i] /\ i < n
  <2>1. live \in Seq(Block)
    BY <1>1 DEF IInv, TypeOK
  <2> QED BY <1>3, <2>1
<1>5. nb = [region |-> r, offset |-> c * WordBytes, len |-> len, cap |-> cap]
  BY <1>4 DEF Newest
<1>6. c * WordBytes \in Nat /\ Words(cap) \in Nat /\ cap <= Words(cap) * WordBytes
  BY WordsCover, WordsAssumption
<1>7. nb \in Buf /\ nb.len = len /\ nb.cap = cap
  BY <1>5, <1>6 DEF Buf
<1>8. Lies(nb, live'[n])
  BY <1>4, <1>5, <1>6 DEF Lies
<1> HIDE DEF nb, n
<1>9. ASSUME NEW k \in 1..Len(bufs) PROVE Apart(bufs[k], nb) /\ Apart(nb, bufs[k])
  <2>1. PICK i \in 1..Len(live) : Lies(bufs[k], live[i])
    BY DEF TextsInv, BufsInv
  <2>2. Before(live'[i], live'[n])
    BY <1>1, <1>4 DEF IInv, Disjoint
  <2>3. live'[i] \in Block /\ live'[n] \in Block
    <3>1. live' \in Seq(Block)
      BY <1>1 DEF IInv, TypeOK
    <3> QED BY <1>4, <3>1, BlockTypes
  <2>4. Lies(bufs[k], live'[i])
    BY <1>4, <2>1
  <2> QED BY <1>7, <1>8, <2>2, <2>3, <2>4, BufTypes, BytesApart
<1> QED BY <1>1, <1>4, <1>7, <1>8, <1>9 DEF nb

----------------------------------------------------------------------------
(* Writing *)

LEMMA ContentType ==
  ASSUME NEW b, b.len \in Nat
  PROVE  \E S : Content(b) \in Seq(S) /\ Len(Content(b)) = b.len
<1> DEFINE S == {heap[Byte(b, i - 1)] : i \in 1..b.len}
<1>1. Content(b) \in [1..b.len -> S]
  BY DEF Content
<1> HIDE DEF S
<1>2. Content(b) \in Seq(S) /\ Len(Content(b)) = b.len
  BY <1>1
<1> QED BY <1>2

\* The bytes of b and its NUL are what was written, and bytes of texts apart
\* from it are what they were.
LEMMA WrittenBytes ==
  ASSUME NEW b \in Buf, NEW text, Len(text) = b.len, b.len < b.cap,
         heap' = Written(b, text)
  PROVE  /\ \A i \in 0..b.len : Byte(b, i) \in DOMAIN heap'
         /\ \A i \in 0..(b.len - 1) : heap'[Byte(b, i)] = text[i + 1]
         /\ heap'[Byte(b, b.len)] = NUL
         /\ \A c \in Buf : Apart(c, b) /\ c.len < c.cap =>
              \A i \in 0..c.len : Byte(c, i) \in DOMAIN heap =>
                Byte(c, i) \in DOMAIN heap' /\ heap'[Byte(c, i)] = heap[Byte(c, i)]
<1> DEFINE D == {Byte(b, i) : i \in 0..b.len}
<1>0. b.offset \in Nat /\ b.len \in Nat /\ b.cap \in Nat
  BY DEF Buf
<1>1. heap' = [a \in D \cup DOMAIN heap |->
                 IF a \notin D THEN heap[a]
                 ELSE IF a[2] - b.offset = b.len THEN NUL ELSE text[a[2] - b.offset + 1]]
  BY DEF Written
<1>2. \A i \in 0..b.len : Byte(b, i) \in D /\ Byte(b, i)[2] - b.offset = i
  BY <1>0 DEF Byte
<1>4. ASSUME NEW c \in Buf, Apart(c, b), c.len < c.cap, NEW i \in 0..c.len
      PROVE  Byte(c, i) \notin D
  <2> SUFFICES ASSUME NEW j \in 0..b.len, Byte(c, i) = Byte(b, j) PROVE FALSE
    OBVIOUS
  <2>1. c.region = b.region /\ c.offset + i = b.offset + j
    BY DEF Byte
  <2>2. c.offset \in Nat /\ c.len \in Nat /\ c.cap \in Nat
    BY DEF Buf
  <2>3. c.offset + c.cap <= b.offset \/ b.offset + b.cap <= c.offset
    BY <1>4, <2>1 DEF Apart
  <2> QED BY <1>0, <1>4, <2>1, <2>2, <2>3
<1> HIDE DEF D
<1>3. /\ DOMAIN heap' = D \cup DOMAIN heap
      /\ \A a \in D : heap'[a] = IF a[2] - b.offset = b.len THEN NUL ELSE text[a[2] - b.offset + 1]
      /\ \A a \in DOMAIN heap : a \notin D => heap'[a] = heap[a]
  BY <1>1
<1>5. \A i \in 0..(b.len - 1) : heap'[Byte(b, i)] = text[i + 1]
  <2> SUFFICES ASSUME NEW i \in 0..(b.len - 1) PROVE heap'[Byte(b, i)] = text[i + 1]
    OBVIOUS
  <2>1. i \in 0..b.len /\ i # b.len
    BY <1>0
  <2> QED BY <1>2, <1>3, <2>1
<1>6. heap'[Byte(b, b.len)] = NUL
  <2>1. b.len \in 0..b.len
    BY <1>0
  <2> QED BY <1>2, <1>3, <2>1
<1> QED BY <1>2, <1>3, <1>4, <1>5, <1>6

----------------------------------------------------------------------------
(* The steps of the builder *)

LEMMA ArenaStands == ASSUME IInv, UNCHANGED vars PROVE IInv'
  BY NextInv

LEMMA Pending ==
  ASSUME TextsInv, ~Idle
  PROVE  /\ todo.k \in 1..Len(bufs)
         /\ Head(todo.pieces) \in Seq(Bytes) /\ Len(Head(todo.pieces)) \in Nat
         /\ Tail(todo.pieces) \in Seq(Seq(Bytes))
<1>1. todo.k \in 1..Len(bufs) /\ todo \in [k : Nat, pieces : Seq(Seq(Bytes))]
  BY DEF TextsInv, TodoInv
<1> DEFINE B == Seq(Bytes)
<1>2. todo.pieces \in Seq(B) /\ todo.pieces # <<>>
  BY <1>1 DEF Idle
<1> HIDE DEF B
<1>3. Head(todo.pieces) \in B /\ Tail(todo.pieces) \in Seq(B)
  BY <1>2
<1> QED BY <1>1, <1>3 DEF B

\* Where the text that grows lies afterwards: where it was, or in a new block.
LEMMA RawBuf ==
  ASSUME TextsInv, jbuf_raw
  PROVE  LET k == todo.k  b == bufs[k]  nb == bufs'[k] IN
         /\ IInv'
         /\ nb \in Buf /\ nb.len = b.len + Len(Head(todo.pieces)) /\ nb.len < nb.cap
         /\ Len(bufs') = Len(bufs)
         /\ \A j \in 1..Len(bufs) : j # k =>
              bufs'[j] = bufs[j] /\ Apart(bufs[j], nb) /\ Apart(nb, bufs[j])
         /\ \A i \in 1..Len(live) : i \in 1..Len(live') /\ live'[i] = live[i]
         /\ \E i \in 1..Len(live') : Lies(nb, live'[i])
         /\ bufs' \in Seq(Buf)
<1> DEFINE k == todo.k
           b == bufs[k]
           n == Len(Head(todo.pieces))
           nb == bufs'[k]
<1>0. /\ k \in 1..Len(bufs) /\ n \in Nat /\ bufs \in Seq(Buf) /\ b \in Buf /\ Len(bufs) \in Nat
      /\ b.len \in Nat /\ b.cap \in Nat /\ b.len < b.cap /\ b.offset \in Nat /\ b.region \in Nat \ {0}
      /\ IInv
  <2>1. ~Idle
    BY DEF jbuf_raw
  <2> QED BY <2>1, Pending, BufTypes DEF TextsInv, BufsInv
<1>1. ASSUME NEW c \in Buf, bufs' = [bufs EXCEPT ![k] = c]
      PROVE  /\ nb = c /\ Len(bufs') = Len(bufs) /\ bufs' \in Seq(Buf)
             /\ \A j \in 1..Len(bufs) : j # k => bufs'[j] = bufs[j]
  BY <1>0, <1>1
<1>2. CASE ~Full(b, n) /\ bufs' = [bufs EXCEPT ![k].len = @ + n] /\ UNCHANGED vars
  <2> DEFINE c == [b EXCEPT !.len = @ + n]
  <2>1. /\ c \in Buf /\ c.len = b.len + n /\ c.region = b.region /\ c.offset = b.offset
        /\ c.cap = b.cap
    <3>1. \A x \in Buf, m \in Nat :
            LET y == [x EXCEPT !.len = @ + m]
            IN  /\ y \in Buf /\ y.len = x.len + m /\ y.region = x.region
                /\ y.offset = x.offset /\ y.cap = x.cap
      BY DEF Buf
    <3> HIDE DEF b, n
    <3> QED BY <1>0, <3>1
  <2>2. bufs' = [bufs EXCEPT ![k] = c]
    BY <1>0, <1>2
  <2> HIDE DEF c
  <2>3. /\ nb = c /\ Len(bufs') = Len(bufs) /\ bufs' \in Seq(Buf)
        /\ \A j \in 1..Len(bufs) : j # k => bufs'[j] = bufs[j]
    BY <1>1, <2>1, <2>2
  <2>4. nb.len < nb.cap
    BY <1>0, <1>2, <2>1, <2>3 DEF Full
  <2>5. \A j \in 1..Len(bufs) : j # k => Apart(bufs[j], b) /\ Apart(b, bufs[j])
    BY <1>0 DEF TextsInv, BufsInv
  <2>6. \A j \in 1..Len(bufs) : j # k => Apart(bufs[j], nb) /\ Apart(nb, bufs[j])
    BY <2>1, <2>3, <2>5 DEF Apart
  <2>7. \E i \in 1..Len(live) : Lies(b, live[i])
    BY <1>0 DEF TextsInv, BufsInv
  <2>8. \E i \in 1..Len(live) : Lies(nb, live[i])
    BY <2>1, <2>3, <2>7 DEF Lies
  <2>9. live' = live
    BY <1>2 DEF vars
  <2>10. IInv'
    BY <1>0, <1>2, ArenaStands
  <2> QED BY <2>1, <2>3, <2>4, <2>6, <2>8, <2>9, <2>10
<1>3. CASE /\ Full(b, n) /\ arena_alloc(Larger(b, n))
           /\ bufs' = [bufs EXCEPT ![k] = Newest(b.len + n, Larger(b, n))]
  <2> DEFINE c == Newest(b.len + n, Larger(b, n))
  <2>1. b.len + n \in Nat /\ Larger(b, n) \in Nat /\ b.len + n < Larger(b, n)
    <3>1. \A l, m, x \in Nat : l < x => l + m \in Nat /\ x * 2 + m \in Nat /\ l + m < x * 2 + m
      OBVIOUS
    <3> HIDE DEF b, n
    <3> QED BY <1>0, <3>1 DEF Larger
  <2>2. /\ IInv' /\ c \in Buf /\ c.len = b.len + n /\ c.cap = Larger(b, n)
        /\ \A i \in 1..Len(live) : i \in 1..Len(live') /\ live'[i] = live[i]
        /\ \E i \in 1..Len(live') : Lies(c, live'[i])
        /\ \A j \in 1..Len(bufs) : Apart(bufs[j], c) /\ Apart(c, bufs[j])
    <3>1. arena_alloc(Larger(b, n))
      BY <1>3
    <3> HIDE DEF b, n
    <3> QED BY <2>1, <3>1, NewBlock
  <2> HIDE DEF c
  <2>3. /\ nb = c /\ Len(bufs') = Len(bufs) /\ bufs' \in Seq(Buf)
        /\ \A j \in 1..Len(bufs) : j # k => bufs'[j] = bufs[j]
    BY <1>1, <1>3, <2>2 DEF c
  <2> QED BY <2>1, <2>2, <2>3
<1> QED BY <1>2, <1>3 DEF jbuf_raw

\* The text grows by the piece, and the others stay as they are.
LEMMA RawBytes ==
  ASSUME TextsInv, jbuf_raw
  PROVE  /\ \A j \in 1..Len(bufs) : Stored(bufs[j])'
         /\ \A j \in 1..Len(bufs) :
              Content(bufs[j])' =
                IF j = todo.k THEN Content(bufs[j]) \o Head(todo.pieces) ELSE Content(bufs[j])
<1> DEFINE k == todo.k
           b == bufs[k]
           p == Head(todo.pieces)
           nb == bufs'[k]
           text == Content(b) \o p
<1>0. k \in 1..Len(bufs) /\ p \in Seq(Bytes) /\ b \in Buf /\ b.len \in Nat /\ Len(p) \in Nat
  <2>1. ~Idle
    BY DEF jbuf_raw
  <2> QED BY <2>1, Pending, BufTypes
<1>1. /\ nb \in Buf /\ nb.len = b.len + Len(p) /\ nb.len < nb.cap
      /\ \A j \in 1..Len(bufs) : j # k => bufs'[j] = bufs[j] /\ Apart(bufs[j], nb)
  BY RawBuf
<1>2. heap' = Written(nb, text)
  BY DEF jbuf_raw
<1>3. /\ Len(text) = nb.len
      /\ \A i \in 1..nb.len :
           text[i] = IF i <= b.len THEN Content(b)[i] ELSE p[i - b.len]
  <2>1. PICK S : Content(b) \in Seq(S) /\ Len(Content(b)) = b.len
    BY <1>0, ContentType
  <2>2. \A T : \A x, y \in Seq(T) :
          /\ Len(x \o y) = Len(x) + Len(y)
          /\ \A i \in 1..(Len(x) + Len(y)) :
               (x \o y)[i] = IF i <= Len(x) THEN x[i] ELSE y[i - Len(x)]
    OBVIOUS
  <2>3. Content(b) \in Seq(S \cup Bytes) /\ p \in Seq(S \cup Bytes)
    BY <1>0, <2>1
  <2> HIDE DEF b, p
  <2>4. /\ Len(Content(b) \o p) = b.len + Len(p)
        /\ \A i \in 1..(b.len + Len(p)) :
             (Content(b) \o p)[i] = IF i <= b.len THEN Content(b)[i] ELSE p[i - b.len]
    BY <2>1, <2>2, <2>3
  <2> QED BY <1>1, <2>4 DEF text
<1> HIDE DEF text
<1>4. /\ \A i \in 0..nb.len : Byte(nb, i) \in DOMAIN heap'
      /\ \A i \in 0..(nb.len - 1) : heap'[Byte(nb, i)] = text[i + 1]
      /\ heap'[Byte(nb, nb.len)] = NUL
      /\ \A c \in Buf : Apart(c, nb) /\ c.len < c.cap =>
           \A i \in 0..c.len : Byte(c, i) \in DOMAIN heap =>
             Byte(c, i) \in DOMAIN heap' /\ heap'[Byte(c, i)] = heap[Byte(c, i)]
  BY <1>1, <1>2, <1>3, WrittenBytes
<1>5. ASSUME NEW j \in 1..Len(bufs), j # k
      PROVE  Stored(bufs[j])' /\ Content(bufs[j])' = Content(bufs[j])
  <2> DEFINE c == bufs[j]
  <2>1. /\ c \in Buf /\ c.len \in Nat /\ c.len < c.cap /\ Apart(c, nb) /\ bufs'[j] = c
        /\ Stored(c)
    BY <1>1, <1>5, BufTypes DEF TextsInv, BufsInv
  <2>2. c.len > 0 => \A i \in 0..c.len :
             Byte(c, i) \in DOMAIN heap' /\ heap'[Byte(c, i)] = heap[Byte(c, i)]
    BY <1>4, <2>1 DEF Stored
  <2>3. Stored(bufs[j])'
    <3>1. c.len > 0 => heap'[Byte(c, c.len)] = NUL
      BY <2>1, <2>2 DEF Stored
    <3> QED BY <2>1, <2>2, <3>1 DEF Stored, Byte
  <2>4. \A i \in 1..c.len : heap'[Byte(c, i - 1)] = heap[Byte(c, i - 1)]
    <3> SUFFICES ASSUME NEW i \in 1..c.len PROVE heap'[Byte(c, i - 1)] = heap[Byte(c, i - 1)]
      OBVIOUS
    <3>1. i - 1 \in 0..c.len /\ c.len > 0
      BY <2>1
    <3> QED BY <2>2, <3>1
  <2>5. Content(bufs[j])' = [i \in 1..c.len |-> heap'[Byte(c, i - 1)]]
    BY <2>1 DEF Content, Byte
  <2>6. Content(bufs[j]) = [i \in 1..c.len |-> heap[Byte(c, i - 1)]]
    BY DEF Content
  <2> HIDE DEF c
  <2>7. Content(bufs[j])' = Content(bufs[j])
    BY <2>4, <2>5, <2>6
  <2> QED BY <2>3, <2>7
<1>6. ASSUME NEW j, j = k PROVE Stored(bufs[j])'
  <2>1. bufs'[j] = nb
    BY <1>6
  <2> HIDE DEF nb
  <2> QED BY <1>4, <2>1 DEF Stored, Byte
<1>7. ASSUME NEW j, j = k PROVE Content(bufs[j])' = text
  <2>1. Content(bufs[j])' = [i \in 1..nb.len |-> heap'[Byte(nb, i - 1)]]
    <3>1. bufs'[j] = nb
      BY <1>7
    <3> HIDE DEF nb
    <3> QED BY <3>1 DEF Content, Byte
  <2>2. \A i \in 1..nb.len : heap'[Byte(nb, i - 1)] = text[i]
    <3> SUFFICES ASSUME NEW i \in 1..nb.len PROVE heap'[Byte(nb, i - 1)] = text[i]
      OBVIOUS
    <3>1. i - 1 \in 0..(nb.len - 1) /\ (i - 1) + 1 = i
      BY <1>0, <1>1
    <3> QED BY <1>4, <3>1
  <2>3. \E S : text \in Seq(S)
    <3>1. PICK S : Content(b) \in Seq(S)
      BY <1>0, ContentType
    <3>2. Content(b) \in Seq(S \cup Bytes) /\ p \in Seq(S \cup Bytes)
      BY <1>0, <3>1
    <3>3. text \in Seq(S \cup Bytes)
      BY <3>2 DEF text
    <3> QED BY <3>3
  <2>4. text = [i \in 1..nb.len |-> text[i]]
    BY <1>3, <2>3
  <2> QED BY <2>1, <2>2, <2>4
<1> QED BY <1>5, <1>6, <1>7 DEF text

LEMMA RawTexts == ASSUME TextsInv, jbuf_raw PROVE TextsInv'
<1> DEFINE k == todo.k
           nb == bufs'[k]
<1>1. /\ k \in 1..Len(bufs) /\ Tail(todo.pieces) \in Seq(Seq(Bytes))
      /\ todo \in [k : Nat, pieces : Seq(Seq(Bytes))]
  <2>1. ~Idle
    BY DEF jbuf_raw
  <2> QED BY <2>1, Pending DEF TextsInv, TodoInv
<1>2. /\ IInv' /\ bufs' \in Seq(Buf) /\ Len(bufs') = Len(bufs)
      /\ nb \in Buf /\ nb.len < nb.cap
      /\ \A j \in 1..Len(bufs) : j # k =>
           bufs'[j] = bufs[j] /\ Apart(bufs[j], nb) /\ Apart(nb, bufs[j])
      /\ \A i \in 1..Len(live) : i \in 1..Len(live') /\ live'[i] = live[i]
      /\ \E i \in 1..Len(live') : Lies(nb, live'[i])
  BY RawBuf
<1>3. TodoInv'
  <2>1. todo' = [todo EXCEPT !.pieces = Tail(todo.pieces)]
    BY DEF jbuf_raw
  <2>2. todo' \in [k : Nat, pieces : Seq(Seq(Bytes))] /\ todo'.k = k
    BY <1>1, <2>1
  <2> QED BY <1>1, <1>2, <2>2 DEF TodoInv
<1> HIDE DEF nb, k
<1>4. ASSUME NEW j \in 1..Len(bufs)
      PROVE  /\ bufs'[j].len < bufs'[j].cap
             /\ \E i \in 1..Len(live') : Lies(bufs'[j], live'[i])
             /\ \A m \in 1..Len(bufs) : m # j => Apart(bufs'[m], bufs'[j])
  <2>1. /\ bufs[j].len < bufs[j].cap
        /\ \E i \in 1..Len(live) : Lies(bufs[j], live[i])
        /\ \A m \in 1..Len(bufs) : m # j => Apart(bufs[m], bufs[j])
    BY DEF TextsInv, BufsInv
  <2>2. CASE j = k
    BY <1>2, <2>2 DEF nb
  <2>3. CASE j # k
    <3>1. bufs'[j] = bufs[j]
      BY <1>2, <2>3
    <3>2. \E i \in 1..Len(live') : Lies(bufs'[j], live'[i])
      BY <1>2, <2>1, <3>1
    <3>3. ASSUME NEW m \in 1..Len(bufs), m # j PROVE Apart(bufs'[m], bufs'[j])
      <4>1. CASE m = k
        BY <1>2, <2>3, <3>1, <4>1 DEF nb
      <4>2. CASE m # k
        BY <1>2, <2>1, <3>1, <3>3, <4>2
      <4> QED BY <4>1, <4>2
    <3> QED BY <2>1, <3>1, <3>2, <3>3
  <2> QED BY <2>2, <2>3
<1>5. BufsInv'
  <2>1. \A j \in 1..Len(bufs) : Stored(bufs[j])'
    BY RawBytes
  <2> QED BY <1>2, <1>4, <2>1 DEF BufsInv, Apart, Lies
<1> QED BY <1>2, <1>3, <1>5 DEF TextsInv

LEMMA NewTexts == ASSUME TextsInv, jbuf_new PROVE TextsInv'
<1> DEFINE nb == Newest(0, Capacity)
           n == Len(bufs) + 1
<1>1. /\ Idle /\ arena_alloc(Capacity) /\ bufs' = Append(bufs, nb) /\ heap' = heap /\ todo' = todo
  BY DEF jbuf_new
<1>2. Capacity \in Nat /\ 0 < Capacity
  BY BuildersAssumption
<1>3. /\ IInv' /\ nb \in Buf /\ nb.len = 0 /\ nb.cap = Capacity
      /\ \A i \in 1..Len(live) : i \in 1..Len(live') /\ live'[i] = live[i]
      /\ \E i \in 1..Len(live') : Lies(nb, live'[i])
      /\ \A k \in 1..Len(bufs) : Apart(bufs[k], nb) /\ Apart(nb, bufs[k])
  BY <1>1, <1>2, NewBlock
<1> HIDE DEF nb
<1>4. /\ bufs' \in Seq(Buf) /\ Len(bufs) \in Nat /\ Len(bufs') = n /\ bufs'[n] = nb
      /\ \A j \in 1..Len(bufs) : bufs'[j] = bufs[j]
      /\ \A j \in 1..n : j \in 1..Len(bufs) \/ j = n
      /\ n \notin 1..Len(bufs)
  <2>1. bufs \in Seq(Buf)
    BY DEF TextsInv
  <2> QED BY <1>1, <1>3, <2>1
<1> HIDE DEF n
<1>5. TodoInv'
  BY <1>1 DEF TextsInv, TodoInv, Idle
<1>6. ASSUME NEW j \in 1..n
      PROVE  /\ bufs'[j].len < bufs'[j].cap
             /\ \E i \in 1..Len(live') : Lies(bufs'[j], live'[i])
             /\ \A m \in 1..n : m # j => Apart(bufs'[m], bufs'[j])
  <2>1. CASE j = n
    BY <1>2, <1>3, <1>4, <2>1
  <2>2. CASE j \in 1..Len(bufs)
    <3>1. /\ bufs[j].len < bufs[j].cap
          /\ \E i \in 1..Len(live) : Lies(bufs[j], live[i])
          /\ \A m \in 1..Len(bufs) : m # j => Apart(bufs[m], bufs[j])
      BY <2>2 DEF TextsInv, BufsInv
    <3>2. bufs'[j] = bufs[j]
      BY <1>4, <2>2
    <3>3. ASSUME NEW m \in 1..n, m # j PROVE Apart(bufs'[m], bufs'[j])
      <4>1. CASE m = n
        BY <1>3, <1>4, <2>2, <3>2, <4>1
      <4>2. CASE m \in 1..Len(bufs)
        BY <1>4, <3>1, <3>2, <3>3, <4>2
      <4> QED BY <1>4, <4>1, <4>2
    <3> QED BY <1>3, <3>1, <3>2, <3>3
  <2> QED BY <1>4, <2>1, <2>2
<1>7. ASSUME NEW j \in 1..n PROVE Stored(bufs[j])'
  <2>1. CASE j = n
    BY <1>3, <1>4, <2>1 DEF Stored
  <2>2. CASE j \in 1..Len(bufs)
    <3>1. Stored(bufs[j]) /\ bufs'[j] = bufs[j]
      BY <1>4, <2>2 DEF TextsInv, BufsInv
    <3> QED BY <1>1, <3>1 DEF Stored, Byte
  <2> QED BY <1>4, <2>1, <2>2
<1>8. BufsInv'
  BY <1>4, <1>6, <1>7 DEF BufsInv, Apart, Lies
<1> QED BY <1>3, <1>4, <1>5, <1>8 DEF TextsInv

\* The texts and their blocks stay as they are.
LEMMA TextsStand ==
  ASSUME TextsInv, IInv', UNCHANGED <<bufs, heap, live>>, TodoInv'
  PROVE  TextsInv'
  BY DEF TextsInv, BufsInv, Stored, Byte, Lies, Apart

LEMMA BuilderTexts == ASSUME TextsInv, BuilderStep PROVE TextsInv'
<1>1. ASSUME NEW k \in 1..Len(bufs), NEW item,
             NEW pieces \in Seq(Seq(Bytes)), Begin(k, pieces, item)
      PROVE  TextsInv'
  <2>1. /\ todo' = [k |-> k, pieces |-> pieces] /\ UNCHANGED <<vars, bufs, heap>>
    BY <1>1 DEF Begin
  <2>2. k \in Nat /\ IInv
    BY BufTypes DEF TextsInv
  <2>3. IInv' /\ live' = live
    BY <2>1, <2>2, ArenaStands DEF vars
  <2>4. TodoInv'
    BY <2>1, <2>2 DEF TodoInv
  <2> QED BY <2>1, <2>3, <2>4, TextsStand
<1>2. ASSUME NEW k \in 1..Len(bufs), NEW s \in Strings, jbuf_str(k, s) PROVE TextsInv'
  BY <1>1, <1>2, QuotedPieces DEF jbuf_str
<1>3. ASSUME NEW k \in 1..Len(bufs), NEW p \in Pieces, jbuf_cstr(k, p) PROVE TextsInv'
  BY <1>1, <1>3, PieceBytes DEF jbuf_cstr
<1> QED BY <1>2, <1>3, RawTexts, NewTexts DEF BuilderStep

----------------------------------------------------------------------------
(* The steps of the instance and its host *)

LEMMA AnswerTexts == ASSUME TextsInv, Answer PROVE TextsInv'
<1>1. arena_rewind(Len(marks)) /\ bufs' = <<>> /\ todo' = NoCall
  BY DEF Answer, Rewind
<1>2. IInv'
  <2>1. Len(marks) \in 1..Len(marks)
    BY <1>1 DEF arena_rewind
  <2>2. Next
    BY <1>1, <2>1 DEF Next
  <2> QED BY <2>2, NextInv DEF TextsInv
<1>3. bufs' \in Seq(Buf) /\ Len(bufs') = 0
  BY <1>1
<1>4. TodoInv'
  <2>1. NoCall \in [k : Nat, pieces : Seq(Seq(Bytes))] /\ NoCall.pieces = <<>>
    BY DEF NoCall
  <2> QED BY <1>1, <2>1 DEF TodoInv, Idle
<1> QED BY <1>2, <1>3, <1>4 DEF TextsInv, BufsInv

LEMMA TextsInvInit == ReactorInit => TextsInv
<1> SUFFICES ASSUME ReactorInit PROVE TextsInv
  OBVIOUS
<1>1. Init /\ bufs = <<>> /\ todo = NoCall
  BY DEF ReactorInit, BuilderInit
<1>2. IInv
  BY <1>1, InitInv
<1>3. bufs \in Seq(Buf) /\ Len(bufs) = 0
  BY <1>1
<1>4. TodoInv
  <2>1. NoCall \in [k : Nat, pieces : Seq(Seq(Bytes))] /\ NoCall.pieces = <<>>
    BY DEF NoCall
  <2> QED BY <1>1, <2>1 DEF TodoInv, Idle
<1> QED BY <1>2, <1>3, <1>4 DEF TextsInv, BufsInv

LEMMA TextsInvNext == TextsInv /\ [ReactorNext]_reactorVars => TextsInv'
<1> SUFFICES ASSUME TextsInv, [ReactorNext]_reactorVars PROVE TextsInv'
  OBVIOUS
<1>1. CASE mcp_init \/ HostAllocates \/ UNCHANGED reactorVars
  <2>1. UNCHANGED <<vars, builderVars>>
    BY <1>1 DEF mcp_init, HostAllocates, reactorVars
  <2>2. IInv' /\ TodoInv'
    BY <2>1, ArenaStands DEF TextsInv, TodoInv, Idle, builderVars
  <2> QED BY <2>1, <2>2, TextsStand DEF vars, builderVars
<1>2. CASE mcp_handle_wasm
  <2>1. arena_snapshot /\ UNCHANGED builderVars
    BY <1>2 DEF mcp_handle_wasm
  <2>2. IInv' /\ live' = live
    BY <2>1, SnapshotInv DEF TextsInv, arena_snapshot
  <2>3. TodoInv'
    BY <2>1 DEF TextsInv, TodoInv, Idle, builderVars
  <2> QED BY <2>1, <2>2, <2>3, TextsStand DEF builderVars
<1>3. CASE mcp_handle
  BY <1>3, BuilderTexts DEF mcp_handle
<1> QED BY <1>1, <1>2, <1>3, AnswerTexts DEF ReactorNext

LEMMA TextsAlways == ReactorSpec => []TextsInv
  BY TextsInvInit, TextsInvNext, PTL DEF ReactorSpec

\* Every text that jbuf_new began and jbuf_raw appended to has its NUL behind
\* it, inside the block arena_alloc gave for it, however often any of them moved.
THEOREM ReactorTextsEnd == ReactorSpec => []TextsEnd
<1>1. TextsInv => TextsEnd
  <2> SUFFICES ASSUME TextsInv, NEW k \in 1..Len(bufs)
               PROVE  LET b == bufs[k] IN
                      /\ b.len < b.cap
                      /\ b.len > 0 => heap[Byte(b, b.len)] = NUL
                      /\ \E i \in 1..Len(live) :
                           /\ live[i].region = b.region
                           /\ live[i].offset * WordBytes = b.offset
                           /\ b.cap <= live[i].words * WordBytes
    BY DEF TextsEnd
  <2> QED BY DEF TextsInv, BufsInv, Stored, Lies
<1> QED BY <1>1, TextsAlways, PTL

\* A step of a request that touches texts appends one piece to one of them, also
\* when it moves, and leaves every byte of the others alone.
TextsOnlyGrow ==
    [][\A k \in 1..Len(bufs) :
         \/ Content(bufs[k])' = Content(bufs[k])
         \/ /\ jbuf_raw /\ k = todo.k
            /\ Content(bufs[k])' = Content(bufs[k]) \o Head(todo.pieces)
         \/ Answer]_reactorVars

\* What jbuf_raw does to the texts of a request while several of them grow in
\* turn, whatever is appended and whichever of them moves.
THEOREM ReactorTextsOnlyGrow == ReactorSpec => TextsOnlyGrow
<1>1. ASSUME TextsInv, [ReactorNext]_reactorVars, NEW k \in 1..Len(bufs)
      PROVE  \/ Content(bufs[k])' = Content(bufs[k])
             \/ /\ jbuf_raw /\ k = todo.k
                /\ Content(bufs[k])' = Content(bufs[k]) \o Head(todo.pieces)
             \/ Answer
  <2>1. ASSUME bufs'[k] = bufs[k], heap' = heap PROVE Content(bufs[k])' = Content(bufs[k])
    BY <2>1 DEF Content, Byte
  <2>2. CASE mcp_init \/ HostAllocates \/ mcp_handle_wasm \/ UNCHANGED reactorVars
    BY <2>1, <2>2 DEF mcp_init, HostAllocates, mcp_handle_wasm, reactorVars, builderVars
  <2>3. CASE mcp_handle
    <3>1. CASE jbuf_raw
      BY <1>1, <3>1, RawBytes
    <3>2. CASE jbuf_new
      <4>1. bufs \in Seq(Buf) /\ heap' = heap /\ \E b : bufs' = Append(bufs, b)
        BY <1>1, <3>2 DEF jbuf_new, TextsInv
      <4>2. bufs'[k] = bufs[k]
        BY <4>1
      <4>3. Content(bufs[k])' = Content(bufs[k])
        BY <4>1, <4>2, <2>1
      <4> QED BY <4>3
    <3>3. ASSUME NEW j, \/ \E s \in Strings : jbuf_str(j, s)
                        \/ \E p \in Pieces : jbuf_cstr(j, p)
          PROVE  Content(bufs[k])' = Content(bufs[k])
      BY <2>1, <3>3 DEF jbuf_str, jbuf_cstr, Begin
    <3>4. \/ jbuf_new \/ jbuf_raw
          \/ \E j : \/ \E s \in Strings : jbuf_str(j, s)
                    \/ \E p \in Pieces : jbuf_cstr(j, p)
      BY <2>3 DEF mcp_handle, BuilderStep
    <3> QED BY <3>1, <3>2, <3>3, <3>4
  <2> QED BY <1>1, <2>2, <2>3 DEF ReactorNext
<1>2. TextsInv /\ [ReactorNext]_reactorVars =>
        [\A k \in 1..Len(bufs) :
           \/ Content(bufs[k])' = Content(bufs[k])
           \/ /\ jbuf_raw /\ k = todo.k
              /\ Content(bufs[k])' = Content(bufs[k]) \o Head(todo.pieces)
           \/ Answer]_reactorVars
  BY <1>1
<1> QED BY <1>2, TextsAlways, PTL DEF ReactorSpec, TextsOnlyGrow

----------------------------------------------------------------------------
(* The way of a request *)

Items == [string : Strings] \cup [piece : Pieces]
Spelt(item) == IF "string" \in DOMAIN item THEN Quoted(item.string) ELSE <<item.piece>>

Scripts == Seq(Seq(Seq(Items)))

\* Where a request stands: its place in the arena, how large its texts are and
\* can be, and what it has appended and has still to append.
Points ==
    [at : Places, texts : Seq([len : Nat, cap : Nat]),
     todo : [k : Nat, pieces : Seq(Seq(Bytes))], said : Seq(Seq(Items)), script : Scripts]

Outset == [at |-> Start, texts |-> <<>>, todo |-> NoCall, said |-> <<>>, script |-> <<>>]

Size(b) == [len |-> b.len, cap |-> b.cap]
SizesOf(bs) == [k \in 1..Len(bs) |-> Size(bs[k])]

Here == [at |-> Place, texts |-> SizesOf(bufs), todo |-> todo, said |-> said, script |-> script]

\* jbuf_raw, jbuf_new, and the calls of jbuf_str and jbuf_cstr take a request
\* from p to q among the regions rs.
AppendsPiece(rs, p, q) ==
    /\ p.todo.pieces # <<>> /\ p.todo.k \in 1..Len(p.texts)
    /\ LET b == p.texts[p.todo.k]
           n == Len(Head(p.todo.pieces))
       IN  IF Full(b, n)
           THEN /\ Moves(rs, p.at, Words(Larger(b, n)), q.at)
                /\ q.texts = [p.texts EXCEPT ![p.todo.k] = [len |-> b.len + n, cap |-> Larger(b, n)]]
           ELSE /\ q.at = p.at
                /\ q.texts = [p.texts EXCEPT ![p.todo.k] = [len |-> b.len + n, cap |-> b.cap]]
    /\ q.todo = [k |-> p.todo.k, pieces |-> Tail(p.todo.pieces)]
    /\ q.said = p.said /\ q.script = p.script

BeginsText(rs, p, q) ==
    /\ p.todo.pieces = <<>>
    /\ Moves(rs, p.at, Words(Capacity), q.at)
    /\ q.texts = Append(p.texts, [len |-> 0, cap |-> Capacity])
    /\ q.todo = p.todo
    /\ q.said = Append(p.said, <<>>) /\ q.script = Append(p.script, q.said)

Calls(p, q, k, item) ==
    /\ p.todo.pieces = <<>>
    /\ q.at = p.at /\ q.texts = p.texts
    /\ q.todo = [k |-> k, pieces |-> Spelt(item)]
    /\ q.said = [p.said EXCEPT ![k] = Append(@, item)] /\ q.script = Append(p.script, q.said)

Goes(rs, p, q) ==
    \/ AppendsPiece(rs, p, q)
    \/ BeginsText(rs, p, q)
    \/ \E k \in 1..Len(p.said), item \in Items : Calls(p, q, k, item)

\* From p there is one way on for a request with the script s, it stays in V, and
\* no regions that are added turn it aside.
Onward(rs, V, s, p) ==
    \A rs2 \in Seq(Region), q \in Points :
      Grown(rs, rs2) /\ Goes(rs2, p, q) /\ IsPrefixOf(q.script, s) => q \in V /\ Goes(rs, p, q)

----------------------------------------------------------------------------
(* There is one way on *)

LEMMA PointFields ==
  ASSUME NEW p \in Points
  PROVE  /\ p = [at |-> p.at, texts |-> p.texts, todo |-> p.todo, said |-> p.said, script |-> p.script]
         /\ p.at \in Places /\ p.texts \in Seq([len : Nat, cap : Nat])
         /\ p.todo \in [k : Nat, pieces : Seq(Seq(Bytes))]
         /\ p.said \in Seq(Seq(Items)) /\ p.script \in Scripts
  BY DEF Points

LEMMA PiecesWords ==
  ASSUME NEW p \in Points, p.todo.pieces # <<>>, p.todo.k \in 1..Len(p.texts)
  PROVE  LET b == p.texts[p.todo.k]
             n == Len(Head(p.todo.pieces))
         IN  n \in Nat /\ b \in [len : Nat, cap : Nat] /\ Words(Larger(b, n)) \in Nat
<1> DEFINE b == p.texts[p.todo.k]
           n == Len(Head(p.todo.pieces))
           B == Seq(Bytes)
<1>1. p.todo.pieces \in Seq(B) /\ p.texts \in Seq([len : Nat, cap : Nat])
  BY PointFields
<1>2. \A x \in B : Len(x) \in Nat
  OBVIOUS
<1> HIDE DEF B
<1>3. Head(p.todo.pieces) \in B
  BY <1>1
<1>4. n \in Nat /\ b \in [len : Nat, cap : Nat]
  <2> DEFINE R == [len : Nat, cap : Nat]
  <2>1. n \in Nat
    BY <1>2, <1>3
  <2>2. p.texts \in Seq(R)
    BY <1>1
  <2> HIDE DEF R
  <2>3. b \in R
    BY <2>2
  <2> QED BY <2>1, <2>3 DEF R
<1> HIDE DEF b, n
<1>5. \A c \in [len : Nat, cap : Nat], m \in Nat : c.cap * 2 + m \in Nat
  OBVIOUS
<1>6. Larger(b, n) \in Nat
  BY <1>4, <1>5 DEF Larger
<1> QED BY <1>4, <1>6, WordsType DEF b, n

\* What was appended last is all that differs.
LEMMA LastAppended ==
  ASSUME NEW S, NEW s \in Seq(Seq(S)), NEW j \in 1..Len(s), NEW k \in 1..Len(s), NEW x \in S, NEW y \in S,
         [s EXCEPT ![j] = Append(@, x)] = [s EXCEPT ![k] = Append(@, y)]
  PROVE  j = k /\ x = y
<1> DEFINE T == Seq(S)
           u == [s EXCEPT ![j] = Append(s[j], x)]
           v == [s EXCEPT ![k] = Append(s[k], y)]
<1>1. s[j] \in T /\ s[k] \in T /\ s \in Seq(T)
  OBVIOUS
<1>2. Append(s[j], x) \in T /\ Append(s[k], y) \in T
  BY <1>1
<1>3. \A t \in Seq(S), z \in S : Len(Append(t, z)) = Len(t) + 1 /\ Append(t, z)[Len(t) + 1] = z /\ Len(t) \in Nat
  OBVIOUS
<1>4. Append(s[j], x) # s[j]
  BY <1>1, <1>3
<1>5. u = v
  OBVIOUS
<1> HIDE DEF T
<1>6. /\ u[j] = Append(s[j], x)
      /\ j # k => v[j] = s[j]
      /\ j = k => v[j] = Append(s[j], y)
  BY <1>1, <1>2
<1>7. j = k
  BY <1>4, <1>5, <1>6
<1>8. Append(s[j], x) = Append(s[j], y)
  BY <1>5, <1>6, <1>7
<1>9. s[j] \in Seq(S)
  BY <1>1 DEF T
<1> QED BY <1>3, <1>7, <1>8, <1>9

LEMMA SamePrefix ==
  ASSUME NEW S, NEW a \in Seq(S), NEW b \in Seq(S), NEW s, IsPrefixOf(a, s), IsPrefixOf(b, s), Len(a) = Len(b)
  PROVE  a = b
  BY DEF IsPrefixOf

LEMMA LastOf ==
  ASSUME NEW S, NEW s \in Seq(S), NEW x \in S, NEW y \in S
  PROVE  /\ Append(s, x) \in Seq(S) /\ Len(Append(s, x)) = Len(s) + 1 /\ Len(s) \in Nat
         /\ Append(s, x) = Append(s, y) => x = y
  OBVIOUS

\* A step of the request lengthens its script or not.
LEMMA GoesScript ==
  ASSUME NEW p \in Points, NEW q \in Points, NEW rs, Goes(rs, p, q)
  PROVE  IF p.todo.pieces # <<>> THEN AppendsPiece(rs, p, q) /\ q.script = p.script
         ELSE /\ q.script = Append(p.script, q.said) /\ ~AppendsPiece(rs, p, q)
              /\ Len(q.script) = Len(p.script) + 1 /\ Len(p.script) \in Nat
<1>1. p.script \in Seq(Seq(Seq(Items))) /\ q.said \in Seq(Seq(Items))
  BY PointFields DEF Scripts
<1>2. Len(Append(p.script, q.said)) = Len(p.script) + 1 /\ Len(p.script) \in Nat
  BY <1>1, LastOf
<1> QED BY <1>2 DEF Goes, AppendsPiece, BeginsText, Calls

LEMMA OneWay ==
  ASSUME NEW rs \in Seq(Region), NEW p \in Points, NEW q \in Points, NEW r \in Points,
         Goes(rs, p, q), Goes(rs, p, r),
         NEW s, IsPrefixOf(q.script, s), IsPrefixOf(r.script, s)
  PROVE  q = r
<1>0. /\ p.at \in Places /\ p.said \in Seq(Seq(Items)) /\ p.script \in Seq(Seq(Seq(Items)))
      /\ q.said \in Seq(Seq(Items)) /\ r.said \in Seq(Seq(Items))
      /\ q.script \in Seq(Seq(Seq(Items))) /\ r.script \in Seq(Seq(Seq(Items)))
  BY PointFields DEF Scripts
<1>1. SUFFICES q.at = r.at /\ q.texts = r.texts /\ q.todo = r.todo /\ q.said = r.said /\ q.script = r.script
  BY PointFields, Zenon
<1>2. CASE p.todo.pieces # <<>>
  <2>1. AppendsPiece(rs, p, q) /\ AppendsPiece(rs, p, r)
    BY <1>2, GoesScript
  <2>2. LET w == Words(Larger(p.texts[p.todo.k], Len(Head(p.todo.pieces))))
        IN  Moves(rs, p.at, w, q.at) /\ Moves(rs, p.at, w, r.at) => q.at = r.at
    BY <1>0, <2>1, PiecesWords, MovesUnique DEF AppendsPiece
  <2> QED BY <2>1, <2>2 DEF AppendsPiece
<1>3. CASE p.todo.pieces = <<>>
  <2>1. /\ q.script = Append(p.script, q.said) /\ r.script = Append(p.script, r.said)
        /\ Len(q.script) = Len(r.script) /\ ~AppendsPiece(rs, p, q) /\ ~AppendsPiece(rs, p, r)
    BY <1>3, GoesScript
  <2>2. q.script = r.script
    BY <1>0, <2>1, SamePrefix
  <2>3. q.said = r.said
    <3> DEFINE S == Seq(Seq(Items))
    <3>1. p.script \in Seq(S) /\ q.said \in S /\ r.said \in S
      BY <1>0
    <3> HIDE DEF S
    <3>2. Append(p.script, q.said) = Append(p.script, r.said)
      BY <2>1, <2>2
    <3> QED BY <3>1, <3>2, LastOf
  <2>4. ASSUME NEW a, NEW b, BeginsText(rs, p, a), NEW k \in 1..Len(p.said), NEW item \in Items,
               Calls(p, b, k, item), a.said = b.said
        PROVE  FALSE
    <3>1. a.said = Append(p.said, <<>>) /\ b.said = [p.said EXCEPT ![k] = Append(@, item)]
      BY <2>4 DEF BeginsText, Calls
    <3>2. /\ Len(Append(p.said, <<>>)) = Len(p.said) + 1
          /\ Len([p.said EXCEPT ![k] = Append(@, item)]) = Len(p.said) /\ Len(p.said) \in Nat
      <4> DEFINE T == Seq(Items)
                 t == p.said
      <4>1. Append(t[k], item) \in T /\ <<>> \in T
        BY <1>0
      <4>2. t \in Seq(T)
        BY <1>0
      <4> HIDE DEF T, t
      <4>3. Len([t EXCEPT ![k] = Append(t[k], item)]) = Len(t) /\ Len(Append(t, <<>>)) = Len(t) + 1
        BY <4>1, <4>2
      <4>4. Len(t) \in Nat
        BY <4>2
      <4> QED BY <4>3, <4>4 DEF t
    <3>3. Len(a.said) = Len(p.said) + 1 /\ Len(b.said) = Len(p.said)
      BY <3>1, <3>2
    <3> QED BY <2>4, <3>2, <3>3
  <2>5. CASE BeginsText(rs, p, q) /\ BeginsText(rs, p, r)
    <3>1. Words(Capacity) \in Nat
      BY BuildersAssumption, WordsType
    <3>2. q.at = r.at
      BY <1>0, <2>5, <3>1, MovesUnique DEF BeginsText
    <3> QED BY <2>2, <2>3, <2>5, <3>2 DEF BeginsText
  <2>6. ASSUME NEW j \in 1..Len(p.said), NEW k \in 1..Len(p.said), NEW x \in Items, NEW y \in Items,
               Calls(p, q, j, x), Calls(p, r, k, y)
        PROVE  q.at = r.at /\ q.texts = r.texts /\ q.todo = r.todo
    <3>1. [p.said EXCEPT ![j] = Append(@, x)] = [p.said EXCEPT ![k] = Append(@, y)]
      BY <2>3, <2>6 DEF Calls
    <3>2. j = k /\ x = y
      <4> DEFINE S == Items
                 t == p.said
      <4>1. t \in Seq(Seq(S)) /\ x \in S /\ y \in S
        BY <1>0
      <4>2. [t EXCEPT ![j] = Append(@, x)] = [t EXCEPT ![k] = Append(@, y)]
        BY <3>1
      <4> HIDE DEF S, t
      <4>3. j \in 1..Len(t) /\ k \in 1..Len(t)
        BY DEF t
      <4> QED BY <4>1, <4>2, <4>3, LastAppended
    <3> QED BY <2>6, <3>2 DEF Calls
  <2> QED BY <2>1, <2>2, <2>3, <2>4, <2>5, <2>6 DEF Goes
<1> QED BY <1>2, <1>3

LEMMA GrownOn ==
  ASSUME NEW rs \in Seq(Region), NEW rs2 \in Seq(Region), NEW rs3 \in Seq(Region), Grown(rs, rs2), Grown(rs2, rs3)
  PROVE  Grown(rs, rs3)
  BY RegionTypes DEF Grown

LEMMA GoesGrown ==
  ASSUME NEW rs \in Seq(Region), NEW rs2 \in Seq(Region), Grown(rs, rs2),
         NEW p \in Points, NEW q, Goes(rs, p, q)
  PROVE  Goes(rs2, p, q)
<1>0. p.at \in Places
  BY PointFields
<1>1. CASE AppendsPiece(rs, p, q)
  <2>1. LET w == Words(Larger(p.texts[p.todo.k], Len(Head(p.todo.pieces))))
        IN  Moves(rs, p.at, w, q.at) => Moves(rs2, p.at, w, q.at)
    BY <1>0, <1>1, PiecesWords, MovesGrown DEF AppendsPiece
  <2> QED BY <1>1, <2>1 DEF AppendsPiece, Goes
<1>2. CASE BeginsText(rs, p, q)
  <2>1. Words(Capacity) \in Nat
    BY BuildersAssumption, WordsType
  <2>2. Moves(rs2, p.at, Words(Capacity), q.at)
    BY <1>0, <1>2, <2>1, MovesGrown DEF BeginsText
  <2> QED BY <1>2, <2>2 DEF BeginsText, Goes
<1> QED BY <1>1, <1>2 DEF Goes

LEMMA OnwardGrown ==
  ASSUME NEW rs \in Seq(Region), NEW rs2 \in Seq(Region), Grown(rs, rs2),
         NEW V, NEW W, V \subseteq W, NEW s, NEW p \in Points, Onward(rs, V, s, p)
  PROVE  Onward(rs2, W, s, p)
<1> SUFFICES ASSUME NEW rs3 \in Seq(Region), NEW q \in Points,
                    Grown(rs2, rs3), Goes(rs3, p, q), IsPrefixOf(q.script, s)
             PROVE  q \in W /\ Goes(rs2, p, q)
  BY DEF Onward
<1>1. Grown(rs, rs3)
  BY GrownOn
<1>2. q \in V /\ Goes(rs, p, q)
  BY <1>1 DEF Onward
<1> QED BY <1>2, GoesGrown

----------------------------------------------------------------------------
(* A request on its way *)

\* What a request has said, and the mark it began at.
RequestInv ==
    /\ said \in Seq(Seq(Items)) /\ Len(said) = Len(bufs) /\ script \in Scripts
    /\ phase = "handling" =>
         marks # <<>> /\ marks[Len(marks)].region \in {0, 1} /\ marks[Len(marks)].count = 0
    /\ phase # "handling" => Place = Start /\ bufs = <<>> /\ said = <<>> /\ todo = NoCall

\* The points the request has passed.  Each has its one way on, but for the last.
Passed(V) ==
    /\ V \subseteq Points /\ Outset \in V /\ Here \in V
    /\ \A p \in V :
         \/ p = Here
         \/ /\ Len(p.script) <= Len(script)
            /\ Len(p.script) < Len(script) \/ p.todo.pieces # <<>>
            /\ Onward(regions, V, script, p)

\* The points of a request whose answer was lost, with the present one among
\* them as long as it appends the same.
Remembered(W) ==
    /\ W \subseteq Points /\ Outset \in W
    /\ \A p \in W : Onward(regions, W, lost, p)
    /\ phase = "handling" /\ IsPrefixOf(script, lost) => Here \in W

WayInv ==
    /\ phase = "handling" => \E V : Passed(V)
    /\ lost # NoRequest => lost \in Scripts /\ \E W : Remembered(W)

LEMMA OutsetIsPoint == Outset \in Points
<1>1. /\ Start \in Places /\ NoCall \in [k : Nat, pieces : Seq(Seq(Bytes))]
      /\ <<>> \in Seq([len : Nat, cap : Nat]) /\ <<>> \in Seq(Seq(Items)) /\ <<>> \in Scripts
  BY DEF Start, Places, NoCall, Scripts
<1> QED BY <1>1 DEF Outset, Points

LEMMA SizesType ==
  ASSUME NEW s \in Seq(Buf)
  PROVE  /\ SizesOf(s) \in Seq([len : Nat, cap : Nat]) /\ Len(SizesOf(s)) = Len(s)
         /\ \A k \in 1..Len(s) : SizesOf(s)[k] = Size(s[k]) /\ Size(s[k]) \in [len : Nat, cap : Nat]
<1> DEFINE R == [len : Nat, cap : Nat]
<1>1. \A k \in 1..Len(s) : Size(s[k]) \in R
  <2>1. \A k \in 1..Len(s) : s[k] \in Buf
    OBVIOUS
  <2>2. \A b \in Buf : Size(b) \in R
    BY DEF Buf, Size
  <2> QED BY <2>1, <2>2
<1> HIDE DEF R
<1>2. Len(s) \in Nat
  OBVIOUS
<1>3. SizesOf(s) \in Seq(R) /\ Len(SizesOf(s)) = Len(s)
  BY <1>1, <1>2 DEF SizesOf
<1>4. \A k \in 1..Len(s) : SizesOf(s)[k] = Size(s[k])
  BY DEF SizesOf
<1> QED BY <1>1, <1>3, <1>4 DEF R

LEMMA OneResized ==
  ASSUME NEW s \in Seq(Buf), NEW t \in Seq(Buf), NEW k \in 1..Len(s), Len(t) = Len(s),
         \A j \in 1..Len(s) : j # k => t[j] = s[j]
  PROVE  SizesOf(t) = [SizesOf(s) EXCEPT ![k] = Size(t[k])]
<1>1. SizesOf(t) = [j \in 1..Len(s) |-> IF j = k THEN Size(t[k]) ELSE Size(s[j])]
  BY DEF SizesOf
<1> QED BY <1>1 DEF SizesOf

LEMMA OneMore ==
  ASSUME NEW s \in Seq(Buf), NEW b \in Buf
  PROVE  SizesOf(Append(s, b)) = Append(SizesOf(s), Size(b))
<1> DEFINE R == [len : Nat, cap : Nat]
           t == SizesOf(Append(s, b))
           u == Append(SizesOf(s), Size(b))
<1>1. /\ Append(s, b) \in Seq(Buf) /\ Len(Append(s, b)) = Len(s) + 1 /\ Len(s) \in Nat
      /\ Append(s, b)[Len(s) + 1] = b
      /\ \A k \in 1..Len(s) : Append(s, b)[k] = s[k]
  OBVIOUS
<1>2. /\ t \in Seq(R) /\ Len(t) = Len(s) + 1
      /\ \A k \in 1..(Len(s) + 1) : t[k] = Size(Append(s, b)[k])
  BY <1>1, SizesType
<1>3. SizesOf(s) \in Seq(R) /\ Len(SizesOf(s)) = Len(s) /\ \A k \in 1..Len(s) : SizesOf(s)[k] = Size(s[k])
  BY SizesType
<1>4. Size(b) \in R
  BY DEF Buf, Size
<1> HIDE DEF R
<1>5. /\ u \in Seq(R) /\ Len(u) = Len(s) + 1 /\ u[Len(s) + 1] = Size(b)
      /\ \A k \in 1..Len(s) : u[k] = Size(s[k])
  BY <1>1, <1>3, <1>4
<1> HIDE DEF t, u
<1>6. \A k \in 1..(Len(s) + 1) : t[k] = u[k]
  BY <1>1, <1>2, <1>5
<1>7. t = u
  BY <1>2, <1>5, <1>6, SeqEqual, Zenon
<1> QED BY <1>7 DEF t, u

LEMMA PlaceType == ASSUME IInv PROVE Place \in Places
<1>1. regions \in Seq(Region) /\ end \in 0..Len(regions)
  BY Positions DEF IInv, TypeOK
<1>2. end # 0 => end \in 1..Len(regions) /\ regions[end].count \in Nat
  BY <1>1, RegionTypes
<1> QED BY <1>1, <1>2 DEF Place, Places, Start

LEMMA HereIsPoint ==
  ASSUME TextsInv, said \in Seq(Seq(Items)), script \in Scripts
  PROVE  Here \in Points
<1>1. /\ Place \in Places /\ todo \in [k : Nat, pieces : Seq(Seq(Bytes))]
      /\ SizesOf(bufs) \in Seq([len : Nat, cap : Nat])
  BY PlaceType, SizesType DEF TextsInv, TodoInv
<1> QED BY <1>1 DEF Here, Points

\* What a call appends, and that it can be told from the other.
LEMMA ItemTypes ==
  /\ \A s \in Strings : [string |-> s] \in Items /\ Spelt([string |-> s]) = Quoted(s)
  /\ \A p \in Pieces : [piece |-> p] \in Items /\ Spelt([piece |-> p]) = <<p>>
<1>1. \A s : "string" \in DOMAIN [string |-> s] /\ [string |-> s].string = s
  OBVIOUS
<1>2. \A p : "string" \notin DOMAIN [piece |-> p] /\ [piece |-> p].piece = p
  OBVIOUS
<1> QED BY <1>1, <1>2 DEF Items, Spelt

\* The three steps of the builder go on from a point, and only a move of the
\* walk that no region there is allows adds one.
LEMMA RawGoes ==
  ASSUME TextsInv, jbuf_raw, script' = script
  PROVE  /\ AppendsPiece(regions', Here, Here')
         /\ Grown(regions, regions')
         /\ AppendsPiece(regions, Here, Here') => Len(regions') = Len(regions)
<1> DEFINE k == todo.k
           b == bufs[k]
           n == Len(Head(todo.pieces))
           c == SizesOf(bufs)[k]
<1>0. /\ IInv /\ k \in 1..Len(bufs) /\ todo.pieces # <<>> /\ n \in Nat /\ Len(bufs) \in Nat
      /\ b \in Buf /\ regions \in Seq(Region) /\ b.len \in Nat /\ b.cap \in Nat /\ bufs \in Seq(Buf)
  BY Pending, BufTypes DEF jbuf_raw, Idle, TextsInv, IInv, TypeOK
<1>1. /\ Len(bufs') = Len(bufs) /\ bufs' \in Seq(Buf) /\ said' = said
      /\ \A j \in 1..Len(bufs) : j # k => bufs'[j] = bufs[j]
      /\ bufs'[k].len = b.len + n
  BY RawBuf DEF jbuf_raw
<1>2. todo' = [k |-> k, pieces |-> Tail(todo.pieces)]
  <2>1. todo \in [k : Nat, pieces : Seq(Seq(Bytes))] /\ todo' = [todo EXCEPT !.pieces = Tail(@)]
    BY DEF jbuf_raw, TextsInv, TodoInv
  <2> QED BY <2>1
<1>3. SizesOf(bufs') = [SizesOf(bufs) EXCEPT ![k] = Size(bufs'[k])]
  <2> DEFINE t == bufs'
  <2>1. t \in Seq(Buf) /\ Len(t) = Len(bufs) /\ \A j \in 1..Len(bufs) : j # k => t[j] = bufs[j]
    BY <1>1
  <2> HIDE DEF t, k
  <2>2. SizesOf(t) = [SizesOf(bufs) EXCEPT ![k] = Size(t[k])]
    BY <1>0, <2>1, OneResized
  <2> QED BY <2>2 DEF t
<1>4. /\ k \in 1..Len(SizesOf(bufs)) /\ c.len = b.len /\ c.cap = b.cap
      /\ Full(c, n) <=> Full(b, n)
      /\ Larger(c, n) = Larger(b, n)
  <2>1. Len(SizesOf(bufs)) = Len(bufs) /\ c = Size(b)
    BY <1>0, SizesType
  <2>2. c.len = b.len /\ c.cap = b.cap
    BY <2>1 DEF Size
  <2> HIDE DEF c, b, n
  <2> QED BY <1>0, <2>1, <2>2 DEF Full, Larger
<1>5. CASE ~Full(b, n) /\ bufs' = [bufs EXCEPT ![k].len = @ + n] /\ UNCHANGED vars
  <2>1. bufs'[k].cap = b.cap
    BY <1>0, <1>5 DEF Buf
  <2>2. Place' = Place /\ Grown(regions, regions') /\ Len(regions') = Len(regions)
    BY <1>0, <1>5, RegionTypes DEF vars, Place, Grown
  <2>3. Size(bufs'[k]) = [len |-> c.len + n, cap |-> c.cap]
    BY <1>1, <1>4, <2>1 DEF Size
  <2> QED BY <1>0, <1>1, <1>2, <1>3, <1>4, <1>5, <2>2, <2>3 DEF AppendsPiece, Here
<1>6. CASE /\ Full(b, n) /\ arena_alloc(Larger(b, n))
           /\ bufs' = [bufs EXCEPT ![k] = Newest(b.len + n, Larger(b, n))]
  <2>1. Larger(b, n) \in Nat
    <3>1. \A l, m \in Nat : l * 2 + m \in Nat
      OBVIOUS
    <3> HIDE DEF b, n
    <3> QED BY <1>0, <3>1 DEF Larger
  <2>2. /\ Grown(regions, regions')
        /\ Moves(regions', Place, Words(Larger(b, n)), Place')
        /\ \A q : Moves(regions, Place, Words(Larger(b, n)), q) => Len(regions') = Len(regions)
    BY <1>0, <1>6, <2>1, AllocMoves
  <2>3. bufs'[k].cap = Larger(b, n)
    BY <1>0, <1>6 DEF Newest
  <2>4. Size(bufs'[k]) = [len |-> c.len + n, cap |-> Larger(c, n)]
    BY <1>1, <1>4, <2>3 DEF Size
  <2>5. AppendsPiece(regions', Here, Here')
    BY <1>0, <1>1, <1>2, <1>3, <1>4, <1>6, <2>2, <2>4 DEF AppendsPiece, Here
  <2>6. AppendsPiece(regions, Here, Here') => Moves(regions, Place, Words(Larger(b, n)), Place')
    BY <1>4, <1>6 DEF AppendsPiece, Here
  <2> QED BY <2>2, <2>5, <2>6
<1> QED BY <1>5, <1>6 DEF jbuf_raw

LEMMA NewGoes ==
  ASSUME TextsInv, jbuf_new, script' = Append(script, said')
  PROVE  /\ BeginsText(regions', Here, Here')
         /\ Grown(regions, regions')
         /\ BeginsText(regions, Here, Here') => Len(regions') = Len(regions)
<1>0. /\ IInv /\ todo.pieces = <<>> /\ bufs \in Seq(Buf) /\ Capacity \in Nat
      /\ arena_alloc(Capacity) /\ todo' = todo /\ said' = Append(said, <<>>)
      /\ bufs' = Append(bufs, Newest(0, Capacity))
  BY BuildersAssumption DEF jbuf_new, Idle, TextsInv
<1>1. Newest(0, Capacity) \in Buf /\ Newest(0, Capacity).len = 0 /\ Newest(0, Capacity).cap = Capacity
  BY <1>0, NewBlock
<1>2. SizesOf(bufs') = Append(SizesOf(bufs), [len |-> 0, cap |-> Capacity])
  <2> DEFINE b == Newest(0, Capacity)
  <2>1. Size(b) = [len |-> 0, cap |-> Capacity] /\ b \in Buf /\ bufs' = Append(bufs, b)
    BY <1>0, <1>1 DEF Size
  <2> HIDE DEF b
  <2> QED BY <1>0, <2>1, OneMore
<1>3. /\ Grown(regions, regions')
      /\ Moves(regions', Place, Words(Capacity), Place')
      /\ \A q : Moves(regions, Place, Words(Capacity), q) => Len(regions') = Len(regions)
  BY <1>0, AllocMoves
<1>4. BeginsText(regions', Here, Here')
  BY <1>0, <1>2, <1>3 DEF BeginsText, Here
<1>5. BeginsText(regions, Here, Here') => Moves(regions, Place, Words(Capacity), Place')
  BY DEF BeginsText, Here
<1> QED BY <1>3, <1>4, <1>5

LEMMA BeginGoes ==
  ASSUME TextsInv, NEW k \in 1..Len(said), NEW item \in Items, Begin(k, Spelt(item), item),
         script' = Append(script, said')
  PROVE  Calls(Here, Here', k, item) /\ regions' = regions
  BY DEF Begin, Calls, Here, Idle, Place, vars

\* What each step of the builder does to what was said.
LEMMA SaidGrows ==
  ASSUME TextsInv, RequestInv
  PROVE  /\ jbuf_raw => said' = said /\ Len(bufs') = Len(bufs)
         /\ jbuf_new => said' \in Seq(Seq(Items)) /\ said' # said /\ Len(said') = Len(bufs')
         /\ \A pieces : \A k \in 1..Len(bufs), item \in Items : Begin(k, pieces, item) =>
              said' \in Seq(Seq(Items)) /\ said' # said /\ Len(said') = Len(bufs')
<1> DEFINE T == Seq(Items)
<1>0. said \in Seq(T) /\ Len(said) = Len(bufs) /\ Len(bufs) \in Nat /\ bufs \in Seq(Buf)
  BY BufTypes DEF RequestInv, TextsInv
<1>1. \A t \in T, x \in Items : Append(t, x) \in T /\ Append(t, x) # t
  <2>1. \A t \in T, x \in Items : Len(Append(t, x)) = Len(t) + 1 /\ Len(t) \in Nat /\ Append(t, x) \in T
    OBVIOUS
  <2>2. \A n \in Nat : n + 1 # n
    OBVIOUS
  <2> QED BY <2>1, <2>2
<1>2. <<>> \in T
  OBVIOUS
<1> HIDE DEF T
<1>3. jbuf_raw => said' = said /\ Len(bufs') = Len(bufs)
  BY RawBuf DEF jbuf_raw
<1>4. ASSUME jbuf_new PROVE said' \in Seq(T) /\ said' # said /\ Len(said') = Len(bufs')
  <2>1. said' = Append(said, <<>>) /\ \E b : bufs' = Append(bufs, b)
    BY <1>4 DEF jbuf_new
  <2>2. said' \in Seq(T) /\ Len(said') = Len(said) + 1 /\ Len(bufs') = Len(bufs) + 1
    BY <1>0, <1>2, <2>1
  <2> QED BY <1>0, <2>2
<1>5. ASSUME NEW k \in 1..Len(bufs), NEW pieces, NEW item \in Items, Begin(k, pieces, item)
      PROVE  said' \in Seq(T) /\ said' # said /\ Len(said') = Len(bufs')
  <2>1. said' = [said EXCEPT ![k] = Append(said[k], item)] /\ bufs' = bufs
    BY <1>5 DEF Begin
  <2>2. said[k] \in T
    BY <1>0
  <2>3. Append(said[k], item) \in T /\ Append(said[k], item) # said[k]
    BY <1>1, <2>2
  <2>4. said' \in Seq(T) /\ Len(said') = Len(said) /\ said'[k] # said[k]
    <3> DEFINE x == Append(said[k], item)
    <3>1. x \in T /\ x # said[k] /\ said' = [said EXCEPT ![k] = x] /\ k \in 1..Len(said)
      BY <1>0, <2>1, <2>3
    <3> HIDE DEF x
    <3> QED BY <1>0, <3>1
  <2> QED BY <1>0, <2>1, <2>4
<1> QED BY <1>3, <1>4, <1>5 DEF T

\* A step of mcp_handle goes on from the present point.
LEMMA HandleGoes ==
  ASSUME TextsInv, RequestInv, mcp_handle
  PROVE  /\ Goes(regions', Here, Here') /\ Grown(regions, regions')
         /\ Goes(regions, Here, Here') => Len(regions') = Len(regions)
         /\ said' \in Seq(Seq(Items)) /\ Len(said') = Len(bufs') /\ script' \in Scripts
         /\ marks' = marks /\ Here \in Points /\ Here' \in Points
<1>0. /\ IInv /\ said \in Seq(Seq(Items)) /\ script \in Scripts /\ Len(said) = Len(bufs)
      /\ bufs \in Seq(Buf) /\ regions \in Seq(Region)
      /\ script' = IF said' = said THEN script ELSE Append(script, said')
      /\ Here \in Points
  BY HereIsPoint DEF RequestInv, mcp_handle, TextsInv, IInv, TypeOK
<1>1. TextsInv'
  BY BuilderTexts DEF mcp_handle
<1>2. ASSUME said' \in Seq(Seq(Items)) PROVE script' \in Scripts
  BY <1>0, <1>2 DEF Scripts
<1>3. ASSUME said' \in Seq(Seq(Items)), script' \in Scripts PROVE Here' \in Points
  <2>1. regions' \in Seq(Region) /\ end' \in 0..Len(regions')
    BY <1>1, NextInv DEF TextsInv, IInv, TypeOK, MarksSound, EndIsFrontier
  <2>2. end' # 0 => end' \in 1..Len(regions') /\ regions'[end'].count \in Nat
    BY <2>1, RegionTypes
  <2>3. Place' \in Places
    BY <2>1, <2>2 DEF Place, Places, Start
  <2>4. todo' \in [k : Nat, pieces : Seq(Seq(Bytes))] /\ bufs' \in Seq(Buf)
    BY <1>1 DEF TextsInv, TodoInv
  <2>5. SizesOf(bufs') \in Seq([len : Nat, cap : Nat])
    <3> DEFINE t == bufs'
    <3>1. t \in Seq(Buf)
      BY <2>4
    <3> HIDE DEF t
    <3>2. SizesOf(t) \in Seq([len : Nat, cap : Nat])
      BY <3>1, SizesType
    <3> QED BY <3>2 DEF t
  <2> QED BY <1>3, <2>3, <2>4, <2>5 DEF Here, Points
<1>4. CASE jbuf_raw
  <2>1. said' = said /\ script' = script /\ Len(bufs') = Len(bufs)
    BY <1>0, <1>4, SaidGrows
  <2>2. /\ AppendsPiece(regions', Here, Here') /\ Grown(regions, regions')
        /\ AppendsPiece(regions, Here, Here') => Len(regions') = Len(regions)
    BY <1>4, <2>1, RawGoes
  <2>3. Here' \in Points /\ Here.todo.pieces # <<>>
    BY <1>0, <1>3, <1>4, <2>1 DEF Here, jbuf_raw, Idle
  <2>4. Goes(regions, Here, Here') => AppendsPiece(regions, Here, Here')
    BY <1>0, <2>3, GoesScript
  <2>5. marks' = marks
    BY <1>4 DEF jbuf_raw, arena_alloc, vars
  <2> QED BY <1>0, <2>1, <2>2, <2>3, <2>4, <2>5 DEF Goes
<1>5. CASE jbuf_new
  <2>1. said' \in Seq(Seq(Items)) /\ said' # said /\ Len(said') = Len(bufs')
    BY <1>5, SaidGrows
  <2>2. /\ BeginsText(regions', Here, Here') /\ Grown(regions, regions')
        /\ BeginsText(regions, Here, Here') => Len(regions') = Len(regions)
    BY <1>0, <1>5, <2>1, NewGoes
  <2>3. Here.todo.pieces = <<>> /\ Here.texts # Here'.texts
    <3>1. Here.texts \in Seq([len : Nat, cap : Nat])
      BY <1>0, PointFields
    <3>2. Here'.texts = Append(Here.texts, [len |-> 0, cap |-> Capacity])
      BY <2>2 DEF BeginsText
    <3>3. Len(Here'.texts) = Len(Here.texts) + 1 /\ Len(Here.texts) \in Nat
      BY <3>1, <3>2, BuildersAssumption
    <3>4. Here.todo.pieces = <<>>
      BY <2>2 DEF BeginsText
    <3> QED BY <3>3, <3>4
  <2>4. Goes(regions, Here, Here') => BeginsText(regions, Here, Here')
    BY <2>3 DEF Goes, AppendsPiece, Calls
  <2>5. marks' = marks
    BY <1>5 DEF jbuf_new, arena_alloc
  <2> QED BY <1>0, <1>2, <1>3, <2>1, <2>2, <2>4, <2>5 DEF Goes
<1>6. ASSUME NEW k \in 1..Len(bufs), NEW item \in Items, Begin(k, Spelt(item), item)
      PROVE  /\ Goes(regions', Here, Here') /\ Grown(regions, regions') /\ Len(regions') = Len(regions)
             /\ said' \in Seq(Seq(Items)) /\ Len(said') = Len(bufs') /\ script' \in Scripts
             /\ marks' = marks /\ Here' \in Points
  <2>1. said' \in Seq(Seq(Items)) /\ said' # said /\ Len(said') = Len(bufs')
    <3> DEFINE pieces == Spelt(item)
    <3>1. Begin(k, pieces, item)
      BY <1>6
    <3> HIDE DEF pieces
    <3> QED BY <3>1, SaidGrows
  <2>2. k \in 1..Len(said) /\ script' = Append(script, said')
    BY <1>0, <2>1
  <2>3. Calls(Here, Here', k, item) /\ regions' = regions
    BY <1>6, <2>2, BeginGoes
  <2>4. Here.said = said
    BY DEF Here
  <2>5. marks' = marks
    BY <1>6 DEF Begin, vars
  <2>6. Grown(regions, regions')
    BY <1>0, <2>3, RegionTypes DEF Grown
  <2> QED BY <1>0, <1>2, <1>3, <2>1, <2>2, <2>3, <2>4, <2>5, <2>6 DEF Goes
<1>7. ASSUME NEW k \in 1..Len(bufs), NEW s \in Strings, jbuf_str(k, s)
      PROVE  Begin(k, Spelt([string |-> s]), [string |-> s]) /\ [string |-> s] \in Items
  BY <1>7, ItemTypes DEF jbuf_str
<1>8. ASSUME NEW k \in 1..Len(bufs), NEW x \in Pieces, jbuf_cstr(k, x)
      PROVE  Begin(k, Spelt([piece |-> x]), [piece |-> x]) /\ [piece |-> x] \in Items
  BY <1>8, ItemTypes DEF jbuf_cstr
<1> QED BY <1>0, <1>4, <1>5, <1>6, <1>7, <1>8 DEF mcp_handle, BuilderStep

\* The rewind at the end of a request brings the walk back to where it began.
LEMMA RewindStarts ==
  ASSUME IInv, marks[Len(marks)].region \in {0, 1}, marks[Len(marks)].count = 0, Rewind
  PROVE  Grown(regions, regions') /\ Place' = Start
<1> DEFINE k == Len(marks)
<1>1. k \in 1..Len(marks) /\ arena_rewind(k)
  BY DEF Rewind, arena_rewind
<1>2. CASE marks[k].region = 0
  BY <1>1, <1>2, ResetStarts DEF arena_rewind
<1>3. CASE marks[k].region = 1
  <2>1. regions \in Seq(Region) /\ Len(regions) \in Nat /\ \A i \in 1..Len(regions) : regions[i] \in Region
    BY RegionTypes DEF IInv, TypeOK
  <2>2. 1 \in 1..Len(regions)
    <3>1. 1 <= end
      BY <1>1, <1>3 DEF IInv, MarksSound, MarksValid
    <3> QED BY <2>1, <3>1, Positions
  <2>3. /\ regions' = [i \in 1..Len(regions) |-> Rewound(i, marks[k])] /\ end' = 1
    BY <1>1, <1>3 DEF arena_rewind
  <2>4. \A i \in 1..Len(regions) : Rewound(i, marks[k]).capacity = regions[i].capacity
    BY <2>1 DEF Rewound, Region
  <2>5. Rewound(1, marks[k]).count = 0
    BY <1>3, <2>1, <2>2 DEF Rewound, Region
  <2>6. Len(regions') = Len(regions) /\ \A i \in 1..Len(regions) : regions'[i] = Rewound(i, marks[k])
    BY <2>1, <2>3
  <2> QED BY <2>1, <2>2, <2>3, <2>4, <2>5, <2>6 DEF Grown, Place, Start
<1> QED BY <1>2, <1>3

LEMMA RequestInit == ReactorInit => RequestInv
<1> SUFFICES ASSUME ReactorInit PROVE RequestInv
  OBVIOUS
<1>1. /\ end = 0 /\ bufs = <<>> /\ said = <<>> /\ script = <<>> /\ todo = NoCall /\ phase = "loaded"
  BY DEF ReactorInit, BuilderInit, Init
<1>2. <<>> \in Seq(Seq(Items)) /\ <<>> \in Scripts
  BY DEF Scripts
<1> QED BY <1>1, <1>2 DEF RequestInv, Place

LEMMA RequestNext ==
  ASSUME TextsInv, RequestInv, [ReactorNext]_reactorVars
  PROVE  RequestInv'
<1>1. CASE mcp_init \/ HostAllocates \/ UNCHANGED reactorVars
  <2>1. /\ UNCHANGED <<vars, builderVars, script>>
        /\ phase' = phase \/ (phase # "handling" /\ phase' # "handling")
    BY <1>1 DEF mcp_init, HostAllocates, mcp_alloc, reactorVars
  <2> QED BY <2>1 DEF RequestInv, Place, vars, builderVars
<1>2. CASE mcp_handle_wasm
  <2>1. /\ phase = "buffers" /\ phase' = "handling" /\ arena_snapshot
        /\ UNCHANGED builderVars /\ script' = <<>>
    BY <1>2 DEF mcp_handle_wasm
  <2>2. Place = Start
    BY <2>1 DEF RequestInv
  <2> DEFINE m == [region |-> end, count |-> IF end = 0 THEN 0 ELSE regions[end].count,
                   height |-> Len(live)]
  <2>3. m.region \in {0, 1} /\ m.count = 0
    BY <2>2 DEF Place, Start
  <2>4. marks' = Append(marks, m) /\ marks \in Seq(Mark)
    BY <2>1 DEF arena_snapshot, TextsInv, IInv, TypeOK
  <2> HIDE DEF m
  <2>5. marks' # <<>> /\ marks'[Len(marks')] = m
    BY <2>4
  <2>6. <<>> \in Scripts
    BY DEF Scripts
  <2> QED BY <2>1, <2>3, <2>5, <2>6 DEF RequestInv, builderVars
<1>3. CASE mcp_handle
  <2>1. phase = "handling" /\ phase' = phase
    BY <1>3 DEF mcp_handle
  <2> QED BY <1>3, <2>1, HandleGoes DEF RequestInv
<1>4. CASE Answer
  <2>1. /\ phase = "handling" /\ phase' = "idle" /\ Rewind /\ bufs' = <<>> /\ said' = <<>>
        /\ todo' = NoCall /\ script' = script
    BY <1>4 DEF Answer
  <2>2. Place' = Start
    BY <2>1, RewindStarts DEF RequestInv, TextsInv
  <2>3. <<>> \in Seq(Seq(Items)) /\ Len(<<>>) = 0
    OBVIOUS
  <2> QED BY <2>1, <2>2, <2>3 DEF RequestInv
<1> QED BY <1>1, <1>2, <1>3, <1>4 DEF ReactorNext

----------------------------------------------------------------------------
(* Nobody leaves the way *)

LEMMA PrefixPrefix ==
  ASSUME NEW S, NEW s \in Seq(S), NEW x \in S, NEW t \in Seq(S), IsPrefixOf(Append(s, x), t)
  PROVE  IsPrefixOf(s, t)
  BY PrefixCut DEF IsPrefixOf

LEMMA PrefixShort ==
  ASSUME NEW S, NEW s \in Seq(S), NEW x \in S, NEW t \in Seq(S), IsPrefixOf(t, Append(s, x)), Len(t) <= Len(s)
  PROVE  IsPrefixOf(t, s)
<1>1. /\ Len(s) \in Nat /\ Len(t) \in Nat /\ Len(Append(s, x)) = Len(s) + 1
      /\ \A i \in 1..Len(s) : Append(s, x)[i] = s[i]
  OBVIOUS
<1>2. t = SubSeq(Append(s, x), 1, Len(t))
  BY DEF IsPrefixOf
<1>3. \A i \in 1..Len(t) : t[i] = s[i]
  BY <1>1, <1>2
<1>4. /\ SubSeq(s, 1, Len(t)) \in Seq(S) /\ Len(SubSeq(s, 1, Len(t))) = Len(t)
      /\ \A i \in 1..Len(t) : SubSeq(s, 1, Len(t))[i] = s[i]
  BY <1>1
<1>5. t = SubSeq(s, 1, Len(t))
  BY <1>3, <1>4, SeqEqual, Zenon
<1> QED BY <1>5 DEF IsPrefixOf

LEMMA PrefixSelf == ASSUME NEW S, NEW s \in Seq(S) PROVE IsPrefixOf(s, s)
  BY SubSeqFull DEF IsPrefixOf

\* The script grows by what was said, or stays.
LEMMA HereScript ==
  ASSUME TextsInv, RequestInv, mcp_handle
  PROVE  /\ Here.script = script /\ Here'.script = script'
         /\ script' = script \/ (script' = Append(script, said') /\ todo.pieces = <<>>)
         /\ IsPrefixOf(script, script') /\ Len(script) <= Len(script')
<1>1. Here.script = script /\ Here'.script = script' /\ Here.todo = todo /\ Here'.said = said'
  BY DEF Here
<1>2. script' = script \/ (script' = Append(script, said') /\ todo.pieces = <<>>)
  BY <1>1, HandleGoes, GoesScript
<1> DEFINE S == Seq(Seq(Items))
<1>3. script \in Seq(S) /\ said' \in S
  BY HandleGoes DEF RequestInv, Scripts
<1> DEFINE x == said'
           t == Append(script, x)
<1>4. IsPrefixOf(script, script)
  BY <1>3, PrefixSelf
<1>5. IsPrefixOf(script, t)
  <2>1. script \in Seq(S) /\ x \in S
    BY <1>3
  <2> HIDE DEF S, x
  <2>2. t \in Seq(S)
    BY <2>1
  <2>3. IsPrefixOf(t, t)
    BY <2>2, PrefixSelf
  <2> QED BY <2>1, <2>2, <2>3, PrefixPrefix
<1>6. IsPrefixOf(script, script')
  BY <1>2, <1>4, <1>5
<1> QED BY <1>1, <1>2, <1>6 DEF IsPrefixOf

\* A step of mcp_handle is the one way on from where the request is.
LEMMA HereOnward ==
  ASSUME TextsInv, RequestInv, mcp_handle, NEW V, Here' \in V
  PROVE  Onward(regions', V, script', Here)
<1> SUFFICES ASSUME NEW rs2 \in Seq(Region), NEW q \in Points,
                    Grown(regions', rs2), Goes(rs2, Here, q), IsPrefixOf(q.script, script')
             PROVE  q \in V /\ Goes(regions', Here, q)
  BY DEF Onward
<1>1. /\ Goes(regions', Here, Here') /\ Here \in Points /\ Here' \in Points
      /\ Here'.script = script' /\ script' \in Scripts
  BY HandleGoes, HereScript
<1>2. regions' \in Seq(Region)
  BY BuilderTexts DEF mcp_handle, TextsInv, IInv, TypeOK
<1> DEFINE r == Here'
           s == script'
<1>3. Goes(rs2, Here, r)
  BY <1>1, <1>2, GoesGrown
<1>4. IsPrefixOf(r.script, s)
  BY <1>1, PrefixSelf DEF Scripts
<1>5. q = r
  <2> HIDE DEF r, s
  <2>1. r \in Points
    BY <1>1 DEF r
  <2>2. IsPrefixOf(q.script, s)
    BY DEF s
  <2> QED BY <1>1, <1>3, <1>4, <2>1, <2>2, OneWay
<1> QED BY <1>1, <1>5

\* A point that was passed keeps its one way while the script grows.
LEMMA PassedOnward ==
  ASSUME TextsInv, RequestInv, mcp_handle, NEW V, NEW W, V \subseteq W, NEW p \in Points,
         Len(p.script) <= Len(script), Len(p.script) < Len(script) \/ p.todo.pieces # <<>>,
         Onward(regions, V, script, p)
  PROVE  Onward(regions', W, script', p)
<1>0. /\ regions \in Seq(Region) /\ regions' \in Seq(Region) /\ Grown(regions, regions')
      /\ script \in Scripts /\ said' \in Seq(Seq(Items))
  BY BuilderTexts, HandleGoes DEF mcp_handle, TextsInv, IInv, TypeOK, RequestInv
<1> SUFFICES ASSUME NEW rs2 \in Seq(Region), NEW q \in Points,
                    Grown(regions', rs2), Goes(rs2, p, q), IsPrefixOf(q.script, script')
             PROVE  q \in W /\ Goes(regions', p, q)
  BY DEF Onward
<1>1. Len(q.script) <= Len(script)
  <2>1. Len(script) \in Nat /\ p.script \in Scripts
    BY <1>0, PointFields DEF Scripts
  <2>2. Len(p.script) \in Nat
    BY <2>1 DEF Scripts
  <2> QED BY <2>1, <2>2, GoesScript
<1>2. IsPrefixOf(q.script, script)
  <2> DEFINE S == Seq(Seq(Items))
             x == said'
             t == q.script
  <2>1. script \in Seq(S) /\ x \in S /\ t \in Seq(S)
    BY <1>0, PointFields DEF Scripts
  <2>2. IsPrefixOf(t, script) \/ IsPrefixOf(t, Append(script, x))
    BY HereScript
  <2>3. Len(t) <= Len(script)
    BY <1>1
  <2> HIDE DEF S, x, t
  <2>4. IsPrefixOf(t, script)
    BY <2>1, <2>2, <2>3, PrefixShort
  <2> QED BY <2>4 DEF t
<1>3. Grown(regions, rs2)
  BY <1>0, GrownOn
<1>4. q \in V /\ Goes(regions, p, q)
  BY <1>2, <1>3 DEF Onward
<1> QED BY <1>0, <1>4, GoesGrown

LEMMA HandleFollows ==
  ASSUME TextsInv, RequestInv, mcp_handle, NEW t \in Scripts, IsPrefixOf(script', t)
  PROVE  IsPrefixOf(script, t)
<1> DEFINE S == Seq(Seq(Items))
           x == said'
<1>1. script \in Seq(S) /\ x \in S /\ t \in Seq(S)
  BY HandleGoes DEF RequestInv, Scripts
<1>2. IsPrefixOf(script, t) \/ IsPrefixOf(Append(script, x), t)
  BY HereScript
<1> HIDE DEF S, x
<1> QED BY <1>1, <1>2, PrefixPrefix

LEMMA HandlePassed ==
  ASSUME TextsInv, RequestInv, mcp_handle, NEW V, Passed(V)
  PROVE  \E W : Passed(W)'
<1> DEFINE W == V \cup {Here'}
<1>1. /\ Here \in Points /\ Here' \in Points /\ V \subseteq Points /\ Outset \in V /\ Here \in V
      /\ Len(script) <= Len(script') /\ Here.script = script
      /\ script' = script \/ (script' = Append(script, said') /\ todo.pieces = <<>>)
  BY HandleGoes, HereScript DEF Passed
<1>0. /\ Len(script) \in Nat /\ Len(script') \in Nat
      /\ \A p \in Points : Len(p.script) \in Nat
      /\ script' = Append(script, said') => Len(script') = Len(script) + 1
  <2>1. script \in Scripts /\ script' \in Scripts /\ said' \in Seq(Seq(Items))
    BY HandleGoes DEF RequestInv
  <2>2. \A s \in Scripts : Len(s) \in Nat
    BY DEF Scripts
  <2>3. \A p \in Points : p.script \in Scripts
    BY PointFields
  <2>4. script' = Append(script, said') => Len(script') = Len(script) + 1
    BY <2>1 DEF Scripts
  <2> QED BY <2>1, <2>2, <2>3, <2>4
<1>2. ASSUME NEW p \in V, p # Here
      PROVE  /\ Len(p.script) <= Len(script')
             /\ Len(p.script) < Len(script') \/ p.todo.pieces # <<>>
             /\ Onward(regions', W, script', p)
  <2>1. /\ Len(p.script) <= Len(script)
        /\ Len(p.script) < Len(script) \/ p.todo.pieces # <<>>
        /\ Onward(regions, V, script, p)
    BY <1>2 DEF Passed
  <2>2. Len(p.script) \in Nat
    BY <1>0, <1>1
  <2>3. Onward(regions', W, script', p)
    <3> DEFINE U == W
    <3>1. V \subseteq U /\ p \in Points
      BY <1>1
    <3> HIDE DEF U, W
    <3>2. Onward(regions', U, script', p)
      BY <2>1, <3>1, PassedOnward
    <3> QED BY <3>2 DEF U
  <2> QED BY <1>0, <1>1, <2>1, <2>2, <2>3
<1>3. /\ Len(Here.script) <= Len(script')
      /\ Len(Here.script) < Len(script') \/ Here.todo.pieces # <<>>
      /\ Onward(regions', W, script', Here)
  <2>1. Onward(regions', W, script', Here)
    BY HereOnward
  <2>2. todo.pieces # <<>> \/ Len(script) < Len(script')
    <3>1. CASE script' = Append(script, said')
      BY <1>0, <3>1
    <3>2. CASE todo.pieces = <<>> /\ script' = script
      <4>1. Goes(regions', Here, Here') /\ Here'.script = script' /\ Here.todo = todo
        BY HandleGoes, HereScript DEF Here
      <4>2. Len(Here'.script) = Len(Here.script) + 1
        BY <1>1, <3>2, <4>1, GoesScript
      <4> QED BY <1>0, <1>1, <3>2, <4>1, <4>2
    <3> QED BY <1>1, <3>1, <3>2
  <2>3. Here.todo = todo
    BY DEF Here
  <2> QED BY <1>1, <2>1, <2>2, <2>3
<1>4. ASSUME NEW p \in W, p # Here'
      PROVE  /\ Len(p.script) <= Len(script')
             /\ Len(p.script) < Len(script') \/ p.todo.pieces # <<>>
             /\ Onward(regions', W, script', p)
  BY <1>2, <1>3, <1>4
<1>5. W \subseteq Points /\ Outset \in W /\ Here' \in W
  BY <1>1
<1>6. PICK U : U = W
  OBVIOUS
<1> HIDE DEF W
<1>7. Passed(U)'
  BY <1>4, <1>5, <1>6 DEF Passed
<1> QED BY <1>7

\* The request that is sent again stays on the way of the one that was lost.
LEMMA HandleRemembered ==
  ASSUME TextsInv, RequestInv, mcp_handle, lost \in Scripts, NEW W, Remembered(W)
  PROVE  Remembered(W)'
<1>0. /\ regions \in Seq(Region) /\ regions' \in Seq(Region) /\ Grown(regions, regions')
      /\ Goes(regions', Here, Here') /\ Here' \in Points
      /\ lost' = lost /\ phase = "handling"
  BY BuilderTexts, HandleGoes DEF mcp_handle, TextsInv, IInv, TypeOK
<1>1. \A p \in W : Onward(regions', W, lost, p)
  BY <1>0, OnwardGrown DEF Remembered
<1>2. ASSUME IsPrefixOf(script', lost) PROVE Here' \in W
  <2>1. IsPrefixOf(script, lost)
    BY <1>2, HandleFollows
  <2>2. Here \in W
    BY <1>0, <2>1 DEF Remembered
  <2>3. Onward(regions, W, lost, Here)
    BY <2>2 DEF Remembered
  <2>4. IsPrefixOf(Here'.script, lost)
    BY <1>2, HereScript
  <2> QED BY <1>0, <2>3, <2>4 DEF Onward
<1> QED BY <1>0, <1>1, <1>2 DEF Remembered

LEMMA OutsetHere ==
  ASSUME Place' = Start, bufs' = <<>>, said' = <<>>, todo' = NoCall, script' = <<>>
  PROVE  Here' = Outset
<1>1. SizesOf(<<>>) = <<>>
  BY DEF SizesOf
<1> QED BY <1>1 DEF Here, Outset

\* A request begins at the outset of every way.
LEMMA BeginWay ==
  ASSUME TextsInv, RequestInv, WayInv, mcp_handle_wasm
  PROVE  WayInv'
<1>1. /\ phase = "buffers" /\ phase' = "handling" /\ arena_snapshot
      /\ UNCHANGED <<bufs, said, todo, lost>> /\ script' = <<>>
  BY DEF mcp_handle_wasm, builderVars
<1>2. regions' = regions /\ Place' = Place
  BY <1>1 DEF arena_snapshot, Place
<1>3. Here' = Outset
  BY <1>1, <1>2, OutsetHere DEF RequestInv
<1>4. Passed({Outset})'
  BY <1>3, OutsetIsPoint DEF Passed
<1>5. ASSUME NEW W, Remembered(W) PROVE Remembered(W)'
  BY <1>1, <1>2, <1>3, <1>5 DEF Remembered
<1> QED BY <1>1, <1>4, <1>5 DEF WayInv

\* The way of a request whose answer is lost is remembered.
LEMMA EndWay ==
  ASSUME TextsInv, RequestInv, WayInv, Answer
  PROVE  WayInv'
<1>1. /\ phase = "handling" /\ phase' = "idle" /\ Rewind /\ script' = script /\ todo.pieces = <<>>
      /\ lost' = lost \/ lost' = script
  BY DEF Answer, Idle
<1>2. /\ Grown(regions, regions') /\ regions \in Seq(Region) /\ regions' \in Seq(Region)
      /\ script \in Scripts
  BY <1>1, RewindStarts, AnswerTexts DEF RequestInv, TextsInv, IInv, TypeOK
<1>3. ASSUME lost # NoRequest PROVE lost \in Scripts /\ \E W : W \subseteq Points /\ Outset \in W /\ \A p \in W : Onward(regions', W, lost, p)
  <2>1. PICK W : Remembered(W)
    BY <1>3 DEF WayInv
  <2>2. \A p \in W : Onward(regions', W, lost, p)
    BY <1>2, <2>1, OnwardGrown DEF Remembered
  <2> QED BY <1>3, <2>1, <2>2 DEF WayInv, Remembered
<1>4. \E W : W \subseteq Points /\ Outset \in W /\ \A p \in W : Onward(regions', W, script, p)
  <2>1. PICK V : Passed(V)
    BY <1>1 DEF WayInv
  <2>2. ASSUME NEW p \in V, p # Here PROVE Onward(regions', V, script, p)
    BY <1>2, <2>1, <2>2, OnwardGrown DEF Passed
  <2>3. Onward(regions', V, script, Here)
    <3> SUFFICES ASSUME NEW rs2 \in Seq(Region), NEW q \in Points, Goes(rs2, Here, q), IsPrefixOf(q.script, script)
                 PROVE  FALSE
      BY DEF Onward
    <3>1. Here \in Points /\ Here.todo = todo /\ Here.script = script
      BY <2>1 DEF Passed, Here
    <3>2. Len(q.script) = Len(script) + 1 /\ Len(script) \in Nat
      BY <1>1, <3>1, GoesScript
    <3> QED BY <3>2 DEF IsPrefixOf
  <2> QED BY <2>1, <2>2, <2>3 DEF Passed
<1>5. ASSUME NEW W, W \subseteq Points, Outset \in W, \A p \in W : Onward(regions', W, lost', p)
      PROVE  Remembered(W)'
  BY <1>1, <1>5 DEF Remembered
<1>6. lost' # NoRequest => lost' \in Scripts /\ \E W : Remembered(W)'
  <2>1. CASE lost' = lost
    BY <1>3, <1>5, <2>1
  <2>2. CASE lost' = script
    BY <1>2, <1>4, <1>5, <2>2
  <2> QED BY <1>1, <2>1, <2>2
<1> QED BY <1>1, <1>6 DEF WayInv

LEMMA WayInit == ReactorInit => WayInv
  BY DEF ReactorInit, WayInv

LEMMA WayNext ==
  ASSUME TextsInv, RequestInv, WayInv, [ReactorNext]_reactorVars
  PROVE  WayInv'
<1>1. CASE mcp_init \/ HostAllocates \/ UNCHANGED reactorVars
  <2>1. /\ UNCHANGED <<vars, builderVars, script, lost>>
        /\ phase' = phase \/ (phase # "handling" /\ phase' # "handling")
    BY <1>1 DEF mcp_init, HostAllocates, mcp_alloc, reactorVars
  <2>2. UNCHANGED <<regions, end, bufs, todo, said, script, lost>> /\ Here' = Here
    BY <2>1 DEF Here, Place, vars, builderVars
  <2>3. ASSUME NEW V, Passed(V), phase' = phase PROVE Passed(V)'
    BY <2>2, <2>3 DEF Passed
  <2>4. ASSUME NEW W, Remembered(W) PROVE Remembered(W)'
    BY <2>1, <2>2, <2>4 DEF Remembered
  <2> QED BY <2>1, <2>2, <2>3, <2>4 DEF WayInv
<1>2. CASE mcp_handle
  <2>1. phase = "handling" /\ phase' = phase /\ lost' = lost
    BY <1>2 DEF mcp_handle
  <2>2. \E V : Passed(V)'
    BY <1>2, <2>1, HandlePassed DEF WayInv
  <2>3. lost # NoRequest => lost \in Scripts /\ \E W : Remembered(W)'
    BY <1>2, HandleRemembered DEF WayInv
  <2> QED BY <2>1, <2>2, <2>3 DEF WayInv
<1> QED BY <1>1, <1>2, BeginWay, EndWay DEF ReactorNext

\* While a lost request is answered again, no region is added.
LEMMA NothingDetaches ==
  ASSUME TextsInv, RequestInv, WayInv, [ReactorNext]_reactorVars,
         lost # NoRequest, IsPrefixOf(script', lost), phase = "handling"
  PROVE  view' = view \/ phase' = "idle"
<1>1. CASE mcp_handle
  <2>1. view' = view \/ Len(regions') > Len(regions)
    BY <1>1 DEF mcp_handle
  <2>2. PICK W : Remembered(W) /\ lost \in Scripts
    BY DEF WayInv
  <2>3. IsPrefixOf(script, lost)
    BY <1>1, <2>2, HandleFollows
  <2>4. Onward(regions, W, lost, Here)
    BY <2>3, <2>2 DEF Remembered
  <2>5. /\ regions' \in Seq(Region) /\ Grown(regions, regions') /\ Here' \in Points
        /\ Goes(regions', Here, Here') /\ IsPrefixOf(Here'.script, lost)
    BY <1>1, BuilderTexts, HandleGoes, HereScript DEF mcp_handle, TextsInv, IInv, TypeOK
  <2>6. Goes(regions, Here, Here')
    BY <2>4, <2>5 DEF Onward
  <2>7. Len(regions') = Len(regions) /\ Len(regions) \in Nat
    BY <1>1, <2>6, HandleGoes, RegionTypes DEF TextsInv, IInv, TypeOK
  <2> QED BY <2>1, <2>7
<1>2. CASE ~mcp_handle
  BY <1>2 DEF ReactorNext, mcp_init, HostAllocates, mcp_alloc, mcp_handle_wasm, Answer, reactorVars
<1> QED BY <1>1, <1>2

\* A request whose answer was lost to a memory that grew is answered when it is
\* sent again: arena_rewind keeps what the arena has grown by, and the walk of
\* arena_alloc for the same texts comes by the same places.
THEOREM ReactorRetryIsAnswered == ReactorSpec => RetryIsAnswered
<1>1. TextsInv /\ RequestInv /\ WayInv /\ [ReactorNext]_reactorVars =>
        (lost # NoRequest /\ IsPrefixOf(script', lost) /\ phase = "handling" => view' = view \/ phase' = "idle")
  BY NothingDetaches
<1>2. RequestInv /\ TextsInv /\ [ReactorNext]_reactorVars => RequestInv'
  BY RequestNext
<1>3. WayInv /\ RequestInv /\ TextsInv /\ [ReactorNext]_reactorVars => WayInv'
  BY WayNext
<1> QED BY <1>1, <1>2, <1>3, RequestInit, WayInit, TextsAlways, PTL DEF ReactorSpec, RetryIsAnswered

----------------------------------------------------------------------------
(* The reader's functions *)

\* What Unescape finds at position i, given what it finds behind.
UnescapeAt(text, f, i) ==
    IF i > Len(text) THEN <<<<>>, Nowhere(text)>>
    ELSE CASE text[i] = "quote" -> <<<<>>, i + 1>>
           [] text[i] \in {"newline", "control", NUL} -> <<<<>>, Nowhere(text)>>
           [] OTHER -> LET next == f[i + Width(text, i)]
                       IN  <<<<Meant(text, i)>> \o next[1], next[2]>>

LEMMA UnescapeLooksBehind ==
  ASSUME NEW text, Len(text) \in Nat, NEW i \in 1..Nowhere(text), NEW f, NEW g,
         \A j \in (i + 1)..Nowhere(text) : f[j] = g[j]
  PROVE  UnescapeAt(text, f, i) = UnescapeAt(text, g, i)
<1>1. CASE i > Len(text)
  BY <1>1 DEF UnescapeAt
<1>2. CASE ~(i > Len(text))
  <2>1. Width(text, i) \in {1, 2, 6}
    BY DEF Width
  <2> DEFINE w == Width(text, i)
  <2>2. i + w \in (i + 1)..Nowhere(text)
    BY <1>2, <2>1 DEF Nowhere
  <2> HIDE DEF w
  <2>3. f[i + w] = g[i + w]
    BY <2>2
  <2> QED BY <2>3 DEF UnescapeAt, w
<1> QED BY <1>1, <1>2

\* The recursion of Unescape is well-founded: it is what it says.
LEMMA UnescapeFollows ==
  ASSUME NEW text, Len(text) \in Nat
  PROVE  \A i \in 1..Nowhere(text) : Unescape(text)[i] = UnescapeAt(text, Unescape(text), i)
<1> DEFINE n == Nowhere(text)
           Fixed(low, f) == f = [i \in low..n |-> UnescapeAt(text, f, i)]
           S == {low \in 1..(n + 1) : \E f : Fixed(low, f)}
<1>0. n \in Nat /\ n + 1 \in Nat
  BY DEF Nowhere
<1>1. n + 1 \in S
  <2> HIDE DEF n
  <2>1. (n + 1)..n = {} /\ n + 1 \in 1..(n + 1)
    BY <1>0
  <2>2. [i \in {} |-> 0] = [i \in {} |-> UnescapeAt(text, [j \in {} |-> 0], i)]
    OBVIOUS
  <2>3. Fixed(n + 1, [i \in {} |-> 0])
    BY <2>1, <2>2
  <2> QED BY <2>1, <2>3
<1>2. ASSUME NEW low \in 1..n, low + 1 \in S PROVE low \in S
  <2>1. PICK f : Fixed(low + 1, f)
    BY <1>2
  <2> DEFINE g == [i \in low..n |-> IF i = low THEN UnescapeAt(text, f, i) ELSE f[i]]
  <2>2. \A j \in (low + 1)..n : f[j] = UnescapeAt(text, f, j) /\ g[j] = f[j] /\ j \in low..n
    BY <1>0, <2>1
  <2>3. g[low] = UnescapeAt(text, f, low)
    BY <1>0
  <2> HIDE DEF n
  <2>4. ASSUME NEW i \in low..n PROVE g[i] = UnescapeAt(text, f, i)
    <3>1. i = low \/ i \in (low + 1)..n
      BY <1>0
    <3> HIDE DEF g
    <3> QED BY <2>2, <2>3, <3>1
  <2>5. ASSUME NEW i \in low..n PROVE g[i] = UnescapeAt(text, g, i)
    <3>1. i \in 1..n /\ \A j \in (i + 1)..n : j \in (low + 1)..n
      BY <1>0
    <3>2. \A j \in (i + 1)..n : f[j] = g[j]
      BY <2>2, <3>1
    <3> HIDE DEF g
    <3>3. UnescapeAt(text, f, i) = UnescapeAt(text, g, i)
      BY <3>1, <3>2, UnescapeLooksBehind DEF n
    <3> QED BY <2>4, <3>3
  <2>6. g = [i \in low..n |-> g[i]]
    OBVIOUS
  <2> HIDE DEF g
  <2>7. g = [i \in low..n |-> UnescapeAt(text, g, i)]
    BY <2>5, <2>6
  <2> QED BY <1>0, <2>7
<1>3. 1 \in S
  <2> HIDE DEF S, n
  <2>1. \A i \in 1..((n + 1) - 1) : i + 1 \in S => i \in S
    BY <1>0, <1>2
  <2>2. 1 \in 1..(n + 1)
    BY <1>0
  <2> QED BY <1>0, <1>1, <2>1, <2>2, Downwards
<1>4. Unescape(text) = CHOOSE f : f = [i \in 1..n |-> UnescapeAt(text, f, i)]
  BY DEF Unescape, UnescapeAt
<1>5. Fixed(1, Unescape(text))
  <2>1. \E f : f = [i \in 1..n |-> UnescapeAt(text, f, i)]
    BY <1>3
  <2> QED BY <1>4, <2>1
<1> HIDE DEF n
<1> QED BY <1>5 DEF n

LEMMA BehindFollows ==
  ASSUME NEW text, NEW items, Len(items) \in Nat
  PROVE  /\ Behind(text, items)[0] = 1
         /\ \A j \in 1..Len(items) :
              Behind(text, items)[j] =
                IF Behind(text, items)[j - 1] = Nowhere(text) THEN Nowhere(text)
                ELSE After(text, Behind(text, items)[j - 1], items[j])
<1> DEFINE n == Len(items)
           Next1(x, j) == IF x = Nowhere(text) THEN Nowhere(text) ELSE After(text, x, items[j])
           Fixed(high, f) == f = [j \in 0..high |-> IF j = 0 THEN 1 ELSE Next1(f[j - 1], j)]
           S == {high \in 0..n : \E f : Fixed(high, f)}
<1> HIDE DEF Next1
<1>1. 0 \in S
  <2> DEFINE f == [j \in 0..0 |-> 1]
  <2>1. f = [j \in 0..0 |-> IF j = 0 THEN 1 ELSE Next1(f[j - 1], j)]
    OBVIOUS
  <2> HIDE DEF f
  <2>2. Fixed(0, f)
    BY <2>1
  <2> QED BY <2>2
<1>2. ASSUME NEW high \in 0..(n - 1), high \in S PROVE high + 1 \in S
  <2>1. PICK f : Fixed(high, f)
    BY <1>2
  <2> DEFINE g == [j \in 0..(high + 1) |-> IF j <= high THEN f[j] ELSE Next1(f[high], j)]
  <2>2. \A j \in 0..high : g[j] = f[j] /\ f[j] = IF j = 0 THEN 1 ELSE Next1(f[j - 1], j)
    BY <2>1
  <2>3. g[high + 1] = Next1(f[high], high + 1) /\ high + 1 \in 0..n
    OBVIOUS
  <2>4. g = [j \in 0..(high + 1) |-> g[j]]
    OBVIOUS
  <2>5. ASSUME NEW j \in 0..(high + 1) PROVE g[j] = IF j = 0 THEN 1 ELSE Next1(g[j - 1], j)
    <3> HIDE DEF g
    <3>1. CASE j \in 0..high
      <4>1. j # 0 => j - 1 \in 0..high
        BY <3>1
      <4> QED BY <2>2, <3>1, <4>1
    <3>2. CASE j = high + 1
      <4>1. j - 1 = high /\ high \in 0..high /\ j # 0
        BY <3>2
      <4> QED BY <2>2, <2>3, <3>2, <4>1
    <3> QED BY <3>1, <3>2
  <2> HIDE DEF g
  <2>6. Fixed(high + 1, g)
    BY <2>4, <2>5
  <2> QED BY <2>3, <2>6
<1>3. n \in S
  <2> HIDE DEF S, n
  <2>1. n \in Nat /\ n \in 0..n
    BY DEF n
  <2> QED BY <1>1, <1>2, <2>1, Upwards
<1>4. Behind(text, items) = CHOOSE f : f = [j \in 0..n |-> IF j = 0 THEN 1 ELSE Next1(f[j - 1], j)]
  BY DEF Behind, Next1
<1>5. Fixed(n, Behind(text, items))
  <2>1. \E f : f = [j \in 0..n |-> IF j = 0 THEN 1 ELSE Next1(f[j - 1], j)]
    BY <1>3
  <2> QED BY <1>4, <2>1
<1>6. \A j \in 1..n : j \in 0..n /\ j # 0
  OBVIOUS
<1> QED BY <1>5, <1>6 DEF Next1

----------------------------------------------------------------------------
(* Where the parts of a sequence lie in it *)

\* The parts are whole, one behind the other: part c begins at pos[c].
Cuts(pos, whole, parts) ==
    /\ pos \in [1..(Len(parts) + 1) -> 1..(Len(whole) + 1)]
    /\ pos[1] = 1 /\ pos[Len(parts) + 1] = Len(whole) + 1
    /\ \A c \in 1..Len(parts) :
         /\ pos[c + 1] = pos[c] + Len(parts[c])
         /\ \A m \in 1..Len(parts[c]) : whole[pos[c] + m - 1] = parts[c][m]

IsCut(whole, parts) == \E pos : Cuts(pos, whole, parts)

LEMMA CutNothing == IsCut(<<>>, <<>>)
<1> DEFINE pos == [c \in 1..1 |-> 1]
<1>1. Cuts(pos, <<>>, <<>>)
  BY DEF Cuts
<1> QED BY <1>1 DEF IsCut

LEMMA CutMore ==
  ASSUME NEW S, NEW whole \in Seq(S), NEW parts \in Seq(Seq(S)), NEW part \in Seq(S),
         IsCut(whole, parts)
  PROVE  IsCut(whole \o part, Append(parts, part))
<1> DEFINE n == Len(parts)
           l == Len(whole)
           w == whole \o part
           ps == Append(parts, part)
           T == Seq(S)
<1>1. PICK pos : Cuts(pos, whole, parts)
  BY DEF IsCut
<1>2. /\ n \in Nat /\ l \in Nat /\ Len(part) \in Nat
      /\ Len(w) = l + Len(part)
      /\ \A i \in 1..l : w[i] = whole[i]
      /\ \A i \in 1..Len(part) : w[l + i] = part[i]
  OBVIOUS
<1>3. /\ Len(ps) = n + 1 /\ ps[n + 1] = part
      /\ \A c \in 1..n : ps[c] = parts[c] /\ Len(parts[c]) \in Nat
  <2>1. \A t \in T : Len(t) \in Nat
    OBVIOUS
  <2>2. parts \in Seq(T) /\ part \in T
    OBVIOUS
  <2> HIDE DEF T
  <2> QED BY <2>1, <2>2
<1> DEFINE new == [c \in 1..(n + 2) |-> IF c <= n + 1 THEN pos[c] ELSE l + Len(part) + 1]
<1>4. \A c \in 1..(n + 1) : pos[c] \in 1..(l + 1)
  BY <1>1 DEF Cuts
<1> HIDE DEF n, l, w, ps
<1>5. /\ new[1] = 1 /\ new[n + 2] = Len(w) + 1 /\ new[n + 1] = l + 1
      /\ \A c \in 1..(n + 1) : new[c] = pos[c]
  <2>1. pos[1] = 1 /\ pos[n + 1] = l + 1
    BY <1>1 DEF Cuts, n, l
  <2> QED BY <1>2, <2>1
<1>6. new \in [1..(n + 2) -> 1..(Len(w) + 1)]
  BY <1>2, <1>4
<1> HIDE DEF new
<1>7. ASSUME NEW c \in 1..(n + 1)
      PROVE  /\ new[c + 1] = new[c] + Len(ps[c])
             /\ \A m \in 1..Len(ps[c]) : w[new[c] + m - 1] = ps[c][m]
  <2>1. CASE c = n + 1
    <3>1. c + 1 = n + 2 /\ \A m \in 1..Len(part) : (l + 1) + m - 1 = l + m
      BY <1>2, <2>1
    <3>2. ps[c] = part /\ new[c] = l + 1 /\ new[c + 1] = l + Len(part) + 1
      BY <1>2, <1>3, <1>5, <2>1, <3>1
    <3>3. l + Len(part) + 1 = (l + 1) + Len(part)
      BY <1>2
    <3> QED BY <1>2, <3>1, <3>2, <3>3
  <2>2. CASE c # n + 1
    <3>1. c \in 1..n /\ c + 1 \in 1..(n + 1)
      BY <1>2, <2>2
    <3>2. /\ pos[c + 1] = pos[c] + Len(parts[c])
          /\ \A m \in 1..Len(parts[c]) : whole[pos[c] + m - 1] = parts[c][m]
      BY <1>1, <3>1 DEF Cuts, n
    <3>3. /\ pos[c] \in 1..(l + 1) /\ pos[c + 1] \in 1..(l + 1) /\ Len(parts[c]) \in Nat
          /\ new[c] = pos[c] /\ new[c + 1] = pos[c + 1] /\ ps[c] = parts[c]
      BY <1>3, <1>4, <1>5, <3>1
    <3>4. \A m \in 1..Len(parts[c]) : pos[c] + m - 1 \in 1..l
      <4>1. \A x, y \in 1..(l + 1), d \in Nat : y = x + d => \A m \in 1..d : x + m - 1 \in 1..l
        BY <1>2
      <4> QED BY <3>2, <3>3, <4>1
    <3> QED BY <1>2, <3>2, <3>3, <3>4
  <2> QED BY <2>1, <2>2
<1>8. Cuts(new, w, ps)
  <2>1. (n + 1) + 1 = n + 2
    BY <1>2
  <2> QED BY <1>3, <1>5, <1>6, <1>7, <2>1 DEF Cuts
<1> QED BY <1>8 DEF IsCut, w, ps

----------------------------------------------------------------------------
(* What a reader finds where an item lies *)

\* No character of a string is NUL, and one that stands for itself may stand
\* in a JSON string.
LEMMA EscapeRead ==
  ASSUME NEW text, Len(text) \in Nat, NEW i \in 1..Len(text), NEW c, c # NUL,
         i + Len(Escape(c)) - 1 <= Len(text),
         \A m \in 1..Len(Escape(c)) : text[i + m - 1] = Escape(c)[m]
  PROVE  /\ Width(text, i) = Len(Escape(c)) /\ Meant(text, i) = c
         /\ text[i] \notin {"quote", "newline", "control", NUL}
<1>1. CASE c \in {"quote", "backslash"}
  <2>1. Escape(c) = <<"backslash", c>> /\ Len(Escape(c)) = 2
    BY <1>1 DEF Escape
  <2>2. text[i] = "backslash" /\ text[i + 1] = c /\ i # Len(text)
    <3>1. 1 \in 1..2 /\ 2 \in 1..2 /\ i + 1 - 1 = i /\ i + 2 - 1 = i + 1
      OBVIOUS
    <3> QED BY <2>1, <3>1
  <2> QED BY <1>1, <2>1, <2>2 DEF Width, Meant, NUL
<1>2. CASE c = "newline"
  <2>1. Escape(c) = <<"backslash", "n">> /\ Len(Escape(c)) = 2
    BY <1>2 DEF Escape
  <2>2. text[i] = "backslash" /\ text[i + 1] = "n" /\ i # Len(text)
    <3>1. 1 \in 1..2 /\ 2 \in 1..2 /\ i + 1 - 1 = i /\ i + 2 - 1 = i + 1
      OBVIOUS
    <3> QED BY <2>1, <3>1
  <2> QED BY <1>2, <2>1, <2>2 DEF Width, Meant, NUL
<1>3. CASE c = "control"
  <2>1. Escape(c) = <<"backslash", "u", "0", "0", "1", "f">> /\ Len(Escape(c)) = 6
    BY <1>3 DEF Escape
  <2>2. text[i] = "backslash" /\ text[i + 1] = "u" /\ i # Len(text)
    <3>1. 1 \in 1..6 /\ 2 \in 1..6 /\ i + 1 - 1 = i /\ i + 2 - 1 = i + 1
      OBVIOUS
    <3> QED BY <2>1, <3>1
  <2> QED BY <1>3, <2>1, <2>2 DEF Width, Meant, NUL
<1>4. CASE c \notin {"quote", "backslash", "newline", "control"}
  <2>1. Escape(c) = <<c>> /\ Len(Escape(c)) = 1
    BY <1>4 DEF Escape
  <2>2. text[i] = c
    <3>1. 1 \in 1..1 /\ i + 1 - 1 = i
      OBVIOUS
    <3> QED BY <2>1, <3>1
  <2> QED BY <1>4, <2>1, <2>2 DEF Width, Meant
<1> QED BY <1>1, <1>2, <1>3, <1>4

\* The end of a string from its character m on.
From(s, m) == SubSeq(s, m, Len(s))

LEMMA FromNext ==
  ASSUME NEW S, NEW s \in Seq(S)
  PROVE  /\ From(s, 1) = s /\ From(s, Len(s) + 1) = <<>>
         /\ \A m \in 1..Len(s) : <<s[m]>> \o From(s, m + 1) = From(s, m)
<1>1. From(s, Len(s) + 1) = <<>>
  BY DEF From
<1>2. From(s, 1) = s
  BY SubSeqFull DEF From
<1>3. ASSUME NEW m \in 1..Len(s) PROVE <<s[m]>> \o From(s, m + 1) = From(s, m)
  <2>1. /\ From(s, m) \in Seq(S) /\ Len(From(s, m)) = Len(s) - m + 1
        /\ \A i \in 1..(Len(s) - m + 1) : From(s, m)[i] = s[m + i - 1]
    BY DEF From
  <2>2. /\ From(s, m + 1) \in Seq(S) /\ Len(From(s, m + 1)) = Len(s) - m
        /\ \A i \in 1..(Len(s) - m) : From(s, m + 1)[i] = s[m + i]
    BY DEF From
  <2> DEFINE f == From(s, m + 1)
             g == <<s[m]>> \o f
             h == From(s, m)
             n == Len(s)
  <2>0. n \in Nat /\ m \in 1..n /\ Len(h) = n - m + 1 /\ Len(f) = n - m
    BY <2>1, <2>2
  <2>3. <<s[m]>> \in Seq(S) /\ Len(<<s[m]>>) = 1 /\ <<s[m]>>[1] = s[m]
    OBVIOUS
  <2> HIDE DEF f
  <2>4. /\ g \in Seq(S) /\ Len(g) = 1 + Len(f) /\ g[1] = s[m]
        /\ \A i \in 1..Len(f) : g[1 + i] = f[i]
    BY <2>2, <2>3 DEF f
  <2>8. /\ h \in Seq(S) /\ \A i \in 1..(n - m + 1) : h[i] = s[m + i - 1]
        /\ \A i \in 1..(n - m) : f[i] = s[m + i]
    BY <2>1, <2>2 DEF f
  <2> HIDE DEF g, h, n
  <2>5. Len(g) = Len(h)
    BY <2>0, <2>4
  <2>6. \A i \in 1..Len(g) : g[i] = h[i]
    <3> SUFFICES ASSUME NEW i \in 1..Len(g) PROVE g[i] = h[i]
      OBVIOUS
    <3>0. i \in 1..(n - m + 1)
      BY <2>0, <2>5
    <3>1. CASE i = 1
      <4>1. m + 1 - 1 = m
        BY <2>0
      <4> QED BY <2>8, <2>4, <3>0, <3>1, <4>1
    <3>2. CASE i # 1
      <4>1. i - 1 \in 1..(n - m) /\ i = 1 + (i - 1) /\ m + i - 1 = m + (i - 1)
        BY <2>0, <3>0, <3>2
      <4> QED BY <2>0, <2>8, <2>4, <3>0, <4>1
    <3> QED BY <3>1, <3>2
  <2>7. g = h
    BY <2>8, <2>4, <2>5, <2>6, SeqEqual, Zenon
  <2> QED BY <2>7 DEF f, g, h
<1> QED BY <1>1, <1>2, <1>3

\* The pieces of the string s are those of ps from piece a on.
StringLies(s, ps, a) ==
    /\ \A i \in 1..Len(s) : s[i] # NUL
    /\ a \in 1..Len(ps) /\ a + Len(s) + 1 <= Len(ps)
    /\ ps[a] = <<"quote">> /\ ps[a + Len(s) + 1] = <<"quote">>
    /\ \A m \in 1..Len(s) : ps[a + m] = Escape(s[m])

\* There a reader of the text finds the string.
LEMMA StringRead ==
  ASSUME NEW S, NEW s \in Seq(S), NEW text, Len(text) \in Nat, NEW ps, Len(ps) \in Nat,
         NEW pos, Cuts(pos, text, ps), NEW a, StringLies(s, ps, a)
  PROVE  /\ text[pos[a]] = "quote" /\ pos[a] <= Len(text)
         /\ Unescape(text)[pos[a] + 1] = <<s, pos[a + Len(s) + 2]>>
<1> DEFINE n == Len(s)
           U == Unescape(text)
           z == pos[a + n + 2]
<1>0. n \in Nat
  OBVIOUS
<1> /\ \A i \in 1..n : s[i] # NUL
    /\ a \in 1..Len(ps) /\ a + n + 1 <= Len(ps)
    /\ ps[a] = <<"quote">> /\ ps[a + n + 1] = <<"quote">>
    /\ \A m \in 1..n : ps[a + m] = Escape(s[m])
  BY DEF StringLies
<1>1. ASSUME NEW b \in 1..Len(ps), ps[b] = <<"quote">>
      PROVE  text[pos[b]] = "quote" /\ pos[b] \in 1..Len(text) /\ pos[b + 1] = pos[b] + 1
  <2>1. /\ pos[b] \in 1..(Len(text) + 1) /\ pos[b + 1] \in 1..(Len(text) + 1)
        /\ pos[b + 1] = pos[b] + Len(ps[b])
        /\ \A m \in 1..Len(ps[b]) : text[pos[b] + m - 1] = ps[b][m]
    <3>1. b \in 1..(Len(ps) + 1) /\ b + 1 \in 1..(Len(ps) + 1)
      OBVIOUS
    <3> QED BY <3>1 DEF Cuts
  <2>2. Len(ps[b]) = 1 /\ ps[b][1] = "quote" /\ 1 \in 1..1
    BY <1>1
  <2>3. pos[b] + 1 - 1 = pos[b]
    BY <2>1
  <2> QED BY <2>1, <2>2, <2>3
<1> HIDE DEF n, U
<1>2. a + n + 1 \in 1..Len(ps) /\ (a + n + 1) + 1 = a + n + 2
  BY <1>0 DEF n
<1>3. \A i \in 1..Nowhere(text) : U[i] = UnescapeAt(text, U, i)
  BY UnescapeFollows DEF U
<1> DEFINE F == {m \in 1..(n + 1) : U[pos[a + m]] = <<From(s, m), z>>}
<1>4. n + 1 \in F
  <2>1. text[pos[a + n + 1]] = "quote" /\ pos[a + n + 1] \in 1..Len(text) /\ z = pos[a + n + 1] + 1
    BY <1>1, <1>2 DEF n
  <2> DEFINE i == pos[a + n + 1]
  <2>2. U[i] = <<<<>>, i + 1>>
    <3>1. i \in 1..Nowhere(text) /\ ~(i > Len(text)) /\ text[i] = "quote"
      BY <2>1 DEF Nowhere
    <3> HIDE DEF i
    <3> QED BY <1>3, <3>1 DEF UnescapeAt, NUL
  <2>3. From(s, n + 1) = <<>>
    BY FromNext DEF n
  <2>4. a + (n + 1) = a + n + 1 /\ n + 1 \in 1..(n + 1)
    BY <1>0
  <2> QED BY <2>1, <2>2, <2>3, <2>4
<1>5. ASSUME NEW m \in 1..((n + 1) - 1), m + 1 \in F PROVE m \in F
  <2> DEFINE i == pos[a + m]
             c == s[m]
             j == pos[a + (m + 1)]
  <2>1. m \in 1..n /\ m \in 1..(n + 1) /\ a + m \in 1..Len(ps) /\ (a + m) + 1 = a + (m + 1)
    BY <1>0 DEF n
  <2>2. /\ i \in 1..(Len(text) + 1) /\ j \in 1..(Len(text) + 1)
        /\ j = i + Len(ps[a + m])
        /\ \A k \in 1..Len(ps[a + m]) : text[i + k - 1] = ps[a + m][k]
    <3> DEFINE b == a + m
    <3>1. b \in 1..Len(ps) /\ b + 1 = a + (m + 1)
      BY <2>1
    <3> HIDE DEF b
    <3>2. b \in 1..(Len(ps) + 1) /\ b + 1 \in 1..(Len(ps) + 1)
      BY <3>1
    <3>3. /\ pos[b] \in 1..(Len(text) + 1) /\ pos[b + 1] \in 1..(Len(text) + 1)
          /\ pos[b + 1] = pos[b] + Len(ps[b])
          /\ \A k \in 1..Len(ps[b]) : text[pos[b] + k - 1] = ps[b][k]
      BY <3>1, <3>2 DEF Cuts
    <3> QED BY <3>1, <3>3 DEF b
  <2>3. ps[a + m] = Escape(c) /\ c # NUL
    BY <2>1 DEF n
  <2>4. U[j] = <<From(s, m + 1), z>>
    BY <1>5
  <2>5. <<c>> \o From(s, m + 1) = From(s, m)
    BY <2>1, FromNext DEF n
  <2> HIDE DEF i, c, j, z
  <2>6. Len(Escape(c)) \in {1, 2, 6}
    BY DEF Escape
  <2>7. i \in 1..Len(text) /\ i + Len(Escape(c)) - 1 <= Len(text) /\ i \in 1..Nowhere(text)
    <3>1. \A l \in Nat : \A x, y \in 1..(l + 1), d \in {1, 2, 6} :
            y = x + d => x \in 1..l /\ x + d - 1 <= l /\ x \in 1..(l + 6)
      OBVIOUS
    <3> QED BY <2>2, <2>3, <2>6, <3>1 DEF Nowhere
  <2>8. /\ Width(text, i) = Len(Escape(c)) /\ Meant(text, i) = c
        /\ text[i] \notin {"quote", "newline", "control", NUL}
    BY <2>2, <2>3, <2>7, EscapeRead
  <2>9. U[i] = <<<<Meant(text, i)>> \o U[i + Width(text, i)][1], U[i + Width(text, i)][2]>>
    <3>1. ~(i > Len(text))
      BY <2>7
    <3> QED BY <1>3, <2>7, <2>8, <3>1 DEF UnescapeAt
  <2>10. i + Width(text, i) = j
    BY <2>2, <2>3, <2>8
  <2>11. U[i] = <<From(s, m), z>>
    BY <2>4, <2>5, <2>8, <2>9, <2>10
  <2> QED BY <2>1, <2>11 DEF i
<1>6. 1 \in F
  <2> HIDE DEF F
  <2>1. n + 1 \in Nat /\ 1 \in 1..(n + 1)
    BY <1>0
  <2> QED BY <1>4, <1>5, <2>1, Downwards
<1>7. U[pos[a + 1]] = <<s, z>>
  BY <1>6, FromNext
<1> QED BY <1>1, <1>7 DEF n, U

LEMMA Joined ==
  ASSUME NEW S, NEW x \in Seq(S), NEW y \in Seq(S)
  PROVE  /\ x \o y \in Seq(S) /\ Len(x \o y) = Len(x) + Len(y)
         /\ \A i \in 1..Len(x) : (x \o y)[i] = x[i]
         /\ \A i \in 1..Len(y) : (x \o y)[Len(x) + i] = y[i]
  OBVIOUS

\* A string's pieces: a quote, its characters, a quote.
LEMMA QuotedShape ==
  ASSUME NEW s \in Strings
  PROVE  /\ s \in Seq({s[i] : i \in 1..Len(s)}) /\ \A i \in 1..Len(s) : s[i] # NUL
         /\ Len(s) \in Nat /\ Len(Quoted(s)) = Len(s) + 2
         /\ Quoted(s)[1] = <<"quote">> /\ Quoted(s)[Len(s) + 2] = <<"quote">>
         /\ \A m \in 1..Len(s) : Quoted(s)[m + 1] = Escape(s[m])
<1>1. s \in Seq({s[i] : i \in 1..Len(s)}) /\ \A i \in 1..Len(s) : s[i] # NUL
  BY TextsAssumption
<1> DEFINE n == Len(s)
           e == [i \in 1..n |-> Escape(s[i])]
           q == <<<<"quote">>>>
           T == {<<"quote">>} \cup {e[i] : i \in 1..n}
<1>2. n \in Nat
  BY <1>1
<1>3. e \in Seq(T) /\ Len(e) = n /\ \A m \in 1..n : e[m] = Escape(s[m])
  <2>1. e \in [1..n -> T]
    OBVIOUS
  <2>2. \A m \in 1..n : e[m] = Escape(s[m])
    OBVIOUS
  <2> HIDE DEF e, n, T
  <2> QED BY <1>2, <2>1, <2>2
<1>4. q \in Seq(T) /\ Len(q) = 1 /\ q[1] = <<"quote">>
  OBVIOUS
<1> HIDE DEF e, q, n, T
<1> DEFINE w == q \o e \o q
<1>5. /\ Len(w) = n + 2 /\ w[1] = q[1] /\ w[n + 2] = q[1]
      /\ \A m \in 1..n : w[m + 1] = e[m]
  <2> DEFINE v == q \o e
  <2>1. v \in Seq(T) /\ Len(v) = 1 + n /\ v[1] = q[1] /\ \A m \in 1..n : v[1 + m] = e[m]
    <3>1. /\ q \o e \in Seq(T) /\ Len(q \o e) = Len(q) + Len(e)
          /\ \A i \in 1..Len(q) : (q \o e)[i] = q[i]
          /\ \A i \in 1..Len(e) : (q \o e)[Len(q) + i] = e[i]
      BY <1>3, <1>4, Joined
    <3>2. 1 \in 1..1
      OBVIOUS
    <3> QED BY <1>2, <1>3, <1>4, <3>1, <3>2
  <2> HIDE DEF v
  <2>2. Len(v \o q) = n + 2 /\ (v \o q)[n + 2] = q[1] /\ \A m \in 1..(n + 1) : (v \o q)[m] = v[m]
    <3>1. 1 \in 1..1 /\ (1 + n) + 1 = n + 2 /\ 1 + n = n + 1
      BY <1>2
    <3>2. Len(v \o q) = (1 + n) + 1 /\ (v \o q)[(1 + n) + 1] = q[1] /\ \A m \in 1..(1 + n) : (v \o q)[m] = v[m]
      <4>1. /\ Len(v \o q) = Len(v) + Len(q)
            /\ \A i \in 1..Len(v) : (v \o q)[i] = v[i]
            /\ \A i \in 1..Len(q) : (v \o q)[Len(v) + i] = q[i]
        <5>1. v \in Seq(T) /\ q \in Seq(T)
          BY <1>4, <2>1
        <5> QED BY <5>1, Joined
      <4> QED BY <1>4, <2>1, <3>1, <4>1
    <3> QED BY <3>1, <3>2
  <2>3. \A m \in 1..n : m + 1 \in 1..(n + 1) /\ m + 1 = 1 + m
    BY <1>2
  <2>4. 1 \in 1..(n + 1)
    BY <1>2
  <2> QED BY <2>1, <2>2, <2>3, <2>4 DEF v
<1> QED BY <1>1, <1>2, <1>3, <1>4, <1>5 DEF Quoted, e, q, n

\* Where the pieces of an item lie, a reader finds it and stands behind it.
LEMMA ItemRead ==
  ASSUME NEW text \in Seq(Bytes), NEW ps \in Seq(Seq(Bytes)), NEW pos, Cuts(pos, text, ps),
         NEW item \in Items, NEW a \in 1..(Len(ps) + 1),
         a + Len(Spelt(item)) <= Len(ps) + 1,
         \A m \in 1..Len(Spelt(item)) : ps[a + m - 1] = Spelt(item)[m]
  PROVE  After(text, pos[a], item) = pos[a + Len(Spelt(item))]
<1>0. Len(text) \in Nat /\ Len(ps) \in Nat
  OBVIOUS
<1>1. CASE "string" \in DOMAIN item
  <2> DEFINE s == item.string
             n == Len(s)
  <2>1. s \in Strings /\ Spelt(item) = Quoted(s)
    <3>1. item \in [string : Strings]
      BY <1>1 DEF Items
    <3> QED BY <1>1, <3>1 DEF Spelt
  <2> HIDE DEF s
  <2>2. /\ s \in Seq({s[i] : i \in 1..n}) /\ n \in Nat /\ \A i \in 1..n : s[i] # NUL
        /\ Len(Quoted(s)) = n + 2
        /\ Quoted(s)[1] = <<"quote">> /\ Quoted(s)[n + 2] = <<"quote">>
        /\ \A m \in 1..n : Quoted(s)[m + 1] = Escape(s[m])
    BY <2>1, QuotedShape
  <2> HIDE DEF n
  <2>3. \A m \in 1..(n + 2) : ps[a + m - 1] = Quoted(s)[m]
    BY <2>1, <2>2
  <2>4. a \in 1..Len(ps) /\ a + n + 1 <= Len(ps) /\ a + (n + 2) = a + n + 2
    BY <1>0, <2>1, <2>2
  <2>5. ps[a] = <<"quote">> /\ ps[a + n + 1] = <<"quote">> /\ \A m \in 1..n : ps[a + m] = Escape(s[m])
    <3>1. 1 \in 1..(n + 2) /\ a + 1 - 1 = a /\ n + 2 \in 1..(n + 2) /\ a + (n + 2) - 1 = a + n + 1
      BY <2>2
    <3>2. \A m \in 1..n : m + 1 \in 1..(n + 2) /\ a + (m + 1) - 1 = a + m
      BY <2>2
    <3> QED BY <2>2, <2>3, <3>1, <3>2
  <2>6. /\ text[pos[a]] = "quote" /\ pos[a] <= Len(text)
        /\ Unescape(text)[pos[a] + 1] = <<s, pos[a + n + 2]>>
    <3> DEFINE S == {s[i] : i \in 1..n}
    <3>1. s \in Seq(S)
      BY <2>2
    <3> HIDE DEF S
    <3>2. StringLies(s, ps, a)
      BY <2>2, <2>4, <2>5 DEF n, StringLies
    <3>3. /\ text[pos[a]] = "quote" /\ pos[a] <= Len(text)
          /\ Unescape(text)[pos[a] + 1] = <<s, pos[a + Len(s) + 2]>>
      BY <1>0, <3>1, <3>2, StringRead
    <3> QED BY <3>3 DEF n
  <2>7. After(text, pos[a], item) = pos[a + n + 2]
    BY <1>1, <2>6 DEF After, s
  <2> QED BY <2>1, <2>2, <2>4, <2>7
<1>2. CASE "string" \notin DOMAIN item
  <2> DEFINE p == item.piece
             n == Len(p)
             i == pos[a]
  <2>1. p \in Pieces /\ Spelt(item) = <<p>>
    <3>1. item \in [piece : Pieces]
      BY <1>2 DEF Items
    <3> QED BY <1>2, <3>1 DEF Spelt
  <2>2. p \in Seq({p[j] : j \in 1..n}) /\ n \in Nat
    <3> HIDE DEF p
    <3>1. p \in Seq({p[j] : j \in 1..Len(p)})
      BY <2>1, TextsAssumption
    <3> QED BY <3>1
  <2>3. ps[a] = p /\ a \in 1..Len(ps) /\ Len(Spelt(item)) = 1
    <3> HIDE DEF p
    <3>1. Len(Spelt(item)) = 1 /\ Spelt(item)[1] = p /\ 1 \in 1..1 /\ a + 1 - 1 = a
      BY <2>1
    <3> QED BY <1>0, <3>1
  <2>4. /\ i \in 1..(Len(text) + 1) /\ pos[a + 1] \in 1..(Len(text) + 1) /\ pos[a + 1] = i + n
        /\ \A m \in 1..n : text[i + m - 1] = p[m]
    <3> HIDE DEF p
    <3>1. a \in 1..(Len(ps) + 1) /\ a + 1 \in 1..(Len(ps) + 1)
      BY <1>0, <2>3
    <3> QED BY <2>3, <3>1 DEF Cuts
  <2> HIDE DEF p, n, i
  <2>5. (i + n) - 1 <= Len(text)
    BY <1>0, <2>2, <2>4
  <2>6. SubSeq(text, i, (i + n) - 1) = p
    <3> DEFINE t == SubSeq(text, i, (i + n) - 1)
               S == Bytes \cup {p[j] : j \in 1..n}
    <3>1. t \in Seq(Bytes) /\ Len(t) = n /\ \A m \in 1..n : t[m] = text[i + m - 1]
      BY <1>0, <2>2, <2>4, <2>5
    <3> HIDE DEF t
    <3>2. t \in Seq(S) /\ p \in Seq(S) /\ Len(t) = Len(p) /\ \A m \in 1..Len(t) : t[m] = p[m]
      BY <2>2, <2>4, <3>1 DEF n
    <3>3. t = p
      BY <3>2, SeqEqual, Zenon
    <3> QED BY <3>3 DEF t
  <2>7. After(text, i, item) = i + n
    <3>1. After(text, i, item) = IF (i + n) - 1 <= Len(text) /\ SubSeq(text, i, (i + n) - 1) = p
                                THEN i + n ELSE Nowhere(text)
      BY <1>2, Zenon DEF After, p, n
    <3>2. (i + n) - 1 <= Len(text) /\ SubSeq(text, i, (i + n) - 1) = p
      BY <2>5, <2>6
    <3> QED BY <3>1, <3>2, Zenon
  <2> QED BY <2>3, <2>4, <2>7 DEF i
<1> QED BY <1>1, <1>2

----------------------------------------------------------------------------
(* A text and what it was made of *)

SpeltAll(items) == [j \in 1..Len(items) |-> Spelt(items[j])]

\* The text is made of all pieces of the items but the rest.
TextMade(text, items, rest) ==
    /\ text \in Seq(Bytes)
    /\ \E ps \in Seq(Seq(Bytes)) :
         IsCut(text, ps) /\ IsCut(ps \o rest, SpeltAll(items))

LEMMA SpeltPieces ==
  ASSUME NEW item \in Items
  PROVE  Spelt(item) \in Seq(Seq(Bytes)) /\ Len(Spelt(item)) \in Nat
<1>1. CASE "string" \in DOMAIN item
  <2>1. item.string \in Strings
    BY <1>1 DEF Items
  <2>2. Spelt(item) \in Seq(Seq(Bytes))
    BY <1>1, <2>1, QuotedPieces DEF Spelt
  <2> QED BY <2>2
<1>2. CASE "string" \notin DOMAIN item
  <2>1. item.piece \in Pieces
    BY <1>2 DEF Items
  <2>2. Spelt(item) \in Seq(Seq(Bytes))
    BY <1>2, <2>1, PieceBytes DEF Spelt
  <2> QED BY <2>2
<1> QED BY <1>1, <1>2

\* Such a text reads as its items.
LEMMA MadeReads ==
  ASSUME NEW text, NEW items \in Seq(Items), TextMade(text, items, <<>>)
  PROVE  Reads(text, items)
<1>1. PICK ps \in Seq(Seq(Bytes)) : IsCut(text, ps) /\ IsCut(ps \o <<>>, SpeltAll(items))
  BY DEF TextMade
<1>2. ps \o <<>> = ps
  <2> DEFINE T == Seq(Bytes)
  <2>1. ps \in Seq(T)
    OBVIOUS
  <2> HIDE DEF T
  <2> QED BY <2>1
<1>3. PICK pos : Cuts(pos, text, ps)
  BY <1>1 DEF IsCut
<1>4. PICK st : Cuts(st, ps, SpeltAll(items))
  BY <1>1, <1>2 DEF IsCut
<1> DEFINE n == Len(items)
           B == Behind(text, items)
<1>5. text \in Seq(Bytes) /\ Len(text) \in Nat /\ n \in Nat /\ Len(ps) \in Nat
  BY DEF TextMade
<1>6. Len(SpeltAll(items)) = n /\ \A j \in 1..n : SpeltAll(items)[j] = Spelt(items[j])
  BY <1>5 DEF SpeltAll
<1>7. /\ \A j \in 1..(n + 1) : st[j] \in 1..(Len(ps) + 1)
      /\ \A a \in 1..(Len(ps) + 1) : pos[a] \in 1..(Len(text) + 1)
      /\ st[1] = 1 /\ st[n + 1] = Len(ps) + 1 /\ pos[1] = 1 /\ pos[Len(ps) + 1] = Len(text) + 1
  BY <1>3, <1>4, <1>6 DEF Cuts
<1>8. /\ B[0] = 1
      /\ \A j \in 1..n :
           B[j] = IF B[j - 1] = Nowhere(text) THEN Nowhere(text) ELSE After(text, B[j - 1], items[j])
  BY <1>5, BehindFollows
<1> HIDE DEF n, B
<1> DEFINE S == {j \in 0..n : B[j] = pos[st[j + 1]]}
<1>9. 0 \in S
  BY <1>5, <1>7, <1>8
<1>10. ASSUME NEW i \in 0..(n - 1), i \in S PROVE i + 1 \in S
  <2> DEFINE j == i + 1
             a == st[j]
             item == items[j]
  <2>1. /\ j \in 1..n /\ j - 1 = i /\ j \in 1..(n + 1) /\ j \in 0..n /\ item \in Items
        /\ B[j - 1] = pos[a]
    BY <1>5, <1>10 DEF n
  <2> HIDE DEF j
  <2>2. a \in 1..(Len(ps) + 1) /\ st[j + 1] \in 1..(Len(ps) + 1)
    <3>1. j + 1 \in 1..(n + 1)
      BY <1>5, <2>1
    <3> QED BY <1>7, <2>1, <3>1
  <2>3. pos[a] # Nowhere(text)
    <3>1. \A l \in Nat : \A x \in 1..(l + 1) : x # l + 6
      OBVIOUS
    <3> QED BY <1>5, <1>7, <2>2, <3>1 DEF Nowhere
  <2>4. B[j] = After(text, pos[a], item)
    BY <1>8, <2>1, <2>3
  <2>5. /\ st[j + 1] = a + Len(Spelt(item))
        /\ \A m \in 1..Len(Spelt(item)) : ps[a + m - 1] = Spelt(item)[m]
    BY <1>4, <1>6, <2>1 DEF Cuts
  <2> HIDE DEF item, a
  <2>6. a + Len(Spelt(item)) <= Len(ps) + 1
    BY <1>5, <2>2, <2>5
  <2>7. After(text, pos[a], item) = pos[a + Len(Spelt(item))]
    BY <1>3, <1>5, <2>1, <2>2, <2>5, <2>6, ItemRead
  <2>8. B[j] = pos[st[j + 1]]
    BY <2>4, <2>5, <2>7
  <2> QED BY <2>1, <2>8 DEF j
<1>11. n \in S
  <2> HIDE DEF S
  <2>1. n \in 0..n
    BY <1>5
  <2> QED BY <1>5, <1>9, <1>10, <2>1, Upwards
<1> QED BY <1>7, <1>11 DEF Reads, B, n

LEMMA MadeNew == TextMade(<<>>, <<>>, <<>>)
<1>1. <<>> \in Seq(Bytes) /\ <<>> \in Seq(Seq(Bytes)) /\ <<>> \o <<>> = <<>>
  OBVIOUS
<1>2. SpeltAll(<<>>) = <<>>
  BY DEF SpeltAll
<1> QED BY <1>1, <1>2, CutNothing DEF TextMade

LEMMA MadeRaw ==
  ASSUME NEW text, NEW items, NEW rest \in Seq(Seq(Bytes)), rest # <<>>,
         TextMade(text, items, rest)
  PROVE  TextMade(text \o Head(rest), items, Tail(rest))
<1> DEFINE B == Seq(Bytes)
           h == Head(rest)
           t == Tail(rest)
<1>1. PICK ps \in Seq(B) : IsCut(text, ps) /\ IsCut(ps \o rest, SpeltAll(items))
  BY DEF TextMade
<1>2. text \in Seq(Bytes)
  BY DEF TextMade
<1>3. rest \in Seq(B)
  OBVIOUS
<1> HIDE DEF B
<1>4. h \in B /\ t \in Seq(B) /\ Append(ps, h) \in Seq(B)
  BY <1>1, <1>3
<1>5. Append(ps, h) \o t = ps \o rest
  BY <1>1, <1>3
<1>6. IsCut(text \o h, Append(ps, h)) /\ text \o h \in Seq(Bytes)
  BY <1>1, <1>2, <1>4, CutMore DEF B
<1> QED BY <1>1, <1>4, <1>5, <1>6 DEF TextMade, B

LEMMA MadeItem ==
  ASSUME NEW text, NEW items \in Seq(Items), NEW item \in Items,
         TextMade(text, items, <<>>)
  PROVE  TextMade(text, Append(items, item), Spelt(item))
<1> DEFINE P == Seq(Bytes)
           L == Seq(P)
           new == Append(items, item)
<1>1. PICK ps \in L : IsCut(text, ps) /\ IsCut(ps \o <<>>, SpeltAll(items))
  BY DEF TextMade
<1>2. ps \o <<>> = ps
  <2>1. ps \in Seq(P)
    OBVIOUS
  <2> HIDE DEF P
  <2> QED BY <2>1
<1>3. Spelt(item) \in L
  BY SpeltPieces
<1>4. SpeltAll(items) \in Seq(L) /\ SpeltAll(new) = Append(SpeltAll(items), Spelt(item))
  <2>1. \A j \in 1..Len(items) : Spelt(items[j]) \in L
    BY SpeltPieces
  <2> HIDE DEF L
  <2>2. Len(items) \in Nat /\ Len(new) = Len(items) + 1 /\ new[Len(items) + 1] = item
        /\ \A j \in 1..Len(items) : new[j] = items[j]
    OBVIOUS
  <2>3. SpeltAll(items) \in [1..Len(items) -> L]
    BY <2>1 DEF SpeltAll
  <2>4. SpeltAll(items) \in Seq(L) /\ Len(SpeltAll(items)) = Len(items)
    BY <2>2, <2>3
  <2>5. SpeltAll(new) \in [1..(Len(items) + 1) -> L]
    <3>1. \A j \in 1..(Len(items) + 1) : Spelt(new[j]) \in L
      BY <1>3, <2>1, <2>2
    <3> QED BY <2>2, <3>1 DEF SpeltAll
  <2>6. SpeltAll(new) \in Seq(L) /\ Len(SpeltAll(new)) = Len(items) + 1
    BY <2>2, <2>5
  <2> DEFINE x == Append(SpeltAll(items), Spelt(item))
  <2>7. x \in Seq(L) /\ Len(x) = Len(items) + 1 /\ x[Len(items) + 1] = Spelt(item)
        /\ \A j \in 1..Len(items) : x[j] = SpeltAll(items)[j]
    BY <1>3, <2>2, <2>4
  <2>8. \A j \in 1..Len(items) : SpeltAll(items)[j] = Spelt(items[j])
    BY DEF SpeltAll
  <2>9. \A j \in 1..(Len(items) + 1) : SpeltAll(new)[j] = Spelt(new[j])
    BY <2>2 DEF SpeltAll
  <2> HIDE DEF x, new
  <2>10. \A j \in 1..Len(x) : x[j] = SpeltAll(new)[j]
    BY <2>2, <2>7, <2>8, <2>9
  <2>11. x = SpeltAll(new)
    BY <2>6, <2>7, <2>10, SeqEqual, Zenon
  <2> QED BY <2>4, <2>11 DEF x
<1>5. IsCut(ps \o Spelt(item), SpeltAll(new))
  <2>1. ps \in Seq(P) /\ SpeltAll(items) \in Seq(Seq(P)) /\ Spelt(item) \in Seq(P)
    BY <1>3, <1>4
  <2>2. IsCut(ps, SpeltAll(items))
    BY <1>1, <1>2
  <2> HIDE DEF P, new
  <2>3. IsCut(ps \o Spelt(item), Append(SpeltAll(items), Spelt(item)))
    BY <2>1, <2>2, CutMore
  <2> QED BY <1>4, <2>3
<1>6. text \in Seq(Bytes)
  BY DEF TextMade
<1> QED BY <1>1, <1>5, <1>6 DEF TextMade

----------------------------------------------------------------------------
(* The invariant: every text is made of what it was said to be made of *)

Rest(k) == IF todo.k = k THEN todo.pieces ELSE <<>>
Made(k) == TextMade(Content(bufs[k]), said[k], Rest(k))
ReadInv == \A k \in 1..Len(bufs) : Made(k)

\* Texts that neither step nor call touches stay made.
LEMMA MadeStands ==
  ASSUME NEW k, Made(k), bufs'[k] = bufs[k], heap' = heap, said'[k] = said[k], Rest(k)' = Rest(k)
  PROVE  Made(k)'
<1>1. Content(bufs[k])' = Content(bufs[k])
  BY DEF Content, Byte
<1> QED BY <1>1 DEF Made

LEMMA MadeByRaw ==
  ASSUME TextsInv, RequestInv, ReadInv, jbuf_raw
  PROVE  ReadInv'
<1>1. /\ todo.k \in 1..Len(bufs) /\ todo.pieces \in Seq(Seq(Bytes)) /\ todo.pieces # <<>>
      /\ todo'.k = todo.k /\ todo'.pieces = Tail(todo.pieces) /\ said' = said
      /\ Len(bufs') = Len(bufs)
  <2>1. todo \in [k : Nat, pieces : Seq(Seq(Bytes))] /\ todo' = [todo EXCEPT !.pieces = Tail(@)]
    BY DEF jbuf_raw, TextsInv, TodoInv
  <2>2. ~Idle
    BY DEF jbuf_raw
  <2> QED BY <2>1, <2>2, RawBuf, Pending DEF Idle, jbuf_raw
<1>2. ASSUME NEW k \in 1..Len(bufs) PROVE Made(k)'
  <2>1. Made(k)
    BY DEF ReadInv
  <2>2. Content(bufs[k])' = IF k = todo.k THEN Content(bufs[k]) \o Head(todo.pieces) ELSE Content(bufs[k])
    BY RawBytes
  <2>3. CASE k = todo.k
    <3>1. Rest(k) = todo.pieces /\ Rest(k)' = Tail(todo.pieces)
      BY <1>1, <2>3 DEF Rest
    <3>2. TextMade(Content(bufs[k]) \o Head(todo.pieces), said[k], Tail(todo.pieces))
      BY <1>1, <2>1, <3>1, MadeRaw DEF Made
    <3> QED BY <1>1, <2>2, <2>3, <3>1, <3>2 DEF Made
  <2>4. CASE k # todo.k
    <3>1. Rest(k) = <<>> /\ Rest(k)' = <<>>
      BY <1>1, <2>4 DEF Rest
    <3> QED BY <1>1, <2>1, <2>2, <2>4, <3>1 DEF Made
  <2> QED BY <2>3, <2>4
<1> QED BY <1>1, <1>2 DEF ReadInv

LEMMA MadeByNew ==
  ASSUME TextsInv, RequestInv, ReadInv, jbuf_new
  PROVE  ReadInv'
<1> DEFINE n == Len(bufs)
<1>1. /\ todo' = todo /\ todo.pieces = <<>> /\ heap' = heap
      /\ bufs' = Append(bufs, Newest(0, Capacity)) /\ said' = Append(said, <<>>)
  BY DEF jbuf_new, Idle
<1>2. bufs \in Seq(Buf) /\ said \in Seq(Seq(Items)) /\ Len(said) = n /\ n \in Nat
  BY BufTypes DEF RequestInv, TextsInv
<1>3. /\ Len(bufs') = n + 1 /\ bufs'[n + 1] = Newest(0, Capacity) /\ said'[n + 1] = <<>>
      /\ \A k \in 1..n : bufs'[k] = bufs[k] /\ said'[k] = said[k]
  BY <1>1, <1>2
<1>4. ASSUME NEW k \in 1..n PROVE Made(k)'
  <2>1. Rest(k)' = Rest(k)
    BY <1>1 DEF Rest
  <2>2. Made(k)
    BY DEF ReadInv
  <2> QED BY <1>1, <1>3, <2>1, <2>2, MadeStands
<1>5. ASSUME NEW k, k = n + 1 PROVE Made(k)'
  <2>1. bufs'[k].len = 0
    BY <1>3, <1>5 DEF Newest
  <2>2. Content(bufs[k])' = <<>>
    BY <2>1 DEF Content
  <2>3. Rest(k)' = <<>>
    BY <1>1 DEF Rest
  <2> QED BY <1>3, <1>5, <2>2, <2>3, MadeNew DEF Made
<1> HIDE DEF n
<1>6. \A k \in 1..(n + 1) : k \in 1..n \/ k = n + 1
  BY <1>2 DEF n
<1> QED BY <1>3, <1>4, <1>5, <1>6 DEF ReadInv

LEMMA MadeByBegin ==
  ASSUME TextsInv, RequestInv, ReadInv,
         NEW j \in 1..Len(bufs), NEW item \in Items, Begin(j, Spelt(item), item)
  PROVE  ReadInv'
<1>1. /\ todo' = [k |-> j, pieces |-> Spelt(item)] /\ todo.pieces = <<>> /\ heap' = heap
      /\ bufs' = bufs /\ said' = [said EXCEPT ![j] = Append(said[j], item)]
  BY DEF Begin, Idle
<1>2. said \in Seq(Seq(Items)) /\ Len(said) = Len(bufs)
  BY DEF RequestInv
<1>3. said[j] \in Seq(Items)
  <2> DEFINE T == Seq(Items)
  <2>1. said \in Seq(T) /\ j \in 1..Len(said)
    BY <1>2
  <2> HIDE DEF T
  <2>2. said[j] \in T
    BY <2>1
  <2> QED BY <2>2 DEF T
<1>4. ASSUME NEW k \in 1..Len(bufs) PROVE Made(k)'
  <2>1. Made(k) /\ Rest(k) = <<>>
    BY <1>1 DEF ReadInv, Rest
  <2>2. Content(bufs[k])' = Content(bufs[k])
    BY <1>1 DEF Content, Byte
  <2>3. CASE k = j
    <3>1. Rest(k)' = Spelt(item)
      BY <1>1, <2>3 DEF Rest
    <3>2. said'[k] = Append(said[k], item)
      BY <1>1, <1>2, <2>3
    <3>3. TextMade(Content(bufs[k]), said[k], <<>>) /\ said[k] \in Seq(Items)
      BY <1>3, <2>1, <2>3 DEF Made
    <3>4. TextMade(Content(bufs[k]), Append(said[k], item), Spelt(item))
      BY <3>3, MadeItem
    <3> QED BY <2>2, <3>1, <3>2, <3>4 DEF Made
  <2>4. CASE k # j
    <3>1. Rest(k)' = <<>> /\ said'[k] = said[k]
      BY <1>1, <1>2, <2>4 DEF Rest
    <3> QED BY <1>1, <2>1, <3>1, MadeStands
  <2> QED BY <2>3, <2>4
<1> QED BY <1>1, <1>4 DEF ReadInv

LEMMA ReadInit == ReactorInit => ReadInv
<1> SUFFICES ASSUME ReactorInit PROVE ReadInv
  OBVIOUS
<1>1. bufs = <<>>
  BY DEF ReactorInit, BuilderInit
<1> QED BY <1>1 DEF ReadInv

LEMMA ReadNext ==
  ASSUME TextsInv, RequestInv, ReadInv, [ReactorNext]_reactorVars
  PROVE  ReadInv'
<1>1. CASE mcp_init \/ HostAllocates \/ mcp_handle_wasm \/ UNCHANGED reactorVars
  <2>1. UNCHANGED builderVars
    BY <1>1 DEF mcp_init, HostAllocates, mcp_handle_wasm, reactorVars
  <2>2. ASSUME NEW k \in 1..Len(bufs) PROVE Made(k)'
    <3>1. Rest(k)' = Rest(k)
      BY <2>1 DEF Rest, builderVars
    <3>2. Made(k)
      BY DEF ReadInv
    <3> QED BY <2>1, <3>1, <3>2, MadeStands DEF builderVars
  <2> QED BY <2>1, <2>2 DEF ReadInv, builderVars
<1>2. CASE mcp_handle
  <2>1. CASE jbuf_new
    BY <2>1, MadeByNew
  <2>2. CASE jbuf_raw
    BY <2>2, MadeByRaw
  <2>3. ASSUME NEW k \in 1..Len(bufs), NEW s \in Strings, jbuf_str(k, s) PROVE ReadInv'
    <3> DEFINE item == [string |-> s]
    <3>1. item \in Items /\ Spelt(item) = Quoted(s)
      BY ItemTypes
    <3>2. Begin(k, Quoted(s), item)
      BY <2>3 DEF jbuf_str
    <3> HIDE DEF item
    <3> QED BY <3>1, <3>2, MadeByBegin
  <2>4. ASSUME NEW k \in 1..Len(bufs), NEW p \in Pieces, jbuf_cstr(k, p) PROVE ReadInv'
    <3> DEFINE item == [piece |-> p]
    <3>1. item \in Items /\ Spelt(item) = <<p>>
      BY ItemTypes
    <3>2. Begin(k, <<p>>, item)
      BY <2>4 DEF jbuf_cstr
    <3> HIDE DEF item
    <3> QED BY <3>1, <3>2, MadeByBegin
  <2> QED BY <1>2, <2>1, <2>2, <2>3, <2>4 DEF mcp_handle, BuilderStep
<1>3. CASE Answer
  <2>1. bufs' = <<>>
    BY <1>3 DEF Answer
  <2> QED BY <2>1 DEF ReadInv
<1> QED BY <1>1, <1>2, <1>3 DEF ReactorNext

LEMMA ReadAlways == ReactorSpec => [](TextsInv /\ RequestInv /\ ReadInv)
<1> DEFINE Inv == TextsInv /\ RequestInv /\ ReadInv
<1>1. ReactorInit => Inv
  BY TextsInvInit, RequestInit, ReadInit
<1>2. Inv /\ [ReactorNext]_reactorVars => Inv'
  BY TextsInvNext, RequestNext, ReadNext
<1> HIDE DEF Inv
<1>3. ReactorSpec => []Inv
  BY <1>1, <1>2, PTL DEF ReactorSpec
<1> QED BY <1>3 DEF Inv

\* A text with nothing left to append reads as all it was made of.
LEMMA MadeTextReads ==
  ASSUME RequestInv, ReadInv, NEW k \in 1..Len(bufs), Idle \/ todo.k # k
  PROVE  Reads(Content(bufs[k]), said[k]) /\ Content(bufs[k]) \in Seq(Bytes)
<1>1. Rest(k) = <<>>
  BY DEF Rest, Idle
<1>2. said[k] \in Seq(Items)
  <2> DEFINE T == Seq(Items)
  <2>1. said \in Seq(T) /\ k \in 1..Len(said)
    BY DEF RequestInv
  <2> HIDE DEF T
  <2>2. said[k] \in T
    BY <2>1
  <2> QED BY <2>2 DEF T
<1>3. TextMade(Content(bufs[k]), said[k], <<>>)
  BY <1>1 DEF ReadInv, Made
<1> QED BY <1>2, <1>3, MadeReads DEF TextMade

----------------------------------------------------------------------------
(* The theorems *)

\* Every text that jbuf_str and jbuf_cstr append to reads, between their calls,
\* as exactly the strings and pieces given, in order: jbuf_raw loses and
\* overwrites nothing, whichever text moves, and what jbuf_str escapes decodes to
\* the string it was given.
THEOREM ReactorTextsReadBack == ReactorSpec => []TextsReadBack
<1>1. RequestInv /\ ReadInv => TextsReadBack
  BY MadeTextReads DEF TextsReadBack
<1> QED BY <1>1, ReadAlways, PTL

\* What mcp_handle copies out for the host: all of the answer's text, which reads
\* as what was appended, or as much of it as leaves a byte for the NUL; or the parse
\* error, of any length that out has room for, or nothing.
THEOREM ReactorAnswerIsRead == ReactorSpec => AnswerIsRead
<1>1. ASSUME TextsInv, RequestInv, ReadInv, Answer, Done
      PROVE  \/ Reads(answer', said[1])
             \/ Len(answer') = OutSize - 1 /\ IsPrefixOf(answer', Content(bufs[1]))
  <2> DEFINE text == Content(bufs[1])
             l == bufs[1].len
  <2>1. /\ 1 \in 1..Len(bufs) /\ Idle
        /\ answer' = SubSeq(text, 1, Copied(bufs[1]))
    <3>1. bufs \in Seq(Buf) /\ bufs # <<>>
      BY <1>1 DEF Done, TextsInv
    <3>2. 1 \in 1..Len(bufs)
      BY <3>1
    <3> QED BY <1>1, <3>2 DEF Answer, Done
  <2>2. text \in Seq(Bytes) /\ Reads(text, said[1])
    BY <1>1, <2>1, MadeTextReads
  <2>3. l \in Nat /\ Len(text) = l
    <3>1. l \in Nat
      BY <1>1, <2>1, BufTypes
    <3> QED BY <3>1, ContentType
  <2>4. Copied(bufs[1]) = IF l >= OutSize THEN OutSize - 1 ELSE l
    BY DEF Copied
  <2> HIDE DEF text, l
  <2>5. CASE l >= OutSize
    <3>1. answer' = SubSeq(text, 1, OutSize - 1)
      BY <2>1, <2>4, <2>5
    <3>2. OutSize - 1 \in Nat /\ OutSize - 1 <= Len(text)
      BY <2>3, <2>5, ReactorAssumption
    <3>3. Len(answer') = OutSize - 1
      BY <2>2, <3>1, <3>2
    <3>4. IsPrefixOf(answer', text)
      BY <3>1, <3>2, <3>3 DEF IsPrefixOf
    <3> QED BY <3>3, <3>4 DEF text
  <2>6. CASE ~(l >= OutSize)
    <3>1. answer' = SubSeq(text, 1, Len(text))
      BY <2>1, <2>3, <2>4, <2>6
    <3>2. answer' = text
      BY <2>2, <3>1, SubSeqFull
    <3> QED BY <2>2, <3>2
  <2> QED BY <2>5, <2>6
<1>2. ASSUME ErrorFits, Answer
      PROVE  \/ said[1] = <<>> /\ answer' \in {ErrorText, <<>>}
             \/ Done /\ said[1] # <<>>
  <2>1. Done => said[1] # <<>>
    BY DEF Done
  <2>2. ReturnsEarly => said[1] = <<>> /\ answer' \in {ErrorText, <<>>}
    BY <1>2 DEF ReturnsEarly
  <2> QED BY <1>2, <2>1, <2>2 DEF Answer
<1>3. ASSUME TextsInv, RequestInv, ReadInv, [ReactorNext]_reactorVars,
             phase = "handling", phase' = "idle"
      PROVE  Answer
  BY <1>3 DEF ReactorNext, mcp_init, HostAllocates, mcp_alloc, mcp_handle_wasm, mcp_handle, reactorVars
<1> DEFINE IsRead ==
      \/ said[1] = <<>> /\ answer' \in {ErrorText, <<>>}
      \/ /\ said[1] # <<>>
         /\ \/ Reads(answer', said[1])
            \/ /\ Len(answer') = OutSize - 1
               /\ IsPrefixOf(answer', Content(bufs[1]))
<1>4. TextsInv /\ RequestInv /\ ReadInv /\ [ReactorNext]_reactorVars =>
        [ErrorFits /\ phase = "handling" /\ phase' = "idle" => IsRead]_reactorVars
  BY <1>1, <1>2, <1>3
<1> QED BY <1>4, ReadAlways, PTL DEF ReactorSpec, AnswerIsRead
=============================================================================
