----------------------------- MODULE JsonProofs -----------------------------
(***************************************************************************)
(* Proofs about JSON: the cursor sj.h over any text, and the requests that *)
(* mcp_handle makes of the text a client posts, for every id, every model, *)
(* every argument text and any number of arguments.                        *)
(*                                                                         *)
(* The model's parsing functions are recursive over tokens; that they      *)
(* exist, and what they give, is shown by induction on how much of a text  *)
(* is left.  A text is then a tree, the reader's positions are positions   *)
(* in the tree, and copying a value's tokens copies its tree.  The         *)
(* theorems about requests compose these facts: what is taken out of a     *)
(* request and put together into a call is the text of what was meant.     *)
(***************************************************************************)
EXTENDS JsonText, Requests, Induction, SequenceTheorems, FiniteSetTheorems, TLAPS

----------------------------------------------------------------------------
(* Parsing goes forward *)

Wants == {"value", "members", "items"}

Ahead(doc, p, i) == p.ok => p.next \in (i + 1)..(Len(doc) + 1)

\* P parses onward from token low.
Onward(doc, P, low) ==
    \A w \in Wants, j \in low..(Len(doc) + 1) : Ahead(doc, P[<<w, j>>], j)

\* What ParseAt looks at for a want at token i is behind it: it parses onward,
\* and P and Q agree on it.
Sees(doc, P, want, i) ==
    Onward(doc, P, i + 1) /\ (want = "items" => Ahead(doc, P[<<"value", i>>], i))

SameBehind(doc, P, Q, want, i) ==
    /\ \A w \in Wants, j \in (i + 1)..(Len(doc) + 1) : P[<<w, j>>] = Q[<<w, j>>]
    /\ want = "items" => P[<<"value", i>>] = Q[<<"value", i>>]

LEMMA ParseOnward ==
  ASSUME NEW doc, Len(doc) \in Nat, NEW P, NEW i \in 1..(Len(doc) + 1), NEW want \in Wants,
         Sees(doc, P, want, i)
  PROVE  Ahead(doc, ParseAt(doc, P, want, i), i)
<1>1. CASE i = Len(doc) + 1
  <2>1. Kind(doc, i) = "eof"
    BY <1>1 DEF Kind
  <2>2. ParseAt(doc, P, want, i) = Failed
    BY <2>1 DEF ParseAt, Scalars, Openings
  <2> QED BY <2>2 DEF Failed, Ahead
<1>2. CASE i # Len(doc) + 1
  <2>0. i + 1 \in (i + 1)..(Len(doc) + 1) /\ i \in 1..Len(doc) /\ Kind(doc, i) = doc[i].k
    BY <1>2 DEF Kind
  <2>1. \A w \in Wants : Ahead(doc, P[<<w, i + 1>>], i + 1)
    BY <2>0 DEF Onward, Sees
  <2>2. \A w \in Wants, j \in (i + 1)..(Len(doc) + 1) : Ahead(doc, P[<<w, j>>], j)
    BY DEF Onward, Sees
  <2>3. CASE want = "value"
    BY <2>0, <2>1, <2>3 DEF ParseAt, Container, Parsed, Failed, Ahead, Wants
  <2>4. CASE want = "members"
    <3> DEFINE value == P[<<"value", i + 1>>]
               rest  == P[<<"members", value.next>>]
    <3>1. value.ok => value.next \in (i + 1)..(Len(doc) + 1)
      BY <2>1, <2>0 DEF Ahead, Wants
    <3>2. value.ok /\ rest.ok => rest.next \in (i + 1)..(Len(doc) + 1)
      BY <2>2, <3>1 DEF Ahead, Wants
    <3> QED BY <2>0, <2>4, <3>2 DEF ParseAt, Parsed, Failed, Ahead, Wants
  <2>5. CASE want = "items"
    <3> DEFINE value == P[<<"value", i>>]
               rest  == P[<<"items", value.next>>]
    <3>1. value.ok => value.next \in (i + 1)..(Len(doc) + 1)
      BY <2>5 DEF Ahead, Sees
    <3>2. value.ok /\ rest.ok => rest.next \in (i + 1)..(Len(doc) + 1)
      BY <2>2, <3>1 DEF Ahead, Wants
    <3> QED BY <2>0, <2>5, <3>2 DEF ParseAt, Parsed, Failed, Ahead, Wants
  <2> QED BY <2>3, <2>4, <2>5 DEF Wants
<1> QED BY <1>1, <1>2

LEMMA ParseLooksBehind ==
  ASSUME NEW doc, Len(doc) \in Nat, NEW P, NEW Q, NEW i \in 1..(Len(doc) + 1), NEW want \in Wants,
         SameBehind(doc, P, Q, want, i), Sees(doc, P, want, i)
  PROVE  ParseAt(doc, P, want, i) = ParseAt(doc, Q, want, i)
<1>1. CASE i = Len(doc) + 1
  BY <1>1 DEF Kind, ParseAt, Wants, Scalars, Openings
<1>2. CASE i # Len(doc) + 1
  <2>0. i + 1 \in (i + 1)..(Len(doc) + 1)
    BY <1>2
  <2>1. \A w \in Wants : P[<<w, i + 1>>] = Q[<<w, i + 1>>] /\ Ahead(doc, P[<<w, i + 1>>], i + 1)
    BY <2>0 DEF Onward, Sees, SameBehind
  <2>2. \A w \in Wants, j \in (i + 1)..(Len(doc) + 1) : P[<<w, j>>] = Q[<<w, j>>]
    BY DEF SameBehind
  <2>3. CASE want = "value"
    BY <2>1, <2>3 DEF ParseAt, Wants
  <2>4. CASE want = "members"
    <3> DEFINE value == P[<<"value", i + 1>>]
               rest  == P[<<"members", value.next>>]
    <3>1. value.ok => value.next \in (i + 1)..(Len(doc) + 1)
      BY <2>1, <2>0 DEF Ahead, Wants
    <3>2. value.ok => rest = Q[<<"members", value.next>>]
      BY <2>2, <3>1 DEF Wants
    <3>3. value = Q[<<"value", i + 1>>]
      BY <2>1 DEF Wants
    <3> QED BY <2>4, <3>2, <3>3 DEF ParseAt
  <2>5. CASE want = "items"
    <3> DEFINE value == P[<<"value", i>>]
               rest  == P[<<"items", value.next>>]
    <3>1. value.ok => value.next \in (i + 1)..(Len(doc) + 1)
      BY <2>5 DEF Ahead, Sees
    <3>2. value.ok => rest = Q[<<"items", value.next>>]
      BY <2>2, <3>1 DEF Wants
    <3>3. value = Q[<<"value", i>>]
      BY <2>5 DEF SameBehind
    <3> QED BY <2>5, <3>2, <3>3 DEF ParseAt
  <2> QED BY <2>3, <2>4, <2>5 DEF Wants
<1> QED BY <1>1, <1>2

\* Recursive descent ends: Parse is what it says.
LEMMA ParseExists ==
  ASSUME NEW doc, Len(doc) \in Nat
  PROVE  \E P : /\ P = [x \in Wants \X (1..(Len(doc) + 1)) |-> ParseAt(doc, P, x[1], x[2])]
               /\ Onward(doc, P, 1)
<1> DEFINE n == Len(doc) + 1
           Fixed(low, f) == f = [x \in Wants \X (low..n) |-> ParseAt(doc, f, x[1], x[2])]
           S == {low \in 1..(n + 1) : \E f : Fixed(low, f) /\ Onward(doc, f, low)}
<1>0. n \in Nat /\ n + 1 \in Nat
  OBVIOUS
<1>1. n + 1 \in S
  <2>1. (n + 1)..n = {} /\ n + 1 \in 1..(n + 1)
    OBVIOUS
  <2> DEFINE e == [x \in {} |-> 0]
  <2>2. Wants \X ((n + 1)..n) = {}
    BY <2>1
  <2>3. e = [x \in {} |-> ParseAt(doc, e, x[1], x[2])]
    OBVIOUS
  <2> HIDE DEF n
  <2>4. Fixed(n + 1, e)
    BY <2>2, <2>3
  <2> USE DEF n
  <2>5. Onward(doc, e, n + 1)
    BY <2>1 DEF Onward
  <2> QED BY <2>1, <2>4, <2>5
<1>2. ASSUME NEW low \in 1..n, low + 1 \in S PROVE low \in S
  <2>1. PICK f : Fixed(low + 1, f) /\ Onward(doc, f, low + 1)
    BY <1>2
  <2> DEFINE D  == Wants \X (low..n)
             f1 == [x \in D |-> IF x[2] = low THEN ParseAt(doc, f, "value", low) ELSE f[x]]
             g  == [x \in D |-> IF x[2] = low THEN ParseAt(doc, f1, x[1], low) ELSE f[x]]
  <2> HIDE DEF n
  <2>2. \A w \in Wants, j \in (low + 1)..n :
          /\ f[<<w, j>>] = ParseAt(doc, f, w, j)
          /\ f1[<<w, j>>] = f[<<w, j>>]
          /\ g[<<w, j>>] = f[<<w, j>>]
    <3> SUFFICES ASSUME NEW w \in Wants, NEW j \in (low + 1)..n
                 PROVE  /\ f[<<w, j>>] = ParseAt(doc, f, w, j)
                        /\ f1[<<w, j>>] = f[<<w, j>>]
                        /\ g[<<w, j>>] = f[<<w, j>>]
      OBVIOUS
    <3>1. <<w, j>> \in Wants \X ((low + 1)..n) /\ <<w, j>> \in D /\ j # low
      BY <1>0
    <3>2. f[<<w, j>>] = ParseAt(doc, f, w, j)
      BY <2>1, <3>1
    <3>3. f1[<<w, j>>] = f[<<w, j>>] /\ g[<<w, j>>] = f[<<w, j>>]
      BY <3>1
    <3> QED BY <3>2, <3>3
  <2>3. \A w \in Wants :
          /\ f1[<<w, low>>] = ParseAt(doc, f, "value", low)
          /\ g[<<w, low>>] = ParseAt(doc, f1, w, low)
    <3> SUFFICES ASSUME NEW w \in Wants
                 PROVE  /\ f1[<<w, low>>] = ParseAt(doc, f, "value", low)
                        /\ g[<<w, low>>] = ParseAt(doc, f1, w, low)
      OBVIOUS
    <3>1. <<w, low>> \in D
      BY <1>0
    <3> QED BY <3>1
  <2>4. g = [x \in D |-> g[x]]
    OBVIOUS
  <2> HIDE DEF f1, g
  <2>5. Onward(doc, f1, low + 1)
    BY <2>1, <2>2 DEF Onward, n
  <2>6. Ahead(doc, ParseAt(doc, f, "value", low), low)
    BY <1>0, <2>1, ParseOnward DEF Sees, Wants, n
  <2>7. Ahead(doc, f1[<<"value", low>>], low)
    BY <2>3, <2>6 DEF Wants
  <2>8. \A w \in Wants : Ahead(doc, g[<<w, low>>], low)
    BY <1>0, <2>3, <2>5, <2>7, ParseOnward DEF Sees, n
  <2>9. Onward(doc, g, low)
    <3> SUFFICES ASSUME NEW w \in Wants, NEW j \in low..n PROVE Ahead(doc, g[<<w, j>>], j)
      BY DEF Onward, n
    <3>1. j = low \/ j \in (low + 1)..n
      BY <1>0
    <3> QED BY <2>1, <2>2, <2>8, <3>1 DEF Onward, n
  <2>10. g[<<"value", low>>] = f1[<<"value", low>>]
    <3>1. ParseAt(doc, f1, "value", low) = ParseAt(doc, f, "value", low)
      <4>1. SameBehind(doc, f1, f, "value", low)
        BY <2>2 DEF SameBehind, n
      <4>2. Sees(doc, f1, "value", low)
        BY <2>5 DEF Sees
      <4> QED BY <1>0, <4>1, <4>2, ParseLooksBehind DEF Wants, n
    <3> QED BY <2>3, <3>1 DEF Wants
  <2>11. ASSUME NEW w \in Wants, NEW j \in low..n
         PROVE  g[<<w, j>>] = ParseAt(doc, g, w, j)
    <3>1. CASE j = low
      <4>1. ParseAt(doc, f1, w, low) = ParseAt(doc, g, w, low)
        <5>1. SameBehind(doc, f1, g, w, low)
          BY <2>2, <2>10 DEF SameBehind, n
        <5>2. Sees(doc, f1, w, low)
          BY <2>5, <2>7 DEF Sees
        <5> QED BY <1>0, <5>1, <5>2, ParseLooksBehind DEF n
      <4> QED BY <2>3, <3>1, <4>1
    <3>2. CASE j # low
      <4>1. j \in (low + 1)..n /\ j \in 1..n /\ \A k \in (j + 1)..n : k \in (low + 1)..n
        BY <1>0, <3>2
      <4>2. Onward(doc, f, j + 1)
        BY <2>1, <4>1 DEF Onward, n
      <4>3. w = "items" => Ahead(doc, f[<<"value", j>>], j)
        BY <2>1, <4>1 DEF Onward, n, Wants
      <4>4. \A v \in Wants, k \in (j + 1)..n : f[<<v, k>>] = g[<<v, k>>]
        BY <2>2, <4>1
      <4>5. f[<<"value", j>>] = g[<<"value", j>>]
        BY <2>2, <4>1 DEF Wants
      <4>6. ParseAt(doc, f, w, j) = ParseAt(doc, g, w, j)
        <5>1. SameBehind(doc, f, g, w, j) /\ Sees(doc, f, w, j)
          BY <4>2, <4>3, <4>4, <4>5 DEF SameBehind, Sees, n
        <5> QED BY <4>1, <5>1, ParseLooksBehind DEF n
      <4> QED BY <2>2, <4>1, <4>6
    <3> QED BY <3>1, <3>2
  <2>12. \A x \in D : g[x] = ParseAt(doc, g, x[1], x[2])
    <3> SUFFICES ASSUME NEW x \in D PROVE g[x] = ParseAt(doc, g, x[1], x[2])
      OBVIOUS
    <3>1. x[1] \in Wants /\ x[2] \in low..n /\ x = <<x[1], x[2]>>
      OBVIOUS
    <3> QED BY <2>11, <3>1
  <2>13. Fixed(low, g)
    BY <2>4, <2>12
  <2>14. low \in 1..(n + 1)
    BY <1>0
  <2> QED BY <2>9, <2>13, <2>14
<1> HIDE DEF S
<1>3. 1 \in S
  <2>1. \A i \in 1..((n + 1) - 1) : i + 1 \in S => i \in S
    BY <1>0, <1>2
  <2>2. \A i \in 1..(n + 1) : i \in S
    BY <1>0, <1>1, <2>1, Downwards
  <2> QED BY <1>0, <2>2
<1> QED BY <1>3 DEF S

LEMMA ParseFollows ==
  ASSUME NEW doc, Len(doc) \in Nat
  PROVE  \A w \in Wants, i \in 1..(Len(doc) + 1) :
           Parse(doc)[<<w, i>>] = ParseAt(doc, Parse(doc), w, i)
<1> DEFINE D == Wants \X (1..(Len(doc) + 1))
           IsParse(P) == P = [x \in D |-> ParseAt(doc, P, x[1], x[2])]
<1>1. Parse(doc) = CHOOSE P : IsParse(P)
  BY DEF Parse, Wants
<1>2. \E Q : IsParse(Q)
  <2>1. PICK Q : /\ Q = [x \in Wants \X (1..(Len(doc) + 1)) |-> ParseAt(doc, Q, x[1], x[2])]
                 /\ Onward(doc, Q, 1)
    BY ParseExists, Zenon
  <2>2. IsParse(Q)
    BY <2>1
  <2> HIDE DEF IsParse
  <2> QED BY <2>2
<1> HIDE DEF IsParse
<1>3. IsParse(Parse(doc))
  BY <1>1, <1>2
<1> USE DEF IsParse
<1> SUFFICES ASSUME NEW w \in Wants, NEW i \in 1..(Len(doc) + 1)
             PROVE  Parse(doc)[<<w, i>>] = ParseAt(doc, Parse(doc), w, i)
  OBVIOUS
<1>4. <<w, i>> \in D
  OBVIOUS
<1> QED BY <1>3, <1>4

\* A parser moves on with everything it parses.
LEMMA ParseMovesOn ==
  ASSUME NEW doc, Len(doc) \in Nat
  PROVE  Onward(doc, Parse(doc), 1)
<1> DEFINE n == Len(doc) + 1
           P == Parse(doc)
           S == {low \in 1..(n + 1) : Onward(doc, P, low)}
<1>0. n \in Nat /\ n + 1 \in Nat /\ n + 1 \in 1..(n + 1)
  OBVIOUS
<1>1. n + 1 \in S
  BY <1>0 DEF Onward
<1>2. ASSUME NEW low \in 1..n, low + 1 \in S PROVE low \in S
  <2>1. \A w \in Wants : P[<<w, low>>] = ParseAt(doc, P, w, low)
    BY ParseFollows
  <2> HIDE DEF P
  <2>2. Onward(doc, P, low + 1)
    BY <1>2
  <2>3. Ahead(doc, P[<<"value", low>>], low)
    BY <2>1, <2>2, ParseOnward DEF Sees, Wants
  <2>4. \A w \in Wants : Ahead(doc, P[<<w, low>>], low)
    BY <2>1, <2>2, <2>3, ParseOnward DEF Sees
  <2>5. Onward(doc, P, low)
    <3> SUFFICES ASSUME NEW w \in Wants, NEW j \in low..n PROVE Ahead(doc, P[<<w, j>>], j)
      BY DEF Onward
    <3>1. j = low \/ j \in (low + 1)..n
      OBVIOUS
    <3> QED BY <2>2, <2>4, <3>1 DEF Onward
  <2> QED BY <2>5
<1> HIDE DEF S
<1>3. 1 \in S
  <2> HIDE DEF n
  <2>1. \A i \in 1..((n + 1) - 1) : i + 1 \in S => i \in S
    BY <1>0, <1>2
  <2>2. \A i \in 1..(n + 1) : i \in S
    BY <1>0, <1>1, <2>1, Downwards
  <2> QED BY <1>0, <2>2
<1> QED BY <1>3 DEF S

----------------------------------------------------------------------------
(* The brackets *)

\* How many of the tokens from i to j are of these kinds.
Count(doc, i, j, kinds) == Cardinality({m \in i..j : doc[m].k \in kinds})

\* The brackets opened and not closed before token j.
Deep(doc, j) == Count(doc, 1, j - 1, Openings) - Count(doc, 1, j - 1, Closings)

LEMMA CountStep ==
  ASSUME NEW doc, NEW kinds, NEW i \in Nat, NEW j \in Nat, i <= j + 1
  PROVE  /\ Count(doc, i, j, kinds) \in Nat
         /\ Count(doc, i, j + 1, kinds)
              = Count(doc, i, j, kinds) + (IF doc[j + 1].k \in kinds THEN 1 ELSE 0)
<1> DEFINE A == {m \in i..j : doc[m].k \in kinds}
           B == {m \in i..(j + 1) : doc[m].k \in kinds}
<1>1. IsFiniteSet(A) /\ Cardinality(A) \in Nat
  <2>1. IsFiniteSet(i..j) /\ A \in SUBSET (i..j)
    BY FS_Interval
  <2> HIDE DEF A
  <2>2. IsFiniteSet(A)
    BY <2>1, FS_Subset
  <2> QED BY <2>2, FS_CardinalityType
<1>2. j + 1 \notin A
  OBVIOUS
<1>3. CASE doc[j + 1].k \in kinds
  <2>1. B = A \cup {j + 1}
    BY <1>3
  <2> HIDE DEF A, B
  <2>2. Cardinality(B) = Cardinality(A) + 1
    BY <1>1, <1>2, <2>1, FS_AddElement
  <2> QED BY <1>1, <1>3, <2>2 DEF A, B, Count
<1>4. CASE doc[j + 1].k \notin kinds
  <2>1. B = A
    BY <1>4
  <2> HIDE DEF A, B
  <2> QED BY <1>1, <1>4, <2>1 DEF A, B, Count
<1> QED BY <1>3, <1>4

LEMMA CountNone ==
  ASSUME NEW doc, NEW kinds, NEW i \in Nat
  PROVE  Count(doc, i, i - 1, kinds) = 0
<1>1. {m \in i..(i - 1) : doc[m].k \in kinds} = {}
  OBVIOUS
<1> QED BY <1>1, FS_EmptySet DEF Count

\* Counting on from token i is counting from the start without what is before i.
LEMMA CountOn ==
  ASSUME NEW doc, NEW kinds, NEW i \in Nat \ {0}, NEW k \in Nat
  PROVE  Count(doc, i, (i + k) - 1, kinds)
           = Count(doc, 1, (i + k) - 1, kinds) - Count(doc, 1, i - 1, kinds)
<1> DEFINE S == {m \in 0..k : Count(doc, i, (i + m) - 1, kinds)
                   = Count(doc, 1, (i + m) - 1, kinds) - Count(doc, 1, i - 1, kinds)}
<1>0. i - 1 \in Nat /\ 1 <= (i - 1) + 1
  OBVIOUS
<1>1. 0 \in S
  <2>1. (i + 0) - 1 = i - 1 /\ 0 \in 0..k
    OBVIOUS
  <2>2. Count(doc, 1, i - 1, kinds) \in Nat
    BY <1>0, CountStep
  <2>3. Count(doc, i, i - 1, kinds) = 0
    BY CountNone
  <2> QED BY <2>1, <2>2, <2>3
<1>2. ASSUME NEW m \in 0..(k - 1), m \in S PROVE m + 1 \in S
  <2> DEFINE j == (i + m) - 1
  <2>1. j \in Nat /\ i <= j + 1 /\ 1 <= j + 1 /\ m + 1 \in 0..k /\ (i + (m + 1)) - 1 = j + 1
    OBVIOUS
  <2>2. Count(doc, i, j, kinds) = Count(doc, 1, j, kinds) - Count(doc, 1, i - 1, kinds)
    BY <1>2
  <2> HIDE DEF j
  <2>3. /\ Count(doc, i, j, kinds) \in Nat
        /\ Count(doc, i, j + 1, kinds)
             = Count(doc, i, j, kinds) + (IF doc[j + 1].k \in kinds THEN 1 ELSE 0)
    BY <2>1, CountStep
  <2>4. /\ Count(doc, 1, j, kinds) \in Nat
        /\ Count(doc, 1, j + 1, kinds)
             = Count(doc, 1, j, kinds) + (IF doc[j + 1].k \in kinds THEN 1 ELSE 0)
    BY <2>1, CountStep
  <2>5. Count(doc, 1, i - 1, kinds) \in Nat
    BY <1>0, CountStep
  <2>6. Count(doc, i, j + 1, kinds) = Count(doc, 1, j + 1, kinds) - Count(doc, 1, i - 1, kinds)
    BY <2>2, <2>3, <2>4, <2>5
  <2> QED BY <2>1, <2>6
<1> HIDE DEF S
<1>3. \A m \in 0..k : m \in S
  BY <1>1, <1>2, Upwards
<1> QED BY <1>3 DEF S

LEMMA DeepStep ==
  ASSUME NEW doc, NEW j \in Nat \ {0}
  PROVE  /\ Deep(doc, j) \in Int
         /\ doc[j].k \in Openings => Deep(doc, j + 1) = Deep(doc, j) + 1
         /\ doc[j].k \in Closings => Deep(doc, j + 1) = Deep(doc, j) - 1
         /\ doc[j].k \notin Openings \cup Closings => Deep(doc, j + 1) = Deep(doc, j)
<1>1. j - 1 \in Nat /\ 1 <= (j - 1) + 1 /\ (j - 1) + 1 = j /\ (j + 1) - 1 = j
  OBVIOUS
<1>2. \A kinds : /\ Count(doc, 1, j - 1, kinds) \in Nat
                 /\ Count(doc, 1, (j - 1) + 1, kinds)
                      = Count(doc, 1, j - 1, kinds) + (IF doc[(j - 1) + 1].k \in kinds THEN 1 ELSE 0)
  BY <1>1, CountStep
<1>3. \A kinds : /\ Count(doc, 1, j - 1, kinds) \in Nat
                 /\ Count(doc, 1, j, kinds)
                      = Count(doc, 1, j - 1, kinds) + (IF doc[j].k \in kinds THEN 1 ELSE 0)
  BY <1>1, <1>2
<1>4. Deep(doc, j + 1) = Count(doc, 1, j, Openings) - Count(doc, 1, j, Closings)
  BY <1>1 DEF Deep
<1>5. doc[j].k \in Openings => doc[j].k \notin Closings
  BY DEF Openings, Closings
<1> QED BY <1>3, <1>4, <1>5 DEF Deep

----------------------------------------------------------------------------
(* What is parsed, by the kind of its first token *)

LEMMA ParsedValue ==
  ASSUME NEW doc, Len(doc) \in Nat, NEW i \in 1..(Len(doc) + 1), Parse(doc)[<<"value", i>>].ok
  PROVE  /\ i \in 1..Len(doc)
         /\ Parse(doc)[<<"value", i>>].next \in (i + 1)..(Len(doc) + 1)
         /\ \/ /\ doc[i].k \in Scalars \cup {"string"}
               /\ Parse(doc)[<<"value", i>>] = Parsed(i + 1, Leaf(doc[i]), <<>>)
            \/ /\ doc[i].k = "object"
               /\ Parse(doc)[<<"members", i + 1>>].ok
               /\ Parse(doc)[<<"value", i>>] = Container("struct", Parse(doc)[<<"members", i + 1>>])
            \/ /\ doc[i].k = "array"
               /\ Parse(doc)[<<"items", i + 1>>].ok
               /\ Parse(doc)[<<"value", i>>] = Container("array", Parse(doc)[<<"items", i + 1>>])
<1> DEFINE P == Parse(doc)
<1>1. P[<<"value", i>>] = ParseAt(doc, P, "value", i)
  BY ParseFollows DEF Wants
<1>2. Ahead(doc, P[<<"value", i>>], i)
  BY ParseMovesOn DEF Onward, Wants
<1> HIDE DEF P
<1>3. P[<<"value", i>>].next \in (i + 1)..(Len(doc) + 1)
  BY <1>2 DEF Ahead, P
<1>4. ~Failed.ok
  BY DEF Failed
<1>5. i \in 1..Len(doc) /\ Kind(doc, i) = doc[i].k
  BY <1>3 DEF Kind
<1>6. CASE Kind(doc, i) \in Scalars \cup {"string"}
  <2>1. P[<<"value", i>>] = Parsed(i + 1, Leaf(doc[i]), <<>>)
    BY <1>1, <1>6 DEF ParseAt, Scalars
  <2> QED BY <1>3, <1>5, <1>6, <2>1 DEF P
<1>7. CASE Kind(doc, i) = "object"
  <2>1. P[<<"value", i>>] = Container("struct", P[<<"members", i + 1>>])
    BY <1>1, <1>7 DEF ParseAt, Scalars
  <2>2. P[<<"members", i + 1>>].ok
    BY <1>4, <2>1 DEF Container, P
  <2> QED BY <1>3, <1>5, <1>7, <2>1, <2>2 DEF P
<1>8. CASE Kind(doc, i) = "array"
  <2>1. P[<<"value", i>>] = Container("array", P[<<"items", i + 1>>])
    BY <1>1, <1>8 DEF ParseAt, Scalars
  <2>2. P[<<"items", i + 1>>].ok
    BY <1>4, <2>1 DEF Container, P
  <2> QED BY <1>3, <1>5, <1>8, <2>1, <2>2 DEF P
<1>9. CASE Kind(doc, i) \notin Scalars \cup {"string", "object", "array"}
  <2>1. P[<<"value", i>>] = Failed
    BY <1>1, <1>9 DEF ParseAt
  <2> QED BY <1>4, <2>1 DEF P
<1> QED BY <1>6, <1>7, <1>8, <1>9

\* The members of an object that begin with the string at token i.
MembersFrom(doc, i) ==
    LET value == Parse(doc)[<<"value", i + 1>>]
        rest  == Parse(doc)[<<"members", value.next>>]
    IN  Parsed(rest.next,
               <<<<doc[i].v, Decoded(doc[i].esc), value.tree>>>> \o rest.tree,
               <<<<i, i + 1>>>> \o rest.starts)

LEMMA ParsedMembers ==
  ASSUME NEW doc, Len(doc) \in Nat, NEW i \in 1..(Len(doc) + 1), Parse(doc)[<<"members", i>>].ok
  PROVE  /\ i \in 1..Len(doc)
         /\ Parse(doc)[<<"members", i>>].next \in (i + 1)..(Len(doc) + 1)
         /\ \/ /\ doc[i].k = "endobject"
               /\ Parse(doc)[<<"members", i>>] = Parsed(i + 1, <<>>, <<>>)
            \/ /\ doc[i].k = "string"
               /\ i + 1 \in 1..Len(doc)
               /\ Parse(doc)[<<"value", i + 1>>].ok
               /\ Parse(doc)[<<"value", i + 1>>].next \in (i + 2)..(Len(doc) + 1)
               /\ Parse(doc)[<<"members", Parse(doc)[<<"value", i + 1>>].next>>].ok
               /\ Parse(doc)[<<"members", i>>] = MembersFrom(doc, i)
<1> DEFINE P == Parse(doc)
<1>1. P[<<"members", i>>] = ParseAt(doc, P, "members", i)
  BY ParseFollows DEF Wants
<1>2. Ahead(doc, P[<<"members", i>>], i)
  BY ParseMovesOn DEF Onward, Wants
<1> HIDE DEF P
<1>3. P[<<"members", i>>].next \in (i + 1)..(Len(doc) + 1)
  BY <1>2 DEF Ahead, P
<1>4. ~Failed.ok
  BY DEF Failed
<1>5. i \in 1..Len(doc) /\ Kind(doc, i) = doc[i].k
  BY <1>3 DEF Kind
<1>6. CASE Kind(doc, i) = "endobject"
  <2>1. P[<<"members", i>>] = Parsed(i + 1, <<>>, <<>>)
    BY <1>1, <1>6 DEF ParseAt
  <2> QED BY <1>3, <1>5, <1>6, <2>1 DEF P
<1>7. CASE Kind(doc, i) = "string"
  <2> DEFINE value == P[<<"value", i + 1>>]
             rest  == P[<<"members", value.next>>]
  <2>1. P[<<"members", i>>] = IF value.ok /\ rest.ok THEN MembersFrom(doc, i) ELSE Failed
    BY <1>1, <1>7 DEF ParseAt, MembersFrom, P
  <2>2. value.ok /\ rest.ok
    BY <1>4, <2>1 DEF P
  <2>3. i + 1 \in 1..(Len(doc) + 1)
    BY <1>5
  <2>4. i + 1 \in 1..Len(doc) /\ value.next \in ((i + 1) + 1)..(Len(doc) + 1)
    BY <2>2, <2>3, ParsedValue DEF P
  <2>5. (i + 1) + 1 = i + 2
    OBVIOUS
  <2> QED BY <1>3, <1>5, <1>7, <2>1, <2>2, <2>4, <2>5 DEF P
<1>8. CASE Kind(doc, i) \notin {"string", "endobject"}
  <2>1. P[<<"members", i>>] = Failed
    BY <1>1, <1>8 DEF ParseAt
  <2> QED BY <1>4, <2>1 DEF P
<1> QED BY <1>6, <1>7, <1>8

ItemsFrom(doc, i) ==
    LET value == Parse(doc)[<<"value", i>>]
        rest  == Parse(doc)[<<"items", value.next>>]
    IN  Parsed(rest.next, <<value.tree>> \o rest.tree, <<>>)

LEMMA ParsedItems ==
  ASSUME NEW doc, Len(doc) \in Nat, NEW i \in 1..(Len(doc) + 1), Parse(doc)[<<"items", i>>].ok
  PROVE  /\ i \in 1..Len(doc)
         /\ Parse(doc)[<<"items", i>>].next \in (i + 1)..(Len(doc) + 1)
         /\ \/ /\ doc[i].k = "endarray"
               /\ Parse(doc)[<<"items", i>>] = Parsed(i + 1, <<>>, <<>>)
            \/ /\ doc[i].k \in Scalars \cup Openings \cup {"string"}
               /\ Parse(doc)[<<"value", i>>].ok
               /\ Parse(doc)[<<"value", i>>].next \in (i + 1)..(Len(doc) + 1)
               /\ Parse(doc)[<<"items", Parse(doc)[<<"value", i>>].next>>].ok
               /\ Parse(doc)[<<"items", i>>] = ItemsFrom(doc, i)
<1> DEFINE P == Parse(doc)
<1>1. P[<<"items", i>>] = ParseAt(doc, P, "items", i)
  BY ParseFollows DEF Wants
<1>2. Ahead(doc, P[<<"items", i>>], i)
  BY ParseMovesOn DEF Onward, Wants
<1> HIDE DEF P
<1>3. P[<<"items", i>>].next \in (i + 1)..(Len(doc) + 1)
  BY <1>2 DEF Ahead, P
<1>4. ~Failed.ok
  BY DEF Failed
<1>5. i \in 1..Len(doc) /\ Kind(doc, i) = doc[i].k
  BY <1>3 DEF Kind
<1>6. CASE Kind(doc, i) = "endarray"
  <2>1. P[<<"items", i>>] = Parsed(i + 1, <<>>, <<>>)
    BY <1>1, <1>6 DEF ParseAt, Scalars, Openings
  <2> QED BY <1>3, <1>5, <1>6, <2>1 DEF P
<1>7. CASE Kind(doc, i) \in Scalars \cup Openings \cup {"string"}
  <2> DEFINE value == P[<<"value", i>>]
             rest  == P[<<"items", value.next>>]
  <2>1. P[<<"items", i>>] = IF value.ok /\ rest.ok THEN ItemsFrom(doc, i) ELSE Failed
    BY <1>1, <1>7 DEF ParseAt, ItemsFrom, P, Scalars, Openings
  <2>2. value.ok /\ rest.ok
    BY <1>4, <2>1 DEF P
  <2>4. value.next \in (i + 1)..(Len(doc) + 1)
    BY <2>2, ParsedValue DEF P
  <2> QED BY <1>3, <1>5, <1>7, <2>1, <2>2, <2>4 DEF P
<1>8. CASE Kind(doc, i) \notin Scalars \cup Openings \cup {"string", "endarray"}
  <2>1. P[<<"items", i>>] = Failed
    BY <1>1, <1>8 DEF ParseAt
  <2> QED BY <1>4, <2>1 DEF P
<1> QED BY <1>6, <1>7, <1>8

----------------------------------------------------------------------------
(* The shape of a value *)

\* What is parsed as a value nests all it holds and closes all it opens; the
\* rest of a container closes one bracket more.  Every bracket that is opened
\* opens a value.
Shape(doc, w, i) ==
    LET p == Parse(doc)[<<w, i>>]
    IN  p.ok =>
          /\ w = "value" => /\ Deep(doc, p.next) = Deep(doc, i)
                            /\ \A j \in (i + 1)..(p.next - 1) : Deep(doc, j) > Deep(doc, i)
          /\ w # "value" => /\ Deep(doc, p.next) = Deep(doc, i) - 1
                            /\ \A j \in i..(p.next - 1) : Deep(doc, j) >= Deep(doc, i)
          /\ \A j \in i..(p.next - 1) :
               /\ doc[j].k \in Scalars \cup Openings \cup Closings \cup {"string"}
               /\ doc[j].k \in Openings => Parse(doc)[<<"value", j>>].ok

LEMMA ShapeOfScalar ==
  ASSUME NEW doc, Len(doc) \in Nat, NEW i \in 1..Len(doc),
         doc[i].k \in Scalars \cup {"string"},
         Parse(doc)[<<"value", i>>] = Parsed(i + 1, Leaf(doc[i]), <<>>)
  PROVE  Shape(doc, "value", i)
<1>1. Parse(doc)[<<"value", i>>].next = i + 1
  BY DEF Parsed
<1>2. doc[i].k \notin Openings \cup Closings
  BY DEF Scalars, Openings, Closings
<1>3. Deep(doc, i + 1) = Deep(doc, i)
  BY <1>2, DeepStep
<1>4. (i + 1)..((i + 1) - 1) = {} /\ i..((i + 1) - 1) = {i}
  OBVIOUS
<1> QED BY <1>1, <1>2, <1>3, <1>4 DEF Shape

LEMMA ShapeOfContainer ==
  ASSUME NEW doc, Len(doc) \in Nat, NEW i \in 1..Len(doc), doc[i].k \in Openings,
         NEW rest \in {"members", "items"}, NEW tag,
         Parse(doc)[<<rest, i + 1>>].ok, Shape(doc, rest, i + 1),
         Parse(doc)[<<rest, i + 1>>].next \in (i + 2)..(Len(doc) + 1),
         Parse(doc)[<<"value", i>>] = Container(tag, Parse(doc)[<<rest, i + 1>>])
  PROVE  Shape(doc, "value", i)
<1> DEFINE in == Parse(doc)[<<rest, i + 1>>]
           p  == Parse(doc)[<<"value", i>>]
<1>1. p.ok /\ p.next = in.next
  BY DEF Container, Parsed
<1>2. Deep(doc, i + 1) = Deep(doc, i) + 1 /\ Deep(doc, i) \in Int
  BY DeepStep
<1>3. /\ Deep(doc, in.next) = Deep(doc, i + 1) - 1
      /\ \A j \in (i + 1)..(in.next - 1) : Deep(doc, j) >= Deep(doc, i + 1)
      /\ \A j \in (i + 1)..(in.next - 1) :
           /\ doc[j].k \in Scalars \cup Openings \cup Closings \cup {"string"}
           /\ doc[j].k \in Openings => Parse(doc)[<<"value", j>>].ok
  BY DEF Shape
<1>4. \A j \in (i + 1)..(in.next - 1) : j \in Nat \ {0}
  OBVIOUS
<1>5. \A j \in (i + 1)..(in.next - 1) : Deep(doc, j) \in Int
  BY <1>4, DeepStep
<1>6. \A j \in i..(in.next - 1) : j = i \/ j \in (i + 1)..(in.next - 1)
  OBVIOUS
<1> HIDE DEF in, p
<1>7. \A j \in (i + 1)..(p.next - 1) : Deep(doc, j) > Deep(doc, i)
  BY <1>1, <1>2, <1>3, <1>5
<1>8. \A j \in i..(p.next - 1) :
        /\ doc[j].k \in Scalars \cup Openings \cup Closings \cup {"string"}
        /\ doc[j].k \in Openings => Parse(doc)[<<"value", j>>].ok
  BY <1>1, <1>3, <1>6 DEF p
<1>9. Deep(doc, p.next) = Deep(doc, i)
  BY <1>1, <1>2, <1>3
<1> QED BY <1>7, <1>8, <1>9 DEF Shape, p

LEMMA ShapeOfEnd ==
  ASSUME NEW doc, Len(doc) \in Nat, NEW i \in 1..Len(doc), doc[i].k \in Closings,
         NEW rest \in {"members", "items"},
         Parse(doc)[<<rest, i>>] = Parsed(i + 1, <<>>, <<>>)
  PROVE  Shape(doc, rest, i)
<1>1. Parse(doc)[<<rest, i>>].next = i + 1
  BY DEF Parsed
<1>2. doc[i].k \notin Openings
  BY DEF Openings, Closings
<1>3. Deep(doc, i + 1) = Deep(doc, i) - 1 /\ Deep(doc, i) \in Int
  BY <1>2, DeepStep
<1>4. i..((i + 1) - 1) = {i}
  OBVIOUS
<1> QED BY <1>1, <1>2, <1>3, <1>4 DEF Shape

\* One value at token i, or behind the key at token i, and then the rest.
LEMMA ShapeOfRest ==
  ASSUME NEW doc, Len(doc) \in Nat, NEW i \in 1..Len(doc),
         NEW rest \in {"members", "items"}, NEW at \in {i, i + 1},
         at = i + 1 => doc[i].k = "string",
         Parse(doc)[<<"value", at>>].ok, Shape(doc, "value", at),
         Parse(doc)[<<"value", at>>].next \in (at + 1)..(Len(doc) + 1),
         NEW m, m = Parse(doc)[<<"value", at>>].next,
         Parse(doc)[<<rest, m>>].ok, Shape(doc, rest, m),
         Parse(doc)[<<rest, m>>].next \in (m + 1)..(Len(doc) + 1),
         Parse(doc)[<<rest, i>>].next = Parse(doc)[<<rest, m>>].next
  PROVE  Shape(doc, rest, i)
<1> DEFINE e == Parse(doc)[<<rest, m>>].next
<1>0. at \in Nat \ {0} /\ m \in (at + 1)..(Len(doc) + 1) /\ e \in (m + 1)..(Len(doc) + 1)
  OBVIOUS
<1>1. /\ Deep(doc, m) = Deep(doc, at)
      /\ \A j \in (at + 1)..(m - 1) : Deep(doc, j) > Deep(doc, at)
      /\ \A j \in at..(m - 1) :
           /\ doc[j].k \in Scalars \cup Openings \cup Closings \cup {"string"}
           /\ doc[j].k \in Openings => Parse(doc)[<<"value", j>>].ok
  BY DEF Shape
<1>2. /\ Deep(doc, e) = Deep(doc, m) - 1
      /\ \A j \in m..(e - 1) : Deep(doc, j) >= Deep(doc, m)
      /\ \A j \in m..(e - 1) :
           /\ doc[j].k \in Scalars \cup Openings \cup Closings \cup {"string"}
           /\ doc[j].k \in Openings => Parse(doc)[<<"value", j>>].ok
  BY DEF Shape
<1>3. Deep(doc, at) = Deep(doc, i)
  <2>1. CASE at = i
    BY <2>1
  <2>2. CASE at = i + 1
    <3>1. doc[i].k \notin Openings \cup Closings
      BY <2>2 DEF Openings, Closings
    <3> QED BY <2>2, <3>1, DeepStep
  <2> QED BY <2>1, <2>2
<1>4. \A j \in i..(e - 1) : j \in Nat \ {0}
  BY <1>0
<1>5. \A j \in i..(e - 1) : Deep(doc, j) \in Int
  BY <1>4, DeepStep
<1>6. Deep(doc, i) \in Int
  BY DeepStep
<1>7. at # i => doc[i].k \in {"string"} /\ doc[i].k \notin Openings
  BY DEF Openings
<1> HIDE DEF e
<1>8. ASSUME NEW j \in i..(e - 1)
      PROVE  j \in {i, at} \/ j \in (at + 1)..(m - 1) \/ j \in m..(e - 1)
  BY <1>0
<1>9. ASSUME NEW j \in i..(e - 1) PROVE Deep(doc, j) >= Deep(doc, i)
  <2>1. CASE j \in {i, at}
    BY <1>3, <1>6, <2>1
  <2>2. CASE j \in (at + 1)..(m - 1)
    <3>1. Deep(doc, j) > Deep(doc, at)
      BY <1>1, <2>2, Zenon
    <3>2. Deep(doc, j) \in Int
      BY <1>5
    <3> QED BY <1>3, <1>6, <3>1, <3>2
  <2>3. CASE j \in m..(e - 1)
    <3>1. Deep(doc, j) >= Deep(doc, m)
      BY <1>2, <2>3
    <3>2. Deep(doc, m) = Deep(doc, i)
      BY <1>1, <1>3
    <3> QED BY <3>1, <3>2
  <2> QED BY <1>8, <2>1, <2>2, <2>3
<1>10. ASSUME NEW j \in i..(e - 1)
       PROVE  /\ doc[j].k \in Scalars \cup Openings \cup Closings \cup {"string"}
              /\ doc[j].k \in Openings => Parse(doc)[<<"value", j>>].ok
  <2>1. j \in at..(m - 1) \/ j \in m..(e - 1) \/ (at # i /\ j = i)
    BY <1>0
  <2> QED BY <1>1, <1>2, <1>7, <2>1
<1>11. Deep(doc, e) = Deep(doc, i) - 1
  BY <1>1, <1>2, <1>3
<1> QED BY <1>9, <1>10, <1>11 DEF Shape, e

LEMMA ShapeOfAll ==
  ASSUME NEW doc, Len(doc) \in Nat
  PROVE  \A w \in Wants, i \in 1..(Len(doc) + 1) : Shape(doc, w, i)
<1> DEFINE n == Len(doc) + 1
           S == {low \in 1..(n + 1) : \A w \in Wants, j \in low..n : Shape(doc, w, j)}
<1>0. n \in Nat /\ n + 1 \in Nat /\ n + 1 \in 1..(n + 1) /\ (n + 1)..n = {}
  OBVIOUS
<1>1. n + 1 \in S
  BY <1>0
<1>2. ASSUME NEW i \in 1..n, i + 1 \in S PROVE i \in S
  <2>1. \A w \in Wants, j \in (i + 1)..n : Shape(doc, w, j)
    BY <1>2
  <2>2. Shape(doc, "value", i)
    <3> SUFFICES ASSUME Parse(doc)[<<"value", i>>].ok PROVE Shape(doc, "value", i)
      BY DEF Shape
    <3>1. i \in 1..Len(doc)
      BY ParsedValue
    <3>2. CASE /\ doc[i].k \in Scalars \cup {"string"}
               /\ Parse(doc)[<<"value", i>>] = Parsed(i + 1, Leaf(doc[i]), <<>>)
      BY <3>1, <3>2, ShapeOfScalar
    <3>3. CASE /\ doc[i].k = "object"
               /\ Parse(doc)[<<"members", i + 1>>].ok
               /\ Parse(doc)[<<"value", i>>] = Container("struct", Parse(doc)[<<"members", i + 1>>])
      <4>1. i + 1 \in (i + 1)..n /\ i + 1 \in 1..n /\ (i + 1) + 1 = i + 2
        BY <3>1
      <4>2. Parse(doc)[<<"members", i + 1>>].next \in ((i + 1) + 1)..n
        BY <3>3, <4>1, ParsedMembers
      <4>3. Shape(doc, "members", i + 1)
        BY <2>1, <4>1 DEF Wants
      <4> QED BY <3>1, <3>3, <4>1, <4>2, <4>3, ShapeOfContainer DEF Openings
    <3>4. CASE /\ doc[i].k = "array"
               /\ Parse(doc)[<<"items", i + 1>>].ok
               /\ Parse(doc)[<<"value", i>>] = Container("array", Parse(doc)[<<"items", i + 1>>])
      <4>1. i + 1 \in (i + 1)..n /\ i + 1 \in 1..n /\ (i + 1) + 1 = i + 2
        BY <3>1
      <4>2. Parse(doc)[<<"items", i + 1>>].next \in ((i + 1) + 1)..n
        BY <3>4, <4>1, ParsedItems
      <4>3. Shape(doc, "items", i + 1)
        BY <2>1, <4>1 DEF Wants
      <4> QED BY <3>1, <3>4, <4>1, <4>2, <4>3, ShapeOfContainer DEF Openings
    <3> QED BY <3>2, <3>3, <3>4, ParsedValue
  <2>3. Shape(doc, "members", i)
    <3> SUFFICES ASSUME Parse(doc)[<<"members", i>>].ok PROVE Shape(doc, "members", i)
      BY DEF Shape
    <3>1. i \in 1..Len(doc)
      BY ParsedMembers
    <3>2. CASE /\ doc[i].k = "endobject"
               /\ Parse(doc)[<<"members", i>>] = Parsed(i + 1, <<>>, <<>>)
      BY <3>1, <3>2, ShapeOfEnd DEF Closings
    <3>3. CASE ~(doc[i].k = "endobject" /\ Parse(doc)[<<"members", i>>] = Parsed(i + 1, <<>>, <<>>))
      <4> DEFINE m == Parse(doc)[<<"value", i + 1>>].next
      <4>1. /\ doc[i].k = "string"
            /\ i + 1 \in 1..Len(doc)
            /\ Parse(doc)[<<"value", i + 1>>].ok
            /\ m \in (i + 2)..n
            /\ Parse(doc)[<<"members", m>>].ok
            /\ Parse(doc)[<<"members", i>>] = MembersFrom(doc, i)
        BY <3>3, ParsedMembers
      <4>2. Parse(doc)[<<"members", i>>].next = Parse(doc)[<<"members", m>>].next
        BY <4>1 DEF MembersFrom, Parsed
      <4>3. m \in 1..n /\ m \in (i + 1)..n /\ i + 1 \in (i + 1)..n /\ m \in ((i + 1) + 1)..n
        BY <4>1
      <4>4. Parse(doc)[<<"members", m>>].next \in (m + 1)..n
        BY <4>1, <4>3, ParsedMembers
      <4>5. Shape(doc, "value", i + 1) /\ Shape(doc, "members", m)
        BY <2>1, <4>3 DEF Wants
      <4>6. i + 1 \in {i, i + 1}
        OBVIOUS
      <4> QED BY <3>1, <4>1, <4>2, <4>3, <4>4, <4>5, <4>6, ShapeOfRest
    <3> QED BY <3>2, <3>3
  <2>4. Shape(doc, "items", i)
    <3> SUFFICES ASSUME Parse(doc)[<<"items", i>>].ok PROVE Shape(doc, "items", i)
      BY DEF Shape
    <3>1. i \in 1..Len(doc)
      BY ParsedItems
    <3>2. CASE /\ doc[i].k = "endarray"
               /\ Parse(doc)[<<"items", i>>] = Parsed(i + 1, <<>>, <<>>)
      BY <3>1, <3>2, ShapeOfEnd DEF Closings
    <3>3. CASE ~(doc[i].k = "endarray" /\ Parse(doc)[<<"items", i>>] = Parsed(i + 1, <<>>, <<>>))
      <4> DEFINE m == Parse(doc)[<<"value", i>>].next
      <4>1. /\ Parse(doc)[<<"value", i>>].ok
            /\ m \in (i + 1)..n
            /\ Parse(doc)[<<"items", m>>].ok
            /\ Parse(doc)[<<"items", i>>] = ItemsFrom(doc, i)
        BY <3>3, ParsedItems
      <4>2. Parse(doc)[<<"items", i>>].next = Parse(doc)[<<"items", m>>].next
        BY <4>1 DEF ItemsFrom, Parsed
      <4>3. m \in 1..n
        BY <4>1
      <4>4. Parse(doc)[<<"items", m>>].next \in (m + 1)..n
        BY <4>1, <4>3, ParsedItems
      <4>5. Shape(doc, "items", m)
        BY <2>1, <4>1 DEF Wants
      <4>6. i \in {i, i + 1} /\ i # i + 1
        OBVIOUS
      <4> QED BY <2>2, <3>1, <4>1, <4>2, <4>3, <4>4, <4>5, <4>6, ShapeOfRest
    <3> QED BY <3>2, <3>3
  <2>5. \A w \in Wants, j \in i..n : j = i \/ j \in (i + 1)..n
    OBVIOUS
  <2>6. \A w \in Wants : Shape(doc, w, i)
    BY <2>2, <2>3, <2>4 DEF Wants
  <2>7. i \in 1..(n + 1)
    OBVIOUS
  <2> QED BY <2>1, <2>5, <2>6, <2>7
<1> HIDE DEF S
<1>3. 1 \in S
  <2> HIDE DEF n
  <2>1. \A i \in 1..((n + 1) - 1) : i + 1 \in S => i \in S
    BY <1>0, <1>2
  <2>2. \A i \in 1..(n + 1) : i \in S
    BY <1>0, <1>1, <2>1, Downwards
  <2>3. 1 \in 1..(n + 1)
    BY <1>0
  <2> QED BY <2>2, <2>3
<1> QED BY <1>3 DEF S

----------------------------------------------------------------------------
(* The raw scan *)

\* From a bracket that opens a value, the scan ends where the value ends.
LEMMA ScanEnds ==
  ASSUME NEW doc, Len(doc) \in Nat, NEW i \in 1..Len(doc), doc[i].k \in Openings,
         Parse(doc)[<<"value", i>>].ok
  PROVE  ClosingAt(doc, i) = ValueEnd(doc, i)
<1> DEFINE next == Parse(doc)[<<"value", i>>].next
           Balanced == {j \in i..Len(doc) : Count(doc, i, j, Openings) = Count(doc, i, j, Closings)}
<1>0. i \in 1..(Len(doc) + 1) /\ i \in Nat \ {0} /\ i - 1 \in Nat
  OBVIOUS
<1>1. ClosingAt(doc, i) = IF Balanced = {} THEN Len(doc)
                          ELSE CHOOSE j \in Balanced : \A k \in Balanced : j <= k
  BY DEF ClosingAt, Balance, Count
<1>2. next \in (i + 1)..(Len(doc) + 1)
  BY <1>0, ParsedValue
<1>3. /\ Deep(doc, next) = Deep(doc, i)
      /\ \A j \in (i + 1)..(next - 1) : Deep(doc, j) > Deep(doc, i)
  <2>1. Shape(doc, "value", i)
    BY <1>0, ShapeOfAll DEF Wants
  <2> QED BY <2>1 DEF Shape
<1>4. ASSUME NEW j \in i..Len(doc)
      PROVE  Count(doc, i, j, Openings) = Count(doc, i, j, Closings)
               <=> Deep(doc, j + 1) = Deep(doc, i)
  <2>0. PICK k \in Nat : j + 1 = i + k
    <3>1. (j + 1) - i \in Nat /\ i + ((j + 1) - i) = j + 1
      BY <1>0
    <3> QED BY <3>1
  <2>1. /\ (i + k) - 1 = j /\ j \in Nat /\ (j + 1) - 1 = j
        /\ i <= j + 1 /\ 1 <= j + 1 /\ 1 <= (i - 1) + 1
    BY <1>0, <2>0
  <2>2. \A kinds : Count(doc, i, j, kinds) = Count(doc, 1, j, kinds) - Count(doc, 1, i - 1, kinds)
    <3> SUFFICES ASSUME NEW kinds
                 PROVE  Count(doc, i, j, kinds) = Count(doc, 1, j, kinds) - Count(doc, 1, i - 1, kinds)
      OBVIOUS
    <3>1. Count(doc, i, (i + k) - 1, kinds)
            = Count(doc, 1, (i + k) - 1, kinds) - Count(doc, 1, i - 1, kinds)
      BY <1>0, CountOn
    <3> QED BY <2>1, <3>1
  <2>3. \A kinds : Count(doc, 1, j, kinds) \in Nat /\ Count(doc, 1, i - 1, kinds) \in Nat
    BY <1>0, <2>1, CountStep
  <2>4. Deep(doc, j + 1) = Count(doc, 1, j, Openings) - Count(doc, 1, j, Closings)
    BY <2>1 DEF Deep
  <2>5. /\ Count(doc, i, j, Openings) = Count(doc, 1, j, Openings) - Count(doc, 1, i - 1, Openings)
        /\ Count(doc, i, j, Closings) = Count(doc, 1, j, Closings) - Count(doc, 1, i - 1, Closings)
        /\ Count(doc, 1, j, Openings) \in Nat /\ Count(doc, 1, i - 1, Openings) \in Nat
        /\ Count(doc, 1, j, Closings) \in Nat /\ Count(doc, 1, i - 1, Closings) \in Nat
    BY <2>2, <2>3
  <2> QED BY <2>4, <2>5 DEF Deep
<1>5. next - 1 \in Balanced
  <2>1. Deep(doc, i + 1) = Deep(doc, i) + 1 /\ Deep(doc, i) \in Int
    BY DeepStep
  <2>2. next # i
    BY <1>2
  <2>3. next - 1 \in i..Len(doc) /\ (next - 1) + 1 = next
    BY <1>0, <1>2
  <2> HIDE DEF next
  <2>4. Count(doc, i, next - 1, Openings) = Count(doc, i, next - 1, Closings)
    BY <1>3, <1>4, <2>3
  <2> QED BY <2>3, <2>4
<1>6. \A j \in Balanced : next - 1 <= j
  <2> SUFFICES ASSUME NEW j \in Balanced, j < next - 1 PROVE FALSE
    BY <1>2
  <2>1. j \in i..Len(doc) /\ j + 1 \in (i + 1)..(next - 1) /\ j + 1 \in Nat \ {0}
    BY <1>2
  <2>2. Deep(doc, j + 1) = Deep(doc, i)
    BY <1>4, <2>1
  <2>3. Deep(doc, j + 1) > Deep(doc, i) /\ Deep(doc, j + 1) \in Int
    BY <1>3, <2>1, DeepStep
  <2> QED BY <2>2, <2>3
<1>7. Balanced \subseteq Int /\ next - 1 \in Int
  BY <1>2
<1>8. ValueEnd(doc, i) = next - 1
  BY DEF ValueEnd
<1> HIDE DEF Balanced, next
<1>9. ASSUME NEW j \in Balanced, \A k \in Balanced : j <= k PROVE j = next - 1
  <2>1. j <= next - 1 /\ next - 1 <= j /\ j \in Int
    BY <1>5, <1>6, <1>7, <1>9
  <2> QED BY <1>7, <2>1
<1>10. (CHOOSE j \in Balanced : \A k \in Balanced : j <= k) = next - 1
  BY <1>5, <1>6, <1>9
<1> QED BY <1>1, <1>5, <1>8, <1>10

----------------------------------------------------------------------------
(* The cursor *)

\* A text whose characters have been read as tokens.
Tokens(doc) == Len(doc) \in Nat /\ \A m \in 1..Len(doc) : doc[m].k \in Kinds

Reader(cur, depth, error) == [cur |-> cur, depth |-> depth, error |-> error]

\* A reader before token i that has seen no error.
At(i, d) == Reader(i, d, FALSE)

LEMMA ReaderMoved ==
  ASSUME NEW c, NEW d, NEW e, NEW x
  PROVE  [Reader(c, d, e) EXCEPT !.cur = x] = Reader(x, d, e)
BY DEF Reader

LEMMA ReaderDeeper ==
  ASSUME NEW c, NEW d, NEW e, NEW x
  PROVE  [Reader(c, d, e) EXCEPT !.depth = x] = Reader(c, x, e)
BY DEF Reader

LEMMA ReaderType ==
  ASSUME NEW doc
  PROVE  /\ \A r \in Readers(doc) :
              /\ r = Reader(r.cur, r.depth, r.error)
              /\ r.cur \in 1..(Len(doc) + 1) /\ r.depth \in Int /\ r.error \in BOOLEAN
         /\ \A c \in 1..(Len(doc) + 1), d \in Int, e \in BOOLEAN : Reader(c, d, e) \in Readers(doc)
BY DEF Readers, Reader

\* sj_read by the kind of the token, for a reader that can read one.
LEMMA ReadAt ==
  ASSUME NEW doc, Len(doc) \in Nat, NEW i \in 1..Len(doc), NEW d \in Int
  PROVE  /\ doc[i].k \in Openings =>
              sj_read(doc, At(i, d)) = [r |-> At(i + 1, d + 1), v |-> Value(doc[i].k, i, d + 1)]
         /\ doc[i].k \in Closings /\ d > 0 =>
              sj_read(doc, At(i, d)) = [r |-> At(i + 1, d - 1), v |-> Value("end", i, 0)]
         /\ doc[i].k \in Closings /\ ~(d > 0) =>
              sj_read(doc, At(i, d)) = Stuck(At(i, d - 1))
         /\ doc[i].k \in Scalars \cup {"string"} =>
              sj_read(doc, At(i, d)) = [r |-> At(i + 1, d), v |-> Value(doc[i].k, i, 0)]
         /\ doc[i].k = "bad" => sj_read(doc, At(i, d)) = Stuck(At(i, d))
<1> DEFINE e == FALSE
           r == Reader(i, d, e)
           kind == doc[i].k
           after == [r EXCEPT !.cur = @ + 1]
<1>0. r.cur = i /\ r.depth = d /\ r.error = e /\ ~e
  BY DEF Reader
<1>a. \A j, x : At(j, x) = Reader(j, x, e)
  BY DEF At
<1> HIDE DEF e
<1>1. after = Reader(i + 1, d, e)
  BY <1>0, ReaderMoved
<1>2. [after EXCEPT !.depth = @ + 1] = Reader(i + 1, d + 1, e)
  <2>1. Reader(i + 1, d, e).depth = d
    BY DEF Reader
  <2> HIDE DEF after
  <2> QED BY <1>1, <2>1, ReaderDeeper
<1>3. [after EXCEPT !.depth = @ - 1] = Reader(i + 1, d - 1, e)
  <2>1. Reader(i + 1, d, e).depth = d
    BY DEF Reader
  <2> HIDE DEF after
  <2> QED BY <1>1, <2>1, ReaderDeeper
<1>4. [r EXCEPT !.depth = @ - 1] = Reader(i, d - 1, e)
  BY <1>0, ReaderDeeper
<1> DEFINE opened == [after EXCEPT !.depth = @ + 1]
           closed == [after EXCEPT !.depth = @ - 1]
           below  == [r EXCEPT !.depth = @ - 1]
<1>5. sj_read(doc, r) =
        CASE r.error \/ r.cur > Len(doc) -> Stuck(r)
          [] ~r.error /\ r.cur <= Len(doc) ->
             CASE doc[r.cur].k \in Openings ->
                    [r |-> opened, v |-> Value(doc[r.cur].k, r.cur, r.depth + 1)]
               [] doc[r.cur].k \in Closings /\ r.depth > 0 ->
                    [r |-> closed, v |-> Value("end", r.cur, 0)]
               [] doc[r.cur].k \in Closings /\ r.depth <= 0 -> Stuck(below)
               [] doc[r.cur].k \in Scalars \cup {"string"} ->
                    [r |-> after, v |-> Value(doc[r.cur].k, r.cur, 0)]
               [] doc[r.cur].k = "bad" -> Stuck(r)
  BY DEF sj_read
<1> HIDE DEF r, kind, after, opened, closed, below
<1>6. ~(r.error \/ r.cur > Len(doc)) /\ (~r.error /\ r.cur <= Len(doc))
  BY <1>0
<1>7. sj_read(doc, r) =
        CASE kind \in Openings -> [r |-> opened, v |-> Value(kind, i, d + 1)]
          [] kind \in Closings /\ d > 0 -> [r |-> closed, v |-> Value("end", i, 0)]
          [] kind \in Closings /\ d <= 0 -> Stuck(below)
          [] kind \in Scalars \cup {"string"} -> [r |-> after, v |-> Value(kind, i, 0)]
          [] kind = "bad" -> Stuck(r)
  BY <1>0, <1>5, <1>6 DEF kind
<1>8. kind \in Openings => sj_read(doc, r) = [r |-> opened, v |-> Value(kind, i, d + 1)]
  BY <1>7 DEF Openings, Closings, Scalars
<1>9. kind \in Closings /\ d > 0 => sj_read(doc, r) = [r |-> closed, v |-> Value("end", i, 0)]
  BY <1>7 DEF Openings, Closings, Scalars
<1>10. kind \in Closings /\ ~(d > 0) => sj_read(doc, r) = Stuck(below)
  BY <1>7 DEF Openings, Closings, Scalars
<1>11. kind \in Scalars \cup {"string"} => sj_read(doc, r) = [r |-> after, v |-> Value(kind, i, 0)]
  BY <1>7 DEF Openings, Closings, Scalars
<1>12. kind = "bad" => sj_read(doc, r) = Stuck(r)
  BY <1>7 DEF Openings, Closings, Scalars
<1>13. /\ opened = At(i + 1, d + 1) /\ closed = At(i + 1, d - 1) /\ below = At(i, d - 1)
       /\ after = At(i + 1, d) /\ r = At(i, d)
  BY <1>a, <1>1, <1>2, <1>3, <1>4 DEF opened, closed, below, after, r
<1> QED BY <1>8, <1>9, <1>10, <1>11, <1>12, <1>13 DEF kind

LEMMA StuckReader ==
  ASSUME NEW doc, Len(doc) \in Nat, NEW r \in Readers(doc)
  PROVE  /\ Stuck(r).r \in Readers(doc) /\ Stuck(r).v \in Values(doc)
         /\ Stuck(r).r.error /\ Stuck(r).r.cur = r.cur /\ Stuck(r).r.depth = r.depth
         /\ Stuck(r).v.type = "error"
<1>1. /\ [r EXCEPT !.error = TRUE] \in Readers(doc) /\ [r EXCEPT !.error = TRUE].error
      /\ [r EXCEPT !.error = TRUE].cur = r.cur /\ [r EXCEPT !.error = TRUE].depth = r.depth
  BY DEF Readers
<1>2. Value("error", r.cur, 0) \in Values(doc) /\ Value("error", r.cur, 0).type = "error"
  BY DEF Value, Values, ValueTypes, Readers
<1> QED BY <1>1, <1>2 DEF Stuck

LEMMA ReadOne ==
  ASSUME NEW doc, Tokens(doc), NEW r \in Readers(doc)
  PROVE  /\ sj_read(doc, r).r \in Readers(doc) /\ sj_read(doc, r).v \in Values(doc)
         /\ \/ /\ ~sj_read(doc, r).r.error /\ ~r.error /\ r.cur \in 1..Len(doc)
               /\ sj_read(doc, r).r.cur = r.cur + 1 /\ sj_read(doc, r).v.type # "error"
            \/ /\ sj_read(doc, r).r.error /\ sj_read(doc, r).r.cur = r.cur
               /\ sj_read(doc, r).v.type = "error"
<1> DEFINE c == r.cur
           d == r.depth
           kind == doc[c].k
<1>0. Len(doc) \in Nat /\ c \in 1..(Len(doc) + 1) /\ d \in Int /\ r.error \in BOOLEAN
      /\ r = Reader(c, d, r.error)
  BY ReaderType DEF Tokens
<1> HIDE DEF c, d
<1>1. CASE r.error \/ c > Len(doc)
  <2>1. sj_read(doc, r) = Stuck(r)
    BY <1>0, <1>1 DEF sj_read, c
  <2> HIDE DEF kind
  <2> QED BY <1>0, <2>1, StuckReader
<1>2. CASE ~(r.error \/ c > Len(doc))
  <2>0. c \in 1..Len(doc) /\ kind \in Kinds /\ c + 1 \in 1..(Len(doc) + 1)
        /\ d + 1 \in Int /\ d - 1 \in Int
    BY <1>0, <1>2 DEF Tokens
  <2>1. r = At(c, d)
    BY <1>0, <1>2 DEF At
  <2>2. \A e \in Int : /\ At(c + 1, e) \in Readers(doc) /\ At(c + 1, e).error = FALSE
                       /\ At(c + 1, e).cur = c + 1
    BY <2>0 DEF At, Reader, Readers
  <2>3. \A e \in Int : /\ Stuck(At(c, e)).r \in Readers(doc) /\ Stuck(At(c, e)).v \in Values(doc)
                       /\ Stuck(At(c, e)).r.error /\ Stuck(At(c, e)).r.cur = c
                       /\ Stuck(At(c, e)).v.type = "error"
    <3>1. \A e \in Int : At(c, e) \in Readers(doc) /\ At(c, e).cur = c
      BY <1>0 DEF At, Reader, Readers
    <3> QED BY <1>0, <3>1, StuckReader
  <2>4. \A t \in ValueTypes \ {"error"}, e \in Int :
          Value(t, c, e) \in Values(doc) /\ Value(t, c, e).type # "error"
    BY <1>0 DEF Value, Values
  <2>5. ValueTypes \ {"error"} = {"number", "bool", "null", "object", "array", "string", "end"}
    BY DEF ValueTypes, Scalars, Openings
  <2>6. r.cur = c /\ r.error = FALSE
    BY <1>0, <1>2 DEF c
  <2> USE DEF kind
  <2>7. /\ kind \in Openings =>
             sj_read(doc, At(c, d)) = [r |-> At(c + 1, d + 1), v |-> Value(kind, c, d + 1)]
        /\ kind \in Closings /\ d > 0 =>
             sj_read(doc, At(c, d)) = [r |-> At(c + 1, d - 1), v |-> Value("end", c, 0)]
        /\ kind \in Closings /\ ~(d > 0) => sj_read(doc, At(c, d)) = Stuck(At(c, d - 1))
        /\ kind \in Scalars \cup {"string"} =>
             sj_read(doc, At(c, d)) = [r |-> At(c + 1, d), v |-> Value(kind, c, 0)]
        /\ kind = "bad" => sj_read(doc, At(c, d)) = Stuck(At(c, d))
    BY <1>0, <2>0, ReadAt
  <2> HIDE DEF kind
  <2>8. CASE kind \in Openings
    <3>1. sj_read(doc, r) = [r |-> At(c + 1, d + 1), v |-> Value(kind, c, d + 1)]
      BY <2>1, <2>7, <2>8
    <3>2. d + 1 \in Int /\ d + 1 \in Int /\ kind \in ValueTypes \ {"error"}
      BY <1>0, <2>0, <2>5, <2>8 DEF Openings
    <3>3. Value(kind, c, d + 1) \in Values(doc) /\ Value(kind, c, d + 1).type # "error"
      BY <2>4, <3>2
    <3> QED BY <2>0, <2>2, <2>6, <3>1, <3>2, <3>3
  <2>9. CASE kind \in Closings /\ d > 0
    <3>1. sj_read(doc, r) = [r |-> At(c + 1, d - 1), v |-> Value("end", c, 0)]
      BY <2>1, <2>7, <2>9
    <3>2. d - 1 \in Int /\ 0 \in Int /\ "end" \in ValueTypes \ {"error"}
      BY <1>0, <2>0, <2>5, <2>9
    <3>3. Value("end", c, 0) \in Values(doc) /\ Value("end", c, 0).type # "error"
      BY <2>4, <3>2
    <3> QED BY <2>0, <2>2, <2>6, <3>1, <3>2, <3>3
  <2>10. CASE kind \in Closings /\ ~(d > 0)
    <3>1. sj_read(doc, r) = Stuck(At(c, d - 1))
      BY <2>1, <2>7, <2>10
    <3> QED BY <1>0, <2>0, <2>3, <2>6, <3>1
  <2>11. CASE kind \in Scalars \cup {"string"}
    <3>1. sj_read(doc, r) = [r |-> At(c + 1, d), v |-> Value(kind, c, 0)]
      BY <2>1, <2>7, <2>11
    <3>2. d \in Int /\ 0 \in Int /\ kind \in ValueTypes \ {"error"}
      BY <1>0, <2>0, <2>5, <2>11 DEF Scalars
    <3>3. Value(kind, c, 0) \in Values(doc) /\ Value(kind, c, 0).type # "error"
      BY <2>4, <3>2
    <3> QED BY <2>0, <2>2, <2>6, <3>1, <3>2, <3>3
  <2>12. CASE kind = "bad"
    <3>1. sj_read(doc, r) = Stuck(At(c, d))
      BY <2>1, <2>7, <2>12
    <3> QED BY <1>0, <2>0, <2>3, <2>6, <3>1
  <2> QED BY <2>0, <2>8, <2>9, <2>10, <2>11, <2>12 DEF Kinds
<1> QED BY <1>1, <1>2

\* What sj__discard_until makes of the reader s, when f skips what comes after.
SkipAt(doc, depth, f, s) ==
    IF s.depth = depth \/ s.error THEN s ELSE f[sj_read(doc, s).r]

\* Skipping ends: the cursor moves or an error stops it.
LEMMA SkipExists ==
  ASSUME NEW doc, Tokens(doc), NEW depth
  PROVE  \E f : f = [s \in Readers(doc) |-> SkipAt(doc, depth, f, s)]
<1> DEFINE n == Len(doc) + 1
           Rs(low) == {s \in Readers(doc) : s.cur >= low}
           Fixed(low, f) == f = [s \in Rs(low) |-> SkipAt(doc, depth, f, s)]
           S == {low \in 1..(n + 1) : \E f : Fixed(low, f)}
<1>0. n \in Nat /\ n + 1 \in Nat /\ n + 1 \in 1..(n + 1)
  BY DEF Tokens
<1>a. \A s \in Readers(doc) : s.cur \in 1..n
  BY ReaderType
<1>b. \A s \in Readers(doc) :
        /\ sj_read(doc, s).r \in Readers(doc)
        /\ sj_read(doc, s).r.error \/ sj_read(doc, s).r.cur = s.cur + 1
        /\ sj_read(doc, s).r.cur >= s.cur
  <2> SUFFICES ASSUME NEW s \in Readers(doc)
               PROVE  /\ sj_read(doc, s).r \in Readers(doc)
                      /\ sj_read(doc, s).r.error \/ sj_read(doc, s).r.cur = s.cur + 1
                      /\ sj_read(doc, s).r.cur >= s.cur
    OBVIOUS
  <2>1. s.cur \in Nat
    BY <1>0, <1>a
  <2>2. sj_read(doc, s).r \in Readers(doc)
    BY ReadOne
  <2>3. \/ sj_read(doc, s).r.cur = s.cur + 1
        \/ sj_read(doc, s).r.error /\ sj_read(doc, s).r.cur = s.cur
    BY ReadOne
  <2> QED BY <2>1, <2>2, <2>3
<1>1. n + 1 \in S
  <2> DEFINE e == [x \in {} |-> 0]
  <2>1. Rs(n + 1) = {}
    BY <1>0, <1>a
  <2>2. e = [s \in {} |-> SkipAt(doc, depth, e, s)]
    OBVIOUS
  <2> HIDE DEF n
  <2>3. Fixed(n + 1, e)
    BY <2>1, <2>2
  <2> QED BY <1>0, <2>3
<1>2. ASSUME NEW low \in 1..n, low + 1 \in S PROVE low \in S
  <2>1. PICK f : Fixed(low + 1, f)
    BY <1>2
  <2> DEFINE next(s) == sj_read(doc, s).r
             g == [s \in Rs(low) |->
                     IF s.cur > low THEN f[s]
                     ELSE IF s.depth = depth \/ s.error THEN s
                     ELSE IF next(s).error THEN next(s) ELSE f[next(s)]]
  <2> HIDE DEF n
  <2>2. \A s \in Rs(low + 1) : s \in Rs(low) /\ s.cur > low /\ f[s] = SkipAt(doc, depth, f, s)
    <3> SUFFICES ASSUME NEW s \in Rs(low + 1)
                 PROVE  s \in Rs(low) /\ s.cur > low /\ f[s] = SkipAt(doc, depth, f, s)
      OBVIOUS
    <3>1. s.cur \in Nat /\ s.cur >= low + 1 /\ s \in Readers(doc)
      BY <1>0, <1>a
    <3>2. f[s] = SkipAt(doc, depth, f, s)
      BY <2>1
    <3> QED BY <1>0, <3>1, <3>2
  <2>3. \A s \in Rs(low + 1) : g[s] = f[s]
    BY <2>2
  <2>4. \A s \in Rs(low) : s.error => g[s] = s
    <3> SUFFICES ASSUME NEW s \in Rs(low), s.error PROVE g[s] = s
      OBVIOUS
    <3>1. CASE s.cur > low
      <4>1. s \in Rs(low + 1)
        BY <1>0, <1>a, <3>1
      <4> QED BY <2>2, <2>3, <4>1 DEF SkipAt
    <3>2. CASE ~(s.cur > low)
      BY <3>2
    <3> QED BY <3>1, <3>2
  <2>5. ASSUME NEW s \in Rs(low) PROVE g[s] = SkipAt(doc, depth, g, s)
    <3>1. CASE s.depth = depth \/ s.error
      <4>1. CASE s.cur > low
        <5>1. s \in Rs(low + 1)
          BY <1>0, <1>a, <4>1
        <5> QED BY <2>2, <2>3, <3>1, <5>1 DEF SkipAt
      <4>2. CASE ~(s.cur > low)
        BY <3>1, <4>2 DEF SkipAt
      <4> QED BY <4>1, <4>2
    <3>2. CASE ~(s.depth = depth \/ s.error)
      <4>0. s \in Readers(doc) /\ s.cur >= low /\ s.cur \in Nat /\ low \in Nat
        BY <1>0, <1>a
      <4>1. next(s) \in Readers(doc) /\ next(s).cur >= low /\ next(s).cur \in Nat
        <5>1. next(s) \in Readers(doc) /\ next(s).cur >= s.cur
          BY <1>b, <4>0
        <5>2. next(s).cur \in Nat
          BY <1>0, <1>a, <5>1
        <5> HIDE DEF next
        <5> QED BY <4>0, <5>1, <5>2
      <4>2. next(s) \in Rs(low)
        BY <4>1
      <4>3. CASE s.cur > low
        <5>1. s \in Rs(low + 1)
          BY <4>0, <4>3
        <5>2. next(s) \in Rs(low + 1)
          <6>1. next(s).cur >= s.cur
            BY <1>b, <4>0
          <6> HIDE DEF next
          <6> QED BY <4>0, <4>1, <4>3, <6>1
        <5>3. g[s] = f[s] /\ f[s] = SkipAt(doc, depth, f, s)
          BY <2>2, <2>3, <5>1
        <5>4. g[next(s)] = f[next(s)]
          BY <2>3, <5>2
        <5> HIDE DEF g
        <5> QED BY <5>3, <5>4 DEF SkipAt
      <4>4. CASE ~(s.cur > low)
        <5>1. g[s] = IF next(s).error THEN next(s) ELSE f[next(s)]
          BY <3>2, <4>4
        <5>2. g[next(s)] = IF next(s).error THEN next(s) ELSE f[next(s)]
          <6>1. CASE next(s).error
            BY <2>4, <4>2, <6>1
          <6>2. CASE ~next(s).error
            <7>1. next(s).cur = s.cur + 1
              BY <1>b, <4>0, <6>2
            <7> HIDE DEF next, g
            <7>2. next(s) \in Rs(low + 1)
              BY <4>0, <4>1, <7>1
            <7> QED BY <2>3, <6>2, <7>2
          <6> QED BY <6>1, <6>2
        <5> HIDE DEF g
        <5> QED BY <3>2, <5>1, <5>2 DEF SkipAt
      <4> QED BY <4>3, <4>4
    <3> QED BY <3>1, <3>2
  <2>6. g = [s \in Rs(low) |-> g[s]]
    OBVIOUS
  <2> HIDE DEF g
  <2>7. Fixed(low, g)
    BY <2>5, <2>6
  <2>8. low \in 1..(n + 1)
    BY <1>0
  <2> QED BY <2>7, <2>8
<1>3. 1 \in S
  <2> HIDE DEF n, S
  <2>1. \A i \in 1..((n + 1) - 1) : i + 1 \in S => i \in S
    BY <1>0, <1>2
  <2>2. \A i \in 1..(n + 1) : i \in S
    BY <1>0, <1>1, <2>1, Downwards
  <2> QED BY <1>0, <2>2
<1>4. Rs(1) = Readers(doc)
  BY <1>a
<1> HIDE DEF Rs
<1> QED BY <1>3, <1>4

LEMMA DiscardFollows ==
  ASSUME NEW doc, Tokens(doc), NEW depth, NEW r \in Readers(doc)
  PROVE  sj__discard_until(doc, r, depth) =
           IF r.depth = depth \/ r.error THEN r
           ELSE sj__discard_until(doc, sj_read(doc, r).r, depth)
<1> DEFINE IsSkip(f) == f = [s \in Readers(doc) |-> SkipAt(doc, depth, f, s)]
           F == CHOOSE f : IsSkip(f)
<1>1. \A s : sj__discard_until(doc, s, depth) = F[s]
  BY DEF sj__discard_until, SkipAt
<1>2. \E f : IsSkip(f)
  <2>1. PICK f : f = [s \in Readers(doc) |-> SkipAt(doc, depth, f, s)]
    BY SkipExists, Zenon
  <2>2. IsSkip(f)
    BY <2>1
  <2> HIDE DEF IsSkip
  <2> QED BY <2>2
<1>3. IsSkip(F)
  <2> HIDE DEF IsSkip
  <2> QED BY <1>2
<1> HIDE DEF F
<1>4. F[r] = SkipAt(doc, depth, F, r)
  BY <1>3
<1> QED BY <1>1, <1>4 DEF SkipAt

LEMMA DiscardType ==
  ASSUME NEW doc, Tokens(doc), NEW depth, NEW r \in Readers(doc)
  PROVE  /\ sj__discard_until(doc, r, depth) \in Readers(doc)
         /\ sj__discard_until(doc, r, depth).cur >= r.cur
         /\ sj__discard_until(doc, r, depth).error \/ sj__discard_until(doc, r, depth).depth = depth
<1> DEFINE n == Len(doc) + 1
           Till(s) == sj__discard_until(doc, s, depth)
           Good(s) == Till(s) \in Readers(doc) /\ Till(s).cur >= s.cur /\ (Till(s).error \/ Till(s).depth = depth)
           S == {low \in 1..(n + 1) : \A s \in Readers(doc) : s.cur >= low => Good(s)}
<1>0. n \in Nat /\ n + 1 \in Nat /\ n + 1 \in 1..(n + 1)
  BY DEF Tokens
<1>a. \A s \in Readers(doc) : s.cur \in 1..n /\ s.cur \in Nat
  BY <1>0, ReaderType
<1> HIDE DEF n
<1>1. n + 1 \in S
  BY <1>0, <1>a
<1>2. ASSUME NEW s \in Readers(doc), s.depth = depth \/ s.error PROVE Good(s)
  <2>1. Till(s) = s
    BY <1>2, DiscardFollows
  <2> HIDE DEF Till
  <2> QED BY <1>a, <1>2, <2>1
<1>3. ASSUME NEW low \in 1..n, low + 1 \in S PROVE low \in S
  <2>1. ASSUME NEW s \in Readers(doc), s.cur >= low PROVE Good(s)
    <3>1. CASE s.depth = depth \/ s.error
      BY <1>2, <3>1
    <3>2. CASE ~(s.depth = depth \/ s.error)
      <4> DEFINE next == sj_read(doc, s).r
      <4>1. Till(s) = Till(next)
        BY <3>2, DiscardFollows
      <4>2. next \in Readers(doc) /\ (next.error \/ next.cur = s.cur + 1) /\ (next.cur = s.cur \/ next.cur = s.cur + 1)
        BY ReadOne
      <4> HIDE DEF next
      <4>3. Good(next)
        <5>1. CASE next.error
          BY <1>2, <4>2, <5>1
        <5>2. CASE ~next.error
          <6>1. next.cur >= low + 1
            BY <1>0, <1>a, <2>1, <4>2, <5>2
          <6> QED BY <1>3, <4>2, <6>1
        <5> QED BY <5>1, <5>2
      <4> HIDE DEF Till
      <4>4. next.cur \in Nat /\ s.cur \in Nat /\ next.cur >= s.cur
        BY <1>a, <4>2
      <4>5. Till(next).cur \in Nat
        BY <1>a, <4>3
      <4>6. Till(next).cur >= s.cur
        BY <4>3, <4>4, <4>5
      <4> QED BY <4>1, <4>3, <4>6
    <3> QED BY <3>1, <3>2
  <2> HIDE DEF Good
  <2>2. low \in 1..(n + 1)
    BY <1>0
  <2> QED BY <2>1, <2>2
<1>4. 1 \in S
  <2> HIDE DEF S
  <2>1. \A i \in 1..((n + 1) - 1) : i + 1 \in S => i \in S
    BY <1>0, <1>3
  <2>2. \A i \in 1..(n + 1) : i \in S
    BY <1>0, <1>1, <2>1, Downwards
  <2> QED BY <1>0, <2>2
<1>5. r.cur >= 1
  BY <1>0, <1>a
<1> HIDE DEF Good
<1>6. Good(r)
  BY <1>4, <1>5
<1> QED BY <1>6 DEF Good

LEMMA AtType ==
  ASSUME NEW doc, Len(doc) \in Nat, NEW i \in 1..(Len(doc) + 1), NEW d \in Int
  PROVE  At(i, d) \in Readers(doc) /\ At(i, d).cur = i /\ At(i, d).depth = d /\ ~At(i, d).error
BY DEF At, Reader, Readers

\* From a token that is deeper than the container, everything is skipped up to
\* the token where the container's own depth is reached again.
LEMMA DiscardsRest ==
  ASSUME NEW doc, Tokens(doc), NEW i \in 1..(Len(doc) + 1), NEW e \in i..(Len(doc) + 1),
         NEW c \in Int, NEW depth \in Nat, Deep(doc, e) + c = depth,
         \A j \in i..(e - 1) : /\ Deep(doc, j) + c > depth
                              /\ doc[j].k \in Scalars \cup Openings \cup Closings \cup {"string"}
  PROVE  sj__discard_until(doc, At(i, Deep(doc, i) + c), depth) = At(e, depth)
<1> DEFINE Till(j) == sj__discard_until(doc, At(j, Deep(doc, j) + c), depth)
           S == {j \in 1..e : j >= i => Till(j) = At(e, depth)}
<1>0. Len(doc) \in Nat /\ i \in Nat /\ e \in Nat /\ 1 <= i /\ i <= e /\ e <= Len(doc) + 1 /\ e \in 1..(Len(doc) + 1)
  BY DEF Tokens
<1>1. e \in S
  <2>1. At(e, depth) \in Readers(doc) /\ At(e, depth).depth = depth
    BY <1>0, AtType
  <2>2. Till(e) = At(e, depth)
    BY <2>1, DiscardFollows
  <2> QED BY <1>0, <2>2
<1>2. ASSUME NEW j \in 1..(e - 1), j + 1 \in S PROVE j \in S
  <2> SUFFICES ASSUME j >= i PROVE Till(j) = At(e, depth)
    BY <1>0
  <2> DEFINE d == Deep(doc, j) + c
  <2>0. j \in i..(e - 1) /\ j \in 1..Len(doc) /\ j \in 1..(Len(doc) + 1) /\ j \in Nat \ {0} /\ j + 1 >= i
    BY <1>0
  <2>1. d > depth /\ d \in Int /\ Deep(doc, j) \in Int
    BY <2>0, DeepStep
  <2>2. At(j, d) \in Readers(doc) /\ At(j, d).depth = d /\ ~At(j, d).error
    BY <1>0, <2>0, <2>1, AtType
  <2>3. Till(j) = sj__discard_until(doc, sj_read(doc, At(j, d)).r, depth)
    BY <2>1, <2>2, DiscardFollows
  <2>4. sj_read(doc, At(j, d)).r = At(j + 1, Deep(doc, j + 1) + c)
    <3> HIDE DEF d
    <3>1. CASE doc[j].k \in Openings
      <4>1. sj_read(doc, At(j, d)).r = At(j + 1, d + 1)
        BY <1>0, <2>0, <2>1, <3>1, ReadAt
      <4>2. Deep(doc, j + 1) = Deep(doc, j) + 1
        BY <2>0, <3>1, DeepStep
      <4>3. Deep(doc, j + 1) + c = d + 1
        BY <2>1, <4>2 DEF d
      <4> QED BY <4>1, <4>3
    <3>2. CASE doc[j].k \in Closings
      <4>1. sj_read(doc, At(j, d)).r = At(j + 1, d - 1)
        BY <1>0, <2>0, <2>1, <3>2, ReadAt
      <4>2. Deep(doc, j + 1) + c = d - 1
        BY <2>0, <2>1, <3>2, DeepStep DEF d
      <4> QED BY <4>1, <4>2
    <3>3. CASE doc[j].k \in Scalars \cup {"string"}
      <4>1. sj_read(doc, At(j, d)).r = At(j + 1, d)
        BY <1>0, <2>0, <2>1, <3>3, ReadAt
      <4>2. doc[j].k \notin Openings \cup Closings
        BY <3>3 DEF Scalars, Openings, Closings
      <4>3. Deep(doc, j + 1) + c = d
        BY <2>0, <2>1, <4>2, DeepStep DEF d
      <4> QED BY <4>1, <4>3
    <3> QED BY <2>0, <3>1, <3>2, <3>3
  <2>5. Till(j + 1) = At(e, depth)
    BY <1>2, <2>0
  <2> QED BY <2>3, <2>4, <2>5
<1> HIDE DEF S
<1>3. \A j \in 1..e : j \in S
  BY <1>0, <1>1, <1>2, Downwards
<1> QED BY <1>0, <1>3 DEF S

\* A value that is read and left there is passed by whole: discarding what
\* was not read of it leads to the token behind it.
LEMMA AfterValue ==
  ASSUME NEW doc, Tokens(doc), NEW i \in 1..(Len(doc) + 1), Parse(doc)[<<"value", i>>].ok,
         NEW d \in Nat
  PROVE  LET read == sj_read(doc, At(i, d))
         IN  /\ read.r \in Readers(doc) /\ read.r.cur = i + 1 /\ ~read.r.error
             /\ read.r = At(i + 1, IF doc[i].k \in Openings THEN d + 1 ELSE d)
             /\ read.v = Value(doc[i].k, i, IF doc[i].k \in Openings THEN d + 1 ELSE 0)
             /\ doc[i].k \in Scalars \cup Openings \cup {"string"}
             /\ sj__discard_until(doc, read.r, d) = At(Parse(doc)[<<"value", i>>].next, d)
<1> DEFINE p == Parse(doc)[<<"value", i>>]
           read == sj_read(doc, At(i, d))
           c == d - Deep(doc, i)
<1>0. Len(doc) \in Nat /\ i \in 1..Len(doc) /\ p.next \in (i + 1)..(Len(doc) + 1)
      /\ i + 1 \in 1..(Len(doc) + 1) /\ p.next \in 1..(Len(doc) + 1) /\ i \in Nat \ {0}
  <2>1. Len(doc) \in Nat
    BY DEF Tokens
  <2>2. i \in 1..Len(doc) /\ p.next \in (i + 1)..(Len(doc) + 1)
    BY <2>1, ParsedValue
  <2> HIDE DEF p
  <2> QED BY <2>1, <2>2
<1>1. Deep(doc, i) \in Int /\ c \in Int /\ d + 1 \in Int /\ d \in Int
  BY <1>0, DeepStep
<1>2. /\ Deep(doc, p.next) = Deep(doc, i)
      /\ \A j \in (i + 1)..(p.next - 1) : Deep(doc, j) > Deep(doc, i)
      /\ \A j \in i..(p.next - 1) :
           doc[j].k \in Scalars \cup Openings \cup Closings \cup {"string"}
  <2>1. Shape(doc, "value", i)
    BY <1>0, ShapeOfAll DEF Wants
  <2> QED BY <2>1 DEF Shape
<1>3. CASE doc[i].k \in Openings
  <2>1. read = [r |-> At(i + 1, d + 1), v |-> Value(doc[i].k, i, d + 1)]
    BY <1>0, <1>1, <1>3, ReadAt
  <2>2. Deep(doc, i + 1) = Deep(doc, i) + 1
    BY <1>0, <1>3, DeepStep
  <2>3. Deep(doc, p.next) + c = d /\ Deep(doc, i + 1) + c = d + 1
    BY <1>1, <1>2, <2>2
  <2>4. \A j \in (i + 1)..(p.next - 1) :
          /\ Deep(doc, j) + c > d
          /\ doc[j].k \in Scalars \cup Openings \cup Closings \cup {"string"}
    <3> SUFFICES ASSUME NEW j \in (i + 1)..(p.next - 1)
                 PROVE  /\ Deep(doc, j) + c > d
                        /\ doc[j].k \in Scalars \cup Openings \cup Closings \cup {"string"}
      OBVIOUS
    <3>1. j \in i..(p.next - 1) /\ j \in Nat \ {0}
      BY <1>0
    <3>2. Deep(doc, j) \in Int /\ Deep(doc, j) > Deep(doc, i)
      BY <1>2, <3>1, DeepStep
    <3> QED BY <1>1, <1>2, <3>1, <3>2
  <2> HIDE DEF c, read, p
  <2>5. sj__discard_until(doc, At(i + 1, Deep(doc, i + 1) + c), d) = At(p.next, d)
    <3> DEFINE a == i + 1
               e == p.next
    <3>1. a \in 1..(Len(doc) + 1) /\ e \in a..(Len(doc) + 1)
      BY <1>0
    <3>2. Deep(doc, e) + c = d
      BY <2>3
    <3>3. \A j \in a..(e - 1) : /\ Deep(doc, j) + c > d
                              /\ doc[j].k \in Scalars \cup Openings \cup Closings \cup {"string"}
      BY <2>4
    <3> HIDE DEF a, e
    <3>4. sj__discard_until(doc, At(a, Deep(doc, a) + c), d) = At(e, d)
      BY <1>1, <3>1, <3>2, <3>3, DiscardsRest
    <3> QED BY <3>4 DEF a, e
  <2>6. sj__discard_until(doc, read.r, d) = At(p.next, d)
    BY <2>1, <2>3, <2>5
  <2>7. /\ At(i + 1, d + 1) \in Readers(doc) /\ At(i + 1, d + 1).cur = i + 1
        /\ ~At(i + 1, d + 1).error
    BY <1>0, <1>1 DEF At, Reader, Readers
  <2> QED BY <1>3, <2>1, <2>6, <2>7 DEF read, p
<1>4. CASE doc[i].k \notin Openings
  <2>1. doc[i].k \in Scalars \cup {"string"} /\ p.next = i + 1
    <3>1. doc[i].k \notin {"object", "array"}
      BY <1>4 DEF Openings
    <3>2. doc[i].k \in Scalars \cup {"string"} /\ p = Parsed(i + 1, Leaf(doc[i]), <<>>)
      BY <1>0, <3>1, ParsedValue
    <3> QED BY <3>2 DEF Parsed
  <2>2. read = [r |-> At(i + 1, d), v |-> Value(doc[i].k, i, 0)]
    BY <1>0, <1>1, <2>1, ReadAt
  <2>3. /\ At(i + 1, d) \in Readers(doc) /\ At(i + 1, d).cur = i + 1
        /\ ~At(i + 1, d).error /\ At(i + 1, d).depth = d
    BY <1>0, <1>1, AtType
  <2>4. sj__discard_until(doc, At(i + 1, d), d) = At(i + 1, d)
    BY <2>3, DiscardFollows
  <2> HIDE DEF read, p
  <2> QED BY <1>4, <2>1, <2>2, <2>3, <2>4 DEF read, p
<1> QED BY <1>3, <1>4

----------------------------------------------------------------------------
(* The members of an object *)

LEMMA IterObject ==
  ASSUME NEW doc, Tokens(doc), NEW obj, NEW r \in Readers(doc)
  PROVE  LET it == sj_iter_object(doc, r, obj)
         IN  /\ it.r \in Readers(doc) /\ it.r.cur >= r.cur
             /\ it.more => /\ it.r.cur > r.cur
                           /\ it.key \in Values(doc) /\ it.val \in Values(doc)
<1> DEFINE s   == sj__discard_until(doc, r, obj.depth)
           key == sj_read(doc, s)
           val == sj_read(doc, key.r)
           it  == sj_iter_object(doc, r, obj)
<1>0. Len(doc) \in Nat
  BY DEF Tokens
<1>1. s \in Readers(doc) /\ s.cur >= r.cur
  BY DiscardType
<1>2. it = Pair(key, val)
  BY DEF sj_iter_object, ReadPair
<1> HIDE DEF s
<1>3. /\ key.r \in Readers(doc) /\ key.v \in Values(doc)
      /\ (key.r.cur = s.cur + 1 \/ (key.v.type = "error" /\ key.r.cur = s.cur))
  BY <1>1, ReadOne
<1> HIDE DEF key
<1>4. /\ val.r \in Readers(doc) /\ val.v \in Values(doc)
      /\ (val.r.cur = key.r.cur + 1 \/ val.r.cur = key.r.cur)
  BY <1>3, ReadOne
<1> HIDE DEF val
<1>5. r.cur \in Nat /\ s.cur \in Nat /\ key.r.cur \in Nat /\ val.r.cur \in Nat
  BY <1>0, <1>1, <1>3, <1>4, ReaderType
<1>6. CASE key.v.type \in {"error", "end"}
  <2>1. it = [more |-> FALSE, r |-> key.r, key |-> key.v, val |-> key.v]
    BY <1>2, <1>6 DEF Pair
  <2>2. it.r = key.r /\ ~it.more
    BY <2>1
  <2>3. key.r.cur >= r.cur
    BY <1>1, <1>3, <1>5
  <2> HIDE DEF it
  <2> QED BY <1>3, <2>2, <2>3 DEF it
<1>7. CASE key.v.type \notin {"error", "end"} /\ val.v.type = "end"
  <2> DEFINE e == [val.r EXCEPT !.error = TRUE]
  <2>1. it = [more |-> FALSE, r |-> e, key |-> key.v, val |-> val.v]
    BY <1>2, <1>7 DEF Pair
  <2>2. e \in Readers(doc) /\ e.cur = val.r.cur
    BY <1>4 DEF Readers
  <2> HIDE DEF e
  <2>a. it.r = e /\ ~it.more
    BY <2>1
  <2>3. it.r \in Readers(doc) /\ it.r.cur = val.r.cur /\ ~it.more
    BY <2>2, <2>a
  <2>4. val.r.cur >= r.cur
    BY <1>1, <1>3, <1>4, <1>5
  <2> HIDE DEF it
  <2> QED BY <2>3, <2>4 DEF it
<1>8. CASE key.v.type \notin {"error", "end"} /\ val.v.type # "end"
  <2>1. it = [more |-> val.v.type # "error", r |-> val.r, key |-> key.v, val |-> val.v]
    BY <1>2, <1>8 DEF Pair
  <2>2. val.r.cur > r.cur /\ val.r.cur >= r.cur
    BY <1>1, <1>3, <1>4, <1>5, <1>8
  <2>3. it.r = val.r /\ it.key = key.v /\ it.val = val.v
    BY <2>1
  <2> HIDE DEF it
  <2> QED BY <1>3, <1>4, <2>2, <2>3 DEF it
<1> QED BY <1>6, <1>7, <1>8

----------------------------------------------------------------------------
(* Iteration over containers *)

LEMMA IterArray ==
  ASSUME NEW doc, Tokens(doc), NEW arr, NEW r \in Readers(doc)
  PROVE  LET it == sj_iter_array(doc, r, arr)
         IN  /\ it.r \in Readers(doc) /\ it.r.cur >= r.cur
             /\ it.more => it.r.cur > r.cur /\ it.val \in Values(doc)
<1> DEFINE s    == sj__discard_until(doc, r, arr.depth)
           item == sj_read(doc, s)
           it   == sj_iter_array(doc, r, arr)
<1>0. Len(doc) \in Nat
  BY DEF Tokens
<1>1. s \in Readers(doc) /\ s.cur >= r.cur
  BY DiscardType
<1>2. it = [more |-> item.v.type \notin {"error", "end"}, r |-> item.r, val |-> item.v]
  BY DEF sj_iter_array
<1> HIDE DEF s
<1>3. /\ item.r \in Readers(doc) /\ item.v \in Values(doc)
      /\ (item.r.cur = s.cur + 1 \/ (item.v.type = "error" /\ item.r.cur = s.cur))
  BY <1>1, ReadOne
<1> DEFINE more == item.v.type \notin {"error", "end"}
<1>a. more => item.v.type # "error"
  OBVIOUS
<1>b. it = [more |-> more, r |-> item.r, val |-> item.v]
  BY <1>2
<1> HIDE DEF item, more
<1>4. it.r = item.r /\ it.val = item.v /\ (it.more => item.v.type # "error")
  <2> HIDE DEF it
  <2>1. it.r = item.r /\ it.val = item.v /\ it.more = more
    BY <1>b
  <2> QED BY <1>a, <2>1
<1>5. r.cur \in Nat /\ s.cur \in Nat /\ item.r.cur \in Nat
  BY <1>0, <1>1, <1>3, ReaderType
<1>6. item.r.cur >= r.cur /\ (item.v.type # "error" => item.r.cur > r.cur)
  BY <1>1, <1>3, <1>5
<1> HIDE DEF it
<1> QED BY <1>3, <1>4, <1>6 DEF it

\* What Members makes of the reader s, when f collects what comes after.
MembersOf(doc, obj, f, s) ==
    LET it == sj_iter_object(doc, s, obj)
    IN  IF it.more THEN <<[key |-> it.key, val |-> it.val]>> \o f[it.r] ELSE <<>>

\* Iterating an object ends: each pair moves the cursor.
LEMMA MembersExist ==
  ASSUME NEW doc, Tokens(doc), NEW obj
  PROVE  \E f : f = [s \in Readers(doc) |-> MembersOf(doc, obj, f, s)]
<1> DEFINE n == Len(doc) + 1
           Rs(low) == {s \in Readers(doc) : s.cur >= low}
           Fixed(low, f) == f = [s \in Rs(low) |-> MembersOf(doc, obj, f, s)]
           S == {low \in 1..(n + 1) : \E f : Fixed(low, f)}
<1>0. n \in Nat /\ n + 1 \in Nat /\ n + 1 \in 1..(n + 1)
  BY DEF Tokens
<1>a. \A s \in Readers(doc) : s.cur \in 1..n
  BY ReaderType
<1> HIDE DEF n
<1>b. ASSUME NEW s \in Readers(doc), NEW f, NEW g, NEW low \in 1..n, s.cur >= low,
             \A t \in Rs(low + 1) : f[t] = g[t]
      PROVE  MembersOf(doc, obj, f, s) = MembersOf(doc, obj, g, s)
  <2> DEFINE it == sj_iter_object(doc, s, obj)
  <2>1. it.more => it.r \in Readers(doc) /\ it.r.cur > s.cur
    BY IterObject
  <2> HIDE DEF it
  <2>2. it.more => it.r \in Rs(low + 1)
    <3> SUFFICES ASSUME it.more PROVE it.r \in Rs(low + 1)
      OBVIOUS
    <3>1. it.r.cur \in Nat /\ s.cur \in Nat /\ low \in Nat
      BY <1>0, <1>a, <2>1
    <3>2. it.r.cur >= low + 1
      BY <1>b, <2>1, <3>1
    <3> QED BY <2>1, <3>2
  <2>3. it.more => f[it.r] = g[it.r]
    BY <1>b, <2>2
  <2> QED BY <2>3 DEF MembersOf, it
<1>1. n + 1 \in S
  <2> DEFINE e == [x \in {} |-> 0]
  <2>1. Rs(n + 1) = {}
    BY <1>0, <1>a
  <2>2. e = [s \in {} |-> MembersOf(doc, obj, e, s)]
    OBVIOUS
  <2>3. Fixed(n + 1, e)
    BY <2>1, <2>2
  <2> QED BY <1>0, <2>3
<1>2. ASSUME NEW low \in 1..n, low + 1 \in S PROVE low \in S
  <2>1. PICK f : Fixed(low + 1, f)
    BY <1>2
  <2> DEFINE g == [s \in Rs(low) |-> MembersOf(doc, obj, f, s)]
  <2>2. \A s \in Rs(low + 1) : s \in Rs(low) /\ f[s] = MembersOf(doc, obj, f, s)
    <3> SUFFICES ASSUME NEW s \in Rs(low + 1)
                 PROVE  s \in Rs(low) /\ f[s] = MembersOf(doc, obj, f, s)
      OBVIOUS
    <3>1. s.cur \in Nat /\ s.cur >= low + 1 /\ s \in Readers(doc)
      BY <1>0, <1>a
    <3>2. f[s] = MembersOf(doc, obj, f, s)
      BY <2>1
    <3> QED BY <1>0, <3>1, <3>2
  <2>3. \A s \in Rs(low + 1) : f[s] = g[s]
    BY <2>2
  <2>4. ASSUME NEW s \in Rs(low)
        PROVE  MembersOf(doc, obj, f, s) = MembersOf(doc, obj, g, s)
    <3> HIDE DEF g
    <3>1. s \in Readers(doc) /\ s.cur >= low
      BY <2>4
    <3> QED BY <1>b, <2>3, <3>1
  <2>5. g = [s \in Rs(low) |-> MembersOf(doc, obj, g, s)]
    <3>1. \A s \in Rs(low) : g[s] = MembersOf(doc, obj, g, s)
      BY <2>4
    <3>2. g = [s \in Rs(low) |-> g[s]]
      OBVIOUS
    <3> HIDE DEF g
    <3> QED BY <3>1, <3>2
  <2> HIDE DEF g
  <2>8. low \in 1..(n + 1)
    BY <1>0
  <2> QED BY <2>5, <2>8
<1>3. 1 \in S
  <2> HIDE DEF S
  <2>1. \A i \in 1..((n + 1) - 1) : i + 1 \in S => i \in S
    BY <1>0, <1>2
  <2>2. \A i \in 1..(n + 1) : i \in S
    BY <1>0, <1>1, <2>1, Downwards
  <2> QED BY <1>0, <2>2
<1>4. Rs(1) = Readers(doc)
  BY <1>0, <1>a
<1> HIDE DEF Rs
<1> QED BY <1>3, <1>4

LEMMA MembersFollow ==
  ASSUME NEW doc, Tokens(doc), NEW obj, NEW r \in Readers(doc)
  PROVE  LET it == sj_iter_object(doc, r, obj)
         IN  Members(doc, r, obj) =
               IF it.more THEN <<[key |-> it.key, val |-> it.val]>> \o Members(doc, it.r, obj)
               ELSE <<>>
<1> DEFINE IsM(f) == f = [s \in Readers(doc) |-> MembersOf(doc, obj, f, s)]
           F == CHOOSE f : IsM(f)
<1>1. \A s : Members(doc, s, obj) = F[s]
  BY DEF Members, MembersOf
<1>2. \E f : IsM(f)
  <2>1. PICK f : f = [s \in Readers(doc) |-> MembersOf(doc, obj, f, s)]
    BY MembersExist, Zenon
  <2>2. IsM(f)
    BY <2>1
  <2> HIDE DEF IsM
  <2> QED BY <2>2
<1>3. IsM(F)
  <2> HIDE DEF IsM
  <2> QED BY <1>2
<1> HIDE DEF F
<1>4. F[r] = MembersOf(doc, obj, F, r)
  BY <1>3
<1> DEFINE it == sj_iter_object(doc, r, obj)
<1>5. F[r] = IF it.more THEN <<[key |-> it.key, val |-> it.val]>> \o F[it.r] ELSE <<>>
  BY <1>4 DEF MembersOf
<1>6. F[r] = Members(doc, r, obj) /\ F[it.r] = Members(doc, it.r, obj)
  BY <1>1
<1> HIDE DEF it
<1>7. Members(doc, r, obj) =
        IF it.more THEN <<[key |-> it.key, val |-> it.val]>> \o Members(doc, it.r, obj) ELSE <<>>
  BY <1>5, <1>6
<1> QED BY <1>7 DEF it

\* Inside an object of depth d, from a reader that gets to token i there: the
\* end of the object, or its next member.
LEMMA OneMember ==
  ASSUME NEW doc, Tokens(doc), NEW i \in 1..(Len(doc) + 1), Parse(doc)[<<"members", i>>].ok,
         NEW d \in Nat \ {0}, NEW obj, obj.depth = d,
         NEW s \in Readers(doc), sj__discard_until(doc, s, d) = At(i, d)
  PROVE  LET it   == sj_iter_object(doc, s, obj)
             read == sj_read(doc, At(i + 1, d))
         IN  \/ doc[i].k = "endobject" /\ ~it.more /\ it.r = At(i + 1, d - 1)
             \/ /\ doc[i].k = "string" /\ it.more /\ it.r = read.r
                /\ it.key = Value("string", i, 0) /\ it.val = read.v
<1> DEFINE it   == sj_iter_object(doc, s, obj)
           key  == sj_read(doc, At(i, d))
           a    == i + 1
           read == sj_read(doc, At(a, d))
<1>0. Len(doc) \in Nat /\ d \in Int /\ d > 0 /\ d \in Nat
  BY DEF Tokens
<1>1. it = Pair(key, sj_read(doc, key.r))
  BY DEF sj_iter_object, ReadPair
<1>2. /\ i \in 1..Len(doc)
      /\ \/ doc[i].k = "endobject"
         \/ doc[i].k = "string" /\ a \in 1..Len(doc) /\ Parse(doc)[<<"value", a>>].ok
  BY <1>0, ParsedMembers
<1> HIDE DEF it, a
<1>3. CASE doc[i].k = "endobject"
  <2>1. key = [r |-> At(i + 1, d - 1), v |-> Value("end", i, 0)]
    BY <1>0, <1>2, <1>3, ReadAt DEF Closings
  <2> DEFINE e == key.r
             v == key.v
             other == sj_read(doc, e)
  <2>2. e = At(i + 1, d - 1) /\ v.type = "end"
    BY <2>1 DEF Value
  <2>3. it = Pair(key, other)
    BY <1>1
  <2>4. it = [more |-> FALSE, r |-> e, key |-> v, val |-> v]
    <3> HIDE DEF other
    <3> QED BY <2>2, <2>3 DEF Pair
  <2> HIDE DEF e, v
  <2>5. it.r = e /\ ~it.more
    BY <2>4
  <2> QED BY <1>3, <2>2, <2>5 DEF it
<1>4. CASE doc[i].k = "string" /\ a \in 1..Len(doc) /\ Parse(doc)[<<"value", a>>].ok
  <2>1. key = [r |-> At(a, d), v |-> Value("string", i, 0)]
    BY <1>0, <1>2, <1>4, ReadAt DEF a
  <2> DEFINE v == Value("string", i, 0)
             x == read.v
             y == read.r
  <2>2. key.r = At(a, d) /\ key.v = v /\ v.type = "string"
    BY <2>1 DEF Value
  <2>3. x = Value(doc[a].k, a, IF doc[a].k \in Openings THEN d + 1 ELSE 0)
        /\ doc[a].k \in Scalars \cup Openings \cup {"string"}
    <3>1. a \in 1..(Len(doc) + 1)
      BY <1>0, <1>4
    <3> QED BY <1>0, <1>4, <3>1, AfterValue
  <2>4. x.type \notin {"end", "error"}
    BY <2>3 DEF Value, Scalars, Openings
  <2>5. it = Pair(key, read)
    BY <1>1, <2>2
  <2> DEFINE more == x.type # "error"
  <2> HIDE DEF key, v, read
  <2>6. it = [more |-> more, r |-> y, key |-> v, val |-> x]
    BY <2>2, <2>4, <2>5 DEF Pair
  <2>7. more
    BY <2>4
  <2> HIDE DEF x, y, more
  <2>8. it.more = more /\ it.r = y /\ it.key = v /\ it.val = x
    BY <2>6
  <2>9. it.more /\ it.r = y /\ it.key = v /\ it.val = x
    BY <2>7, <2>8
  <2> QED BY <1>4, <2>9 DEF it, a, x, y, v, read
<1> QED BY <1>2, <1>3, <1>4

\* The pairs that iterating an object of depth d yields for members that start
\* at these places.
PairOf(doc, d, start) ==
    [key |-> Value("string", start[1], 0),
     val |-> Value(doc[start[2]].k, start[2], IF doc[start[2]].k \in Openings THEN d + 1 ELSE 0)]

Put(x, s) == <<x>> \o s

PairsOf(doc, d, starts) == [m \in 1..Len(starts) |-> PairOf(doc, d, starts[m])]

LEMMA PairsOfMore ==
  ASSUME NEW doc, NEW d, NEW X, NEW start \in X, NEW starts \in Seq(X)
  PROVE  PairsOf(doc, d, Put(start, starts)) = Put(PairOf(doc, d, start), PairsOf(doc, d, starts))
<1> DEFINE all   == <<start>> \o starts
           pairs == PairsOf(doc, d, starts)
           first == PairOf(doc, d, start)
           both  == <<first>> \o pairs
           T == {PairOf(doc, d, x) : x \in X}
<1>1. all \in Seq(X) /\ Len(all) = Len(starts) + 1 /\ Len(starts) \in Nat
      /\ all[1] = start /\ \A m \in 2..(Len(starts) + 1) : all[m] = starts[m - 1]
  OBVIOUS
<1>2. pairs \in Seq(T) /\ Len(pairs) = Len(starts) /\ first \in T
  <2>1. pairs = [m \in 1..Len(starts) |-> PairOf(doc, d, starts[m])]
    BY DEF PairsOf
  <2>2. \A m \in 1..Len(starts) : starts[m] \in X
    OBVIOUS
  <2>3. pairs \in [1..Len(starts) -> T]
    BY <2>1, <2>2
  <2> QED BY <1>1, <2>1, <2>3
<1>3. \A m \in 1..Len(starts) : pairs[m] = PairOf(doc, d, starts[m])
  BY DEF PairsOf
<1> HIDE DEF pairs, first, T
<1>4. both \in Seq(T) /\ Len(both) = Len(starts) + 1
      /\ both[1] = first /\ \A m \in 2..(Len(starts) + 1) : both[m] = pairs[m - 1]
  BY <1>1, <1>2
<1> HIDE DEF all, both
<1>5. PairsOf(doc, d, all) = [m \in 1..(Len(starts) + 1) |-> PairOf(doc, d, all[m])]
  BY <1>1 DEF PairsOf
<1>6. both = [m \in 1..(Len(starts) + 1) |-> both[m]]
  BY <1>1, <1>4
<1>7. \A m \in 1..(Len(starts) + 1) : PairOf(doc, d, all[m]) = both[m]
  <2> SUFFICES ASSUME NEW m \in 1..(Len(starts) + 1) PROVE PairOf(doc, d, all[m]) = both[m]
    OBVIOUS
  <2>1. CASE m = 1
    BY <1>1, <1>4, <2>1 DEF first
  <2>2. CASE m # 1
    <3>1. m \in 2..(Len(starts) + 1) /\ m - 1 \in 1..Len(starts)
      BY <1>1, <2>2
    <3> QED BY <1>1, <1>3, <1>4, <3>1
  <2> QED BY <2>1, <2>2
<1> QED BY <1>5, <1>6, <1>7 DEF all, both, pairs, first, Put

\* Iterating the rest of an object of depth d yields its members.
LEMMA MembersInOrder ==
  ASSUME NEW doc, Tokens(doc), NEW i \in 1..(Len(doc) + 1), Parse(doc)[<<"members", i>>].ok,
         NEW d \in Nat \ {0}, NEW obj, obj.depth = d,
         NEW s \in Readers(doc), sj__discard_until(doc, s, d) = At(i, d)
  PROVE  LET starts == Parse(doc)[<<"members", i>>].starts
         IN  /\ starts \in Seq((1..Len(doc)) \X (1..Len(doc)))
             /\ Members(doc, s, obj) = PairsOf(doc, d, starts)
<1> DEFINE n == Len(doc) + 1
           Starts(j) == Parse(doc)[<<"members", j>>].starts
           Good(j) == \A t \in Readers(doc) :
                        /\ Parse(doc)[<<"members", j>>].ok
                        /\ sj__discard_until(doc, t, d) = At(j, d)
                        => /\ Starts(j) \in Seq((1..Len(doc)) \X (1..Len(doc)))
                           /\ Members(doc, t, obj) = PairsOf(doc, d, Starts(j))
           S == {low \in 1..(n + 1) : \A j \in low..n : Good(j)}
<1>0. Len(doc) \in Nat /\ n \in Nat /\ n + 1 \in Nat /\ n + 1 \in 1..(n + 1) /\ n = Len(doc) + 1
      /\ d \in Nat
  BY DEF Tokens
<1> HIDE DEF n
<1>1. n + 1 \in S
  BY <1>0
<1>2. ASSUME NEW low \in 1..n, low + 1 \in S PROVE low \in S
  <2>1. ASSUME NEW t \in Readers(doc), Parse(doc)[<<"members", low>>].ok,
               sj__discard_until(doc, t, d) = At(low, d)
        PROVE  /\ Starts(low) \in Seq((1..Len(doc)) \X (1..Len(doc)))
               /\ Members(doc, t, obj) = PairsOf(doc, d, Starts(low))
    <3> DEFINE it == sj_iter_object(doc, t, obj)
               a == low + 1
               p == Parse(doc)[<<"value", a>>]
               e == p.next
               read == sj_read(doc, At(a, d))
    <3>0. low \in 1..(Len(doc) + 1)
      BY <1>0
    <3>1. /\ low \in 1..Len(doc)
          /\ \/ doc[low].k = "endobject" /\ Parse(doc)[<<"members", low>>] = Parsed(a, <<>>, <<>>)
             \/ /\ doc[low].k = "string" /\ a \in 1..Len(doc) /\ p.ok
                /\ e \in (low + 2)..(Len(doc) + 1)
                /\ Parse(doc)[<<"members", e>>].ok
                /\ Parse(doc)[<<"members", low>>] = MembersFrom(doc, low)
      BY <1>0, <2>1, <3>0, ParsedMembers
    <3>2. \/ doc[low].k = "endobject" /\ ~it.more
          \/ /\ doc[low].k = "string" /\ it.more /\ it.r = read.r
             /\ it.key = Value("string", low, 0) /\ it.val = read.v
      BY <2>1, <3>0, OneMember
    <3>3. Members(doc, t, obj) =
            IF it.more THEN <<[key |-> it.key, val |-> it.val]>> \o Members(doc, it.r, obj)
            ELSE <<>>
      BY MembersFollow
    <3> HIDE DEF it
    <3>4. CASE doc[low].k = "endobject"
      <4>1. Starts(low) = <<>>
        BY <3>1, <3>4 DEF Parsed
      <4>2. Members(doc, t, obj) = <<>>
        BY <3>2, <3>3, <3>4
      <4>3. PairsOf(doc, d, <<>>) = <<>>
        BY DEF PairsOf
      <4> HIDE DEF Starts
      <4> QED BY <4>1, <4>2, <4>3
    <3>5. CASE doc[low].k = "string"
      <4>1. /\ a \in 1..Len(doc) /\ p.ok /\ e \in (low + 2)..(Len(doc) + 1)
            /\ Parse(doc)[<<"members", e>>].ok
            /\ Starts(low) = <<<<low, a>>>> \o Starts(e)
        <5> DEFINE more == Parse(doc)[<<"members", e>>]
        <5>1. MembersFrom(doc, low).starts = <<<<low, a>>>> \o more.starts
          BY DEF MembersFrom, Parsed
        <5> HIDE DEF p, e, more, a
        <5>2. Starts(low) = <<<<low, a>>>> \o more.starts
          BY <3>1, <3>5, <5>1
        <5> QED BY <3>1, <3>5, <5>2 DEF more
      <4>2. a \in 1..(Len(doc) + 1) /\ e \in (low + 1)..n
        BY <1>0, <3>1, <4>1
      <4>3. /\ read.r \in Readers(doc)
            /\ read.v = Value(doc[a].k, a, IF doc[a].k \in Openings THEN d + 1 ELSE 0)
            /\ sj__discard_until(doc, read.r, d) = At(e, d)
        <5> HIDE DEF a
        <5> QED BY <1>0, <4>1, <4>2, AfterValue
      <4> HIDE DEF Starts, p, e, read, a
      <4>4. /\ Starts(e) \in Seq((1..Len(doc)) \X (1..Len(doc)))
            /\ Members(doc, read.r, obj) = PairsOf(doc, d, Starts(e))
        <5>1. Good(e)
          BY <1>2, <4>2
        <5> QED BY <4>1, <4>3, <5>1
      <4>5. <<low, a>> \in (1..Len(doc)) \X (1..Len(doc))
        BY <3>1, <4>1
      <4>6. Starts(low) \in Seq((1..Len(doc)) \X (1..Len(doc)))
        BY <4>1, <4>4, <4>5
      <4>7. [key |-> it.key, val |-> it.val] = PairOf(doc, d, <<low, a>>)
        BY <3>2, <3>5, <4>3 DEF PairOf
      <4>8. Members(doc, t, obj) = <<PairOf(doc, d, <<low, a>>)>> \o PairsOf(doc, d, Starts(e))
        BY <3>2, <3>3, <3>5, <4>4, <4>7
      <4>10. PairsOf(doc, d, Starts(low)) = <<PairOf(doc, d, <<low, a>>)>> \o PairsOf(doc, d, Starts(e))
        <5> DEFINE X == (1..Len(doc)) \X (1..Len(doc))
                   x == <<low, a>>
                   more == Starts(e)
        <5>1. x \in X /\ more \in Seq(X) /\ Starts(low) = Put(x, more)
          BY <4>1, <4>4, <4>5 DEF Put
        <5> HIDE DEF X, x, more
        <5>2. PairsOf(doc, d, Put(x, more)) = Put(PairOf(doc, d, x), PairsOf(doc, d, more))
          BY <5>1, PairsOfMore
        <5> QED BY <5>1, <5>2 DEF x, more, Put
      <4> QED BY <4>6, <4>8, <4>10
    <3> QED BY <3>1, <3>4, <3>5
  <2>2. Good(low)
    BY <2>1
  <2> HIDE DEF Good
  <2>3. \A j \in low..n : j = low \/ j \in (low + 1)..n
    BY <1>0
  <2>4. low \in 1..(n + 1)
    BY <1>0
  <2> QED BY <1>2, <2>2, <2>3, <2>4
<1>3. 1 \in S
  <2> HIDE DEF S
  <2>1. \A j \in 1..((n + 1) - 1) : j + 1 \in S => j \in S
    BY <1>0, <1>2
  <2>2. \A j \in 1..(n + 1) : j \in S
    BY <1>0, <1>1, <2>1, Downwards
  <2> QED BY <1>0, <2>2
<1>4. Good(i)
  <2> HIDE DEF Good
  <2> QED BY <1>0, <1>3
<1> QED BY <1>4

\* Every bracket that opens in a JSON text opens a value.
LEMMA OpeningIsValue ==
  ASSUME NEW doc, Len(doc) \in Nat, WellFormed(doc),
         NEW i \in 1..Len(doc), doc[i].k \in Openings
  PROVE  Parse(doc)[<<"value", i>>].ok
<1> DEFINE p == Parse(doc)[<<"value", 1>>]
<1>1. p.ok /\ p.next = Len(doc) + 1
  BY DEF WellFormed
<1>2. Shape(doc, "value", 1)
  BY ShapeOfAll DEF Wants
<1>3. i \in 1..(p.next - 1)
  BY <1>1
<1> QED BY <1>1, <1>2, <1>3 DEF Shape

\* Iterating an object from its own bracket yields its members.
LEMMA MembersOfObject ==
  ASSUME NEW doc, Tokens(doc), NEW i \in 1..Len(doc), doc[i].k = "object",
         Parse(doc)[<<"value", i>>].ok
  PROVE  /\ MemberStarts(doc, i) \in Seq((1..Len(doc)) \X (1..Len(doc)))
         /\ MembersAt(doc, i) = PairsOf(doc, 1, MemberStarts(doc, i))
<1> DEFINE a == i + 1
           s == At(a, 1)
           obj == Value("object", i, 1)
<1>0. Len(doc) \in Nat /\ i \in 1..(Len(doc) + 1) /\ a \in 1..(Len(doc) + 1)
  BY DEF Tokens
<1>1. Parse(doc)[<<"members", a>>].ok
  BY <1>0, ParsedValue DEF Scalars
<1>2. sj_read(doc, At(i, 0)) = [r |-> At(i + 1, 0 + 1), v |-> Value("object", i, 0 + 1)]
  BY <1>0, ReadAt DEF Openings
<1>3. sj_reader(i) = At(i, 0)
  BY DEF sj_reader, At, Reader
<1>4. MembersAt(doc, i) = Members(doc, s, obj)
  <2>1. sj_read(doc, sj_reader(i)).r = s /\ sj_read(doc, sj_reader(i)).v = obj
    BY <1>2, <1>3
  <2> HIDE DEF s, obj
  <2> QED BY <2>1 DEF MembersAt
<1>5. s \in Readers(doc) /\ s.depth = 1
  <2>1. 1 \in Int
    OBVIOUS
  <2> HIDE DEF a
  <2> QED BY <1>0, <2>1, AtType
<1>6. sj__discard_until(doc, s, 1) = s
  BY <1>5, DiscardFollows
<1>7. obj.depth = 1
  BY DEF Value
<1> HIDE DEF a, obj
<1>8. /\ Parse(doc)[<<"members", a>>].starts \in Seq((1..Len(doc)) \X (1..Len(doc)))
      /\ Members(doc, s, obj) = PairsOf(doc, 1, Parse(doc)[<<"members", a>>].starts)
  BY <1>0, <1>1, <1>5, <1>6, <1>7, MembersInOrder
<1> QED BY <1>4, <1>8 DEF MemberStarts, a

StartsOf(pairs) == [m \in 1..Len(pairs) |-> <<pairs[m].key.start, pairs[m].val.start>>]

LEMMA PairStarts ==
  ASSUME NEW doc, NEW d, NEW X, NEW Y, NEW starts \in Seq(X \X Y)
  PROVE  StartsOf(PairsOf(doc, d, starts)) = starts
<1> DEFINE pairs == PairsOf(doc, d, starts)
<1>0. Len(starts) \in Nat /\ starts \in [1..Len(starts) -> X \X Y]
  OBVIOUS
<1>1. Len(pairs) = Len(starts)
  BY <1>0 DEF PairsOf
<1>2. \A m \in 1..Len(starts) : pairs[m] = PairOf(doc, d, starts[m])
  BY <1>1 DEF PairsOf
<1>3. \A x \in X \X Y : <<PairOf(doc, d, x).key.start, PairOf(doc, d, x).val.start>> = x
  BY DEF PairOf, Value
<1> HIDE DEF pairs
<1>4. \A m \in 1..Len(starts) : <<pairs[m].key.start, pairs[m].val.start>> = starts[m]
  BY <1>0, <1>2, <1>3
<1>5. [m \in 1..Len(pairs) |-> <<pairs[m].key.start, pairs[m].val.start>>]
        = [m \in 1..Len(starts) |-> starts[m]]
  BY <1>1, <1>4
<1> QED BY <1>0, <1>5 DEF pairs, StartsOf

----------------------------------------------------------------------------
(* Every text that is grown *)

\* Every text is made of tokens.
TextType == text \in Seq(Alphabet)

LEMMA TextIsTokens == TextSpec => []TextType
<1>1. TextInit => TextType
  BY DEF TextInit, TextType
<1>2. TextType /\ [TextNext]_text => TextType'
  BY DEF TextType, TextNext
<1> QED BY <1>1, <1>2, PTL DEF TextSpec

LEMMA TypeTokens ==
  ASSUME TextType
  PROVE  Tokens(text) /\ Len(text) \in Nat
<1>1. Len(text) \in Nat /\ \A m \in 1..Len(text) : text[m] \in Alphabet
  BY DEF TextType
<1> QED BY <1>1, AlphabetAssumption DEF Tokens

\* In every JSON text, however long and deep, the raw scan of sj_value_to_json
\* stops at the bracket that closes the value it began at, although it counts
\* braces and square brackets as one.
THEOREM ScansCopyOneValue == TextSpec => []ScanCopiesOneValue
<1>1. TextType => ScanCopiesOneValue
  BY TypeTokens, OpeningIsValue, ScanEnds DEF ScanCopiesOneValue
<1> QED BY <1>1, TextIsTokens, PTL

\* In every JSON text, sj_iter_object visits all members of an object and no
\* other, also when the values are left for sj__discard_until to skip and the
\* object is read again with the rest of the text behind it.
THEOREM IterationVisitsOwnMembers == TextSpec => []IteratesOwnMembers
<1>1. ASSUME TextType, WellFormed(text), NEW i \in 1..Len(text), text[i].k = "object"
      PROVE  LET members == MembersAt(text, i)
             IN  [m \in 1..Len(members) |-> <<members[m].key.start, members[m].val.start>>]
                   = MemberStarts(text, i)
  <2> DEFINE starts == MemberStarts(text, i)
             members == PairsOf(text, 1, starts)
  <2>1. Tokens(text) /\ Parse(text)[<<"value", i>>].ok
    BY <1>1, TypeTokens, OpeningIsValue DEF Openings
  <2>2. starts \in Seq((1..Len(text)) \X (1..Len(text))) /\ MembersAt(text, i) = members
    BY <1>1, <2>1, MembersOfObject
  <2> DEFINE X == 1..Len(text)
             one == 1
  <2>a. starts \in Seq(X \X X) /\ members = PairsOf(text, one, starts)
    BY <2>2
  <2> HIDE DEF starts, members, X, one
  <2>3. StartsOf(members) = starts
    BY <2>a, PairStarts
  <2> QED BY <2>2, <2>3 DEF starts, members, StartsOf
<1>2. TextType => IteratesOwnMembers
  <2> SUFFICES ASSUME TextType, WellFormed(text) PROVE IteratesOwnMembers
    BY DEF IteratesOwnMembers
  <2> QED BY <1>1 DEF IteratesOwnMembers
<1> QED BY <1>2, TextIsTokens, PTL

----------------------------------------------------------------------------
(* The converter *)

Todos == {"value", "items", "members"}

\* What sj_to_xmlrpc and its loops may be called with.
Calls(doc) == Todos \X Readers(doc) \X Values(doc)

\* A call only leads to calls of a higher rank: what is nested in it or comes
\* after it is further on, but for the loop over a container's own contents.
Rank(todo, r) == 2 * r.cur + (IF todo = "value" THEN 0 ELSE 1)

\* What W does is reading on.
ReadsOn(doc, W, y) == W[y].r \in Readers(doc) /\ W[y].r.cur >= y[2].cur

LEMMA RankUp ==
  ASSUME NEW doc, Len(doc) \in Nat, NEW r \in Readers(doc), NEW s \in Readers(doc)
  PROVE  /\ \A a \in Todos : Rank(a, r) \in 2..(2 * Len(doc) + 3)
         /\ s.cur > r.cur => \A a, b \in Todos : Rank(b, s) > Rank(a, r)
         /\ \A b \in {"items", "members"} : Rank(b, r) > Rank("value", r)
<1>1. r.cur \in 1..(Len(doc) + 1) /\ s.cur \in 1..(Len(doc) + 1)
  BY ReaderType
<1> QED BY <1>1 DEF Rank, Todos

\* The loops, one round of them.
ItemsRound(doc, W, r, v) ==
    LET it   == sj_iter_array(doc, r, v)
        one  == W[<<"value", it.r, it.val>>]
        rest == W[<<"items", one.r, v>>]
    IN  IF it.more THEN [r |-> rest.r, t |-> <<one.t>> \o rest.t]
                   ELSE [r |-> it.r, t |-> <<>>]

MembersRound(doc, W, r, v) ==
    LET it   == sj_iter_object(doc, r, v)
        name == doc[it.key.start]
        one  == W[<<"value", it.r, it.val>>]
        rest == W[<<"members", one.r, v>>]
    IN  IF it.more THEN [r |-> rest.r, t |-> <<<<name.v, name.esc, one.t>>>> \o rest.t]
                   ELSE [r |-> it.r, t |-> <<>>]

LEMMA RoundCases ==
  ASSUME NEW doc, NEW W, NEW r, NEW v
  PROVE  /\ XmlRpcAt(doc, W, "items", r, v) = ItemsRound(doc, W, r, v)
         /\ XmlRpcAt(doc, W, "members", r, v) = MembersRound(doc, W, r, v)
<1>1. XmlRpcAt(doc, W, "items", r, v) = ItemsRound(doc, W, r, v)
  BY DEF XmlRpcAt, ItemsRound
<1>2. XmlRpcAt(doc, W, "members", r, v) = MembersRound(doc, W, r, v)
  BY DEF XmlRpcAt, MembersRound
<1> QED BY <1>1, <1>2

LEMMA ConvertLooksAhead ==
  ASSUME NEW doc, Tokens(doc), NEW W, NEW V,
         NEW todo \in Todos, NEW r \in Readers(doc), NEW v \in Values(doc),
         \A y \in Calls(doc) : Rank(y[1], y[2]) > Rank(todo, r) => W[y] = V[y] /\ ReadsOn(doc, W, y)
  PROVE  /\ XmlRpcAt(doc, W, todo, r, v) = XmlRpcAt(doc, V, todo, r, v)
         /\ XmlRpcAt(doc, W, todo, r, v).r \in Readers(doc)
         /\ XmlRpcAt(doc, W, todo, r, v).r.cur >= r.cur
<1>0. Len(doc) \in Nat /\ \A s \in Readers(doc) : s.cur \in Nat
  BY ReaderType DEF Tokens
<1>a. ASSUME NEW a \in Todos, NEW s \in Readers(doc), NEW u \in Values(doc), s.cur > r.cur
      PROVE  /\ W[<<a, s, u>>] = V[<<a, s, u>>] /\ W[<<a, s, u>>].r \in Readers(doc)
             /\ W[<<a, s, u>>].r.cur >= s.cur
  <2> DEFINE y == <<a, s, u>>
  <2>1. y \in Calls(doc) /\ y[1] = a /\ y[2] = s
    BY DEF Calls
  <2>2. Rank(a, s) > Rank(todo, r)
    BY <1>0, <1>a, RankUp
  <2> HIDE DEF y
  <2>3. W[y] = V[y] /\ ReadsOn(doc, W, y)
    BY <2>1, <2>2
  <2> QED BY <2>1, <2>3 DEF ReadsOn, y
<1>1. ASSUME todo = "value", NEW a \in {"items", "members"}, NEW tag,
             \A U : XmlRpcAt(doc, U, "value", r, v) = [r |-> U[<<a, r, v>>].r, t |-> <<tag, U[<<a, r, v>>].t>>]
      PROVE  /\ XmlRpcAt(doc, W, todo, r, v) = XmlRpcAt(doc, V, todo, r, v)
             /\ XmlRpcAt(doc, W, todo, r, v).r \in Readers(doc)
             /\ XmlRpcAt(doc, W, todo, r, v).r.cur >= r.cur
  <2> DEFINE y == <<a, r, v>>
  <2>1. y \in Calls(doc) /\ y[1] = a /\ y[2] = r
    BY DEF Calls, Todos
  <2>2. Rank(a, r) > Rank(todo, r)
    BY <1>0, <1>1, RankUp
  <2>3. \A U : XmlRpcAt(doc, U, "value", r, v) = [r |-> U[y].r, t |-> <<tag, U[y].t>>]
    BY <1>1
  <2> HIDE DEF y
  <2>4. W[y] = V[y] /\ ReadsOn(doc, W, y)
    BY <2>1, <2>2
  <2> DEFINE e == W[y]
  <2>5. e = V[y] /\ e.r \in Readers(doc) /\ e.r.cur >= r.cur
    BY <2>1, <2>4 DEF ReadsOn
  <2>6. XmlRpcAt(doc, W, "value", r, v) = [r |-> e.r, t |-> <<tag, e.t>>]
    BY <2>3
  <2>7. XmlRpcAt(doc, V, "value", r, v) = [r |-> V[y].r, t |-> <<tag, V[y].t>>]
    BY <2>3
  <2> HIDE DEF e
  <2>8. XmlRpcAt(doc, V, "value", r, v) = [r |-> e.r, t |-> <<tag, e.t>>]
    BY <2>5, <2>7
  <2>9. XmlRpcAt(doc, W, "value", r, v).r = e.r
    BY <2>6
  <2>10. todo = "value"
    BY <1>1
  <2> QED BY <2>5, <2>6, <2>8, <2>9, <2>10
<1>2. CASE todo = "value" /\ v.type = "array"
  <2>1. \A U : XmlRpcAt(doc, U, "value", r, v) = [r |-> U[<<"items", r, v>>].r, t |-> <<"array", U[<<"items", r, v>>].t>>]
    BY <1>2 DEF XmlRpcAt, Scalars
  <2> QED BY <1>1, <1>2, <2>1
<1>3. CASE todo = "value" /\ v.type = "object"
  <2>1. \A U : XmlRpcAt(doc, U, "value", r, v) = [r |-> U[<<"members", r, v>>].r, t |-> <<"struct", U[<<"members", r, v>>].t>>]
    BY <1>3 DEF XmlRpcAt, Scalars
  <2> QED BY <1>1, <1>3, <2>1
<1>4. CASE todo = "value" /\ v.type \in Scalars \cup {"string"}
  <2>1. \A U : XmlRpcAt(doc, U, "value", r, v) = [r |-> r, t |-> xmlrpc_scalar(doc[v.start])]
    BY <1>4 DEF XmlRpcAt, Scalars
  <2> QED BY <1>0, <1>4, <2>1
<1>5. CASE todo = "value" /\ v.type \notin Scalars \cup {"string", "array", "object"}
  <2>1. \A U : XmlRpcAt(doc, U, "value", r, v) = [r |-> r, t |-> EmptyStruct]
    BY <1>5 DEF XmlRpcAt
  <2> QED BY <1>0, <1>5, <2>1
<1>6. CASE todo = "items"
  <2> DEFINE it  == sj_iter_array(doc, r, v)
             one == W[<<"value", it.r, it.val>>]
             rest == W[<<"items", one.r, v>>]
  <2>1. /\ it.r \in Readers(doc) /\ it.r.cur >= r.cur
        /\ it.more => it.r.cur > r.cur /\ it.val \in Values(doc)
    BY IterArray
  <2>2. \A U : XmlRpcAt(doc, U, "items", r, v) = ItemsRound(doc, U, r, v)
    BY RoundCases
  <2> HIDE DEF it
  <2>3. it.more => /\ one = V[<<"value", it.r, it.val>>]
                   /\ one.r \in Readers(doc) /\ one.r.cur >= it.r.cur
    BY <1>a, <2>1 DEF Todos
  <2>4. it.more => one.r.cur > r.cur
    <3> HIDE DEF one
    <3> QED BY <1>0, <2>1, <2>3
  <2>5. it.more => /\ rest = V[<<"items", one.r, v>>]
                   /\ rest.r \in Readers(doc) /\ rest.r.cur >= one.r.cur
    <3> HIDE DEF one
    <3> QED BY <1>a, <2>3, <2>4 DEF Todos
  <2>6. ItemsRound(doc, W, r, v) = IF it.more THEN [r |-> rest.r, t |-> <<one.t>> \o rest.t]
                                              ELSE [r |-> it.r, t |-> <<>>]
    BY DEF ItemsRound, it
  <2>7. ItemsRound(doc, V, r, v) = ItemsRound(doc, W, r, v)
    <3>1. CASE it.more
      <4> DEFINE x == V[<<"value", it.r, it.val>>]
                 z == V[<<"items", x.r, v>>]
      <4>1. ItemsRound(doc, V, r, v) = [r |-> z.r, t |-> <<x.t>> \o z.t]
        BY <3>1 DEF ItemsRound, it
      <4>2. x = one /\ z = rest
        BY <2>3, <2>5, <3>1
      <4> HIDE DEF x, z, one, rest
      <4> QED BY <2>6, <3>1, <4>1, <4>2
    <3>2. CASE ~it.more
      BY <2>6, <3>2 DEF ItemsRound, it
    <3> QED BY <3>1, <3>2
  <2> HIDE DEF one, rest
  <2>8. ItemsRound(doc, W, r, v).r = IF it.more THEN rest.r ELSE it.r
    BY <2>6
  <2>9. it.more => rest.r.cur >= r.cur
    BY <1>0, <2>3, <2>4, <2>5
  <2> QED BY <1>6, <2>1, <2>2, <2>5, <2>7, <2>8, <2>9
<1>7. CASE todo = "members"
  <2> DEFINE it  == sj_iter_object(doc, r, v)
             name == doc[it.key.start]
             one == W[<<"value", it.r, it.val>>]
             rest == W[<<"members", one.r, v>>]
  <2>1. /\ it.r \in Readers(doc) /\ it.r.cur >= r.cur
        /\ it.more => it.r.cur > r.cur /\ it.val \in Values(doc)
    BY IterObject
  <2>2. \A U : XmlRpcAt(doc, U, "members", r, v) = MembersRound(doc, U, r, v)
    BY RoundCases
  <2> HIDE DEF it
  <2>3. it.more => /\ one = V[<<"value", it.r, it.val>>]
                   /\ one.r \in Readers(doc) /\ one.r.cur >= it.r.cur
    BY <1>a, <2>1 DEF Todos
  <2>4. it.more => one.r.cur > r.cur
    <3> HIDE DEF one
    <3> QED BY <1>0, <2>1, <2>3
  <2>5. it.more => /\ rest = V[<<"members", one.r, v>>]
                   /\ rest.r \in Readers(doc) /\ rest.r.cur >= one.r.cur
    <3> HIDE DEF one
    <3> QED BY <1>a, <2>3, <2>4 DEF Todos
  <2>6. MembersRound(doc, W, r, v) =
          IF it.more THEN [r |-> rest.r, t |-> <<<<name.v, name.esc, one.t>>>> \o rest.t]
                     ELSE [r |-> it.r, t |-> <<>>]
    BY DEF MembersRound, it
  <2>7. MembersRound(doc, V, r, v) = MembersRound(doc, W, r, v)
    <3>1. CASE it.more
      <4> DEFINE x == V[<<"value", it.r, it.val>>]
                 z == V[<<"members", x.r, v>>]
      <4>1. MembersRound(doc, V, r, v) = [r |-> z.r, t |-> <<<<name.v, name.esc, x.t>>>> \o z.t]
        BY <3>1 DEF MembersRound, it
      <4>2. x = one /\ z = rest
        BY <2>3, <2>5, <3>1
      <4> HIDE DEF x, z, one, rest, name
      <4> QED BY <2>6, <3>1, <4>1, <4>2
    <3>2. CASE ~it.more
      BY <2>6, <3>2 DEF MembersRound, it
    <3> QED BY <3>1, <3>2
  <2> HIDE DEF one, rest, name
  <2>8. MembersRound(doc, W, r, v).r = IF it.more THEN rest.r ELSE it.r
    BY <2>6
  <2>9. it.more => rest.r.cur >= r.cur
    BY <1>0, <2>3, <2>4, <2>5
  <2> QED BY <1>7, <2>1, <2>2, <2>5, <2>7, <2>8, <2>9
<1> QED BY <1>2, <1>3, <1>4, <1>5, <1>6, <1>7 DEF Todos

\* Converting ends.
LEMMA ConvertExists ==
  ASSUME NEW doc, Tokens(doc)
  PROVE  \E W : W = [x \in Todos \X Readers(doc) \X Values(doc) |-> XmlRpcAt(doc, W, x[1], x[2], x[3])]
<1> DEFINE n == 2 * Len(doc) + 3
           C(low) == {x \in Calls(doc) : Rank(x[1], x[2]) >= low}
           Done(low, W) == /\ W = [x \in C(low) |-> XmlRpcAt(doc, W, x[1], x[2], x[3])]
                           /\ \A x \in C(low) : ReadsOn(doc, W, x)
           S == {low \in 1..(n + 1) : \E W : Done(low, W)}
<1>0. Len(doc) \in Nat /\ n \in Nat /\ n + 1 \in Nat /\ n + 1 \in 1..(n + 1)
  BY DEF Tokens
<1>a. \A x \in Calls(doc) :
        /\ x[1] \in Todos /\ x[2] \in Readers(doc) /\ x[3] \in Values(doc)
        /\ Rank(x[1], x[2]) \in 2..n
  <2> SUFFICES ASSUME NEW x \in Calls(doc)
               PROVE  /\ x[1] \in Todos /\ x[2] \in Readers(doc) /\ x[3] \in Values(doc)
                      /\ Rank(x[1], x[2]) \in 2..n
    OBVIOUS
  <2>1. x[1] \in Todos /\ x[2] \in Readers(doc) /\ x[3] \in Values(doc)
    BY DEF Calls
  <2> QED BY <1>0, <2>1, RankUp
<1> HIDE DEF n
<1>1. n + 1 \in S
  <2> DEFINE e == [x \in {} |-> 0]
  <2>1. C(n + 1) = {}
    BY <1>0, <1>a
  <2>2. e = [x \in {} |-> XmlRpcAt(doc, e, x[1], x[2], x[3])]
    OBVIOUS
  <2>3. Done(n + 1, e)
    BY <2>1, <2>2
  <2> QED BY <1>0, <2>3
<1>2. ASSUME NEW low \in 1..n, low + 1 \in S PROVE low \in S
  <2>1. PICK f : Done(low + 1, f)
    BY <1>2
  <2> DEFINE g == [x \in C(low) |-> XmlRpcAt(doc, f, x[1], x[2], x[3])]
  <2>2. \A x \in C(low + 1) : x \in C(low) /\ f[x] = XmlRpcAt(doc, f, x[1], x[2], x[3])
                              /\ ReadsOn(doc, f, x)
    <3> SUFFICES ASSUME NEW x \in C(low + 1)
                 PROVE  /\ x \in C(low) /\ f[x] = XmlRpcAt(doc, f, x[1], x[2], x[3])
                        /\ ReadsOn(doc, f, x)
      OBVIOUS
    <3>1. x \in Calls(doc) /\ Rank(x[1], x[2]) \in Nat /\ Rank(x[1], x[2]) >= low + 1
      BY <1>0, <1>a
    <3>2. x \in C(low)
      BY <1>0, <3>1
    <3>3. f[x] = XmlRpcAt(doc, f, x[1], x[2], x[3]) /\ ReadsOn(doc, f, x)
      BY <2>1
    <3> QED BY <3>2, <3>3
  <2>3. \A x \in C(low + 1) : f[x] = g[x]
    BY <2>2
  <2>4. ASSUME NEW x \in C(low)
        PROVE  /\ XmlRpcAt(doc, f, x[1], x[2], x[3]) = XmlRpcAt(doc, g, x[1], x[2], x[3])
               /\ ReadsOn(doc, g, x)
    <3> DEFINE a == x[1]
               r == x[2]
               v == x[3]
    <3>1. x \in Calls(doc) /\ a \in Todos /\ r \in Readers(doc) /\ v \in Values(doc)
          /\ Rank(a, r) \in Nat /\ Rank(a, r) >= low
      BY <1>0, <1>a
    <3>2. g[x] = XmlRpcAt(doc, f, a, r, v)
      BY <2>4
    <3> HIDE DEF g
    <3>3. ASSUME NEW y \in Calls(doc), Rank(y[1], y[2]) > Rank(a, r)
          PROVE  f[y] = g[y] /\ ReadsOn(doc, f, y)
      <4>1. Rank(y[1], y[2]) \in Nat
        BY <1>0, <1>a
      <4>2. Rank(y[1], y[2]) >= low + 1
        BY <1>0, <3>1, <3>3, <4>1
      <4>3. y \in C(low + 1)
        BY <4>2
      <4> QED BY <2>2, <2>3, <4>3
    <3> HIDE DEF a, r, v, C
    <3>4. /\ XmlRpcAt(doc, f, a, r, v) = XmlRpcAt(doc, g, a, r, v)
          /\ XmlRpcAt(doc, f, a, r, v).r \in Readers(doc)
          /\ XmlRpcAt(doc, f, a, r, v).r.cur >= r.cur
      BY <3>1, <3>3, ConvertLooksAhead
    <3> QED BY <3>2, <3>4 DEF ReadsOn, a, r, v
  <2>5. g = [x \in C(low) |-> XmlRpcAt(doc, g, x[1], x[2], x[3])]
    <3>1. \A x \in C(low) : g[x] = XmlRpcAt(doc, g, x[1], x[2], x[3])
      BY <2>4
    <3>2. g = [x \in C(low) |-> g[x]]
      OBVIOUS
    <3> HIDE DEF g
    <3> QED BY <3>1, <3>2
  <2>6. \A x \in C(low) : ReadsOn(doc, g, x)
    BY <2>4
  <2> HIDE DEF g, C
  <2>7. low \in 1..(n + 1) /\ Done(low, g)
    BY <1>0, <2>5, <2>6
  <2> QED BY <2>7
<1>3. 1 \in S
  <2> HIDE DEF S
  <2>1. \A i \in 1..((n + 1) - 1) : i + 1 \in S => i \in S
    BY <1>0, <1>2
  <2>2. \A i \in 1..(n + 1) : i \in S
    BY <1>0, <1>1, <2>1, Downwards
  <2> QED BY <1>0, <2>2
<1>4. C(1) = Todos \X Readers(doc) \X Values(doc)
  BY <1>0, <1>a DEF Calls
<1> HIDE DEF C
<1> QED BY <1>3, <1>4

IsConverter(doc, W) == \A x \in Calls(doc) : W[x] = XmlRpcAt(doc, W, x[1], x[2], x[3])

LEMMA Converter ==
  ASSUME NEW doc, Tokens(doc)
  PROVE  \E W : /\ IsConverter(doc, W)
                /\ \A r, v : sj_to_xmlrpc(doc, r, v) = W[<<"value", r, v>>]
<1> DEFINE IsW(f) == f = [x \in Todos \X Readers(doc) \X Values(doc) |-> XmlRpcAt(doc, f, x[1], x[2], x[3])]
           F == CHOOSE f : IsW(f)
<1>1. \A r, v : sj_to_xmlrpc(doc, r, v) = F[<<"value", r, v>>]
  BY DEF sj_to_xmlrpc, Todos
<1>2. \E f : IsW(f)
  <2>1. PICK f : f = [x \in Todos \X Readers(doc) \X Values(doc) |-> XmlRpcAt(doc, f, x[1], x[2], x[3])]
    BY ConvertExists, Zenon
  <2>2. IsW(f)
    BY <2>1
  <2> HIDE DEF IsW
  <2> QED BY <2>2
<1>3. IsW(F)
  <2> HIDE DEF IsW
  <2> QED BY <1>2
<1> HIDE DEF F
<1>4. IsConverter(doc, F)
  BY <1>3 DEF IsConverter, Calls
<1> QED BY <1>1, <1>4

Done(next, tree) == [r |-> next, t |-> tree]

Wrapped(tag, inside) == [r |-> inside.r, t |-> <<tag, inside.t>>]

\* W converts what is parsed at token i: a value that is read there at any
\* depth, or the rest of a container from a reader that gets there.
ConvertsValue(doc, W, i) ==
    LET p == Parse(doc)[<<"value", i>>]
    IN  p.ok => \A d \in Nat : LET read == sj_read(doc, At(i, d))
                               IN  W[<<"value", read.r, read.v>>] = Done(At(p.next, d), p.tree)

ConvertsRest(doc, W, w, i) ==
    LET p == Parse(doc)[<<w, i>>]
    IN  p.ok => \A d \in Nat \ {0}, s \in Readers(doc), v \in Values(doc) :
                  v.depth = d /\ sj__discard_until(doc, s, d) = At(i, d)
                    => W[<<w, s, v>>] = Done(At(p.next, d - 1), p.tree)

\* An integer of the machine, or a decimal number of at most six digits, is
\* carried over unchanged.
LEMMA NumberFits ==
  ASSUME NEW num, Fits(num)
  PROVE  xmlrpc_number(num) = Number(num)
<1>0. LongMax \in Nat /\ LongMin \in Int
  BY LongMaxAssumption DEF LongMin
<1>1. CASE num.form = "int"
  <2>1. num.lead \in Int /\ ~(num.lead > LongMax) /\ ~(num.lead < LongMin)
    BY <1>0, <1>1 DEF Fits
  <2>2. strtoll(num) = num.lead
    BY <2>1 DEF strtoll
  <2> QED BY <1>1, <2>2 DEF xmlrpc_number, Number
<1>2. CASE num.form # "int"
  <2>0. SixNines \in Nat
    BY SMT DEF SixNines
  <2>1. num.mant \in -SixNines..SixNines
    BY <1>2 DEF Fits
  <2>2. (IF num.mant < 0 THEN -num.mant ELSE num.mant) <= SixNines
    BY <2>0, <2>1
  <2>3. SixDigits(num.mant, num.exp) = <<num.mant, num.exp>>
    BY <2>2 DEF SixDigits
  <2> QED BY <1>2, <2>3 DEF xmlrpc_number, Number
<1> QED BY <1>1, <1>2

LEMMA PlainLeaf ==
  ASSUME NEW token, token.esc = 0, token.k \in Scalars \cup {"string"},
         token.k = "number" => Fits(token.num)
  PROVE  xmlrpc_scalar(token) = Leaf(token)
<1>1. CASE token.k = "number"
  <2>1. xmlrpc_number(token.num) = Number(token.num)
    BY <1>1, NumberFits
  <2> QED BY <1>1, <2>1 DEF xmlrpc_scalar, Leaf
<1>2. CASE token.k = "bool"
  BY <1>2 DEF xmlrpc_scalar, Leaf
<1>3. CASE token.k = "null"
  BY <1>3 DEF xmlrpc_scalar, Leaf
<1>4. CASE token.k = "string"
  BY <1>4 DEF xmlrpc_scalar, Leaf, Decoded
<1> QED BY <1>1, <1>2, <1>3, <1>4 DEF Scalars

LEMMA ConvertsOneValue ==
  ASSUME NEW doc, Tokens(doc), PlainText(doc), NumbersFit(doc), NEW W, IsConverter(doc, W),
         NEW i \in 1..(Len(doc) + 1),
         \A w \in {"members", "items"}, j \in (i + 1)..(Len(doc) + 1) : ConvertsRest(doc, W, w, j)
  PROVE  ConvertsValue(doc, W, i)
<1> DEFINE p == Parse(doc)[<<"value", i>>]
<1> SUFFICES ASSUME p.ok, NEW d \in Nat
             PROVE  W[<<"value", sj_read(doc, At(i, d)).r, sj_read(doc, At(i, d)).v>>]
                      = Done(At(p.next, d), p.tree)
  BY DEF ConvertsValue
<1> DEFINE read == sj_read(doc, At(i, d))
           a == i + 1
<1>0. Len(doc) \in Nat /\ d \in Int
  BY DEF Tokens
<1>1. /\ i \in 1..Len(doc) /\ p.next \in (i + 1)..(Len(doc) + 1)
      /\ \/ doc[i].k \in Scalars \cup {"string"} /\ p = Parsed(i + 1, Leaf(doc[i]), <<>>)
         \/ /\ doc[i].k = "object" /\ Parse(doc)[<<"members", i + 1>>].ok
            /\ p = Container("struct", Parse(doc)[<<"members", i + 1>>])
         \/ /\ doc[i].k = "array" /\ Parse(doc)[<<"items", i + 1>>].ok
            /\ p = Container("array", Parse(doc)[<<"items", i + 1>>])
  BY <1>0, ParsedValue
<1>2. i + 1 \in (i + 1)..(Len(doc) + 1)
  BY <1>0, <1>1
<1>3. doc[i].k \in Openings => read = [r |-> At(i + 1, d + 1), v |-> Value(doc[i].k, i, d + 1)]
  BY <1>0, <1>1, ReadAt
<1>4. CASE doc[i].k \in Scalars \cup {"string"} /\ p = Parsed(i + 1, Leaf(doc[i]), <<>>)
  <2> DEFINE s == At(i + 1, d)
             v == Value(doc[i].k, i, 0)
             x == <<"value", s, v>>
  <2>1. read = [r |-> s, v |-> v]
    BY <1>0, <1>1, <1>4, ReadAt
  <2>2. v \in Values(doc) /\ v.type = doc[i].k /\ v.start = i
    BY <1>0, <1>1, <1>4 DEF Value, Values, ValueTypes
  <2>3. s \in Readers(doc)
    <3>1. a \in 1..(Len(doc) + 1) /\ s = At(a, d)
      BY <1>0, <1>1
    <3> HIDE DEF a, s
    <3> QED BY <1>0, <3>1, AtType
  <2>4. x \in Calls(doc) /\ x[1] = "value" /\ x[2] = s /\ x[3] = v
    BY <2>2, <2>3 DEF Calls, Todos
  <2>5. read.r = s /\ read.v = v
    BY <2>1
  <2> HIDE DEF s, v, x, read
  <2>6. W[x] = XmlRpcAt(doc, W, "value", s, v)
    BY <2>4 DEF IsConverter
  <2>7. XmlRpcAt(doc, W, "value", s, v) = [r |-> s, t |-> xmlrpc_scalar(doc[i])]
    BY <1>4, <2>2 DEF XmlRpcAt, Scalars
  <2>8. xmlrpc_scalar(doc[i]) = Leaf(doc[i])
    BY <1>1, <1>4, PlainLeaf DEF PlainText, NumbersFit
  <2>9. p.next = i + 1 /\ p.tree = Leaf(doc[i])
    BY <1>4 DEF Parsed
  <2> HIDE DEF p
  <2>10. W[x] = Done(s, p.tree)
    BY <2>6, <2>7, <2>8, <2>9 DEF Done
  <2> QED BY <2>5, <2>9, <2>10 DEF x, s, read
<1>5. ASSUME NEW w \in {"members", "items"}, NEW tag, doc[i].k \in Openings,
             Parse(doc)[<<w, a>>].ok, ConvertsRest(doc, W, w, a),
             XmlRpcAt(doc, W, "value", read.r, read.v) = Wrapped(tag, W[<<w, read.r, read.v>>])
      PROVE  W[<<"value", read.r, read.v>>] =
               Wrapped(tag, Done(At(Parse(doc)[<<w, a>>].next, d), Parse(doc)[<<w, a>>].tree))
  <2> DEFINE e == d + 1
             s == At(a, e)
             v == Value(doc[i].k, i, e)
             q == Parse(doc)[<<w, a>>]
             inside == W[<<w, s, v>>]
             x == <<"value", s, v>>
  <2>0. a \in 1..(Len(doc) + 1) /\ e \in Nat \ {0} /\ e \in Int /\ e - 1 = d
    BY <1>0, <1>1
  <2>1. read.r = s /\ read.v = v
    BY <1>3, <1>5
  <2>2. v \in Values(doc) /\ v.depth = e
    BY <1>0, <1>1, <1>5, <2>0 DEF Value, Values, ValueTypes
  <2>3. s \in Readers(doc) /\ s.depth = e
    <3>1. s = At(a, e)
      OBVIOUS
    <3> HIDE DEF s, a, e
    <3> QED BY <1>0, <2>0, <3>1, AtType
  <2>4. sj__discard_until(doc, s, e) = s
    BY <2>3, DiscardFollows
  <2>5. inside = Done(At(q.next, d), q.tree)
    <3>1. s = At(a, e)
      OBVIOUS
    <3> HIDE DEF s, v, inside, a, e
    <3>2. W[<<w, s, v>>] = Done(At(q.next, e - 1), q.tree)
      BY <1>5, <2>0, <2>2, <2>3, <2>4, <3>1 DEF ConvertsRest
    <3> QED BY <2>0, <3>2 DEF inside
  <2>6. x \in Calls(doc) /\ x[1] = "value" /\ x[2] = s /\ x[3] = v
    BY <2>2, <2>3 DEF Calls, Todos
  <2> HIDE DEF s, v, x, inside, read, q
  <2>7. W[x] = XmlRpcAt(doc, W, "value", s, v)
    BY <2>6 DEF IsConverter
  <2>8. XmlRpcAt(doc, W, "value", s, v) = Wrapped(tag, inside)
    BY <1>5, <2>1 DEF inside
  <2> QED BY <2>1, <2>5, <2>7, <2>8 DEF x, q
<1>6. CASE doc[i].k = "object" /\ Parse(doc)[<<"members", i + 1>>].ok
           /\ p = Container("struct", Parse(doc)[<<"members", i + 1>>])
  <2> DEFINE q == Parse(doc)[<<"members", i + 1>>]
  <2>1. doc[i].k \in Openings /\ read.v.type = "object"
    BY <1>3, <1>6 DEF Openings, Value
  <2>2. p.next = q.next /\ p.tree = <<"struct", q.tree>>
    BY <1>6 DEF Container, Parsed
  <2>3. read.r = At(i + 1, d + 1) /\ read.v = Value(doc[i].k, i, d + 1)
    BY <1>3, <2>1
  <2>4. ConvertsRest(doc, W, "members", i + 1)
    BY <1>2
  <2> HIDE DEF read, p
  <2>5. XmlRpcAt(doc, W, "value", read.r, read.v) =
          Wrapped("struct", W[<<"members", read.r, read.v>>])
    BY <2>1 DEF XmlRpcAt, Scalars, Wrapped
  <2>6. W[<<"value", read.r, read.v>>] = Wrapped("struct", Done(At(q.next, d), q.tree))
    <3>1. Parse(doc)[<<"members", a>>].ok /\ ConvertsRest(doc, W, "members", a) /\ q = Parse(doc)[<<"members", a>>]
      BY <1>6, <2>4
    <3> HIDE DEF a, q
    <3> QED BY <1>5, <2>1, <2>5, <3>1
  <2> QED BY <2>2, <2>6 DEF read, Wrapped, Done
<1>7. CASE doc[i].k = "array" /\ Parse(doc)[<<"items", i + 1>>].ok
           /\ p = Container("array", Parse(doc)[<<"items", i + 1>>])
  <2> DEFINE q == Parse(doc)[<<"items", i + 1>>]
  <2>1. doc[i].k \in Openings /\ read.v.type = "array"
    BY <1>3, <1>7 DEF Openings, Value
  <2>2. p.next = q.next /\ p.tree = <<"array", q.tree>>
    BY <1>7 DEF Container, Parsed
  <2>3. read.r = At(i + 1, d + 1) /\ read.v = Value(doc[i].k, i, d + 1)
    BY <1>3, <2>1
  <2>4. ConvertsRest(doc, W, "items", i + 1)
    BY <1>2
  <2> HIDE DEF read, p
  <2>5. XmlRpcAt(doc, W, "value", read.r, read.v) =
          Wrapped("array", W[<<"items", read.r, read.v>>])
    BY <2>1 DEF XmlRpcAt, Scalars, Wrapped
  <2>6. W[<<"value", read.r, read.v>>] = Wrapped("array", Done(At(q.next, d), q.tree))
    <3>1. Parse(doc)[<<"items", a>>].ok /\ ConvertsRest(doc, W, "items", a) /\ q = Parse(doc)[<<"items", a>>]
      BY <1>7, <2>4
    <3> HIDE DEF a, q
    <3> QED BY <1>5, <2>1, <2>5, <3>1
  <2> QED BY <2>2, <2>6 DEF read, Wrapped, Done
<1> QED BY <1>1, <1>4, <1>6, <1>7

\* Inside an array of depth d, from a reader that gets to token i there: the
\* end of the array, or its next item.
LEMMA OneItem ==
  ASSUME NEW doc, Tokens(doc), NEW i \in 1..(Len(doc) + 1), Parse(doc)[<<"items", i>>].ok,
         NEW d \in Nat \ {0}, NEW arr, arr.depth = d,
         NEW s \in Readers(doc), sj__discard_until(doc, s, d) = At(i, d)
  PROVE  LET it   == sj_iter_array(doc, s, arr)
             read == sj_read(doc, At(i, d))
         IN  \/ doc[i].k = "endarray" /\ ~it.more /\ it.r = At(i + 1, d - 1)
             \/ doc[i].k # "endarray" /\ it.more /\ it.r = read.r /\ it.val = read.v
<1> DEFINE it   == sj_iter_array(doc, s, arr)
           item == sj_read(doc, At(i, d))
           more == item.v.type \notin {"error", "end"}
           e    == item.r
           v    == item.v
<1>0. Len(doc) \in Nat /\ d \in Int /\ d > 0 /\ d \in Nat
  BY DEF Tokens
<1>1. it = [more |-> more, r |-> e, val |-> v]
  BY DEF sj_iter_array
<1>2. /\ i \in 1..Len(doc)
      /\ \/ doc[i].k = "endarray"
         \/ doc[i].k \in Scalars \cup Openings \cup {"string"} /\ Parse(doc)[<<"value", i>>].ok
  BY <1>0, ParsedItems
<1>3. it.more = more /\ it.r = e /\ it.val = v
  <2> HIDE DEF more, e, v, it
  <2> QED BY <1>1
<1>4. CASE doc[i].k = "endarray"
  <2>1. item = [r |-> At(i + 1, d - 1), v |-> Value("end", i, 0)]
    BY <1>0, <1>2, <1>4, ReadAt DEF Closings
  <2>2. e = At(i + 1, d - 1) /\ ~more
    BY <2>1 DEF Value
  <2> HIDE DEF it, more, e, v
  <2> QED BY <1>3, <1>4, <2>2 DEF it
<1>5. CASE doc[i].k \in Scalars \cup Openings \cup {"string"} /\ Parse(doc)[<<"value", i>>].ok
  <2>1. v = Value(doc[i].k, i, IF doc[i].k \in Openings THEN d + 1 ELSE 0)
        /\ doc[i].k \in Scalars \cup Openings \cup {"string"}
    BY <1>0, <1>2, <1>5, AfterValue
  <2>2. more /\ doc[i].k # "endarray"
    BY <2>1 DEF Value, Scalars, Openings
  <2> HIDE DEF it, more
  <2> QED BY <1>3, <2>2 DEF it
<1> QED BY <1>2, <1>4, <1>5

\* A value that is read and converted leaves the reader behind it.
LEMMA ConvertedValue ==
  ASSUME NEW doc, Tokens(doc), NEW W, NEW i \in 1..(Len(doc) + 1),
         Parse(doc)[<<"value", i>>].ok, ConvertsValue(doc, W, i), NEW d \in Nat \ {0}
  PROVE  LET p == Parse(doc)[<<"value", i>>]
             read == sj_read(doc, At(i, d))
         IN  /\ W[<<"value", read.r, read.v>>] = Done(At(p.next, d), p.tree)
             /\ At(p.next, d) \in Readers(doc)
             /\ sj__discard_until(doc, At(p.next, d), d) = At(p.next, d)
<1> DEFINE e == Parse(doc)[<<"value", i>>].next
           s == At(e, d)
<1>0. Len(doc) \in Nat /\ d \in Nat /\ d \in Int
  BY DEF Tokens
<1>1. e \in 1..(Len(doc) + 1)
  <2>1. e \in (i + 1)..(Len(doc) + 1)
    BY <1>0, ParsedValue
  <2> HIDE DEF e
  <2> QED BY <1>0, <2>1
<1>2. s \in Readers(doc) /\ s.depth = d
  <2>1. s = At(e, d)
    OBVIOUS
  <2> HIDE DEF s, e
  <2>2. At(e, d) \in Readers(doc) /\ At(e, d).depth = d
    BY <1>0, <1>1, AtType
  <2> QED BY <2>1, <2>2
<1>3. sj__discard_until(doc, s, d) = s
  <2> HIDE DEF s
  <2> QED BY <1>2, DiscardFollows
<1> QED BY <1>0, <1>2, <1>3 DEF ConvertsValue

LEMMA ConvertsMembers ==
  ASSUME NEW doc, Tokens(doc), PlainText(doc), NEW W, IsConverter(doc, W),
         NEW i \in 1..(Len(doc) + 1),
         \A j \in (i + 1)..(Len(doc) + 1) :
           ConvertsValue(doc, W, j) /\ ConvertsRest(doc, W, "members", j)
  PROVE  ConvertsRest(doc, W, "members", i)
<1> DEFINE p == Parse(doc)[<<"members", i>>]
<1> SUFFICES ASSUME p.ok, NEW d \in Nat \ {0}, NEW s \in Readers(doc), NEW v \in Values(doc),
                    v.depth = d, sj__discard_until(doc, s, d) = At(i, d)
             PROVE  W[<<"members", s, v>>] = Done(At(p.next, d - 1), p.tree)
  BY DEF ConvertsRest
<1> DEFINE a == i + 1
           value == Parse(doc)[<<"value", a>>]
           e == value.next
           q == Parse(doc)[<<"members", e>>]
           it == sj_iter_object(doc, s, v)
           read == sj_read(doc, At(a, d))
           x == <<"members", s, v>>
<1>0. Len(doc) \in Nat
  BY DEF Tokens
<1>1. /\ i \in 1..Len(doc)
      /\ \/ doc[i].k = "endobject" /\ p = Parsed(i + 1, <<>>, <<>>)
         \/ /\ doc[i].k = "string" /\ a \in 1..Len(doc) /\ value.ok
            /\ e \in (i + 2)..(Len(doc) + 1) /\ q.ok /\ p = MembersFrom(doc, i)
  BY <1>0, ParsedMembers
<1>2. \/ doc[i].k = "endobject" /\ ~it.more /\ it.r = At(i + 1, d - 1)
      \/ /\ doc[i].k = "string" /\ it.more /\ it.r = read.r
         /\ it.key = Value("string", i, 0) /\ it.val = read.v
  BY OneMember
<1>3. W[x] = MembersRound(doc, W, s, v)
  <2>1. x \in Calls(doc) /\ x[1] = "members" /\ x[2] = s /\ x[3] = v
    BY DEF Calls, Todos
  <2> HIDE DEF x
  <2>2. W[x] = XmlRpcAt(doc, W, "members", s, v)
    BY <2>1 DEF IsConverter
  <2> QED BY <2>2, RoundCases
<1>4. CASE doc[i].k = "endobject"
  <2>1. p.next = i + 1 /\ p.tree = <<>>
    BY <1>1, <1>4 DEF Parsed
  <2>2. ~it.more /\ it.r = At(i + 1, d - 1)
    BY <1>2, <1>4
  <2>3. MembersRound(doc, W, s, v) = [r |-> it.r, t |-> <<>>]
    BY <2>2 DEF MembersRound
  <2> HIDE DEF p, it, x
  <2>4. W[x] = Done(At(p.next, d - 1), p.tree)
    BY <1>3, <2>1, <2>2, <2>3 DEF Done
  <2> QED BY <2>4 DEF x, p
<1>5. CASE doc[i].k = "string"
  <2> DEFINE one == W[<<"value", it.r, it.val>>]
             rest == W[<<"members", one.r, v>>]
             next == At(e, d)
             name == doc[it.key.start]
  <2>0. value.ok /\ q.ok /\ a \in (i + 1)..(Len(doc) + 1) /\ e \in (i + 1)..(Len(doc) + 1)
        /\ a \in 1..(Len(doc) + 1)
    BY <1>0, <1>1, <1>5
  <2>1. it.more /\ it.r = read.r /\ it.val = read.v /\ it.key = Value("string", i, 0)
    BY <1>2, <1>5
  <2>2. /\ W[<<"value", read.r, read.v>>] = Done(next, value.tree)
        /\ next \in Readers(doc) /\ sj__discard_until(doc, next, d) = next
    <3>1. ConvertsValue(doc, W, a)
      BY <2>0
    <3> HIDE DEF a
    <3> QED BY <2>0, <3>1, ConvertedValue
  <2>3. one.r = next /\ one.t = value.tree
    <3>1. one = Done(next, value.tree)
      <4> HIDE DEF it, read
      <4> QED BY <2>1, <2>2
    <3> HIDE DEF one
    <3> QED BY <3>1 DEF Done
  <2>4. rest = Done(At(q.next, d - 1), q.tree)
    <3>1. ConvertsRest(doc, W, "members", e)
      BY <2>0
    <3>2. sj__discard_until(doc, next, d) = At(e, d)
      BY <2>2
    <3> HIDE DEF one, next, e
    <3> QED BY <2>0, <2>2, <2>3, <3>1, <3>2 DEF ConvertsRest
  <2>5. MembersRound(doc, W, s, v) = [r |-> rest.r, t |-> <<<<name.v, name.esc, one.t>>>> \o rest.t]
    BY <2>1 DEF MembersRound
  <2>6. name = doc[i] /\ name.esc = 0
    BY <1>1, <2>1 DEF Value, PlainText
  <2>7. p.next = q.next /\ p.tree = <<<<doc[i].v, Decoded(doc[i].esc), value.tree>>>> \o q.tree
    <3> DEFINE tree == <<<<doc[i].v, Decoded(doc[i].esc), value.tree>>>> \o q.tree
               starts == <<<<i, i + 1>>>> \o q.starts
    <3>1. MembersFrom(doc, i) = Parsed(q.next, tree, starts)
      BY DEF MembersFrom
    <3> HIDE DEF tree, starts, q, value
    <3>2. p = Parsed(q.next, tree, starts)
      BY <1>1, <1>5, <3>1
    <3> HIDE DEF p
    <3>3. p.next = q.next /\ p.tree = tree
      BY <3>2 DEF Parsed
    <3> QED BY <3>3 DEF tree
  <2>8. rest.r = At(q.next, d - 1) /\ rest.t = q.tree
    <3> HIDE DEF rest, q
    <3> QED BY <2>4 DEF Done
  <2>9. Decoded(doc[i].esc) = name.esc
    BY <2>6 DEF Decoded
  <2> HIDE DEF p, x, one, rest, name, value, q
  <2>10. W[x] = Done(At(p.next, d - 1), p.tree)
    BY <1>3, <2>3, <2>5, <2>6, <2>7, <2>8, <2>9 DEF Done
  <2> QED BY <2>10 DEF x, p
<1> QED BY <1>1, <1>4, <1>5

LEMMA ConvertsItems ==
  ASSUME NEW doc, Tokens(doc), NEW W, IsConverter(doc, W),
         NEW i \in 1..(Len(doc) + 1), ConvertsValue(doc, W, i),
         \A j \in (i + 1)..(Len(doc) + 1) : ConvertsRest(doc, W, "items", j)
  PROVE  ConvertsRest(doc, W, "items", i)
<1> DEFINE p == Parse(doc)[<<"items", i>>]
<1> SUFFICES ASSUME p.ok, NEW d \in Nat \ {0}, NEW s \in Readers(doc), NEW v \in Values(doc),
                    v.depth = d, sj__discard_until(doc, s, d) = At(i, d)
             PROVE  W[<<"items", s, v>>] = Done(At(p.next, d - 1), p.tree)
  BY DEF ConvertsRest
<1> DEFINE value == Parse(doc)[<<"value", i>>]
           e == value.next
           q == Parse(doc)[<<"items", e>>]
           it == sj_iter_array(doc, s, v)
           read == sj_read(doc, At(i, d))
           x == <<"items", s, v>>
<1>0. Len(doc) \in Nat
  BY DEF Tokens
<1>1. /\ i \in 1..Len(doc)
      /\ \/ doc[i].k = "endarray" /\ p = Parsed(i + 1, <<>>, <<>>)
         \/ /\ doc[i].k \in Scalars \cup Openings \cup {"string"} /\ value.ok
            /\ e \in (i + 1)..(Len(doc) + 1) /\ q.ok /\ p = ItemsFrom(doc, i)
  BY <1>0, ParsedItems
<1>2. \/ doc[i].k = "endarray" /\ ~it.more /\ it.r = At(i + 1, d - 1)
      \/ doc[i].k # "endarray" /\ it.more /\ it.r = read.r /\ it.val = read.v
  BY OneItem
<1>3. W[x] = ItemsRound(doc, W, s, v)
  <2>1. x \in Calls(doc) /\ x[1] = "items" /\ x[2] = s /\ x[3] = v
    BY DEF Calls, Todos
  <2> HIDE DEF x
  <2>2. W[x] = XmlRpcAt(doc, W, "items", s, v)
    BY <2>1 DEF IsConverter
  <2> QED BY <2>2, RoundCases
<1>4. CASE doc[i].k = "endarray"
  <2>1. p.next = i + 1 /\ p.tree = <<>>
    BY <1>1, <1>4 DEF Parsed, Scalars, Openings
  <2>2. ~it.more /\ it.r = At(i + 1, d - 1)
    BY <1>2, <1>4
  <2>3. ItemsRound(doc, W, s, v) = [r |-> it.r, t |-> <<>>]
    BY <2>2 DEF ItemsRound
  <2> HIDE DEF p, it, x
  <2>4. W[x] = Done(At(p.next, d - 1), p.tree)
    BY <1>3, <2>1, <2>2, <2>3 DEF Done
  <2> QED BY <2>4 DEF x, p
<1>5. CASE doc[i].k # "endarray"
  <2> DEFINE one == W[<<"value", it.r, it.val>>]
             rest == W[<<"items", one.r, v>>]
             next == At(e, d)
  <2>0. value.ok /\ q.ok /\ e \in (i + 1)..(Len(doc) + 1)
    BY <1>1, <1>5
  <2>1. it.more /\ it.r = read.r /\ it.val = read.v
    BY <1>2, <1>5
  <2>2. /\ W[<<"value", read.r, read.v>>] = Done(next, value.tree)
        /\ next \in Readers(doc) /\ sj__discard_until(doc, next, d) = next
    BY <2>0, ConvertedValue
  <2>3. one.r = next /\ one.t = value.tree
    <3>1. one = Done(next, value.tree)
      <4> HIDE DEF it, read
      <4> QED BY <2>1, <2>2
    <3> HIDE DEF one
    <3> QED BY <3>1 DEF Done
  <2>4. rest = Done(At(q.next, d - 1), q.tree)
    <3>1. ConvertsRest(doc, W, "items", e)
      BY <2>0
    <3>2. sj__discard_until(doc, next, d) = At(e, d)
      BY <2>2
    <3> HIDE DEF one, next, e
    <3> QED BY <2>0, <2>2, <2>3, <3>1, <3>2 DEF ConvertsRest
  <2>5. ItemsRound(doc, W, s, v) = [r |-> rest.r, t |-> <<one.t>> \o rest.t]
    BY <2>1 DEF ItemsRound
  <2>7. p.next = q.next /\ p.tree = <<value.tree>> \o q.tree
    <3> DEFINE tree == <<value.tree>> \o q.tree
    <3>1. ItemsFrom(doc, i) = Parsed(q.next, tree, <<>>)
      BY DEF ItemsFrom
    <3> HIDE DEF tree, q, value
    <3>2. p = Parsed(q.next, tree, <<>>)
      BY <1>1, <1>5, <3>1
    <3> HIDE DEF p
    <3>3. p.next = q.next /\ p.tree = tree
      BY <3>2 DEF Parsed
    <3> QED BY <3>3 DEF tree
  <2>8. rest.r = At(q.next, d - 1) /\ rest.t = q.tree
    <3> HIDE DEF rest, q
    <3> QED BY <2>4 DEF Done
  <2> HIDE DEF p, x, one, rest, value, q
  <2>10. W[x] = Done(At(p.next, d - 1), p.tree)
    BY <1>3, <2>3, <2>5, <2>7, <2>8 DEF Done
  <2> QED BY <2>10 DEF x, p
<1> QED BY <1>4, <1>5

\* A converter converts what is parsed, from any token.
LEMMA ConvertsAll ==
  ASSUME NEW doc, Tokens(doc), PlainText(doc), NumbersFit(doc), NEW W, IsConverter(doc, W)
  PROVE  \A i \in 1..(Len(doc) + 1) : ConvertsValue(doc, W, i)
<1> DEFINE n == Len(doc) + 1
           All(j) == /\ ConvertsValue(doc, W, j)
                     /\ ConvertsRest(doc, W, "members", j) /\ ConvertsRest(doc, W, "items", j)
           S == {low \in 1..(n + 1) : \A j \in low..n : All(j)}
<1>0. n \in Nat /\ n + 1 \in Nat /\ n + 1 \in 1..(n + 1) /\ (n + 1)..n = {} /\ n = Len(doc) + 1
  BY DEF Tokens
<1> HIDE DEF n
<1>1. n + 1 \in S
  BY <1>0
<1>2. ASSUME NEW i \in 1..n, i + 1 \in S PROVE i \in S
  <2>1. i \in 1..(Len(doc) + 1) /\ \A j \in (i + 1)..(Len(doc) + 1) : All(j)
    BY <1>0, <1>2
  <2>2. ConvertsValue(doc, W, i)
    <3>1. \A w \in {"members", "items"}, j \in (i + 1)..(Len(doc) + 1) : ConvertsRest(doc, W, w, j)
      BY <2>1
    <3> QED BY <2>1, <3>1, ConvertsOneValue
  <2>3. ConvertsRest(doc, W, "members", i)
    BY <2>1, ConvertsMembers
  <2>4. ConvertsRest(doc, W, "items", i)
    BY <2>1, <2>2, ConvertsItems
  <2>5. All(i)
    BY <2>2, <2>3, <2>4
  <2> HIDE DEF All
  <2>6. \A j \in i..n : j = i \/ j \in (i + 1)..(Len(doc) + 1)
    BY <1>0
  <2>7. i \in 1..(n + 1)
    BY <1>0
  <2> QED BY <2>1, <2>5, <2>6, <2>7
<1>3. 1 \in S
  <2> HIDE DEF S
  <2>1. \A i \in 1..((n + 1) - 1) : i + 1 \in S => i \in S
    BY <1>0, <1>2
  <2>2. \A i \in 1..(n + 1) : i \in S
    BY <1>0, <1>1, <2>1, Downwards
  <2> QED BY <1>0, <2>2
<1>4. \A j \in 1..n : All(j)
  BY <1>3
<1> QED BY <1>0, <1>4

\* json_to_xmlrpc makes of a plain JSON text, with numbers that fit, the value
\* it denotes.
LEMMA ConvertsText ==
  ASSUME NEW doc, Tokens(doc), PlainText(doc), NumbersFit(doc), WellFormed(doc)
  PROVE  json_to_xmlrpc(doc) = JsonTree(doc)
<1> DEFINE p == Parse(doc)[<<"value", 1>>]
           first == sj_read(doc, At(1, 0))
<1>0. Len(doc) \in Nat /\ p.ok /\ 1 \in 1..(Len(doc) + 1) /\ 0 \in Nat
  BY DEF Tokens, WellFormed
<1>1. 1 \in 1..Len(doc)
  BY <1>0, ParsedValue
<1>2. PICK W : IsConverter(doc, W) /\ \A r, v : sj_to_xmlrpc(doc, r, v) = W[<<"value", r, v>>]
  BY Converter
<1>3. W[<<"value", first.r, first.v>>] = Done(At(p.next, 0), p.tree)
  <2>1. ConvertsValue(doc, W, 1)
    BY <1>0, <1>2, ConvertsAll
  <2> QED BY <1>0, <2>1 DEF ConvertsValue
<1>4. first.v.type # "error"
  <2> DEFINE i == 1
             d == 0
  <2>1. i \in 1..(Len(doc) + 1) /\ d \in Nat /\ Parse(doc)[<<"value", i>>].ok /\ first = sj_read(doc, At(i, d))
    BY <1>0
  <2> HIDE DEF i, d, first
  <2>2. first.v = Value(doc[i].k, i, IF doc[i].k \in Openings THEN d + 1 ELSE 0)
        /\ doc[i].k \in Scalars \cup Openings \cup {"string"}
    BY <2>1, AfterValue
  <2> QED BY <2>2 DEF Value, Scalars, Openings
<1>5. sj_reader(1) = At(1, 0)
  BY DEF sj_reader, At, Reader
<1>6. doc # <<>>
  BY <1>1
<1>7. json_to_xmlrpc(doc) = sj_to_xmlrpc(doc, first.r, first.v).t
  BY <1>4, <1>5, <1>6 DEF json_to_xmlrpc
<1>8. sj_to_xmlrpc(doc, first.r, first.v) = Done(At(p.next, 0), p.tree)
  BY <1>2, <1>3
<1> HIDE DEF p, first
<1>9. json_to_xmlrpc(doc) = p.tree
  BY <1>7, <1>8 DEF Done
<1> QED BY <1>9 DEF JsonTree, p

\* A plain JSON text whose integers are integers of the machine, and whose
\* decimal numbers have at most six digits, is sent to Odoo as the value it
\* denotes: the cursor and the loops of json_to_xmlrpc rebuild its tree, at any
\* length and any depth.  (An integer out of range, or a seventh digit, is not
\* kept: strtoll and %g of odoo.c:102-116.)
THEOREM TextsConvertToTheirTrees == TextSpec => []ConvertsToItsTree
<1>1. TextType => ConvertsToItsTree
  BY TypeTokens, ConvertsText DEF ConvertsToItsTree
<1> QED BY <1>1, TextIsTokens, PTL

----------------------------------------------------------------------------
(* Parsing is local: what is parsed at a token depends on the tokens it     *)
(* takes up and on nothing before or behind them.                           *)

\* The tokens from k up to e of E stand in D too, i tokens further on.
Alike(D, E, i, k, e) == \A m \in k..(e - 1) : m + i \in 1..Len(D) /\ D[m + i] = E[m]

\* What is parsed in E at token k is parsed in D there.
Shifts(D, E, i, w, k) ==
    LET p == Parse(E)[<<w, k>>]
        q == Parse(D)[<<w, k + i>>]
    IN  p.ok /\ Alike(D, E, i, k, p.next) =>
          /\ k + i \in 1..Len(D)
          /\ q.ok /\ q.next = p.next + i /\ q.tree = p.tree

LEMMA AlikeWithin ==
  ASSUME NEW D, NEW E, NEW i \in Int, NEW k \in Nat, NEW e \in Nat, NEW j \in Nat, NEW l \in Nat,
         Alike(D, E, i, k, e), k <= j, l <= e
  PROVE  Alike(D, E, i, j, l)
BY DEF Alike

LEMMA ShiftsValue ==
  ASSUME NEW D, Len(D) \in Nat, NEW E, Len(E) \in Nat, NEW i \in Int, NEW k \in 1..(Len(E) + 1),
         \A w \in Wants, j \in (k + 1)..(Len(E) + 1) : Shifts(D, E, i, w, j)
  PROVE  Shifts(D, E, i, "value", k)
<1> DEFINE p == Parse(E)[<<"value", k>>]
           l == k + i
           q == Parse(D)[<<"value", l>>]
           a == k + 1
           b == l + 1
<1> SUFFICES ASSUME p.ok, Alike(D, E, i, k, p.next)
             PROVE  /\ l \in 1..Len(D)
                    /\ q.ok /\ q.next = p.next + i /\ q.tree = p.tree
  BY DEF Shifts
<1>1. /\ k \in 1..Len(E) /\ p.next \in (k + 1)..(Len(E) + 1)
      /\ \/ E[k].k \in Scalars \cup {"string"} /\ p = Parsed(k + 1, Leaf(E[k]), <<>>)
         \/ /\ E[k].k = "object" /\ Parse(E)[<<"members", k + 1>>].ok
            /\ p = Container("struct", Parse(E)[<<"members", k + 1>>])
         \/ /\ E[k].k = "array" /\ Parse(E)[<<"items", k + 1>>].ok
            /\ p = Container("array", Parse(E)[<<"items", k + 1>>])
  BY ParsedValue
<1>2. l \in 1..Len(D) /\ D[l] = E[k] /\ Kind(D, l) = E[k].k
  <2>1. k \in k..(p.next - 1)
    BY <1>1
  <2>2. l \in 1..Len(D) /\ D[l] = E[k]
    BY <2>1 DEF Alike
  <2> QED BY <2>2 DEF Kind
<1>3. q = ParseAt(D, Parse(D), "value", l)
  <2>1. l \in 1..(Len(D) + 1)
    BY <1>2
  <2> HIDE DEF l
  <2> QED BY <2>1, ParseFollows DEF Wants
<1>4. CASE E[k].k \in Scalars \cup {"string"} /\ p = Parsed(k + 1, Leaf(E[k]), <<>>)
  <2>1. q = Parsed(l + 1, Leaf(D[l]), <<>>)
    BY <1>2, <1>3, <1>4 DEF ParseAt, Scalars
  <2>2. q.ok /\ q.next = l + 1 /\ q.tree = Leaf(D[l])
    BY <2>1 DEF Parsed
  <2>3. p.next = k + 1 /\ p.tree = Leaf(E[k])
    BY <1>4 DEF Parsed
  <2> HIDE DEF p, q
  <2>4. l + 1 = p.next + i
    BY <2>3
  <2> QED BY <1>2, <2>2, <2>3, <2>4
<1>5. ASSUME NEW w \in {"members", "items"}, NEW tag,
             Parse(E)[<<w, a>>].ok, p = Container(tag, Parse(E)[<<w, a>>]),
             q = Container(tag, Parse(D)[<<w, b>>])
      PROVE  q.ok /\ q.next = p.next + i /\ q.tree = p.tree
  <2> DEFINE in == Parse(E)[<<w, a>>]
             on == Parse(D)[<<w, b>>]
  <2>1. p.next = in.next /\ p.tree = <<tag, in.tree>>
    BY <1>5 DEF Container, Parsed
  <2>2. in.next \in Nat /\ a \in Nat /\ k \in Nat /\ k <= a /\ w \in Wants
        /\ a \in (k + 1)..(Len(E) + 1) /\ a + i = b
    BY <1>1, <2>1 DEF Wants
  <2>3. Alike(D, E, i, a, in.next)
    <3> HIDE DEF in, p, a
    <3> QED BY <2>1, <2>2, AlikeWithin
  <2>4. on.ok /\ on.next = in.next + i /\ on.tree = in.tree
    <3>1. Shifts(D, E, i, w, a)
      BY <2>2
    <3> HIDE DEF a
    <3> QED BY <1>5, <2>2, <2>3, <3>1 DEF Shifts
  <2> HIDE DEF in, on
  <2>5. q = Parsed(on.next, <<tag, on.tree>>, <<>>)
    BY <1>5, <2>4 DEF Container, on
  <2>6. q.ok /\ q.next = on.next /\ q.tree = <<tag, on.tree>>
    BY <2>5 DEF Parsed
  <2> HIDE DEF q, p
  <2> QED BY <2>1, <2>4, <2>6
<1>6. CASE E[k].k = "object" /\ Parse(E)[<<"members", k + 1>>].ok
           /\ p = Container("struct", Parse(E)[<<"members", k + 1>>])
  <2>1. q = Container("struct", Parse(D)[<<"members", b>>])
    BY <1>2, <1>3, <1>6 DEF ParseAt, Scalars
  <2>2. Parse(E)[<<"members", a>>].ok /\ p = Container("struct", Parse(E)[<<"members", a>>])
    BY <1>6
  <2> HIDE DEF p, q, a, b
  <2>3. q.ok /\ q.next = p.next + i /\ q.tree = p.tree
    BY <1>5, <2>1, <2>2
  <2> QED BY <1>2, <2>3
<1>7. CASE E[k].k = "array" /\ Parse(E)[<<"items", k + 1>>].ok
           /\ p = Container("array", Parse(E)[<<"items", k + 1>>])
  <2>1. q = Container("array", Parse(D)[<<"items", b>>])
    BY <1>2, <1>3, <1>7 DEF ParseAt, Scalars
  <2>2. Parse(E)[<<"items", a>>].ok /\ p = Container("array", Parse(E)[<<"items", a>>])
    BY <1>7
  <2> HIDE DEF p, q, a, b
  <2>3. q.ok /\ q.next = p.next + i /\ q.tree = p.tree
    BY <1>5, <2>1, <2>2
  <2> QED BY <1>2, <2>3
<1> QED BY <1>1, <1>4, <1>6, <1>7

LEMMA ShiftsMembers ==
  ASSUME NEW D, Len(D) \in Nat, NEW E, Len(E) \in Nat, NEW i \in Int, NEW k \in 1..(Len(E) + 1),
         \A w \in Wants, j \in (k + 1)..(Len(E) + 1) : Shifts(D, E, i, w, j)
  PROVE  Shifts(D, E, i, "members", k)
<1> DEFINE p == Parse(E)[<<"members", k>>]
           l == k + i
           q == Parse(D)[<<"members", l>>]
           a == k + 1
           b == l + 1
           value == Parse(E)[<<"value", a>>]
           e == value.next
           rest == Parse(E)[<<"members", e>>]
           value2 == Parse(D)[<<"value", b>>]
           f == value2.next
           rest2 == Parse(D)[<<"members", f>>]
<1> SUFFICES ASSUME p.ok, Alike(D, E, i, k, p.next)
             PROVE  /\ l \in 1..Len(D)
                    /\ q.ok /\ q.next = p.next + i /\ q.tree = p.tree
  BY DEF Shifts
<1>1. /\ k \in 1..Len(E) /\ p.next \in (k + 1)..(Len(E) + 1)
      /\ \/ E[k].k = "endobject" /\ p = Parsed(k + 1, <<>>, <<>>)
         \/ /\ E[k].k = "string" /\ a \in 1..Len(E) /\ value.ok
            /\ e \in (k + 2)..(Len(E) + 1) /\ rest.ok /\ p = MembersFrom(E, k)
  BY ParsedMembers
<1>2. l \in 1..Len(D) /\ D[l] = E[k] /\ Kind(D, l) = E[k].k
  <2>1. k \in k..(p.next - 1)
    BY <1>1
  <2>2. l \in 1..Len(D) /\ D[l] = E[k]
    BY <2>1 DEF Alike
  <2> QED BY <2>2 DEF Kind
<1>3. q = ParseAt(D, Parse(D), "members", l)
  <2>1. l \in 1..(Len(D) + 1)
    BY <1>2
  <2> HIDE DEF l
  <2> QED BY <2>1, ParseFollows DEF Wants
<1>4. CASE E[k].k = "endobject" /\ p = Parsed(k + 1, <<>>, <<>>)
  <2>1. q = Parsed(l + 1, <<>>, <<>>)
    BY <1>2, <1>3, <1>4 DEF ParseAt
  <2>2. q.ok /\ q.next = l + 1 /\ q.tree = <<>>
    BY <2>1 DEF Parsed
  <2>3. p.next = k + 1 /\ p.tree = <<>>
    BY <1>4 DEF Parsed
  <2> HIDE DEF p, q
  <2>4. l + 1 = p.next + i
    BY <2>3
  <2> QED BY <1>2, <2>2, <2>3, <2>4
<1>5. CASE /\ E[k].k = "string" /\ a \in 1..Len(E) /\ value.ok
           /\ e \in (k + 2)..(Len(E) + 1) /\ rest.ok /\ p = MembersFrom(E, k)
  <2> DEFINE tree == <<<<E[k].v, Decoded(E[k].esc), value.tree>>>> \o rest.tree
  <2>1. p.next = rest.next /\ p.tree = tree
    <3> DEFINE starts == <<<<k, k + 1>>>> \o rest.starts
    <3>1. MembersFrom(E, k) = Parsed(rest.next, tree, starts)
      BY DEF MembersFrom
    <3> HIDE DEF tree, starts, rest
    <3>2. p = Parsed(rest.next, tree, starts)
      BY <1>5, <3>1
    <3> HIDE DEF p
    <3> QED BY <3>2 DEF Parsed
  <2>2. /\ a \in (k + 1)..(Len(E) + 1) /\ e \in (k + 1)..(Len(E) + 1) /\ a + i = b
        /\ a \in Nat /\ e \in Nat /\ k \in Nat /\ k <= a /\ k <= e /\ rest.next \in Nat
        /\ e <= rest.next
    <3>1. a \in (k + 1)..(Len(E) + 1) /\ e \in (k + 1)..(Len(E) + 1) /\ e \in 1..(Len(E) + 1)
      BY <1>1, <1>5
    <3>2. rest.next \in (e + 1)..(Len(E) + 1)
      <4> HIDE DEF e
      <4> QED BY <1>5, <3>1, ParsedMembers
    <3> HIDE DEF e, rest
    <3> QED BY <3>1, <3>2
  <2>3. Alike(D, E, i, a, e) /\ Alike(D, E, i, e, rest.next)
    <3>1. rest.next <= rest.next
      BY <2>2
    <3>2. e <= e
      BY <2>2
    <3> HIDE DEF rest, p, a, e
    <3> QED BY <2>1, <2>2, <3>1, <3>2, AlikeWithin
  <2>4. value2.ok /\ f = e + i /\ value2.tree = value.tree
    <3>1. Shifts(D, E, i, "value", a)
      BY <2>2 DEF Wants
    <3> HIDE DEF a
    <3> QED BY <1>5, <2>2, <2>3, <3>1 DEF Shifts
  <2>5. rest2.ok /\ rest2.next = rest.next + i /\ rest2.tree = rest.tree
    <3>1. Shifts(D, E, i, "members", e)
      BY <2>2 DEF Wants
    <3> HIDE DEF e, f
    <3> QED BY <1>5, <2>3, <2>4, <3>1 DEF Shifts
  <2> DEFINE tree2 == <<<<D[l].v, Decoded(D[l].esc), value2.tree>>>> \o rest2.tree
             starts2 == <<<<l, l + 1>>>> \o rest2.starts
  <2>6. q = IF value2.ok /\ rest2.ok THEN Parsed(rest2.next, tree2, starts2) ELSE Failed
    BY <1>2, <1>3, <1>5 DEF ParseAt
  <2>7. tree2 = tree
    BY <1>2, <2>4, <2>5
  <2> HIDE DEF tree2, starts2, tree, value2, rest2, q, p
  <2>8. q = Parsed(rest2.next, tree, starts2)
    BY <2>4, <2>5, <2>6, <2>7
  <2>9. q.ok /\ q.next = rest2.next /\ q.tree = tree
    BY <2>8 DEF Parsed
  <2> QED BY <1>2, <2>1, <2>5, <2>9
<1> QED BY <1>1, <1>4, <1>5

LEMMA ShiftsItems ==
  ASSUME NEW D, Len(D) \in Nat, NEW E, Len(E) \in Nat, NEW i \in Int, NEW k \in 1..(Len(E) + 1),
         \A w \in Wants, j \in (k + 1)..(Len(E) + 1) : Shifts(D, E, i, w, j),
         Shifts(D, E, i, "value", k)
  PROVE  Shifts(D, E, i, "items", k)
<1> DEFINE p == Parse(E)[<<"items", k>>]
           l == k + i
           q == Parse(D)[<<"items", l>>]
           value == Parse(E)[<<"value", k>>]
           e == value.next
           rest == Parse(E)[<<"items", e>>]
           value2 == Parse(D)[<<"value", l>>]
           f == value2.next
           rest2 == Parse(D)[<<"items", f>>]
<1> SUFFICES ASSUME p.ok, Alike(D, E, i, k, p.next)
             PROVE  /\ l \in 1..Len(D)
                    /\ q.ok /\ q.next = p.next + i /\ q.tree = p.tree
  BY DEF Shifts
<1>1. /\ k \in 1..Len(E) /\ p.next \in (k + 1)..(Len(E) + 1)
      /\ \/ E[k].k = "endarray" /\ p = Parsed(k + 1, <<>>, <<>>)
         \/ /\ E[k].k \in Scalars \cup Openings \cup {"string"} /\ value.ok
            /\ e \in (k + 1)..(Len(E) + 1) /\ rest.ok /\ p = ItemsFrom(E, k)
  BY ParsedItems
<1>2. l \in 1..Len(D) /\ D[l] = E[k] /\ Kind(D, l) = E[k].k
  <2>1. k \in k..(p.next - 1)
    BY <1>1
  <2>2. l \in 1..Len(D) /\ D[l] = E[k]
    BY <2>1 DEF Alike
  <2> QED BY <2>2 DEF Kind
<1>3. q = ParseAt(D, Parse(D), "items", l)
  <2>1. l \in 1..(Len(D) + 1)
    BY <1>2
  <2> HIDE DEF l
  <2> QED BY <2>1, ParseFollows DEF Wants
<1>4. CASE E[k].k = "endarray" /\ p = Parsed(k + 1, <<>>, <<>>)
  <2>1. q = Parsed(l + 1, <<>>, <<>>)
    BY <1>2, <1>3, <1>4 DEF ParseAt, Scalars, Openings
  <2>2. q.ok /\ q.next = l + 1 /\ q.tree = <<>>
    BY <2>1 DEF Parsed
  <2>3. p.next = k + 1 /\ p.tree = <<>>
    BY <1>4 DEF Parsed
  <2> HIDE DEF p, q
  <2>4. l + 1 = p.next + i
    BY <2>3
  <2> QED BY <1>2, <2>2, <2>3, <2>4
<1>5. CASE /\ E[k].k \in Scalars \cup Openings \cup {"string"} /\ value.ok
           /\ e \in (k + 1)..(Len(E) + 1) /\ rest.ok /\ p = ItemsFrom(E, k)
  <2> DEFINE tree == <<value.tree>> \o rest.tree
  <2>1. p.next = rest.next /\ p.tree = tree
    <3>1. ItemsFrom(E, k) = Parsed(rest.next, tree, <<>>)
      BY DEF ItemsFrom
    <3> HIDE DEF tree, rest
    <3>2. p = Parsed(rest.next, tree, <<>>)
      BY <1>5, <3>1
    <3> HIDE DEF p
    <3> QED BY <3>2 DEF Parsed
  <2>2. /\ e \in Nat /\ k \in Nat /\ k <= k /\ k <= e /\ rest.next \in Nat /\ e <= rest.next /\ e <= e
        /\ e \in (k + 1)..(Len(E) + 1) /\ rest.next <= rest.next
    <3>1. e \in (k + 1)..(Len(E) + 1) /\ e \in 1..(Len(E) + 1)
      BY <1>1, <1>5
    <3>2. rest.next \in (e + 1)..(Len(E) + 1)
      <4> HIDE DEF e
      <4> QED BY <1>5, <3>1, ParsedItems
    <3> HIDE DEF e, rest
    <3> QED BY <3>1, <3>2
  <2>3. Alike(D, E, i, k, e) /\ Alike(D, E, i, e, rest.next)
    <3> HIDE DEF rest, p, e
    <3> QED BY <2>1, <2>2, AlikeWithin
  <2>4. value2.ok /\ f = e + i /\ value2.tree = value.tree
    BY <1>5, <2>3 DEF Shifts
  <2>5. rest2.ok /\ rest2.next = rest.next + i /\ rest2.tree = rest.tree
    <3>1. Shifts(D, E, i, "items", e)
      BY <2>2 DEF Wants
    <3> HIDE DEF e, f
    <3> QED BY <1>5, <2>3, <2>4, <3>1 DEF Shifts
  <2> DEFINE tree2 == <<value2.tree>> \o rest2.tree
  <2>6. q = IF value2.ok /\ rest2.ok THEN Parsed(rest2.next, tree2, <<>>) ELSE Failed
    BY <1>2, <1>3, <1>5 DEF ParseAt, Scalars, Openings
  <2>7. tree2 = tree
    BY <2>4, <2>5
  <2> HIDE DEF tree2, tree, value2, rest2, q, p
  <2>8. q = Parsed(rest2.next, tree, <<>>)
    BY <2>4, <2>5, <2>6, <2>7
  <2>9. q.ok /\ q.next = rest2.next /\ q.tree = tree
    BY <2>8 DEF Parsed
  <2> QED BY <1>2, <2>1, <2>5, <2>9
<1> QED BY <1>1, <1>4, <1>5

LEMMA ParseIsLocal ==
  ASSUME NEW D, Len(D) \in Nat, NEW E, Len(E) \in Nat, NEW i \in Int
  PROVE  \A w \in Wants, k \in 1..(Len(E) + 1) : Shifts(D, E, i, w, k)
<1> DEFINE n == Len(E) + 1
           S == {low \in 1..(n + 1) : \A w \in Wants, k \in low..n : Shifts(D, E, i, w, k)}
<1>0. n \in Nat /\ n + 1 \in Nat /\ n + 1 \in 1..(n + 1) /\ n = Len(E) + 1
  OBVIOUS
<1> HIDE DEF n
<1>1. n + 1 \in S
  BY <1>0
<1>2. ASSUME NEW k \in 1..n, k + 1 \in S PROVE k \in S
  <2>1. k \in 1..(Len(E) + 1)
        /\ \A w \in Wants, j \in (k + 1)..(Len(E) + 1) : Shifts(D, E, i, w, j)
    BY <1>0, <1>2
  <2>2. Shifts(D, E, i, "value", k)
    BY <2>1, ShiftsValue
  <2>3. Shifts(D, E, i, "members", k)
    BY <2>1, ShiftsMembers
  <2>4. Shifts(D, E, i, "items", k)
    BY <2>1, <2>2, ShiftsItems
  <2>5. \A w \in Wants : Shifts(D, E, i, w, k)
    BY <2>2, <2>3, <2>4 DEF Wants
  <2>6. \A j \in k..n : j = k \/ j \in (k + 1)..n
    BY <1>0
  <2>7. k \in 1..(n + 1)
    BY <1>0
  <2> QED BY <1>2, <2>5, <2>6, <2>7
<1>3. 1 \in S
  <2> HIDE DEF S
  <2>1. \A k \in 1..((n + 1) - 1) : k + 1 \in S => k \in S
    BY <1>0, <1>2
  <2>2. \A k \in 1..(n + 1) : k \in S
    BY <1>0, <1>1, <2>1, Downwards
  <2> QED BY <1>0, <2>2
<1> QED BY <1>0, <1>3

----------------------------------------------------------------------------
(* The members of an object, by the tree of its document. *)

\* Where a member may be: a string, and a value somewhere behind it.
Places(doc) ==
    {x \in (1..Len(doc)) \X (1..Len(doc)) :
       doc[x[1]].k = "string" /\ Parse(doc)[<<"value", x[2]>>].ok}

MemberTree(doc, x) ==
    <<doc[x[1]].v, Decoded(doc[x[1]].esc), Parse(doc)[<<"value", x[2]>>].tree>>

TreesOf(doc, starts) == [m \in 1..Len(starts) |-> MemberTree(doc, starts[m])]

LEMMA TreesOfMore ==
  ASSUME NEW doc, NEW X, NEW start \in X, NEW starts \in Seq(X)
  PROVE  TreesOf(doc, Put(start, starts)) = Put(MemberTree(doc, start), TreesOf(doc, starts))
<1> DEFINE all   == <<start>> \o starts
           trees == TreesOf(doc, starts)
           first == MemberTree(doc, start)
           both  == <<first>> \o trees
           T == {MemberTree(doc, x) : x \in X}
<1>1. all \in Seq(X) /\ Len(all) = Len(starts) + 1 /\ Len(starts) \in Nat
      /\ all[1] = start /\ \A m \in 2..(Len(starts) + 1) : all[m] = starts[m - 1]
  OBVIOUS
<1>2. trees \in Seq(T) /\ Len(trees) = Len(starts) /\ first \in T
  <2>1. trees = [m \in 1..Len(starts) |-> MemberTree(doc, starts[m])]
    BY DEF TreesOf
  <2>2. \A m \in 1..Len(starts) : starts[m] \in X
    OBVIOUS
  <2>3. trees \in [1..Len(starts) -> T]
    BY <2>1, <2>2
  <2> QED BY <1>1, <2>1, <2>3
<1>3. \A m \in 1..Len(starts) : trees[m] = MemberTree(doc, starts[m])
  BY DEF TreesOf
<1> HIDE DEF trees, first, T
<1>4. both \in Seq(T) /\ Len(both) = Len(starts) + 1
      /\ both[1] = first /\ \A m \in 2..(Len(starts) + 1) : both[m] = trees[m - 1]
  BY <1>1, <1>2
<1> HIDE DEF all, both
<1>5. TreesOf(doc, all) = [m \in 1..(Len(starts) + 1) |-> MemberTree(doc, all[m])]
  BY <1>1 DEF TreesOf
<1>6. both = [m \in 1..(Len(starts) + 1) |-> both[m]]
  BY <1>1, <1>4
<1>7. \A m \in 1..(Len(starts) + 1) : MemberTree(doc, all[m]) = both[m]
  <2> SUFFICES ASSUME NEW m \in 1..(Len(starts) + 1) PROVE MemberTree(doc, all[m]) = both[m]
    OBVIOUS
  <2>1. CASE m = 1
    BY <1>1, <1>4, <2>1 DEF first
  <2>2. CASE m # 1
    <3>1. m \in 2..(Len(starts) + 1) /\ m - 1 \in 1..Len(starts)
      BY <1>1, <2>2
    <3> QED BY <1>1, <1>3, <1>4, <3>1
  <2> QED BY <2>1, <2>2
<1> QED BY <1>5, <1>6, <1>7 DEF all, both, trees, first, Put

\* The rest of an object has the trees of its members, each a string and a value.
LEMMA MembersTree ==
  ASSUME NEW doc, Len(doc) \in Nat, NEW i \in 1..(Len(doc) + 1), Parse(doc)[<<"members", i>>].ok
  PROVE  LET p == Parse(doc)[<<"members", i>>]
         IN  p.starts \in Seq(Places(doc)) /\ p.tree = TreesOf(doc, p.starts)
<1> DEFINE n == Len(doc) + 1
           p(j) == Parse(doc)[<<"members", j>>]
           Good(j) == p(j).ok => p(j).starts \in Seq(Places(doc)) /\ p(j).tree = TreesOf(doc, p(j).starts)
           S == {low \in 1..(n + 1) : \A j \in low..n : Good(j)}
<1>0. n \in Nat /\ n + 1 \in Nat /\ n + 1 \in 1..(n + 1) /\ n = Len(doc) + 1
  OBVIOUS
<1> HIDE DEF n
<1>1. n + 1 \in S
  BY <1>0
<1>2. ASSUME NEW low \in 1..n, low + 1 \in S PROVE low \in S
  <2>1. ASSUME p(low).ok
        PROVE  p(low).starts \in Seq(Places(doc)) /\ p(low).tree = TreesOf(doc, p(low).starts)
    <3> DEFINE a == low + 1
               value == Parse(doc)[<<"value", a>>]
               e == value.next
               rest == Parse(doc)[<<"members", e>>]
               x == <<low, a>>
    <3>0. low \in 1..(Len(doc) + 1)
      BY <1>0
    <3>1. /\ low \in 1..Len(doc)
          /\ \/ doc[low].k = "endobject" /\ p(low) = Parsed(a, <<>>, <<>>)
             \/ /\ doc[low].k = "string" /\ a \in 1..Len(doc) /\ value.ok
                /\ e \in (low + 2)..(Len(doc) + 1)
                /\ rest.ok /\ p(low) = MembersFrom(doc, low)
      BY <1>0, <2>1, <3>0, ParsedMembers
    <3>4. CASE p(low) = Parsed(a, <<>>, <<>>)
      <4>1. p(low).starts = <<>> /\ p(low).tree = <<>>
        BY <3>4 DEF Parsed
      <4>3. TreesOf(doc, <<>>) = <<>> /\ <<>> \in Seq(Places(doc))
        BY DEF TreesOf
      <4> HIDE DEF p
      <4> QED BY <4>1, <4>3
    <3>5. CASE /\ doc[low].k = "string" /\ a \in 1..Len(doc) /\ value.ok
               /\ e \in (low + 2)..(Len(doc) + 1)
               /\ rest.ok /\ p(low) = MembersFrom(doc, low)
      <4>1. p(low).starts = Put(x, rest.starts) /\ p(low).tree = Put(MemberTree(doc, x), rest.tree)
        <5>1. /\ MembersFrom(doc, low).starts = Put(x, rest.starts)
              /\ MembersFrom(doc, low).tree = Put(MemberTree(doc, x), rest.tree)
          BY DEF MembersFrom, Parsed, Put, MemberTree
        <5> QED BY <3>5, <5>1
      <4>2. e \in (low + 1)..n /\ e \in 1..(Len(doc) + 1)
        BY <1>0, <3>1, <3>5
      <4>3. x \in Places(doc)
        BY <3>1, <3>5 DEF Places
      <4> HIDE DEF e, x, value
      <4>4. rest.starts \in Seq(Places(doc)) /\ rest.tree = TreesOf(doc, rest.starts)
        <5>1. Good(e)
          BY <1>2, <4>2
        <5> QED BY <3>5, <5>1
      <4> DEFINE more == rest.starts
      <4>5. TreesOf(doc, Put(x, more)) = Put(MemberTree(doc, x), TreesOf(doc, more))
        BY <4>3, <4>4, TreesOfMore
      <4>6. Put(x, more) \in Seq(Places(doc))
        <5> HIDE DEF more
        <5> QED BY <4>3, <4>4 DEF Put, more
      <4> QED BY <4>1, <4>4, <4>5, <4>6
    <3> QED BY <3>1, <3>4, <3>5
  <2>2. Good(low)
    BY <2>1
  <2> HIDE DEF Good
  <2>3. \A j \in low..n : j = low \/ j \in (low + 1)..n
    BY <1>0
  <2>4. low \in 1..(n + 1)
    BY <1>0
  <2> QED BY <1>2, <2>2, <2>3, <2>4
<1>3. 1 \in S
  <2> HIDE DEF S
  <2>1. \A j \in 1..((n + 1) - 1) : j + 1 \in S => j \in S
    BY <1>0, <1>2
  <2>2. \A j \in 1..(n + 1) : j \in S
    BY <1>0, <1>1, <2>1, Downwards
  <2> QED BY <1>0, <2>2
<1>4. Good(i)
  <2> HIDE DEF Good
  <2> QED BY <1>0, <1>3
<1> QED BY <1>4

\* The tag of the tree of a value tells what kind of token it starts with.
TagOf(kind) ==
    CASE kind = "number" -> "number"
      [] kind = "bool"   -> "boolean"
      [] kind = "null"   -> "nil"
      [] kind = "string" -> "string"
      [] kind = "object" -> "struct"
      [] kind = "array"  -> "array"

LEMMA LeafTag ==
  ASSUME NEW token, token.k \in Scalars \cup {"string"}
  PROVE  Leaf(token)[1] = TagOf(token.k)
<1>1. CASE token.k = "number"
  BY <1>1 DEF Leaf, Number, TagOf
<1>2. CASE token.k = "bool"
  BY <1>2 DEF Leaf, TagOf
<1>3. CASE token.k = "null"
  BY <1>3 DEF Leaf, TagOf
<1>4. CASE token.k = "string"
  BY <1>4 DEF Leaf, TagOf
<1> QED BY <1>1, <1>2, <1>3, <1>4 DEF Scalars

LEMMA TreeOfValue ==
  ASSUME NEW doc, Len(doc) \in Nat, NEW i \in 1..(Len(doc) + 1), Parse(doc)[<<"value", i>>].ok
  PROVE  LET tree == Parse(doc)[<<"value", i>>].tree
         IN  /\ i \in 1..Len(doc) /\ doc[i].k \in Scalars \cup Openings \cup {"string"}
             /\ tree[1] = TagOf(doc[i].k)
             /\ doc[i].k \in Scalars \cup {"string"} => tree = Leaf(doc[i])
             /\ doc[i].k = "object" => tree = <<"struct", Parse(doc)[<<"members", i + 1>>].tree>>
<1> DEFINE p == Parse(doc)[<<"value", i>>]
           a == i + 1
<1>1. /\ i \in 1..Len(doc)
      /\ \/ doc[i].k \in Scalars \cup {"string"} /\ p = Parsed(a, Leaf(doc[i]), <<>>)
         \/ /\ doc[i].k = "object" /\ Parse(doc)[<<"members", a>>].ok
            /\ p = Container("struct", Parse(doc)[<<"members", a>>])
         \/ /\ doc[i].k = "array" /\ Parse(doc)[<<"items", a>>].ok
            /\ p = Container("array", Parse(doc)[<<"items", a>>])
  BY ParsedValue
<1>2. CASE doc[i].k \in Scalars \cup {"string"} /\ p = Parsed(a, Leaf(doc[i]), <<>>)
  <2>1. p.tree = Leaf(doc[i])
    BY <1>2 DEF Parsed
  <2>2. Leaf(doc[i])[1] = TagOf(doc[i].k)
    BY <1>2, LeafTag
  <2>3. doc[i].k # "object"
    BY <1>2 DEF Scalars
  <2> HIDE DEF p
  <2> QED BY <1>1, <1>2, <2>1, <2>2, <2>3 DEF p
<1>3. CASE /\ doc[i].k = "object" /\ Parse(doc)[<<"members", a>>].ok
           /\ p = Container("struct", Parse(doc)[<<"members", a>>])
  <2>1. p.tree = <<"struct", Parse(doc)[<<"members", a>>].tree>>
    BY <1>3 DEF Container, Parsed
  <2>2. TagOf(doc[i].k) = "struct" /\ doc[i].k \in Openings /\ doc[i].k \notin Scalars \cup {"string"}
    BY <1>3 DEF TagOf, Openings, Scalars
  <2> HIDE DEF p
  <2>3. p.tree[1] = "struct"
    BY <2>1
  <2> QED BY <1>1, <1>3, <2>1, <2>2, <2>3 DEF p, a
<1>4. CASE /\ doc[i].k = "array" /\ Parse(doc)[<<"items", a>>].ok
           /\ p = Container("array", Parse(doc)[<<"items", a>>])
  <2>1. p.tree = <<"array", Parse(doc)[<<"items", a>>].tree>>
    BY <1>4 DEF Container, Parsed
  <2>2. /\ TagOf(doc[i].k) = "array" /\ doc[i].k \in Openings
        /\ doc[i].k \notin Scalars \cup {"string"} /\ doc[i].k # "object"
    BY <1>4 DEF TagOf, Openings, Scalars
  <2> HIDE DEF p
  <2>3. p.tree[1] = "array"
    BY <2>1
  <2> QED BY <1>1, <1>4, <2>1, <2>2, <2>3 DEF p
<1> QED BY <1>1, <1>2, <1>3, <1>4

----------------------------------------------------------------------------
(* What the loops over members leave in the locals, and what the request's  *)
(* tree has under those names.                                              *)

\* A value found in doc, and the tree it stands for.
Denotes(doc, v, tree) ==
    \/ v = NullValue /\ tree = Means!Absent
    \/ /\ v.start \in 1..Len(doc) /\ v.type = doc[v.start].k
       /\ Parse(doc)[<<"value", v.start>>].ok
       /\ tree = Parse(doc)[<<"value", v.start>>].tree

LEMMA DenotedTag ==
  ASSUME NEW doc, Len(doc) \in Nat, NEW v, NEW tree, Denotes(doc, v, tree)
  PROVE  /\ v = NullValue <=> tree = Means!Absent
         /\ Have(v) <=> tree # Means!Absent
         /\ Have(v) => /\ v.start \in 1..Len(doc) /\ v.type = doc[v.start].k
                       /\ v.type \in Scalars \cup Openings \cup {"string"}
                       /\ Parse(doc)[<<"value", v.start>>].ok
                       /\ tree = Parse(doc)[<<"value", v.start>>].tree
                       /\ tree[1] = TagOf(v.type)
         /\ ~Have(v) => v.type = "null" /\ tree[1] = "absent"
<1>1. NullValue.start = 0 /\ NullValue.type = "null" /\ Means!Absent[1] = "absent"
  BY DEF NullValue, Value, Means!Absent
<1>2. CASE v = NullValue /\ tree = Means!Absent
  BY <1>1, <1>2 DEF Have
<1>3. CASE /\ v.start \in 1..Len(doc) /\ v.type = doc[v.start].k
           /\ Parse(doc)[<<"value", v.start>>].ok
           /\ tree = Parse(doc)[<<"value", v.start>>].tree
  <2>1. v.start \in 1..(Len(doc) + 1) /\ v.start # 0
    BY <1>3
  <2>2. tree[1] = TagOf(v.type) /\ v.type \in Scalars \cup Openings \cup {"string"}
    BY <1>3, <2>1, TreeOfValue
  <2>3. TagOf(v.type) # "absent"
    BY <2>2 DEF TagOf, Scalars, Openings
  <2> QED BY <1>1, <1>3, <2>1, <2>2, <2>3 DEF Have
<1> QED BY <1>2, <1>3 DEF Denotes

LEMMA LastPlace ==
  ASSUME NEW n \in Nat, NEW P, P \subseteq 1..n, P # {}
  PROVE  (CHOOSE i \in P : \A j \in P : j <= i) \in P
<1> DEFINE T == {n - i : i \in P}
<1>1. T \subseteq Nat /\ T # {}
  <2>1. \A i \in P : n - i \in Nat
    OBVIOUS
  <2>2. PICK i \in P : TRUE
    OBVIOUS
  <2>3. n - i \in T
    OBVIOUS
  <2> QED BY <2>1, <2>3
<1>2. PICK m \in T : \A t \in T : m <= t
  <2> HIDE DEF T
  <2> QED BY <1>1, Least
<1>3. PICK i \in P : m = n - i
  BY <1>2
<1>4. \A j \in P : n - j \in T
  OBVIOUS
<1>5. \A j \in P : j <= i
  <2> SUFFICES ASSUME NEW j \in P PROVE j <= i
    OBVIOUS
  <2>1. m <= n - j
    BY <1>2, <1>4
  <2> QED BY <1>3, <2>1
<1> QED BY <1>5

\* The last of some members, in the code's members and in the tree's.
LEMMA LastDenotes ==
  ASSUME NEW doc, Len(doc) \in Nat, NEW starts \in Seq(Places(doc)), NEW P, P \subseteq 1..Len(starts)
  PROVE  Denotes(doc, LastOf(PairsOf(doc, 1, starts), P), Means!LastOf(<<"struct", TreesOf(doc, starts)>>, P))
<1> DEFINE pairs == PairsOf(doc, 1, starts)
           object == <<"struct", TreesOf(doc, starts)>>
           m == CHOOSE i \in P : \A j \in P : j <= i
<1>0. object[2] = TreesOf(doc, starts) /\ Len(starts) \in Nat
  OBVIOUS
<1>1. CASE P = {}
  <2>1. LastOf(pairs, P) = NullValue /\ Means!LastOf(object, P) = Means!Absent
    BY <1>1 DEF LastOf, Means!LastOf
  <2> QED BY <2>1 DEF Denotes
<1>2. CASE P # {}
  <2>1. m \in P
    BY <1>0, <1>2, LastPlace
  <2>2. LastOf(pairs, P) = pairs[m].val /\ Means!LastOf(object, P) = TreesOf(doc, starts)[m][3]
    BY <1>0, <1>2 DEF LastOf, Means!LastOf
  <2> HIDE DEF m
  <2>3. m \in 1..Len(starts)
    BY <2>1
  <2> DEFINE x == starts[m]
             j == x[2]
             v == pairs[m].val
             tree == TreesOf(doc, starts)[m][3]
  <2>4. x \in Places(doc)
    BY <2>3
  <2> HIDE DEF x
  <2>5. j \in 1..Len(doc) /\ Parse(doc)[<<"value", j>>].ok
    BY <2>4 DEF Places
  <2>6. v = PairOf(doc, 1, x).val /\ tree = MemberTree(doc, x)[3]
    BY <2>3 DEF PairsOf, TreesOf, x
  <2>7. v.type = doc[j].k /\ v.start = j
    BY <2>6 DEF PairOf, Value
  <2>8. tree = Parse(doc)[<<"value", j>>].tree
    BY <2>6 DEF MemberTree
  <2> HIDE DEF j, v, tree
  <2>9. Denotes(doc, v, tree)
    BY <2>5, <2>7, <2>8 DEF Denotes
  <2> QED BY <2>2, <2>9 DEF v, tree
<1> QED BY <1>1, <1>2

\* The code's members are those of the object, whatever name is looked for.
Fields(doc, members, object) ==
    /\ \A name : Denotes(doc, Field(doc, members, name), Means!Member(object, name))
    /\ Denotes(doc, ModelField(doc, members), Means!Model(object))
    /\ Have(ModelField(doc, members)) => ModelField(doc, members).type = "string"

LEMMA NoFields ==
  ASSUME NEW doc, NEW object, object[2] = <<>>
  PROVE  Fields(doc, <<>>, object)
<1> DEFINE e == <<>>
<1>1. Len(e) = 0 /\ 1..0 = {}
  OBVIOUS
<1> HIDE DEF e
<1>2. \A name : Named(doc, e, name) = {} /\ Means!Named(object, name) = {}
  BY <1>1 DEF Named, Means!Named, e
<1>3. /\ \A name : Field(doc, e, name) = NullValue /\ Means!Member(object, name) = Means!Absent
      /\ ModelField(doc, e) = NullValue /\ Means!Model(object) = Means!Absent
  BY <1>2 DEF Field, ModelField, LastOf, Means!Member, Means!Model, Means!LastOf
<1>4. ~Have(NullValue)
  BY DEF Have, NullValue, Value
<1> QED BY <1>3, <1>4 DEF Fields, Denotes, e

LEMMA FieldsOfStarts ==
  ASSUME NEW doc, Len(doc) \in Nat, PlainText(doc), NEW starts \in Seq(Places(doc))
  PROVE  Fields(doc, PairsOf(doc, 1, starts), <<"struct", TreesOf(doc, starts)>>)
<1> DEFINE pairs == PairsOf(doc, 1, starts)
           trees == TreesOf(doc, starts)
           object == <<"struct", trees>>
<1>0. Len(starts) \in Nat /\ Len(pairs) = Len(starts) /\ Len(trees) = Len(starts) /\ object[2] = trees
  BY DEF PairsOf, TreesOf
<1>1. ASSUME NEW m \in 1..Len(starts)
      PROVE  /\ \A name : sj_eq(doc, pairs[m].key, name) <=> (trees[m][1] = name /\ trees[m][2] = 0)
             /\ pairs[m].val.type = "string" <=> Means!IsString(trees[m][3])
  <2> DEFINE x == starts[m]
             i == x[1]
             j == x[2]
  <2>1. x \in Places(doc)
    OBVIOUS
  <2> HIDE DEF x
  <2>2. i \in 1..Len(doc) /\ j \in 1..Len(doc) /\ Parse(doc)[<<"value", j>>].ok
    BY <2>1 DEF Places
  <2>3. pairs[m] = PairOf(doc, 1, x) /\ trees[m] = MemberTree(doc, x)
    BY DEF PairsOf, TreesOf, x
  <2>4. pairs[m].key.start = i /\ pairs[m].val.type = doc[j].k
    BY <2>3 DEF PairOf, Value
  <2>5. doc[i].esc = 0
    BY <2>2 DEF PlainText
  <2>6. trees[m][1] = doc[i].v /\ trees[m][2] = 0 /\ trees[m][3] = Parse(doc)[<<"value", j>>].tree
    BY <2>3, <2>5 DEF MemberTree, Decoded
  <2> HIDE DEF i, j, pairs, trees
  <2>7. \A name : sj_eq(doc, pairs[m].key, name) <=> (trees[m][1] = name /\ trees[m][2] = 0)
    BY <2>4, <2>5, <2>6 DEF sj_eq
  <2>8. Parse(doc)[<<"value", j>>].tree[1] = TagOf(doc[j].k)
        /\ doc[j].k \in Scalars \cup Openings \cup {"string"}
    <3>1. j \in 1..(Len(doc) + 1)
      BY <2>2
    <3> QED BY <2>2, <3>1, TreeOfValue
  <2>9. doc[j].k = "string" <=> TagOf(doc[j].k) = "string"
    BY <2>8 DEF TagOf, Scalars, Openings
  <2>10. pairs[m].val.type = "string" <=> Means!IsString(trees[m][3])
    BY <2>4, <2>6, <2>8, <2>9 DEF Means!IsString
  <2> QED BY <2>7, <2>10
<1> HIDE DEF pairs, trees
<1>2. \A name : Named(doc, pairs, name) = Means!Named(object, name)
  <2> HIDE DEF object
  <2> QED BY <1>0, <1>1 DEF Named, Means!Named
<1>3. {i \in Named(doc, pairs, "model") : pairs[i].val.type = "string"}
        = {i \in Means!Named(object, "model") : Means!IsString(object[2][i][3])}
  <2>1. \A i \in Means!Named(object, "model") : i \in 1..Len(starts)
    BY <1>0 DEF Means!Named
  <2> HIDE DEF object
  <2> QED BY <1>0, <1>1, <1>2, <2>1
<1>4. \A name : Named(doc, pairs, name) \subseteq 1..Len(starts)
  BY <1>0 DEF Named
<1>5. \A P \in SUBSET (1..Len(starts)) : Denotes(doc, LastOf(pairs, P), Means!LastOf(object, P))
  BY LastDenotes DEF pairs, trees
<1> HIDE DEF object
<1>6. \A name : Denotes(doc, Field(doc, pairs, name), Means!Member(object, name))
  BY <1>2, <1>4, <1>5 DEF Field, Means!Member
<1> DEFINE P == {i \in Named(doc, pairs, "model") : pairs[i].val.type = "string"}
<1>7. P \subseteq 1..Len(starts)
  BY <1>4
<1>8. ModelField(doc, pairs) = LastOf(pairs, P) /\ Means!Model(object) = Means!LastOf(object, P)
  BY <1>3 DEF ModelField, Means!Model
<1>9. Have(LastOf(pairs, P)) => LastOf(pairs, P).type = "string"
  <2>1. CASE P = {}
    BY <2>1 DEF LastOf, Have, NullValue, Value
  <2>2. CASE P # {}
    <3> DEFINE m == CHOOSE i \in P : \A j \in P : j <= i
    <3>1. m \in P
      <4> HIDE DEF P
      <4> QED BY <1>0, <1>7, <2>2, LastPlace
    <3>2. LastOf(pairs, P) = pairs[m].val
      BY <2>2 DEF LastOf
    <3> HIDE DEF m
    <3> QED BY <3>1, <3>2
  <2> QED BY <2>1, <2>2
<1> HIDE DEF P
<1>10. Denotes(doc, LastOf(pairs, P), Means!LastOf(object, P))
  BY <1>5, <1>7
<1>11. Fields(doc, pairs, object)
  BY <1>6, <1>8, <1>9, <1>10 DEF Fields
<1> QED BY <1>11 DEF pairs, object, trees

LEMMA FieldsOfObject ==
  ASSUME NEW doc, Tokens(doc), PlainText(doc), NEW i \in 1..Len(doc), doc[i].k = "object",
         Parse(doc)[<<"value", i>>].ok
  PROVE  Fields(doc, MembersAt(doc, i), Parse(doc)[<<"value", i>>].tree)
<1> DEFINE a == i + 1
           starts == MemberStarts(doc, i)
<1>0. Len(doc) \in Nat /\ i \in 1..(Len(doc) + 1) /\ a \in 1..(Len(doc) + 1)
  BY DEF Tokens
<1>1. MembersAt(doc, i) = PairsOf(doc, 1, starts)
  BY MembersOfObject
<1>2. Parse(doc)[<<"members", a>>].ok
  BY <1>0, ParsedValue DEF Scalars
<1>3. Parse(doc)[<<"value", i>>].tree = <<"struct", Parse(doc)[<<"members", a>>].tree>>
  BY <1>0, TreeOfValue
<1>4. starts = Parse(doc)[<<"members", a>>].starts
  BY DEF MemberStarts
<1> HIDE DEF a, starts
<1>5. starts \in Seq(Places(doc)) /\ Parse(doc)[<<"members", a>>].tree = TreesOf(doc, starts)
  BY <1>0, <1>2, <1>4, MembersTree
<1> QED BY <1>0, <1>1, <1>3, <1>5, FieldsOfStarts

----------------------------------------------------------------------------
(* What mcp_handle makes of a request. *)

\* The prover does not know that a string literal is in STRING, so those that
\* requests and calls are made of are added.
Words ==
    STRING \cup {"{", "}", "[", "]", "null", "id", "name", "method", "params", "arguments",
                "fields", "limit", "offset", "order", "attributes", "string", "type",
                "required", "#"}

\* The tokens of plain JSON text.
JsonTokens == [k : Kinds, v : Words, esc : {0}, num : Numerals]

\* Plain JSON text of an object.
IsRequest(doc) ==
    /\ doc \in Seq(JsonTokens)
    /\ WellFormed(doc)
    /\ doc[1].k = "object"

LEMMA PlainTyped ==
  ASSUME NEW doc \in Seq(JsonTokens)
  PROVE  /\ Len(doc) \in Nat /\ Tokens(doc) /\ PlainText(doc)
         /\ \A i \in 1..Len(doc) : doc[i] \in JsonTokens /\ doc[i].esc = 0
<1>1. Len(doc) \in Nat /\ \A i \in 1..Len(doc) : doc[i] \in JsonTokens
  OBVIOUS
<1>2. \A t \in JsonTokens : t.k \in Kinds /\ t.esc = 0
  BY DEF JsonTokens
<1> QED BY <1>1, <1>2 DEF Tokens, PlainText

LEMMA NoParseError ==
  ASSUME NEW doc, IsRequest(doc)
  PROVE  ~ParseError(doc) /\ 1 \in 1..Len(doc) /\ Parse(doc)[<<"value", 1>>].ok
<1> DEFINE s == At(2, 1)
           obj == Value("object", 1, 1)
           it == sj_iter_object(doc, s, obj)
           read == sj_read(doc, At(3, 1))
<1>1. Len(doc) \in Nat /\ Tokens(doc)
  BY PlainTyped DEF IsRequest
<1>2. Parse(doc)[<<"value", 1>>].ok /\ doc[1].k = "object" /\ 1 \in 1..(Len(doc) + 1)
  BY <1>1 DEF IsRequest, WellFormed
<1>3. 1 \in 1..Len(doc) /\ 2 \in 1..(Len(doc) + 1)
  <2>1. 1 \in 1..Len(doc)
    BY <1>1, <1>2, ParsedValue
  <2> QED BY <1>1, <2>1
<1>4. Parse(doc)[<<"members", 2>>].ok
  <2>1. Parse(doc)[<<"members", 1 + 1>>].ok
    BY <1>1, <1>2, ParsedValue DEF Scalars
  <2> QED BY <2>1
<1>5. sj_read(doc, At(1, 0)) = [r |-> At(1 + 1, 0 + 1), v |-> Value("object", 1, 0 + 1)]
  BY <1>1, <1>2, <1>3, ReadAt DEF Openings
<1>6. sj_reader(1) = At(1, 0)
  BY DEF sj_reader, At, Reader
<1>7. sj_read(doc, sj_reader(1)).r = s /\ sj_read(doc, sj_reader(1)).v = obj
  BY <1>5, <1>6
<1>8. s \in Readers(doc) /\ s.depth = 1 /\ obj.depth = 1 /\ obj.type = "object"
  <2>1. 1 \in Int
    OBVIOUS
  <2> QED BY <1>1, <1>3, <2>1, AtType DEF Value
<1>9. sj__discard_until(doc, s, 1) = s
  BY <1>1, <1>8, DiscardFollows
<1>10. /\ 2 \in 1..Len(doc)
       /\ doc[2].k = "string" => 3 \in 1..(Len(doc) + 1) /\ Parse(doc)[<<"value", 3>>].ok
  <2>1. /\ 2 \in 1..Len(doc)
        /\ doc[2].k = "string" => 2 + 1 \in 1..Len(doc) /\ Parse(doc)[<<"value", 2 + 1>>].ok
    BY <1>1, <1>3, <1>4, ParsedMembers
  <2> QED BY <1>1, <2>1
<1>11. \/ doc[2].k = "endobject" /\ it.r = At(2 + 1, 1 - 1)
       \/ doc[2].k = "string" /\ it.r = sj_read(doc, At(2 + 1, 1)).r
  <2>1. 1 \in Nat \ {0}
    OBVIOUS
  <2> HIDE DEF obj
  <2> QED BY <1>1, <1>3, <1>4, <1>8, <1>9, <2>1, OneMember
<1>12. ~it.r.error
  <2>1. CASE doc[2].k = "endobject" /\ it.r = At(2 + 1, 1 - 1)
    <3>1. ~At(2 + 1, 1 - 1).error
      BY DEF At, Reader
    <3> QED BY <2>1, <3>1
  <2>2. CASE doc[2].k = "string" /\ it.r = sj_read(doc, At(2 + 1, 1)).r
    <3>1. ~read.r.error
      <4>1. 1 \in Nat /\ 3 \in 1..(Len(doc) + 1) /\ Parse(doc)[<<"value", 3>>].ok
        BY <1>10, <2>2
      <4> QED BY <1>1, <4>1, AfterValue
    <3>2. 2 + 1 = 3
      OBVIOUS
    <3> QED BY <2>2, <3>1, <3>2
  <2> QED BY <1>11, <2>1, <2>2
<1> HIDE DEF s, obj
<1>13. ~ParseError(doc)
  BY <1>7, <1>8, <1>12 DEF ParseError
<1> QED BY <1>2, <1>3, <1>13

\* A string that a value denotes is the text that sj_eq compares.
LEMMA DenotedText ==
  ASSUME NEW doc \in Seq(JsonTokens), NEW v, NEW tree, Denotes(doc, v, tree), NEW w
  PROVE  v.type = "string" /\ sj_eq(doc, v, w) <=> tree = Means!Text(w)
<1>1. Len(doc) \in Nat /\ \A i \in 1..Len(doc) : doc[i].esc = 0
  BY PlainTyped
<1>2. CASE Have(v)
  <2> DEFINE i == v.start
  <2>1. /\ i \in 1..Len(doc) /\ i \in 1..(Len(doc) + 1) /\ v.type = doc[i].k
        /\ Parse(doc)[<<"value", i>>].ok /\ tree = Parse(doc)[<<"value", i>>].tree
        /\ v.type \in Scalars \cup Openings \cup {"string"} /\ tree[1] = TagOf(v.type)
    BY <1>1, <1>2, DenotedTag
  <2>2. doc[i].k \in Scalars \cup {"string"} => tree = Leaf(doc[i])
    BY <1>1, <2>1, TreeOfValue
  <2>3. Means!Text(w)[1] = "string" /\ Means!Text(w)[2] = w
    BY DEF Means!Text
  <2>4. TagOf(v.type) = "string" => v.type = "string"
    BY <2>1 DEF TagOf, Scalars, Openings
  <2>5. v.type = "string" => tree = <<"string", doc[i].v, 0>>
    BY <1>1, <2>1, <2>2 DEF Leaf, Decoded
  <2> HIDE DEF i
  <2>6. CASE v.type = "string"
    <3>1. tree = Means!Text(w) <=> doc[i].v = w
      BY <2>5, <2>6 DEF Means!Text
    <3>2. sj_eq(doc, v, w) <=> doc[i].v = w
      BY <1>1, <2>1 DEF sj_eq, i
    <3> QED BY <2>6, <3>1, <3>2
  <2>7. CASE v.type # "string"
    BY <2>1, <2>3, <2>4, <2>7
  <2> QED BY <2>6, <2>7
<1>3. CASE ~Have(v)
  <2>1. v.type = "null" /\ tree[1] = "absent"
    BY <1>1, <1>3, DenotedTag
  <2>2. Means!Text(w)[1] = "string"
    BY DEF Means!Text
  <2> QED BY <2>1, <2>2
<1> QED BY <1>2, <1>3

\* Writing a plain string again leaves it as it is.
LEMMA PlainAgain ==
  ASSUME NEW t \in JsonTokens
  PROVE  jbuf_sj_str(t) = t
BY DEF jbuf_sj_str, JsonTokens

LEMMA CopiesId ==
  ASSUME NEW doc \in Seq(JsonTokens), NEW v, NEW tree, Denotes(doc, v, tree)
  PROVE  Leaf(jbuf_id(doc, v)) = IF tree[1] \in {"number", "string"} THEN tree ELSE <<"nil">>
<1>1. Len(doc) \in Nat /\ \A i \in 1..Len(doc) : doc[i] \in JsonTokens
  BY PlainTyped
<1>2. Leaf(NullToken) = <<"nil">>
  BY DEF Leaf, NullToken, Token
<1>3. CASE Have(v)
  <2> DEFINE i == v.start
  <2>1. /\ i \in 1..Len(doc) /\ i \in 1..(Len(doc) + 1) /\ v.type = doc[i].k
        /\ Parse(doc)[<<"value", i>>].ok /\ tree = Parse(doc)[<<"value", i>>].tree
        /\ v.type \in Scalars \cup Openings \cup {"string"} /\ tree[1] = TagOf(v.type)
    BY <1>1, <1>3, DenotedTag
  <2>2. doc[i].k \in Scalars \cup {"string"} => tree = Leaf(doc[i])
    BY <1>1, <2>1, TreeOfValue
  <2>3. jbuf_sj_str(doc[i]) = doc[i]
    BY <1>1, <2>1, PlainAgain
  <2> HIDE DEF i
  <2>4. CASE v.type = "number"
    <3>1. tree[1] = "number" /\ tree = Leaf(doc[i])
      BY <2>1, <2>2, <2>4 DEF TagOf, Scalars
    <3>2. jbuf_id(doc, v) = doc[i]
      BY <2>4 DEF jbuf_id, i
    <3> QED BY <3>1, <3>2
  <2>5. CASE v.type = "string"
    <3>1. tree[1] = "string" /\ tree = Leaf(doc[i])
      BY <2>1, <2>2, <2>5 DEF TagOf
    <3>2. jbuf_id(doc, v) = doc[i]
      BY <2>3, <2>5 DEF jbuf_id, i
    <3> QED BY <3>1, <3>2
  <2>6. CASE v.type \notin {"number", "string"}
    <3>1. tree[1] \notin {"number", "string"}
      BY <2>1, <2>6 DEF TagOf, Scalars, Openings
    <3>2. jbuf_id(doc, v) = NullToken
      BY <2>6 DEF jbuf_id
    <3> QED BY <1>2, <3>1, <3>2
  <2> QED BY <2>4, <2>5, <2>6
<1>4. CASE ~Have(v)
  <2>1. v.type = "null" /\ tree[1] = "absent"
    <3>1. Len(doc) \in Nat /\ Denotes(doc, v, tree)
      BY <1>1
    <3>2. ~Have(v) => v.type = "null" /\ tree[1] = "absent"
      BY <3>1, DenotedTag
    <3> QED BY <1>4, <3>2
  <2>2. jbuf_id(doc, v) = NullToken
    BY <2>1 DEF jbuf_id
  <2> QED BY <1>2, <2>1, <2>2
<1> QED BY <1>3, <1>4

\* Every answer carries the id, and only three tools place a call.
LEMMA ToolOutcomes ==
  ASSUME NEW w, NEW doc, NEW members, NEW id
  PROVE  LET o == dispatch_tool(w, doc, members, id)
         IN  /\ o.id = id
             /\ o.kind = "call" => w \in {"search_read_records", "get_model_fields", "update_record"}
<1> DEFINE o == dispatch_tool(w, doc, members, id)
           Refuse == Outcome("tool_error", id, 0, NoCall)
           Good(x) == /\ x.id = id
                      /\ x.kind = "call" => w \in {"search_read_records", "get_model_fields", "update_record"}
<1>1. Good(Refuse)
  BY DEF Outcome
<1>2. ASSUME NEW m, NEW verb, NEW args, NEW kwargs,
             w \in {"search_read_records", "get_model_fields", "update_record"}
      PROVE  Good(Outcome("call", id, 0, Call(m, verb, args, kwargs)))
  BY <1>2 DEF Outcome
<1>4. EmptyValues(Field(doc, members, "values"))
  BY DEF EmptyValues, Span, Openings
<1> HIDE DEF Good, Refuse
<1>5. Good(o)
  <2>1. CASE ~Have(ModelField(doc, members))
    <3>1. o = Refuse
      BY <2>1 DEF dispatch_tool, Refuse
    <3> QED BY <1>1, <3>1
  <2>2. CASE Have(ModelField(doc, members)) /\ w = "search_read_records"
    <3>1. \E m, args, kwargs : o = Outcome("call", id, 0, Call(m, "search_read", args, kwargs))
      BY <2>2 DEF dispatch_tool
    <3> HIDE DEF o
    <3> QED BY <1>2, <2>2, <3>1
  <2>3. CASE Have(ModelField(doc, members)) /\ w = "get_model_fields"
    <3>1. \E m, args, kwargs : o = Outcome("call", id, 0, Call(m, "fields_get", args, kwargs))
      BY <2>3 DEF dispatch_tool
    <3> HIDE DEF o
    <3> QED BY <1>2, <2>3, <3>1
  <2>4. CASE Have(ModelField(doc, members)) /\ w = "create_record"
    <3>1. o = Refuse
      BY <1>4, <2>4 DEF dispatch_tool, Refuse
    <3> QED BY <1>1, <3>1
  <2>5. CASE Have(ModelField(doc, members)) /\ w = "update_record"
    <3>1. \/ o = Refuse
          \/ \E m, args, kwargs : o = Outcome("call", id, 0, Call(m, "write", args, kwargs))
      BY <2>5 DEF dispatch_tool, Refuse
    <3> HIDE DEF o
    <3> QED BY <1>1, <1>2, <2>5, <3>1
  <2>6. CASE /\ Have(ModelField(doc, members))
             /\ w \notin {"search_read_records", "get_model_fields", "create_record", "update_record"}
    <3>1. o = Refuse
      BY <2>6 DEF dispatch_tool, Refuse
    <3> QED BY <1>1, <3>1
  <2> QED BY <2>1, <2>2, <2>3, <2>4, <2>5, <2>6
<1> QED BY <1>5 DEF Good

LEMMA MethodOutcomes ==
  ASSUME NEW doc, NEW id, NEW verb, NEW params
  PROVE  LET o == HandleMethod(doc, id, verb, params)
             asked == /\ verb.type = "string" /\ sj_eq(doc, verb, "tools/call")
                      /\ params.type = "object"
         IN  /\ o.kind # "silent" => o.id = id
             /\ asked => o = tools_call(doc, MembersAt(doc, params.start), id)
             /\ ~asked => o.kind # "call"
<1> DEFINE o == HandleMethod(doc, id, verb, params)
           Is(w) == sj_eq(doc, verb, w)
           asked == verb.type = "string" /\ Is("tools/call") /\ params.type = "object"
           tools == tools_call(doc, MembersAt(doc, params.start), id)
<1>0. /\ Is("tools/call") => ~Is("initialize") /\ ~Is("tools/list")
      /\ Is("tools/call") => ~Is("notifications/initialized") /\ ~Is("initialized")
  BY DEF sj_eq
<1>1. ASSUME NEW code PROVE /\ Outcome("error", id, code, NoCall).id = id
                            /\ Outcome("error", id, code, NoCall).kind # "call"
  BY DEF Outcome
<1>2. /\ Outcome("result", id, 0, NoCall).id = id
      /\ Outcome("result", id, 0, NoCall).kind # "call"
      /\ Outcome("silent", NullToken, 0, NoCall).kind = "silent"
  BY DEF Outcome
<1>3. tools.id = id
  <2>1. tools = Outcome("error", id, -32602, NoCall)
          \/ \E w, members : tools = dispatch_tool(w, doc, members, id)
    BY DEF tools_call
  <2> HIDE DEF tools
  <2> QED BY <1>1, <2>1, ToolOutcomes
<1> HIDE DEF Is, tools
<1>4. \/ asked /\ o = tools
      \/ /\ ~asked
         /\ \/ \E code : o = Outcome("error", id, code, NoCall)
            \/ o = Outcome("result", id, 0, NoCall)
            \/ o = Outcome("silent", NullToken, 0, NoCall)
  <2>1. CASE verb.type # "string"
    <3>1. o = Outcome("error", id, -32600, NoCall)
      BY <2>1 DEF HandleMethod
    <3> HIDE DEF o
    <3> QED BY <2>1, <3>1
  <2>2. CASE verb.type = "string" /\ (Is("initialize") \/ Is("tools/list"))
    <3>0. ~Is("tools/call")
      BY <1>0, <2>2
    <3>1. o = Outcome("result", id, 0, NoCall)
      <4>1. CASE Is("initialize")
        BY <2>2, <3>0, <4>1 DEF HandleMethod, Is, sj_eq
      <4>2. CASE Is("tools/list")
        BY <2>2, <3>0, <4>2 DEF HandleMethod, Is, sj_eq
      <4> QED BY <2>2, <4>1, <4>2
    <3> HIDE DEF o
    <3> QED BY <1>0, <2>2, <3>1
  <2>3. CASE /\ verb.type = "string" /\ ~(Is("initialize") \/ Is("tools/list"))
             /\ Is("notifications/initialized") \/ Is("initialized")
    <3>1. o = Outcome("silent", NullToken, 0, NoCall)
      BY <1>0, <2>3 DEF HandleMethod, Is
    <3> HIDE DEF o
    <3> QED BY <1>0, <2>3, <3>1
  <2>4. CASE /\ verb.type = "string" /\ ~(Is("initialize") \/ Is("tools/list"))
             /\ ~(Is("notifications/initialized") \/ Is("initialized"))
             /\ ~Is("tools/call")
    <3>1. o = Outcome("error", id, -32601, NoCall)
      BY <2>4 DEF HandleMethod, Is
    <3> HIDE DEF o
    <3> QED BY <2>4, <3>1
  <2>5. CASE verb.type = "string" /\ Is("tools/call") /\ params.type # "object"
    <3>1. o = Outcome("error", id, -32602, NoCall)
      BY <1>0, <2>5 DEF HandleMethod, Is
    <3> HIDE DEF o
    <3> QED BY <2>5, <3>1
  <2>6. CASE asked
    <3>1. o = tools
      BY <1>0, <2>6 DEF HandleMethod, Is, tools
    <3> QED BY <2>6, <3>1
  <2> QED BY <2>1, <2>2, <2>3, <2>4, <2>5, <2>6
<1> HIDE DEF o
<1>5. /\ o.kind # "silent" => o.id = id
      /\ asked => o = tools
      /\ ~asked => o.kind # "call"
  BY <1>1, <1>2, <1>3, <1>4
<1> QED BY <1>5 DEF o, Is, tools

LEMMA DenotedObject ==
  ASSUME NEW doc \in Seq(JsonTokens), NEW v, NEW tree, Denotes(doc, v, tree)
  PROVE  /\ v.type = "object" <=> tree # Means!Absent /\ Means!IsObject(tree)
         /\ v.type = "object" => Fields(doc, MembersAt(doc, v.start), tree)
<1>1. Len(doc) \in Nat /\ Tokens(doc) /\ PlainText(doc)
  BY PlainTyped
<1>2. CASE Have(v)
  <2> DEFINE i == v.start
  <2>1. /\ i \in 1..Len(doc) /\ v.type = doc[i].k
        /\ Parse(doc)[<<"value", i>>].ok /\ tree = Parse(doc)[<<"value", i>>].tree
        /\ v.type \in Scalars \cup Openings \cup {"string"} /\ tree[1] = TagOf(v.type)
        /\ tree # Means!Absent
    BY <1>1, <1>2, DenotedTag
  <2>2. TagOf(v.type) = "struct" <=> v.type = "object"
    BY <2>1 DEF TagOf, Scalars, Openings
  <2> HIDE DEF i
  <2>3. v.type = "object" => Fields(doc, MembersAt(doc, i), tree)
    BY <1>1, <2>1, FieldsOfObject
  <2> QED BY <2>1, <2>2, <2>3 DEF Means!IsObject, i
<1>3. CASE ~Have(v)
  <2>1. v.type = "null" /\ tree = Means!Absent
    <3>1. Denotes(doc, v, tree)
      OBVIOUS
    <3>2. (~Have(v) => v.type = "null") /\ (Have(v) <=> tree # Means!Absent)
      BY <1>1, <3>1, DenotedTag
    <3> QED BY <1>3, <3>2
  <2> QED BY <2>1
<1> QED BY <1>2, <1>3

\* The request is read as it stands: no parse error, and its own members.
LEMMA RequestIsRead ==
  ASSUME NEW doc, IsRequest(doc)
  PROVE  /\ mcp_handle(doc) = HandleMembers(doc, MembersAt(doc, 1))
         /\ Fields(doc, MembersAt(doc, 1), JsonTree(doc))
<1>1. doc \in Seq(JsonTokens) /\ doc[1].k = "object"
  BY DEF IsRequest
<1>2. Tokens(doc) /\ PlainText(doc)
  BY <1>1, PlainTyped
<1>3. ~ParseError(doc) /\ 1 \in 1..Len(doc) /\ Parse(doc)[<<"value", 1>>].ok
  BY NoParseError
<1>4. mcp_handle(doc) = HandleMembers(doc, MembersAt(doc, 1))
  BY <1>3 DEF mcp_handle
<1>5. Fields(doc, MembersAt(doc, 1), Parse(doc)[<<"value", 1>>].tree)
  BY <1>1, <1>2, <1>3, FieldsOfObject
<1> QED BY <1>4, <1>5 DEF JsonTree

\* An answer carries the request's id.
LEMMA AnswersWithId ==
  ASSUME NEW doc, IsRequest(doc)
  PROVE  mcp_handle(doc).kind # "silent" => Leaf(mcp_handle(doc).id) = Means!AnswerId(JsonTree(doc))
<1> DEFINE m == MembersAt(doc, 1)
           v == Field(doc, m, "id")
           id == jbuf_id(doc, v)
           asks   == Field(doc, m, "method")
           params == Field(doc, m, "params")
           tree == Means!Member(JsonTree(doc), "id")
<1>1. mcp_handle(doc) = HandleMethod(doc, id, asks, params)
  BY RequestIsRead DEF HandleMembers
<1>2. Denotes(doc, v, tree) /\ doc \in Seq(JsonTokens)
  BY RequestIsRead DEF Fields, IsRequest
<1>3. Means!AnswerId(JsonTree(doc)) = IF tree[1] \in {"number", "string"} THEN tree ELSE <<"nil">>
  BY DEF Means!AnswerId
<1> HIDE DEF tree, v
<1>4. Leaf(id) = IF tree[1] \in {"number", "string"} THEN tree ELSE <<"nil">>
  BY <1>2, CopiesId
<1> HIDE DEF id, asks, params
<1>5. HandleMethod(doc, id, asks, params).kind # "silent"
        => HandleMethod(doc, id, asks, params).id = id
  BY MethodOutcomes
<1> QED BY <1>1, <1>3, <1>4, <1>5

\* Which tool a request names decides what is done with it.
LEMMA ToolCalled ==
  ASSUME NEW doc, IsRequest(doc)
  PROVE  LET h    == mcp_handle(doc)
             wanted == Means!Tool(JsonTree(doc))
         IN  /\ \A w : wanted = Means!Text(w) =>
                  \E members, id : /\ Fields(doc, members, Means!Arguments(JsonTree(doc)))
                                   /\ h = dispatch_tool(w, doc, members, id)
             /\ h.kind = "call" => \E w : wanted = Means!Text(w)
<1> DEFINE h == mcp_handle(doc)
           req == JsonTree(doc)
           m == MembersAt(doc, 1)
           id == jbuf_id(doc, Field(doc, m, "id"))
           asks == Field(doc, m, "method")
           params == Field(doc, m, "params")
           asked == asks.type = "string" /\ sj_eq(doc, asks, "tools/call") /\ params.type = "object"
           pm == MembersAt(doc, params.start)
           name == Field(doc, pm, "name")
           args == Field(doc, pm, "arguments")
           given == IF args.type = "object" THEN MembersAt(doc, args.start) ELSE <<>>
           named == Means!Member(Means!Params(req), "name")
<1>0. doc \in Seq(JsonTokens) /\ Len(doc) \in Nat /\ \A i \in 1..Len(doc) : doc[i].esc = 0
  BY PlainTyped DEF IsRequest
<1>1. h = HandleMethod(doc, id, asks, params) /\ Fields(doc, m, req)
  BY RequestIsRead DEF HandleMembers
<1>2. Denotes(doc, asks, Means!Method(req)) /\ Denotes(doc, params, Means!Params(req))
  BY <1>1 DEF Fields, Means!Method, Means!Params
<1> HIDE DEF req, asks, params
<1>3. asked <=> /\ Means!Method(req) = Means!Text("tools/call")
                /\ Means!Params(req) # Means!Absent /\ Means!IsObject(Means!Params(req))
  <2>1. asks.type = "string" /\ sj_eq(doc, asks, "tools/call")
          <=> Means!Method(req) = Means!Text("tools/call")
    BY <1>0, <1>2, DenotedText
  <2>2. params.type = "object" <=> Means!Params(req) # Means!Absent /\ Means!IsObject(Means!Params(req))
    BY <1>0, <1>2, DenotedObject
  <2> QED BY <2>1, <2>2
<1>4. /\ asked => Means!Tool(req) = named
      /\ ~asked => Means!Tool(req) = Means!Absent
  BY <1>3 DEF Means!Tool
<1>5. /\ asked => h = tools_call(doc, pm, id)
      /\ ~asked => h.kind # "call"
  <2> HIDE DEF h, id
  <2> QED BY <1>1, MethodOutcomes
<1>6. ASSUME asked
      PROVE  /\ Denotes(doc, name, named)
             /\ Denotes(doc, args, Means!Member(Means!Params(req), "arguments"))
  <2>1. Fields(doc, pm, Means!Params(req))
    BY <1>0, <1>2, <1>6, DenotedObject
  <2> HIDE DEF pm
  <2> QED BY <2>1 DEF Fields
<1>7. ASSUME asked PROVE Fields(doc, given, Means!Arguments(req))
  <2> DEFINE tree == Means!Member(Means!Params(req), "arguments")
  <2>1. Denotes(doc, args, tree)
    BY <1>6, <1>7
  <2>2. Means!Arguments(req) = IF tree # Means!Absent /\ Means!IsObject(tree) THEN tree
                               ELSE Means!EmptyObject
    BY DEF Means!Arguments
  <2>3. Means!EmptyObject[2] = <<>>
    BY DEF Means!EmptyObject
  <2> HIDE DEF tree, args
  <2>4. args.type = "object" <=> tree # Means!Absent /\ Means!IsObject(tree)
    BY <1>0, <2>1, DenotedObject
  <2>5. args.type = "object" => Fields(doc, MembersAt(doc, args.start), tree)
    BY <1>0, <2>1, DenotedObject
  <2>6. Fields(doc, <<>>, Means!EmptyObject)
    BY <2>3, NoFields
  <2> QED BY <2>2, <2>4, <2>5, <2>6
<1>8. ASSUME asked
      PROVE  /\ name.type = "string" => /\ h = dispatch_tool(doc[name.start].v, doc, given, id)
                                        /\ doc[name.start].esc = 0
             /\ name.type # "string" => h = Outcome("error", id, -32602, NoCall)
  <2>1. name.type = "string" => doc[name.start].esc = 0
    <3> HIDE DEF name
    <3>1. Denotes(doc, name, named)
      BY <1>6, <1>8 DEF name
    <3>2. ~Have(name) => name.type = "null"
      BY <1>0, <3>1, DenotedTag
    <3>3. Have(name) => name.start \in 1..Len(doc)
      BY <1>0, <3>1, DenotedTag
    <3> QED BY <1>0, <3>2, <3>3
  <2>2. h = tools_call(doc, pm, id)
    BY <1>5, <1>8
  <2> HIDE DEF h, id, pm
  <2> QED BY <2>1, <2>2 DEF tools_call
<1> HIDE DEF h, id, name, given, named
<1>9. ASSUME NEW w, Means!Tool(req) = Means!Text(w)
      PROVE  \E members, i : /\ Fields(doc, members, Means!Arguments(req))
                             /\ h = dispatch_tool(w, doc, members, i)
  <2>1. Means!Text(w) # Means!Absent
    <3>1. Means!Text(w)[1] # Means!Absent[1]
      BY DEF Means!Text, Means!Absent
    <3> QED BY <3>1
  <2>2. asked /\ named = Means!Text(w)
    BY <1>4, <1>9, <2>1
  <2>3. name.type = "string" /\ sj_eq(doc, name, w)
    <3>1. Denotes(doc, name, named)
      BY <1>6, <2>2
    <3>2. name.type = "string" /\ sj_eq(doc, name, w) <=> named = Means!Text(w)
      BY <1>0, <3>1, DenotedText
    <3> QED BY <2>2, <3>2
  <2>4. doc[name.start].v = w
    BY <2>3 DEF sj_eq
  <2>5. h = dispatch_tool(w, doc, given, id)
    BY <1>8, <2>2, <2>3, <2>4
  <2> QED BY <1>7, <2>2, <2>5
<1>10. ASSUME h.kind = "call"
       PROVE  \E w : Means!Tool(req) = Means!Text(w)
  <2>1. asked
    BY <1>5, <1>10
  <2>2. name.type = "string"
    <3>1. CASE h = Outcome("error", id, -32602, NoCall)
      <4>1. ASSUME NEW code
            PROVE  Outcome("error", id, code, NoCall).kind # "call"
        BY DEF Outcome
      <4> QED BY <1>10, <3>1, <4>1
    <3> QED BY <1>8, <2>1, <3>1
  <2>3. sj_eq(doc, name, doc[name.start].v)
    BY <1>8, <2>1, <2>2 DEF sj_eq
  <2>4. named = Means!Text(doc[name.start].v)
    <3>1. Denotes(doc, name, named)
      BY <1>6, <2>1
    <3>2. \A w : name.type = "string" /\ sj_eq(doc, name, w) <=> named = Means!Text(w)
      BY <1>0, <3>1, DenotedText
    <3> QED BY <2>2, <2>3, <3>2
  <2> QED BY <1>4, <2>1, <2>4
<1> QED BY <1>9, <1>10 DEF h, req

----------------------------------------------------------------------------
(* JSON text put together from JSON text. *)

\* s is the plain text of one value, and t its tree.
IsValue(s, t) == s \in Seq(JsonTokens) /\ WellFormed(s) /\ JsonTree(s) = t

CloseOf(w) == IF w = "members" THEN CloseObject ELSE CloseArray

Closed(w, s) == s \o <<CloseOf(w)>>

\* s is the plain text of an object's members or an array's items, without
\* the brackets, and t are their trees.
IsRest(w, s, t) ==
    /\ s \in Seq(JsonTokens)
    /\ LET p == Parse(Closed(w, s))[<<w, 1>>]
       IN  p.ok /\ p.next = Len(s) + 2 /\ p.tree = t

KeyValue(key, v, s) == <<key>> \o v \o s

\* Any token that is no number.
LEMMA TokenTyped ==
  ASSUME NEW k \in Kinds, NEW v \in Words
  PROVE  /\ Token(k, v) \in JsonTokens
         /\ Token(k, v).k = k /\ Token(k, v).v = v /\ Token(k, v).esc = 0
<1>1. Integer(0) \in Numerals
  BY DEF Integer, Numerals
<1> QED BY <1>1 DEF Token, JsonTokens

LEMMA Brackets ==
  /\ {OpenObject, CloseObject, OpenArray, CloseArray} \subseteq JsonTokens
  /\ OpenObject.k = "object" /\ CloseObject.k = "endobject"
  /\ OpenArray.k = "array" /\ CloseArray.k = "endarray"
<1>1. ASSUME NEW k \in Kinds, NEW v \in Words
      PROVE  Token(k, v) \in JsonTokens /\ Token(k, v).k = k
  BY TokenTyped
<1>2. {"object", "endobject", "array", "endarray"} \subseteq Kinds
  BY DEF Kinds, Openings, Closings
<1>3. OpenObject \in JsonTokens /\ OpenObject.k = "object"
  <2>1. "object" \in Kinds /\ "{" \in Words
    BY <1>2 DEF Words
  <2> QED BY <1>1, <2>1 DEF OpenObject
<1>4. CloseObject \in JsonTokens /\ CloseObject.k = "endobject"
  <2>1. "endobject" \in Kinds /\ "}" \in Words
    BY <1>2 DEF Words
  <2> QED BY <1>1, <2>1 DEF CloseObject
<1>5. OpenArray \in JsonTokens /\ OpenArray.k = "array"
  <2>1. "array" \in Kinds /\ "[" \in Words
    BY <1>2 DEF Words
  <2> QED BY <1>1, <2>1 DEF OpenArray
<1>6. CloseArray \in JsonTokens /\ CloseArray.k = "endarray"
  <2>1. "endarray" \in Kinds /\ "]" \in Words
    BY <1>2 DEF Words
  <2> QED BY <1>1, <2>1 DEF CloseArray
<1> QED BY <1>3, <1>4, <1>5, <1>6

LEMMA ClosedTyped ==
  ASSUME NEW w, NEW s \in Seq(JsonTokens)
  PROVE  /\ Closed(w, s) \in Seq(JsonTokens) /\ Len(s) \in Nat /\ Len(Closed(w, s)) = Len(s) + 1
         /\ \A i \in 1..Len(s) : Closed(w, s)[i] = s[i]
         /\ Closed(w, s)[Len(s) + 1] = CloseOf(w)
<1> DEFINE c == CloseOf(w)
<1>1. c \in JsonTokens
  BY Brackets DEF CloseOf
<1> HIDE DEF c
<1>2. /\ s \o <<c>> \in Seq(JsonTokens) /\ Len(s) \in Nat /\ Len(s \o <<c>>) = Len(s) + 1
      /\ \A i \in 1..Len(s) : (s \o <<c>>)[i] = s[i]
      /\ (s \o <<c>>)[Len(s) + 1] = c
  BY <1>1
<1> QED BY <1>2 DEF Closed, c

LEMMA RestEmpty ==
  ASSUME NEW w \in {"members", "items"}
  PROVE  IsRest(w, <<>>, <<>>)
<1> DEFINE e == <<>>
           D == Closed(w, e)
           p == Parse(D)[<<w, 1>>]
<1>1. e \in Seq(JsonTokens) /\ Len(e) = 0
  OBVIOUS
<1> HIDE DEF e
<1>2. Len(D) = 1 /\ D[1] = CloseOf(w)
  <2>1. Len(D) = Len(e) + 1 /\ D[Len(e) + 1] = CloseOf(w)
    BY <1>1, ClosedTyped
  <2> QED BY <1>1, <2>1
<1> HIDE DEF D
<1>3. Kind(D, 1) = IF w = "members" THEN "endobject" ELSE "endarray"
  BY <1>2, Brackets DEF Kind, CloseOf
<1>4. p = ParseAt(D, Parse(D), w, 1)
  <2>1. Len(D) \in Nat /\ 1 \in 1..(Len(D) + 1) /\ w \in Wants
    BY <1>2 DEF Wants
  <2> QED BY <2>1, ParseFollows
<1>5. p = Parsed(1 + 1, <<>>, <<>>)
  <2>1. CASE w = "members"
    BY <1>3, <1>4, <2>1 DEF ParseAt, Scalars, Openings
  <2>2. CASE w = "items"
    BY <1>3, <1>4, <2>2 DEF ParseAt, Scalars, Openings
  <2> QED BY <2>1, <2>2
<1>6. p.ok /\ p.next = 2 /\ p.tree = <<>>
  BY <1>5 DEF Parsed
<1> HIDE DEF p
<1>7. IsRest(w, e, <<>>)
  BY <1>1, <1>6 DEF IsRest, p, D
<1> QED BY <1>7 DEF e

\* All of E stands in D, from token k on.
StandsIn(E, D, k) ==
    \A m \in 1..Len(E) : m + (k - 1) \in 1..Len(D) /\ D[m + (k - 1)] = E[m]

\* E is parsed from its front to its end.
Whole(E, w) ==
    E \in Seq(JsonTokens) /\ Parse(E)[<<w, 1>>].ok /\ Parse(E)[<<w, 1>>].next = Len(E) + 1

\* What is parsed in E from its front to its end is parsed in D where E stands.
LEMMA ParsedInPlace ==
  ASSUME NEW w \in Wants, NEW D \in Seq(JsonTokens), NEW E, Whole(E, w), NEW k \in Nat \ {0},
         StandsIn(E, D, k)
  PROVE  /\ k \in 1..Len(D)
         /\ Parse(D)[<<w, k>>].ok
         /\ Parse(D)[<<w, k>>].next = Len(E) + k
         /\ Parse(D)[<<w, k>>].tree = Parse(E)[<<w, 1>>].tree
<1> DEFINE i == k - 1
<1>0. E \in Seq(JsonTokens) /\ Parse(E)[<<w, 1>>].ok /\ Parse(E)[<<w, 1>>].next = Len(E) + 1
  BY DEF Whole
<1>1. Len(D) \in Nat /\ Len(E) \in Nat /\ 1 \in 1..(Len(E) + 1) /\ i \in Int
  BY <1>0, PlainTyped
<1>4. 1 + i = k /\ (Len(E) + 1) + i = Len(E) + k
  BY <1>1
<1>5. \A m \in 1..Len(E) : m + i \in 1..Len(D) /\ D[m + i] = E[m]
  BY DEF StandsIn
<1> HIDE DEF i
<1>2. Shifts(D, E, i, w, 1)
  BY <1>1, ParseIsLocal
<1>3. Alike(D, E, i, 1, Parse(E)[<<w, 1>>].next)
  <2>1. \A m \in 1..((Len(E) + 1) - 1) : m \in 1..Len(E)
    BY <1>1
  <2> QED BY <1>0, <1>5, <2>1 DEF Alike
<1> QED BY <1>0, <1>2, <1>3, <1>4 DEF Shifts

LEMMA ValueInPlace ==
  ASSUME NEW D \in Seq(JsonTokens), NEW s, NEW t, IsValue(s, t), NEW k \in Nat \ {0},
         StandsIn(s, D, k)
  PROVE  /\ k \in 1..Len(D)
         /\ Parse(D)[<<"value", k>>].ok
         /\ Parse(D)[<<"value", k>>].next = Len(s) + k
         /\ Parse(D)[<<"value", k>>].tree = t
<1> DEFINE w == "value"
<1>1. Whole(s, w) /\ Parse(s)[<<w, 1>>].tree = t /\ w \in Wants
  BY DEF IsValue, WellFormed, JsonTree, Wants, Whole
<1> HIDE DEF w
<1>2. /\ k \in 1..Len(D) /\ Parse(D)[<<w, k>>].ok
      /\ Parse(D)[<<w, k>>].next = Len(s) + k
      /\ Parse(D)[<<w, k>>].tree = Parse(s)[<<w, 1>>].tree
  BY <1>1, ParsedInPlace
<1> QED BY <1>1, <1>2 DEF w

LEMMA RestInPlace ==
  ASSUME NEW w \in {"members", "items"}, NEW D \in Seq(JsonTokens), NEW s, NEW t, IsRest(w, s, t),
         NEW k \in Nat \ {0}, StandsIn(s, D, k), Len(s) + k \in 1..Len(D), D[Len(s) + k] = CloseOf(w)
  PROVE  /\ k \in 1..Len(D)
         /\ Parse(D)[<<w, k>>].ok
         /\ Parse(D)[<<w, k>>].next = (Len(s) + 1) + k
         /\ Parse(D)[<<w, k>>].tree = t
<1> DEFINE E == Closed(w, s)
<1>1. s \in Seq(JsonTokens)
  BY DEF IsRest
<1>2. /\ E \in Seq(JsonTokens) /\ Len(s) \in Nat /\ Len(E) = Len(s) + 1
      /\ \A m \in 1..Len(s) : E[m] = s[m]
      /\ E[Len(s) + 1] = CloseOf(w)
  BY <1>1, ClosedTyped
<1>3. Parse(E)[<<w, 1>>].ok /\ Parse(E)[<<w, 1>>].next = Len(s) + 2 /\ Parse(E)[<<w, 1>>].tree = t
  BY DEF IsRest
<1> HIDE DEF E
<1>4. StandsIn(E, D, k)
  <2> SUFFICES ASSUME NEW m \in 1..Len(E)
               PROVE  m + (k - 1) \in 1..Len(D) /\ D[m + (k - 1)] = E[m]
    BY DEF StandsIn
  <2>1. m \in 1..Len(s) \/ m = Len(s) + 1
    BY <1>2
  <2>2. (Len(s) + 1) + (k - 1) = Len(s) + k
    BY <1>2
  <2> QED BY <1>2, <2>1, <2>2 DEF StandsIn
<1>5. w \in Wants /\ Whole(E, w)
  BY <1>2, <1>3 DEF Wants, Whole
<1>6. /\ k \in 1..Len(D) /\ Parse(D)[<<w, k>>].ok
      /\ Parse(D)[<<w, k>>].next = Len(E) + k
      /\ Parse(D)[<<w, k>>].tree = Parse(E)[<<w, 1>>].tree
  BY <1>4, <1>5, ParsedInPlace
<1> QED BY <1>2, <1>3, <1>6

\* A member more, in front.
LEMMA MemberFirst ==
  ASSUME NEW key \in JsonTokens, key.k = "string", NEW v, NEW u, IsValue(v, u),
         NEW s, NEW t, IsRest("members", s, t)
  PROVE  IsRest("members", KeyValue(key, v, s), Put(<<key.v, 0, u>>, t))
<1> DEFINE all == <<key>> \o v \o s
           D == Closed("members", all)
           e == Len(v) + 1
           p == Parse(D)[<<"members", 1>>]
           value == Parse(D)[<<"value", 2>>]
           rest == Parse(D)[<<"members", e + 1>>]
<1>1. v \in Seq(JsonTokens) /\ s \in Seq(JsonTokens)
  BY DEF IsValue, IsRest
<1>2. /\ Len(v) \in Nat /\ Len(s) \in Nat
      /\ all \in Seq(JsonTokens) /\ Len(all) = (Len(v) + 1) + Len(s) /\ all[1] = key
      /\ \A m \in 1..Len(v) : all[m + 1] = v[m]
      /\ \A m \in 1..Len(s) : all[m + (Len(v) + 1)] = s[m]
  BY <1>1
<1>3. /\ D \in Seq(JsonTokens) /\ Len(D) = Len(all) + 1
      /\ \A i \in 1..Len(all) : D[i] = all[i]
      /\ D[Len(all) + 1] = CloseOf("members")
  BY <1>2, ClosedTyped
<1> HIDE DEF all, D
<1>4. value.ok /\ value.next = e + 1 /\ value.tree = u
  <2> DEFINE k == 2
  <2>1. StandsIn(v, D, k) /\ k \in Nat \ {0}
    BY <1>2, <1>3 DEF StandsIn
  <2> HIDE DEF k
  <2>2. /\ Parse(D)[<<"value", k>>].ok
        /\ Parse(D)[<<"value", k>>].next = Len(v) + k
        /\ Parse(D)[<<"value", k>>].tree = u
    BY <1>3, <2>1, ValueInPlace
  <2> QED BY <1>2, <2>2 DEF k
<1>5. rest.ok /\ rest.next = Len(all) + 2 /\ rest.tree = t
  <2> DEFINE k == e + 1
             w == "members"
  <2>1. StandsIn(s, D, k)
    <3>1. k - 1 = e
      BY <1>2
    <3>2. \A m \in 1..Len(s) : m + e \in 1..Len(D) /\ D[m + e] = s[m]
      BY <1>2, <1>3
    <3> HIDE DEF k, e
    <3> QED BY <3>1, <3>2 DEF StandsIn
  <2>2. /\ Len(s) + k = Len(all) + 1 /\ k \in Nat \ {0}
        /\ w \in {"members", "items"} /\ IsRest(w, s, t) /\ (Len(s) + 1) + k = Len(all) + 2
    BY <1>2, <1>3
  <2>3. Len(s) + k \in 1..Len(D) /\ D[Len(s) + k] = CloseOf(w)
    BY <1>2, <1>3, <2>2
  <2> HIDE DEF e, k, w
  <2>4. /\ Parse(D)[<<w, k>>].ok
        /\ Parse(D)[<<w, k>>].next = (Len(s) + 1) + k
        /\ Parse(D)[<<w, k>>].tree = t
    BY <1>3, <2>1, <2>2, <2>3, RestInPlace
  <2> QED BY <2>2, <2>4 DEF k, w
<1>6. p = ParseAt(D, Parse(D), "members", 1)
  <2>1. Len(D) \in Nat /\ 1 \in 1..(Len(D) + 1) /\ "members" \in Wants
    BY <1>2, <1>3 DEF Wants
  <2> QED BY <2>1, ParseFollows
<1>7. D[1] = key /\ Kind(D, 1) = "string" /\ key.esc = 0
  BY <1>2, <1>3 DEF Kind, JsonTokens
<1>8. p = Parsed(rest.next, <<<<D[1].v, Decoded(D[1].esc), u>>>> \o t, <<<<1, 2>>>> \o rest.starts)
  <2>1. 1 + 1 = 2
    OBVIOUS
  <2> DEFINE f == e + 1
  <2>2. value.next = f /\ Parse(D)[<<"members", f>>].ok
    BY <1>4, <1>5
  <2>3. p = Parsed(Parse(D)[<<"members", f>>].next,
                   <<<<D[1].v, Decoded(D[1].esc), value.tree>>>> \o Parse(D)[<<"members", f>>].tree,
                   <<<<1, 2>>>> \o Parse(D)[<<"members", f>>].starts)
    <3> HIDE DEF f, p
    <3> QED BY <1>4, <1>6, <1>7, <2>1, <2>2 DEF ParseAt, Scalars, Openings
  <2> HIDE DEF p, value
  <2> QED BY <1>4, <1>5, <2>3
<1>9. p.ok /\ p.next = rest.next /\ p.tree = Put(<<key.v, 0, u>>, t)
  <2>1. p.ok /\ p.next = rest.next /\ p.tree = <<<<D[1].v, Decoded(D[1].esc), u>>>> \o t
    <3> HIDE DEF rest
    <3> QED BY <1>8 DEF Parsed
  <2> HIDE DEF p, rest
  <2> QED BY <1>7, <2>1 DEF Put, Decoded
<1>10. rest.next = Len(all) + 2
  BY <1>2, <1>5
<1> HIDE DEF p, rest
<1>11. IsRest("members", all, Put(<<key.v, 0, u>>, t))
  BY <1>2, <1>9, <1>10 DEF IsRest, p, D
<1> QED BY <1>11 DEF all, KeyValue

\* An item more, in front.
LEMMA ItemFirst ==
  ASSUME NEW v, NEW u, IsValue(v, u), NEW s, NEW t, IsRest("items", s, t)
  PROVE  IsRest("items", v \o s, Put(u, t))
<1> DEFINE all == v \o s
           D == Closed("items", all)
           e == Len(v)
           p == Parse(D)[<<"items", 1>>]
           value == Parse(D)[<<"value", 1>>]
           rest == Parse(D)[<<"items", e + 1>>]
<1>1. v \in Seq(JsonTokens) /\ s \in Seq(JsonTokens)
  BY DEF IsValue, IsRest
<1>2. /\ Len(v) \in Nat /\ Len(s) \in Nat
      /\ all \in Seq(JsonTokens) /\ Len(all) = Len(v) + Len(s)
      /\ \A m \in 1..Len(v) : all[m] = v[m]
      /\ \A m \in 1..Len(s) : all[m + Len(v)] = s[m]
  BY <1>1
<1>3. /\ D \in Seq(JsonTokens) /\ Len(D) = Len(all) + 1
      /\ \A i \in 1..Len(all) : D[i] = all[i]
      /\ D[Len(all) + 1] = CloseOf("items")
  BY <1>2, ClosedTyped
<1> HIDE DEF all, D
<1>4. value.ok /\ value.next = e + 1 /\ value.tree = u
  <2> DEFINE k == 1
  <2>1. StandsIn(v, D, k) /\ k \in Nat \ {0}
    BY <1>2, <1>3 DEF StandsIn
  <2> HIDE DEF k
  <2>2. /\ Parse(D)[<<"value", k>>].ok
        /\ Parse(D)[<<"value", k>>].next = Len(v) + k
        /\ Parse(D)[<<"value", k>>].tree = u
    BY <1>3, <2>1, ValueInPlace
  <2> QED BY <1>2, <2>2 DEF k
<1>5. rest.ok /\ rest.next = Len(all) + 2 /\ rest.tree = t
  <2> DEFINE k == e + 1
             w == "items"
  <2>1. StandsIn(s, D, k)
    <3>1. k - 1 = e
      BY <1>2
    <3>2. \A m \in 1..Len(s) : m + e \in 1..Len(D) /\ D[m + e] = s[m]
      BY <1>2, <1>3
    <3> HIDE DEF k, e
    <3> QED BY <3>1, <3>2 DEF StandsIn
  <2>2. /\ Len(s) + k = Len(all) + 1 /\ k \in Nat \ {0}
        /\ w \in {"members", "items"} /\ IsRest(w, s, t) /\ (Len(s) + 1) + k = Len(all) + 2
    BY <1>2, <1>3
  <2>3. Len(s) + k \in 1..Len(D) /\ D[Len(s) + k] = CloseOf(w)
    BY <1>2, <1>3, <2>2
  <2> HIDE DEF e, k, w
  <2>4. /\ Parse(D)[<<w, k>>].ok
        /\ Parse(D)[<<w, k>>].next = (Len(s) + 1) + k
        /\ Parse(D)[<<w, k>>].tree = t
    BY <1>3, <2>1, <2>2, <2>3, RestInPlace
  <2> QED BY <2>2, <2>4 DEF k, w
<1>6. p = ParseAt(D, Parse(D), "items", 1)
  <2>1. Len(D) \in Nat /\ 1 \in 1..(Len(D) + 1) /\ "items" \in Wants
    BY <1>2, <1>3 DEF Wants
  <2> QED BY <2>1, ParseFollows
<1>7. Kind(D, 1) \in Scalars \cup Openings \cup {"string"}
  <2>1. Len(D) \in Nat /\ 1 \in 1..(Len(D) + 1)
    BY <1>2, <1>3
  <2>2. 1 \in 1..Len(D) /\ D[1].k \in Scalars \cup Openings \cup {"string"}
    BY <1>4, <2>1, TreeOfValue
  <2> QED BY <2>2 DEF Kind
<1>8. p = Parsed(rest.next, <<u>> \o t, <<>>)
  <2> DEFINE f == e + 1
  <2>2. value.next = f /\ Parse(D)[<<"items", f>>].ok
    BY <1>4, <1>5
  <2>3. p = Parsed(Parse(D)[<<"items", f>>].next,
                   <<value.tree>> \o Parse(D)[<<"items", f>>].tree, <<>>)
    <3> HIDE DEF f, p
    <3> QED BY <1>4, <1>6, <1>7, <2>2 DEF ParseAt, Scalars, Openings
  <2> HIDE DEF p, value
  <2> QED BY <1>4, <1>5, <2>3
<1>9. p.ok /\ p.next = rest.next /\ p.tree = Put(u, t)
  <2>1. p.ok /\ p.next = rest.next /\ p.tree = <<u>> \o t
    <3> HIDE DEF rest
    <3> QED BY <1>8 DEF Parsed
  <2> HIDE DEF p, rest
  <2> QED BY <2>1 DEF Put
<1>10. rest.next = Len(all) + 2
  BY <1>2, <1>5
<1> HIDE DEF p, rest
<1>11. IsRest("items", all, Put(u, t))
  BY <1>2, <1>9, <1>10 DEF IsRest, p, D
<1> QED BY <1>11 DEF all

Bracketed(w, s) ==
    <<IF w = "members" THEN OpenObject ELSE OpenArray>> \o s \o <<CloseOf(w)>>

\* Members in braces are an object, and items in brackets an array.
LEMMA BracketedIsValue ==
  ASSUME NEW w \in {"members", "items"}, NEW s, NEW t, IsRest(w, s, t)
  PROVE  IsValue(Bracketed(w, s), <<IF w = "members" THEN "struct" ELSE "array", t>>)
<1> DEFINE open  == IF w = "members" THEN OpenObject ELSE OpenArray
           close == CloseOf(w)
           tag   == IF w = "members" THEN "struct" ELSE "array"
           D == <<open>> \o s \o <<close>>
           p == Parse(D)[<<"value", 1>>]
           rest == Parse(D)[<<w, 2>>]
<1>1. s \in Seq(JsonTokens) /\ open \in JsonTokens /\ close \in JsonTokens
  BY Brackets DEF IsRest, CloseOf
<1>2. \/ open.k = "object" /\ tag = "struct" /\ w = "members"
      \/ open.k = "array" /\ tag = "array" /\ w = "items"
  BY Brackets
<1> HIDE DEF open, close, tag
<1>3. /\ D \in Seq(JsonTokens) /\ Len(s) \in Nat /\ Len(D) = Len(s) + 2
      /\ D[1] = open /\ D[Len(s) + 2] = close
      /\ \A m \in 1..Len(s) : m + 1 \in 1..Len(D) /\ D[m + 1] = s[m]
  BY <1>1
<1> HIDE DEF D
<1>4. rest.ok /\ rest.next = (Len(s) + 1) + 2 /\ rest.tree = t
  <2> DEFINE k == 2
  <2>1. StandsIn(s, D, k)
    BY <1>3 DEF StandsIn
  <2>2. /\ k \in Nat \ {0} /\ Len(s) + k \in 1..Len(D) /\ D[Len(s) + k] = CloseOf(w)
        /\ w \in {"members", "items"} /\ IsRest(w, s, t) /\ D \in Seq(JsonTokens)
    BY <1>3 DEF close
  <2> HIDE DEF k
  <2>3. Parse(D)[<<w, k>>].ok /\ Parse(D)[<<w, k>>].next = (Len(s) + 1) + k /\ Parse(D)[<<w, k>>].tree = t
    BY <2>1, <2>2, RestInPlace
  <2> QED BY <2>3 DEF k
<1>5. p = ParseAt(D, Parse(D), "value", 1)
  <2>1. Len(D) \in Nat /\ 1 \in 1..(Len(D) + 1) /\ "value" \in Wants
    BY <1>3 DEF Wants
  <2> QED BY <2>1, ParseFollows
<1>6. Kind(D, 1) = open.k
  BY <1>3 DEF Kind
<1>7. p = Container(tag, rest)
  <2>1. 1 + 1 = 2
    OBVIOUS
  <2>2. CASE open.k = "object" /\ tag = "struct" /\ w = "members"
    BY <1>5, <1>6, <2>1, <2>2 DEF ParseAt, Scalars
  <2>3. CASE open.k = "array" /\ tag = "array" /\ w = "items"
    BY <1>5, <1>6, <2>1, <2>3 DEF ParseAt, Scalars
  <2> QED BY <1>2, <2>2, <2>3
<1>8. p.ok /\ p.next = rest.next /\ p.tree = <<tag, rest.tree>>
  <2> HIDE DEF rest
  <2>1. p = Parsed(rest.next, <<tag, rest.tree>>, <<>>)
    BY <1>4, <1>7 DEF Container
  <2> HIDE DEF p
  <2> QED BY <2>1 DEF Parsed
<1>9. p.ok /\ p.next = Len(D) + 1 /\ p.tree = <<tag, t>>
  BY <1>3, <1>4, <1>8
<1> HIDE DEF p
<1>10. IsValue(D, <<tag, t>>)
  BY <1>3, <1>9 DEF IsValue, WellFormed, JsonTree, p
<1> QED BY <1>10 DEF D, Bracketed, open, close, tag

LEMMA TokenIsValue ==
  ASSUME NEW x \in JsonTokens, x.k \in Scalars \cup {"string"}
  PROVE  IsValue(<<x>>, Leaf(x))
<1> DEFINE D == <<x>>
           p == Parse(D)[<<"value", 1>>]
<1>1. D \in Seq(JsonTokens) /\ Len(D) = 1 /\ D[1] = x
  OBVIOUS
<1> HIDE DEF D
<1>2. p = ParseAt(D, Parse(D), "value", 1)
  <2>1. Len(D) \in Nat /\ 1 \in 1..(Len(D) + 1) /\ "value" \in Wants
    BY <1>1 DEF Wants
  <2> QED BY <2>1, ParseFollows
<1>3. p = Parsed(1 + 1, Leaf(x), <<>>)
  BY <1>1, <1>2 DEF ParseAt, Kind, Scalars
<1>4. p.ok /\ p.next = Len(D) + 1 /\ p.tree = Leaf(x)
  BY <1>1, <1>3 DEF Parsed
<1> HIDE DEF p
<1>5. IsValue(D, Leaf(x))
  BY <1>1, <1>4 DEF IsValue, WellFormed, JsonTree, p
<1> QED BY <1>5 DEF D

\* Trees of members are a sequence.
LEMMA TreesAreSeq ==
  ASSUME NEW s, NEW t, IsRest("members", s, t)
  PROVE  \E X : t \in Seq(X)
<1> DEFINE D == Closed("members", s)
           starts == Parse(D)[<<"members", 1>>].starts
           X == {MemberTree(D, x) : x \in Places(D)}
<1>1. s \in Seq(JsonTokens) /\ Parse(D)[<<"members", 1>>].ok /\ Parse(D)[<<"members", 1>>].tree = t
  BY DEF IsRest
<1>2. Len(D) \in Nat /\ 1 \in 1..(Len(D) + 1)
  <2>1. Len(s) \in Nat /\ Len(D) = Len(s) + 1
    BY <1>1, ClosedTyped
  <2> HIDE DEF D
  <2> QED BY <2>1
<1> HIDE DEF D
<1>3. starts \in Seq(Places(D)) /\ t = TreesOf(D, starts)
  BY <1>1, <1>2, MembersTree
<1> HIDE DEF starts
<1>4. t \in Seq(X)
  <2>1. Len(starts) \in Nat /\ \A m \in 1..Len(starts) : starts[m] \in Places(D)
    BY <1>3
  <2>2. t = [m \in 1..Len(starts) |-> MemberTree(D, starts[m])]
    BY <1>3 DEF TreesOf
  <2> QED BY <2>1, <2>2
<1> QED BY <1>4

\* Members followed by members are members.
LEMMA MembersJoin ==
  ASSUME NEW a, NEW t, IsRest("members", a, t), NEW b, NEW u, IsRest("members", b, u)
  PROVE  IsRest("members", a \o b, t \o u)
<1> DEFINE E == Closed("members", a)
           both == a \o b
           D == Closed("members", both)
           n == Len(a)
           x(j) == Parse(E)[<<"members", j>>]
           y(j) == Parse(D)[<<"members", j>>]
           Good(j) == x(j).ok /\ x(j).next = n + 2 =>
                        y(j).ok /\ y(j).next = Len(both) + 2 /\ y(j).tree = x(j).tree \o u
           S == {low \in 1..(n + 1) : \A j \in low..(n + 1) : Good(j)}
<1>0. a \in Seq(JsonTokens) /\ b \in Seq(JsonTokens)
  BY DEF IsRest
<1>1. /\ both \in Seq(JsonTokens) /\ n \in Nat /\ Len(b) \in Nat /\ Len(both) = n + Len(b)
      /\ \A m \in 1..n : both[m] = a[m]
      /\ \A m \in 1..Len(b) : both[m + n] = b[m]
  BY <1>0
<1>2. /\ E \in Seq(JsonTokens) /\ Len(E) = n + 1 /\ \A m \in 1..n : E[m] = a[m]
      /\ E[n + 1] = CloseObject
  BY <1>0, ClosedTyped DEF CloseOf
<1> HIDE DEF both
<1>3. /\ D \in Seq(JsonTokens) /\ Len(D) = Len(both) + 1 /\ \A m \in 1..Len(both) : D[m] = both[m]
      /\ D[Len(both) + 1] = CloseObject
  BY <1>1, ClosedTyped DEF CloseOf
<1>4. x(1).ok /\ x(1).next = n + 2 /\ x(1).tree = t
  BY DEF IsRest
<1>5. \E X : u \in Seq(X)
  BY TreesAreSeq
<1> HIDE DEF E, D, n
<1>6. /\ Len(D) = (n + Len(b)) + 1 /\ Len(both) + 2 = (Len(b) + 1) + (n + 1)
      /\ \A m \in 1..n : m \in 1..Len(D) /\ m \in 1..Len(E) /\ D[m] = E[m]
  <2>1. /\ n \in Nat /\ Len(b) \in Nat /\ Len(both) = n + Len(b)
        /\ Len(D) = Len(both) + 1 /\ Len(E) = n + 1
    BY <1>1, <1>2, <1>3
  <2>2. \A m \in 1..n : m \in 1..Len(both) /\ m \in 1..Len(D) /\ m \in 1..Len(E)
    BY <2>1
  <2>3. \A m \in 1..n : D[m] = both[m] /\ both[m] = a[m] /\ E[m] = a[m]
    BY <1>1, <1>2, <1>3, <2>2
  <2>4. Len(D) = (n + Len(b)) + 1 /\ Len(both) + 2 = (Len(b) + 1) + (n + 1)
    BY <2>1
  <2> QED BY <2>2, <2>3, <2>4
<1>7. y(n + 1).ok /\ y(n + 1).next = Len(both) + 2 /\ y(n + 1).tree = u
  <2> DEFINE k == n + 1
             w == "members"
  <2>1. StandsIn(b, D, k)
    <3>1. k - 1 = n
      BY <1>1
    <3>2. \A m \in 1..Len(b) : m + n \in 1..Len(D) /\ D[m + n] = b[m]
      BY <1>1, <1>3
    <3> HIDE DEF k
    <3> QED BY <3>1, <3>2 DEF StandsIn
  <2>2. /\ k \in Nat \ {0} /\ Len(b) + k \in 1..Len(D) /\ D[Len(b) + k] = CloseOf(w)
        /\ w \in {"members", "items"} /\ IsRest(w, b, u) /\ (Len(b) + 1) + k = Len(both) + 2
    <3>1. Len(b) + k = Len(both) + 1
      BY <1>1
    <3> QED BY <1>1, <1>3, <1>6, <3>1 DEF CloseOf
  <2> HIDE DEF k, w
  <2>3. Parse(D)[<<w, k>>].ok /\ Parse(D)[<<w, k>>].next = (Len(b) + 1) + k /\ Parse(D)[<<w, k>>].tree = u
    BY <1>3, <2>1, <2>2, RestInPlace
  <2> QED BY <2>2, <2>3 DEF k, w
<1>8. n + 1 \in S
  <2>1. Good(n + 1)
    <3> SUFFICES ASSUME x(n + 1).ok PROVE y(n + 1).tree = x(n + 1).tree \o u
      BY <1>7
    <3>1. n + 1 \in 1..(Len(E) + 1) /\ Len(E) \in Nat
      BY <1>1, <1>2
    <3>2. E[n + 1].k = "endobject"
      BY <1>2, Brackets
    <3> DEFINE k == n + 1
    <3> HIDE DEF k
    <3>3. x(k) = Parsed(k + 1, <<>>, <<>>)
      <4>1. k \in 1..(Len(E) + 1) /\ E[k].k = "endobject" /\ Parse(E)[<<"members", k>>].ok
        BY <3>1, <3>2 DEF k
      <4> QED BY <3>1, <4>1, ParsedMembers
    <3>4. x(k).tree = <<>>
      BY <3>3 DEF Parsed
    <3>5. <<>> \o u = u
      BY <1>5
    <3> HIDE DEF x, y
    <3> QED BY <1>7, <3>4, <3>5 DEF k
  <2> HIDE DEF Good
  <2>2. (n + 1)..(n + 1) = {n + 1} /\ n + 1 \in 1..(n + 1)
    BY <1>1
  <2> QED BY <2>1, <2>2
<1>9. ASSUME NEW k \in 1..n, k + 1 \in S PROVE k \in S
  <2>1. ASSUME x(k).ok, x(k).next = n + 2
        PROVE  y(k).ok /\ y(k).next = Len(both) + 2 /\ y(k).tree = x(k).tree \o u
    <3> DEFINE c == k + 1
               v == Parse(E)[<<"value", c>>]
               e == v.next
    <3>0. k \in 1..(Len(E) + 1) /\ Len(E) \in Nat /\ Len(D) \in Nat /\ k \in 1..(Len(D) + 1)
          /\ c \in Nat /\ k \in Nat /\ n + 1 = Len(E) /\ n \in Nat
      BY <1>1, <1>2, <1>6
    <3>1. /\ E[k].k = "string" /\ c \in 1..Len(E) /\ v.ok /\ e \in (k + 2)..(Len(E) + 1)
          /\ x(e).ok /\ x(k) = MembersFrom(E, k)
      <4>1. \/ x(k) = Parsed(k + 1, <<>>, <<>>)
            \/ /\ E[k].k = "string" /\ c \in 1..Len(E) /\ v.ok /\ e \in (k + 2)..(Len(E) + 1)
               /\ x(e).ok /\ x(k) = MembersFrom(E, k)
        BY <2>1, <3>0, ParsedMembers
      <4>2. x(k) # Parsed(k + 1, <<>>, <<>>)
        <5>1. Parsed(k + 1, <<>>, <<>>).next = k + 1 /\ k + 1 # n + 2
          BY <3>0 DEF Parsed
        <5> HIDE DEF x
        <5> QED BY <2>1, <5>1
      <4> QED BY <4>1, <4>2
    <3>2. e \in c..(n + 1) /\ e \in (k + 1)..(n + 1)
      <4>1. e \in 1..(Len(E) + 1)
        BY <3>0, <3>1
      <4>2. e \in 1..Len(E)
        <5> HIDE DEF e
        <5> QED BY <3>0, <3>1, <4>1, ParsedMembers
      <4> QED BY <3>0, <3>1, <4>2
    <3> DEFINE one == <<E[k].v, Decoded(E[k].esc), v.tree>>
    <3>3. x(k).next = x(e).next /\ x(k).tree = <<one>> \o x(e).tree
      <4>1. MembersFrom(E, k).next = x(e).next /\ MembersFrom(E, k).tree = <<one>> \o x(e).tree
        BY DEF MembersFrom, Parsed
      <4> HIDE DEF x, one, e
      <4> QED BY <3>1, <4>1
    <3>4. y(e).ok /\ y(e).next = Len(both) + 2 /\ y(e).tree = x(e).tree \o u
      <4>1. Good(e)
        <5> HIDE DEF Good, e
        <5> QED BY <1>9, <3>2
      <4> HIDE DEF x, y, e
      <4> QED BY <2>1, <3>1, <3>3, <4>1
    <3> DEFINE v2 == Parse(D)[<<"value", c>>]
    <3>5. v2.ok /\ v2.next = e /\ v2.tree = v.tree
      <4> DEFINE w == "value"
                 i == 0
      <4>1. Alike(D, E, i, c, e)
        <5> HIDE DEF e
        <5>1. \A m \in c..(e - 1) : m \in 1..n /\ m + i = m
          BY <3>0, <3>2
        <5> QED BY <1>6, <5>1 DEF Alike
      <4>2. c + i = c /\ e + i = e /\ i \in Int /\ w \in Wants /\ c \in 1..(Len(E) + 1)
        BY <3>0, <3>1, <3>2 DEF Wants
      <4> HIDE DEF w, i, c
      <4>3. Shifts(D, E, i, w, c)
        BY <3>0, <4>2, ParseIsLocal
      <4> QED BY <3>1, <4>1, <4>2, <4>3 DEF Shifts, w
    <3>6. D[k] = E[k] /\ Kind(D, k) = "string"
      BY <1>6, <3>1 DEF Kind
    <3>7. y(k) = ParseAt(D, Parse(D), "members", k)
      BY <3>0, ParseFollows DEF Wants
    <3>8. y(k) = Parsed(y(e).next, <<one>> \o y(e).tree, <<<<k, c>>>> \o y(e).starts)
      <4> DEFINE q == Parse(D)[<<"members", e>>]
      <4>1. y(k) = Parsed(q.next, <<<<D[k].v, Decoded(D[k].esc), v2.tree>>>> \o q.tree,
                          <<<<k, c>>>> \o q.starts)
        <5>1. v2.next = e /\ q.ok /\ v2.ok
          BY <3>4, <3>5
        <5> HIDE DEF e, y
        <5> QED BY <3>6, <3>7, <5>1 DEF ParseAt, Scalars, Openings
      <4>2. <<D[k].v, Decoded(D[k].esc), v2.tree>> = one
        BY <3>5, <3>6
      <4> HIDE DEF one, e, y, v2
      <4>3. y(e) = q
        BY DEF y
      <4> QED BY <4>1, <4>2, <4>3
    <3> HIDE DEF one, x, y, e
    <3>9. y(k).ok /\ y(k).next = y(e).next /\ y(k).tree = <<one>> \o y(e).tree
      BY <3>8 DEF Parsed
    <3>10. <<one>> \o (x(e).tree \o u) = (<<one>> \o x(e).tree) \o u
      <4>1. \E X : x(e).tree \in Seq(X)
        <5> DEFINE starts == Parse(E)[<<"members", e>>].starts
        <5>1. e \in 1..(Len(E) + 1)
          BY <3>0, <3>2
        <5>2. starts \in Seq(Places(E)) /\ x(e).tree = TreesOf(E, starts)
          BY <3>0, <3>1, <5>1, MembersTree DEF x
        <5> HIDE DEF starts
        <5>3. Len(starts) \in Nat /\ \A m \in 1..Len(starts) : starts[m] \in Places(E)
          BY <5>2
        <5>4. x(e).tree = [m \in 1..Len(starts) |-> MemberTree(E, starts[m])]
          BY <5>2 DEF TreesOf
        <5>5. x(e).tree \in Seq({MemberTree(E, z) : z \in Places(E)})
          BY <5>3, <5>4
        <5> QED BY <5>5
      <4> DEFINE f == x(e).tree
      <4> HIDE DEF f
      <4>2. PICK X : f \in Seq(X)
        BY <4>1 DEF f
      <4>3. PICK Y : u \in Seq(Y)
        BY <1>5
      <4> DEFINE Z == (X \cup Y) \cup {one}
      <4>4. f \in Seq(Z) /\ u \in Seq(Z) /\ <<one>> \in Seq(Z)
        BY <4>2, <4>3
      <4> HIDE DEF Z
      <4>5. (<<one>> \o f) \o u = <<one>> \o (f \o u)
        BY <4>4, ConcatAssociative
      <4> QED BY <4>5 DEF f
    <3> QED BY <3>3, <3>4, <3>9, <3>10
  <2>2. Good(k)
    BY <2>1
  <2> HIDE DEF Good
  <2>3. \A j \in k..(n + 1) : j = k \/ j \in (k + 1)..(n + 1)
    BY <1>1
  <2>4. k \in 1..(n + 1)
    BY <1>1
  <2> QED BY <1>9, <2>2, <2>3, <2>4
<1>10. Good(1)
  <2> HIDE DEF Good
  <2> DEFINE h == n + 1
  <2>1. h \in Nat /\ h \in S /\ \A k \in 1..(h - 1) : k + 1 \in S => k \in S
    <3>1. \A k \in 1..((n + 1) - 1) : k \in 1..n
      BY <1>1
    <3> HIDE DEF S
    <3> QED BY <1>1, <1>8, <1>9, <3>1
  <2>2. 1 \in S
    <3>1. 1 \in 1..h
      BY <1>1
    <3> HIDE DEF S, h
    <3>2. \A k \in 1..h : k \in S
      BY <2>1, Downwards
    <3> QED BY <3>1, <3>2
  <2>3. 1 \in 1..(n + 1)
    BY <1>1
  <2> QED BY <2>2, <2>3
<1>11. y(1).ok /\ y(1).next = Len(both) + 2 /\ y(1).tree = t \o u
  <2> HIDE DEF x, y
  <2> QED BY <1>4, <1>10
<1>12. IsRest("members", both, t \o u)
  BY <1>1, <1>11 DEF IsRest, D
<1> QED BY <1>12 DEF both

----------------------------------------------------------------------------
(* The document a client posts is a request, and this is its tree. *)

LEMMA TwoTokens ==
  ASSUME NEW x, NEW y
  PROVE  <<x>> \o <<y>> = <<x, y>>
<1> DEFINE a == <<x>>
           b == <<y>>
           c == a \o b
           d == <<x, y>>
           T == {x, y}
<1>1. a \in Seq(T) /\ b \in Seq(T) /\ Len(a) = 1 /\ Len(b) = 1 /\ a[1] = x /\ b[1] = y
  OBVIOUS
<1>2. d \in Seq(T) /\ Len(d) = 2 /\ d[1] = x /\ d[2] = y
  OBVIOUS
<1> HIDE DEF a, b, d, T
<1>3. c \in Seq(T) /\ Len(c) = 2 /\ c[1] = x /\ c[2] = y
  <2>1. a \in Seq(T) /\ b \in Seq(T)
    BY <1>1
  <2>2. /\ c \in Seq(T) /\ Len(c) = Len(a) + Len(b)
        /\ \A i \in 1..(Len(a) + Len(b)) : c[i] = IF i <= Len(a) THEN a[i] ELSE b[i - Len(a)]
    BY <2>1, ConcatProperties
  <2> HIDE DEF c
  <2>3. c \in Seq(T) /\ Len(c) = 2 /\ c[1] = a[1] /\ c[2] = b[1]
    BY <1>1, <2>2
  <2> QED BY <1>1, <2>3
<1> HIDE DEF c
<1>4. \A m \in 1..Len(c) : c[m] = d[m]
  BY <1>2, <1>3
<1>5. c = d
  BY <1>2, <1>3, <1>4, SeqEqual
<1> QED BY <1>5 DEF a, b, c, d

LEMMA Regroup ==
  ASSUME NEW a \in Seq(JsonTokens), NEW b \in Seq(JsonTokens), NEW c \in Seq(JsonTokens)
  PROVE  (a \o b) \o c = a \o (b \o c)
BY ConcatAssociative

LEMMA ObjectMember ==
  ASSUME NEW key \in JsonTokens, key.k = "string", NEW s, NEW t, IsRest("members", s, t)
  PROVE  IsRest("members", <<key, OpenObject>> \o s \o <<CloseObject>>,
                <<<<key.v, 0, <<"struct", t>>>>>>)
<1> DEFINE w == "members"
           object == Bracketed(w, s)
           tree == <<"struct", t>>
           e == <<>>
           one == <<key.v, 0, tree>>
<1>1. IsValue(object, tree)
  <2>1. w \in {"members", "items"} /\ IsRest(w, s, t)
    OBVIOUS
  <2>2. tree = <<IF w = "members" THEN "struct" ELSE "array", t>>
    OBVIOUS
  <2> HIDE DEF w, tree
  <2> QED BY <2>1, <2>2, BracketedIsValue
<1>2. IsRest("members", e, e)
  BY RestEmpty
<1>3. object = <<OpenObject>> \o s \o <<CloseObject>>
  BY DEF Bracketed, CloseOf
<1>4. s \in Seq(JsonTokens) /\ object \in Seq(JsonTokens)
  BY <1>1 DEF IsRest, IsValue
<1> HIDE DEF object, tree, e
<1>5. IsRest("members", KeyValue(key, object, e), Put(<<key.v, 0, tree>>, e))
  BY <1>1, <1>2, MemberFirst
<1>6. KeyValue(key, object, e) = <<key, OpenObject>> \o s \o <<CloseObject>>
  <2>1. KeyValue(key, object, e) = <<key>> \o object
    <3>1. <<key>> \o object \in Seq(JsonTokens)
      BY <1>4
    <3> QED BY <3>1 DEF KeyValue, e
  <2> DEFINE o == OpenObject
             c == CloseObject
  <2>2. o \in JsonTokens /\ c \in JsonTokens
    BY Brackets
  <2> HIDE DEF o, c
  <2>3. <<key>> \o (<<o>> \o s \o <<c>>) = <<key, o>> \o s \o <<c>>
    <3> DEFINE a == <<key>>
               b == <<o>>
               z == <<c>>
    <3>1. a \in Seq(JsonTokens) /\ b \in Seq(JsonTokens) /\ z \in Seq(JsonTokens)
      BY <2>2
    <3>2. a \o b = <<key, o>>
      BY TwoTokens
    <3> HIDE DEF a, b, z
    <3>3. b \o s \in Seq(JsonTokens) /\ a \o b \in Seq(JsonTokens)
      BY <1>4, <3>1
    <3>4. a \o ((b \o s) \o z) = (a \o (b \o s)) \o z
      BY <3>1, <3>3, Regroup
    <3>5. a \o (b \o s) = (a \o b) \o s
      BY <1>4, <3>1, Regroup
    <3> QED BY <3>2, <3>4, <3>5 DEF a, b, z
  <2> QED BY <1>3, <2>1, <2>3 DEF o, c
<1> HIDE DEF one
<1>7. Put(one, e) = <<one>>
  BY DEF Put, e
<1> QED BY <1>5, <1>6, <1>7 DEF one, tree

LEMMA LeafMember ==
  ASSUME NEW key \in JsonTokens, key.k = "string", NEW x \in JsonTokens, x.k \in Scalars \cup {"string"}
  PROVE  IsRest("members", <<key, x>>, <<<<key.v, 0, Leaf(x)>>>>)
<1> DEFINE v == <<x>>
           tree == Leaf(x)
           e == <<>>
           one == <<key.v, 0, tree>>
<1>1. IsValue(v, tree)
  BY TokenIsValue
<1>2. IsRest("members", e, e)
  BY RestEmpty
<1>3. KeyValue(key, v, e) = <<key, x>>
  <2> DEFINE z == <<key, x>>
  <2>1. <<key>> \o <<x>> = z
    BY TwoTokens
  <2>2. z \in Seq(JsonTokens)
    OBVIOUS
  <2> HIDE DEF z
  <2>3. z \o <<>> = z
    BY <2>2
  <2> QED BY <2>1, <2>3 DEF KeyValue, z
<1> HIDE DEF v, tree, e
<1>4. IsRest("members", KeyValue(key, v, e), Put(<<key.v, 0, tree>>, e))
  BY <1>1, <1>2, MemberFirst
<1> HIDE DEF one
<1>5. Put(one, e) = <<one>>
  BY DEF Put, e
<1> QED BY <1>3, <1>4, <1>5 DEF one, tree

LEMMA StrTyped ==
  ASSUME NEW s \in Words
  PROVE  /\ Str(s) \in JsonTokens /\ Str(s).k = "string" /\ Str(s).v = s
         /\ Leaf(Str(s)) = Means!Text(s)
<1>1. Str(s) \in JsonTokens /\ Str(s).k = "string" /\ Str(s).v = s /\ Str(s).esc = 0
  <2>1. "string" \in Kinds
    BY DEF Kinds
  <2> QED BY <2>1, TokenTyped DEF Str
<1>2. Leaf(Str(s)) = <<"string", s, 0>>
  <2> DEFINE x == Str(s)
  <2> HIDE DEF x
  <2>1. x.k = "string" /\ x.v = s /\ x.esc = 0
    BY <1>1 DEF x
  <2>2. Leaf(x) = <<"string", x.v, Decoded(x.esc)>>
    BY <2>1 DEF Leaf
  <2>3. Decoded(x.esc) = 0
    BY <2>1 DEF Decoded
  <2> QED BY <2>1, <2>2, <2>3 DEF x
<1> QED BY <1>1, <1>2 DEF Means!Text

\* A limit and an offset are integers.
IsInteger(tree) == tree[1] = "number" /\ tree[2] = "int"

Numbered(t) == \A m \in 1..Len(t) : t[m][1] \in {"limit", "offset"} => IsInteger(t[m][3])

LEMMA PlainIsJson ==
  ASSUME NEW s \in Seq(PlainTokens)
  PROVE  s \in Seq(JsonTokens)
<1>1. PlainTokens \subseteq JsonTokens
  BY DEF PlainTokens, JsonTokens, Words
<1> QED BY <1>1, SeqMonotonic

LEMMA OneArgument ==
  ASSUME NEW member, IsArgument(member)
  PROVE  \E t : IsRest("members", member, t) /\ Numbered(t) /\ Len(t) \in Nat
<1> DEFINE key == member[1]
           v == Tail(member)
           e == <<>>
           tree == JsonTree(v)
           one == <<key.v, 0, tree>>
<1>1. /\ member \in Seq(JsonTokens) /\ Len(member) \in Nat /\ Len(member) > 1 /\ key.k = "string"
      /\ WellFormed(v)
      /\ key.v \in {"limit", "offset"} => member[2].k = "number" /\ member[2].num.form = "int"
  BY PlainIsJson DEF IsArgument
<1>2. key \in JsonTokens /\ v \in Seq(JsonTokens) /\ Len(v) = Len(member) - 1
      /\ \A m \in 1..Len(v) : v[m] = member[m + 1]
  BY <1>1
<1>3. KeyValue(key, v, e) = member
  <2> HIDE DEF v, key
  <2>1. /\ <<key>> \o v \in Seq(JsonTokens) /\ Len(<<key>> \o v) = Len(member)
        /\ (<<key>> \o v)[1] = key /\ \A m \in 2..Len(member) : (<<key>> \o v)[m] = v[m - 1]
    BY <1>1, <1>2
  <2> DEFINE z == <<key>> \o v
  <2>2. z \o e = z
    <3> HIDE DEF z
    <3>1. z \in Seq(JsonTokens)
      BY <2>1 DEF z
    <3> QED BY <3>1
  <2> HIDE DEF z
  <2>3. \A m \in 1..Len(z) : z[m] = member[m]
    <3> SUFFICES ASSUME NEW m \in 1..Len(z) PROVE z[m] = member[m]
      OBVIOUS
    <3>1. CASE m = 1
      BY <2>1, <3>1 DEF z, key
    <3>2. CASE m # 1
      <4>1. m \in 2..Len(member) /\ m - 1 \in 1..Len(v) /\ (m - 1) + 1 = m
        BY <1>1, <1>2, <2>1, <3>2 DEF z
      <4>2. z[m] = v[m - 1] /\ v[m - 1] = member[(m - 1) + 1]
        BY <1>2, <2>1, <4>1 DEF z
      <4> QED BY <4>1, <4>2
    <3> QED BY <3>1, <3>2
  <2>4. z = member
    BY <1>1, <2>1, <2>3, SeqEqual DEF z
  <2> QED BY <2>2, <2>4 DEF KeyValue, z
<1>4. IsValue(v, tree) /\ IsRest("members", e, e)
  BY <1>1, <1>2, RestEmpty DEF IsValue
<1>5. key.v \in {"limit", "offset"} => IsInteger(tree)
  <2> SUFFICES ASSUME key.v \in {"limit", "offset"} PROVE IsInteger(tree)
    OBVIOUS
  <2>1. 1 \in 1..(Len(v) + 1) /\ Len(v) \in Nat /\ Parse(v)[<<"value", 1>>].ok
        /\ v[1].k = "number" /\ v[1].num.form = "int"
    BY <1>1, <1>2 DEF WellFormed
  <2> HIDE DEF v
  <2>2. v[1].k \in Scalars
    BY <2>1 DEF Scalars
  <2>3. Parse(v)[<<"value", 1>>].tree = Leaf(v[1])
    BY <2>1, <2>2, TreeOfValue
  <2>4. Leaf(v[1]) = Number(v[1].num)
    BY <2>1 DEF Leaf
  <2>5. Number(v[1].num) = <<"number", "int", v[1].num.lead>>
    BY <2>1 DEF Number
  <2> QED BY <2>3, <2>4, <2>5 DEF JsonTree, IsInteger
<1> HIDE DEF key, v, e, tree
<1>6. IsRest("members", KeyValue(key, v, e), Put(<<key.v, 0, tree>>, e))
  BY <1>1, <1>2, <1>4, MemberFirst DEF key
<1>7. Numbered(<<one>>) /\ Len(<<one>>) = 1
  BY <1>5 DEF Numbered
<1> HIDE DEF one
<1>8. Put(one, e) = <<one>>
  BY DEF Put, e
<1> QED BY <1>3, <1>6, <1>7, <1>8 DEF one

\* Every argument added is one: the arguments stay the members of an object.
RequestInv ==
    /\ rid \in Ids /\ method \in MethodNames /\ tool \in Tools /\ flipped \in BOOLEAN
    /\ \E t : IsRest("members", arguments, t) /\ Numbered(t)

\* The inductive invariant of requests.
LEMMA ArgumentsAreMembers == Spec => []RequestInv
<1>1. Init => RequestInv
  <2> SUFFICES ASSUME Init PROVE RequestInv
    OBVIOUS
  <2> DEFINE e == <<>>
  <2>1. IsRest("members", e, e)
    BY RestEmpty
  <2>2. Numbered(e)
    BY DEF Numbered
  <2> HIDE DEF e
  <2>3. arguments = e
    BY DEF Init, e
  <2> QED BY <2>1, <2>2, <2>3 DEF Init, RequestInv
<1>2. RequestInv /\ [Next]_vars => RequestInv'
  <2> SUFFICES ASSUME RequestInv, [Next]_vars PROVE RequestInv'
    OBVIOUS
  <2>1. CASE UNCHANGED vars
    BY <2>1 DEF vars, RequestInv
  <2>2. ASSUME NEW member \in ArgumentMembers, AddArgument(member) PROVE RequestInv'
    <3>1. PICK t : IsRest("members", arguments, t) /\ Numbered(t)
      BY DEF RequestInv
    <3>2. PICK u : IsRest("members", member, u) /\ Numbered(u) /\ Len(u) \in Nat
      BY RequestAssumption, OneArgument
    <3>3. IsRest("members", arguments \o member, t \o u)
      BY <3>1, <3>2, MembersJoin
    <3>4. Numbered(t \o u)
      <4>1. PICK X : t \in Seq(X)
        BY <3>1, TreesAreSeq
      <4>2. PICK Y : u \in Seq(Y)
        BY <3>2, TreesAreSeq
      <4> DEFINE Z == X \cup Y
                 z == t \o u
      <4>3. t \in Seq(Z) /\ u \in Seq(Z)
        BY <4>1, <4>2
      <4> HIDE DEF Z
      <4>4. /\ Len(t) \in Nat /\ Len(u) \in Nat /\ Len(z) = Len(t) + Len(u)
            /\ \A m \in 1..Len(t) : z[m] = t[m]
            /\ \A m \in (Len(t) + 1)..Len(z) : m - Len(t) \in 1..Len(u) /\ z[m] = u[m - Len(t)]
        BY <4>3
      <4> HIDE DEF z
      <4>5. ASSUME NEW m \in 1..Len(z), z[m][1] \in {"limit", "offset"} PROVE IsInteger(z[m][3])
        <5>1. m \in 1..Len(t) \/ m \in (Len(t) + 1)..Len(z)
          BY <4>4
        <5> QED BY <3>1, <3>2, <4>4, <4>5, <5>1 DEF Numbered
      <4> QED BY <4>5 DEF Numbered, z
    <3>5. arguments' = arguments \o member /\ UNCHANGED <<rid, method, tool, flipped>>
      BY <2>2 DEF AddArgument
    <3> DEFINE z == t \o u
    <3> HIDE DEF z
    <3>6. IsRest("members", arguments', z) /\ Numbered(z)
      BY <3>3, <3>4, <3>5 DEF z
    <3> QED BY <3>5, <3>6 DEF RequestInv
  <2> QED BY <2>1, <2>2 DEF Next
<1> QED BY <1>1, <1>2, PTL DEF Spec

NameTree == <<"name", 0, Means!Text(tool)>>
ArgumentsTree(t) == <<"arguments", 0, <<"struct", t>>>>
ParamsTree(t) == <<"params", 0, <<"struct", InOrder(<<NameTree>>, <<ArgumentsTree(t)>>)>>>>
MethodTree == <<"method", 0, Means!Text(method)>>
IdTrees == IF rid = NoId THEN <<>> ELSE <<<<"id", 0, Leaf(rid)>>>>
RequestTree(t) == <<"struct", InOrder(IdTrees \o <<MethodTree>>, <<ParamsTree(t)>>)>>

LEMMA InAnyOrder ==
  ASSUME flipped \in BOOLEAN, NEW a, NEW t, IsRest("members", a, t), NEW b, NEW u, IsRest("members", b, u)
  PROVE  IsRest("members", InOrder(a, b), InOrder(t, u))
<1>1. IsRest("members", a \o b, t \o u) /\ IsRest("members", b \o a, u \o t)
  BY MembersJoin
<1>2. CASE flipped
  <2>1. InOrder(a, b) = b \o a /\ InOrder(t, u) = u \o t
    BY <1>2 DEF InOrder
  <2> QED BY <1>1, <2>1
<1>3. CASE ~flipped
  <2>1. InOrder(a, b) = a \o b /\ InOrder(t, u) = t \o u
    BY <1>3 DEF InOrder
  <2> QED BY <1>1, <2>1
<1> QED BY <1>2, <1>3

LEMMA DocumentIsRequest ==
  ASSUME RequestInv, NEW t, IsRest("members", arguments, t)
  PROVE  IsRequest(Document) /\ JsonTree(Document) = RequestTree(t)
<1> DEFINE args   == <<Str("arguments"), OpenObject>> \o arguments \o <<CloseObject>>
           name   == <<Str("name"), Str(tool)>>
           inside == InOrder(name, args)
           params == <<Str("params"), OpenObject>> \o inside \o <<CloseObject>>
           ids    == IF rid = NoId THEN <<>> ELSE <<Str("id"), rid>>
           asks   == <<Str("method"), Str(method)>>
           head   == ids \o asks
           all    == InOrder(head, params)
<1>0. flipped \in BOOLEAN /\ tool \in Words /\ method \in Words
      /\ (rid = NoId \/ (rid \in JsonTokens /\ rid.k \in Scalars \cup {"string"}))
  <2>1. tool \in STRING /\ method \in STRING
    BY RequestAssumption DEF RequestInv
  <2>2. rid = NoId \/ (rid \in PlainTokens /\ rid.k \in Scalars \cup {"string"})
    BY RequestAssumption DEF RequestInv
  <2>3. PlainTokens \subseteq JsonTokens
    BY DEF PlainTokens, JsonTokens, Words
  <2> QED BY <2>1, <2>2, <2>3 DEF Words, RequestInv
<1>1. {"arguments", "name", "params", "id", "method"} \subseteq Words
  BY DEF Words
<1>2. IsRest("members", args, <<ArgumentsTree(t)>>)
  <2> DEFINE key == Str("arguments")
  <2>1. key \in JsonTokens /\ key.k = "string" /\ key.v = "arguments"
    BY <1>1, StrTyped
  <2> HIDE DEF key
  <2>2. IsRest("members", <<key, OpenObject>> \o arguments \o <<CloseObject>>,
               <<<<key.v, 0, <<"struct", t>>>>>>)
    BY <2>1, ObjectMember
  <2> QED BY <2>1, <2>2 DEF key, ArgumentsTree
<1>3. ASSUME NEW k \in Words, NEW s \in Words
      PROVE  IsRest("members", <<Str(k), Str(s)>>, <<<<k, 0, Means!Text(s)>>>>)
  <2> DEFINE key == Str(k)
             x == Str(s)
  <2>1. /\ key \in JsonTokens /\ key.k = "string" /\ key.v = k
        /\ x \in JsonTokens /\ x.k \in Scalars \cup {"string"} /\ Leaf(x) = Means!Text(s)
    BY StrTyped
  <2> HIDE DEF key, x
  <2>2. IsRest("members", <<key, x>>, <<<<key.v, 0, Leaf(x)>>>>)
    BY <2>1, LeafMember
  <2> QED BY <2>1, <2>2 DEF key, x
<1>4. IsRest("members", name, <<NameTree>>)
  BY <1>0, <1>1, <1>3 DEF NameTree
<1>5. IsRest("members", asks, <<MethodTree>>)
  BY <1>0, <1>1, <1>3 DEF MethodTree
<1>6. IsRest("members", ids, IdTrees)
  <2>1. CASE rid = NoId
    <3>1. ids = <<>> /\ IdTrees = <<>>
      BY <2>1 DEF IdTrees
    <3>2. IsRest("members", <<>>, <<>>)
      BY RestEmpty
    <3> HIDE DEF ids
    <3> QED BY <3>1, <3>2
  <2>2. CASE rid # NoId
    <3> DEFINE key == Str("id")
    <3>1. key \in JsonTokens /\ key.k = "string" /\ key.v = "id"
      BY <1>1, StrTyped
    <3>2. ids = <<key, rid>> /\ IdTrees = <<<<"id", 0, Leaf(rid)>>>>
      BY <2>2 DEF IdTrees
    <3> HIDE DEF key, ids
    <3>3. IsRest("members", <<key, rid>>, <<<<key.v, 0, Leaf(rid)>>>>)
      BY <1>0, <2>2, <3>1, LeafMember
    <3> QED BY <3>1, <3>2, <3>3
  <2> QED BY <2>1, <2>2
<1> HIDE DEF args, name, asks, ids
<1>7. IsRest("members", inside, InOrder(<<NameTree>>, <<ArgumentsTree(t)>>))
  <2> DEFINE x == <<NameTree>>
             y == <<ArgumentsTree(t)>>
  <2>1. IsRest("members", name, x) /\ IsRest("members", args, y)
    BY <1>2, <1>4
  <2> HIDE DEF x, y
  <2>2. IsRest("members", InOrder(name, args), InOrder(x, y))
    BY <1>0, <2>1, InAnyOrder
  <2> QED BY <2>2 DEF x, y
<1> DEFINE within == InOrder(<<NameTree>>, <<ArgumentsTree(t)>>)
<1> HIDE DEF inside, within
<1>8. IsRest("members", params, <<ParamsTree(t)>>)
  <2> DEFINE key == Str("params")
  <2>1. key \in JsonTokens /\ key.k = "string" /\ key.v = "params"
    BY <1>1, StrTyped
  <2> HIDE DEF key
  <2>2. IsRest("members", inside, within)
    BY <1>7 DEF within
  <2>3. IsRest("members", <<key, OpenObject>> \o inside \o <<CloseObject>>,
               <<<<key.v, 0, <<"struct", within>>>>>>)
    BY <2>1, <2>2, ObjectMember
  <2> QED BY <2>1, <2>3 DEF key, ParamsTree, within
<1>9. IsRest("members", head, IdTrees \o <<MethodTree>>)
  <2> DEFINE y == <<MethodTree>>
  <2>1. IsRest("members", asks, y)
    BY <1>5
  <2> HIDE DEF y
  <2>2. IsRest("members", ids \o asks, IdTrees \o y)
    BY <1>6, <2>1, MembersJoin
  <2> QED BY <2>2 DEF y
<1> DEFINE headTree == IdTrees \o <<MethodTree>>
           restTree == <<ParamsTree(t)>>
<1> HIDE DEF head, params, headTree, restTree
<1>10. IsRest("members", InOrder(head, params), InOrder(headTree, restTree))
  <2>1. IsRest("members", head, headTree) /\ IsRest("members", params, restTree)
    BY <1>8, <1>9 DEF headTree, restTree
  <2> QED BY <1>0, <2>1, InAnyOrder
<1>11. Document = <<OpenObject>> \o all \o <<CloseObject>>
  BY DEF Document, args, name, asks, ids, head, params, inside
<1> DEFINE allTree == InOrder(headTree, restTree)
<1>12. IsValue(Document, <<"struct", allTree>>)
  <2> DEFINE w == "members"
             D == Bracketed(w, all)
  <2>1. D = <<OpenObject>> \o all \o <<CloseObject>>
    BY DEF Bracketed, CloseOf
  <2>2. w \in {"members", "items"} /\ IsRest(w, all, allTree)
    BY <1>10
  <2> HIDE DEF all, allTree, D
  <2>3. IsValue(Bracketed(w, all), <<IF w = "members" THEN "struct" ELSE "array", allTree>>)
    <3> HIDE DEF w
    <3> QED BY <2>2, BracketedIsValue
  <2> QED BY <1>11, <2>1, <2>3 DEF D
<1>13. Document[1].k = "object"
  <2>1. all \in Seq(JsonTokens)
    BY <1>10 DEF IsRest
  <2> DEFINE o == OpenObject
             c == CloseObject
  <2>2. o \in JsonTokens /\ c \in JsonTokens /\ o.k = "object"
    BY Brackets
  <2> HIDE DEF o, c, all
  <2>3. (<<o>> \o all \o <<c>>)[1] = o
    BY <2>1, <2>2
  <2>4. Document = <<o>> \o all \o <<c>>
    BY <1>11 DEF o, c
  <2> QED BY <2>2, <2>3, <2>4
<1>14. RequestTree(t) = <<"struct", allTree>>
  BY DEF RequestTree, headTree, restTree
<1> HIDE DEF allTree
<1> QED BY <1>12, <1>13, <1>14 DEF IsRequest, IsValue

\* mcp_handle answers every request, in whatever order its members come and
\* whatever its arguments hold, with the id it has, or null if it has none.
THEOREM IdsAreAnswered == Spec => []IdAnswered
<1>1. RequestInv => IdAnswered
  <2> SUFFICES ASSUME RequestInv PROVE IdAnswered
    OBVIOUS
  <2>1. PICK t : IsRest("members", arguments, t)
    BY DEF RequestInv
  <2>2. IsRequest(Document)
    BY <2>1, DocumentIsRequest
  <2> QED BY <2>2, AnswersWithId DEF IdAnswered, Handled, Request
<1> QED BY <1>1, ArgumentsAreMembers, PTL

----------------------------------------------------------------------------
(* What the document means is what the client composed. *)

\* One member has the name, and it has this tree; none has it.
Has(ms, name, tree) ==
    \E i \in 1..Len(ms) : /\ ms[i][1] = name /\ ms[i][2] = 0 /\ ms[i][3] = tree
                          /\ \A j \in 1..Len(ms) : ms[j][1] = name => j = i
Lacks(ms, name) == \A i \in 1..Len(ms) : ms[i][1] # name

LEMMA HasMember ==
  ASSUME NEW ms, Len(ms) \in Nat, NEW name, NEW tree, Has(ms, name, tree)
  PROVE  Means!Member(<<"struct", ms>>, name) = tree
<1> DEFINE object == <<"struct", ms>>
           P == Means!Named(object, name)
           m == CHOOSE i \in P : \A j \in P : j <= i
<1>1. PICK i \in 1..Len(ms) : /\ ms[i][1] = name /\ ms[i][2] = 0 /\ ms[i][3] = tree
                              /\ \A j \in 1..Len(ms) : ms[j][1] = name => j = i
  BY DEF Has
<1>2. object[2] = ms
  OBVIOUS
<1> HIDE DEF object
<1>3. P = {i}
  BY <1>1, <1>2 DEF Means!Named
<1>4. P \subseteq 1..Len(ms) /\ P # {}
  BY <1>3
<1>5. m \in P
  <2> HIDE DEF P
  <2> QED BY <1>4, LastPlace
<1>6. Means!Member(object, name) = object[2][m][3]
  BY <1>4 DEF Means!Member, Means!LastOf
<1>7. m = i
  BY <1>3, <1>5
<1> HIDE DEF m
<1> QED BY <1>1, <1>2, <1>6, <1>7 DEF object

LEMMA OneHas ==
  ASSUME NEW name, NEW tree, NEW other
  PROVE  /\ Has(<<<<name, 0, tree>>>>, name, tree)
         /\ other # name => Lacks(<<<<name, 0, tree>>>>, other)
<1> DEFINE x == <<name, 0, tree>>
           ms == <<x>>
<1>1. x[1] = name /\ x[2] = 0 /\ x[3] = tree
  OBVIOUS
<1> HIDE DEF x
<1>2. Len(ms) = 1 /\ ms[1] = x /\ 1..1 = {1}
  OBVIOUS
<1> HIDE DEF ms
<1>3. Has(ms, name, tree)
  BY <1>1, <1>2 DEF Has
<1>4. other # name => Lacks(ms, other)
  BY <1>1, <1>2 DEF Lacks
<1> QED BY <1>3, <1>4 DEF ms, x

LEMMA JoinHas ==
  ASSUME NEW X, NEW a \in Seq(X), NEW b \in Seq(X), NEW name, NEW tree
  PROVE  /\ Has(a, name, tree) /\ Lacks(b, name) =>
              Has(a \o b, name, tree) /\ Has(b \o a, name, tree)
         /\ Lacks(a, name) /\ Lacks(b, name) => Lacks(a \o b, name) /\ Lacks(b \o a, name)
<1> DEFINE n == Len(a)
           k == Len(b)
           c == a \o b
           d == b \o a
<1>1. n \in Nat /\ k \in Nat /\ Len(c) = n + k /\ Len(d) = k + n
  OBVIOUS
<1>2. /\ \A i \in 1..n : c[i] = a[i] /\ d[i + k] = a[i]
      /\ \A i \in 1..k : c[i + n] = b[i] /\ d[i] = b[i]
  OBVIOUS
<1> HIDE DEF c, d, n, k
<1>3. \A j \in 1..(n + k) : \/ j \in 1..n
                            \/ j - n \in 1..k /\ (j - n) + n = j
  BY <1>1
<1>4. \A j \in 1..(k + n) : \/ j \in 1..k
                            \/ j - k \in 1..n /\ (j - k) + k = j
  BY <1>1
<1>5. ASSUME Lacks(a, name), Lacks(b, name) PROVE Lacks(c, name) /\ Lacks(d, name)
  <2>0. (\A i \in 1..n : a[i][1] # name) /\ (\A i \in 1..k : b[i][1] # name)
    BY <1>5 DEF Lacks, n, k
  <2>1. \A j \in 1..Len(c) : c[j][1] # name
    <3> SUFFICES ASSUME NEW j \in 1..Len(c) PROVE c[j][1] # name
      OBVIOUS
    <3>1. CASE j \in 1..n
      BY <1>2, <2>0, <3>1
    <3>2. CASE j \notin 1..n
      <4>1. j - n \in 1..k /\ (j - n) + n = j
        BY <1>1, <1>3, <3>2
      <4>2. c[(j - n) + n] = b[j - n]
        BY <1>2, <4>1
      <4> QED BY <2>0, <4>1, <4>2
    <3> QED BY <3>1, <3>2
  <2>2. \A j \in 1..Len(d) : d[j][1] # name
    <3> SUFFICES ASSUME NEW j \in 1..Len(d) PROVE d[j][1] # name
      OBVIOUS
    <3>1. CASE j \in 1..k
      BY <1>2, <2>0, <3>1
    <3>2. CASE j \notin 1..k
      <4>1. j - k \in 1..n /\ (j - k) + k = j
        BY <1>1, <1>4, <3>2
      <4>2. d[(j - k) + k] = a[j - k]
        BY <1>2, <4>1
      <4> QED BY <2>0, <4>1, <4>2
    <3> QED BY <3>1, <3>2
  <2> QED BY <2>1, <2>2 DEF Lacks
<1>6. ASSUME Has(a, name, tree), Lacks(b, name) PROVE Has(c, name, tree) /\ Has(d, name, tree)
  <2>1. PICK i \in 1..n : /\ a[i][1] = name /\ a[i][2] = 0 /\ a[i][3] = tree
                          /\ \A j \in 1..n : a[j][1] = name => j = i
    BY <1>6 DEF Has, n
  <2>2. \A j \in 1..k : b[j][1] # name
    BY <1>6 DEF Lacks, k
  <2>3. i \in 1..Len(c) /\ c[i] = a[i]
    BY <1>1, <1>2
  <2>4. \A j \in 1..Len(c) : c[j][1] = name => j = i
    <3> SUFFICES ASSUME NEW j \in 1..Len(c), c[j][1] = name PROVE j = i
      OBVIOUS
    <3>1. CASE j \in 1..n
      BY <1>2, <2>1, <3>1
    <3>2. CASE j \notin 1..n
      <4>1. j - n \in 1..k /\ (j - n) + n = j
        BY <1>1, <1>3, <3>2
      <4>2. c[(j - n) + n] = b[j - n]
        BY <1>2, <4>1
      <4> QED BY <2>2, <4>1, <4>2
    <3> QED BY <3>1, <3>2
  <2>5. Has(c, name, tree)
    BY <2>1, <2>3, <2>4 DEF Has
  <2> DEFINE e == i + k
  <2>6. e \in 1..Len(d) /\ d[e] = a[i]
    BY <1>1, <1>2
  <2>7. \A j \in 1..Len(d) : d[j][1] = name => j = e
    <3> SUFFICES ASSUME NEW j \in 1..Len(d), d[j][1] = name PROVE j = i + k
      OBVIOUS
    <3>1. j \notin 1..k
      BY <1>2, <2>2
    <3>2. j - k \in 1..n /\ (j - k) + k = j
      BY <1>1, <1>4, <3>1
    <3>3. d[(j - k) + k] = a[j - k]
      BY <1>2, <3>2
    <3>4. j - k = i
      BY <2>1, <3>2, <3>3
    <3> QED BY <3>2, <3>4
  <2> HIDE DEF e
  <2>8. Has(d, name, tree)
    BY <2>1, <2>6, <2>7 DEF Has
  <2> QED BY <2>5, <2>8
<1> QED BY <1>5, <1>6 DEF c, d

LEMMA RequestMeaning ==
  ASSUME RequestInv, NEW t, IsRest("members", arguments, t)
  PROVE  LET req == RequestTree(t)
         IN  /\ Means!Arguments(req) = <<"struct", t>>
             /\ method = "tools/call" => Means!Tool(req) = Means!Text(tool)
<1> DEFINE m == <<MethodTree>>
           p == <<ParamsTree(t)>>
           head == IdTrees \o m
           ms == InOrder(head, p)
           x == <<NameTree>>
           y == <<ArgumentsTree(t)>>
           within == InOrder(x, y)
           T == {NameTree, ArgumentsTree(t), MethodTree, ParamsTree(t), <<"id", 0, Leaf(rid)>>}
           inside == <<"struct", within>>
           args == <<"struct", t>>
<1>0. flipped \in BOOLEAN
  BY DEF RequestInv
<1>1. /\ Has(m, "method", Means!Text(method)) /\ Lacks(m, "params")
      /\ Has(p, "params", inside) /\ Lacks(p, "method")
      /\ Has(x, "name", Means!Text(tool)) /\ Lacks(x, "arguments")
      /\ Has(y, "arguments", args) /\ Lacks(y, "name")
  <2>1. Has(m, "method", Means!Text(method)) /\ Lacks(m, "params")
    <3> DEFINE n == "method"
               o == "params"
    <3>1. n # o /\ m = <<<<n, 0, Means!Text(method)>>>>
      BY DEF MethodTree
    <3> HIDE DEF n, o, m
    <3>2. Has(m, n, Means!Text(method)) /\ Lacks(m, o)
      BY <3>1, OneHas
    <3> QED BY <3>2 DEF n, o
  <2>2. Has(p, "params", inside) /\ Lacks(p, "method")
    <3> DEFINE n == "params"
               o == "method"
    <3>1. n # o /\ p = <<<<n, 0, inside>>>>
      BY DEF ParamsTree
    <3> HIDE DEF n, o, p, inside
    <3>2. Has(p, n, inside) /\ Lacks(p, o)
      BY <3>1, OneHas
    <3> QED BY <3>2 DEF n, o
  <2>3. Has(x, "name", Means!Text(tool)) /\ Lacks(x, "arguments")
    <3> DEFINE n == "name"
               o == "arguments"
    <3>1. n # o /\ x = <<<<n, 0, Means!Text(tool)>>>>
      BY DEF NameTree
    <3> HIDE DEF n, o, x
    <3>2. Has(x, n, Means!Text(tool)) /\ Lacks(x, o)
      BY <3>1, OneHas
    <3> QED BY <3>2 DEF n, o
  <2>4. Has(y, "arguments", args) /\ Lacks(y, "name")
    <3> DEFINE n == "arguments"
               o == "name"
    <3>1. n # o /\ y = <<<<n, 0, args>>>>
      BY DEF ArgumentsTree
    <3> HIDE DEF n, o, y, args
    <3>2. Has(y, n, args) /\ Lacks(y, o)
      BY <3>1, OneHas
    <3> QED BY <3>2 DEF n, o
  <2> QED BY <2>1, <2>2, <2>3, <2>4
<1>2. Lacks(IdTrees, "method") /\ Lacks(IdTrees, "params")
  <2>1. CASE rid = NoId
    <3>1. IdTrees = <<>> /\ Len(<<>>) = 0
      BY <2>1 DEF IdTrees
    <3> QED BY <3>1 DEF Lacks
  <2>2. CASE rid # NoId
    <3> DEFINE n == "id"
               i == <<<<n, 0, Leaf(rid)>>>>
    <3>1. n # "method" /\ n # "params" /\ IdTrees = i
      BY <2>2 DEF IdTrees
    <3>2. \A o : o # n => Lacks(i, o)
      <4> HIDE DEF n
      <4> QED BY OneHas
    <3> QED BY <3>1, <3>2
  <2> QED BY <2>1, <2>2
<1>3. m \in Seq(T) /\ p \in Seq(T) /\ IdTrees \in Seq(T) /\ x \in Seq(T) /\ y \in Seq(T)
  <2> DEFINE a == NameTree
             b == ArgumentsTree(t)
             c == MethodTree
             d == ParamsTree(t)
             e == <<"id", 0, Leaf(rid)>>
  <2>1. IdTrees = <<>> \/ IdTrees = <<e>>
    BY DEF IdTrees
  <2> HIDE DEF a, b, c, d, e
  <2>2. /\ <<c>> \in Seq({a, b, c, d, e}) /\ <<d>> \in Seq({a, b, c, d, e})
        /\ <<a>> \in Seq({a, b, c, d, e}) /\ <<b>> \in Seq({a, b, c, d, e})
        /\ <<e>> \in Seq({a, b, c, d, e}) /\ <<>> \in Seq({a, b, c, d, e})
    OBVIOUS
  <2>3. T = {a, b, c, d, e} /\ m = <<c>> /\ p = <<d>> /\ x = <<a>> /\ y = <<b>>
    BY DEF a, b, c, d, e
  <2> HIDE DEF T, m, p, x, y
  <2> QED BY <2>1, <2>2, <2>3
<1> HIDE DEF m, p, x, y, T, args, inside
<1>4. Has(head, "method", Means!Text(method)) /\ Lacks(head, "params") /\ head \in Seq(T)
  <2> DEFINE i == IdTrees
             n == "method"
             o == "params"
             tree == Means!Text(method)
  <2>1. i \in Seq(T) /\ m \in Seq(T) /\ Has(m, n, tree) /\ Lacks(i, n)
    BY <1>1, <1>2, <1>3
  <2>2. Lacks(m, o) /\ Lacks(i, o)
    BY <1>1, <1>2
  <2> HIDE DEF i, n, o, tree
  <2>3. Has(i \o m, n, tree)
    BY <2>1, JoinHas
  <2>4. Lacks(i \o m, o)
    BY <2>1, <2>2, JoinHas
  <2>5. i \o m \in Seq(T)
    BY <2>1
  <2> QED BY <2>3, <2>4, <2>5 DEF i, n, o, tree
<1> HIDE DEF head
<1>5. Has(ms, "method", Means!Text(method)) /\ Has(ms, "params", inside) /\ Len(ms) \in Nat
  <2>1. CASE flipped
    <3>1. ms = p \o head
      BY <2>1 DEF InOrder
    <3>2. Len(p \o head) \in Nat
      BY <1>3, <1>4
    <3> HIDE DEF ms
    <3> QED BY <1>1, <1>3, <1>4, <3>1, <3>2, JoinHas
  <2>2. CASE ~flipped
    <3>1. ms = head \o p
      BY <2>2 DEF InOrder
    <3>2. Len(head \o p) \in Nat
      BY <1>3, <1>4
    <3> HIDE DEF ms
    <3> QED BY <1>1, <1>3, <1>4, <3>1, <3>2, JoinHas
  <2> QED BY <1>0, <2>1, <2>2
<1>6. Has(within, "name", Means!Text(tool)) /\ Has(within, "arguments", args) /\ Len(within) \in Nat
  <2>1. CASE flipped
    <3>1. within = y \o x
      BY <2>1 DEF InOrder
    <3>2. Len(y \o x) \in Nat
      BY <1>3
    <3> HIDE DEF within
    <3> QED BY <1>1, <1>3, <3>1, <3>2, JoinHas
  <2>2. CASE ~flipped
    <3>1. within = x \o y
      BY <2>2 DEF InOrder
    <3>2. Len(x \o y) \in Nat
      BY <1>3
    <3> HIDE DEF within
    <3> QED BY <1>1, <1>3, <3>1, <3>2, JoinHas
  <2> QED BY <1>0, <2>1, <2>2
<1>7. RequestTree(t) = <<"struct", ms>>
  BY DEF RequestTree, head, m, p
<1> HIDE DEF ms
<1>8. /\ Means!Method(RequestTree(t)) = Means!Text(method)
      /\ Means!Params(RequestTree(t)) = inside
  BY <1>5, <1>7, HasMember DEF Means!Method, Means!Params
<1>9. Means!Member(inside, "name") = Means!Text(tool) /\ Means!Member(inside, "arguments") = args
  <2> HIDE DEF within
  <2> QED BY <1>6, HasMember DEF inside
<1>10. /\ inside[1] = "struct" /\ args[1] = "struct"
       /\ inside # Means!Absent /\ args # Means!Absent
  <2>1. inside[1] = "struct" /\ args[1] = "struct"
    BY DEF inside, args
  <2>2. Means!Absent[1] = "absent"
    BY DEF Means!Absent
  <2> QED BY <2>1, <2>2
<1>11. Means!Arguments(RequestTree(t)) = args
  BY <1>8, <1>9, <1>10 DEF Means!Arguments, Means!IsObject
<1>12. method = "tools/call" => Means!Tool(RequestTree(t)) = Means!Text(tool)
  <2> SUFFICES ASSUME method = "tools/call" PROVE Means!Tool(RequestTree(t)) = Means!Text(tool)
    OBVIOUS
  <2>1. Means!Method(RequestTree(t)) = Means!Text("tools/call")
    BY <1>8
  <2> QED BY <1>8, <1>9, <1>10, <2>1 DEF Means!Tool, Means!IsObject
<1> QED BY <1>11, <1>12 DEF args

LEMMA TextsDiffer ==
  ASSUME NEW v, NEW w, Means!Text(v) = Means!Text(w)
  PROVE  v = w
<1>1. Means!Text(v)[2] = v /\ Means!Text(w)[2] = w
  BY DEF Means!Text
<1> QED BY <1>1

\* A complete request for a tool that reads or updates is placed.
LEMMA CompleteIsPlaced ==
  ASSUME NEW doc, IsRequest(doc), NEW w \in {"search_read_records", "get_model_fields", "update_record"},
         Means!Tool(JsonTree(doc)) = Means!Text(w), Means!Complete(JsonTree(doc))
  PROVE  mcp_handle(doc).kind = "call"
<1> DEFINE req == JsonTree(doc)
           a == Means!Arguments(req)
<1>1. PICK members, id : Fields(doc, members, a) /\ mcp_handle(doc) = dispatch_tool(w, doc, members, id)
  BY ToolCalled
<1>2. /\ \A x : Denotes(doc, Field(doc, members, x), Means!Member(a, x))
      /\ Denotes(doc, ModelField(doc, members), Means!Model(a))
  BY <1>1 DEF Fields
<1>3. Len(doc) \in Nat
  BY PlainTyped DEF IsRequest
<1>4. /\ Means!Model(a) # Means!Absent
      /\ w = "update_record" => /\ Means!Member(a, "values") # Means!Absent
                                /\ Means!Member(a, "record_ids") # Means!Absent
  BY DEF Means!Complete
<1> HIDE DEF a
<1>5. Have(ModelField(doc, members))
  <2> DEFINE v == ModelField(doc, members)
             tree == Means!Model(a)
  <2>1. Denotes(doc, v, tree)
    BY <1>2
  <2>2. tree # Means!Absent
    BY <1>4
  <2> HIDE DEF v, tree
  <2>3. Have(v) <=> tree # Means!Absent
    BY <1>3, <2>1, DenotedTag
  <2>4. Have(v)
    BY <2>2, <2>3
  <2> QED BY <2>4 DEF v
<1>6. \A x : Means!Member(a, x) # Means!Absent => Have(Field(doc, members, x))
  <2> SUFFICES ASSUME NEW x, Means!Member(a, x) # Means!Absent PROVE Have(Field(doc, members, x))
    OBVIOUS
  <2> DEFINE v == Field(doc, members, x)
             tree == Means!Member(a, x)
  <2>1. Denotes(doc, v, tree)
    BY <1>2
  <2>3. tree # Means!Absent
    OBVIOUS
  <2> HIDE DEF v, tree
  <2>4. Have(v) <=> tree # Means!Absent
    BY <1>3, <2>1, DenotedTag
  <2>2. Have(v)
    BY <2>3, <2>4
  <2> QED BY <2>2 DEF v
<1>7. ASSUME NEW x, NEW method_, NEW args, NEW kwargs
      PROVE  Outcome("call", id, 0, Call(x, method_, args, kwargs)).kind = "call"
  BY DEF Outcome
<1>8. CASE w = "search_read_records"
  <2>1. \E x, m, args, kwargs : dispatch_tool(w, doc, members, id) = Outcome("call", id, 0, Call(x, m, args, kwargs))
    BY <1>5, <1>8 DEF dispatch_tool
  <2> QED BY <1>1, <1>7, <2>1
<1>9. CASE w = "get_model_fields"
  <2>1. \E x, m, args, kwargs : dispatch_tool(w, doc, members, id) = Outcome("call", id, 0, Call(x, m, args, kwargs))
    BY <1>5, <1>9 DEF dispatch_tool
  <2> QED BY <1>1, <1>7, <2>1
<1>10. CASE w = "update_record"
  <2>0. ~NothingToWrite(Field(doc, members, "record_ids"), Field(doc, members, "values"))
    BY <1>4, <1>6, <1>10 DEF NothingToWrite
  <2>1. \E x, m, args, kwargs : dispatch_tool(w, doc, members, id) = Outcome("call", id, 0, Call(x, m, args, kwargs))
    BY <1>5, <1>10, <2>0 DEF dispatch_tool
  <2> QED BY <1>1, <1>7, <2>1
<1> QED BY <1>8, <1>9, <1>10

\* A complete request to search, describe or update is placed with Odoo, in
\* whatever order its members come and whatever else they hold.
THEOREM CompleteRequestsPlaced == Spec => []CompleteCallsPlaced
<1>1. RequestInv => CompleteCallsPlaced
  <2> SUFFICES ASSUME RequestInv, method = "tools/call",
                      tool \in {"search_read_records", "get_model_fields", "update_record"},
                      Means!Complete(Request)
               PROVE  Handled.kind = "call"
    BY DEF CompleteCallsPlaced
  <2>1. PICK t : IsRest("members", arguments, t)
    BY DEF RequestInv
  <2>2. IsRequest(Document) /\ JsonTree(Document) = RequestTree(t)
    BY <2>1, DocumentIsRequest
  <2>3. Means!Tool(JsonTree(Document)) = Means!Text(tool)
    BY <2>1, <2>2, RequestMeaning
  <2> QED BY <2>2, <2>3, CompleteIsPlaced DEF Handled, Request
<1> QED BY <1>1, ArgumentsAreMembers, PTL

----------------------------------------------------------------------------
(* What dispatch_tool copies from a request into a call. *)

\* The tokens of one value inside a text are the text of that value.
LEMMA SubValue ==
  ASSUME NEW doc \in Seq(JsonTokens), NEW i \in 1..Len(doc), Parse(doc)[<<"value", i>>].ok
  PROVE  IsValue(SubSeq(doc, i, ValueEnd(doc, i)), Parse(doc)[<<"value", i>>].tree)
<1> DEFINE p == Parse(doc)[<<"value", i>>]
           e == p.next - 1
           E == SubSeq(doc, i, e)
           d == 1 - i
           w == "value"
<1>1. Len(doc) \in Nat
  BY PlainTyped
<1>2. p.next \in (i + 1)..(Len(doc) + 1) /\ e \in i..Len(doc) /\ p.next = e + 1
  <2>1. i \in 1..(Len(doc) + 1)
    BY <1>1
  <2>2. p.next \in (i + 1)..(Len(doc) + 1)
    BY <1>1, <2>1, ParsedValue
  <2> HIDE DEF p
  <2> QED BY <1>1, <2>2
<1> HIDE DEF p, e
<1>3. /\ E \in Seq(JsonTokens) /\ Len(E) = (e - i) + 1
      /\ \A m \in 1..((e - i) + 1) : E[m] = doc[(i + m) - 1]
  BY <1>1, <1>2
<1> HIDE DEF E
<1>4. d \in Int /\ i + d = 1 /\ e + d = Len(E) /\ (e + 1) + d = Len(E) + 1
  BY <1>1, <1>2, <1>3
<1>5. Alike(E, doc, d, i, e + 1)
  <2>1. ASSUME NEW m \in i..((e + 1) - 1)
        PROVE  m + d \in 1..Len(E) /\ E[m + d] = doc[m]
    <3>1. m + d \in 1..((e - i) + 1) /\ (i + (m + d)) - 1 = m
      BY <1>1, <1>2
    <3> QED BY <1>3, <3>1
  <2> QED BY <2>1 DEF Alike
<1> HIDE DEF d
<1>6. Shifts(E, doc, d, w, i)
  <2>1. Len(E) \in Nat /\ i \in 1..(Len(doc) + 1) /\ w \in Wants
    BY <1>1, <1>2, <1>3 DEF Wants
  <2> HIDE DEF w
  <2> QED BY <1>1, <1>4, <2>1, ParseIsLocal
<1>7. /\ Parse(E)[<<"value", 1>>].ok /\ Parse(E)[<<"value", 1>>].next = Len(E) + 1
      /\ Parse(E)[<<"value", 1>>].tree = p.tree
  BY <1>2, <1>4, <1>5, <1>6 DEF Shifts, p
<1>8. IsValue(E, p.tree)
  BY <1>3, <1>7 DEF IsValue, WellFormed, JsonTree
<1> QED BY <1>8 DEF E, e, p, ValueEnd

LEMMA NullIsValue ==
  /\ NullToken \in JsonTokens /\ NullToken.k = "null" /\ Leaf(NullToken) = <<"nil">>
<1>1. NullToken \in JsonTokens /\ NullToken.k = "null"
  <2>1. "null" \in Kinds /\ "null" \in Words
    BY DEF Kinds, Scalars, Words
  <2> QED BY <2>1, TokenTyped DEF NullToken
<1>2. Leaf(NullToken) = <<"nil">>
  BY <1>1 DEF Leaf
<1> QED BY <1>1, <1>2

\* sj_value_to_json copies the text of a value that means the same.
LEMMA ValueCopied ==
  ASSUME NEW doc \in Seq(JsonTokens), NEW v, NEW tree, Denotes(doc, v, tree), Have(v)
  PROVE  IsValue(sj_value_to_json(doc, v), tree)
<1> DEFINE i == v.start
           x == doc[i]
           c == sj_value_to_json(doc, v)
<1>1. Len(doc) \in Nat
  BY PlainTyped
<1>2. /\ i \in 1..Len(doc) /\ v.type = x.k /\ x.k \in Scalars \cup Openings \cup {"string"}
      /\ Parse(doc)[<<"value", i>>].ok /\ tree = Parse(doc)[<<"value", i>>].tree
  BY <1>1, DenotedTag
<1>3. x \in JsonTokens
  BY <1>2, PlainTyped
<1>4. i \in 1..(Len(doc) + 1)
  BY <1>1, <1>2
<1>5. x.k \in Scalars \cup {"string"} => tree = Leaf(x)
  BY <1>1, <1>2, <1>4, TreeOfValue
<1>6. CASE x.k \in Openings
  <2>1. c = SubSeq(doc, i, ClosingAt(doc, i))
    BY <1>2, <1>6 DEF sj_value_to_json, Openings
  <2>2. ClosingAt(doc, i) = ValueEnd(doc, i)
    BY <1>1, <1>2, <1>6, ScanEnds
  <2> HIDE DEF i
  <2>3. IsValue(SubSeq(doc, i, ValueEnd(doc, i)), Parse(doc)[<<"value", i>>].tree)
    BY <1>2, SubValue
  <2> QED BY <1>2, <2>1, <2>2, <2>3
<1>7. CASE x.k = "string"
  <2>1. c = <<jbuf_sj_str(x)>>
    BY <1>2, <1>7 DEF sj_value_to_json, Openings
  <2> HIDE DEF x
  <2>2. jbuf_sj_str(x) = x
    BY <1>3, PlainAgain
  <2>3. IsValue(<<x>>, Leaf(x))
    BY <1>3, <1>7, TokenIsValue
  <2>4. tree = Leaf(x)
    BY <1>5, <1>7
  <2> QED BY <2>1, <2>2, <2>3, <2>4
<1>8. CASE x.k \in {"number", "bool"}
  <2>1. c = <<x>>
    BY <1>2, <1>8 DEF sj_value_to_json, Openings
  <2> HIDE DEF x
  <2>2. x.k \in Scalars \cup {"string"}
    BY <1>8 DEF Scalars
  <2>3. IsValue(<<x>>, Leaf(x))
    BY <1>3, <2>2, TokenIsValue
  <2> QED BY <1>5, <2>1, <2>2, <2>3
<1>9. CASE x.k = "null"
  <2>1. c = <<NullToken>>
    BY <1>2, <1>9 DEF sj_value_to_json, Openings
  <2> HIDE DEF x
  <2>2. tree = <<"nil">>
    <3>1. Leaf(x) = <<"nil">>
      BY <1>9 DEF Leaf
    <3>2. x.k \in Scalars
      BY <1>9 DEF Scalars
    <3> QED BY <1>5, <3>1, <3>2
  <2> DEFINE n == NullToken
  <2>3. n \in JsonTokens /\ n.k \in Scalars \cup {"string"} /\ Leaf(n) = <<"nil">>
    BY NullIsValue DEF Scalars
  <2> HIDE DEF n
  <2>4. IsValue(<<n>>, Leaf(n))
    BY <2>3, TokenIsValue
  <2> QED BY <2>1, <2>2, <2>3, <2>4 DEF n
<1> QED BY <1>2, <1>6, <1>7, <1>8, <1>9 DEF Scalars

\* What is copied, or else a default.
LEMMA CopiedIsValue ==
  ASSUME NEW doc \in Seq(JsonTokens), NEW v, NEW tree, Denotes(doc, v, tree),
         NEW default, NEW other, IsValue(default, other)
  PROVE  IsValue(Copied(doc, v, default), Means!Or(tree, other))
<1>1. Len(doc) \in Nat
  BY PlainTyped
<1>2. Have(v) <=> tree # Means!Absent
  BY <1>1, DenotedTag
<1>3. CASE Have(v)
  <2>1. IsValue(sj_value_to_json(doc, v), tree)
    BY <1>3, ValueCopied
  <2> QED BY <1>2, <1>3, <2>1 DEF Copied, Means!Or
<1>4. CASE ~Have(v)
  BY <1>2, <1>4 DEF Copied, Means!Or
<1> QED BY <1>3, <1>4

\* The tokens of texts whose numbers are carried over unchanged.
FitTokens == {x \in JsonTokens : x.k = "number" => Fits(x.num)}

LEMMA FitText ==
  ASSUME NEW doc \in Seq(JsonTokens), NumbersFit(doc)
  PROVE  doc \in Seq(FitTokens)
<1>1. \A i \in 1..Len(doc) : doc[i] \in JsonTokens
  OBVIOUS
<1>2. \A i \in 1..Len(doc) : doc[i] \in FitTokens
  BY <1>1 DEF FitTokens, NumbersFit
<1>3. Len(doc) \in Nat /\ doc = [i \in 1..Len(doc) |-> doc[i]]
  OBVIOUS
<1> QED BY <1>2, <1>3

LEMMA FitTyped ==
  ASSUME NEW s \in Seq(FitTokens)
  PROVE  s \in Seq(JsonTokens) /\ NumbersFit(s)
<1>1. FitTokens \subseteq JsonTokens
  BY DEF FitTokens
<1>2. \A i \in 1..Len(s) : s[i] \in FitTokens
  OBVIOUS
<1>3. NumbersFit(s)
  BY <1>2 DEF FitTokens, NumbersFit
<1> QED BY <1>1, <1>3, SeqMonotonic

\* Every token but a number fits: brackets, names and null.
LEMMA FitToken ==
  ASSUME NEW x \in JsonTokens, x.k # "number"
  PROVE  x \in FitTokens
BY DEF FitTokens

\* What is copied from a text whose numbers fit.
LEMMA FitValue ==
  ASSUME NEW doc \in Seq(FitTokens), NEW v, NEW tree, Denotes(doc, v, tree), Have(v)
  PROVE  sj_value_to_json(doc, v) \in Seq(FitTokens)
<1> DEFINE i == v.start
           x == doc[i]
           c == sj_value_to_json(doc, v)
<1>0. doc \in Seq(JsonTokens)
  BY FitTyped
<1>1. Len(doc) \in Nat
  OBVIOUS
<1>2. /\ i \in 1..Len(doc) /\ v.type = x.k /\ x.k \in Scalars \cup Openings \cup {"string"}
      /\ Parse(doc)[<<"value", i>>].ok
  BY <1>1, DenotedTag
<1>3. x \in FitTokens /\ x \in JsonTokens
  BY <1>0, <1>2
<1>4. CASE x.k \in Openings
  <2> DEFINE e == ClosingAt(doc, i)
  <2>1. c = SubSeq(doc, i, e)
    BY <1>2, <1>4 DEF sj_value_to_json, Openings
  <2>2. IsValue(SubSeq(doc, i, ValueEnd(doc, i)), Parse(doc)[<<"value", i>>].tree)
    <3> HIDE DEF i
    <3> QED BY <1>0, <1>2, SubValue
  <2>3. e = ValueEnd(doc, i)
    BY <1>0, <1>1, <1>2, <1>4, ScanEnds
  <2>4. ValueEnd(doc, i) \in i..Len(doc)
    <3> HIDE DEF i
    <3>1. i \in 1..(Len(doc) + 1)
      BY <1>1, <1>2
    <3>2. Parse(doc)[<<"value", i>>].next \in (i + 1)..(Len(doc) + 1)
      BY <1>1, <1>2, <3>1, ParsedValue
    <3> DEFINE next == Parse(doc)[<<"value", i>>].next
    <3> HIDE DEF next
    <3>3. next - 1 \in i..Len(doc)
      BY <1>1, <1>2, <3>2 DEF next
    <3> QED BY <3>3 DEF ValueEnd, next
  <2> HIDE DEF e, i, c
  <2>5. e \in i..Len(doc)
    BY <2>3, <2>4
  <2>6. SubSeq(doc, i, e) \in Seq(FitTokens)
    BY <1>1, <1>2, <2>5
  <2> QED BY <2>1, <2>6 DEF c
<1>5. CASE x.k \in {"string", "number", "bool"}
  <2>1. jbuf_sj_str(x) = x
    BY <1>3, PlainAgain
  <2>2. c = <<x>>
    BY <1>2, <1>5, <2>1 DEF sj_value_to_json, Openings
  <2> HIDE DEF x
  <2> QED BY <1>3, <2>2
<1>6. CASE x.k = "null"
  <2>1. c = <<NullToken>>
    BY <1>2, <1>6 DEF sj_value_to_json, Openings
  <2>2. NullToken \in FitTokens
    BY NullIsValue, FitToken
  <2> QED BY <2>1, <2>2
<1> QED BY <1>2, <1>4, <1>5, <1>6 DEF Scalars

LEMMA FitCopied ==
  ASSUME NEW doc \in Seq(FitTokens), NEW v, NEW tree, Denotes(doc, v, tree),
         NEW default \in Seq(FitTokens)
  PROVE  Copied(doc, v, default) \in Seq(FitTokens)
BY FitValue DEF Copied

\* JSON put together for a call reaches Odoo as what it means.
LEMMA ValueConverts ==
  ASSUME NEW s \in Seq(FitTokens), NEW t, IsValue(s, t)
  PROVE  json_to_xmlrpc(s) = t
<1>1. s \in Seq(JsonTokens) /\ WellFormed(s) /\ JsonTree(s) = t
  BY DEF IsValue
<1>2. Tokens(s) /\ PlainText(s) /\ NumbersFit(s)
  BY <1>1, PlainTyped, FitTyped
<1> QED BY <1>1, <1>2, ConvertsText

\* An integer of the machine, written as a number.
LEMMA NumTyped ==
  ASSUME NEW n \in Int, n \in LongMin..LongMax
  PROVE  /\ Num(n) \in FitTokens /\ Num(n) \in JsonTokens /\ Num(n).k = "number"
         /\ Leaf(Num(n)) = <<"number", "int", n>>
<1> DEFINE x == Num(n)
           num == Integer(n)
<1>1. num \in Numerals /\ num.form = "int" /\ num.lead = n
  BY DEF Integer, Numerals
<1>2. Token("number", "#") \in JsonTokens /\ Token("number", "#").k = "number"
  <2> DEFINE k == "number"
             w == "#"
  <2>1. k \in Kinds /\ w \in Words
    BY DEF Kinds, Scalars, Words
  <2> HIDE DEF k, w
  <2>2. Token(k, w) \in JsonTokens /\ Token(k, w).k = k
    BY <2>1, TokenTyped
  <2> QED BY <2>2 DEF k, w
<1>3. x \in JsonTokens /\ x.k = "number" /\ x.num = num
  <2> DEFINE y == Token("number", "#")
  <2>1. x = [y EXCEPT !.num = num]
    BY DEF Num, Numeral
  <2>2. y \in JsonTokens /\ y.k = "number"
    BY <1>2
  <2> HIDE DEF x, y, num
  <2> QED BY <1>1, <2>1, <2>2 DEF JsonTokens
<1> HIDE DEF x, num
<1>4. Fits(num)
  BY <1>1 DEF Fits
<1>5. x \in FitTokens
  BY <1>3, <1>4 DEF FitTokens
<1>6. Leaf(x) = Number(num)
  BY <1>3 DEF Leaf
<1>7. Number(num) = <<"number", "int", n>>
  BY <1>1 DEF Number
<1> QED BY <1>3, <1>5, <1>6, <1>7 DEF x

\* limit and offset are integers, and written again as integers.
LEMMA NumberCopied ==
  ASSUME NEW doc, doc \in Seq(FitTokens), NEW v, NEW tree, Denotes(doc, v, tree),
         NEW n \in {80, 0}, tree = Means!Absent \/ IsInteger(tree)
  PROVE  LET x == IF Have(v) THEN sj_ll(doc, v) ELSE Num(n)
         IN  /\ x \in FitTokens /\ x \in JsonTokens /\ x.k = "number"
             /\ Leaf(x) = Means!Or(tree, <<"number", "int", n>>)
<1> DEFINE y == doc[v.start]
<1>0. LongMax \in Nat /\ LongMin \in Int /\ 80 \in LongMin..LongMax /\ 0 \in LongMin..LongMax
  BY LongMaxAssumption DEF LongMin
<1>1. doc \in Seq(JsonTokens) /\ Len(doc) \in Nat
  BY FitTyped
<1>3. /\ Have(v) <=> tree # Means!Absent
      /\ Have(v) => /\ v.start \in 1..Len(doc) /\ v.type = y.k
                    /\ v.type \in Scalars \cup Openings \cup {"string"}
                    /\ Parse(doc)[<<"value", v.start>>].ok
                    /\ tree = Parse(doc)[<<"value", v.start>>].tree
                    /\ tree[1] = TagOf(v.type)
  BY <1>1, DenotedTag
<1>4. CASE Have(v)
  <2>1. IsInteger(tree)
    BY <1>3, <1>4
  <2>2. \A k \in Scalars \cup Openings \cup {"string"} : TagOf(k) = "number" => k = "number"
    BY DEF TagOf, Scalars, Openings
  <2>3. v.type = "number"
    BY <1>3, <1>4, <2>1, <2>2 DEF IsInteger
  <2>4. y \in FitTokens
    BY <1>3, <1>4
  <2>5. tree = Leaf(y)
    <3>1. v.start \in 1..(Len(doc) + 1) /\ y.k \in Scalars \cup {"string"}
      BY <1>1, <1>3, <1>4, <2>3 DEF Scalars
    <3> QED BY <1>1, <1>3, <1>4, <3>1, TreeOfValue
  <2>6. y.k = "number"
    BY <1>3, <1>4, <2>3
  <2>7. sj_ll(doc, v) = Num(strtoll(y.num))
    BY DEF sj_ll
  <2> HIDE DEF y
  <2>8. y.num.lead \in Int /\ Fits(y.num)
    BY <2>4, <2>6 DEF FitTokens, JsonTokens, Numerals
  <2>9. Leaf(y) = Number(y.num)
    BY <2>6 DEF Leaf
  <2>10. y.num.form = "int"
    <3>1. Number(y.num)[2] = "int"
      BY <2>1, <2>5, <2>9 DEF IsInteger
    <3> QED BY <3>1 DEF Number
  <2>11. tree = <<"number", "int", y.num.lead>>
    BY <2>5, <2>9, <2>10 DEF Number
  <2>12. y.num.lead \in LongMin..LongMax
    BY <2>8, <2>10 DEF Fits
  <2>13. strtoll(y.num) = y.num.lead
    BY <1>0, <2>12 DEF strtoll
  <2> DEFINE z == y.num.lead
  <2>14. sj_ll(doc, v) = Num(z) /\ tree = <<"number", "int", z>> /\ z \in Int /\ z \in LongMin..LongMax
    BY <2>7, <2>8, <2>11, <2>12, <2>13
  <2> HIDE DEF z
  <2>15. Num(z) \in FitTokens /\ Num(z) \in JsonTokens /\ Num(z).k = "number"
         /\ Leaf(Num(z)) = <<"number", "int", z>>
    BY <2>14, NumTyped
  <2>16. Means!Or(tree, <<"number", "int", n>>) = tree
    BY <1>3, <1>4 DEF Means!Or
  <2> QED BY <1>4, <2>14, <2>15, <2>16
<1>5. CASE ~Have(v)
  <2>1. n \in Int /\ n \in LongMin..LongMax
    BY <1>0
  <2>2. tree = Means!Absent
    BY <1>3, <1>5
  <2>3. Num(n) \in FitTokens /\ Num(n) \in JsonTokens /\ Num(n).k = "number"
        /\ Leaf(Num(n)) = <<"number", "int", n>>
    BY <2>1, NumTyped
  <2>4. Means!Or(tree, <<"number", "int", n>>) = <<"number", "int", n>>
    BY <2>2 DEF Means!Or
  <2> QED BY <1>5, <2>3, <2>4
<1> QED BY <1>4, <1>5

\* Short sequences put together, in the lengths that are needed.
LEMMA Join12 ==
  ASSUME NEW a, NEW b, NEW c
  PROVE  <<a>> \o <<b, c>> = <<a, b, c>>
<1> DEFINE T == {a, b, c}
           x == <<a>>
           y == <<b, c>>
           z == <<a, b, c>>
           w == x \o y
<1>1. x \in Seq(T) /\ Len(x) = 1 /\ x[1] = a
  OBVIOUS
<1>2. y \in Seq(T) /\ Len(y) = 2 /\ y[1] = b /\ y[2] = c
  OBVIOUS
<1>3. z \in Seq(T) /\ Len(z) = 3 /\ z[1] = a /\ z[2] = b /\ z[3] = c
  OBVIOUS
<1> HIDE DEF x, y, z, T
<1>4. /\ w \in Seq(T) /\ Len(w) = Len(x) + Len(y)
      /\ \A i \in 1..(Len(x) + Len(y)) : w[i] = IF i <= Len(x) THEN x[i] ELSE y[i - Len(x)]
  BY <1>1, <1>2, ConcatProperties
<1> HIDE DEF w
<1>5. Len(w) = 3 /\ w[1] = x[1] /\ w[2] = y[1] /\ w[3] = y[2]
  BY <1>1, <1>2, <1>4
<1>6. \A i \in 1..Len(w) : w[i] = z[i]
  <2>1. \A i \in 1..Len(w) : i = 1 \/ i = 2 \/ i = 3
    BY <1>5
  <2> QED BY <1>1, <1>2, <1>3, <1>5, <2>1
<1>7. w = z
  BY <1>3, <1>4, <1>5, <1>6, SeqEqual
<1> QED BY <1>7 DEF w, x, y, z

LEMMA Join13 ==
  ASSUME NEW a, NEW b, NEW c, NEW d
  PROVE  <<a>> \o <<b, c, d>> = <<a, b, c, d>>
<1> DEFINE T == {a, b, c, d}
           x == <<a>>
           y == <<b, c, d>>
           z == <<a, b, c, d>>
           w == x \o y
<1>1. x \in Seq(T) /\ Len(x) = 1 /\ x[1] = a
  OBVIOUS
<1>2. y \in Seq(T) /\ Len(y) = 3 /\ y[1] = b /\ y[2] = c /\ y[3] = d
  OBVIOUS
<1>3. z \in Seq(T) /\ Len(z) = 4 /\ z[1] = a /\ z[2] = b /\ z[3] = c /\ z[4] = d
  OBVIOUS
<1> HIDE DEF x, y, z, T
<1>4. /\ w \in Seq(T) /\ Len(w) = Len(x) + Len(y)
      /\ \A i \in 1..(Len(x) + Len(y)) : w[i] = IF i <= Len(x) THEN x[i] ELSE y[i - Len(x)]
  BY <1>1, <1>2, ConcatProperties
<1> HIDE DEF w
<1>5. Len(w) = 4 /\ w[1] = x[1] /\ w[2] = y[1] /\ w[3] = y[2] /\ w[4] = y[3]
  BY <1>1, <1>2, <1>4
<1>6. \A i \in 1..Len(w) : w[i] = z[i]
  <2>1. \A i \in 1..Len(w) : i = 1 \/ i = 2 \/ i = 3 \/ i = 4
    BY <1>5
  <2> QED BY <1>1, <1>2, <1>3, <1>5, <2>1
<1>7. w = z
  BY <1>3, <1>4, <1>5, <1>6, SeqEqual
<1> QED BY <1>7 DEF w, x, y, z

LEMMA Join22 ==
  ASSUME NEW a, NEW b, NEW c, NEW d
  PROVE  <<a, b>> \o <<c, d>> = <<a, b, c, d>>
<1> DEFINE T == {a, b, c, d}
           x == <<a, b>>
           y == <<c, d>>
           z == <<a, b, c, d>>
           w == x \o y
<1>1. x \in Seq(T) /\ Len(x) = 2 /\ x[1] = a /\ x[2] = b
  OBVIOUS
<1>2. y \in Seq(T) /\ Len(y) = 2 /\ y[1] = c /\ y[2] = d
  OBVIOUS
<1>3. z \in Seq(T) /\ Len(z) = 4 /\ z[1] = a /\ z[2] = b /\ z[3] = c /\ z[4] = d
  OBVIOUS
<1> HIDE DEF x, y, z, T
<1>4. /\ w \in Seq(T) /\ Len(w) = Len(x) + Len(y)
      /\ \A i \in 1..(Len(x) + Len(y)) : w[i] = IF i <= Len(x) THEN x[i] ELSE y[i - Len(x)]
  BY <1>1, <1>2, ConcatProperties
<1> HIDE DEF w
<1>5. Len(w) = 4 /\ w[1] = x[1] /\ w[2] = x[2] /\ w[3] = y[1] /\ w[4] = y[2]
  BY <1>1, <1>2, <1>4
<1>6. \A i \in 1..Len(w) : w[i] = z[i]
  <2>1. \A i \in 1..Len(w) : i = 1 \/ i = 2 \/ i = 3 \/ i = 4
    BY <1>5
  <2> QED BY <1>1, <1>2, <1>3, <1>5, <2>1
<1>7. w = z
  BY <1>3, <1>4, <1>5, <1>6, SeqEqual
<1> QED BY <1>7 DEF w, x, y, z

LEMMA Join31 ==
  ASSUME NEW a, NEW b, NEW c, NEW d
  PROVE  <<a, b, c>> \o <<d>> = <<a, b, c, d>>
<1> DEFINE T == {a, b, c, d}
           x == <<a, b, c>>
           y == <<d>>
           z == <<a, b, c, d>>
           w == x \o y
<1>1. x \in Seq(T) /\ Len(x) = 3 /\ x[1] = a /\ x[2] = b /\ x[3] = c
  OBVIOUS
<1>2. y \in Seq(T) /\ Len(y) = 1 /\ y[1] = d
  OBVIOUS
<1>3. z \in Seq(T) /\ Len(z) = 4 /\ z[1] = a /\ z[2] = b /\ z[3] = c /\ z[4] = d
  OBVIOUS
<1> HIDE DEF x, y, z, T
<1>4. /\ w \in Seq(T) /\ Len(w) = Len(x) + Len(y)
      /\ \A i \in 1..(Len(x) + Len(y)) : w[i] = IF i <= Len(x) THEN x[i] ELSE y[i - Len(x)]
  BY <1>1, <1>2, ConcatProperties
<1> HIDE DEF w
<1>5. Len(w) = 4 /\ w[1] = x[1] /\ w[2] = x[2] /\ w[3] = x[3] /\ w[4] = y[1]
  BY <1>1, <1>2, <1>4
<1>6. \A i \in 1..Len(w) : w[i] = z[i]
  <2>1. \A i \in 1..Len(w) : i = 1 \/ i = 2 \/ i = 3 \/ i = 4
    BY <1>5
  <2> QED BY <1>1, <1>2, <1>3, <1>5, <2>1
<1>7. w = z
  BY <1>3, <1>4, <1>5, <1>6, SeqEqual
<1> QED BY <1>7 DEF w, x, y, z

LEMMA Join41 ==
  ASSUME NEW a, NEW b, NEW c, NEW d, NEW e
  PROVE  <<a, b, c, d>> \o <<e>> = <<a, b, c, d, e>>
<1> DEFINE T == {a, b, c, d, e}
           x == <<a, b, c, d>>
           y == <<e>>
           z == <<a, b, c, d, e>>
           w == x \o y
<1>1. x \in Seq(T) /\ Len(x) = 4 /\ x[1] = a /\ x[2] = b /\ x[3] = c /\ x[4] = d
  OBVIOUS
<1>2. y \in Seq(T) /\ Len(y) = 1 /\ y[1] = e
  OBVIOUS
<1>3. z \in Seq(T) /\ Len(z) = 5 /\ z[1] = a /\ z[2] = b /\ z[3] = c /\ z[4] = d /\ z[5] = e
  OBVIOUS
<1> HIDE DEF x, y, z, T
<1>4. /\ w \in Seq(T) /\ Len(w) = Len(x) + Len(y)
      /\ \A i \in 1..(Len(x) + Len(y)) : w[i] = IF i <= Len(x) THEN x[i] ELSE y[i - Len(x)]
  BY <1>1, <1>2, ConcatProperties
<1> HIDE DEF w
<1>5. Len(w) = 5 /\ w[1] = x[1] /\ w[2] = x[2] /\ w[3] = x[3] /\ w[4] = x[4] /\ w[5] = y[1]
  BY <1>1, <1>2, <1>4
<1>6. \A i \in 1..Len(w) : w[i] = z[i]
  <2>1. \A i \in 1..Len(w) : i = 1 \/ i = 2 \/ i = 3 \/ i = 4 \/ i = 5
    BY <1>5
  <2> QED BY <1>1, <1>2, <1>3, <1>5, <2>1
<1>7. w = z
  BY <1>3, <1>4, <1>5, <1>6, SeqEqual
<1> QED BY <1>7 DEF w, x, y, z

----------------------------------------------------------------------------
(* The arrays and objects dispatch_tool puts together. *)

LEMMA NothingAfter ==
  ASSUME NEW X, NEW s \in Seq(X)
  PROVE  s \o <<>> = s
OBVIOUS

LEMMA ItemAlone ==
  ASSUME NEW v, NEW u, IsValue(v, u)
  PROVE  IsRest("items", v, <<u>>)
<1> DEFINE e == <<>>
           s == v \o e
           p == Put(u, e)
           one == <<u>>
<1>1. IsRest("items", e, e)
  BY RestEmpty
<1>2. s = v
  BY NothingAfter DEF IsValue
<1>3. p = one
  BY DEF Put
<1> HIDE DEF e
<1>4. IsRest("items", s, p)
  BY <1>1, ItemFirst
<1> HIDE DEF s, p, one
<1>5. IsRest("items", v, one)
  BY <1>2, <1>3, <1>4
<1> QED BY <1>5 DEF one

LEMMA TwoItems ==
  ASSUME NEW v, NEW u, IsValue(v, u), NEW s, NEW t, IsValue(s, t)
  PROVE  IsRest("items", v \o s, <<u, t>>)
<1> DEFINE y == <<t>>
<1>1. IsRest("items", s, y)
  <2>1. IsRest("items", s, <<t>>)
    BY ItemAlone
  <2> QED BY <2>1
<1>2. Put(u, y) = <<u, t>>
  BY TwoTokens DEF Put
<1> HIDE DEF y
<1>3. IsRest("items", v \o s, Put(u, y))
  BY <1>1, ItemFirst
<1> QED BY <1>2, <1>3

LEMMA ItemsInArray ==
  ASSUME NEW s, NEW t, IsRest("items", s, t)
  PROVE  IsValue(InArray(s), Means!Array(t))
<1> DEFINE w == "items"
<1>1. w \in {"members", "items"} /\ IsRest(w, s, t)
  OBVIOUS
<1>2. /\ Bracketed(w, s) = InArray(s)
      /\ <<IF w = "members" THEN "struct" ELSE "array", t>> = Means!Array(t)
  BY DEF Bracketed, CloseOf, InArray, Means!Array
<1> HIDE DEF w
<1>3. IsValue(Bracketed(w, s), <<IF w = "members" THEN "struct" ELSE "array", t>>)
  BY <1>1, BracketedIsValue
<1> QED BY <1>2, <1>3

LEMMA MembersInObject ==
  ASSUME NEW s, NEW t, IsRest("members", s, t)
  PROVE  IsValue(<<OpenObject>> \o s \o <<CloseObject>>, <<"struct", t>>)
<1> DEFINE w == "members"
<1>1. w \in {"members", "items"} /\ IsRest(w, s, t)
  OBVIOUS
<1>2. /\ Bracketed(w, s) = <<OpenObject>> \o s \o <<CloseObject>>
      /\ <<IF w = "members" THEN "struct" ELSE "array", t>> = <<"struct", t>>
  BY DEF Bracketed, CloseOf
<1> HIDE DEF w
<1>3. IsValue(Bracketed(w, s), <<IF w = "members" THEN "struct" ELSE "array", t>>)
  BY <1>1, BracketedIsValue
<1> QED BY <1>2, <1>3

\* One member, by its name and the text of its value.
LEMMA MemberAlone ==
  ASSUME NEW k \in Words, NEW v, NEW u, IsValue(v, u)
  PROVE  IsRest("members", <<Str(k)>> \o v, <<Means!Pair(k, u)>>)
<1> DEFINE key == Str(k)
           e == <<>>
           one == <<key.v, 0, u>>
<1>1. key \in JsonTokens /\ key.k = "string" /\ key.v = k
  BY StrTyped
<1>2. IsRest("members", e, e)
  BY RestEmpty
<1> HIDE DEF key
<1>3. KeyValue(key, v, e) = <<key>> \o v
  <2>1. <<key>> \o v \in Seq(JsonTokens)
    BY <1>1 DEF IsValue
  <2> DEFINE s == <<key>> \o v
  <2>2. s \in Seq(JsonTokens)
    BY <2>1
  <2> HIDE DEF s
  <2>3. s \o <<>> = s
    BY <2>2
  <2> QED BY <2>3 DEF s, KeyValue
<1> HIDE DEF one
<1>4. Put(one, e) = <<one>>
  BY DEF Put
<1> HIDE DEF e
<1>5. IsRest("members", KeyValue(key, v, e), Put(one, e))
  BY <1>1, <1>2, MemberFirst DEF one
<1> DEFINE s == <<key>> \o v
           p == <<one>>
<1>6. IsRest("members", s, p)
  <2>1. KeyValue(key, v, e) = s /\ Put(one, e) = p
    BY <1>3, <1>4
  <2> HIDE DEF s, p
  <2> QED BY <1>5, <2>1
<1>7. one = Means!Pair(k, u)
  BY <1>1 DEF one, Means!Pair
<1> HIDE DEF s, p
<1>8. s = <<Str(k)>> \o v
  BY DEF s, key
<1>9. p = <<Means!Pair(k, u)>>
  BY <1>7 DEF p
<1> QED BY <1>6, <1>8, <1>9

LEMMA EmptyTexts ==
  /\ IsValue(NoTokens, Means!Array(<<>>))
  /\ IsValue(<<OpenObject, CloseObject>>, <<"struct", <<>>>>)
<1> DEFINE e == <<>>
<1>1. IsRest("items", e, e) /\ IsRest("members", e, e)
  BY RestEmpty
<1>2. ASSUME NEW x, NEW y
      PROVE  <<x>> \o e \o <<y>> = <<x, y>>
  <2> DEFINE s == <<x>>
             r == <<y>>
  <2>1. s \in Seq({x}) /\ s \o r = <<x, y>>
    BY TwoTokens
  <2> HIDE DEF s, r
  <2>2. s \o <<>> = s
    BY <2>1, NothingAfter
  <2> QED BY <2>1, <2>2 DEF s, r
<1> HIDE DEF e
<1>3. IsValue(InArray(e), Means!Array(e))
  BY <1>1, ItemsInArray
<1>4. IsValue(<<OpenObject>> \o e \o <<CloseObject>>, <<"struct", e>>)
  BY <1>1, MembersInObject
<1>5. InArray(e) = NoTokens /\ <<OpenObject>> \o e \o <<CloseObject>> = <<OpenObject, CloseObject>>
  BY <1>2 DEF InArray, NoTokens
<1> QED BY <1>3, <1>4, <1>5 DEF e

\* The arrays of names that stand in for fields and attributes left out.
LEMMA DefaultTexts ==
  /\ IsValue(DefaultFields, Means!Array(<<Means!Text("id"), Means!Text("name")>>))
  /\ IsValue(DefaultAttributes,
             Means!Array(<<Means!Text("string"), Means!Text("type"), Means!Text("required")>>))
<1>1. ASSUME NEW s \in Words
      PROVE  IsValue(<<Str(s)>>, Means!Text(s))
  <2> DEFINE x == Str(s)
  <2>1. x \in JsonTokens /\ x.k \in Scalars \cup {"string"} /\ Leaf(x) = Means!Text(s)
    BY StrTyped
  <2> HIDE DEF x
  <2>2. IsValue(<<x>>, Leaf(x))
    BY <2>1, TokenIsValue
  <2> QED BY <2>1, <2>2 DEF x
<1>2. ASSUME NEW a \in Words, NEW b \in Words
      PROVE  IsRest("items", <<Str(a), Str(b)>>, <<Means!Text(a), Means!Text(b)>>)
  <2> DEFINE x == <<Str(a)>>
             y == <<Str(b)>>
             u == Means!Text(a)
             t == Means!Text(b)
  <2>1. IsValue(x, u) /\ IsValue(y, t)
    BY <1>1
  <2>2. x \o y = <<Str(a), Str(b)>>
    BY TwoTokens
  <2> HIDE DEF x, y, u, t
  <2>3. IsRest("items", x \o y, <<u, t>>)
    BY <2>1, TwoItems
  <2> QED BY <2>2, <2>3 DEF u, t
<1>3. ASSUME NEW a \in Words, NEW b \in Words, NEW c \in Words
      PROVE  IsRest("items", <<Str(a), Str(b), Str(c)>>,
                    <<Means!Text(a), Means!Text(b), Means!Text(c)>>)
  <2> DEFINE x == <<Str(a)>>
             y == <<Str(b), Str(c)>>
             u == Means!Text(a)
             t == <<Means!Text(b), Means!Text(c)>>
  <2>1. IsValue(x, u) /\ IsRest("items", y, t)
    BY <1>1, <1>2
  <2>2. x \o y = <<Str(a), Str(b), Str(c)>>
    BY Join12
  <2>3. Put(u, t) = <<u, Means!Text(b), Means!Text(c)>>
    BY Join12 DEF Put
  <2> HIDE DEF x, y, u, t
  <2>4. IsRest("items", x \o y, Put(u, t))
    BY <2>1, ItemFirst
  <2> QED BY <2>2, <2>3, <2>4 DEF u
<1>4. {"id", "name", "string", "type", "required"} \subseteq Words
  BY DEF Words
<1>5. IsValue(DefaultFields, Means!Array(<<Means!Text("id"), Means!Text("name")>>))
  <2> DEFINE s == <<Str("id"), Str("name")>>
             t == <<Means!Text("id"), Means!Text("name")>>
  <2>1. IsRest("items", s, t)
    BY <1>2, <1>4
  <2>2. InArray(s) = DefaultFields
    <3>1. <<OpenArray>> \o s = <<OpenArray, Str("id"), Str("name")>>
      BY Join12
    <3>2. <<OpenArray, Str("id"), Str("name")>> \o <<CloseArray>> = DefaultFields
      BY Join31 DEF DefaultFields
    <3> QED BY <3>1, <3>2 DEF InArray
  <2> HIDE DEF s, t
  <2>3. IsValue(InArray(s), Means!Array(t))
    BY <2>1, ItemsInArray
  <2> QED BY <2>2, <2>3 DEF t
<1>6. IsValue(DefaultAttributes,
              Means!Array(<<Means!Text("string"), Means!Text("type"), Means!Text("required")>>))
  <2> DEFINE s == <<Str("string"), Str("type"), Str("required")>>
             t == <<Means!Text("string"), Means!Text("type"), Means!Text("required")>>
  <2>1. IsRest("items", s, t)
    BY <1>3, <1>4
  <2>2. InArray(s) = DefaultAttributes
    <3>1. <<OpenArray>> \o s = <<OpenArray, Str("string"), Str("type"), Str("required")>>
      BY Join13
    <3>2. <<OpenArray, Str("string"), Str("type"), Str("required")>> \o <<CloseArray>> = DefaultAttributes
      BY Join41 DEF DefaultAttributes
    <3> QED BY <3>1, <3>2 DEF InArray
  <2> HIDE DEF s, t
  <2>3. IsValue(InArray(s), Means!Array(t))
    BY <2>1, ItemsInArray
  <2> QED BY <2>2, <2>3 DEF t
<1> QED BY <1>5, <1>6

----------------------------------------------------------------------------
(* The calls the tools place are the calls they mean. *)

LEMMA LeafNamed ==
  ASSUME NEW k \in Words, NEW x \in JsonTokens, x.k \in Scalars \cup {"string"}
  PROVE  IsRest("members", <<Str(k), x>>, <<Means!Pair(k, Leaf(x))>>)
<1> DEFINE key == Str(k)
           s == <<key, x>>
           t == <<<<key.v, 0, Leaf(x)>>>>
<1>1. key \in JsonTokens /\ key.k = "string" /\ key.v = k
  BY StrTyped
<1>2. t = <<Means!Pair(k, Leaf(x))>>
  BY <1>1 DEF Means!Pair
<1> HIDE DEF key, t
<1>3. IsRest("members", s, <<<<key.v, 0, Leaf(x)>>>>)
  BY <1>1, LeafMember
<1> QED BY <1>2, <1>3 DEF key, t

\* The order is passed on if it is a string.
LEMMA OrderPassed ==
  ASSUME NEW doc \in Seq(JsonTokens), NEW v, NEW tree, Denotes(doc, v, tree)
  PROVE  IsRest("members",
                IF Have(v) /\ v.type = "string"
                  THEN <<Str("order"), jbuf_sj_str(doc[v.start])>> ELSE <<>>,
                IF tree # Means!Absent /\ Means!IsString(tree)
                  THEN <<Means!Pair("order", tree)>> ELSE <<>>)
<1> DEFINE x == doc[v.start]
           given == Have(v) /\ v.type = "string"
           wanted == tree # Means!Absent /\ Means!IsString(tree)
<1>1. Len(doc) \in Nat
  BY PlainTyped
<1>2. /\ Have(v) <=> tree # Means!Absent
      /\ Have(v) => /\ v.start \in 1..Len(doc) /\ v.type = doc[v.start].k
                    /\ v.type \in Scalars \cup Openings \cup {"string"}
                    /\ Parse(doc)[<<"value", v.start>>].ok
                    /\ tree = Parse(doc)[<<"value", v.start>>].tree
                    /\ tree[1] = TagOf(v.type)
  BY <1>1, DenotedTag
<1>3. \A k \in Scalars \cup Openings \cup {"string"} : TagOf(k) = "string" <=> k = "string"
  BY DEF TagOf, Scalars, Openings
<1>4. given <=> wanted
  BY <1>2, <1>3 DEF Means!IsString
<1>5. ASSUME given
      PROVE  IsRest("members", <<Str("order"), jbuf_sj_str(x)>>, <<Means!Pair("order", tree)>>)
  <2>1. x \in JsonTokens
    BY <1>2, <1>5, PlainTyped
  <2>2. jbuf_sj_str(x) = x
    BY <2>1, PlainAgain
  <2>3. x.k \in Scalars \cup {"string"}
    BY <1>2, <1>5
  <2>4. tree = Leaf(x)
    <3>1. v.start \in 1..(Len(doc) + 1)
      BY <1>1, <1>2, <1>5
    <3> QED BY <1>1, <1>2, <1>5, <2>3, <3>1, TreeOfValue
  <2> DEFINE k == "order"
  <2>5. k \in Words
    BY DEF Words
  <2> HIDE DEF k, x
  <2>6. IsRest("members", <<Str(k), x>>, <<Means!Pair(k, Leaf(x))>>)
    BY <2>1, <2>3, <2>5, LeafNamed
  <2> QED BY <2>2, <2>4, <2>6 DEF k
<1>6. IsRest("members", <<>>, <<>>)
  BY RestEmpty
<1> HIDE DEF x
<1>7. CASE given
  <2> DEFINE s == <<Str("order"), jbuf_sj_str(x)>>
             t == <<Means!Pair("order", tree)>>
  <2>1. IsRest("members", s, t)
    BY <1>5, <1>7
  <2> HIDE DEF s, t
  <2>2. IsRest("members", IF given THEN s ELSE <<>>, IF wanted THEN t ELSE <<>>)
    BY <1>4, <1>7, <2>1
  <2> QED BY <2>2 DEF s, t, x
<1>8. CASE ~given
  <2> DEFINE s == <<Str("order"), jbuf_sj_str(x)>>
             t == <<Means!Pair("order", tree)>>
  <2> HIDE DEF s, t
  <2>2. IsRest("members", IF given THEN s ELSE <<>>, IF wanted THEN t ELSE <<>>)
    BY <1>4, <1>6, <1>8
  <2> QED BY <2>2 DEF s, t, x
<1> QED BY <1>7, <1>8

\* The text of four members of a call, as they are appended one by one.
LEMMA KwargsText ==
  ASSUME NEW f \in JsonTokens, NEW s \in Seq(JsonTokens),
         NEW l \in Seq(JsonTokens), NEW r \in Seq(JsonTokens)
  PROVE  <<OpenObject, f>> \o s \o l \o r \o <<CloseObject>>
           = <<OpenObject>> \o (((<<f>> \o s) \o l) \o r) \o <<CloseObject>>
<1> DEFINE o == <<OpenObject>>
           c == <<CloseObject>>
           g == <<f>>
           h == <<OpenObject, f>>
<1>1. o \in Seq(JsonTokens) /\ c \in Seq(JsonTokens) /\ g \in Seq(JsonTokens)
  BY Brackets
<1>2. o \o g = h
  BY TwoTokens
<1> HIDE DEF o, c, g, h
<1> DEFINE gs == g \o s
           gl == gs \o l
           gr == gl \o r
<1>3. gs \in Seq(JsonTokens)
  BY <1>1
<1>4. (o \o g) \o s = o \o gs
  <2>1. o \in Seq(JsonTokens)
    BY <1>1
  <2>2. g \in Seq(JsonTokens)
    BY <1>1
  <2> QED BY <2>1, <2>2, Regroup, Zenon
<1> HIDE DEF gs
<1>5. gl \in Seq(JsonTokens)
  BY <1>3
<1>6. (o \o gs) \o l = o \o gl
  <2>1. o \in Seq(JsonTokens)
    BY <1>1
  <2> QED BY <1>3, <2>1, Regroup, Zenon
<1> HIDE DEF gl
<1>8. (o \o gl) \o r = o \o gr
  <2>1. o \in Seq(JsonTokens)
    BY <1>1
  <2> QED BY <1>5, <2>1, Regroup, Zenon
<1>7. ((h \o s) \o l) \o r = o \o (((g \o s) \o l) \o r)
  BY <1>2, <1>4, <1>6, <1>8 DEF gs, gl
<1> QED BY <1>7 DEF o, c, g, h

Arg(a, name, default) == Means!Or(Means!Member(a, name), default)

DefaultNames == Means!Array(<<Means!Text("id"), Means!Text("name")>>)

\* The keyword arguments of a search, without and with its order.
SearchTrees(a) ==
    <<Means!Pair("fields", Arg(a, "fields", DefaultNames)),
      Means!Pair("limit", Means!Capped(Arg(a, "limit", <<"number", "int", 80>>))),
      Means!Pair("offset", Arg(a, "offset", <<"number", "int", 0>>))>>

OrderTrees(a) ==
    LET order == Means!Member(a, "order")
    IN  IF order # Means!Absent /\ Means!IsString(order)
        THEN <<Means!Pair("order", order)>> ELSE <<>>

\* A limit and an offset are integers, if there are any.
Counted(a) ==
    \A n \in {"limit", "offset"} :
      Means!Member(a, n) = Means!Absent \/ IsInteger(Means!Member(a, n))

\* The limit, if there is one, is within the cap.
Within(a) ==
    Means!Member(a, "limit") # Means!Absent
      => Means!Capped(Means!Member(a, "limit")) = Means!Member(a, "limit")

LEMMA LimitWithin ==
  ASSUME NEW a, Within(a)
  PROVE  Means!Capped(Arg(a, "limit", <<"number", "int", 80>>))
           = Arg(a, "limit", <<"number", "int", 80>>)
<1> DEFINE tree == Means!Member(a, "limit")
           n == <<"number", "int", 80>>
<1>1. Means!Capped(n) = n
  BY DEF Means!Capped, Means!LimitCap
<1>2. tree # Means!Absent => Means!Capped(tree) = tree
  BY DEF Within
<1> HIDE DEF tree, n
<1>3. Means!Capped(Means!Or(tree, n)) = Means!Or(tree, n)
  <2>1. CASE tree = Means!Absent
    BY <1>1, <2>1 DEF Means!Or
  <2>2. CASE tree # Means!Absent
    BY <1>2, <2>2 DEF Means!Or
  <2> QED BY <2>1, <2>2
<1> QED BY <1>3 DEF tree, n, Arg

\* The tokens of the keyword arguments of a search.
LEMMA FitKwargs ==
  ASSUME NEW f \in Seq(FitTokens), NEW x \in FitTokens, NEW y \in FitTokens,
         NEW d \in Seq(FitTokens)
  PROVE  <<OpenObject, Str("fields")>> \o f \o <<Str("limit"), x, Str("offset"), y>>
           \o d \o <<CloseObject>> \in Seq(FitTokens)
<1>1. {"fields", "limit", "offset"} \subseteq Words
  BY DEF Words
<1>2. Str("fields") \in FitTokens /\ Str("limit") \in FitTokens /\ Str("offset") \in FitTokens
  <2>1. \A w \in {"fields", "limit", "offset"} : Str(w) \in FitTokens
    BY <1>1, StrTyped, FitToken
  <2> QED BY <2>1
<1>3. OpenObject \in FitTokens /\ CloseObject \in FitTokens
  BY Brackets, FitToken
<1> DEFINE h == <<OpenObject, Str("fields")>>
           m == <<Str("limit"), x, Str("offset"), y>>
           c == <<CloseObject>>
<1>4. h \in Seq(FitTokens) /\ m \in Seq(FitTokens) /\ c \in Seq(FitTokens)
  BY <1>2, <1>3
<1> HIDE DEF h, m, c
<1>5. h \o f \in Seq(FitTokens)
  BY <1>4
<1>6. (h \o f) \o m \in Seq(FitTokens)
  BY <1>4, <1>5
<1>7. ((h \o f) \o m) \o d \in Seq(FitTokens)
  BY <1>6
<1>8. (((h \o f) \o m) \o d) \o c \in Seq(FitTokens)
  BY <1>4, <1>7
<1> QED BY <1>8 DEF h, m, c

\* The default texts hold no number.
LEMMA FitDefaults ==
  /\ DefaultFields \in Seq(FitTokens) /\ DefaultAttributes \in Seq(FitTokens)
  /\ NoTokens \in Seq(FitTokens) /\ <<OpenObject, CloseObject>> \in Seq(FitTokens)
<1>1. {"id", "name", "string", "type", "required"} \subseteq Words
  BY DEF Words
<1>2. \A w \in {"id", "name", "string", "type", "required"} : Str(w) \in FitTokens
  BY <1>1, StrTyped, FitToken
<1>3. /\ OpenObject \in FitTokens /\ CloseObject \in FitTokens
      /\ OpenArray \in FitTokens /\ CloseArray \in FitTokens
  BY Brackets, FitToken
<1> QED BY <1>2, <1>3 DEF DefaultFields, DefaultAttributes, NoTokens

LEMMA FitArray ==
  ASSUME NEW s \in Seq(FitTokens)
  PROVE  InArray(s) \in Seq(FitTokens)
<1>1. OpenArray \in FitTokens /\ CloseArray \in FitTokens
  BY Brackets, FitToken
<1> QED BY <1>1 DEF InArray

LEMMA SearchKwargsMeant ==
  ASSUME NEW doc \in Seq(JsonTokens), doc \in Seq(FitTokens), NEW members, NEW a,
         Fields(doc, members, a), Counted(a), Within(a)
  PROVE  LET kwargs == SearchKwargs(doc, Field(doc, members, "fields"), Field(doc, members, "limit"),
                                    Field(doc, members, "offset"), Field(doc, members, "order"))
         IN  /\ IsValue(kwargs, <<"struct", SearchTrees(a) \o OrderTrees(a)>>)
             /\ kwargs \in Seq(FitTokens)
<1> DEFINE limit == Field(doc, members, "limit")
           offset == Field(doc, members, "offset")
           order == Field(doc, members, "order")
           cf == Copied(doc, Field(doc, members, "fields"), DefaultFields)
           x == IF Have(limit) THEN sj_ll(doc, limit) ELSE Num(80)
           y == IF Have(offset) THEN sj_ll(doc, offset) ELSE Num(0)
           l == Str("limit")
           o == Str("offset")
           f == Str("fields")
           d == IF Have(order) /\ order.type = "string"
                THEN <<Str("order"), jbuf_sj_str(doc[order.start])>> ELSE <<>>
           pf == Means!Pair("fields", Arg(a, "fields", DefaultNames))
           pl == Means!Pair("limit", Means!Capped(Arg(a, "limit", <<"number", "int", 80>>)))
           po == Means!Pair("offset", Arg(a, "offset", <<"number", "int", 0>>))
           w == OrderTrees(a)
<1>1. \A name : Denotes(doc, Field(doc, members, name), Means!Member(a, name))
  BY DEF Fields
<1>2. {"fields", "limit", "offset"} \subseteq Words
  BY DEF Words
<1>3. IsRest("members", <<f>> \o cf, <<pf>>)
  <2> DEFINE v == Field(doc, members, "fields")
             tree == Means!Member(a, "fields")
             u == Means!Or(tree, DefaultNames)
             k == "fields"
  <2>1. Denotes(doc, v, tree)
    BY <1>1
  <2>2. IsValue(DefaultFields, DefaultNames)
    BY DefaultTexts DEF DefaultNames
  <2> HIDE DEF v, tree
  <2>3. IsValue(Copied(doc, v, DefaultFields), u)
    BY <2>1, <2>2, CopiedIsValue
  <2>4. k \in Words
    BY <1>2
  <2> DEFINE s == Copied(doc, v, DefaultFields)
  <2> HIDE DEF u, k, s
  <2>5. IsRest("members", <<Str(k)>> \o s, <<Means!Pair(k, u)>>)
    BY <2>3, <2>4, MemberAlone DEF s
  <2> QED BY <2>5 DEF u, k, s, v, tree, Arg
<1>4. /\ x \in FitTokens /\ x \in JsonTokens /\ x.k = "number"
      /\ Leaf(x) = Arg(a, "limit", <<"number", "int", 80>>)
  <2> DEFINE v == Field(doc, members, "limit")
             tree == Means!Member(a, "limit")
             n == 80
             z == IF Have(v) THEN sj_ll(doc, v) ELSE Num(n)
  <2>1. Denotes(doc, v, tree)
    BY <1>1
  <2>2. (tree = Means!Absent \/ IsInteger(tree)) /\ n \in {80, 0}
    BY DEF Counted
  <2> HIDE DEF v, tree, n
  <2>3. /\ z \in FitTokens /\ z \in JsonTokens /\ z.k = "number"
        /\ Leaf(z) = Means!Or(tree, <<"number", "int", n>>)
    BY <2>1, <2>2, NumberCopied
  <2> QED BY <2>3 DEF v, tree, n, Arg
<1>5. /\ y \in FitTokens /\ y \in JsonTokens /\ y.k = "number"
      /\ Leaf(y) = Arg(a, "offset", <<"number", "int", 0>>)
  <2> DEFINE v == Field(doc, members, "offset")
             tree == Means!Member(a, "offset")
             n == 0
             z == IF Have(v) THEN sj_ll(doc, v) ELSE Num(n)
  <2>1. Denotes(doc, v, tree)
    BY <1>1
  <2>2. (tree = Means!Absent \/ IsInteger(tree)) /\ n \in {80, 0}
    BY DEF Counted
  <2> HIDE DEF v, tree, n
  <2>3. /\ z \in FitTokens /\ z \in JsonTokens /\ z.k = "number"
        /\ Leaf(z) = Means!Or(tree, <<"number", "int", n>>)
    BY <2>1, <2>2, NumberCopied
  <2> QED BY <2>3 DEF v, tree, n, Arg
<1> HIDE DEF x, y
<1>6. IsRest("members", <<l, x>>, <<pl>>)
  <2> DEFINE k == "limit"
  <2>1. k \in Words /\ x \in JsonTokens /\ x.k \in Scalars \cup {"string"}
    BY <1>2, <1>4 DEF Scalars
  <2> HIDE DEF k
  <2>2. IsRest("members", <<Str(k), x>>, <<Means!Pair(k, Leaf(x))>>)
    BY <2>1, LeafNamed
  <2> QED BY <1>4, <2>2, LimitWithin DEF k
<1>7. IsRest("members", <<o, y>>, <<po>>)
  <2> DEFINE k == "offset"
  <2>1. k \in Words /\ y \in JsonTokens /\ y.k \in Scalars \cup {"string"}
    BY <1>2, <1>5 DEF Scalars
  <2> HIDE DEF k
  <2>2. IsRest("members", <<Str(k), y>>, <<Means!Pair(k, Leaf(y))>>)
    BY <2>1, LeafNamed
  <2> QED BY <1>5, <2>2 DEF k
<1>8. IsRest("members", d, w)
  <2> DEFINE tree == Means!Member(a, "order")
  <2>1. Denotes(doc, order, tree)
    BY <1>1
  <2> HIDE DEF order, tree
  <2>2. IsRest("members",
               IF Have(order) /\ order.type = "string"
                 THEN <<Str("order"), jbuf_sj_str(doc[order.start])>> ELSE <<>>,
               IF tree # Means!Absent /\ Means!IsString(tree)
                 THEN <<Means!Pair("order", tree)>> ELSE <<>>)
    BY <2>1, OrderPassed
  <2> QED BY <2>2 DEF order, tree, OrderTrees
<1>9. f \in JsonTokens
  BY <1>2, StrTyped
<1>10. SearchKwargs(doc, Field(doc, members, "fields"), limit, offset, order)
         = <<OpenObject, f>> \o cf \o <<l, x, o, y>> \o d \o <<CloseObject>>
  BY DEF SearchKwargs, x, y
<1>11. cf \in Seq(JsonTokens)
  <2> DEFINE v == Field(doc, members, "fields")
             tree == Means!Member(a, "fields")
  <2>1. Denotes(doc, v, tree)
    BY <1>1
  <2>2. IsValue(DefaultFields, DefaultNames)
    BY DefaultTexts DEF DefaultNames
  <2> HIDE DEF v, tree
  <2>3. IsValue(Copied(doc, v, DefaultFields), Means!Or(tree, DefaultNames))
    BY <2>1, <2>2, CopiedIsValue
  <2> QED BY <2>3 DEF IsValue, v
<1>25. d \in Seq(FitTokens)
  <2>1. CASE ~(Have(order) /\ order.type = "string")
    BY <2>1
  <2>2. CASE Have(order) /\ order.type = "string"
    <3> DEFINE tree == Means!Member(a, "order")
               t == doc[order.start]
    <3>1. Denotes(doc, order, tree) /\ Len(doc) \in Nat
      BY <1>1, PlainTyped
    <3> HIDE DEF order, tree
    <3>2. order.start \in 1..Len(doc) /\ order.type = doc[order.start].k
      BY <2>2, <3>1, DenotedTag
    <3>3. t \in JsonTokens /\ t.k # "number"
      BY <2>2, <3>2, PlainTyped
    <3>4. jbuf_sj_str(t) = t
      BY <3>3, PlainAgain
    <3>5. Str("order") \in FitTokens
      <4> DEFINE k == "order"
      <4>1. k \in Words
        BY DEF Words
      <4> HIDE DEF k
      <4>2. Str(k) \in FitTokens
        BY <4>1, StrTyped, FitToken
      <4> QED BY <4>2 DEF k
    <3>6. t \in FitTokens
      BY <3>3, FitToken
    <3>7. d = <<Str("order"), t>>
      BY <2>2, <3>4
    <3> HIDE DEF t, d
    <3> QED BY <3>5, <3>6, <3>7
  <2> QED BY <2>1, <2>2
<1>26. cf \in Seq(FitTokens)
  <2> DEFINE v == Field(doc, members, "fields")
             tree == Means!Member(a, "fields")
  <2>1. Denotes(doc, v, tree)
    BY <1>1
  <2> HIDE DEF v, tree
  <2>2. Copied(doc, v, DefaultFields) \in Seq(FitTokens)
    BY <2>1, FitCopied, FitDefaults
  <2> QED BY <2>2 DEF v
<1>27. SearchKwargs(doc, Field(doc, members, "fields"), limit, offset, order) \in Seq(FitTokens)
  <2> HIDE DEF cf, d
  <2> QED BY <1>4, <1>5, <1>10, <1>25, <1>26, FitKwargs
<1>12. SearchTrees(a) = <<pf, pl, po>>
  BY DEF SearchTrees
<1> HIDE DEF cf, l, o, f, d, pf, pl, po, w, limit, offset, order
<1> DEFINE lx == <<l, x>>
           oy == <<o, y>>
           both == <<l, x, o, y>>
           tl == <<pl>>
           to == <<po>>
           tf == <<pf>>
           tb == <<pl, po>>
           fs == <<f>> \o cf
           ts == <<pf, pl, po>>
<1>13. /\ lx \o oy = both /\ tl \o to = tb /\ tf \o tb = ts
  BY Join22, TwoTokens, Join12
<1>14. IsRest("members", lx, tl) /\ IsRest("members", oy, to) /\ IsRest("members", fs, tf)
  BY <1>3, <1>6, <1>7
<1> HIDE DEF lx, oy, both, tl, to, tf, tb, fs, ts
<1>15. IsRest("members", both, tb)
  BY <1>13, <1>14, MembersJoin
<1>16. IsRest("members", fs \o both, ts)
  <2>1. IsRest("members", fs \o both, tf \o tb)
    BY <1>14, <1>15, MembersJoin
  <2> QED BY <1>13, <2>1
<1>17. IsRest("members", (fs \o both) \o d, ts \o w)
  BY <1>8, <1>16, MembersJoin
<1> DEFINE all == (fs \o both) \o d
           tree == ts \o w
<1>18. both \in Seq(JsonTokens) /\ d \in Seq(JsonTokens)
  BY <1>8, <1>15 DEF IsRest
<1>19. <<OpenObject, f>> \o cf \o both \o d \o <<CloseObject>> = <<OpenObject>> \o all \o <<CloseObject>>
  BY <1>9, <1>11, <1>18, KwargsText DEF fs
<1>20. IsRest("members", all, tree)
  BY <1>17
<1> HIDE DEF all, tree
<1>21. IsValue(<<OpenObject>> \o all \o <<CloseObject>>, <<"struct", tree>>)
  BY <1>20, MembersInObject
<1>22. SearchKwargs(doc, Field(doc, members, "fields"), limit, offset, order)
         = <<OpenObject>> \o all \o <<CloseObject>>
  BY <1>10, <1>19 DEF both
<1>23. tree = SearchTrees(a) \o OrderTrees(a)
  BY <1>12 DEF tree, ts, w
<1> QED BY <1>21, <1>22, <1>23, <1>27 DEF limit, offset, order

LEMMA CallMeant ==
  ASSUME NEW m, NEW verb, NEW s, NEW t, IsValue(s, t), s \in Seq(FitTokens),
         NEW k, NEW u, IsValue(k, u), k \in Seq(FitTokens)
  PROVE  XmlCall(Call(m, verb, s, k)) = [model |-> m, method |-> verb, args |-> t, kwargs |-> u]
<1>1. json_to_xmlrpc(s) = t /\ json_to_xmlrpc(k) = u
  BY ValueConverts
<1>2. XmlCall(Call(m, verb, s, k))
        = [model |-> m, method |-> verb, args |-> json_to_xmlrpc(s), kwargs |-> json_to_xmlrpc(k)]
  <2> DEFINE c == Call(m, verb, s, k)
  <2>1. c = [model |-> m, method |-> verb, args |-> s, kwargs |-> k]
    BY DEF Call
  <2>2. c.args = s /\ c.kwargs = k
    BY DEF Call
  <2>3. XmlCall(c) = [c EXCEPT !.args = json_to_xmlrpc(c.args), !.kwargs = json_to_xmlrpc(c.kwargs)]
    BY DEF XmlCall
  <2>4. ASSUME NEW x, NEW y
        PROVE  [c EXCEPT !.args = x, !.kwargs = y]
                 = [model |-> m, method |-> verb, args |-> x, kwargs |-> y]
    <3> DEFINE d == [c EXCEPT !.args = x]
    <3>1. [c EXCEPT !.args = x, !.kwargs = y] = [d EXCEPT !.kwargs = y]
      OBVIOUS
    <3>2. d = [model |-> m, method |-> verb, args |-> x, kwargs |-> k]
      BY DEF Call
    <3> DEFINE e == [model |-> m, method |-> verb, args |-> x, kwargs |-> k]
    <3>3. [e EXCEPT !.kwargs = y] = [model |-> m, method |-> verb, args |-> x, kwargs |-> y]
      OBVIOUS
    <3> HIDE DEF d, e, c
    <3> QED BY <3>1, <3>2, <3>3 DEF e
  <2> HIDE DEF c
  <2>5. XmlCall(c) = [c EXCEPT !.args = json_to_xmlrpc(s), !.kwargs = json_to_xmlrpc(k)]
    BY <2>2, <2>3
  <2> QED BY <2>4, <2>5 DEF c
<1> QED BY <1>1, <1>2

\* What dispatch_tool has decided when it places a call.
LEMMA CallPlaced ==
  ASSUME NEW doc, NEW members, NEW id, NEW w \in {"search_read_records", "get_model_fields", "update_record"},
         dispatch_tool(w, doc, members, id).kind = "call"
  PROVE  LET h == dispatch_tool(w, doc, members, id)
             model == ModelField(doc, members)
             F(name) == Field(doc, members, name)
         IN  /\ Have(model)
             /\ w = "search_read_records" =>
                  h.call = Call(doc[model.start].v, "search_read",
                                InArray(Copied(doc, F("domain"), NoTokens)),
                                SearchKwargs(doc, F("fields"), F("limit"), F("offset"), F("order")))
             /\ w = "get_model_fields" =>
                  h.call = Call(doc[model.start].v, "fields_get", InArray(NoTokens),
                                <<OpenObject, Str("attributes")>>
                                  \o Copied(doc, F("attributes"), DefaultAttributes) \o <<CloseObject>>)
             /\ w = "update_record" =>
                  /\ Have(F("record_ids")) /\ Have(F("values"))
                  /\ h.call = Call(doc[model.start].v, "write",
                                   InArray(sj_value_to_json(doc, F("record_ids"))
                                             \o sj_value_to_json(doc, F("values"))),
                                   <<OpenObject, CloseObject>>)
<1> DEFINE h == dispatch_tool(w, doc, members, id)
           model == ModelField(doc, members)
           F(name) == Field(doc, members, name)
<1>1. Outcome("tool_error", id, 0, NoCall).kind # "call"
  BY DEF Outcome
<1>2. ASSUME NEW c PROVE Outcome("call", id, 0, c).call = c
  BY DEF Outcome
<1>3. Have(model)
  <2>1. CASE ~Have(model)
    <3>1. h = Outcome("tool_error", id, 0, NoCall)
      BY <2>1 DEF dispatch_tool
    <3> QED BY <1>1, <3>1
  <2> QED BY <2>1
<1>4. CASE w = "search_read_records"
  <2>1. h = Outcome("call", id, 0, Call(doc[model.start].v, "search_read",
                                InArray(Copied(doc, F("domain"), NoTokens)),
                                SearchKwargs(doc, F("fields"), F("limit"), F("offset"), F("order"))))
    BY <1>3, <1>4 DEF dispatch_tool
  <2> QED BY <1>2, <1>3, <1>4, <2>1
<1>5. CASE w = "get_model_fields"
  <2>1. h = Outcome("call", id, 0, Call(doc[model.start].v, "fields_get", InArray(NoTokens),
                                <<OpenObject, Str("attributes")>>
                                  \o Copied(doc, F("attributes"), DefaultAttributes) \o <<CloseObject>>))
    BY <1>3, <1>5 DEF dispatch_tool
  <2> QED BY <1>2, <1>3, <1>5, <2>1
<1>6. CASE w = "update_record"
  <2>1. CASE NothingToWrite(F("record_ids"), F("values"))
    <3>1. h = Outcome("tool_error", id, 0, NoCall)
      BY <1>3, <1>6, <2>1 DEF dispatch_tool
    <3> QED BY <1>1, <3>1
  <2>2. CASE ~NothingToWrite(F("record_ids"), F("values"))
    <3>1. h = Outcome("call", id, 0, Call(doc[model.start].v, "write",
                                   InArray(sj_value_to_json(doc, F("record_ids"))
                                             \o sj_value_to_json(doc, F("values"))),
                                   <<OpenObject, CloseObject>>))
      BY <1>3, <1>6, <2>2 DEF dispatch_tool
    <3>2. Have(F("record_ids")) /\ Have(F("values"))
      BY <2>2 DEF NothingToWrite
    <3> QED BY <1>2, <1>3, <1>6, <3>1, <3>2
  <2> QED BY <2>1, <2>2
<1> QED BY <1>4, <1>5, <1>6

\* What a request for one of the tools means.
LEMMA MeaningOf ==
  ASSUME NEW req, NEW w \in {"search_read_records", "get_model_fields", "update_record"},
         Means!Tool(req) = Means!Text(w)
  PROVE  LET a == Means!Arguments(req)
             m == Means!Model(a)[2]
         IN  /\ w = "search_read_records" =>
                  Means!Meaning(req) =
                    [model |-> m, method |-> "search_read",
                     args |-> Means!Array(<<Arg(a, "domain", Means!Array(<<>>))>>),
                     kwargs |-> <<"struct", SearchTrees(a) \o OrderTrees(a)>>]
             /\ w = "get_model_fields" =>
                  Means!Meaning(req) =
                    [model |-> m, method |-> "fields_get",
                     args |-> Means!Array(<<Means!Array(<<>>)>>),
                     kwargs |-> <<"struct",
                       <<Means!Pair("attributes",
                                    Arg(a, "attributes",
                                        Means!Array(<<Means!Text("string"), Means!Text("type"),
                                                      Means!Text("required")>>)))>>>>]
             /\ w = "update_record" =>
                  Means!Meaning(req) =
                    [model |-> m, method |-> "write",
                     args |-> Means!Array(<<Means!Member(a, "record_ids"), Means!Member(a, "values")>>),
                     kwargs |-> <<"struct", <<>>>>]
<1> DEFINE a == Means!Arguments(req)
           order == Means!Member(a, "order")
           search == SearchTrees(a)
<1>1. \A v : Means!Tool(req) = Means!Text(v) => v = w
  BY TextsDiffer
<1>2. search \o OrderTrees(a) = IF order # Means!Absent /\ Means!IsString(order)
                                THEN Append(search, Means!Pair("order", order)) ELSE search
  <2> DEFINE p == Means!Pair("order", order)
             x == Means!Pair("fields", Arg(a, "fields", DefaultNames))
             y == Means!Pair("limit", Means!Capped(Arg(a, "limit", <<"number", "int", 80>>)))
             z == Means!Pair("offset", Arg(a, "offset", <<"number", "int", 0>>))
             X == {p, x, y, z}
  <2>1. search = <<x, y, z>>
    BY DEF SearchTrees
  <2>2. <<x, y, z>> \in Seq(X) /\ p \in X
    <3> HIDE DEF x, y, z, p
    <3> QED OBVIOUS
  <2> HIDE DEF x, y, z, search, X
  <2>3. search \in Seq(X)
    BY <2>1, <2>2
  <2>4. search \o <<>> = search
    BY <2>3, NothingAfter
  <2>5. Append(search, p) = search \o <<p>>
    <3> HIDE DEF p
    <3> QED BY <2>2, <2>3
  <2> QED BY <2>4, <2>5 DEF OrderTrees
<1>3. CASE w = "search_read_records"
  <2>1. /\ Means!Tool(req) = Means!Text("search_read_records")
        /\ Means!Tool(req) # Means!Text("get_model_fields")
        /\ Means!Tool(req) # Means!Text("create_record")
        /\ Means!Tool(req) # Means!Text("update_record")
    BY <1>1, <1>3
  <2>2. Means!Meaning(req) =
          [model |-> Means!Model(a)[2], method |-> "search_read",
           args |-> Means!Array(<<Arg(a, "domain", Means!Array(<<>>))>>),
           kwargs |-> <<"struct", IF order # Means!Absent /\ Means!IsString(order)
                                  THEN Append(search, Means!Pair("order", order)) ELSE search>>]
    BY <2>1, Zenon DEF Means!Meaning, SearchTrees, Arg, DefaultNames
  <2> QED BY <1>2, <1>3, <2>2
<1>4. CASE w = "get_model_fields"
  <2>1. /\ Means!Tool(req) # Means!Text("search_read_records")
        /\ Means!Tool(req) = Means!Text("get_model_fields")
        /\ Means!Tool(req) # Means!Text("create_record")
        /\ Means!Tool(req) # Means!Text("update_record")
    BY <1>1, <1>4
  <2>2. Means!Meaning(req) =
                    [model |-> Means!Model(a)[2], method |-> "fields_get",
                     args |-> Means!Array(<<Means!Array(<<>>)>>),
                     kwargs |-> <<"struct",
                       <<Means!Pair("attributes",
                                    Arg(a, "attributes",
                                        Means!Array(<<Means!Text("string"), Means!Text("type"),
                                                      Means!Text("required")>>)))>>>>]
    BY <2>1, Zenon DEF Means!Meaning, Arg
  <2> QED BY <1>4, <2>2
<1>5. CASE w = "update_record"
  <2>1. /\ Means!Tool(req) # Means!Text("search_read_records")
        /\ Means!Tool(req) # Means!Text("get_model_fields")
        /\ Means!Tool(req) # Means!Text("create_record")
        /\ Means!Tool(req) = Means!Text("update_record")
    BY <1>1, <1>5
  <2>2. Means!Meaning(req) =
                    [model |-> Means!Model(a)[2], method |-> "write",
                     args |-> Means!Array(<<Means!Member(a, "record_ids"), Means!Member(a, "values")>>),
                     kwargs |-> <<"struct", <<>>>>]
    BY <2>1, Zenon DEF Means!Meaning
  <2> QED BY <1>5, <2>2
<1> QED BY <1>3, <1>4, <1>5

\* The model of a call is the text of the last model that is a string.
LEMMA ModelText ==
  ASSUME NEW doc \in Seq(JsonTokens), NEW v, NEW tree, Denotes(doc, v, tree), Have(v), v.type = "string"
  PROVE  doc[v.start].v = tree[2]
<1> DEFINE x == doc[v.start]
<1>1. Len(doc) \in Nat
  BY PlainTyped
<1>2. /\ v.start \in 1..Len(doc) /\ v.type = x.k /\ Parse(doc)[<<"value", v.start>>].ok
      /\ tree = Parse(doc)[<<"value", v.start>>].tree
  BY <1>1, DenotedTag
<1>3. tree = Leaf(x)
  <2>1. v.start \in 1..(Len(doc) + 1) /\ x.k \in Scalars \cup {"string"}
    BY <1>1, <1>2
  <2> QED BY <1>1, <1>2, <2>1, TreeOfValue
<1> HIDE DEF x
<1>4. Leaf(x) = <<"string", x.v, Decoded(x.esc)>>
  BY <1>2 DEF Leaf
<1>5. Leaf(x)[2] = x.v
  BY <1>4
<1> QED BY <1>3, <1>5 DEF x

\* The call a tool places is the call that the request means.
LEMMA PlacedIsMeant ==
  ASSUME NEW doc, IsRequest(doc), NEW w \in {"search_read_records", "get_model_fields", "update_record"},
         Means!Tool(JsonTree(doc)) = Means!Text(w), Counted(Means!Arguments(JsonTree(doc))),
         mcp_handle(doc).kind = "call", NumbersFit(doc), Means!WithinCap(JsonTree(doc))
  PROVE  XmlCall(mcp_handle(doc).call) = Means!Meaning(JsonTree(doc))
<1> DEFINE req == JsonTree(doc)
           a == Means!Arguments(req)
           h == mcp_handle(doc)
           m == Means!Model(a)[2]
<1>0. doc \in Seq(JsonTokens)
  BY DEF IsRequest
<1>9. doc \in Seq(FitTokens) /\ Within(a)
  BY <1>0, FitText DEF Means!WithinCap, Within
<1>1. PICK members, id : Fields(doc, members, a) /\ h = dispatch_tool(w, doc, members, id)
  BY ToolCalled
<1> DEFINE model == ModelField(doc, members)
           F(name) == Field(doc, members, name)
           D(name) == Means!Member(a, name)
<1>2. \A name : Denotes(doc, F(name), D(name))
  BY <1>1 DEF Fields
<1>3. dispatch_tool(w, doc, members, id).kind = "call"
  BY <1>1
<1>4. Have(model)
  BY <1>3, CallPlaced
<1>5. doc[model.start].v = m
  <2> DEFINE tree == Means!Model(a)
  <2>1. Denotes(doc, model, tree) /\ model.type = "string"
    BY <1>1, <1>4 DEF Fields
  <2>2. Denotes(doc, model, tree)
    BY <2>1
  <2> HIDE DEF model, tree
  <2>3. doc[model.start].v = tree[2]
    BY <1>0, <1>4, <2>1, <2>2, ModelText
  <2> QED BY <2>3 DEF tree
<1>6. CASE w = "search_read_records"
  <2> DEFINE s == InArray(Copied(doc, F("domain"), NoTokens))
             k == SearchKwargs(doc, F("fields"), F("limit"), F("offset"), F("order"))
             t == Means!Array(<<Arg(a, "domain", Means!Array(<<>>))>>)
             u == <<"struct", SearchTrees(a) \o OrderTrees(a)>>
  <2>1. h.call = Call(m, "search_read", s, k)
    <3>1. h.call = Call(doc[model.start].v, "search_read", s, k)
      BY <1>1, <1>3, <1>6, CallPlaced
    <3> HIDE DEF s, k, h, model
    <3> QED BY <1>5, <3>1
  <2>2. IsValue(s, t)
    <3> DEFINE v == F("domain")
               tree == D("domain")
               other == Means!Array(<<>>)
    <3>1. Denotes(doc, v, tree)
      BY <1>2
    <3>2. IsValue(NoTokens, other)
      BY EmptyTexts
    <3> HIDE DEF v, tree, other
    <3>3. IsValue(Copied(doc, v, NoTokens), Means!Or(tree, other))
      BY <1>0, <3>1, <3>2, CopiedIsValue
    <3> DEFINE c == Copied(doc, v, NoTokens)
               x == Means!Or(tree, other)
    <3> HIDE DEF c, x
    <3>4. IsRest("items", c, <<x>>)
      BY <3>3, ItemAlone DEF c, x
    <3> DEFINE one == <<x>>
    <3> HIDE DEF one
    <3>5. IsValue(InArray(c), Means!Array(one))
      BY <3>4, ItemsInArray DEF one
    <3> QED BY <3>5 DEF one, c, x, v, tree, other, Arg
  <2>3. IsValue(k, u) /\ k \in Seq(FitTokens)
    <3> HIDE DEF a
    <3> QED BY <1>0, <1>1, <1>9, SearchKwargsMeant DEF a
  <2>7. s \in Seq(FitTokens)
    <3> DEFINE v == F("domain")
               tree == D("domain")
               c == Copied(doc, v, NoTokens)
    <3>1. Denotes(doc, v, tree)
      BY <1>2
    <3> HIDE DEF v, tree
    <3>2. c \in Seq(FitTokens)
      BY <1>9, <3>1, FitCopied, FitDefaults
    <3> HIDE DEF c
    <3>3. InArray(c) \in Seq(FitTokens)
      BY <3>2, FitArray
    <3> QED BY <3>3 DEF c, v
  <2>4. Means!Meaning(req) = [model |-> m, method |-> "search_read", args |-> t, kwargs |-> u]
    BY <1>6, MeaningOf
  <2> HIDE DEF s, k, t, u, m, h, req
  <2>5. XmlCall(Call(m, "search_read", s, k)) = [model |-> m, method |-> "search_read", args |-> t, kwargs |-> u]
    BY <2>2, <2>3, <2>7, CallMeant
  <2>6. XmlCall(h.call) = Means!Meaning(req)
    BY <2>1, <2>4, <2>5
  <2> QED BY <2>6 DEF h, req
<1>7. CASE w = "get_model_fields"
  <2> DEFINE f == Str("attributes")
             v == F("attributes")
             tree == D("attributes")
             other == Means!Array(<<Means!Text("string"), Means!Text("type"), Means!Text("required")>>)
             c == Copied(doc, v, DefaultAttributes)
             x == Means!Or(tree, other)
             s == InArray(NoTokens)
             k == <<OpenObject, f>> \o c \o <<CloseObject>>
             t == Means!Array(<<Means!Array(<<>>)>>)
             u == <<"struct", <<Means!Pair("attributes", x)>>>>
  <2>1. h.call = Call(m, "fields_get", s, k)
    <3>1. h.call = Call(doc[model.start].v, "fields_get", s, k)
      BY <1>1, <1>3, <1>7, CallPlaced
    <3> HIDE DEF s, k, h, model
    <3> QED BY <1>5, <3>1
  <2>2. IsValue(s, t)
    <3> DEFINE e == Means!Array(<<>>)
               one == <<e>>
    <3>1. IsValue(NoTokens, e)
      BY EmptyTexts
    <3> HIDE DEF e
    <3>2. IsRest("items", NoTokens, <<e>>)
      BY <3>1, ItemAlone
    <3> HIDE DEF one
    <3>3. IsValue(InArray(NoTokens), Means!Array(one))
      BY <3>2, ItemsInArray DEF one
    <3> QED BY <3>3 DEF one, e
  <2>3. IsValue(c, x)
    <3>1. Denotes(doc, v, tree)
      BY <1>2
    <3>2. IsValue(DefaultAttributes, other)
      BY DefaultTexts
    <3> HIDE DEF v, tree, other
    <3> QED BY <1>0, <3>1, <3>2, CopiedIsValue
  <2>4. Means!Meaning(req) = [model |-> m, method |-> "fields_get", args |-> t, kwargs |-> u]
    BY <1>7, MeaningOf DEF Arg
  <2> HIDE DEF c, x
  <2>5. IsValue(k, u)
    <3> DEFINE n == "attributes"
               fc == <<f>> \o c
               p == <<Means!Pair(n, x)>>
    <3>1. n \in Words
      BY DEF Words
    <3>2. f \in JsonTokens
      BY <3>1, StrTyped
    <3> HIDE DEF n
    <3>3. IsRest("members", <<Str(n)>> \o c, <<Means!Pair(n, x)>>)
      BY <2>3, <3>1, MemberAlone
    <3>4. IsRest("members", fc, p)
      BY <3>3 DEF n
    <3>5. <<OpenObject, f>> \o c = <<OpenObject>> \o fc
      <4> DEFINE o == <<OpenObject>>
                 g == <<f>>
      <4>1. o \in Seq(JsonTokens)
        BY Brackets
      <4>2. g \in Seq(JsonTokens)
        BY <3>2
      <4>3. c \in Seq(JsonTokens)
        BY <2>3 DEF IsValue
      <4>4. o \o g = <<OpenObject, f>>
        BY TwoTokens
      <4> HIDE DEF o, g
      <4>5. (o \o g) \o c = o \o (g \o c)
        BY <4>1, <4>2, <4>3, Regroup, Zenon
      <4> QED BY <4>4, <4>5 DEF o, g
    <3> HIDE DEF fc, p
    <3>6. IsValue(<<OpenObject>> \o fc \o <<CloseObject>>, <<"struct", p>>)
      BY <3>4, MembersInObject
    <3> QED BY <3>5, <3>6 DEF p, n
  <2>8. s \in Seq(FitTokens)
    BY FitArray, FitDefaults
  <2>9. k \in Seq(FitTokens)
    <3>1. c \in Seq(FitTokens)
      <4>1. Denotes(doc, v, tree)
        BY <1>2
      <4> HIDE DEF v, tree
      <4> QED BY <1>9, <4>1, FitCopied, FitDefaults DEF c
    <3>2. f \in FitTokens
      <4> DEFINE n == "attributes"
      <4>1. n \in Words
        BY DEF Words
      <4> HIDE DEF n
      <4>2. Str(n) \in FitTokens
        BY <4>1, StrTyped, FitToken
      <4> QED BY <4>2 DEF n
    <3>3. OpenObject \in FitTokens /\ CloseObject \in FitTokens
      BY Brackets, FitToken
    <3> HIDE DEF f
    <3> QED BY <3>1, <3>2, <3>3
  <2> HIDE DEF s, k, t, u, m, h, req
  <2>6. XmlCall(Call(m, "fields_get", s, k)) = [model |-> m, method |-> "fields_get", args |-> t, kwargs |-> u]
    BY <2>2, <2>5, <2>8, <2>9, CallMeant
  <2>7. XmlCall(h.call) = Means!Meaning(req)
    BY <2>1, <2>4, <2>6
  <2> QED BY <2>7 DEF h, req
<1>8. CASE w = "update_record"
  <2> DEFINE i == F("record_ids")
             v == F("values")
             it == D("record_ids")
             vt == D("values")
             x == sj_value_to_json(doc, i)
             y == sj_value_to_json(doc, v)
             s == InArray(x \o y)
             k == <<OpenObject, CloseObject>>
             both == <<it, vt>>
             t == Means!Array(both)
             u == <<"struct", <<>>>>
  <2>1. h.call = Call(m, "write", s, k) /\ Have(i) /\ Have(v)
    <3>1. h.call = Call(doc[model.start].v, "write", s, k) /\ Have(i) /\ Have(v)
      BY <1>1, <1>3, <1>8, CallPlaced
    <3> HIDE DEF s, k, h, model, i, v
    <3> QED BY <1>5, <3>1
  <2>2. Denotes(doc, i, it)
    BY <1>2
  <2>3. Denotes(doc, v, vt)
    BY <1>2
  <2>4. Means!Meaning(req) = [model |-> m, method |-> "write", args |-> t, kwargs |-> u]
    BY <1>8, MeaningOf
  <2>5. IsValue(k, u)
    BY EmptyTexts
  <2> HIDE DEF i, v, it, vt
  <2>6. IsValue(x, it) /\ IsValue(y, vt)
    <3>1. IsValue(x, it)
      BY <1>0, <2>1, <2>2, ValueCopied
    <3>2. IsValue(y, vt)
      BY <1>0, <2>1, <2>3, ValueCopied
    <3> QED BY <3>1, <3>2
  <2>11. x \in Seq(FitTokens) /\ y \in Seq(FitTokens)
    <3>1. x \in Seq(FitTokens)
      BY <1>9, <2>1, <2>2, FitValue
    <3>2. y \in Seq(FitTokens)
      BY <1>9, <2>1, <2>3, FitValue
    <3> QED BY <3>1, <3>2
  <2> HIDE DEF x, y
  <2>7. IsRest("items", x \o y, <<it, vt>>)
    BY <2>6, TwoItems
  <2>8. IsValue(s, t)
    <3> DEFINE xy == x \o y
    <3>1. IsRest("items", xy, both)
      BY <2>7
    <3> HIDE DEF xy, both
    <3>2. IsValue(InArray(xy), Means!Array(both))
      BY <3>1, ItemsInArray
    <3> QED BY <3>2 DEF xy
  <2>12. s \in Seq(FitTokens) /\ k \in Seq(FitTokens)
    <3>1. x \o y \in Seq(FitTokens)
      BY <2>11
    <3> QED BY <3>1, FitArray, FitDefaults
  <2> HIDE DEF s, k, t, u, m, h, req
  <2>9. XmlCall(Call(m, "write", s, k)) = [model |-> m, method |-> "write", args |-> t, kwargs |-> u]
    BY <2>5, <2>8, <2>12, CallMeant
  <2>10. XmlCall(h.call) = Means!Meaning(req)
    BY <2>1, <2>4, <2>9
  <2> QED BY <2>10 DEF h, req
<1> QED BY <1>6, <1>7, <1>8

\* A client's limit and offset are integers.
LEMMA ArgumentsCounted ==
  ASSUME NEW t, Len(t) \in Nat, Numbered(t)
  PROVE  Counted(<<"struct", t>>)
<1> DEFINE a == <<"struct", t>>
<1>1. ASSUME NEW n \in {"limit", "offset"}
      PROVE  Means!Member(a, n) = Means!Absent \/ IsInteger(Means!Member(a, n))
  <2> DEFINE P == Means!Named(a, n)
             i == CHOOSE i \in P : \A j \in P : j <= i
  <2>1. a[2] = t
    OBVIOUS
  <2> HIDE DEF a
  <2>2. \A j \in P : j \in 1..Len(t) /\ t[j][1] = n
    BY <2>1 DEF Means!Named
  <2>3. CASE P = {}
    BY <2>3 DEF Means!Member, Means!LastOf
  <2>4. CASE P # {}
    <3>1. Means!Member(a, n) = t[i][3]
      BY <2>1, <2>4 DEF Means!Member, Means!LastOf
    <3>2. i \in P
      <4>1. P \subseteq 1..Len(t)
        BY <2>2
      <4> HIDE DEF P
      <4> QED BY <2>4, <4>1, LastPlace
    <3> HIDE DEF i, P
    <3> QED BY <2>2, <3>1, <3>2 DEF Numbered
  <2> QED BY <2>3, <2>4
<1> HIDE DEF a
<1>2. Counted(a)
  BY <1>1 DEF Counted
<1> QED BY <1>2 DEF a

\* For every request that can be composed, with a limit within the documented
\* cap and numbers that an integer or six digits can hold, odoo_execute sends
\* the call that it means: with every model, domain, values object and id, and
\* any number of arguments, also repeated ones and ones nested in others, each
\* value is found by mcp_handle's loops, copied by sj_value_to_json, put together
\* by dispatch_tool, read again and converted to the tree it was in the request.
THEOREM CallsAreMeant == Spec => []CallIsMeant
<1>1. RequestInv => CallIsMeant
  <2> SUFFICES ASSUME RequestInv, Handled.kind = "call", NumbersFit(Document),
                      Means!WithinCap(Request)
               PROVE  XmlCall(Handled.call) = Means!Meaning(Request)
    BY DEF CallIsMeant
  <2>1. PICK t : IsRest("members", arguments, t) /\ Numbered(t)
    BY DEF RequestInv
  <2>2. IsRequest(Document) /\ JsonTree(Document) = RequestTree(t)
    BY <2>1, DocumentIsRequest
  <2> DEFINE doc == Document
             req == JsonTree(doc)
  <2>3. IsRequest(doc) /\ mcp_handle(doc).kind = "call" /\ NumbersFit(doc) /\ Means!WithinCap(req)
    BY <2>2 DEF Handled, Request
  <2>4. Counted(Means!Arguments(req))
    <3>1. Means!Arguments(req) = <<"struct", t>>
      BY <2>1, <2>2, RequestMeaning
    <3>2. Len(t) \in Nat
      <4>1. \E X : t \in Seq(X)
        BY <2>1, TreesAreSeq
      <4> QED BY <4>1
    <3> QED BY <2>1, <3>1, <3>2, ArgumentsCounted
  <2> HIDE DEF doc
  <2>5. PICK w : Means!Tool(req) = Means!Text(w)
    BY <2>3, ToolCalled
  <2>6. w \in {"search_read_records", "get_model_fields", "update_record"}
    <3>1. PICK members, id : mcp_handle(doc) = dispatch_tool(w, doc, members, id)
      BY <2>3, <2>5, ToolCalled
    <3>2. dispatch_tool(w, doc, members, id).kind = "call"
      BY <2>3, <3>1
    <3> QED BY <3>2, ToolOutcomes
  <2>7. XmlCall(mcp_handle(doc).call) = Means!Meaning(req)
    BY <2>3, <2>4, <2>5, <2>6, PlacedIsMeant
  <2> QED BY <2>7 DEF doc, Handled, Request
<1> QED BY <1>1, ArgumentsAreMembers, PTL
=============================================================================
