---------------------------- MODULE ArenaProofs ----------------------------
(***************************************************************************)
(* The arena keeps clients' blocks apart and inside their regions for      *)
(* every word size, default capacity, set of request sizes and bound.      *)
(*                                                                         *)
(* The blocks and the regions alone are not inductive: a rewind puts a     *)
(* region's count back to what the mark says, so Disjoint survives only if *)
(* the mark lies behind every block that is kept.  That is MarksCover, and *)
(* it in turn needs the marks to be ordered and to point into the list.    *)
(* That nothing leaks needs a mark's count to be just where they end.      *)
(*                                                                         *)
(* The last part is about the walk of arena_alloc: it depends on nothing   *)
(* but the sizes asked for and the capacities of the regions.              *)
(***************************************************************************)
EXTENDS Arena, SequenceTheorems, TLAPS

IInv == TypeOK /\ MarksSound /\ InsideRegion /\ Disjoint

(***************************************************************************)
(* Bytes become a whole number of words.                                   *)
(***************************************************************************)
LEMMA WordsType == ASSUME NEW bytes \in Nat PROVE Words(bytes) \in Nat
  BY WordsAssumption DEF Words

LEMMA LeqTransitive == \A a, b, c \in Nat : a <= b /\ b <= c => a <= c
  OBVIOUS

LEMMA InitInv == Init => IInv
  BY DEF Init, IInv, TypeOK, MarksSound, EndIsFrontier, MarksValid,
         MarksOrdered, MarksCover, InsideRegion, Disjoint

(***************************************************************************)
(* The entries of the three sequences and their fields.                    *)
(***************************************************************************)
LEMMA RegionTypes ==
  ASSUME NEW s \in Seq(Region)
  PROVE  /\ Len(s) \in Nat
         /\ \A i \in 1..Len(s) : s[i] \in Region /\ s[i].count \in Nat /\ s[i].capacity \in Nat
<1>1. \A i \in 1..Len(s) : s[i] \in Region
  OBVIOUS
<1>2. \A r \in Region : r.count \in Nat /\ r.capacity \in Nat
  BY DEF Region
<1>3. Len(s) \in Nat
  OBVIOUS
<1> QED
  BY <1>1, <1>2, <1>3

LEMMA BlockTypes ==
  ASSUME NEW s \in Seq(Block)
  PROVE  /\ Len(s) \in Nat
         /\ \A i \in 1..Len(s) :
              /\ s[i] \in Block /\ s[i].region \in Nat \ {0}
              /\ s[i].offset \in Nat /\ s[i].words \in Nat
              /\ LastWord(s[i]) \in Nat /\ s[i].offset <= LastWord(s[i])
<1>1. \A i \in 1..Len(s) : s[i] \in Block
  OBVIOUS
<1>2. \A b \in Block :
        /\ b.region \in Nat \ {0} /\ b.offset \in Nat /\ b.words \in Nat
        /\ LastWord(b) \in Nat /\ b.offset <= LastWord(b)
  BY DEF Block, LastWord
<1>3. Len(s) \in Nat
  OBVIOUS
<1> QED
  BY <1>1, <1>2, <1>3

LEMMA MarkTypes ==
  ASSUME NEW s \in Seq(Mark)
  PROVE  /\ Len(s) \in Nat
         /\ \A i \in 1..Len(s) :
              s[i] \in Mark /\ s[i].region \in Nat /\ s[i].count \in Nat /\ s[i].height \in Nat
<1>1. \A i \in 1..Len(s) : s[i] \in Mark
  OBVIOUS
<1>2. \A m \in Mark : m.region \in Nat /\ m.count \in Nat /\ m.height \in Nat
  BY DEF Mark
<1>3. Len(s) \in Nat
  OBVIOUS
<1> QED
  BY <1>1, <1>2, <1>3

(***************************************************************************)
(* Where held blocks and marks may lie.                                    *)
(***************************************************************************)
LEMMA Positions ==
  ASSUME IInv
  PROVE  /\ end \in 0..Len(regions)
         /\ \A i \in 1..Len(live) :
              /\ live[i].region \in 1..Len(regions)
              /\ live[i].region <= end
              /\ LastWord(live[i]) <= regions[live[i].region].count
         /\ \A k \in 1..Len(marks) :
              /\ marks[k].height \in 0..Len(live)
              /\ marks[k].region = 0 => marks[k].height = 0 /\ marks[k].count = 0
              /\ marks[k].region # 0 =>
                   /\ marks[k].region \in 1..Len(regions)
                   /\ marks[k].region <= end
                   /\ marks[k].count <= regions[marks[k].region].count
<1>1. regions \in Seq(Region) /\ live \in Seq(Block) /\ marks \in Seq(Mark)
  BY DEF IInv, TypeOK
<1>2. end \in 0..Len(regions) /\ Len(regions) \in Nat
  BY <1>1, RegionTypes DEF IInv, TypeOK, MarksSound, EndIsFrontier
<1>3. ASSUME NEW i \in 1..Len(live)
      PROVE  /\ live[i].region \in 1..Len(regions)
             /\ live[i].region <= end
             /\ LastWord(live[i]) <= regions[live[i].region].count
  <2>1. live[i].region \in Nat \ {0}
    BY <1>1, BlockTypes
  <2>2. live[i].region <= end /\ LastWord(live[i]) <= regions[live[i].region].count
    BY DEF IInv, InsideRegion
  <2> QED
    BY <1>2, <2>1, <2>2
<1>4. ASSUME NEW k \in 1..Len(marks)
      PROVE  /\ marks[k].height \in 0..Len(live)
             /\ marks[k].region = 0 => marks[k].height = 0 /\ marks[k].count = 0
             /\ marks[k].region # 0 =>
                  /\ marks[k].region \in 1..Len(regions)
                  /\ marks[k].region <= end
                  /\ marks[k].count <= regions[marks[k].region].count
  <2>1. marks[k].region \in Nat /\ marks[k].height \in Nat /\ Len(live) \in Nat
    BY <1>1, MarkTypes, BlockTypes
  <2>2. MarksValid
    BY DEF IInv, MarksSound
  <2> QED
    BY <1>2, <2>1, <2>2 DEF MarksValid
<1> QED
  BY <1>2, <1>3, <1>4

(***************************************************************************)
(* Handing out w words at the count c of the new frontier r, every other   *)
(* region as it was, keeps the invariant.                                  *)
(***************************************************************************)
HandsOut(r, c, w) ==
    /\ regions' \in Seq(Region)
    /\ Len(regions) <= Len(regions')
    /\ end' = r /\ end <= r /\ r <= Len(regions')
    /\ \A i \in 1..Len(regions) : i # r => regions'[i] = regions[i]
    /\ \A i \in 1..Len(regions') : i <= Len(regions) \/ i = r
    /\ IF r <= Len(regions) THEN c = regions[r].count ELSE c = 0
    /\ regions'[r].count = c + w
    /\ c + w <= regions'[r].capacity
    /\ live' = Append(live, [region |-> r, offset |-> c, words |-> w])
    /\ marks' = marks

LEMMA HandOutInv ==
  ASSUME IInv, NEW r \in Nat \ {0}, NEW c \in Nat, NEW w \in Nat, HandsOut(r, c, w)
  PROVE  IInv'
<1>h. /\ regions' \in Seq(Region)
      /\ Len(regions) <= Len(regions')
      /\ end' = r /\ end <= r /\ r <= Len(regions')
      /\ \A i \in 1..Len(regions) : i # r => regions'[i] = regions[i]
      /\ \A i \in 1..Len(regions') : i <= Len(regions) \/ i = r
      /\ IF r <= Len(regions) THEN c = regions[r].count ELSE c = 0
      /\ regions'[r].count = c + w
      /\ c + w <= regions'[r].capacity
      /\ live' = Append(live, [region |-> r, offset |-> c, words |-> w])
      /\ marks' = marks
  BY DEF HandsOut
<1> USE <1>h
<1> DEFINE new == [region |-> r, offset |-> c, words |-> w]
<1>0. /\ regions \in Seq(Region) /\ live \in Seq(Block) /\ marks \in Seq(Mark)
      /\ MarksSound /\ InsideRegion /\ Disjoint
  BY DEF IInv, TypeOK
<1>1. new \in Block /\ LastWord(new) = c + w /\ new.region = r /\ new.offset = c
  BY DEF Block, LastWord
<1> HIDE DEF new
<1>2. live' = Append(live, new)
  BY DEF new
<1>3. /\ live' \in Seq(Block)
      /\ Len(live') = Len(live) + 1
      /\ \A i \in 1..Len(live) : live'[i] = live[i]
      /\ live'[Len(live) + 1] = new
  BY <1>0, <1>1, <1>2
<1>4. /\ Len(live) \in Nat /\ Len(regions) \in Nat /\ Len(regions') \in Nat
      /\ \A i \in 1..Len(regions) : regions[i].count \in Nat
      /\ \A i \in 1..Len(regions') : regions'[i].count \in Nat
  BY <1>0, RegionTypes, BlockTypes
<1>5. \A i \in 1..Len(live) :
        /\ live[i].region \in 1..Len(regions)
        /\ live[i].region <= end
        /\ LastWord(live[i]) <= regions[live[i].region].count
        /\ LastWord(live[i]) \in Nat
  BY <1>0, Positions, BlockTypes
<1>6. \A i \in 1..Len(live) :
        live[i].region < r \/ (live[i].region = r /\ LastWord(live[i]) <= c)
  <2> SUFFICES ASSUME NEW i \in 1..Len(live), ~(live[i].region < r)
               PROVE  live[i].region = r /\ LastWord(live[i]) <= c
    OBVIOUS
  <2>1. end \in Nat
    BY Positions, <1>4
  <2>2. live[i].region = r /\ r \in 1..Len(regions)
    BY <1>5, <2>1
  <2> QED
    BY <1>5, <2>2
<1>7. \A i \in 1..Len(regions) : regions[i].count <= regions'[i].count
  <2> SUFFICES ASSUME NEW i \in 1..Len(regions)
               PROVE  regions[i].count <= regions'[i].count
    OBVIOUS
  <2>1. CASE i = r
    BY <1>4, <2>1
  <2>2. CASE i # r
    BY <1>4, <2>2
  <2> QED
    BY <2>1, <2>2
<1>8. TypeOK'
  BY <1>0, <1>3 DEF TypeOK
<1>9. EndIsFrontier'
  <2>1. regions' # <<>>
    BY <1>4
  <2>2. ASSUME NEW i \in 1..Len(regions'), r < i
        PROVE  regions'[i].count = 0
    <3>1. i \in 1..Len(regions) /\ regions'[i] = regions[i]
      BY <1>4, <2>2
    <3>2. end < i
      BY <1>4, <2>2, Positions
    <3> QED
      BY <1>0, <3>1, <3>2 DEF MarksSound, EndIsFrontier
  <2> QED
    BY <2>1, <2>2 DEF EndIsFrontier
<1>10. MarksValid'
  <2> SUFFICES ASSUME NEW k \in 1..Len(marks)
               PROVE  /\ marks[k].height <= Len(live')
                      /\ marks[k].region = 0 => marks[k].height = 0 /\ marks[k].count = 0
                      /\ marks[k].region # 0 =>
                           /\ marks[k].region <= end'
                           /\ marks[k].count <= regions'[marks[k].region].count
    BY DEF MarksValid
  <2>1. marks[k].height \in 0..Len(live) /\ (marks[k].region = 0 => marks[k].height = 0 /\ marks[k].count = 0)
    BY Positions
  <2>2. CASE marks[k].region # 0
    <3>1. PICK m \in 1..Len(regions) : m = marks[k].region
      BY <2>2, Positions
    <3>2. m <= end /\ marks[k].count <= regions[m].count
      BY <2>2, <3>1, Positions
    <3>5. marks[k].count \in Nat /\ end \in Nat
      BY <1>0, <1>4, Positions, MarkTypes
    <3>3. regions[m].count \in Nat /\ regions'[m].count \in Nat /\ regions[m].count <= regions'[m].count
      BY <1>4, <1>7
    <3>6. m <= end'
      BY <3>2, <3>5
    <3>7. marks[k].count <= regions'[m].count
      BY <3>2, <3>3, <3>5, LeqTransitive, Zenon
    <3>4. m <= end' /\ marks[k].count <= regions'[m].count
      BY <3>6, <3>7
    <3> QED
      BY <1>3, <1>4, <2>1, <2>2, <3>1, <3>4
  <2> QED
    BY <1>3, <1>4, <2>1, <2>2
<1>11. MarksOrdered'
  BY <1>0 DEF MarksSound, MarksOrdered
<1>12. MarksCover'
  <2> SUFFICES ASSUME NEW k \in 1..Len(marks), NEW i \in 1..marks[k].height
               PROVE  \/ live'[i].region < marks[k].region
                      \/ /\ live'[i].region = marks[k].region
                         /\ LastWord(live'[i]) <= marks[k].count
    BY DEF MarksCover, LastWord
  <2>1. marks[k].height \in 0..Len(live)
    BY Positions
  <2>2. live'[i] = live[i]
    BY <1>3, <1>4, <2>1
  <2> QED
    BY <1>0, <2>2 DEF MarksSound, MarksCover
<1>13. InsideRegion'
  <2>1. \A i \in 1..Len(regions') : regions'[i].count <= regions'[i].capacity
    <3> SUFFICES ASSUME NEW i \in 1..Len(regions')
                 PROVE  regions'[i].count <= regions'[i].capacity
      OBVIOUS
    <3>1. CASE i = r
      BY <3>1
    <3>2. CASE i # r
      <4>1. i \in 1..Len(regions)
        BY <1>4, <3>2
      <4>2. regions'[i] = regions[i]
        BY <3>2, <4>1
      <4> QED
        BY <1>0, <4>1, <4>2 DEF InsideRegion
    <3> QED
      BY <3>1, <3>2
  <2>2. \A i \in 1..Len(live) :
          live[i].region <= r /\ LastWord(live[i]) <= regions'[live[i].region].count
    <3> SUFFICES ASSUME NEW i \in 1..Len(live)
                 PROVE  live[i].region <= r /\ LastWord(live[i]) <= regions'[live[i].region].count
      OBVIOUS
    <3>1. PICK m \in 1..Len(regions) : m = live[i].region
      BY <1>5
    <3>2. LastWord(live[i]) <= regions[m].count /\ regions[m].count <= regions'[m].count
      BY <1>5, <1>7, <3>1
    <3>3. m <= r
      BY <1>4, <1>6, <3>1
    <3>4. LastWord(live[i]) \in Nat /\ regions[m].count \in Nat /\ regions'[m].count \in Nat
      BY <1>4, <1>5
    <3>5. LastWord(live[i]) <= regions'[m].count
      BY <3>2, <3>4
    <3> QED
      BY <3>1, <3>3, <3>5
  <2>3. \A i \in 1..Len(live') :
          live'[i].region <= r /\ LastWord(live'[i]) <= regions'[live'[i].region].count
    BY <1>1, <1>3, <1>4, <2>2
  <2> QED
    BY <2>1, <2>3 DEF InsideRegion, LastWord
<1>14. Disjoint'
  <2> SUFFICES ASSUME NEW i \in 1..Len(live'), NEW j \in 1..Len(live'), i < j
               PROVE  Before(live'[i], live'[j])
    BY DEF Disjoint, Before, LastWord
  <2>1. CASE j \in 1..Len(live)
    <3>1. i \in 1..Len(live) /\ live'[i] = live[i] /\ live'[j] = live[j]
      BY <1>3, <1>4, <2>1
    <3>2. Before(live[i], live[j])
      BY <1>0, <2>1, <3>1 DEF Disjoint
    <3> QED
      BY <3>1, <3>2
  <2>2. CASE j = Len(live) + 1
    <3>1. i \in 1..Len(live) /\ live'[i] = live[i]
      BY <1>3, <1>4, <2>2
    <3>2. live'[j] = new
      BY <1>3, <2>2
    <3>3. Before(live[i], new)
      BY <1>1, <1>6, <3>1 DEF Before
    <3> QED
      BY <3>1, <3>2, <3>3
  <2> QED
    <3>1. Len(live') = Len(live) + 1 /\ Len(live) \in Nat
      BY <1>3, <1>4
    <3>2. j \in 1..Len(live) \/ j = Len(live) + 1
      BY <3>1
    <3> QED
      BY <2>1, <2>2, <3>2
<1> QED
  BY <1>8, <1>9, <1>10, <1>11, <1>12, <1>13, <1>14 DEF IInv, MarksSound

(***************************************************************************)
(* arena_alloc: in the first region that has room, or in a new one.        *)
(***************************************************************************)
LEMMA AllocHandsOut ==
  ASSUME IInv, NEW bytes \in Nat, arena_alloc(bytes)
  PROVE  \E r \in Nat \ {0}, c \in Nat : HandsOut(r, c, Words(bytes))
<1> DEFINE w == Words(bytes)
<1>0. /\ w \in Nat /\ regions \in Seq(Region) /\ Len(regions) \in Nat
      /\ \A i \in 1..Len(regions) :
           regions[i] \in Region /\ regions[i].count \in Nat /\ regions[i].capacity \in Nat
      /\ end \in 0..Len(regions)
  BY WordsType, RegionTypes, Positions DEF IInv, TypeOK
<1>1. ASSUME NEW r \in 1..Len(regions), AllocInRegion(r, w), UNCHANGED marks
      PROVE  \E q \in Nat \ {0}, c \in Nat : HandsOut(q, c, w)
  <2> DEFINE c == regions[r].count
  <2> HIDE DEF w
  <2>1. /\ end <= r
        /\ c + w <= regions[r].capacity
        /\ regions' = [regions EXCEPT ![r].count = c + w]
        /\ end' = r
        /\ live' = Append(live, [region |-> r, offset |-> c, words |-> w])
    BY <1>1 DEF AllocInRegion, FirstFit, Fits, Hold
  <2>2. /\ regions' \in Seq(Region) /\ Len(regions') = Len(regions)
        /\ \A i \in 1..Len(regions) : i # r => regions'[i] = regions[i]
        /\ regions'[r] = [count |-> c + w, capacity |-> regions[r].capacity]
    BY <1>0, <2>1 DEF Region
  <2>3. r \in Nat \ {0} /\ c \in Nat
    BY <1>0
  <2>4. regions'[r].count = c + w /\ regions'[r].capacity = regions[r].capacity
    BY <2>2
  <2>5. r <= Len(regions) /\ r <= Len(regions') /\ Len(regions) <= Len(regions')
    BY <1>0, <2>2
  <2>6. \A i \in 1..Len(regions') : i <= Len(regions) \/ i = r
    BY <1>0, <2>2
  <2> HIDE DEF c
  <2> QED
    BY <1>0, <1>1, <2>1, <2>2, <2>3, <2>4, <2>5, <2>6 DEF c, HandsOut
<1>2. ASSUME AllocInNewRegion(w), UNCHANGED marks
      PROVE  \E q \in Nat \ {0}, c \in Nat : HandsOut(q, c, w)
  <2> DEFINE r == Len(regions) + 1
             new == [new_region(w) EXCEPT !.count = w]
  <2>1. /\ new \in Region /\ new.count = w /\ w <= new.capacity
    BY <1>0, WordsAssumption DEF new_region, Region
  <2> HIDE DEF w, new
  <2>2. /\ regions' = Append(regions, new)
        /\ end' = r
        /\ live' = Append(live, [region |-> r, offset |-> 0, words |-> w])
    BY <1>2 DEF AllocInNewRegion, Hold, new
  <2>3. /\ regions' \in Seq(Region) /\ Len(regions') = r
        /\ \A i \in 1..Len(regions) : regions'[i] = regions[i]
        /\ regions'[r] = new
    BY <1>0, <2>1, <2>2
  <2>4. r \in Nat \ {0} /\ end <= r /\ ~(r <= Len(regions)) /\ Len(regions) <= Len(regions')
    BY <1>0, <2>3
  <2>5. \A i \in 1..Len(regions') : i <= Len(regions) \/ i = r
    BY <1>0, <2>3
  <2>6. 0 + w = w /\ 0 \in Nat /\ r <= Len(regions')
    BY <1>0, <2>3
  <2> HIDE DEF r
  <2> QED
    BY <1>0, <1>2, <2>1, <2>2, <2>3, <2>4, <2>5, <2>6 DEF HandsOut
<1> QED
  BY <1>1, <1>2 DEF arena_alloc

LEMMA AllocInv ==
  ASSUME IInv, NEW bytes \in Nat, arena_alloc(bytes)
  PROVE  IInv'
  BY AllocHandsOut, HandOutInv, WordsType

(***************************************************************************)
(* A new mark lies at the frontier, behind every mark and every block.     *)
(***************************************************************************)
LEMMA SnapshotInv == ASSUME IInv, arena_snapshot PROVE IInv'
<1> DEFINE c == IF end = 0 THEN 0 ELSE regions[end].count
           new == [region |-> end, count |-> c, height |-> Len(live)]
<1>0. /\ regions \in Seq(Region) /\ live \in Seq(Block) /\ marks \in Seq(Mark)
      /\ MarksSound /\ InsideRegion /\ Disjoint /\ TypeOK
      /\ Len(regions) \in Nat /\ Len(live) \in Nat /\ Len(marks) \in Nat
      /\ end \in 0..Len(regions)
  BY Positions, RegionTypes, BlockTypes, MarkTypes DEF IInv, TypeOK
<1>1. /\ c \in Nat /\ new \in Mark
      /\ new.region = end /\ new.count = c /\ new.height = Len(live)
  BY <1>0, RegionTypes DEF Mark
<1>2. marks' = Append(marks, new) /\ UNCHANGED <<regions, end, live>>
  BY DEF arena_snapshot
<1> HIDE DEF new
<1>3. /\ marks' \in Seq(Mark) /\ Len(marks') = Len(marks) + 1
      /\ \A k \in 1..Len(marks) : marks'[k] = marks[k]
      /\ marks'[Len(marks) + 1] = new
  BY <1>0, <1>1, <1>2
<1>4. \A k \in 1..Len(marks') : k \in 1..Len(marks) \/ k = Len(marks) + 1
  BY <1>0, <1>3
<1>5. TypeOK' /\ EndIsFrontier' /\ InsideRegion' /\ Disjoint'
  BY <1>0, <1>2, <1>3 DEF TypeOK, MarksSound, EndIsFrontier, InsideRegion, Disjoint
<1>6. MarksValid'
  <2>1. end = 0 => Len(live) = 0
    BY <1>0, Positions
  <2>2. new.region # 0 => new.region <= end /\ new.count <= regions[new.region].count
    BY <1>0, <1>1
  <2>3. MarksValid
    BY <1>0 DEF MarksSound
  <2> QED
    BY <1>0, <1>1, <1>2, <1>3, <1>4, <2>1, <2>2, <2>3 DEF MarksValid
<1>7. MarksOrdered'
  <2> SUFFICES ASSUME NEW j \in 1..Len(marks'), NEW k \in 1..Len(marks'), j < k
               PROVE  /\ marks'[j].height <= marks'[k].height
                      /\ marks'[j].region <= marks'[k].region
                      /\ marks'[j].region = marks'[k].region => marks'[j].count <= marks'[k].count
    BY DEF MarksOrdered
  <2>0. j \in 1..Len(marks) /\ marks'[j] = marks[j]
    BY <1>0, <1>3
  <2>1. CASE k \in 1..Len(marks)
    BY <1>0, <1>3, <2>0, <2>1 DEF MarksSound, MarksOrdered
  <2>2. CASE k = Len(marks) + 1
    <3>1. marks[j].height \in 0..Len(live) /\ marks[j].region \in Nat
      BY <1>0, <2>0, Positions, MarkTypes
    <3>2. marks[j].region <= end /\ (marks[j].region = end => marks[j].count <= c)
      <4>1. CASE marks[j].region = 0
        BY <1>0, <1>1, <2>0, <4>1, Positions
      <4>2. CASE marks[j].region # 0
        BY <2>0, <4>2, Positions
      <4> QED
        BY <4>1, <4>2
    <3> QED
      BY <1>1, <1>3, <2>0, <2>2, <3>1, <3>2
  <2> QED
    BY <1>4, <2>1, <2>2
<1>8. MarksCover'
  <2> SUFFICES ASSUME NEW k \in 1..Len(marks'), NEW i \in 1..marks'[k].height
               PROVE  \/ live[i].region < marks'[k].region
                      \/ /\ live[i].region = marks'[k].region
                         /\ LastWord(live[i]) <= marks'[k].count
    BY <1>2 DEF MarksCover, LastWord
  <2>1. CASE k \in 1..Len(marks)
    BY <1>0, <1>3, <2>1 DEF MarksSound, MarksCover
  <2>2. CASE k = Len(marks) + 1
    <3>1. marks'[k] = new
      BY <1>3, <2>2
    <3>2. i \in 1..Len(live)
      BY <1>1, <3>1
    <3>3. /\ live[i].region \in 1..Len(regions)
          /\ live[i].region <= end
          /\ LastWord(live[i]) <= regions[live[i].region].count
      BY <3>2, Positions
    <3>4. live[i].region = end => LastWord(live[i]) <= c
      BY <1>0, <3>3
    <3> HIDE DEF c
    <3> QED
      BY <1>0, <1>1, <3>1, <3>3, <3>4
  <2> QED
    BY <1>4, <2>1, <2>2
<1> QED
  BY <1>5, <1>6, <1>7, <1>8 DEF IInv, MarksSound

(***************************************************************************)
(* A prefix of the marks.                                                  *)
(***************************************************************************)
LEMMA MarkPrefix ==
  ASSUME marks \in Seq(Mark), NEW n \in 0..Len(marks), marks' = SubSeq(marks, 1, n)
  PROVE  /\ marks' \in Seq(Mark)
         /\ Len(marks') = n
         /\ \A k \in 1..n : k \in 1..Len(marks) /\ marks'[k] = marks[k]
<1>1. n \in Nat /\ Len(marks) \in Nat /\ n <= Len(marks)
  BY MarkTypes
<1>2. /\ SubSeq(marks, 1, n) \in Seq(Mark)
      /\ Len(SubSeq(marks, 1, n)) = n
      /\ \A k \in 1..n : SubSeq(marks, 1, n)[k] = marks[k]
  BY <1>1
<1> QED
  BY <1>1, <1>2

(***************************************************************************)
(* Emptying the arena, with only null marks kept: arena_reset, arena_free  *)
(* and a rewind to a null mark.                                            *)
(***************************************************************************)
Empties ==
    /\ regions' \in Seq(Region)
    /\ \A i \in 1..Len(regions') : regions'[i].count = 0
    /\ end' = IF regions' = <<>> THEN 0 ELSE 1
    /\ live' = <<>>
    /\ \E n \in 0..Len(marks) :
         /\ \A k \in 1..n : marks[k].region = 0
         /\ marks' = SubSeq(marks, 1, n)

LEMMA EmptyInv == ASSUME IInv, Empties PROVE IInv'
<1>n. PICK n \in 0..Len(marks) :
        /\ \A k \in 1..n : marks[k].region = 0
        /\ marks' = SubSeq(marks, 1, n)
  BY DEF Empties
<1>h. /\ regions' \in Seq(Region)
      /\ \A i \in 1..Len(regions') : regions'[i].count = 0
      /\ end' = IF regions' = <<>> THEN 0 ELSE 1
      /\ live' = <<>>
  BY DEF Empties
<1> USE <1>n, <1>h
<1>0. /\ marks \in Seq(Mark) /\ Len(marks) \in Nat /\ MarksSound
      /\ Len(regions') \in Nat /\ Len(live') = 0 /\ live' \in Seq(Block)
  BY MarkTypes, RegionTypes DEF IInv, TypeOK
<1>1. /\ marks' \in Seq(Mark) /\ Len(marks') = n
      /\ \A k \in 1..n : k \in 1..Len(marks) /\ marks'[k] = marks[k]
  BY <1>0, MarkPrefix
<1>2. \A k \in 1..n : marks[k].region = 0 /\ marks[k].height = 0 /\ marks[k].count = 0
  BY <1>1, Positions
<1>3. regions' # <<>> => Len(regions') >= 1
  BY <1>0
<1>4. TypeOK'
  BY <1>0, <1>1 DEF TypeOK
<1>5. EndIsFrontier'
  BY <1>0, <1>3 DEF EndIsFrontier
<1>6. MarksValid'
  BY <1>0, <1>1, <1>2 DEF MarksValid
<1>7. MarksOrdered'
  BY <1>0, <1>1, <1>2 DEF MarksOrdered
<1>8. MarksCover'
  BY <1>0, <1>1, <1>2 DEF MarksCover
<1>9. InsideRegion'
  <2>1. \A i \in 1..Len(regions') : 0 <= regions'[i].capacity
    BY RegionTypes
  <2> QED
    BY <1>0, <2>1 DEF InsideRegion
<1>10. Disjoint'
  BY <1>0 DEF Disjoint
<1> QED
  BY <1>4, <1>5, <1>6, <1>7, <1>8, <1>9, <1>10 DEF IInv, MarksSound

LEMMA ResetRegionsFacts ==
  ASSUME IInv, ResetRegions
  PROVE  /\ regions' \in Seq(Region)
         /\ \A i \in 1..Len(regions') : regions'[i].count = 0
         /\ end' = IF regions' = <<>> THEN 0 ELSE 1
         /\ live' = <<>>
<1>1. /\ regions \in Seq(Region) /\ Len(regions) \in Nat
      /\ \A i \in 1..Len(regions) : regions[i] \in Region
  BY RegionTypes DEF IInv, TypeOK
<1>2. \A i \in 1..Len(regions) : Emptied(i) \in Region /\ Emptied(i).count = 0
  BY <1>1 DEF Emptied, Region
<1>3. regions' = [i \in 1..Len(regions) |-> Emptied(i)]
  BY DEF ResetRegions
<1>4. regions' \in Seq(Region) /\ Len(regions') = Len(regions)
  BY <1>1, <1>2, <1>3
<1>5. \A i \in 1..Len(regions') : regions'[i].count = 0
  BY <1>2, <1>3, <1>4
<1>6. regions' = <<>> <=> regions = <<>>
  BY <1>1, <1>4
<1> QED
  BY <1>4, <1>5, <1>6 DEF ResetRegions

LEMMA ResetEmpties == ASSUME IInv, arena_reset PROVE Empties
<1>1. PICK n \in 0..Len(marks) :
        /\ \A k \in 1..Len(marks) : marks[k].region = 0 <=> k <= n
        /\ marks' = SubSeq(marks, 1, n)
  BY DEF arena_reset, KeepNullMarks
<1>2. \A k \in 1..n : marks[k].region = 0
  <2>1. Len(marks) \in Nat
    BY MarkTypes DEF IInv, TypeOK
  <2> QED
    BY <1>1, <2>1
<1> QED
  BY <1>1, <1>2, ResetRegionsFacts DEF arena_reset, Empties

LEMMA FreeEmpties == ASSUME IInv, arena_free PROVE Empties
<1>1. PICK n \in 0..Len(marks) :
        /\ \A k \in 1..Len(marks) : marks[k].region = 0 <=> k <= n
        /\ marks' = SubSeq(marks, 1, n)
  BY DEF arena_free, KeepNullMarks
<1>2. \A k \in 1..n : marks[k].region = 0
  <2>1. Len(marks) \in Nat
    BY MarkTypes DEF IInv, TypeOK
  <2> QED
    BY <1>1, <2>1
<1>3. /\ regions' = <<>> /\ end' = 0 /\ live' = <<>>
      /\ regions' \in Seq(Region)
      /\ \A i \in 1..Len(regions') : regions'[i].count = 0
  BY DEF arena_free
<1> QED
  BY <1>1, <1>2, <1>3 DEF Empties

(***************************************************************************)
(* Giving back the regions behind the frontier touches nothing in use.     *)
(***************************************************************************)
LEMMA TrimInv == ASSUME IInv, arena_trim PROVE IInv'
<1>0. /\ regions \in Seq(Region) /\ Len(regions) \in Nat /\ end \in 1..Len(regions)
      /\ TypeOK /\ MarksSound /\ InsideRegion /\ Disjoint
  BY Positions, RegionTypes DEF IInv, TypeOK, arena_trim
<1>1. /\ regions' \in Seq(Region) /\ Len(regions') = end
      /\ \A i \in 1..end : regions'[i] = regions[i] /\ i \in 1..Len(regions)
  BY <1>0 DEF arena_trim
<1>2. UNCHANGED <<end, live, marks>>
  BY DEF arena_trim
<1>3. TypeOK' /\ Disjoint' /\ MarksOrdered' /\ MarksCover'
  BY <1>0, <1>1, <1>2 DEF TypeOK, Disjoint, MarksSound, MarksOrdered, MarksCover
<1>4. EndIsFrontier'
  BY <1>0, <1>1, <1>2 DEF EndIsFrontier
<1>5. MarksValid'
  <2> SUFFICES ASSUME NEW k \in 1..Len(marks)
               PROVE  /\ marks[k].height <= Len(live)
                      /\ marks[k].region = 0 => marks[k].height = 0 /\ marks[k].count = 0
                      /\ marks[k].region # 0 =>
                           marks[k].region <= end /\ marks[k].count <= regions'[marks[k].region].count
    BY <1>2 DEF MarksValid
  <2>1. marks[k].region # 0 => marks[k].region \in 1..end
    BY <1>0, Positions
  <2>2. MarksValid
    BY <1>0 DEF MarksSound
  <2> QED
    BY <1>1, <2>1, <2>2 DEF MarksValid
<1>6. InsideRegion'
  <2>1. \A i \in 1..Len(live) : live[i].region \in 1..end
    BY <1>0, Positions
  <2> QED
    BY <1>0, <1>1, <1>2, <2>1 DEF InsideRegion, LastWord
<1> QED
  BY <1>3, <1>4, <1>5, <1>6 DEF IInv, MarksSound

(***************************************************************************)
(* Rewinding to a mark in region r: the kept blocks are those the mark     *)
(* covers, and the older marks lie before it.                              *)
(***************************************************************************)
CutsBack(k, r, c, h) ==
    /\ marks[k].region = r /\ marks[k].count = c /\ marks[k].height = h
    /\ regions' \in Seq(Region) /\ Len(regions') = Len(regions)
    /\ \A i \in 1..Len(regions) : i < r => regions'[i] = regions[i]
    /\ regions'[r].count = c /\ regions'[r].capacity = regions[r].capacity
    /\ \A i \in 1..Len(regions) : r < i => regions'[i].count = 0
    /\ end' = r /\ live' = SubSeq(live, 1, h) /\ marks' = SubSeq(marks, 1, k)

LEMMA CutBackInv ==
  ASSUME IInv, NEW k \in 1..Len(marks), NEW r \in 1..Len(regions),
         NEW c \in Nat, NEW h \in Nat, CutsBack(k, r, c, h)
  PROVE  IInv'
<1>h. /\ marks[k].region = r /\ marks[k].count = c /\ marks[k].height = h
      /\ regions' \in Seq(Region) /\ Len(regions') = Len(regions)
      /\ \A i \in 1..Len(regions) : i < r => regions'[i] = regions[i]
      /\ regions'[r].count = c /\ regions'[r].capacity = regions[r].capacity
      /\ \A i \in 1..Len(regions) : r < i => regions'[i].count = 0
      /\ end' = r /\ live' = SubSeq(live, 1, h) /\ marks' = SubSeq(marks, 1, k)
  BY DEF CutsBack
<1> USE <1>h
<1>0. /\ regions \in Seq(Region) /\ live \in Seq(Block) /\ marks \in Seq(Mark)
      /\ MarksSound /\ InsideRegion /\ Disjoint
  BY DEF IInv, TypeOK
<1>a. /\ Len(regions) \in Nat /\ Len(live) \in Nat /\ Len(marks) \in Nat
      /\ r \in Nat /\ k \in Nat /\ k \in 0..Len(marks)
  BY <1>0, RegionTypes, BlockTypes, MarkTypes
<1>b. \A i \in 1..Len(regions) :
        /\ regions[i].count \in Nat /\ regions[i].capacity \in Nat
        /\ regions[i].count <= regions[i].capacity
        /\ regions'[i].count \in Nat /\ regions'[i].capacity \in Nat
  BY <1>0, RegionTypes DEF InsideRegion
<1>c. h <= Len(live) /\ r <= end /\ end \in Nat /\ c <= regions[r].count
  BY <1>a, Positions
<1>1. /\ marks' \in Seq(Mark) /\ Len(marks') = k
      /\ \A j \in 1..k : j \in 1..Len(marks) /\ marks'[j] = marks[j]
  BY <1>0, <1>a, MarkPrefix
<1>2. ASSUME NEW j \in 1..k
      PROVE  /\ marks[j].height <= h
             /\ marks[j].region <= r
             /\ marks[j].region = r => marks[j].count <= c
             /\ marks[j].region \in Nat /\ marks[j].height \in Nat /\ marks[j].count \in Nat
  <2>1. marks[j].region \in Nat /\ marks[j].height \in Nat /\ marks[j].count \in Nat
    BY <1>0, <1>1, MarkTypes
  <2>2. CASE j = k
    BY <2>1, <2>2
  <2>3. CASE j # k
    <3>1. j < k /\ j \in 1..Len(marks) /\ k \in 1..Len(marks)
      BY <1>1, <1>a, <2>3
    <3>2. MarksOrdered
      BY <1>0 DEF MarksSound
    <3>3. /\ marks[j].height <= marks[k].height
          /\ marks[j].region <= marks[k].region
          /\ marks[j].region = marks[k].region => marks[j].count <= marks[k].count
      BY <3>1, <3>2 DEF MarksOrdered
    <3> QED
      BY <2>1, <3>3
  <2> QED
    BY <2>2, <2>3
<1>3. /\ live' \in Seq(Block) /\ Len(live') = h
      /\ \A i \in 1..h : i \in 1..Len(live) /\ live'[i] = live[i]
  BY <1>0, <1>a, <1>c
<1>4. TypeOK'
  BY <1>1, <1>3, <1>a DEF TypeOK
<1>5. EndIsFrontier'
  <2>1. regions' # <<>>
    BY <1>a
  <2> QED
    BY <1>a, <2>1 DEF EndIsFrontier
<1>6. MarksValid'
  <2> SUFFICES ASSUME NEW j \in 1..k
               PROVE  /\ marks[j].height <= h
                      /\ marks[j].region = 0 => marks[j].height = 0 /\ marks[j].count = 0
                      /\ marks[j].region # 0 =>
                           /\ marks[j].region <= r
                           /\ marks[j].count <= regions'[marks[j].region].count
    <3>1. \A j \in 1..k : marks'[j] = marks[j]
      BY <1>1
    <3>2. Len(marks') = k /\ Len(live') = h
      BY <1>1, <1>3
    <3> QED
      BY <3>1, <3>2 DEF MarksValid
  <2>1. CASE marks[j].region = 0
    BY <1>1, <1>2, <2>1, Positions
  <2>2. CASE marks[j].region # 0
    <3>1. PICK q \in 1..Len(regions) : q = marks[j].region
      BY <1>1, <2>2, Positions
    <3>2. marks[j].count <= regions[q].count /\ q <= r
      BY <1>1, <1>2, <2>2, <3>1, Positions
    <3>3. marks[j].count <= regions'[q].count
      <4>1. CASE q = r
        BY <1>2, <3>1, <4>1
      <4>2. CASE q # r
        <5>1. q < r
          BY <1>a, <3>2, <4>2
        <5> QED
          BY <3>2, <5>1
      <4> QED
        BY <4>1, <4>2
    <3> QED
      BY <1>2, <2>2, <3>1, <3>2, <3>3
  <2> QED
    BY <2>1, <2>2
<1>7. MarksOrdered'
  <2>1. MarksOrdered
    BY <1>0 DEF MarksSound
  <2> QED
    BY <1>1, <2>1 DEF MarksOrdered
<1>d. \A j \in 1..Len(marks) : \A i \in 1..marks[j].height :
        \/ live[i].region < marks[j].region
        \/ live[i].region = marks[j].region /\ LastWord(live[i]) <= marks[j].count
  BY <1>0 DEF MarksSound, MarksCover
<1>8. MarksCover'
  <2> SUFFICES ASSUME NEW j \in 1..Len(marks'), NEW i \in 1..marks'[j].height
               PROVE  \/ live'[i].region < marks'[j].region
                      \/ /\ live'[i].region = marks'[j].region
                         /\ LastWord(live'[i]) <= marks'[j].count
    BY DEF MarksCover, LastWord
  <2>0. j \in 1..k /\ j \in 1..Len(marks) /\ marks'[j] = marks[j]
    BY <1>1
  <2>1. i \in 1..h /\ i \in 1..marks[j].height
    BY <1>2, <2>0
  <2>2. live'[i] = live[i]
    BY <1>3, <2>1
  <2> QED
    BY <1>d, <2>0, <2>1, <2>2
<1>9. InsideRegion'
  <2>1. ASSUME NEW i \in 1..Len(regions)
        PROVE  regions'[i].count <= regions'[i].capacity
    <3>1. CASE i < r
      BY <1>b, <3>1
    <3>2. CASE i = r
      <4>1. c <= regions[r].count /\ regions[r].count <= regions[r].capacity
        BY <1>b, <1>c
      <4>2. c <= regions[r].capacity
        BY <1>b, <4>1, LeqTransitive, Zenon
      <4> QED
        BY <3>2, <4>2
    <3>3. CASE r < i
      BY <1>b, <3>3
    <3> QED
      BY <1>a, <3>1, <3>2, <3>3
  <2>2. ASSUME NEW i \in 1..h
        PROVE  live[i].region <= r /\ LastWord(live[i]) <= regions'[live[i].region].count
    <3>1. PICK q \in 1..Len(regions) : q = live[i].region
      BY <1>3, Positions
    <3>2. q < r \/ (q = r /\ LastWord(live[i]) <= c)
      BY <1>d, <3>1
    <3>3. CASE q < r
      <4>1. LastWord(live[i]) <= regions[q].count
        BY <1>3, <3>1, Positions
      <4> QED
        BY <1>a, <3>1, <3>3, <4>1
    <3>4. CASE q = r /\ LastWord(live[i]) <= c
      BY <1>a, <3>1, <3>4
    <3> QED
      BY <3>2, <3>3, <3>4
  <2> QED
    BY <1>3, <2>1, <2>2 DEF InsideRegion, LastWord
<1>10. Disjoint'
  <2> SUFFICES ASSUME NEW i \in 1..Len(live'), NEW j \in 1..Len(live'), i < j
               PROVE  Before(live'[i], live'[j])
    BY DEF Disjoint, Before, LastWord
  <2>1. /\ i \in 1..Len(live) /\ live'[i] = live[i]
        /\ j \in 1..Len(live) /\ live'[j] = live[j]
    BY <1>3
  <2>2. Before(live[i], live[j])
    BY <1>0, <2>1 DEF Disjoint
  <2> QED
    BY <2>1, <2>2
<1> QED
  BY <1>4, <1>5, <1>6, <1>7, <1>8, <1>9, <1>10 DEF IInv, MarksSound

(***************************************************************************)
(* arena_rewind: to a null mark it is a reset.                             *)
(***************************************************************************)
LEMMA RewindCases ==
  ASSUME IInv, NEW k \in 1..Len(marks), arena_rewind(k)
  PROVE  \/ Empties
         \/ \E r \in 1..Len(regions), c \in Nat, h \in Nat : CutsBack(k, r, c, h)
<1>0. /\ regions \in Seq(Region) /\ marks \in Seq(Mark) /\ MarksSound
      /\ Len(regions) \in Nat /\ Len(marks) \in Nat
      /\ \A i \in 1..Len(regions) : regions[i] \in Region
      /\ marks[k].region \in Nat /\ marks[k].count \in Nat /\ marks[k].height \in Nat
  BY RegionTypes, MarkTypes DEF IInv, TypeOK
<1>1. marks' = SubSeq(marks, 1, k)
  BY DEF arena_rewind
<1>2. CASE marks[k].region = 0
  <2>1. ResetRegions
    BY <1>2 DEF arena_rewind
  <2>2. ASSUME NEW j \in 1..k PROVE marks[j].region = 0
    <3>1. j = k \/ (j < k /\ j \in 1..Len(marks))
      BY <1>0
    <3>2. j < k => marks[j].region <= marks[k].region
      BY <1>0, <3>1 DEF MarksSound, MarksOrdered
    <3>3. marks[j].region \in Nat
      BY <1>0, <3>1, MarkTypes
    <3> QED
      BY <1>2, <3>1, <3>2, <3>3
  <2>3. k \in 0..Len(marks)
    BY <1>0
  <2> QED
    BY <1>1, <2>1, <2>2, <2>3, ResetRegionsFacts DEF Empties
<1>3. CASE marks[k].region # 0
  <2> DEFINE r == marks[k].region
             c == marks[k].count
             h == marks[k].height
  <2>1. r \in 1..Len(regions) /\ c \in Nat /\ h \in Nat
    BY <1>0, <1>3, Positions
  <2>2. ASSUME NEW i \in 1..Len(regions)
        PROVE  /\ Rewound(i, marks[k]) \in Region
               /\ i < r => Rewound(i, marks[k]) = regions[i]
               /\ i = r => /\ Rewound(i, marks[k]).count = c
                           /\ Rewound(i, marks[k]).capacity = regions[i].capacity
               /\ r < i => Rewound(i, marks[k]).count = 0
    <3>1. i \in Nat /\ r \in Nat /\ regions[i] \in Region
      BY <1>0
    <3> HIDE DEF r, c
    <3>2. Rewound(i, marks[k]) = IF i < r THEN regions[i]
                                 ELSE [regions[i] EXCEPT !.count = IF i = r THEN c ELSE 0]
      BY DEF Rewound, r, c
    <3> QED
      BY <2>1, <3>1, <3>2 DEF Region
  <2>3. /\ regions' = [i \in 1..Len(regions) |-> Rewound(i, marks[k])]
        /\ end' = r
        /\ live' = SubSeq(live, 1, h)
    BY <1>3 DEF arena_rewind
  <2>4. /\ regions' \in Seq(Region) /\ Len(regions') = Len(regions)
        /\ \A i \in 1..Len(regions) : regions'[i] = Rewound(i, marks[k])
    <3> DEFINE n == Len(regions)
               f(i) == Rewound(i, marks[k])
    <3>1. n \in Nat /\ regions' = [i \in 1..n |-> f(i)] /\ \A i \in 1..n : f(i) \in Region
      BY <1>0, <2>2, <2>3
    <3> HIDE DEF n, f
    <3>2. regions' \in Seq(Region) /\ Len(regions') = n /\ \A i \in 1..n : regions'[i] = f(i)
      BY <3>1
    <3> QED BY <3>2 DEF n, f
  <2> HIDE DEF r, c, h
  <2>5. /\ \A i \in 1..Len(regions) : i < r => regions'[i] = regions[i]
        /\ \A i \in 1..Len(regions) : r < i => regions'[i].count = 0
        /\ regions'[r].count = c /\ regions'[r].capacity = regions[r].capacity
    BY <2>1, <2>2, <2>4
  <2>6. marks[k].region = r /\ marks[k].count = c /\ marks[k].height = h
    BY DEF r, c, h
  <2> QED
    BY <1>1, <2>1, <2>2, <2>3, <2>4, <2>5, <2>6 DEF CutsBack
<1> QED
  BY <1>2, <1>3

(***************************************************************************)
(* The invariant holds in every reachable state.                           *)
(***************************************************************************)
LEMMA NextInv == IInv /\ [Next]_vars => IInv'
<1> SUFFICES ASSUME IInv, [Next]_vars PROVE IInv'
  OBVIOUS
<1>1. ASSUME NEW bytes \in Sizes, arena_alloc(bytes) PROVE IInv'
  BY <1>1, AllocInv, SizesAssumption
<1>2. CASE arena_snapshot
  BY <1>2, SnapshotInv
<1>3. ASSUME NEW k \in 1..Len(marks), arena_rewind(k) PROVE IInv'
  BY <1>3, RewindCases, EmptyInv, CutBackInv
<1>4. CASE arena_reset
  BY <1>4, ResetEmpties, EmptyInv
<1>5. CASE arena_free
  BY <1>5, FreeEmpties, EmptyInv
<1>6. CASE arena_trim
  BY <1>6, TrimInv
<1>7. CASE UNCHANGED vars
  <2>1. regions' = regions /\ end' = end /\ live' = live /\ marks' = marks
    BY <1>7 DEF vars
  <2>2. TypeOK'
    BY <2>1 DEF IInv, TypeOK
  <2>3. EndIsFrontier' /\ MarksValid'
    BY <2>1 DEF IInv, MarksSound, EndIsFrontier, MarksValid
  <2>4. MarksOrdered' /\ MarksCover'
    BY <2>1 DEF IInv, MarksSound, MarksOrdered, MarksCover, LastWord
  <2>5. Disjoint'
    BY <2>1 DEF IInv, Disjoint, Before, LastWord
  <2>6. InsideRegion'
    BY <2>1 DEF IInv, InsideRegion, LastWord
  <2> QED
    BY <2>2, <2>3, <2>4, <2>5, <2>6 DEF IInv, MarksSound
<1> QED
  BY <1>1, <1>2, <1>3, <1>4, <1>5, <1>6, <1>7 DEF Next

LEMMA Invariance == Spec => []IInv
  BY InitInv, NextInv, PTL DEF Spec

(***************************************************************************)
(* Regions, blocks and marks keep their types, whatever arena_alloc,       *)
(* arena_rewind, arena_reset, arena_free and arena_trim are called with.   *)
(***************************************************************************)
THEOREM ArenaTypeOK == Spec => []TypeOK
  BY Invariance, PTL DEF IInv

(***************************************************************************)
(* arena_alloc never hands out a word that somebody already holds.         *)
(***************************************************************************)
THEOREM ArenaDisjoint == Spec => []Disjoint
  BY Invariance, PTL DEF IInv

(***************************************************************************)
(* Every block arena_alloc returned lies inside its region's memory.       *)
(***************************************************************************)
THEOREM ArenaInsideRegion == Spec => []InsideRegion
  BY Invariance, PTL DEF IInv

(***************************************************************************)
(* The assertions of arena_alloc and arena_snapshot hold, and any mark a   *)
(* client still has can be rewound to.                                     *)
(***************************************************************************)
THEOREM ArenaMarksSound == Spec => []MarksSound
  BY Invariance, PTL DEF IInv
(***************************************************************************)
(* Nothing is leaked.  Counts are tight: a number n of words of region r   *)
(* is accounted for by the first h blocks of s when n is where the last of *)
(* those that lie in r ends, or 0 when none does.  Every block starts at   *)
(* such a number, every region's count is one, and so is every mark's: it  *)
(* is the marks' share that a rewind needs.                                *)
(***************************************************************************)
Tight(s, r, h, n) ==
    \/ /\ \A i \in 1..h : s[i].region # r
       /\ n = 0
    \/ \E i \in 1..h :
         /\ s[i].region = r
         /\ i < h => s[i + 1].region # r
         /\ n = LastWord(s[i])

BlocksTight == \A i \in 1..Len(live) : Tight(live, live[i].region, i - 1, live[i].offset)

RegionsTight == \A r \in 1..Len(regions) : Tight(live, r, Len(live), regions[r].count)

MarksTight ==
    \A k \in 1..Len(marks) :
      marks[k].region # 0 =>
        /\ Tight(live, marks[k].region, marks[k].height, marks[k].count)
        /\ \A i \in 1..Len(live) : marks[k].height < i => marks[k].region <= live[i].region

TightInv == BlocksTight /\ RegionsTight /\ MarksTight

\* Only the first h blocks matter.
LEMMA TightSame ==
  ASSUME NEW s, NEW t, NEW r, NEW h \in Nat, NEW n,
         \A i \in 1..h : t[i] = s[i], Tight(s, r, h, n)
  PROVE  Tight(t, r, h, n)
<1>1. CASE /\ \A i \in 1..h : s[i].region # r
           /\ n = 0
  BY <1>1 DEF Tight
<1>2. ASSUME NEW i \in 1..h, s[i].region = r, i < h => s[i + 1].region # r, n = LastWord(s[i])
      PROVE  Tight(t, r, h, n)
  <2>1. t[i] = s[i] /\ (i < h => i + 1 \in 1..h)
    OBVIOUS
  <2>2. i < h => t[i + 1] = s[i + 1]
    BY <2>1
  <2> QED BY <1>2, <2>1, <2>2 DEF Tight
<1> QED BY <1>1, <1>2 DEF Tight

\* Blocks of later regions do not count.
LEMMA TightShorter ==
  ASSUME NEW s, NEW r \in Nat, NEW g \in Nat, NEW h \in 0..g, NEW n,
         \A i \in 1..g : s[i].region \in Nat /\ (h < i => r < s[i].region),
         Tight(s, r, g, n)
  PROVE  Tight(s, r, h, n)
<1>1. CASE /\ \A i \in 1..g : s[i].region # r
           /\ n = 0
  BY <1>1 DEF Tight
<1>2. ASSUME NEW i \in 1..g, s[i].region = r, i < g => s[i + 1].region # r, n = LastWord(s[i])
      PROVE  Tight(s, r, h, n)
  <2>1. i \in 1..h /\ (i < h => i < g)
    BY <1>2
  <2> QED BY <1>2, <2>1 DEF Tight
<1> QED BY <1>1, <1>2 DEF Tight

\* One more block: its own region is accounted for up to its end, another
\* region as before.
LEMMA TightLonger ==
  ASSUME NEW s, NEW t, NEW b, NEW h \in Nat, NEW r, NEW n,
         \A i \in 1..h : t[i] = s[i], t[h + 1] = b,
         IF r = b.region THEN n = LastWord(b) ELSE Tight(s, r, h, n)
  PROVE  Tight(t, r, h + 1, n)
<1>1. CASE r = b.region
  <2>1. h + 1 \in 1..(h + 1) /\ ~(h + 1 < h + 1)
    OBVIOUS
  <2> QED BY <1>1, <2>1 DEF Tight
<1>2. CASE r # b.region
  <2>1. CASE /\ \A i \in 1..h : s[i].region # r
             /\ n = 0
    <3>1. \A i \in 1..(h + 1) : i \in 1..h \/ i = h + 1
      OBVIOUS
    <3>2. \A i \in 1..(h + 1) : t[i].region # r
      BY <1>2, <2>1, <3>1
    <3> QED BY <2>1, <3>2 DEF Tight
  <2>2. ASSUME NEW i \in 1..h, s[i].region = r, i < h => s[i + 1].region # r, n = LastWord(s[i])
        PROVE  Tight(t, r, h + 1, n)
    <3>1. i \in 1..(h + 1) /\ t[i] = s[i] /\ i + 1 \in 1..(h + 1)
      OBVIOUS
    <3>2. t[i + 1].region # r
      <4>1. CASE i < h
        <5>1. i + 1 \in 1..h
          BY <4>1
        <5> QED BY <2>2, <4>1, <5>1
      <4>2. CASE i = h
        BY <1>2, <4>2
      <4> QED BY <4>1, <4>2
    <3> QED BY <2>2, <3>1, <3>2 DEF Tight
  <2> QED BY <1>2, <2>1, <2>2 DEF Tight
<1> QED BY <1>1, <1>2

LEMMA TightInit == Init => TightInv
  BY DEF Init, TightInv, BlocksTight, RegionsTight, MarksTight

(***************************************************************************)
(* arena_alloc starts a block at the count of its region.                  *)
(***************************************************************************)
LEMMA HandOutTight ==
  ASSUME IInv, TightInv, NEW r \in Nat \ {0}, NEW c \in Nat, NEW w \in Nat, HandsOut(r, c, w)
  PROVE  TightInv'
<1>h. /\ Len(regions) <= Len(regions')
      /\ end' = r /\ end <= r
      /\ \A i \in 1..Len(regions) : i # r => regions'[i] = regions[i]
      /\ \A i \in 1..Len(regions') : i <= Len(regions) \/ i = r
      /\ IF r <= Len(regions) THEN c = regions[r].count ELSE c = 0
      /\ regions'[r].count = c + w
      /\ live' = Append(live, [region |-> r, offset |-> c, words |-> w])
      /\ marks' = marks
  BY DEF HandsOut
<1> USE <1>h
<1> DEFINE new == [region |-> r, offset |-> c, words |-> w]
           n == Len(live)
<1>1. /\ new \in Block /\ LastWord(new) = c + w /\ new.region = r /\ new.offset = c
  BY DEF Block, LastWord
<1> HIDE DEF new
<1>2. live' = Append(live, new) /\ live \in Seq(Block)
  BY DEF new, IInv, TypeOK
<1>3. /\ n \in Nat /\ Len(live') = n + 1
      /\ \A i \in 1..n : live'[i] = live[i]
      /\ live'[n + 1] = new
      /\ \A i \in 1..(n + 1) : i \in 1..n \/ i = n + 1
  BY <1>1, <1>2
<1>4. \A i \in 1..n : live[i].region \in 1..Len(regions) /\ Len(regions) \in Nat
  BY Positions, RegionTypes DEF IInv, TypeOK
<1>5. Tight(live, r, n, c)
  <2>1. CASE r <= Len(regions)
    <3>1. r \in 1..Len(regions) /\ c = regions[r].count
      BY <2>1, RegionTypes DEF IInv, TypeOK
    <3> QED BY <3>1 DEF TightInv, RegionsTight
  <2>2. CASE ~(r <= Len(regions))
    <3>1. \A i \in 1..n : live[i].region # r
      BY <1>4, <2>2
    <3> QED BY <2>2, <3>1 DEF Tight
  <2> QED BY <2>1, <2>2
<1>6. BlocksTight'
  <2> SUFFICES ASSUME NEW i \in 1..(n + 1)
               PROVE  Tight(live', live'[i].region, i - 1, live'[i].offset)
    BY <1>3 DEF BlocksTight, Tight, LastWord
  <2>1. CASE i \in 1..n
    <3>1. Tight(live, live[i].region, i - 1, live[i].offset)
      BY <2>1 DEF TightInv, BlocksTight
    <3>2. i - 1 \in Nat /\ \A j \in 1..(i - 1) : j \in 1..n
      BY <1>3, <2>1
    <3>3. live'[i] = live[i] /\ \A j \in 1..(i - 1) : live'[j] = live[j]
      BY <1>3, <2>1, <3>2
    <3> QED BY <3>1, <3>2, <3>3, TightSame
  <2>2. CASE i = n + 1
    <3>1. live'[i].region = r /\ live'[i].offset = c /\ i - 1 = n
      BY <1>1, <1>3, <2>2
    <3>2. Tight(live', r, n, c)
      BY <1>3, <1>5, TightSame
    <3> QED BY <3>1, <3>2
  <2> QED BY <1>3, <2>1, <2>2
<1>7. RegionsTight'
  <2> SUFFICES ASSUME NEW q \in 1..Len(regions')
               PROVE  Tight(live', q, Len(live'), regions'[q].count)
    BY DEF RegionsTight, Tight, LastWord
  <2>1. q # r => q \in 1..Len(regions) /\ regions'[q] = regions[q]
    BY <1>4, RegionTypes DEF IInv, TypeOK
  <2>2. q # r => Tight(live, q, n, regions'[q].count)
    BY <2>1 DEF TightInv, RegionsTight
  <2>3. CASE q = r
    <3>1. regions'[q].count = LastWord(new) /\ q = new.region
      BY <1>1, <2>3
    <3>2. Tight(live', q, n + 1, regions'[q].count)
      BY <1>3, <3>1, TightLonger
    <3> QED BY <1>3, <3>2
  <2>4. CASE q # r
    <3>1. q # new.region
      BY <1>1, <2>4
    <3>2. Tight(live', q, n + 1, regions'[q].count)
      BY <1>3, <2>2, <2>4, <3>1, TightLonger
    <3> QED BY <1>3, <3>2
  <2> QED BY <2>3, <2>4
<1>8. MarksTight'
  <2> SUFFICES ASSUME NEW k \in 1..Len(marks), marks[k].region # 0
               PROVE  /\ Tight(live', marks[k].region, marks[k].height, marks[k].count)
                      /\ \A i \in 1..(n + 1) :
                           marks[k].height < i => marks[k].region <= live'[i].region
    BY <1>3 DEF MarksTight, Tight, LastWord
  <2>1. marks[k].height \in 0..n /\ marks[k].region <= end /\ marks[k].region \in Nat /\ end \in Nat
    BY Positions, MarkTypes DEF IInv, TypeOK
  <2>2. Tight(live, marks[k].region, marks[k].height, marks[k].count)
    BY DEF TightInv, MarksTight
  <2>3. marks[k].height \in Nat /\ \A i \in 1..marks[k].height : live'[i] = live[i]
    BY <1>3, <2>1
  <2>4. Tight(live', marks[k].region, marks[k].height, marks[k].count)
    BY <2>2, <2>3, TightSame
  <2>5. \A i \in 1..n : marks[k].height < i => marks[k].region <= live'[i].region
    BY <1>3 DEF TightInv, MarksTight
  <2>6. marks[k].region <= live'[n + 1].region
    BY <1>1, <1>3, <2>1
  <2> QED BY <1>3, <2>4, <2>5, <2>6
<1> QED BY <1>6, <1>7, <1>8 DEF TightInv

LEMMA AllocTight ==
  ASSUME IInv, TightInv, NEW bytes \in Nat, arena_alloc(bytes)
  PROVE  TightInv'
  BY AllocHandsOut, HandOutTight, WordsType

\* A new mark records the count of the frontier, with every block before it.
LEMMA SnapshotTight == ASSUME IInv, TightInv, arena_snapshot PROVE TightInv'
<1> DEFINE c == IF end = 0 THEN 0 ELSE regions[end].count
           new == [region |-> end, count |-> c, height |-> Len(live)]
<1>0. /\ marks \in Seq(Mark) /\ Len(marks) \in Nat /\ Len(live) \in Nat
      /\ end \in 0..Len(regions) /\ Len(regions) \in Nat
  BY Positions, RegionTypes, BlockTypes, MarkTypes DEF IInv, TypeOK
<1>1. /\ c \in Nat /\ new \in Mark
      /\ new.region = end /\ new.count = c /\ new.height = Len(live)
  BY <1>0, RegionTypes DEF Mark, IInv, TypeOK
<1>2. marks' = Append(marks, new) /\ UNCHANGED <<regions, end, live>>
  BY DEF arena_snapshot
<1> HIDE DEF new
<1>3. /\ Len(marks') = Len(marks) + 1
      /\ \A k \in 1..Len(marks) : marks'[k] = marks[k]
      /\ marks'[Len(marks) + 1] = new
      /\ \A k \in 1..Len(marks') : k \in 1..Len(marks) \/ k = Len(marks) + 1
  BY <1>0, <1>1, <1>2
<1>4. BlocksTight' /\ RegionsTight'
  BY <1>2 DEF TightInv, BlocksTight, RegionsTight, Tight
<1>5. MarksTight'
  <2> SUFFICES ASSUME NEW k \in 1..Len(marks'), marks'[k].region # 0
               PROVE  /\ Tight(live, marks'[k].region, marks'[k].height, marks'[k].count)
                      /\ \A i \in 1..Len(live) :
                           marks'[k].height < i => marks'[k].region <= live[i].region
    BY <1>2 DEF MarksTight, Tight, LastWord
  <2>1. CASE k \in 1..Len(marks)
    <3>1. marks'[k] = marks[k]
      BY <1>3, <2>1
    <3> QED BY <2>1, <3>1 DEF TightInv, MarksTight
  <2>2. CASE k = Len(marks) + 1
    <3>1. marks'[k] = new
      BY <1>3, <2>2
    <3>2. end \in 1..Len(regions) /\ c = regions[end].count
      BY <1>0, <1>1, <3>1
    <3>3. Tight(live, end, Len(live), c)
      BY <3>2 DEF TightInv, RegionsTight
    <3>4. \A i \in 1..Len(live) : ~(Len(live) < i)
      BY <1>0
    <3> HIDE DEF c
    <3> QED BY <1>1, <3>1, <3>3, <3>4
  <2> QED BY <1>3, <2>1, <2>2
<1> QED BY <1>4, <1>5 DEF TightInv

LEMMA EmptyTight == ASSUME IInv, Empties PROVE TightInv'
<1>1. PICK n \in 0..Len(marks) :
        /\ \A k \in 1..n : marks[k].region = 0
        /\ marks' = SubSeq(marks, 1, n)
  BY DEF Empties
<1>2. \A k \in 1..Len(marks') : marks'[k].region = 0
  BY <1>1, MarkPrefix DEF IInv, TypeOK
<1>3. Len(live') = 0 /\ \A r \in 1..Len(regions') : regions'[r].count = 0
  BY DEF Empties
<1>4. BlocksTight' /\ RegionsTight'
  BY <1>3 DEF BlocksTight, RegionsTight, Tight
<1>5. MarksTight'
  BY <1>2 DEF MarksTight
<1> QED BY <1>4, <1>5 DEF TightInv

LEMMA TrimTight == ASSUME IInv, TightInv, arena_trim PROVE TightInv'
<1>1. /\ Len(regions') = end /\ Len(regions) \in Nat /\ end \in 1..Len(regions)
      /\ \A i \in 1..end : regions'[i] = regions[i] /\ i \in 1..Len(regions)
      /\ UNCHANGED <<end, live, marks>>
  BY Positions, RegionTypes DEF IInv, TypeOK, arena_trim
<1>2. BlocksTight' /\ MarksTight'
  BY <1>1 DEF TightInv, BlocksTight, MarksTight, Tight, LastWord
<1>3. RegionsTight'
  BY <1>1 DEF TightInv, RegionsTight, Tight, LastWord
<1> QED BY <1>2, <1>3 DEF TightInv

\* A rewind puts the mark's region back to a tight count, and the regions
\* before it hold only blocks that are kept.
LEMMA CutBackTight ==
  ASSUME IInv, TightInv, NEW k \in 1..Len(marks), NEW r \in 1..Len(regions),
         NEW c \in Nat, NEW h \in Nat, CutsBack(k, r, c, h)
  PROVE  TightInv'
<1>h. /\ marks[k].region = r /\ marks[k].count = c /\ marks[k].height = h
      /\ Len(regions') = Len(regions)
      /\ \A i \in 1..Len(regions) : i < r => regions'[i] = regions[i]
      /\ regions'[r].count = c
      /\ \A i \in 1..Len(regions) : r < i => regions'[i].count = 0
      /\ live' = SubSeq(live, 1, h) /\ marks' = SubSeq(marks, 1, k)
  BY DEF CutsBack
<1>0. /\ live \in Seq(Block) /\ marks \in Seq(Mark) /\ MarksSound
      /\ Len(live) \in Nat /\ Len(marks) \in Nat /\ k \in 0..Len(marks)
      /\ r \in Nat /\ Len(regions) \in Nat /\ h \in 0..Len(live)
      /\ \A i \in 1..Len(live) : live[i].region \in Nat
  BY <1>h, Positions, RegionTypes, BlockTypes, MarkTypes DEF IInv, TypeOK
<1>1. /\ Len(live') = h
      /\ \A i \in 1..h : i \in 1..Len(live) /\ live'[i] = live[i]
  BY <1>h, <1>0
<1>2. /\ Len(marks') = k
      /\ \A j \in 1..k : j \in 1..Len(marks) /\ marks'[j] = marks[j]
  BY <1>h, <1>0, MarkPrefix
<1>3. /\ Tight(live, r, h, c)
      /\ \A i \in 1..Len(live) : h < i => r <= live[i].region
  <2>1. marks[k].region # 0
    BY <1>h, <1>0
  <2>2. /\ Tight(live, marks[k].region, marks[k].height, marks[k].count)
        /\ \A i \in 1..Len(live) : marks[k].height < i => marks[k].region <= live[i].region
    BY <2>1 DEF TightInv, MarksTight
  <2> QED BY <1>h, <2>2
<1>4. BlocksTight'
  <2> SUFFICES ASSUME NEW i \in 1..h
               PROVE  Tight(live', live'[i].region, i - 1, live'[i].offset)
    BY <1>1 DEF BlocksTight, Tight, LastWord
  <2>1. Tight(live, live[i].region, i - 1, live[i].offset)
    BY <1>1 DEF TightInv, BlocksTight
  <2>2. i - 1 \in Nat /\ \A j \in 1..(i - 1) : j \in 1..h
    BY <1>0
  <2>3. \A j \in 1..(i - 1) : live'[j] = live[j]
    BY <1>1, <2>2
  <2> QED BY <1>1, <2>1, <2>2, <2>3, TightSame
<1>5. RegionsTight'
  <2> SUFFICES ASSUME NEW q \in 1..Len(regions)
               PROVE  Tight(live, q, h, regions'[q].count)
    <3>1. ASSUME NEW q \in 1..Len(regions') PROVE Tight(live', q, Len(live'), regions'[q].count)
      <4>1. Tight(live, q, h, regions'[q].count)
        BY <1>h, <3>1
      <4> QED BY <1>0, <1>1, <4>1, TightSame
    <3> QED BY <3>1 DEF RegionsTight, Tight, LastWord
  <2>1. CASE q < r
    <3>1. Tight(live, q, Len(live), regions'[q].count)
      BY <1>h, <2>1 DEF TightInv, RegionsTight
    <3>2. \A i \in 1..Len(live) : live[i].region \in Nat /\ (h < i => q < live[i].region)
      BY <1>0, <1>3, <2>1
    <3>3. q \in Nat /\ Len(live) \in Nat /\ h \in 0..Len(live)
      BY <1>0
    <3> QED BY <3>1, <3>2, <3>3, TightShorter
  <2>2. CASE q = r
    BY <1>h, <1>3, <2>2
  <2>3. CASE r < q
    <3>1. \A i \in 1..h : live[i].region <= r
      BY <1>h, <1>0 DEF MarksSound, MarksCover
    <3>2. \A i \in 1..h : live[i].region # q
      BY <1>0, <1>1, <2>3, <3>1
    <3> QED BY <1>h, <2>3, <3>2 DEF Tight
  <2> QED BY <1>0, <2>1, <2>2, <2>3
<1>6. MarksTight'
  <2> SUFFICES ASSUME NEW j \in 1..k, marks[j].region # 0
               PROVE  /\ Tight(live', marks[j].region, marks[j].height, marks[j].count)
                      /\ \A i \in 1..h :
                           marks[j].height < i => marks[j].region <= live'[i].region
    <3>1. \A j \in 1..k : marks'[j] = marks[j]
      BY <1>2
    <3> QED BY <1>1, <1>2, <3>1 DEF MarksTight, Tight, LastWord
  <2>1. marks[j].height \in 0..Len(live) /\ marks[j].height <= h
    <3>1. j = k \/ (j < k /\ j \in 1..Len(marks))
      BY <1>0, <1>2
    <3> QED BY <1>h, <1>0, <1>2, <3>1, Positions DEF MarksSound, MarksOrdered
  <2>2. Tight(live, marks[j].region, marks[j].height, marks[j].count)
    BY <1>2 DEF TightInv, MarksTight
  <2>3. marks[j].height \in Nat /\ \A i \in 1..marks[j].height : live'[i] = live[i]
    BY <1>0, <1>1, <2>1
  <2>4. Tight(live', marks[j].region, marks[j].height, marks[j].count)
    BY <2>2, <2>3, TightSame
  <2>5. \A i \in 1..h : marks[j].height < i => marks[j].region <= live[i].region
    BY <1>1, <1>2 DEF TightInv, MarksTight
  <2> QED BY <1>1, <2>4, <2>5
<1> QED BY <1>4, <1>5, <1>6 DEF TightInv

LEMMA TightNext == IInv /\ TightInv /\ [Next]_vars => TightInv'
<1> SUFFICES ASSUME IInv, TightInv, [Next]_vars PROVE TightInv'
  OBVIOUS
<1>1. ASSUME NEW bytes \in Sizes, arena_alloc(bytes) PROVE TightInv'
  BY <1>1, AllocTight, SizesAssumption
<1>2. CASE arena_snapshot
  BY <1>2, SnapshotTight
<1>3. ASSUME NEW k \in 1..Len(marks), arena_rewind(k) PROVE TightInv'
  BY <1>3, RewindCases, EmptyTight, CutBackTight
<1>4. CASE arena_reset
  BY <1>4, ResetEmpties, EmptyTight
<1>5. CASE arena_free
  BY <1>5, FreeEmpties, EmptyTight
<1>6. CASE arena_trim
  BY <1>6, TrimTight
<1>7. CASE UNCHANGED vars
  BY <1>7 DEF vars, TightInv, BlocksTight, RegionsTight, MarksTight, Tight, LastWord
<1> QED BY <1>1, <1>2, <1>3, <1>4, <1>5, <1>6, <1>7 DEF Next

(***************************************************************************)
(* Disjoint blocks lie in regions in list order, so those of one region    *)
(* follow one another without a gap.                                       *)
(***************************************************************************)
LEMMA Between ==
  ASSUME IInv, NEW i \in 1..Len(live), NEW j \in 1..Len(live), NEW k \in 1..Len(live),
         i <= j, j <= k, live[i].region = live[k].region
  PROVE  live[j].region = live[i].region
<1>1. \A m \in 1..Len(live) : live[m].region \in Nat
  BY BlockTypes DEF IInv, TypeOK
<1>2. /\ i = j \/ live[i].region <= live[j].region
      /\ j = k \/ live[j].region <= live[k].region
  BY <1>1 DEF IInv, Disjoint, Before
<1> QED BY <1>1, <1>2

LEMMA TightHasNoLeak == IInv /\ TightInv => NoLeak
<1> SUFFICES ASSUME IInv, TightInv PROVE NoLeak
  OBVIOUS
<1> DEFINE n == Len(live)
<1>0. n \in Nat /\ HeldIn(0) \subseteq 1..n
  BY BlockTypes DEF IInv, TypeOK, HeldIn
<1> SUFFICES ASSUME NEW r \in 1..Len(regions)
             PROVE  /\ HeldIn(r) = {} => regions[r].count = 0
                    /\ \A i \in HeldIn(r) :
                       /\ i - 1 \notin HeldIn(r) => live[i].offset = 0
                       /\ IF i + 1 \in HeldIn(r) THEN live[i + 1].offset = LastWord(live[i])
                                                  ELSE regions[r].count = LastWord(live[i])
  BY DEF NoLeak
<1>1. Tight(live, r, n, regions[r].count)
  BY DEF TightInv, RegionsTight
<1>2. \A i \in 1..n : i \in HeldIn(r) <=> live[i].region = r
  BY DEF HeldIn
<1>3. ASSUME HeldIn(r) = {} PROVE regions[r].count = 0
  BY <1>1, <1>2, <1>3 DEF Tight
<1>4. ASSUME NEW i \in HeldIn(r), i - 1 \notin HeldIn(r) PROVE live[i].offset = 0
  <2>1. i \in 1..n /\ live[i].region = r
    BY DEF HeldIn
  <2>2. Tight(live, r, i - 1, live[i].offset)
    BY <2>1 DEF TightInv, BlocksTight
  <2>3. ASSUME NEW j \in 1..(i - 1), live[j].region = r, j < i - 1 => live[j + 1].region # r
        PROVE  FALSE
    <3>1. j \in 1..n /\ j + 1 \in 1..n /\ j <= j + 1 /\ j + 1 <= i
      BY <1>0, <2>1
    <3>2. live[j + 1].region = r
      BY <2>1, <2>3, <3>1, Between
    <3>3. j = i - 1
      BY <2>1, <2>3, <3>2
    <3> QED BY <1>2, <1>4, <2>3, <3>1, <3>3
  <2> QED BY <2>2, <2>3 DEF Tight
<1>5. ASSUME NEW i \in HeldIn(r), i + 1 \in HeldIn(r)
      PROVE  live[i + 1].offset = LastWord(live[i])
  <2>1. i \in 1..n /\ live[i].region = r /\ i + 1 \in 1..n /\ live[i + 1].region = r
    BY <1>5 DEF HeldIn
  <2>2. Tight(live, r, i, live[i + 1].offset)
    <3>1. (i + 1) - 1 = i
      BY <2>1
    <3>2. Tight(live, live[i + 1].region, (i + 1) - 1, live[i + 1].offset)
      BY <2>1 DEF TightInv, BlocksTight
    <3> QED BY <2>1, <3>1, <3>2
  <2>3. i \in 1..i
    BY <2>1
  <2>4. ASSUME NEW j \in 1..i, live[j].region = r, j < i => live[j + 1].region # r
        PROVE  j = i
    <3>1. j < i => j \in 1..n /\ j + 1 \in 1..n /\ j <= j + 1 /\ j + 1 <= i
      BY <1>0, <2>1
    <3>2. j < i => live[j + 1].region = r
      BY <2>1, <2>4, <3>1, Between
    <3> QED BY <2>1, <2>4, <3>2
  <2> QED BY <2>1, <2>2, <2>3, <2>4 DEF Tight
<1>6. ASSUME NEW i \in HeldIn(r), i + 1 \notin HeldIn(r)
      PROVE  regions[r].count = LastWord(live[i])
  <2>1. i \in 1..n /\ live[i].region = r
    BY DEF HeldIn
  <2>2. ASSUME NEW j \in 1..n, live[j].region = r, j < n => live[j + 1].region # r
        PROVE  j = i
    <3>1. CASE j < i
      <4>1. j + 1 \in 1..n /\ j <= j + 1 /\ j + 1 <= i /\ j < n
        BY <1>0, <2>1, <3>1
      <4>2. live[j + 1].region = r
        BY <2>1, <2>2, <4>1, Between
      <4> QED BY <2>2, <4>1, <4>2
    <3>2. CASE i < j
      <4>1. i + 1 \in 1..n /\ i <= i + 1 /\ i + 1 <= j
        BY <1>0, <2>1, <3>2
      <4>2. live[i + 1].region = r
        BY <2>1, <2>2, <4>1, Between
      <4> QED BY <1>2, <1>6, <4>1, <4>2
    <3> QED BY <1>0, <2>1, <3>1, <3>2
  <2> QED BY <1>1, <2>1, <2>2 DEF Tight
<1> QED BY <1>3, <1>4, <1>5, <1>6

(***************************************************************************)
(* A rewind gives back all that was allocated since its mark: no word a    *)
(* region counts as used is outside the blocks that are held.              *)
(***************************************************************************)
THEOREM ArenaNoLeak == Spec => []NoLeak
  BY InitInv, NextInv, TightInit, TightNext, TightHasNoLeak, PTL DEF Spec

----------------------------------------------------------------------------
(* The walk of arena_alloc *)

\* Where the walk stands: at a region, with so many words of it used.  The
\* regions behind are empty.  A reset puts it at the first region, though that
\* may still have to be made.
Places == Nat \X Nat
Start == <<1, 0>>
Place == IF end = 0 THEN Start ELSE <<end, regions[end].count>>

\* Among regions rs an allocation of w words moves the walk from p to q: it
\* stays if there is room, and goes on to the first region that is large enough
\* if there is none.
Moves(rs, p, w, q) ==
    /\ p[1] \in 1..Len(rs)
    /\ IF p[2] + w <= rs[p[1]].capacity THEN q = <<p[1], p[2] + w>>
       ELSE \E i \in (p[1] + 1)..Len(rs) :
              /\ q = <<i, w>> /\ w <= rs[i].capacity
              /\ \A j \in (p[1] + 1)..(i - 1) : rs[j].capacity < w

\* Every region is still there, as large as it was.
Grown(rs, rs2) ==
    /\ Len(rs) <= Len(rs2)
    /\ \A i \in 1..Len(rs) : rs2[i].capacity = rs[i].capacity

LEMMA PlaceFields == ASSUME NEW p \in Places PROVE p = <<p[1], p[2]>> /\ p[1] \in Nat /\ p[2] \in Nat
  BY DEF Places

LEMMA MovesUnique ==
  ASSUME NEW rs \in Seq(Region), NEW p \in Places, NEW w \in Nat, NEW q, NEW r,
         Moves(rs, p, w, q), Moves(rs, p, w, r)
  PROVE  q = r
<1>1. CASE p[2] + w <= rs[p[1]].capacity
  BY <1>1 DEF Moves
<1>2. CASE ~(p[2] + w <= rs[p[1]].capacity)
  <2>0. p[1] \in Nat /\ Len(rs) \in Nat /\ \A i \in 1..Len(rs) : rs[i].capacity \in Nat
    BY PlaceFields, RegionTypes
  <2>1. PICK i \in (p[1] + 1)..Len(rs) :
          /\ q = <<i, w>> /\ w <= rs[i].capacity
          /\ \A j \in (p[1] + 1)..(i - 1) : rs[j].capacity < w
    BY <1>2 DEF Moves
  <2>2. PICK k \in (p[1] + 1)..Len(rs) :
          /\ r = <<k, w>> /\ w <= rs[k].capacity
          /\ \A j \in (p[1] + 1)..(k - 1) : rs[j].capacity < w
    BY <1>2 DEF Moves
  <2>3. ~(i < k) /\ ~(k < i)
    <3>1. rs[i].capacity \in Nat /\ rs[k].capacity \in Nat
      BY <2>0
    <3>2. i < k => i \in (p[1] + 1)..(k - 1)
      BY <2>0
    <3>3. k < i => k \in (p[1] + 1)..(i - 1)
      BY <2>0
    <3> QED BY <2>1, <2>2, <3>1, <3>2, <3>3
  <2>4. i = k
    BY <2>0, <2>3
  <2> QED BY <2>1, <2>2, <2>4
<1> QED BY <1>1, <1>2

\* Regions that are added do not turn a walk aside.
LEMMA MovesGrown ==
  ASSUME NEW rs \in Seq(Region), NEW rs2 \in Seq(Region), Grown(rs, rs2),
         NEW p \in Places, NEW w \in Nat, NEW q, Moves(rs, p, w, q)
  PROVE  Moves(rs2, p, w, q)
<1>0. /\ p[1] \in Nat /\ p[1] \in 1..Len(rs) /\ Len(rs) \in Nat /\ Len(rs2) \in Nat
      /\ Len(rs) <= Len(rs2)
      /\ \A i \in 1..Len(rs) : rs2[i].capacity = rs[i].capacity
  BY PlaceFields, RegionTypes DEF Grown, Moves
<1>1. p[1] \in 1..Len(rs2) /\ rs2[p[1]].capacity = rs[p[1]].capacity
  BY <1>0
<1>2. CASE p[2] + w <= rs[p[1]].capacity
  BY <1>1, <1>2 DEF Moves
<1>3. CASE ~(p[2] + w <= rs[p[1]].capacity)
  <2>1. PICK i \in (p[1] + 1)..Len(rs) :
          /\ q = <<i, w>> /\ w <= rs[i].capacity
          /\ \A j \in (p[1] + 1)..(i - 1) : rs[j].capacity < w
    BY <1>3 DEF Moves
  <2>2. i \in (p[1] + 1)..Len(rs2) /\ w <= rs2[i].capacity
    BY <1>0, <2>1
  <2>3. \A j \in (p[1] + 1)..(i - 1) : rs2[j].capacity < w
    <3> SUFFICES ASSUME NEW j \in (p[1] + 1)..(i - 1) PROVE rs2[j].capacity < w
      OBVIOUS
    <3>1. j \in 1..Len(rs)
      BY <1>0
    <3> QED BY <1>0, <2>1, <3>1
  <2> QED BY <1>1, <1>3, <2>1, <2>2, <2>3 DEF Moves
<1> QED BY <1>2, <1>3

\* arena_alloc moves the place along the walk, in the regions there are after it.
LEMMA AllocMoves ==
  ASSUME IInv, NEW bytes \in Nat, arena_alloc(bytes)
  PROVE  /\ Grown(regions, regions')
         /\ Place \in Places /\ Place' \in Places
         /\ Moves(regions', Place, Words(bytes), Place')
         /\ \A q : Moves(regions, Place, Words(bytes), q) => Len(regions') = Len(regions)
<1> DEFINE w == Words(bytes)
<1>0. /\ w \in Nat /\ regions \in Seq(Region) /\ Len(regions) \in Nat /\ end \in 0..Len(regions)
      /\ \A i \in 1..Len(regions) :
           regions[i] \in Region /\ regions[i].count \in Nat /\ regions[i].capacity \in Nat
      /\ end = 0 <=> Len(regions) = 0
      /\ \A i \in 1..Len(regions) : end < i => regions[i].count = 0
  BY WordsType, RegionTypes, Positions DEF IInv, TypeOK, MarksSound, EndIsFrontier
<1>p. Place \in Places
  BY <1>0 DEF Place, Places, Start
<1>e. end # 0 => Place[1] = end /\ Place[2] = regions[end].count /\ end \in 1..Len(regions)
  BY <1>0 DEF Place
<1>s. end = 0 => Place[1] = 1 /\ Place[2] = 0
  BY DEF Place, Start
<1> HIDE DEF w
<1>1. ASSUME NEW r \in 1..Len(regions), AllocInRegion(r, w)
      PROVE  /\ Grown(regions, regions') /\ Place' \in Places /\ Len(regions') = Len(regions)
             /\ Moves(regions', Place, w, Place')
  <2> DEFINE c == regions[r].count
  <2>1. /\ end <= r /\ c + w <= regions[r].capacity
        /\ \A j \in 1..(r - 1) : end <= j => ~(regions[j].count + w <= regions[j].capacity)
        /\ regions' = [regions EXCEPT ![r].count = c + w] /\ end' = r
    BY <1>1 DEF AllocInRegion, FirstFit, Fits
  <2>2. /\ regions' \in Seq(Region) /\ Len(regions') = Len(regions)
        /\ \A i \in 1..Len(regions) : i # r => regions'[i] = regions[i]
        /\ regions'[r] = [count |-> c + w, capacity |-> regions[r].capacity]
    BY <1>0, <2>1 DEF Region
  <2>3. \A i \in 1..Len(regions) : regions'[i].capacity = regions[i].capacity
    BY <2>2
  <2>4. Grown(regions, regions')
    BY <1>0, <2>2, <2>3 DEF Grown
  <2>9. c \in Nat /\ r \in Nat \ {0} /\ regions'[r].count = c + w
    BY <1>0, <2>2
  <2>5. Place' = <<r, c + w>> /\ Place' \in Places
    <3> HIDE DEF c
    <3>1. Place' = <<r, c + w>>
      BY <2>1, <2>9 DEF Place
    <3> QED BY <1>0, <2>9, <3>1 DEF Places
  <2>6. end # 0 /\ end \in 1..Len(regions) /\ Place[1] = end /\ Place[2] = regions[end].count
    BY <1>0, <1>e
  <2>7. CASE r = end
    <3>1. Place[2] + w <= regions'[Place[1]].capacity
      BY <2>1, <2>3, <2>6, <2>7
    <3> QED BY <2>2, <2>4, <2>5, <2>6, <2>7, <3>1 DEF Moves
  <2>8. CASE r # end
    <3>0. end < r /\ end \in 1..(r - 1) /\ r \in (end + 1)..Len(regions')
      <4> HIDE DEF c
      <4> QED BY <1>0, <2>1, <2>2, <2>6, <2>8
    <3>1. end < r /\ end \in 1..(r - 1) /\ r \in (end + 1)..Len(regions') /\ c = 0
      BY <1>0, <3>0
    <3>2. ~(Place[2] + w <= regions'[Place[1]].capacity)
      BY <1>0, <2>1, <2>3, <2>6, <3>1
    <3>3. \A j \in (end + 1)..(r - 1) : regions'[j].capacity < w
      <4> SUFFICES ASSUME NEW j \in (end + 1)..(r - 1) PROVE regions'[j].capacity < w
        OBVIOUS
      <4>1. j \in 1..(r - 1) /\ j \in 1..Len(regions) /\ end < j
        BY <1>0
      <4>2. regions[j].count = 0 /\ ~(regions[j].count + w <= regions[j].capacity)
        BY <1>0, <2>1, <4>1
      <4> QED BY <1>0, <2>3, <4>1, <4>2
    <3>4. w <= regions'[r].capacity /\ Place' = <<r, w>>
      BY <1>0, <2>1, <2>3, <2>5, <3>1
    <3> QED BY <2>2, <2>4, <2>5, <2>6, <3>1, <3>2, <3>3, <3>4 DEF Moves
  <2> QED BY <2>7, <2>8
<1>2. ASSUME AllocInNewRegion(w)
      PROVE  /\ Grown(regions, regions') /\ Place' \in Places
             /\ Moves(regions', Place, w, Place')
             /\ \A q : ~Moves(regions, Place, w, q)
  <2> DEFINE r == Len(regions) + 1
             new == [new_region(w) EXCEPT !.count = w]
  <2>1. new \in Region /\ new.count = w /\ w <= new.capacity
    BY <1>0, WordsAssumption DEF new_region, Region
  <2> HIDE DEF new
  <2>2. /\ regions' = Append(regions, new) /\ end' = r
        /\ \A j \in 1..Len(regions) : end <= j => ~(regions[j].count + w <= regions[j].capacity)
    BY <1>2 DEF AllocInNewRegion, NoneFits, Fits, new
  <2>3. /\ regions' \in Seq(Region) /\ Len(regions') = r
        /\ \A i \in 1..Len(regions) : regions'[i] = regions[i]
        /\ regions'[r] = new
    BY <1>0, <2>1, <2>2
  <2>4. Grown(regions, regions')
    BY <1>0, <2>3 DEF Grown
  <2>5. Place' = <<r, w>> /\ Place' \in Places
    BY <1>0, <2>1, <2>2, <2>3 DEF Place, Places
  <2>6. CASE end = 0
    <3>1. Len(regions) = 0 /\ r = 1 /\ Place[1] = 1 /\ Place[2] = 0
      BY <1>0, <1>s, <2>6
    <3>2. Place[2] + w <= regions'[Place[1]].capacity /\ Place[1] \in 1..Len(regions')
      BY <1>0, <2>1, <2>3, <3>1
    <3>3. Place' = <<Place[1], Place[2] + w>>
      BY <1>0, <2>5, <3>1
    <3>4. ASSUME NEW q, Moves(regions, Place, w, q) PROVE FALSE
      BY <3>1, <3>4 DEF Moves
    <3> QED BY <2>4, <2>5, <3>2, <3>3, <3>4 DEF Moves
  <2>7. CASE end # 0
    <3>0. end \in 1..Len(regions) /\ Place[1] = end /\ Place[2] = regions[end].count
      BY <1>e, <2>7
    <3>1. ~(Place[2] + w <= regions[Place[1]].capacity)
      BY <1>0, <2>2, <3>0
    <3>2. \A j \in (end + 1)..Len(regions) : regions[j].capacity < w
      <4> SUFFICES ASSUME NEW j \in (end + 1)..Len(regions) PROVE regions[j].capacity < w
        OBVIOUS
      <4>1. j \in 1..Len(regions) /\ end < j /\ end <= j
        BY <1>0
      <4>2. regions[j].count = 0 /\ ~(regions[j].count + w <= regions[j].capacity)
        BY <1>0, <2>2, <4>1
      <4> QED BY <1>0, <4>1, <4>2
    <3>3. ASSUME NEW q, Moves(regions, Place, w, q) PROVE FALSE
      <4>1. PICK i \in (Place[1] + 1)..Len(regions) : w <= regions[i].capacity
        BY <3>1, <3>3 DEF Moves
      <4>2. i \in (end + 1)..Len(regions) /\ i \in 1..Len(regions)
        BY <1>0, <3>0, <4>1
      <4>3. regions[i].capacity < w /\ regions[i].capacity \in Nat
        BY <1>0, <3>2, <4>2
      <4> QED BY <1>0, <4>1, <4>3
    <3>4. r \in (end + 1)..Len(regions') /\ w <= regions'[r].capacity
      BY <1>0, <2>1, <2>3
    <3>5. \A j \in (end + 1)..(r - 1) : regions'[j].capacity < w
      <4> SUFFICES ASSUME NEW j \in (end + 1)..(r - 1) PROVE regions'[j].capacity < w
        OBVIOUS
      <4>1. j \in (end + 1)..Len(regions) /\ j \in 1..Len(regions)
        BY <1>0
      <4> QED BY <2>3, <3>2, <4>1
    <3>6. Place[1] \in 1..Len(regions') /\ ~(Place[2] + w <= regions'[Place[1]].capacity)
      BY <1>0, <2>3, <3>0, <3>1
    <3> HIDE DEF r
    <3> QED BY <2>4, <2>5, <3>0, <3>3, <3>4, <3>5, <3>6 DEF Moves
  <2> QED BY <2>6, <2>7
<1> QED BY <1>p, <1>1, <1>2 DEF arena_alloc, w

\* A rewind puts it back to where it was.
LEMMA ResetStarts ==
  ASSUME IInv, ResetRegions
  PROVE  Grown(regions, regions') /\ Place' = Start
<1>1. regions \in Seq(Region)
  BY DEF IInv, TypeOK
<1>2. /\ regions' \in Seq(Region) /\ \A i \in 1..Len(regions') : regions'[i].count = 0
      /\ end' = (IF regions' = <<>> THEN 0 ELSE 1)
  BY ResetRegionsFacts
<1>3. Grown(regions, regions')
  <2>1. \A i \in 1..Len(regions) : Emptied(i).capacity = regions[i].capacity
    <3>1. \A i \in 1..Len(regions) : regions[i] \in Region
      BY <1>1
    <3> QED BY <3>1 DEF Emptied, Region
  <2>2. /\ Len(regions) \in Nat /\ Len(regions') = Len(regions)
        /\ \A i \in 1..Len(regions) : regions'[i] = Emptied(i)
    BY <1>1 DEF ResetRegions
  <2> QED BY <2>1, <2>2 DEF Grown
<1>4. Place' = Start
  <2>1. regions' # <<>> => 1 \in 1..Len(regions')
    BY <1>2
  <2> QED BY <1>2, <2>1 DEF Place, Start
<1> QED BY <1>3, <1>4

\* A sequence that is followed for one entry more.
LEMMA PrefixCut ==
  ASSUME NEW S, NEW s \in Seq(S), NEW t \in Seq(S), NEW b \in S,
         Len(Append(s, b)) <= Len(t), Append(s, b) = SubSeq(t, 1, Len(Append(s, b)))
  PROVE  /\ Len(s) <= Len(t) /\ s = SubSeq(t, 1, Len(s))
         /\ Len(s) + 1 \in 1..Len(t) /\ t[Len(s) + 1] = b
<1> DEFINE n == Len(s)
           l == Append(s, b)
<1>1. /\ n \in Nat /\ Len(t) \in Nat /\ Len(l) = n + 1
      /\ \A i \in 1..n : l[i] = s[i]
      /\ l[n + 1] = b
  OBVIOUS
<1>2. n + 1 <= Len(t) /\ l = SubSeq(t, 1, n + 1)
  BY <1>1
<1>3. \A i \in 1..(n + 1) : l[i] = t[i]
  BY <1>1, <1>2
<1>4. /\ SubSeq(t, 1, n) \in Seq(S) /\ Len(SubSeq(t, 1, n)) = n
      /\ \A i \in 1..n : SubSeq(t, 1, n)[i] = t[i]
  BY <1>1, <1>2
<1>5. \A i \in 1..n : SubSeq(t, 1, n)[i] = s[i]
  BY <1>1, <1>3, <1>4
<1>6. SubSeq(t, 1, n) = s
  BY <1>4, <1>5, SeqEqual, Zenon
<1>7. t[n + 1] = b /\ n + 1 \in 1..Len(t) /\ n <= Len(t)
  BY <1>1, <1>2, <1>3
<1> QED BY <1>6, <1>7
=============================================================================
