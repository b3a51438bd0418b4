------------------------------- MODULE Arena -------------------------------
(***************************************************************************)
(* The region allocator of arena.h.  An arena is a list of regions, each a *)
(* block of machine words used from the front; allocation goes to the      *)
(* region "end" and moves on when a request does not fit.  Nothing is ever *)
(* freed on its own: a client rewinds to a mark it took earlier, resets,   *)
(* or frees the whole arena.                                               *)
(*                                                                         *)
(* "regions" and "end" are the code's state (a->begin is regions[1], NULL  *)
(* exactly when there is no region; end = 0 is NULL).  "live" and "marks"  *)
(* record what clients hold: every block handed out and not yet given up,  *)
(* and the Arena_Marks that may still be rewound to.                       *)
(***************************************************************************)
EXTENDS Integers, Sequences

CONSTANTS
    WordBytes,        \* sizeof(uintptr_t)
    DefaultCapacity,  \* ARENA_REGION_DEFAULT_CAPACITY, in words
    Sizes,            \* the byte counts clients ask for
    MaxRegions,       \* bound on the regions of the arena
    MaxLive,          \* bound on the blocks held at once
    MaxMarks          \* bound on the marks held at once

ASSUME WordsAssumption == WordBytes \in Nat \ {0} /\ DefaultCapacity \in Nat

ASSUME SizesAssumption == Sizes \subseteq Nat

ASSUME BoundsAssumption ==
    MaxRegions \in Nat /\ MaxLive \in Nat /\ MaxMarks \in Nat

VARIABLES
    regions,  \* the linked list from a->begin: [count, capacity] in words
    end,      \* position of a->end in it, 0 for NULL
    live,     \* blocks handed out, oldest first: [region, offset, words]
    marks     \* snapshots taken, oldest first: [region, count, height], where
              \* height is the number of blocks held when it was taken

vars == <<regions, end, live, marks>>

Region == [count : Nat, capacity : Nat]
Block  == [region : Nat \ {0}, offset : Nat, words : Nat]
Mark   == [region : Nat, count : Nat, height : Nat]

TypeOK ==
    /\ regions \in Seq(Region)
    /\ end \in Nat
    /\ live \in Seq(Block)
    /\ marks \in Seq(Mark)

Init == regions = <<>> /\ end = 0 /\ live = <<>> /\ marks = <<>>

----------------------------------------------------------------------------
(* Allocation *)

\* Faulty variant: the sum of the rounding is off by a word.
Words_Short(bytes) == (bytes - 1) \div WordBytes

\* Bytes rounded up to whole words.
Words(bytes) == (bytes + WordBytes - 1) \div WordBytes

\* new_region as arena_alloc calls it: the default capacity, or the request
\* when that is larger.
new_region(words) ==
    [count |-> 0,
     capacity |-> IF DefaultCapacity < words THEN words ELSE DefaultCapacity]

\* Faulty variant: any room is enough.
Fits_AnyRoom(i, words) == regions[i].count < regions[i].capacity

Fits(i, words) == regions[i].count + words <= regions[i].capacity

\* Region i is where the walk from a->end along the next pointers stops with
\* room: the first one that can take the request.
FirstFit(i, words) ==
    /\ i \in 1..Len(regions)
    /\ end <= i
    /\ Fits(i, words)
    /\ \A j \in 1..(i - 1) : end <= j => ~Fits(j, words)

\* Faulty variant: only a->end is tried, not the regions after it.
NoneFits_EndOnly(words) ==
    \A j \in 1..Len(regions) : j = end => ~Fits(j, words)

NoneFits(words) ==
    \A j \in 1..Len(regions) : end <= j => ~Fits(j, words)

\* The caller now holds the words from the region's count on.
Hold(i, count, words) ==
    live' = Append(live, [region |-> i, offset |-> count, words |-> words])

\* The request goes into a region the arena already has.
AllocInRegion(i, words) ==
    /\ FirstFit(i, words)
    /\ regions' = [regions EXCEPT ![i].count = @ + words]
    /\ end' = i
    /\ Hold(i, regions[i].count, words)

\* No region from a->end on has room: one is appended to the list.
AllocInNewRegion(words) ==
    /\ NoneFits(words)
    /\ Len(regions) < MaxRegions
    /\ regions' = Append(regions, [new_region(words) EXCEPT !.count = words])
    /\ end' = Len(regions) + 1
    /\ Hold(Len(regions) + 1, 0, words)

\* arena_realloc (when it grows), arena_strdup, arena_memdup and arena_sprintf
\* are this and a copy of data.
arena_alloc(bytes) ==
    /\ Len(live) < MaxLive
    /\ \/ \E i \in 1..Len(regions) : AllocInRegion(i, Words(bytes))
       \/ AllocInNewRegion(Words(bytes))
    /\ UNCHANGED marks

----------------------------------------------------------------------------
(* Marks *)

\* Faulty variant: the mark forgets how far its region was used.
arena_snapshot_NoCount ==
    /\ Len(marks) < MaxMarks
    /\ marks' = Append(marks, [region |-> end, count |-> 0, height |-> Len(live)])
    /\ UNCHANGED <<regions, end, live>>

arena_snapshot ==
    /\ Len(marks) < MaxMarks
    /\ marks' = Append(marks,
                       [region |-> end,
                        count  |-> IF end = 0 THEN 0 ELSE regions[end].count,
                        height |-> Len(live)])
    /\ UNCHANGED <<regions, end, live>>

\* Every region keeps its memory and loses its contents.
Emptied(i) == [regions[i] EXCEPT !.count = 0]

\* Faulty variant: a->end stays where it was.
ResetRegions_EndStays ==
    /\ regions' = [i \in 1..Len(regions) |-> Emptied(i)]
    /\ end' = end
    /\ live' = <<>>

ResetRegions ==
    /\ regions' = [i \in 1..Len(regions) |-> Emptied(i)]
    /\ end' = IF regions = <<>> THEN 0 ELSE 1
    /\ live' = <<>>

\* The marks that outlive a reset or a free: those taken while the arena had
\* no region, for which a rewind is a reset.  They come first (MarksOrdered).
KeepNullMarks ==
    \E n \in 0..Len(marks) :
      /\ \A k \in 1..Len(marks) : marks[k].region = 0 <=> k <= n
      /\ marks' = SubSeq(marks, 1, n)

arena_reset == ResetRegions /\ KeepNullMarks

\* Faulty variants: the mark's region is emptied too; later ones are not.
Rewound_ToStart(i, m) ==
    IF i < m.region THEN regions[i] ELSE [regions[i] EXCEPT !.count = 0]

Rewound_OnlyMarked(i, m) ==
    IF i = m.region THEN [regions[i] EXCEPT !.count = m.count] ELSE regions[i]

\* A region after a rewind to m: untouched before m's region, back at m's count
\* in it, empty after it.
Rewound(i, m) ==
    IF i < m.region THEN regions[i]
    ELSE [regions[i] EXCEPT !.count = IF i = m.region THEN m.count ELSE 0]

\* Rewind to the k-th mark.  The mark itself stays good; younger ones do not.
arena_rewind(k) ==
    /\ k \in 1..Len(marks)
    /\ marks' = SubSeq(marks, 1, k)
    /\ \/ marks[k].region = 0 /\ ResetRegions
       \/ /\ marks[k].region # 0
          /\ regions' = [i \in 1..Len(regions) |-> Rewound(i, marks[k])]
          /\ end' = marks[k].region
          /\ live' = SubSeq(live, 1, marks[k].height)

\* Gives every region back.
arena_free ==
    /\ regions' = <<>>
    /\ end' = 0
    /\ live' = <<>>
    /\ KeepNullMarks

\* Gives back the regions after a->end.  The code reads a->end->next, so the
\* arena must have a region.
arena_trim ==
    /\ end # 0
    /\ regions' = SubSeq(regions, 1, end)
    /\ UNCHANGED <<end, live, marks>>

Next ==
    \/ \E bytes \in Sizes : arena_alloc(bytes)
    \/ arena_snapshot
    \/ \E k \in 1..Len(marks) : arena_rewind(k)
    \/ arena_reset
    \/ arena_free
    \/ arena_trim

Spec == Init /\ [][Next]_vars

----------------------------------------------------------------------------
(* What clients rely on *)

LastWord(b) == b.offset + b.words

Before(b, c) ==
    \/ b.region < c.region
    \/ b.region = c.region /\ LastWord(b) <= c.offset

\* No two blocks a client holds share a word, whatever sequence of
\* allocations, rewinds, resets and trims came before: the older one always
\* lies wholly before the younger one.
Disjoint ==
    \A i, j \in 1..Len(live) : i < j => Before(live[i], live[j])

\* A block lies inside the words its region has handed out, and those inside
\* the region's memory: no write through a returned pointer leaves it.
InsideRegion ==
    /\ \A i \in 1..Len(regions) : regions[i].count <= regions[i].capacity
    /\ \A i \in 1..Len(live) :
         /\ live[i].region <= end
         /\ LastWord(live[i]) <= regions[live[i].region].count

\* The blocks held in a region.
HeldIn(r) == {i \in 1..Len(live) : live[i].region = r}

\* Rewinding gives back everything allocated since the mark and nothing more:
\* every word a region counts as used belongs to a block somebody holds, so
\* each block starts where the one before it ends and the last ends at count.
NoLeak ==
    \A r \in 1..Len(regions) :
      /\ HeldIn(r) = {} => regions[r].count = 0
      /\ \A i \in HeldIn(r) :
         /\ i - 1 \notin HeldIn(r) => live[i].offset = 0
         /\ IF i + 1 \in HeldIn(r) THEN live[i + 1].offset = LastWord(live[i])
                                    ELSE regions[r].count = LastWord(live[i])

\* Walking from a->end along next never passes over used words: regions after
\* it are empty, and the arena has a current region whenever it has any
\* (the ARENA_ASSERTs of arena_alloc and arena_snapshot).
EndIsFrontier ==
    /\ end = 0 <=> regions = <<>>
    /\ end <= Len(regions)
    /\ \A i \in 1..Len(regions) : end < i => regions[i].count = 0

\* A mark that may still be rewound to points into a region the arena has,
\* at or before the current one, at a count that region still reaches.
MarksValid ==
    \A k \in 1..Len(marks) :
      LET m == marks[k] IN
      /\ m.height <= Len(live)
      /\ m.region = 0 => m.height = 0 /\ m.count = 0
      /\ m.region # 0 => m.region <= end /\ m.count <= regions[m.region].count

\* Older marks lie before younger ones.
MarksOrdered ==
    \A j, k \in 1..Len(marks) :
      j < k =>
        /\ marks[j].height <= marks[k].height
        /\ marks[j].region <= marks[k].region
        /\ marks[j].region = marks[k].region => marks[j].count <= marks[k].count

\* A mark lies behind every block held when it was taken, so that a rewind to
\* it leaves those blocks alone and no later allocation is given their words.
MarksCover ==
    \A k \in 1..Len(marks) : \A i \in 1..marks[k].height :
      \/ live[i].region < marks[k].region
      \/ /\ live[i].region = marks[k].region
         /\ LastWord(live[i]) <= marks[k].count

\* What keeps marks usable, as one invariant: the frontier is where arena_alloc
\* and arena_snapshot assert it to be, and every mark a client still holds can
\* be rewound to without touching a block that was held when it was taken.
MarksSound == EndIsFrontier /\ MarksValid /\ MarksOrdered /\ MarksCover
=============================================================================
