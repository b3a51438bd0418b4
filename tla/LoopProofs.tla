----------------------------- MODULE LoopProofs -----------------------------
(***************************************************************************)
(* The server's memory over an endless run of requests, for every sequence *)
(* of requests: the arena's invariant holds in the loop of main.c, each    *)
(* request holds its own blocks only, a request that was served before     *)
(* needs no more memory, and no run of requests makes the arena grow past  *)
(* a number of regions that depends on the sizes asked for alone.          *)
(*                                                                         *)
(* The third needs more than the state: that the walk of arena_alloc       *)
(* depends on nothing but the request's sizes and the regions' capacities. *)
(* A walk says where it stood after each allocation of a request; every    *)
(* request served so far has one, and regions that are added do not turn   *)
(* it aside.  The last counts, at each region, the larger ones the walk    *)
(* has to pass before it: no two regions have the same count of them.      *)
(***************************************************************************)
EXTENDS RequestArena, ArenaProofs, Induction, FiniteSetTheorems

NullMark == [region |-> 0, count |-> 0, height |-> 0]

LoopTypeOK ==
    /\ phase \in {"waiting", "serving", "stopped"}
    /\ trace \in Seq(Sizes)
    /\ known = NoTrace \/ known \in Seq(Sizes)

\* The arena's invariant, and main.c's only mark.
LoopInv == LoopTypeOK /\ IInv /\ marks = <<NullMark>> /\ OnlyOwnBlocks

----------------------------------------------------------------------------
(* The loop is a client of the arena *)

LEMMA OneStays == ASSUME NEW m PROVE SubSeq(<<m>>, 1, 1) = <<m>>
<1>1. <<m>> \in Seq({m}) /\ Len(<<m>>) = 1
  OBVIOUS
<1> QED BY <1>1, SubSeqFull, Zenon

LEMMA RewindResets ==
  ASSUME IInv, marks = <<NullMark>>, arena_rewind(1)
  PROVE  ResetRegions /\ marks' = <<NullMark>> /\ IInv'
<1>1. marks[1] = NullMark /\ Len(marks) = 1 /\ NullMark.region = 0
  BY DEF NullMark
<1>2. ResetRegions /\ marks' = SubSeq(marks, 1, 1)
  BY <1>1 DEF arena_rewind
<1> QED BY <1>1, <1>2, OneStays, RewindCases, EmptyInv, CutBackInv

LEMMA FreeKeepsMark ==
  ASSUME marks = <<NullMark>>, KeepNullMarks
  PROVE  marks' = <<NullMark>>
<1>1. marks[1] = NullMark /\ Len(marks) = 1 /\ NullMark.region = 0
  BY DEF NullMark
<1>2. PICK n \in 0..1 : (marks[1].region = 0 <=> 1 <= n) /\ marks' = SubSeq(marks, 1, n)
  BY <1>1 DEF KeepNullMarks
<1> QED BY <1>1, <1>2, OneStays

\* One more block, of the size asked for.
LEMMA AllocHolds ==
  ASSUME NEW bytes, arena_alloc(bytes), live \in Seq(Block)
  PROVE  \E b : live' = Append(live, b) /\ b.words = Words(bytes)
<1>1. ASSUME NEW i, NEW c, Hold(i, c, Words(bytes))
      PROVE  \E b : live' = Append(live, b) /\ b.words = Words(bytes)
  BY <1>1 DEF Hold
<1>2. \E i, c : Hold(i, c, Words(bytes))
  BY DEF arena_alloc, AllocInRegion, AllocInNewRegion
<1> QED BY <1>1, <1>2

LEMMA LoopInitInv == LoopInit => LoopInv
<1> SUFFICES ASSUME LoopInit PROVE LoopInv
  OBVIOUS
<1>1. marks \in Seq(Mark) /\ marks = <<NullMark>> /\ Len(marks) = 1 /\ marks[1] = NullMark
  BY DEF LoopInit, NullMark, Mark
<1>2. NullMark.region = 0 /\ NullMark.count = 0 /\ NullMark.height = 0
  BY DEF NullMark
<1>3. IInv
  BY <1>1, <1>2 DEF LoopInit, IInv, TypeOK, MarksSound, EndIsFrontier, MarksValid,
         MarksOrdered, MarksCover, InsideRegion, Disjoint
<1>4. LoopTypeOK /\ OnlyOwnBlocks
  BY DEF LoopInit, LoopTypeOK, OnlyOwnBlocks
<1> QED BY <1>1, <1>3, <1>4 DEF LoopInv

LEMMA AllocateInv ==
  ASSUME LoopInv, NEW bytes \in Sizes, Allocate(bytes)
  PROVE  LoopInv'
<1>1. /\ live \in Seq(Block) /\ trace \in Seq(Sizes) /\ bytes \in Nat
      /\ IInv /\ marks = <<NullMark>> /\ OnlyOwnBlocks /\ LoopTypeOK
  BY SizesAssumption DEF LoopInv, IInv, TypeOK, LoopTypeOK
<1>2. arena_alloc(bytes) /\ trace' = Append(trace, bytes) /\ UNCHANGED <<phase, known>>
  BY DEF Allocate
<1>3. IInv'
  BY <1>1, <1>2, AllocInv
<1>4. marks' = <<NullMark>>
  BY <1>1, <1>2 DEF arena_alloc
<1>5. LoopTypeOK'
  BY <1>1, <1>2 DEF LoopTypeOK
<1>6. PICK b : live' = Append(live, b) /\ b.words = Words(bytes)
  BY <1>1, <1>2, AllocHolds
<1>7. Len(live) = Len(trace) /\ \A i \in 1..Len(live) : live[i].words = Words(trace[i])
  BY <1>1 DEF OnlyOwnBlocks
<1>8. /\ Len(live') = Len(live) + 1 /\ live'[Len(live) + 1] = b
      /\ \A i \in 1..Len(live) : live'[i] = live[i]
      /\ Len(trace') = Len(trace) + 1 /\ trace'[Len(trace) + 1] = bytes
      /\ \A i \in 1..Len(trace) : trace'[i] = trace[i]
      /\ Len(live) \in Nat
  BY <1>1, <1>2, <1>6
<1>9. OnlyOwnBlocks'
  <2>1. ASSUME NEW i \in 1..Len(live')
        PROVE  live'[i].words = Words(trace'[i])
    <3>1. i \in 1..Len(live) \/ i = Len(live) + 1
      BY <1>8
    <3> QED BY <1>6, <1>7, <1>8, <3>1
  <2> QED BY <1>7, <1>8, <2>1 DEF OnlyOwnBlocks, Words
<1> QED BY <1>3, <1>4, <1>5, <1>9 DEF LoopInv

LEMMA LoopNextInv == LoopInv /\ [LoopNext]_allVars => LoopInv'
<1> SUFFICES ASSUME LoopInv, [LoopNext]_allVars PROVE LoopInv'
  OBVIOUS
<1>0. LoopTypeOK /\ IInv /\ marks = <<NullMark>> /\ OnlyOwnBlocks
  BY DEF LoopInv
<1>1. CASE Accept
  <2>1. arena_rewind(1) /\ phase' = "serving" /\ trace' = <<>> /\ known' = known
    BY <1>1 DEF Accept
  <2>2. ResetRegions /\ marks' = <<NullMark>> /\ IInv'
    BY <1>0, <2>1, RewindResets
  <2>3. LoopTypeOK' /\ OnlyOwnBlocks'
    BY <1>0, <2>1, <2>2 DEF LoopTypeOK, ResetRegions, OnlyOwnBlocks
  <2> QED BY <2>2, <2>3 DEF LoopInv
<1>2. ASSUME NEW bytes \in Sizes, Allocate(bytes) PROVE LoopInv'
  BY <1>2, AllocateInv
<1>3. CASE Finish \/ UNCHANGED allVars
  <2>1. UNCHANGED <<regions, end, live, marks, trace>>
    BY <1>3 DEF Finish, arenaVars, allVars
  <2>2. IInv'
    BY <1>0, <2>1, NextInv DEF vars
  <2>3. LoopTypeOK' /\ OnlyOwnBlocks'
    BY <1>0, <1>3, <2>1 DEF LoopTypeOK, OnlyOwnBlocks, Finish, allVars
  <2> QED BY <1>0, <2>1, <2>2, <2>3 DEF LoopInv
<1>4. CASE Stop
  <2>1. arena_free /\ phase' = "stopped" /\ trace' = <<>> /\ known' = known
    BY <1>4 DEF Stop
  <2>2. live' = <<>> /\ marks' = <<NullMark>> /\ IInv'
    BY <1>0, <2>1, FreeEmpties, EmptyInv, FreeKeepsMark DEF arena_free
  <2>3. LoopTypeOK' /\ OnlyOwnBlocks'
    BY <1>0, <2>1, <2>2 DEF LoopTypeOK, OnlyOwnBlocks
  <2> QED BY <2>2, <2>3 DEF LoopInv
<1> QED BY <1>1, <1>2, <1>3, <1>4 DEF LoopNext

LEMMA LoopInvariance == LoopSpec => []LoopInv
  BY LoopInitInv, LoopNextInv, PTL DEF LoopSpec

\* While a request is served, the arena holds its blocks and nothing else,
\* however many requests came before (main.c's rewind to req_mark).
THEOREM LoopOnlyOwnBlocks == LoopSpec => []OnlyOwnBlocks
  BY LoopInvariance, PTL DEF LoopInv

\* In the server's loop, too, blocks never overlap and never leave their
\* region: its rewind to a mark older than any region is safe.
THEOREM LoopBlocksApart == LoopSpec => [](Disjoint /\ InsideRegion)
  BY LoopInvariance, PTL DEF LoopInv, IInv

----------------------------------------------------------------------------
(* The walks of requests *)

\* v says where the walk stood after each allocation of the request t.
IsWalk(rs, t, v) ==
    /\ v \in [0..Len(t) -> Places] /\ v[0] = Start
    /\ \A i \in 1..Len(t) : Moves(rs, v[i - 1], Words(t[i]), v[i])

\* The request being served is at the end of its walk; the request remembered
\* has a walk too, and the present one is on it as long as it asks for the same.
WalkInv ==
    phase # "stopped" =>
      /\ \E v : IsWalk(regions, trace, v) /\ v[Len(trace)] = Place
      /\ known # NoTrace =>
           \E u : IsWalk(regions, known, u) /\ (IsPrefixOf(trace, known) => u[Len(trace)] = Place)

LEMMA WalkGrown ==
  ASSUME NEW rs \in Seq(Region), NEW rs2 \in Seq(Region), Grown(rs, rs2),
         NEW t \in Seq(Sizes), NEW v, IsWalk(rs, t, v)
  PROVE  IsWalk(rs2, t, v)
<1>1. ASSUME NEW i \in 1..Len(t)
      PROVE  Moves(rs2, v[i - 1], Words(t[i]), v[i])
  <2>0. Len(t) \in Nat /\ t[i] \in Sizes
    OBVIOUS
  <2>1. t[i] \in Nat
    BY <2>0, SizesAssumption
  <2>4. i - 1 \in 0..Len(t)
    BY <2>0
  <2>2. v[i - 1] \in Places
    BY <2>4 DEF IsWalk
  <2>3. Words(t[i]) \in Nat
    BY <2>1, WordsType
  <2> QED BY <2>2, <2>3, MovesGrown DEF IsWalk
<1> QED BY <1>1 DEF IsWalk

----------------------------------------------------------------------------
(* Each step of the loop keeps the walks *)

LEMMA NoWalk ==
  ASSUME NEW rs
  PROVE  IsWalk(rs, <<>>, [i \in 0..0 |-> Start])
<1>1. Start \in Places
  BY DEF Start, Places
<1> QED BY <1>1 DEF IsWalk

LEMMA PrefixOfLonger ==
  ASSUME NEW s \in Seq(Sizes), NEW t \in Seq(Sizes), NEW b \in Sizes,
         IsPrefixOf(Append(s, b), t)
  PROVE  /\ IsPrefixOf(s, t)
         /\ Len(s) + 1 \in 1..Len(t) /\ t[Len(s) + 1] = b
  BY PrefixCut DEF IsPrefixOf

\* A request on the walk of one served before stays on it, and finds room.
LEMMA StaysOnWalk ==
  ASSUME LoopInv, NEW bytes \in Sizes, Allocate(bytes), known # NoTrace,
         NEW u, IsWalk(regions, known, u), IsPrefixOf(trace, known) => u[Len(trace)] = Place,
         IsPrefixOf(trace', known)
  PROVE  u[Len(trace')] = Place' /\ Len(regions') = Len(regions)
<1>1. /\ IInv /\ bytes \in Nat /\ Words(bytes) \in Nat
      /\ trace \in Seq(Sizes) /\ known \in Seq(Sizes) /\ regions \in Seq(Region)
  BY SizesAssumption, WordsType DEF LoopInv, IInv, TypeOK, LoopTypeOK
<1>2. arena_alloc(bytes) /\ trace' = Append(trace, bytes)
  BY DEF Allocate
<1>3. IInv' /\ regions' \in Seq(Region)
  BY <1>1, <1>2, AllocInv DEF IInv, TypeOK
<1>4. /\ Grown(regions, regions') /\ Place \in Places
      /\ Moves(regions', Place, Words(bytes), Place')
      /\ \A q : Moves(regions, Place, Words(bytes), q) => Len(regions') = Len(regions)
  BY <1>1, <1>2, AllocMoves
<1> DEFINE n == Len(trace)
<1>5. /\ n \in Nat /\ Len(trace') = n + 1 /\ u[n] = Place
      /\ n + 1 \in 1..Len(known) /\ known[n + 1] = bytes
  BY <1>1, <1>2, PrefixOfLonger
<1>6. Moves(regions, u[(n + 1) - 1], Words(known[n + 1]), u[n + 1])
  BY <1>5 DEF IsWalk
<1>7. Moves(regions, Place, Words(bytes), u[n + 1])
  BY <1>5, <1>6
<1>8. Moves(regions', Place, Words(bytes), u[n + 1])
  BY <1>1, <1>3, <1>4, <1>7, MovesGrown
<1>9. u[n + 1] = Place'
  BY <1>1, <1>3, <1>4, <1>8, MovesUnique
<1> QED BY <1>4, <1>5, <1>7, <1>9

LEMMA AllocateWalks ==
  ASSUME LoopInv, WalkInv, NEW bytes \in Sizes, Allocate(bytes)
  PROVE  WalkInv'
<1>1. /\ IInv /\ bytes \in Nat
      /\ trace \in Seq(Sizes) /\ (known = NoTrace \/ known \in Seq(Sizes))
      /\ regions \in Seq(Region)
  BY SizesAssumption DEF LoopInv, IInv, TypeOK, LoopTypeOK
<1>2. /\ arena_alloc(bytes) /\ trace' = Append(trace, bytes)
      /\ phase = "serving" /\ phase' = phase /\ known' = known
  BY DEF Allocate
<1>3. IInv' /\ regions' \in Seq(Region)
  BY <1>1, <1>2, AllocInv DEF IInv, TypeOK
<1>4. /\ Grown(regions, regions') /\ Place' \in Places
      /\ Moves(regions', Place, Words(bytes), Place')
  BY <1>1, <1>2, AllocMoves
<1>5. \E v : IsWalk(regions', trace', v) /\ v[Len(trace')] = Place'
  <2>1. PICK v : IsWalk(regions, trace, v) /\ v[Len(trace)] = Place
    BY <1>2 DEF WalkInv
  <2> DEFINE n == Len(trace)
             x == [i \in 0..(n + 1) |-> IF i <= n THEN v[i] ELSE Place']
  <2>2. IsWalk(regions', trace, v)
    BY <1>1, <1>3, <1>4, <2>1, WalkGrown
  <2>3. n \in Nat /\ Len(trace') = n + 1 /\ trace'[n + 1] = bytes /\ \A i \in 1..n : trace'[i] = trace[i]
    BY <1>1, <1>2
  <2>4. \A i \in 0..n : v[i] \in Places
    BY <2>2 DEF IsWalk
  <2>5. x \in [0..Len(trace') -> Places] /\ x[0] = Start /\ x[n + 1] = Place'
    BY <1>4, <2>2, <2>3, <2>4 DEF IsWalk
  <2>6. ASSUME NEW i \in 1..Len(trace')
        PROVE  Moves(regions', x[i - 1], Words(trace'[i]), x[i])
    <3>1. CASE i \in 1..n
      <4>1. i \in 0..(n + 1) /\ i - 1 \in 0..(n + 1) /\ i <= n /\ i - 1 <= n
        BY <2>3, <3>1
      <4>2. x[i] = v[i] /\ x[i - 1] = v[i - 1]
        BY <4>1
      <4>3. Moves(regions', v[i - 1], Words(trace[i]), v[i])
        BY <2>2, <3>1 DEF IsWalk
      <4> HIDE DEF x
      <4> QED BY <2>3, <3>1, <4>2, <4>3
    <3>2. CASE i = n + 1
      <4>1. i - 1 = n /\ n \in 0..(n + 1) /\ n <= n
        BY <2>3, <3>2
      <4>2. x[n] = v[n]
        BY <4>1
      <4> HIDE DEF x
      <4> QED BY <1>4, <2>1, <2>3, <2>5, <3>2, <4>1, <4>2
    <3>3. i \in 1..n \/ i = n + 1
      BY <2>3
    <3> QED BY <3>1, <3>2, <3>3
  <2> HIDE DEF x
  <2> QED BY <2>3, <2>5, <2>6 DEF IsWalk
<1>6. ASSUME known # NoTrace
      PROVE  \E u : /\ IsWalk(regions', known, u)
                    /\ IsPrefixOf(trace', known) => u[Len(trace')] = Place'
  <2>1. PICK u : IsWalk(regions, known, u) /\ (IsPrefixOf(trace, known) => u[Len(trace)] = Place)
    BY <1>2, <1>6 DEF WalkInv
  <2>2. IsWalk(regions', known, u)
    BY <1>1, <1>3, <1>4, <1>6, <2>1, WalkGrown
  <2>3. IsPrefixOf(trace', known) => u[Len(trace')] = Place'
    BY <1>6, <2>1, StaysOnWalk
  <2> QED BY <2>2, <2>3
<1> QED BY <1>2, <1>5, <1>6 DEF WalkInv, IsPrefixOf, Place

LEMMA AcceptWalks ==
  ASSUME LoopInv, WalkInv, Accept
  PROVE  WalkInv'
<1>1. /\ IInv /\ marks = <<NullMark>> /\ regions \in Seq(Region)
      /\ known = NoTrace \/ known \in Seq(Sizes)
  BY DEF LoopInv, IInv, TypeOK, LoopTypeOK
<1>2. arena_rewind(1) /\ phase # "stopped" /\ trace' = <<>> /\ known' = known
  BY DEF Accept
<1>3. ResetRegions
  BY <1>1, <1>2, RewindResets
<1>4. regions' \in Seq(Region)
  BY <1>1, <1>3, ResetRegionsFacts
<1>6. Grown(regions, regions') /\ Place' = Start
  BY <1>1, <1>3, ResetStarts
<1>8. \E v : IsWalk(regions', trace', v) /\ v[Len(trace')] = Place'
  <2>1. Len(<<>>) = 0 /\ [i \in 0..0 |-> Start][0] = Start
    OBVIOUS
  <2> QED BY <1>2, <1>6, <2>1, NoWalk
<1>9. ASSUME known # NoTrace
      PROVE  \E u : IsWalk(regions', known, u) /\ u[Len(trace')] = Place'
  <2>1. PICK u : IsWalk(regions, known, u)
    BY <1>2, <1>9 DEF WalkInv
  <2>2. IsWalk(regions', known, u)
    BY <1>1, <1>4, <1>6, <1>9, <2>1, WalkGrown
  <2>3. u[0] = Start /\ Len(trace') = 0
    BY <1>2, <2>1 DEF IsWalk
  <2> QED BY <1>6, <2>2, <2>3
<1> QED BY <1>2, <1>8, <1>9 DEF WalkInv, IsPrefixOf, Place

LEMMA WalksInit == LoopInit => WalkInv
<1> SUFFICES ASSUME LoopInit PROVE WalkInv
  OBVIOUS
<1>1. end = 0 /\ trace = <<>> /\ known = NoTrace
  BY DEF LoopInit
<1>2. Len(<<>>) = 0 /\ [i \in 0..0 |-> Start][0] = Start
  OBVIOUS
<1> QED BY <1>1, <1>2, NoWalk DEF WalkInv, Place

LEMMA WalksNext == LoopInv /\ WalkInv /\ [LoopNext]_allVars => WalkInv'
<1> SUFFICES ASSUME LoopInv, WalkInv, [LoopNext]_allVars PROVE WalkInv'
  OBVIOUS
<1>1. CASE Finish
  <2>1. /\ UNCHANGED <<regions, end, trace>> /\ phase = "serving" /\ phase' = "waiting"
        /\ known' = known \/ known' = trace
    BY <1>1 DEF Finish, arenaVars
  <2>2. PICK v : IsWalk(regions, trace, v) /\ v[Len(trace)] = Place
    BY <2>1 DEF WalkInv
  <2>3. known # NoTrace =>
          \E u : IsWalk(regions, known, u) /\ (IsPrefixOf(trace, known) => u[Len(trace)] = Place)
    BY <2>1 DEF WalkInv
  <2> QED BY <2>1, <2>2, <2>3 DEF WalkInv, IsPrefixOf, Place
<1>2. CASE Stop
  BY <1>2 DEF Stop, WalkInv
<1>3. CASE UNCHANGED allVars
  BY <1>3 DEF allVars, arenaVars, WalkInv, IsPrefixOf, Place
<1> QED BY <1>1, <1>2, <1>3, AcceptWalks, AllocateWalks DEF LoopNext

LEMMA OnlyAllocateGrows ==
  ASSUME LoopInv, WalkInv, [LoopNext]_allVars, known # NoTrace,
         Len(regions') > Len(regions), IsPrefixOf(trace', known)
  PROVE  FALSE
<1>0. regions \in Seq(Region) /\ Len(regions) \in Nat
  BY RegionTypes DEF LoopInv, IInv, TypeOK
<1>1. ASSUME Accept PROVE Len(regions') = Len(regions)
  <2>1. ResetRegions
    BY <1>1, RewindResets DEF LoopInv, Accept
  <2> QED BY <1>0, <2>1 DEF ResetRegions
<1>2. ASSUME NEW bytes \in Sizes, Allocate(bytes) PROVE Len(regions') = Len(regions)
  <2>1. PICK u : IsWalk(regions, known, u) /\ (IsPrefixOf(trace, known) => u[Len(trace)] = Place)
    BY <1>2 DEF WalkInv, Allocate
  <2> QED BY <1>2, <2>1, StaysOnWalk
<1>3. ASSUME Finish \/ UNCHANGED allVars PROVE Len(regions') = Len(regions)
  BY <1>3 DEF Finish, arenaVars, allVars
<1>4. ASSUME Stop PROVE Len(regions') = 0
  BY <1>4 DEF Stop, arena_free
<1> QED BY <1>0, <1>1, <1>2, <1>3, <1>4 DEF LoopNext

\* The server does not grow under a repeated request, whatever was served in
\* between: arena_alloc's walk depends on the sizes and the capacities only,
\* and arena_rewind keeps every region.
THEOREM LoopNoGrowthOnRepeat == LoopSpec => NoGrowthOnRepeat
<1>1. LoopInv /\ WalkInv /\ [LoopNext]_allVars
        => ((known # NoTrace /\ Len(regions') > Len(regions)) => ~IsPrefixOf(trace', known))
  BY OnlyAllocateGrows
<1> QED BY <1>1, LoopInitInv, LoopNextInv, WalksInit, WalksNext, PTL DEF LoopSpec, NoGrowthOnRepeat

----------------------------------------------------------------------------
(* The arena stops growing *)

\* The regions up to r that are at least as large as every one between them
\* and r: what is left of the walk to r, seen from r.
Stairs(rs, r) == {i \in 1..r : \A j \in i..r : rs[j].capacity <= rs[i].capacity}

\* A request that has come to a.end holds a block in every stair that leads
\* there, so a region is only ever added behind at most MaxLive stairs.
FootInv ==
    /\ \A r \in 1..Len(regions) : regions[r].capacity \in Capacities
    /\ \A r \in 1..Len(regions) : Cardinality(Stairs(regions, r)) <= MaxLive
    /\ live # <<>> => \A i \in Stairs(regions, end) : HeldIn(i) # {}
    /\ live = <<>> => end <= 1 /\ \A r \in 1..Len(regions) : regions[r].count = 0

\* Where an allocation goes: the first region from a.end on that has room, or
\* a new one; the regions it passes have none.
LEMMA AllocPasses ==
  ASSUME IInv, NEW bytes \in Sizes, arena_alloc(bytes)
  PROVE  \E r \in Nat \ {0}, c \in Nat :
           /\ end <= r /\ r <= Len(regions') /\ end' = r
           /\ Len(regions') = Len(regions) \/ (Len(regions') = Len(regions) + 1 /\ r = Len(regions) + 1)
           /\ \A i \in 1..Len(regions) : regions'[i].capacity = regions[i].capacity
           /\ regions'[r].capacity \in Nat /\ Words(bytes) <= regions'[r].capacity
           /\ Len(regions') = Len(regions) \/ regions'[r].capacity \in Capacities
           /\ live' = Append(live, [region |-> r, offset |-> c, words |-> Words(bytes)])
           /\ \A j \in 1..(r - 1) :
                end <= j => regions[j].capacity < regions[j].count + Words(bytes)
<1> DEFINE w == Words(bytes)
<1>0. /\ bytes \in Nat /\ w \in Nat /\ regions \in Seq(Region) /\ Len(regions) \in Nat
      /\ \A i \in 1..Len(regions) :
           regions[i] \in Region /\ regions[i].count \in Nat /\ regions[i].capacity \in Nat
      /\ end \in 0..Len(regions)
  BY WordsType, RegionTypes, Positions, SizesAssumption DEF IInv, TypeOK
<1>1. ASSUME NEW r \in 1..Len(regions), AllocInRegion(r, w)
      PROVE  \E q \in Nat \ {0}, c \in Nat :
           /\ end <= q /\ q <= Len(regions') /\ end' = q
           /\ Len(regions') = Len(regions)
           /\ \A i \in 1..Len(regions) : regions'[i].capacity = regions[i].capacity
           /\ regions'[q].capacity \in Nat /\ w <= regions'[q].capacity
           /\ live' = Append(live, [region |-> q, offset |-> c, words |-> w])
           /\ \A j \in 1..(q - 1) : end <= j => regions[j].capacity < regions[j].count + w
  <2> DEFINE c == regions[r].count
  <2> HIDE DEF w
  <2>1. /\ end <= r
        /\ c + w <= regions[r].capacity
        /\ regions' = [regions EXCEPT ![r].count = c + w]
        /\ end' = r
        /\ live' = Append(live, [region |-> r, offset |-> c, words |-> w])
        /\ \A j \in 1..(r - 1) : end <= j => ~(regions[j].count + w <= regions[j].capacity)
    BY <1>1 DEF AllocInRegion, FirstFit, Fits, Hold
  <2>2. /\ Len(regions') = Len(regions)
        /\ \A i \in 1..Len(regions) : i # r => regions'[i] = regions[i]
        /\ regions'[r] = [count |-> c + w, capacity |-> regions[r].capacity]
    BY <1>0, <2>1 DEF Region
  <2>3. r \in Nat \ {0} /\ c \in Nat /\ regions[r].capacity \in Nat /\ r <= Len(regions)
    BY <1>0
  <2>4. regions'[r].capacity = regions[r].capacity /\ w <= regions[r].capacity
    BY <1>0, <2>1, <2>2, <2>3
  <2>5. \A i \in 1..Len(regions) : regions'[i].capacity = regions[i].capacity
    BY <2>2, <2>4
  <2>6. ASSUME NEW j \in 1..(r - 1), end <= j
        PROVE  regions[j].capacity < regions[j].count + w
    <3>1. j \in 1..Len(regions)
      BY <1>0
    <3> QED BY <1>0, <2>1, <2>6, <3>1
  <2> HIDE DEF c
  <2> QED BY <2>1, <2>2, <2>3, <2>4, <2>5, <2>6
<1>2. ASSUME AllocInNewRegion(w)
      PROVE  \E q \in Nat \ {0}, c \in Nat :
           /\ end <= q /\ q <= Len(regions') /\ end' = q
           /\ Len(regions') = Len(regions) + 1 /\ q = Len(regions) + 1
           /\ \A i \in 1..Len(regions) : regions'[i].capacity = regions[i].capacity
           /\ regions'[q].capacity \in Nat /\ w <= regions'[q].capacity
           /\ regions'[q].capacity \in Capacities
           /\ live' = Append(live, [region |-> q, offset |-> c, words |-> w])
           /\ \A j \in 1..(q - 1) : end <= j => regions[j].capacity < regions[j].count + w
  <2> DEFINE r == Len(regions) + 1
             new == [new_region(w) EXCEPT !.count = w]
  <2>1. /\ new \in Region /\ w <= new.capacity /\ new.capacity = new_region(w).capacity
        /\ new.capacity \in Nat
    BY <1>0, WordsAssumption DEF new_region, Region
  <2>c. new_region(w).capacity \in Capacities
    BY DEF Capacities
  <2> HIDE DEF w, new
  <2>2. /\ regions' = Append(regions, new)
        /\ end' = r
        /\ live' = Append(live, [region |-> r, offset |-> 0, words |-> w])
        /\ \A j \in 1..Len(regions) : end <= j => ~(regions[j].count + w <= regions[j].capacity)
    BY <1>2 DEF AllocInNewRegion, Hold, new, NoneFits, Fits
  <2>3. /\ Len(regions') = r
        /\ \A i \in 1..Len(regions) : regions'[i] = regions[i]
        /\ regions'[r] = new
    BY <1>0, <2>1, <2>2
  <2>4. r \in Nat \ {0} /\ end <= r /\ r <= Len(regions') /\ 0 \in Nat
    BY <1>0, <2>3
  <2>6. ASSUME NEW j \in 1..(r - 1), end <= j
        PROVE  regions[j].capacity < regions[j].count + w
    <3>1. j \in 1..Len(regions)
      BY <1>0
    <3> QED BY <1>0, <2>2, <2>6, <3>1
  <2>7. \A i \in 1..Len(regions) : regions'[i].capacity = regions[i].capacity
    BY <2>3
  <2>8. regions'[r].capacity \in Nat /\ w <= regions'[r].capacity /\ regions'[r].capacity \in Capacities
    BY <2>1, <2>c, <2>3
  <2>9. r = Len(regions) + 1
    OBVIOUS
  <2> HIDE DEF r
  <2> QED BY <2>2, <2>3, <2>4, <2>6, <2>7, <2>8, <2>9
<1> HIDE DEF w
<1>3. (\E i \in 1..Len(regions) : AllocInRegion(i, w)) \/ AllocInNewRegion(w)
  BY DEF arena_alloc, w
<1> QED BY <1>1, <1>2, <1>3 DEF w

LEMMA StairsKept ==
  ASSUME NEW rs, NEW rs2, NEW r \in Nat,
         \A i \in 1..r : rs2[i].capacity = rs[i].capacity
  PROVE  Stairs(rs2, r) = Stairs(rs, r)
<1>1. ASSUME NEW i \in 1..r, NEW j \in i..r
      PROVE  /\ rs2[j].capacity = rs[j].capacity /\ rs2[i].capacity = rs[i].capacity
  <2>1. j \in 1..r
    OBVIOUS
  <2> QED BY <2>1
<1> QED BY <1>1 DEF Stairs

\* The stairs up to the region just used are among the stairs up to a.end that
\* the request had come by, and that region itself.
LEMMA StairsHeld ==
  ASSUME IInv, FootInv, NEW w \in Nat, NEW r \in Nat \ {0},
         end <= r, r <= Len(regions'), regions' \in Seq(Region),
         \A i \in 1..Len(regions) : regions'[i].capacity = regions[i].capacity,
         w <= regions'[r].capacity, r <= Len(regions) + 1,
         \A j \in 1..(r - 1) : end <= j => regions[j].capacity < regions[j].count + w,
         NEW i \in Stairs(regions', r), i # r
  PROVE  live # <<>> /\ i \in Stairs(regions, end)
<1>0. /\ Len(regions) \in Nat /\ Len(regions') \in Nat /\ end \in 0..Len(regions)
      /\ \A k \in 1..Len(regions) : regions[k].capacity \in Nat /\ regions[k].count \in Nat
      /\ \A k \in 1..Len(regions') : regions'[k].capacity \in Nat
      /\ \A k \in 1..Len(regions) : end < k => regions[k].count = 0
      /\ end = 0 => Len(regions) = 0
  BY RegionTypes, Positions DEF IInv, TypeOK, MarksSound, EndIsFrontier
<1>1. i \in 1..(r - 1) /\ i \in 1..Len(regions) /\ i \in 1..Len(regions') /\ r \in 1..Len(regions') /\ r \in i..r
  BY <1>0 DEF Stairs
<1>2. regions'[r].capacity <= regions'[i].capacity /\ regions'[i].capacity = regions[i].capacity
  BY <1>1 DEF Stairs
<1>3. w <= regions[i].capacity
  <2>1. regions[i].capacity \in Nat /\ regions'[r].capacity \in Nat
    BY <1>0, <1>1
  <2> QED BY <1>2, <2>1
<1>4. regions[i].count = 0 => ~(end <= i)
  <2>1. ASSUME regions[i].count = 0, end <= i PROVE FALSE
    <3>1. regions[i].capacity < 0 + w
      BY <1>1, <2>1
    <3> QED BY <1>0, <1>1, <1>3, <3>1
  <2> QED BY <2>1
<1>5. i <= end
  <2>1. ~(end < i)
    BY <1>0, <1>1, <1>4
  <2> QED BY <1>0, <1>1, <2>1
<1>6. live # <<>>
  <2>1. ASSUME live = <<>> PROVE FALSE
    <3>1. end <= 1 /\ regions[i].count = 0
      BY <1>1, <2>1 DEF FootInv
    <3> QED BY <1>0, <1>1, <1>4, <1>5, <3>1
  <2> QED BY <2>1
<1>7. ASSUME NEW j \in i..end PROVE regions[j].capacity <= regions[i].capacity
  <2>1. j \in i..r /\ j \in 1..Len(regions)
    BY <1>0, <1>1
  <2> QED BY <1>2, <2>1 DEF Stairs
<1> QED BY <1>0, <1>1, <1>5, <1>6, <1>7 DEF Stairs

\* At most as many stairs as blocks, when each stair holds one.
LEMMA StairsFew ==
  ASSUME NEW blocks, NEW n \in Nat, NEW S,
         \A i \in S : \E b \in 1..n : blocks[b].region = i
  PROVE  Cardinality(S) <= n
<1> DEFINE f == [i \in S |-> CHOOSE b \in 1..n : blocks[b].region = i]
<1>1. ASSUME NEW i \in S PROVE f[i] \in 1..n /\ blocks[f[i]].region = i
  OBVIOUS
<1>2. f \in [S -> 1..n]
  <2> DEFINE g(i) == CHOOSE b \in 1..n : blocks[b].region = i
  <2>1. f = [i \in S |-> g(i)] /\ \A i \in S : g(i) = f[i]
    OBVIOUS
  <2> HIDE DEF g, f
  <2>2. \A i \in S : g(i) \in 1..n
    BY <1>1, <2>1
  <2> QED BY <2>1, <2>2
<1> HIDE DEF f
<1>3. f \in Injection(S, 1..n)
  <2>1. \A i, j \in S : f[i] = f[j] => i = j
    BY <1>1
  <2> QED BY <1>2, <2>1 DEF Injection, IsInjective
<1>4. IsFiniteSet(1..n) /\ Cardinality(1..n) = n
  BY FS_Interval
<1>5. Cardinality(S) <= Cardinality(1..n)
  BY <1>3, <1>4, FS_Injection
<1> QED BY <1>4, <1>5

LEMMA AllocateFoot ==
  ASSUME LoopInv, FootInv, NEW bytes \in Sizes, Allocate(bytes)
  PROVE  FootInv'
<1> DEFINE w == Words(bytes)
<1>0. /\ IInv /\ live \in Seq(Block) /\ Len(live) \in Nat /\ bytes \in Nat /\ w \in Nat
      /\ Len(regions) \in Nat
  BY RegionTypes, SizesAssumption, WordsType DEF LoopInv, IInv, TypeOK
<1>1. arena_alloc(bytes)
  BY DEF Allocate
<1>2. IInv' /\ regions' \in Seq(Region) /\ Len(regions') \in Nat
  BY <1>0, <1>1, AllocInv, RegionTypes DEF IInv, TypeOK
<1>3. PICK r \in Nat \ {0}, c \in Nat :
           /\ end <= r /\ r <= Len(regions') /\ end' = r
           /\ Len(regions') = Len(regions) \/ (Len(regions') = Len(regions) + 1 /\ r = Len(regions) + 1)
           /\ \A i \in 1..Len(regions) : regions'[i].capacity = regions[i].capacity
           /\ regions'[r].capacity \in Nat /\ w <= regions'[r].capacity
           /\ Len(regions') = Len(regions) \/ regions'[r].capacity \in Capacities
           /\ live' = Append(live, [region |-> r, offset |-> c, words |-> w])
           /\ \A j \in 1..(r - 1) :
                end <= j => regions[j].capacity < regions[j].count + w
  BY <1>0, <1>1, AllocPasses
<1> HIDE DEF w
<1>4. /\ Len(live') = Len(live) + 1
      /\ \A b \in 1..Len(live) : live'[b] = live[b]
      /\ live'[Len(live) + 1].region = r
      /\ Len(live) + 1 \in 1..Len(live')
      /\ live' # <<>>
  BY <1>0, <1>3
<1>5. Len(live') <= MaxLive
  BY <1>0, <1>1, <1>4, BoundsAssumption DEF arena_alloc
<1>6. r <= Len(regions) + 1
  BY <1>0, <1>2, <1>3
<1>7. ASSUME NEW i \in Stairs(regions', r)
      PROVE  \E b \in 1..Len(live') : live'[b].region = i
  <2>1. CASE i = r
    BY <1>4, <2>1
  <2>2. CASE i # r
    <3>1. live # <<>> /\ i \in Stairs(regions, end)
      BY <1>0, <1>2, <1>3, <1>6, <2>2, StairsHeld
    <3>2. PICK b \in 1..Len(live) : live[b].region = i
      BY <3>1 DEF FootInv, HeldIn
    <3>3. b \in 1..Len(live')
      BY <1>0, <1>4
    <3> QED BY <1>4, <3>2, <3>3
  <2> QED BY <2>1, <2>2
<1>8. \A q \in 1..Len(regions') : regions'[q].capacity \in Capacities
  <2>1. ASSUME NEW q \in 1..Len(regions') PROVE regions'[q].capacity \in Capacities
    <3>1. CASE q \in 1..Len(regions)
      BY <1>3, <3>1 DEF FootInv
    <3>2. CASE q \notin 1..Len(regions)
      <4>1. q = r /\ Len(regions') # Len(regions)
        BY <1>0, <1>2, <1>3, <3>2
      <4> QED BY <1>3, <4>1
    <3> QED BY <3>1, <3>2
  <2> QED BY <2>1
<1>9. \A q \in 1..Len(regions') : Cardinality(Stairs(regions', q)) <= MaxLive
  <2>1. ASSUME NEW q \in 1..Len(regions') PROVE Cardinality(Stairs(regions', q)) <= MaxLive
    <3>1. CASE q \in 1..Len(regions)
      <4>1. \A i \in 1..q : regions'[i].capacity = regions[i].capacity
        <5>1. \A i \in 1..q : i \in 1..Len(regions)
          BY <1>0, <3>1
        <5> QED BY <1>3, <5>1
      <4>2. q \in Nat
        OBVIOUS
      <4>3. Stairs(regions', q) = Stairs(regions, q)
        BY <4>1, <4>2, StairsKept
      <4> QED BY <3>1, <4>3 DEF FootInv
    <3>2. CASE q \notin 1..Len(regions)
      <4>1. q = r
        BY <1>0, <1>2, <1>3, <3>2
      <4>2. Len(live') \in Nat
        BY <1>0, <1>4
      <4>3. Cardinality(Stairs(regions', r)) <= Len(live')
        BY <1>7, <4>2, StairsFew
      <4>4. IsFiniteSet(1..r)
        BY FS_Interval
      <4>5. Stairs(regions', r) \in SUBSET (1..r)
        BY DEF Stairs
      <4>6. IsFiniteSet(Stairs(regions', r))
        BY <4>4, <4>5, FS_Subset
      <4>7. Cardinality(Stairs(regions', r)) \in Nat
        BY <4>6, FS_CardinalityType
      <4> QED BY <1>5, <4>1, <4>2, <4>3, <4>7, BoundsAssumption
    <3> QED BY <3>1, <3>2
  <2> QED BY <2>1
<1>10. \A i \in Stairs(regions', end') : HeldIn(i)' # {}
  <2>1. ASSUME NEW i \in Stairs(regions', end') PROVE HeldIn(i)' # {}
    BY <1>3, <1>7, <2>1 DEF HeldIn
  <2> QED BY <2>1
<1> QED BY <1>4, <1>8, <1>9, <1>10 DEF FootInv, HeldIn

LEMMA ResetFoot ==
  ASSUME LoopInv, FootInv, ResetRegions
  PROVE  FootInv'
<1>0. regions \in Seq(Region) /\ Len(regions) \in Nat /\ IInv
  BY RegionTypes DEF LoopInv, IInv, TypeOK
<1>1. /\ Len(regions') = Len(regions)
      /\ \A i \in 1..Len(regions) : regions'[i].capacity = regions[i].capacity
  <2>1. \A i \in 1..Len(regions) : regions[i] \in Region
    BY <1>0, RegionTypes
  <2>2. \A x \in Region : [x EXCEPT !.count = 0].capacity = x.capacity
    BY DEF Region
  <2>3. regions' = [i \in 1..Len(regions) |-> Emptied(i)] /\ \A i \in 1..Len(regions) : Emptied(i).capacity = regions[i].capacity
    BY <2>1, <2>2 DEF ResetRegions, Emptied
  <2> QED BY <1>0, <2>3
<1>2. /\ \A i \in 1..Len(regions') : regions'[i].count = 0
      /\ end' = IF regions' = <<>> THEN 0 ELSE 1
      /\ live' = <<>>
  BY <1>0, ResetRegionsFacts
<1>3. ASSUME NEW q \in 1..Len(regions)
      PROVE  Stairs(regions', q) = Stairs(regions, q)
  <2>1. q \in Nat /\ \A i \in 1..q : i \in 1..Len(regions)
    BY <1>0
  <2>2. \A i \in 1..q : regions'[i].capacity = regions[i].capacity
    BY <1>1, <2>1
  <2> QED BY <2>1, <2>2, StairsKept
<1>4. \A q \in 1..Len(regions') : regions'[q].capacity \in Capacities
  BY <1>1 DEF FootInv
<1>5. \A q \in 1..Len(regions') : Cardinality(Stairs(regions', q)) <= MaxLive
  BY <1>1, <1>3 DEF FootInv
<1> QED BY <1>2, <1>4, <1>5 DEF FootInv

LEMMA FootInit == LoopInit => FootInv
  BY DEF LoopInit, FootInv

LEMMA FootNext == LoopInv /\ FootInv /\ [LoopNext]_allVars => FootInv'
<1> SUFFICES ASSUME LoopInv, FootInv, [LoopNext]_allVars PROVE FootInv'
  OBVIOUS
<1>1. CASE Accept
  BY <1>1, RewindResets, ResetFoot DEF Accept, LoopInv
<1>2. CASE Finish \/ UNCHANGED allVars
  <2>1. UNCHANGED <<regions, end, live>>
    BY <1>2 DEF Finish, arenaVars, allVars
  <2> QED BY <2>1 DEF FootInv, HeldIn
<1>3. CASE Stop
  BY <1>3 DEF Stop, arena_free, FootInv
<1> QED BY <1>1, <1>2, <1>3, AllocateFoot DEF LoopNext

LEMMA FootInvariance == LoopSpec => [](LoopInv /\ FootInv)
  BY LoopInitInv, LoopNextInv, FootInit, FootNext, PTL DEF LoopSpec

----------------------------------------------------------------------------
(* Regions are as many as shapes *)

LEMMA CapacitiesFinite == IsFiniteSet(Capacities) /\ Capacities \subseteq Nat
<1> DEFINE cap(b) == new_region(Words(b)).capacity
           f == [b \in Sizes |-> cap(b)]
<1>1. \A b \in Sizes : cap(b) \in Nat
  <2>1. ASSUME NEW b \in Sizes PROVE cap(b) \in Nat
    <3>1. b \in Nat
      BY SizesAssumption
    <3>2. Words(b) \in Nat
      BY <3>1, WordsType
    <3> QED BY <3>2, WordsAssumption DEF new_region
  <2> QED BY <2>1
<1>2. Capacities = {cap(b) : b \in Sizes}
  BY DEF Capacities
<1> HIDE DEF cap
<1>3. f \in Surjection(Sizes, Capacities)
  BY <1>2 DEF Surjection
<1> HIDE DEF f
<1>4. IsFiniteSet(Capacities)
  BY <1>3, FS_Surjection, FiniteSizesAssumption
<1> QED BY <1>1, <1>2, <1>4

LEMMA ShapesFinite == IsFiniteSet(Shapes)
<1> DEFINE P == Capacities \X (0..MaxLive)
           f == [g \in Shapes |-> {p \in P : g[p[1]] = p[2]}]
<1>1. IsFiniteSet(0..MaxLive)
  BY FS_Interval, BoundsAssumption
<1>2. IsFiniteSet(P)
  BY <1>1, CapacitiesFinite, FS_Product
<1>3. IsFiniteSet(SUBSET P)
  <2> HIDE DEF P
  <2> QED BY <1>2, FS_SUBSET
<1>4. f \in [Shapes -> SUBSET P]
  OBVIOUS
<1>5. ASSUME NEW g \in Shapes, NEW h \in Shapes, f[g] = f[h]
      PROVE  g = h
  <2>1. g \in [Capacities -> 0..MaxLive] /\ h \in [Capacities -> 0..MaxLive]
    BY DEF Shapes
  <2>2. ASSUME NEW c \in Capacities PROVE g[c] = h[c]
    <3>1. <<c, g[c]>> \in P
      BY <2>1
    <3>2. <<c, g[c]>> \in f[g]
      BY <3>1
    <3>3. <<c, g[c]>> \in f[h]
      BY <1>5, <3>2
    <3> QED BY <3>3
  <2> QED BY <2>1, <2>2
<1> HIDE DEF f, P
<1>6. f \in Injection(Shapes, SUBSET P)
  BY <1>4, <1>5 DEF Injection, IsInjective
<1> QED BY <1>3, <1>6, FS_Injection

\* How many stairs up to r are as large as c.
Above(rs, r, c) == {i \in Stairs(rs, r) : c <= rs[i].capacity}
ShapeOf(rs, r) == [c \in Capacities |-> Cardinality(Above(rs, r, c))]

LEMMA AboveFinite ==
  ASSUME NEW rs, NEW r \in Nat, NEW c
  PROVE  /\ IsFiniteSet(Stairs(rs, r)) /\ IsFiniteSet(Above(rs, r, c))
         /\ Cardinality(Stairs(rs, r)) \in Nat /\ Cardinality(Above(rs, r, c)) \in Nat
         /\ Cardinality(Above(rs, r, c)) <= Cardinality(Stairs(rs, r))
<1>1. IsFiniteSet(1..r)
  BY FS_Interval
<1>2. Stairs(rs, r) \in SUBSET (1..r)
  BY DEF Stairs
<1>3. IsFiniteSet(Stairs(rs, r))
  BY <1>1, <1>2, FS_Subset
<1>4. Above(rs, r, c) \in SUBSET Stairs(rs, r)
  BY DEF Above
<1>5. IsFiniteSet(Above(rs, r, c)) /\ Cardinality(Above(rs, r, c)) <= Cardinality(Stairs(rs, r))
  BY <1>3, <1>4, FS_Subset
<1> QED BY <1>3, <1>5, FS_CardinalityType

LEMMA ShapeIsShape ==
  ASSUME NEW rs, NEW r \in Nat \ {0},
         \A i \in 1..r : rs[i].capacity \in Capacities,
         Cardinality(Stairs(rs, r)) <= MaxLive
  PROVE  ShapeOf(rs, r) \in Shapes
<1> DEFINE g == ShapeOf(rs, r)
<1>1. ASSUME NEW c \in Capacities PROVE g[c] = Cardinality(Above(rs, r, c)) /\ g[c] \in 0..MaxLive
  <2>1. g[c] = Cardinality(Above(rs, r, c))
    BY DEF ShapeOf
  <2>2. Cardinality(Above(rs, r, c)) \in Nat /\ Cardinality(Stairs(rs, r)) \in Nat
        /\ Cardinality(Above(rs, r, c)) <= Cardinality(Stairs(rs, r))
    BY AboveFinite
  <2> QED BY <2>1, <2>2, BoundsAssumption
<1>2. g \in [Capacities -> 0..MaxLive]
  <2>1. g = [c \in Capacities |-> g[c]]
    BY DEF ShapeOf
  <2> HIDE DEF g
  <2> QED BY <1>1, <2>1
<1>3. ASSUME NEW c \in Capacities, NEW d \in Capacities, c <= d PROVE g[d] <= g[c]
  <2>1. Above(rs, r, d) \in SUBSET Above(rs, r, c)
    <3>1. ASSUME NEW i \in Above(rs, r, d) PROVE i \in Above(rs, r, c)
      <4>1. i \in Stairs(rs, r) /\ d <= rs[i].capacity
        BY DEF Above
      <4>2. rs[i].capacity \in Nat /\ c \in Nat /\ d \in Nat
        BY <4>1, CapacitiesFinite DEF Stairs
      <4>3. c <= rs[i].capacity
        BY <1>3, <4>1, <4>2
      <4> QED BY <4>1, <4>3 DEF Above
    <3> QED BY <3>1
  <2>2. IsFiniteSet(Above(rs, r, c))
    BY AboveFinite
  <2>3. Cardinality(Above(rs, r, d)) <= Cardinality(Above(rs, r, c))
    BY <2>1, <2>2, FS_Subset
  <2> QED BY <1>1, <2>3
<1>4. \E c \in Capacities : g[c] # 0
  <2>0. r \in 1..r /\ \A j \in r..r : j = r
    OBVIOUS
  <2>k. rs[r].capacity \in Capacities
    BY <2>0
  <2>n. rs[r].capacity \in Nat
    BY <2>k, CapacitiesFinite
  <2>l. \A j \in r..r : rs[j].capacity <= rs[r].capacity
    BY <2>0, <2>n
  <2>1. r \in Stairs(rs, r)
    BY <2>0, <2>l DEF Stairs
  <2>2. r \in Above(rs, r, rs[r].capacity)
    BY <2>1, <2>n DEF Above
  <2>3. Cardinality(Above(rs, r, rs[r].capacity)) # 0
    BY <2>2, AboveFinite, FS_EmptySet
  <2> QED BY <1>1, <2>k, <2>3
<1> HIDE DEF g
<1>5. g \in Shapes
  BY <1>2, <1>3, <1>4 DEF Shapes
<1> QED BY <1>5 DEF g

\* The last of the largest regions from a to b.
LEMMA LastLargest ==
  ASSUME NEW rs, NEW a \in Nat, NEW b \in Nat, a <= b,
         \A i \in a..b : rs[i].capacity \in Nat
  PROVE  \E p \in a..b :
           /\ \A i \in a..b : rs[i].capacity <= rs[p].capacity
           /\ \A i \in (p + 1)..b : rs[i].capacity < rs[p].capacity
<1> DEFINE Largest(p, e) ==
             /\ p \in a..e
             /\ \A i \in a..e : rs[i].capacity <= rs[p].capacity
             /\ \A i \in (p + 1)..e : rs[i].capacity < rs[p].capacity
           S == {n \in 0..(b - a) : \E p \in a..(a + n) : Largest(p, a + n)}
<1>1. b - a \in Nat /\ a + (b - a) = b
  OBVIOUS
<1>2. 0 \in S
  <2>1. a \in a..a /\ (\A i \in a..a : i = a) /\ (a + 1)..a = {} /\ a + 0 = a /\ a \in a..b
    OBVIOUS
  <2>2. rs[a].capacity <= rs[a].capacity
    BY <2>1
  <2>3. Largest(a, a + 0)
    BY <2>1, <2>2
  <2> HIDE DEF Largest
  <2> QED BY <1>1, <2>1, <2>3
<1>3. ASSUME NEW n \in 0..((b - a) - 1), n \in S PROVE n + 1 \in S
  <2> DEFINE e == a + n
  <2>1. n \in Nat /\ e \in Nat /\ a + (n + 1) = e + 1 /\ e + 1 <= b /\ n + 1 \in 0..(b - a) /\ a <= e
    BY <1>1
  <2>2. PICK p \in a..e : Largest(p, e)
    BY <1>3
  <2> HIDE DEF e
  <2>3. e + 1 \in a..b /\ p \in a..b /\ rs[e + 1].capacity \in Nat /\ rs[p].capacity \in Nat
    BY <2>1
  <2>t. \A i \in a..e : rs[i].capacity \in Nat
    BY <2>1
  <2>4. \A i \in a..(e + 1) : i \in a..e \/ i = e + 1
    BY <2>1
  <2>5. CASE rs[e + 1].capacity < rs[p].capacity
    <3>1. p \in a..(e + 1) /\ \A i \in (p + 1)..(e + 1) : i \in (p + 1)..e \/ i = e + 1
      BY <2>1
    <3>2. \A i \in (p + 1)..(e + 1) : rs[i].capacity < rs[p].capacity
      BY <2>2, <2>5, <3>1
    <3>3. rs[e + 1].capacity <= rs[p].capacity
      BY <2>3, <2>5
    <3>4. \A i \in a..(e + 1) : rs[i].capacity <= rs[p].capacity
      BY <2>2, <2>4, <3>3
    <3>5. Largest(p, e + 1)
      BY <3>1, <3>2, <3>4
    <3> HIDE DEF Largest
    <3> QED BY <2>1, <3>1, <3>5
  <2>6. CASE ~(rs[e + 1].capacity < rs[p].capacity)
    <3>1. e + 1 \in a..(e + 1) /\ ((e + 1) + 1)..(e + 1) = {}
      BY <2>1
    <3>2. rs[p].capacity <= rs[e + 1].capacity /\ rs[e + 1].capacity <= rs[e + 1].capacity
      BY <2>3, <2>6
    <3>3. \A i \in a..e : rs[i].capacity <= rs[e + 1].capacity
      BY <2>2, <2>3, <2>t, <3>2
    <3>4. \A i \in a..(e + 1) : rs[i].capacity <= rs[e + 1].capacity
      BY <2>4, <3>2, <3>3
    <3>5. Largest(e + 1, e + 1)
      BY <3>1, <3>4
    <3> HIDE DEF Largest
    <3> QED BY <2>1, <3>1, <3>5
  <2> QED BY <2>5, <2>6
<1> HIDE DEF S
<1>4. \A n \in 0..(b - a) : n \in S
  BY <1>1, <1>2, <1>3, Upwards
<1>5. b - a \in S
  BY <1>1, <1>4
<1> USE DEF S
<1> QED BY <1>1, <1>5

\* Two regions see different stairs: the largest region that only the later one
\* sees hides every smaller one before it, and no other.
LEMMA ShapesDiffer ==
  ASSUME NEW rs, NEW r \in Nat \ {0}, NEW s \in Nat, r < s,
         \A i \in 1..s : rs[i].capacity \in Capacities
  PROVE  ShapeOf(rs, r) # ShapeOf(rs, s)
<1>0. \A i \in 1..s : rs[i].capacity \in Nat
  BY CapacitiesFinite
<1>1. PICK p \in (r + 1)..s :
        /\ \A i \in (r + 1)..s : rs[i].capacity <= rs[p].capacity
        /\ \A i \in (p + 1)..s : rs[i].capacity < rs[p].capacity
  <2>1. r + 1 \in Nat /\ r + 1 <= s
    OBVIOUS
  <2>2. \A i \in (r + 1)..s : rs[i].capacity \in Nat
    BY <1>0
  <2> QED BY <2>1, <2>2, LastLargest
<1> DEFINE c == rs[p].capacity
<1>2. p \in 1..s /\ ~(p \in 1..r) /\ c \in Capacities /\ c \in Nat
  <2>1. p \in 1..s /\ ~(p \in 1..r)
    OBVIOUS
  <2> QED BY <1>0, <2>1
<1>3. p \in Above(rs, s, c)
  <2>1. \A j \in p..s : j \in (r + 1)..s
    OBVIOUS
  <2>2. \A j \in p..s : rs[j].capacity <= rs[p].capacity
    BY <1>1, <2>1
  <2>3. c <= rs[p].capacity
    BY <1>2
  <2> QED BY <1>2, <2>2, <2>3 DEF Above, Stairs
<1>4. p \notin Above(rs, r, c)
  BY <1>2 DEF Above, Stairs
<1>5. ASSUME NEW i \in Above(rs, r, c) PROVE i \in Above(rs, s, c)
  <2>1. i \in 1..r /\ c <= rs[i].capacity /\ \A j \in i..r : rs[j].capacity <= rs[i].capacity
    BY DEF Above, Stairs
  <2>2. i \in 1..s /\ rs[i].capacity \in Nat
    BY <1>0, <2>1
  <2>3. ASSUME NEW j \in i..s PROVE rs[j].capacity <= rs[i].capacity
    <3>0. rs[j].capacity \in Nat
      <4>1. j \in 1..s
        BY <2>2
      <4> QED BY <1>0, <4>1
    <3>1. CASE j \in i..r
      BY <2>1, <3>1
    <3>2. CASE j \in (r + 1)..s
      <4>1. rs[j].capacity <= c
        BY <1>1, <3>2
      <4> HIDE DEF c
      <4> QED BY <1>2, <2>1, <2>2, <3>0, <4>1
    <3>3. j \in i..r \/ j \in (r + 1)..s
      BY <2>1
    <3> QED BY <3>1, <3>2, <3>3
  <2> QED BY <2>1, <2>2, <2>3 DEF Above, Stairs
<1> HIDE DEF c
<1>6. Cardinality(Above(rs, r, c)) # Cardinality(Above(rs, s, c))
  <2>1. Above(rs, r, c) \in SUBSET Above(rs, s, c)
    BY <1>5
  <2>2. IsFiniteSet(Above(rs, s, c))
    BY AboveFinite
  <2>3. Above(rs, s, c) # Above(rs, r, c)
    BY <1>3, <1>4
  <2> QED BY <2>1, <2>2, <2>3, FS_Subset
<1>7. ShapeOf(rs, r)[c] = Cardinality(Above(rs, r, c)) /\ ShapeOf(rs, s)[c] = Cardinality(Above(rs, s, c))
  BY <1>2 DEF ShapeOf
<1> QED BY <1>6, <1>7

LEMMA FootprintFollows == LoopInv /\ FootInv => FootprintBounded
<1> SUFFICES ASSUME LoopInv, FootInv PROVE FootprintBounded
  OBVIOUS
<1> DEFINE n == Len(regions)
           f == [r \in 1..n |-> ShapeOf(regions, r)]
<1>0. n \in Nat
  BY RegionTypes DEF LoopInv, IInv, TypeOK
<1>1. ASSUME NEW r \in 1..n PROVE ShapeOf(regions, r) \in Shapes
  <2>1. r \in Nat \ {0} /\ \A i \in 1..r : i \in 1..n
    BY <1>0
  <2>2. /\ \A i \in 1..r : regions[i].capacity \in Capacities
        /\ Cardinality(Stairs(regions, r)) <= MaxLive
    BY <2>1 DEF FootInv
  <2> QED BY <2>1, <2>2, ShapeIsShape
<1>2. ASSUME NEW r \in 1..n, NEW s \in 1..n, r < s PROVE ShapeOf(regions, r) # ShapeOf(regions, s)
  <2>1. r \in Nat \ {0} /\ s \in Nat /\ \A i \in 1..s : i \in 1..n
    BY <1>0
  <2>2. \A i \in 1..s : regions[i].capacity \in Capacities
    BY <2>1 DEF FootInv
  <2> QED BY <1>2, <2>1, <2>2, ShapesDiffer
<1>3. \A r, s \in 1..n : ShapeOf(regions, r) = ShapeOf(regions, s) => r = s
  <2>1. ASSUME NEW r \in 1..n, NEW s \in 1..n, ShapeOf(regions, r) = ShapeOf(regions, s) PROVE r = s
    <3>1. ~(r < s) /\ ~(s < r)
      BY <1>2, <2>1
    <3>2. r \in Int /\ s \in Int
      OBVIOUS
    <3> QED BY <3>1, <3>2
  <2> QED BY <2>1
<1>4. f \in Injection(1..n, Shapes)
  <2>1. f \in [1..n -> Shapes]
    BY <1>1
  <2>2. \A r \in 1..n : f[r] = ShapeOf(regions, r)
    OBVIOUS
  <2> HIDE DEF f
  <2> QED BY <1>3, <2>1, <2>2 DEF Injection, IsInjective
<1>5. Cardinality(1..n) <= Cardinality(Shapes)
  BY <1>4, ShapesFinite, FS_Injection
<1>6. Cardinality(1..n) = n
  BY <1>0, FS_Interval
<1> QED BY <1>5, <1>6 DEF FootprintBounded, Footprint

\* However requests of bounded size follow one another, the arena of the server
\* stops growing: arena_alloc adds a region only behind regions that are all in
\* use or too small, and there are Footprint ways to be in that position.
THEOREM LoopFootprintBounded == LoopSpec => []FootprintBounded
  BY FootInvariance, FootprintFollows, PTL
=============================================================================
