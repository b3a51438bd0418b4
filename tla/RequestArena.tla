--------------------------- MODULE RequestArena ---------------------------
(***************************************************************************)
(* The request arena of main.c.  Its mark is taken before anything is      *)
(* allocated, and every request starts by rewinding to it; the handlers    *)
(* below (mcp.c, odoo.c, net.c) only ever allocate.  What the server's     *)
(* memory does over a long run of requests follows from this loop and the  *)
(* first-fit walk of arena_alloc.                                          *)
(***************************************************************************)
EXTENDS Arena, FiniteSets

CONSTANT NoTrace  \* no finished request is remembered

ASSUME FiniteSizesAssumption == IsFiniteSet(Sizes)

VARIABLES
    phase,  \* "waiting" in khttp_parse, "serving" a request, "stopped"
    trace,  \* the byte counts the request being served has asked for so far
    known   \* the whole trace of one request served earlier, or NoTrace

arenaVars == <<regions, end, live, marks>>
allVars   == <<arenaVars, phase, trace, known>>

\* req_mark = arena_snapshot(&a) of an arena that has no region yet.
LoopInit ==
    /\ regions = <<>> /\ end = 0 /\ live = <<>>
    /\ marks = <<[region |-> 0, count |-> 0, height |-> 0]>>
    /\ phase = "waiting"
    /\ trace = <<>>
    /\ known = NoTrace

\* Faulty variant: no rewind before the request.
Accept_NoRewind ==
    /\ phase = "waiting"
    /\ phase' = "serving"
    /\ trace' = <<>>
    /\ UNCHANGED <<arenaVars, known>>

\* A request was parsed: arena_rewind(&a, req_mark).
Accept ==
    /\ phase = "waiting"
    /\ arena_rewind(1)
    /\ phase' = "serving"
    /\ trace' = <<>>
    /\ UNCHANGED known

\* A handler takes memory: request and response buffers, XML, HTTP buffers.
Allocate(bytes) ==
    /\ phase = "serving"
    /\ arena_alloc(bytes)
    /\ trace' = Append(trace, bytes)
    /\ UNCHANGED <<phase, known>>

\* The reply is out.  Any finished request may be the one remembered.
Finish ==
    /\ phase = "serving"
    /\ phase' = "waiting"
    /\ known' \in {known, trace}
    /\ UNCHANGED <<arenaVars, trace>>

\* khttp_parse failed: the loop is left and the arena freed.
Stop ==
    /\ phase = "waiting"
    /\ arena_free
    /\ phase' = "stopped"
    /\ trace' = <<>>
    /\ UNCHANGED known

LoopNext ==
    \/ Accept
    \/ \E bytes \in Sizes : Allocate(bytes)
    \/ Finish
    \/ Stop

LoopSpec == LoopInit /\ [][LoopNext]_allVars

----------------------------------------------------------------------------

\* While a request is served the arena holds its blocks and nothing else: no
\* block of an earlier request survives the rewind, none of its own is lost.
OnlyOwnBlocks ==
    /\ Len(live) = Len(trace)
    /\ \A i \in 1..Len(live) : live[i].words = Words(trace[i])

IsPrefixOf(s, t) == Len(s) <= Len(t) /\ s = SubSeq(t, 1, Len(s))

\* The server does not grow under a repeated request: when a request that was
\* served before comes again, with any requests in between, the memory kept
\* across rewinds serves all of it and no region is added.
NoGrowthOnRepeat ==
    [][(known # NoTrace /\ Len(regions') > Len(regions))
         => ~IsPrefixOf(trace', known)]_allVars

\* The capacities a region may have.
Capacities == {new_region(Words(bytes)).capacity : bytes \in Sizes}

\* How many of at most MaxLive regions are as large as c, for each capacity c.
Shapes ==
    {shape \in [Capacities -> 0..MaxLive] :
       /\ \A c, d \in Capacities : c <= d => shape[d] <= shape[c]
       /\ \E c \in Capacities : shape[c] # 0}

\* The regions that serve every request of MaxLive allocations.
Footprint == Cardinality(Shapes)

\* A long run of requests cannot exhaust memory: however requests of bounded
\* size follow one another, the arena stops growing at Footprint regions, even
\* though it is never trimmed and a large request may skip regions for good.
FootprintBounded == Len(regions) <= Footprint
=============================================================================
