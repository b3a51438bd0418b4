------------------------------ MODULE Reactor ------------------------------
(***************************************************************************)
(* The WebAssembly exports at the end of mcp.c, and the host that calls    *)
(* them as worker.js means to: mcp_init once, then for each request two    *)
(* mcp_alloc for the body and the answer, a view of the linear memory, and *)
(* mcp_handle_wasm.  The host is single-threaded between its awaits, and   *)
(* none lies between the allocations and the reading of the answer.        *)
(*                                                                         *)
(* The instance lives as long as the isolate, with two arenas: the root    *)
(* arena holds the tools' names and every buffer the host asked for and is *)
(* never rewound; the request arena (Arena's own variables) is rewound to  *)
(* where the request found it.  mcp_handle appends to texts of JsonBuf     *)
(* there and copies the first of them out, unless it has returned before.  *)
(***************************************************************************)
EXTENDS JsonBuf

CONSTANTS
    Names,       \* byte counts of the registry's strings, in order
    BodySizes,   \* rlen + 1 of the requests
    OutSize,     \* olen
    ErrorText,   \* the bytes of the answer to a body that cannot be read
    MaxRequests, \* bound: requests of one instance
    MaxSteps,    \* bound: strings and pieces of one answer
    NoRequest    \* no request's answer was lost so far

ASSUME ReactorAssumption ==
    /\ Names \in Seq(Nat) /\ BodySizes \subseteq Nat /\ OutSize \in Nat \ {0}
    /\ ErrorText \in Seq({ErrorText[i] : i \in 1..Len(ErrorText)})

VARIABLES
    rootRegions, rootEnd, rootLive,  \* the root arena
    phase,    \* "loaded", "idle", "buffers", "handling"
    requests, \* requests so far
    script,   \* what mcp_handle has done for this request: the texts it made and
              \* what it appended to them
    view,     \* the host's view of the memory: "none", "good", "detached"
    answer,   \* the bytes of out, up to the returned length
    lost      \* the script of a request whose answer could not be read, or NoRequest

rootVars == <<rootRegions, rootEnd, rootLive>>
reactorVars ==
    <<vars, builderVars, rootVars, phase, requests, script, view, answer, lost>>

Root == INSTANCE Arena WITH
    regions <- rootRegions, end <- rootEnd, live <- rootLive, marks <- <<>>,
    MaxRegions <- MaxRequests + Len(Names), MaxLive <- 2 * MaxRequests + Len(Names)

ReactorInit ==
    /\ Init /\ BuilderInit
    /\ rootRegions = <<>> /\ rootEnd = 0 /\ rootLive = <<>>
    /\ phase = "loaded" /\ requests = 0
    /\ script = <<>> /\ view = "none" /\ answer = <<>> /\ lost = NoRequest

\* mcp_registry_init: one arena_strdup after the other.
mcp_init ==
    /\ phase = "loaded"
    /\ Root!arena_alloc(Names[Len(rootLive) + 1])
    /\ phase' = IF Len(rootLive) + 1 = Len(Names) THEN "idle" ELSE "loaded"
    /\ UNCHANGED <<vars, builderVars, requests, script, view, answer, lost>>

\* The host's two calls; the view is taken after them.
mcp_alloc ==
    \/ /\ phase = "idle" /\ requests < MaxRequests
       /\ requests' = requests + 1 /\ phase' = "buffers"
       /\ \E n \in BodySizes : Root!arena_alloc(n)
       /\ UNCHANGED view
    \/ /\ phase = "buffers" /\ view = "none"
       /\ Root!arena_alloc(OutSize)
       /\ view' = "good"
       /\ UNCHANGED <<phase, requests>>

HostAllocates ==
    /\ mcp_alloc
    /\ UNCHANGED <<vars, builderVars, script, answer, lost>>

\* The entry of mcp_handle_wasm: arena_snapshot.
mcp_handle_wasm ==
    /\ phase = "buffers" /\ view # "none"
    /\ arena_snapshot
    /\ phase' = "handling" /\ script' = <<>>
    /\ UNCHANGED <<builderVars, rootVars, requests, view, answer, lost>>

\* A step of mcp_handle.  A new region may make the memory grow, and that
\* detaches every view of it.
mcp_handle ==
    /\ phase = "handling"
    /\ BuilderStep
    /\ script' = IF said' = said THEN script ELSE Append(script, said')
    /\ Len(script') <= MaxSteps
    /\ \/ UNCHANGED view
       \/ Len(regions') > Len(regions) /\ view' = "detached"
    /\ UNCHANGED <<rootVars, phase, requests, answer, lost>>

\* Faulty variant: the answer fills the buffer to its end.
Copied_NoNul(b) == IF b.len > OutSize THEN OutSize ELSE b.len

\* Bytes of the answer copied to out; one is left for the NUL.
Copied(b) == IF b.len >= OutSize THEN OutSize - 1 ELSE b.len

\* Faulty variant: the rewind is forgotten.
Rewind_Forgotten == UNCHANGED vars

\* arena_rewind to the mark of this request.
Rewind == arena_rewind(Len(marks))

\* There is a byte for the NUL of the parse error, too.
ErrorFits == Len(ErrorText) < OutSize

\* What out held before is read for an error that is not copied.
Stale == [i \in 1..Len(ErrorText) |-> "stale"]

\* mcp_handle returns before it has appended anything: with the length of the
\* parse error, or with none for a notification.
ReturnsEarly ==
    /\ Len(bufs) = 1 /\ said[1] = <<>>
    /\ \/ answer' = IF ErrorFits THEN ErrorText ELSE Stale
       \/ answer' = <<>>

\* It returns with the first text.
Done ==
    /\ bufs # <<>> /\ Len(said[1]) > 0
    /\ answer' = SubSeq(Content(bufs[1]), 1, Copied(bufs[1]))

\* The end of mcp_handle and of mcp_handle_wasm; then the host reads the answer,
\* if its view is still good.
Answer ==
    /\ phase = "handling" /\ Idle
    /\ ReturnsEarly \/ Done
    /\ Rewind
    /\ bufs' = <<>> /\ heap' = <<>> /\ said' = <<>> /\ todo' = NoCall
    /\ phase' = "idle" /\ view' = "none"
    /\ lost' = IF view = "detached" THEN script ELSE lost
    /\ UNCHANGED <<rootVars, requests, script>>

ReactorNext == mcp_init \/ HostAllocates \/ mcp_handle_wasm \/ mcp_handle \/ Answer

ReactorSpec == ReactorInit /\ [][ReactorNext]_reactorVars
----------------------------------------------------------------------------
(* Properties *)

IsPrefixOf(s, t) == Len(s) <= Len(t) /\ s = SubSeq(t, 1, Len(s))

\* A request whose answer was lost, because the memory grew under the host's
\* view while it was being answered, is answered when it is sent again, with any
\* requests in between: the request arena keeps what it has grown by, so that
\* nothing detaches the view as long as the same is appended.
RetryIsAnswered ==
    [][lost # NoRequest /\ IsPrefixOf(script', lost) /\ phase = "handling"
         => view' = view \/ phase' = "idle"]_reactorVars

\* The answer that is read is all of the first text, unless out is too small for
\* it; then it is its beginning and leaves a byte for the NUL.  An answer without
\* a text is the parse error or empty.  All this if out holds a parse error, as
\* the buffers of 512 KiB of both hosts do (main.c:32, worker.js:138).
AnswerIsRead ==
    [][ErrorFits /\ phase = "handling" /\ phase' = "idle" =>
         \/ said[1] = <<>> /\ answer' \in {ErrorText, <<>>}
         \/ /\ said[1] # <<>>
            /\ \/ Reads(answer', said[1])
               \/ /\ Len(answer') = OutSize - 1
                  /\ IsPrefixOf(answer', Content(bufs[1]))]_reactorVars
=============================================================================
