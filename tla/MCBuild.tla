------------------------------ MODULE MCBuild ------------------------------
(* nob.c's programs, and drivers that use the rest of nob.h: three commands *)
(* through a pool of two; started and flushed in twos; a chain of three     *)
(* that read to the end and write more than a pipe holds, with the stderr   *)
(* of the last two among it; a chain that goes to the pool, with files at   *)
(* both ends, whose last command may stop reading; an empty chain.          *)
EXTENDS Build

Tool(reads, writes) ==
    [output |-> "none", inputs |-> {}, reads |-> reads, writes |-> writes]
Plain == Tool("some", "little")
Source == Tool("some", "much")
Filter == Tool("all", "much")
Sink == Tool("all", "little")

MCRun(async, opened) == [op |-> "run", cmd |-> Plain, async |-> async, files |-> opened]
MCStart == [op |-> "start", cmd |-> Plain]
MCFlush == [op |-> "flush"]
MCBegin(opened) == [op |-> "chain_begin", files |-> opened]
MCChain(cmd) == [op |-> "chain_cmd", cmd |-> cmd, err2out |-> {}]
MCChainBoth(cmd) == [op |-> "chain_cmd", cmd |-> cmd, err2out |-> {File("stderr")}]
MCEnd(async, opened) == [op |-> "chain_end", async |-> async, files |-> opened]

MCOtherPrograms ==
    {<<MCRun(TRUE, {}), MCRun(TRUE, {File("stdout")}), MCRun(TRUE, {}), MCFlush>>,
     <<MCStart, MCStart, MCStart, MCRun(FALSE, {File("stdin"), File("stderr")}), MCFlush>>,
     <<MCBegin({}), MCChain(Source), MCChainBoth(Filter), MCChainBoth(Sink),
       MCEnd(FALSE, {File("stderr")})>>,
     <<MCRun(TRUE, {}), MCRun(TRUE, {}), MCBegin({File("stdin")}), MCChain(Filter),
       MCChain(Plain), MCEnd(TRUE, {File("stdout")}), MCFlush>>,
     <<MCBegin({File("stdin")}), MCEnd(FALSE, {})>>}

\* They keep to what the properties ask of drivers.
ASSUME DriversAssumption ==
    \A g \in MCOtherPrograms : Chained(g) /\ Flushed(g) /\ Unmixed(g)
=============================================================================
