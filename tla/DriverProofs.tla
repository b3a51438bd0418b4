---------------------------- MODULE DriverProofs ----------------------------
(***************************************************************************)
(* What the process part of nob.h promises to any driver, whichever of its *)
(* calls fail.  The writing end of a pipe is held by its writer alone:     *)
(* this rests on the driver's never keeping an end it has given away over  *)
(* the return from a call.  Under what nob.h asks of the calls (Procs:     *)
(* Chained, Flushed, Unmixed) nothing stays open, no failure is lost, and  *)
(* the pool keeps its bound; nob.c's own programs keep to all three.       *)
(*                                                                         *)
(* Of nob.c itself: no process of it is left running when it exits, and a  *)
(* run that succeeds has used nothing that earlier runs left behind.  Its  *)
(* invariant says how far the run has come, that only the process it waits *)
(* for can be running, and that all it has made is of the present edition. *)
(***************************************************************************)
EXTENDS Build, TLAPS, FiniteSetTheorems

FileOps == {"run", "chain_begin", "chain_end"}

NobCalls ==
    UNION {{g[i] : i \in 1..Len(g)} : g \in {build_test, build, clean}}
AllCalls == OtherCalls \cup NobCalls \cup {[op |-> "flush"]}
AllCommands == {c.cmd : c \in AllCalls}
AllFiles == UNION {c.files : c \in {d \in AllCalls : d.op \in FileOps}}
Merges == {{}} \cup {c.err2out : c \in AllCalls}

\* Whatever a driver can hold open.
Things == AllFiles \cup {ReadEnd(p) : p \in Nat} \cup {WriteEnd(p) : p \in Nat}

AnyChildren ==
    [cmd : AllCommands, input : SUBSET Things, piped : BOOLEAN, holds : SUBSET Things,
     async : {c.async : c \in AllCalls} \cup BOOLEAN,
     state : {"running", "ended", "reaped"}, ok : BOOLEAN]

DriverTypes ==
    /\ todo \in Seq(AllCalls) /\ (exit = "none" => todo # <<>>)
    /\ chain \in [cmd : Seq(AllCommands), fdin : SUBSET Things, err2out : Merges]
    /\ fds \subseteq Things

\* The driver holds no writing end, a process no other's.
OwnEnds ==
    /\ \A p \in Nat : WriteEnd(p) \notin fds
    /\ \A q \in Pids : \A p \in Nat : WriteEnd(p) \in children[q].holds => p = q

PipesInv == DriverTypes /\ children \in Seq(AnyChildren) /\ OwnEnds

----------------------------------------------------------------------------
(* Calls *)

LEMMA NobProgramsHaveCalls ==
  ASSUME NEW g \in {build_test, build, clean}
  PROVE  g \in Seq(NobCalls) /\ g # <<>>
<1>1. \A i \in 1..Len(g) : g[i] \in NobCalls
  BY DEF NobCalls
<1>2. CASE g = build_test
  <2> DEFINE S == {mkdir, Compile("impl.o"), Compile("mcp.o"), Compile("odoo.o"),
                   Run(Command("tests", Objects)), Run(Command("none", {"tests"}))}
  <2>1. g \in Seq(S) /\ g # <<>>
    BY <1>2 DEF build_test
  <2> QED BY <1>1, <2>1
<1>3. CASE g = build
  <2> DEFINE S == {mkdir, Run(Command("TARGET", {}))}
  <2>1. g \in Seq(S) /\ g # <<>>
    BY <1>3 DEF build
  <2> QED BY <1>1, <2>1
<1>4. CASE g = clean
  <2> DEFINE S == {[op |-> "clean"]}
  <2>1. g \in Seq(S) /\ g # <<>>
    BY <1>4 DEF clean
  <2> QED BY <1>1, <2>1
<1> QED BY <1>2, <1>3, <1>4

LEMMA ProgramsHaveCalls ==
  ASSUME NEW g \in Programs
  PROVE  g \in Seq(AllCalls) /\ g # <<>>
<1>1. g \in Seq(OtherCalls) \/ g \in Seq(NobCalls)
  BY NobProgramsHaveCalls, OtherProgramsAssumption DEF Programs
<1>2. g # <<>>
  BY NobProgramsHaveCalls, OtherProgramsAssumption DEF Programs
<1> QED BY <1>1, <1>2 DEF AllCalls

\* No file that a call opens is the end of a pipe.
LEMMA FilesAreFiles ==
  ASSUME NEW c \in AllCalls, c.op \in FileOps
  PROVE  /\ c.files \subseteq Things
         /\ \A p \in Nat : WriteEnd(p) \notin c.files /\ ReadEnd(p) \notin c.files
<1>1. c.files \subseteq Things
  BY DEF Things, AllFiles
<1>2. \A f \in c.files : f[1] = "file"
  <2>1. CASE c \in OtherCalls
    BY <2>1, OtherProgramsAssumption DEF FileOps
  <2>2. CASE c \in NobCalls
    <3>0. PICK g \in {build_test, build, clean} : \E i \in 1..Len(g) : c = g[i]
      BY <2>2 DEF NobCalls
    <3>1. PICK i \in 1..Len(g) : c = g[i]
      BY <3>0
    <3>2. c.files = {}
      <4>1. \A cmd : Run(cmd).files = {}
        BY DEF Run
      <4>2. mkdir.op = "mkdir"
        BY DEF mkdir
      <4>3. CASE g = build_test
        <5>1. \/ c = mkdir \/ c = Compile("impl.o") \/ c = Compile("mcp.o")
              \/ c = Compile("odoo.o") \/ c = Run(Command("tests", Objects))
              \/ c = Run(Command("none", {"tests"}))
          BY <3>1, <4>3 DEF build_test
        <5> QED BY <4>1, <4>2, <5>1 DEF Compile, FileOps
      <4>4. CASE g = build
        <5>1. c = mkdir \/ c = Run(Command("TARGET", {}))
          BY <3>1, <4>4 DEF build
        <5> QED BY <4>1, <4>2, <5>1 DEF FileOps
      <4>5. CASE g = clean
        <5>1. c = [op |-> "clean"]
          BY <3>1, <4>5 DEF clean
        <5> QED BY <5>1 DEF FileOps
      <4> QED BY <3>1, <4>3, <4>4, <4>5
    <3> QED BY <3>2
  <2>3. CASE c = [op |-> "flush"]
    BY <2>3 DEF FileOps
  <2> QED BY <2>1, <2>2, <2>3 DEF AllCalls
<1>3. \A p : (WriteEnd(p))[1] = "write" /\ (ReadEnd(p))[1] = "read"
  BY DEF WriteEnd, ReadEnd
<1> QED BY <1>1, <1>2, <1>3

LEMMA TheCallOfAll ==
  ASSUME DriverTypes, exit = "none"
  PROVE  Call \in AllCalls /\ (Call.op \in {"chain_cmd", "run", "start"} => Call.cmd \in AllCommands)
<1>1. todo \in Seq(AllCalls) /\ todo # <<>>
  BY DEF DriverTypes
<1>2. Call \in AllCalls
  BY <1>1 DEF Call
<1> QED BY <1>2 DEF AllCommands

LEMMA ReturnTypes ==
  ASSUME DriverTypes, exit = "none", NEW ok, Return(ok)
  PROVE  todo' \in Seq(AllCalls) /\ (exit' = "none" => todo' # <<>>)
<1>1. todo \in Seq(AllCalls) /\ todo # <<>>
  BY DEF DriverTypes
<1>2. CASE ok
  <2>1. todo' = Tail(todo) /\ (exit' = "none" => Len(todo) # 1)
    BY <1>2 DEF Return
  <2>2. Tail(todo) \in Seq(AllCalls) /\ Len(Tail(todo)) = Len(todo) - 1 /\ Len(todo) \in Nat
    BY <1>1
  <2>3. Len(todo) # 1 => Len(Tail(todo)) # 0
    BY <2>2
  <2> QED BY <2>1, <2>2, <2>3
<1>3. CASE ~ok
  BY <1>3 DEF Return
<1> QED BY <1>2, <1>3

----------------------------------------------------------------------------
(* Processes *)

\* A process is added that holds what the driver holds, files, and its own end.
LEMMA ChildAdded ==
  ASSUME children \in Seq(AnyChildren), OwnEnds, NEW c \in AnyChildren,
         nob__cmd_start_process(c),
         \A p \in Nat : WriteEnd(p) \in c.holds => p = Pid
  PROVE  /\ children' \in Seq(AnyChildren)
         /\ \A q \in Pids' : \A p \in Nat : WriteEnd(p) \in children'[q].holds => p = q
<1>1. /\ children' \in Seq(AnyChildren) /\ Len(children') = Len(children) + 1
      /\ children'[Len(children) + 1] = c
      /\ \A q \in 1..Len(children) : children'[q] = children[q]
  BY DEF nob__cmd_start_process
<1>2. ASSUME NEW q \in 1..Len(children')
      PROVE  \A p \in Nat : WriteEnd(p) \in children'[q].holds => p = q
  <2>1. CASE q = Len(children) + 1
    BY <1>1, <2>1 DEF Pid
  <2>2. CASE q # Len(children) + 1
    <3>1. q \in 1..Len(children)
      BY <1>1, <2>2
    <3> QED BY <1>1, <3>1 DEF OwnEnds, Pids
  <2> QED BY <2>1, <2>2
<1> QED BY <1>1, <1>2 DEF Pids

\* A process that ends or is waited for holds what it held.
LEMMA ChildMoves ==
  ASSUME children \in Seq(AnyChildren), OwnEnds, NEW p,
         \/ Reap(p)
         \/ \E ok \in BOOLEAN :
              children' = [children EXCEPT ![p].state = "ended", ![p].ok = ok]
  PROVE  /\ children' \in Seq(AnyChildren)
         /\ \A q \in Pids' : \A k \in Nat : WriteEnd(k) \in children'[q].holds => k = q
<1>1. CASE p \in 1..Len(children)
  <2>1. children[p] \in AnyChildren
    BY <1>1
  <2>2. PICK c \in AnyChildren : children' = [children EXCEPT ![p] = c] /\ c.holds = children[p].holds
    <3>1. CASE Reap(p)
      <4>1. [children[p] EXCEPT !.state = "reaped"] \in AnyChildren
        BY <2>1 DEF AnyChildren
      <4>2. [children[p] EXCEPT !.state = "reaped"].holds = children[p].holds
        BY <2>1 DEF AnyChildren
      <4> QED BY <1>1, <3>1, <4>1, <4>2 DEF Reap
    <3>2. ASSUME NEW ok \in BOOLEAN,
                 children' = [children EXCEPT ![p].state = "ended", ![p].ok = ok]
          PROVE  \E c \in AnyChildren :
                   children' = [children EXCEPT ![p] = c] /\ c.holds = children[p].holds
      <4> DEFINE c == [children[p] EXCEPT !.state = "ended", !.ok = ok]
      <4>1. c \in AnyChildren /\ c.holds = children[p].holds
        BY <2>1 DEF AnyChildren
      <4>2. children' = [children EXCEPT ![p] = c]
        BY <1>1, <2>1, <3>2
      <4> QED BY <4>1, <4>2
    <3> QED BY <3>1, <3>2
  <2>3. /\ children' \in Seq(AnyChildren) /\ Len(children') = Len(children)
        /\ \A q \in 1..Len(children) : children'[q].holds = children[q].holds
    BY <1>1, <2>2
  <2> QED BY <2>3 DEF OwnEnds, Pids
<1>2. CASE p \notin 1..Len(children)
  <2>1. children' = children
    BY <1>2 DEF Reap
  <2> QED BY <2>1 DEF OwnEnds, Pids
<1> QED BY <1>1, <1>2

----------------------------------------------------------------------------
(* Each call keeps the invariant *)

\* The three parts together.
LEMMA Together ==
  ASSUME todo' \in Seq(AllCalls), exit' = "none" => todo' # <<>>,
         chain' \in [cmd : Seq(AllCommands), fdin : SUBSET Things, err2out : Merges],
         fds' \subseteq Things, \A p \in Nat : WriteEnd(p) \notin fds',
         children' \in Seq(AnyChildren),
         \A q \in Pids' : \A p \in Nat : WriteEnd(p) \in children'[q].holds => p = q
  PROVE  PipesInv'
BY DEF PipesInv, DriverTypes, OwnEnds

LEMMA ChildrenStand ==
  ASSUME PipesInv, children' = children
  PROVE  /\ children' \in Seq(AnyChildren)
         /\ \A q \in Pids' : \A p \in Nat : WriteEnd(p) \in children'[q].holds => p = q
BY DEF PipesInv, OwnEnds, Pids

LEMMA InvFacts ==
  ASSUME PipesInv
  PROVE  /\ todo \in Seq(AllCalls) /\ (exit = "none" => todo # <<>>)
         /\ chain \in [cmd : Seq(AllCommands), fdin : SUBSET Things, err2out : Merges]
         /\ fds \subseteq Things /\ \A p \in Nat : WriteEnd(p) \notin fds
         /\ children \in Seq(AnyChildren) /\ OwnEnds /\ DriverTypes
BY DEF PipesInv, DriverTypes, OwnEnds

LEMMA OpenedFiles ==
  Opened \subseteq Call.files /\ (Call.op # "chain_end" => Opened = Call.files)
BY DEF Opened

\* The command of a chain is set or taken.
LEMMA ChainCommand ==
  ASSUME chain \in [cmd : Seq(AllCommands), fdin : SUBSET Things, err2out : Merges],
         NEW s \in Seq(AllCommands), chain' = [chain EXCEPT !.cmd = s]
  PROVE  chain' \in [cmd : Seq(AllCommands), fdin : SUBSET Things, err2out : Merges]
OBVIOUS

\* A call that starts nothing: it closes what it may, waits for a process or
\* not, and returns or goes on.
LEMMA QuietKeeps ==
  ASSUME PipesInv, exit = "none", Stay \/ Return(TRUE) \/ Return(FALSE) \/ Return(success),
         fds' \subseteq fds, chain' = chain \/ chain' = [chain EXCEPT !.cmd = <<>>],
         children' = children \/ \E p : Reap(p)
  PROVE  PipesInv'
<1>1. todo' \in Seq(AllCalls) /\ (exit' = "none" => todo' # <<>>)
  BY InvFacts, ReturnTypes DEF Stay
<1>2. fds' \subseteq Things /\ \A p \in Nat : WriteEnd(p) \notin fds'
  BY InvFacts
<1>3. chain' \in [cmd : Seq(AllCommands), fdin : SUBSET Things, err2out : Merges]
  <2>1. <<>> \in Seq(AllCommands)
    OBVIOUS
  <2> QED BY <2>1, InvFacts, ChainCommand
<1>4. /\ children' \in Seq(AnyChildren)
      /\ \A q \in Pids' : \A p \in Nat : WriteEnd(p) \in children'[q].holds => p = q
  BY InvFacts, ChildrenStand, ChildMoves
<1> QED BY <1>1, <1>2, <1>3, <1>4, Together

LEMMA QuietCalls ==
  ASSUME PipesInv,
         \/ Poll \/ nob_proc_wait \/ nob_procs_wait \/ nob_procs_flush
         \/ ChainBroken \/ ChainEndless
  PROVE  PipesInv'
<1>1. exit = "none"
  BY DEF Poll, nob_proc_wait, nob_procs_wait, nob_procs_flush, ChainBroken, ChainEndless, Calling
<1>2. CASE Poll
  <2>1. Stay \/ Return(FALSE)
    BY <1>2 DEF Poll
  <2>2. fds' \subseteq fds /\ chain' = chain
    BY <1>2 DEF Poll, Close
  <2>3. children' = children \/ \E p : Reap(p)
    BY <1>2 DEF Poll
  <2> QED BY <1>1, <2>1, <2>2, <2>3, QuietKeeps
<1>3. CASE nob_proc_wait
  <2>1. Return(TRUE) \/ Return(FALSE)
    <3>1. EndedWell(Len(children)) \in BOOLEAN
      BY DEF EndedWell
    <3> QED BY <1>3, <3>1 DEF nob_proc_wait
  <2>2. fds' \subseteq fds /\ chain' = chain /\ Reap(Len(children))
    BY <1>3 DEF nob_proc_wait, Close
  <2> QED BY <1>1, <2>1, <2>2, QuietKeeps
<1>4. CASE nob_procs_wait
  <2>1. Stay /\ fds' = fds /\ chain' = chain /\ (children' = children \/ \E p : Reap(p))
    BY <1>4 DEF nob_procs_wait, WaitFor
  <2> QED BY <1>1, <2>1, QuietKeeps
<1>5. CASE nob_procs_flush
  BY <1>1, <1>5, QuietKeeps DEF nob_procs_flush
<1>6. CASE ChainBroken
  <2>1. /\ Return(FALSE) /\ children' = children /\ fds' \subseteq fds
        /\ chain' = chain \/ chain' = [chain EXCEPT !.cmd = <<>>]
    BY <1>6 DEF ChainBroken, Close
  <2> QED BY <1>1, <2>1, QuietKeeps
<1>7. CASE ChainEndless
  <2>1. /\ Return(TRUE) \/ Return(FALSE)
        /\ children' = children /\ fds' \subseteq fds
        /\ chain' = chain \/ chain' = [chain EXCEPT !.cmd = <<>>]
    BY <1>7 DEF ChainEndless, Close
  <2> QED BY <1>1, <2>1, QuietKeeps
<1> QED BY <1>2, <1>3, <1>4, <1>5, <1>6, <1>7

LEMMA CallAsync == Call \in AllCalls => Call.async \in {c.async : c \in AllCalls} \cup BOOLEAN
OBVIOUS

LEMMA StartedTypes ==
  ASSUME PipesInv, exit = "none", Started
  PROVE  todo' \in Seq(AllCalls) /\ (exit' = "none" => todo' # <<>>)
BY InvFacts, ReturnTypes DEF Started, Stay

LEMMA RunKeepsPipes ==
  ASSUME PipesInv, nob_cmd_run_opt
  PROVE  PipesInv'
<1>1. exit = "none" /\ chain' = chain /\ Call.op = "run"
  BY DEF nob_cmd_run_opt, Calling
<1>2. Call \in AllCalls /\ Call.cmd \in AllCommands
  BY <1>1, InvFacts, TheCallOfAll
<1>3. Call.files \subseteq Things /\ \A p \in Nat : WriteEnd(p) \notin Call.files
  BY <1>1, <1>2, FilesAreFiles DEF FileOps
<1>4. CASE Return(FALSE) /\ UNCHANGED <<children, pool, fds>>
  BY <1>1, <1>4, QuietKeeps
<1>5. CASE /\ nob__cmd_start_process(Child(Call.cmd, {}, FALSE, fds \cup Call.files, Call.async))
           /\ Started
           /\ fds' = IF Call.async THEN fds ELSE fds \cup Call.files
  <2> DEFINE holds == fds \cup Call.files
             c == Child(Call.cmd, {}, FALSE, holds, Call.async)
  <2>1. holds \subseteq Things /\ \A p \in Nat : WriteEnd(p) \notin holds
    BY <1>3, InvFacts
  <2>2. nob__cmd_start_process(c)
    BY <1>5
  <2>3. fds' \subseteq holds
    BY <1>5
  <2> HIDE DEF holds
  <2>3a. c = [cmd |-> Call.cmd, input |-> {}, piped |-> FALSE, holds |-> holds,
              async |-> Call.async, state |-> "running", ok |-> FALSE]
    BY DEF Child
  <2> HIDE DEF c
  <2>4. c \in AnyChildren /\ c.holds = holds
    BY <1>2, <2>1, <2>3a, CallAsync DEF AnyChildren
  <2>5. /\ children' \in Seq(AnyChildren)
        /\ \A q \in Pids' : \A p \in Nat : WriteEnd(p) \in children'[q].holds => p = q
    BY <2>1, <2>2, <2>4, InvFacts, ChildAdded
  <2> QED BY <1>1, <1>5, <2>1, <2>3, <2>5, InvFacts, StartedTypes, Together
<1> QED BY <1>4, <1>5 DEF nob_cmd_run_opt

LEMMA StartKeepsPipes ==
  ASSUME PipesInv, nob_procs_append_with_flush
  PROVE  PipesInv'
<1>1. exit = "none" /\ chain' = chain /\ fds' = fds /\ Call.op = "start"
  BY DEF nob_procs_append_with_flush, Calling
<1>2. Call \in AllCalls /\ Call.cmd \in AllCommands
  BY <1>1, InvFacts, TheCallOfAll
<1>3. todo' \in Seq(AllCalls) /\ (exit' = "none" => todo' # <<>>)
  <2>1. CASE Return(TRUE)
    BY <1>1, <2>1, InvFacts, ReturnTypes
  <2>2. CASE todo' = <<[op |-> "flush"]>> \o Tail(todo)
    <3>1. [op |-> "flush"] \in AllCalls
      BY DEF AllCalls
    <3>2. <<[op |-> "flush"]>> \in Seq(AllCalls) /\ Tail(todo) \in Seq(AllCalls)
      BY <1>1, <3>1, InvFacts
    <3>3. todo' \in Seq(AllCalls) /\ Len(todo') = 1 + Len(Tail(todo))
      BY <2>2, <3>2
    <3> QED BY <3>2, <3>3
  <2> QED BY <2>1, <2>2 DEF nob_procs_append_with_flush
<1>4. /\ children' \in Seq(AnyChildren)
      /\ \A q \in Pids' : \A p \in Nat : WriteEnd(p) \in children'[q].holds => p = q
  <2>1. CASE UNCHANGED children
    BY <2>1, ChildrenStand
  <2>2. CASE nob__cmd_start_process(Child(Call.cmd, {}, FALSE, fds, TRUE))
    <3> DEFINE c == Child(Call.cmd, {}, FALSE, fds, TRUE)
    <3>1. nob__cmd_start_process(c)
      BY <2>2
    <3>1a. c = [cmd |-> Call.cmd, input |-> {}, piped |-> FALSE, holds |-> fds,
                async |-> TRUE, state |-> "running", ok |-> FALSE]
      BY DEF Child
    <3> HIDE DEF c
    <3>2. c \in AnyChildren /\ c.holds = fds
      BY <1>2, <3>1a, InvFacts DEF AnyChildren
    <3> QED BY <3>1, <3>2, InvFacts, ChildAdded
  <2> QED BY <2>1, <2>2 DEF nob_procs_append_with_flush
<1> QED BY <1>1, <1>3, <1>4, InvFacts, Together

LEMMA ChainBeginKeepsPipes ==
  ASSUME PipesInv, nob_chain_begin_opt
  PROVE  PipesInv'
<1>1. exit = "none" /\ children' = children /\ Call.op = "chain_begin"
  BY DEF nob_chain_begin_opt, Calling
<1>2. Call.files \subseteq Things /\ \A p \in Nat : WriteEnd(p) \notin Call.files
  BY <1>1, InvFacts, TheCallOfAll, FilesAreFiles DEF FileOps
<1>3. Return(TRUE) \/ Return(FALSE)
  BY DEF nob_chain_begin_opt
<1>4. todo' \in Seq(AllCalls) /\ (exit' = "none" => todo' # <<>>)
  BY <1>1, <1>3, InvFacts, ReturnTypes
<1>5. fds' \subseteq Things /\ \A p \in Nat : WriteEnd(p) \notin fds'
  BY <1>2, InvFacts DEF nob_chain_begin_opt
<1>6. chain' \in [cmd : Seq(AllCommands), fdin : SUBSET Things, err2out : Merges]
  <2>1. <<>> \in Seq(AllCommands)
    OBVIOUS
  <2>2. PICK E \in SUBSET Things : chain' = [cmd |-> <<>>, fdin |-> E, err2out |-> {}]
    <3>1. chain' = NoChain \/ chain' = [cmd |-> <<>>, fdin |-> Call.files, err2out |-> {}]
      BY DEF nob_chain_begin_opt, NoChain
    <3>2. {} \in SUBSET Things /\ Call.files \in SUBSET Things
      BY <1>2
    <3> QED BY <3>1, <3>2 DEF NoChain
  <2>3. {} \in Merges
    BY DEF Merges
  <2> QED BY <2>1, <2>2, <2>3
<1> QED BY <1>1, <1>4, <1>5, <1>6, ChildrenStand, Together

LEMMA ChainFirstKeepsPipes ==
  ASSUME PipesInv, ChainFirst
  PROVE  PipesInv'
<1>1. /\ exit = "none" /\ children' = children /\ fds' = fds /\ Return(TRUE)
      /\ Call.op = "chain_cmd"
      /\ chain' = [chain EXCEPT !.cmd = <<Call.cmd>>, !.err2out = Call.err2out]
  BY DEF ChainFirst, Calling
<1>2. <<Call.cmd>> \in Seq(AllCommands) /\ Call.err2out \in Merges
  <2>1. Call \in AllCalls /\ Call.cmd \in AllCommands
    BY <1>1, InvFacts, TheCallOfAll
  <2>2. <<Call.cmd>> \in Seq(AllCommands)
    BY <2>1
  <2> QED BY <2>1, <2>2 DEF Merges
<1>3. chain' \in [cmd : Seq(AllCommands), fdin : SUBSET Things, err2out : Merges]
  <2> DEFINE s == <<Call.cmd>>
             e == Call.err2out
  <2>1. s \in Seq(AllCommands) /\ e \in Merges
    BY <1>2
  <2>2. chain' = [chain EXCEPT !.cmd = s, !.err2out = e]
    BY <1>1
  <2> HIDE DEF s, e
  <2> QED BY <2>1, <2>2, InvFacts
<1>4. todo' \in Seq(AllCalls) /\ (exit' = "none" => todo' # <<>>)
  BY <1>1, InvFacts, ReturnTypes
<1> QED BY <1>1, <1>3, <1>4, InvFacts, ChildrenStand, Together

LEMMA ChainNextKeepsPipes ==
  ASSUME PipesInv, ChainNext
  PROVE  PipesInv'
<1> DEFINE ends  == {ReadEnd(Pid), WriteEnd(Pid)}
           holds == fds \cup ends
           c     == Child(chain.cmd[1], chain.fdin, TRUE, holds, FALSE)
<1>1. /\ exit = "none" /\ Call.op = "chain_cmd" /\ chain.cmd # <<>> /\ Return(TRUE)
      /\ nob__cmd_start_process(c)
      /\ fds' = holds \ (chain.fdin \cup {WriteEnd(Pid)})
      /\ chain' = [cmd |-> <<Call.cmd>>, fdin |-> {ReadEnd(Pid)}, err2out |-> Call.err2out]
  BY DEF ChainNext, Calling, ChainCloses
<1>2. Pid \in Nat
  BY InvFacts DEF Pid
<1>3. \A p \in Nat : /\ WriteEnd(p) # ReadEnd(Pid)
                     /\ WriteEnd(p) = WriteEnd(Pid) => p = Pid
  BY DEF ReadEnd, WriteEnd
<1>4. holds \subseteq Things /\ ReadEnd(Pid) \in Things
  BY <1>2, InvFacts DEF Things
<1>5. \A p \in Nat : WriteEnd(p) \in holds => p = Pid
  BY <1>3, InvFacts
<1>6. fds' \subseteq Things /\ \A p \in Nat : WriteEnd(p) \notin fds'
  BY <1>1, <1>4, <1>5
<1> HIDE DEF holds
<1>6a. c = [cmd |-> chain.cmd[1], input |-> chain.fdin, piped |-> TRUE, holds |-> holds,
            async |-> FALSE, state |-> "running", ok |-> FALSE]
  BY DEF Child
<1> HIDE DEF c
<1>7. c \in AnyChildren /\ c.holds = holds
  <2>1. chain.cmd[1] \in AllCommands /\ chain.fdin \in SUBSET Things
    BY <1>1, InvFacts
  <2> QED BY <1>4, <1>6a, <2>1 DEF AnyChildren
<1>8. /\ children' \in Seq(AnyChildren)
      /\ \A q \in Pids' : \A p \in Nat : WriteEnd(p) \in children'[q].holds => p = q
  BY <1>1, <1>5, <1>7, InvFacts, ChildAdded
<1>9. chain' \in [cmd : Seq(AllCommands), fdin : SUBSET Things, err2out : Merges]
  <2>1. Call \in AllCalls /\ Call.cmd \in AllCommands
    BY <1>1, InvFacts, TheCallOfAll
  <2>2. <<Call.cmd>> \in Seq(AllCommands)
    BY <2>1
  <2>3. Call.err2out \in Merges
    BY <2>1 DEF Merges
  <2> QED BY <1>1, <1>4, <2>2, <2>3
<1>10. todo' \in Seq(AllCalls) /\ (exit' = "none" => todo' # <<>>)
  BY <1>1, InvFacts, ReturnTypes
<1> QED BY <1>6, <1>8, <1>9, <1>10, Together

LEMMA ChainEndKeepsPipes ==
  ASSUME PipesInv, nob_chain_end_opt
  PROVE  PipesInv'
<1> DEFINE holds == fds \cup Opened
           c     == Child(chain.cmd[1], chain.fdin, FALSE, holds, Call.async)
<1>1. /\ exit = "none" /\ Call.op = "chain_end" /\ chain.cmd # <<>> /\ Started
      /\ nob__cmd_start_process(c)
      /\ chain' = [chain EXCEPT !.cmd = <<>>]
      /\ fds' \subseteq holds
  BY DEF nob_chain_end_opt, Calling, Close
<1>2. Call \in AllCalls
  BY <1>1, InvFacts, TheCallOfAll
<1>3. holds \subseteq Things /\ \A p \in Nat : WriteEnd(p) \notin holds
  <2>1. Call.files \subseteq Things /\ \A p \in Nat : WriteEnd(p) \notin Call.files
    BY <1>1, <1>2, FilesAreFiles DEF FileOps
  <2> QED BY <2>1, InvFacts, OpenedFiles
<1> HIDE DEF holds
<1>3a. c = [cmd |-> chain.cmd[1], input |-> chain.fdin, piped |-> FALSE, holds |-> holds,
            async |-> Call.async, state |-> "running", ok |-> FALSE]
  BY DEF Child
<1> HIDE DEF c
<1>4. c \in AnyChildren /\ c.holds = holds
  <2>1. chain.cmd[1] \in AllCommands /\ chain.fdin \in SUBSET Things
    BY <1>1, InvFacts
  <2> QED BY <1>2, <1>3, <1>3a, <2>1, CallAsync DEF AnyChildren
<1>5. /\ children' \in Seq(AnyChildren)
      /\ \A q \in Pids' : \A p \in Nat : WriteEnd(p) \in children'[q].holds => p = q
  BY <1>1, <1>3, <1>4, InvFacts, ChildAdded
<1>6. chain' \in [cmd : Seq(AllCommands), fdin : SUBSET Things, err2out : Merges]
  <2>1. <<>> \in Seq(AllCommands)
    OBVIOUS
  <2> QED BY <1>1, <2>1, InvFacts, ChainCommand
<1>7. fds' \subseteq Things /\ \A p \in Nat : WriteEnd(p) \notin fds'
  BY <1>1, <1>3
<1> QED BY <1>1, <1>5, <1>6, <1>7, StartedTypes, Together

----------------------------------------------------------------------------
(* Any step *)

LEMMA DriverStepKeepsPipes ==
  ASSUME PipesInv, DriverStep
  PROVE  PipesInv'
<1>1. CASE DriverNext
  BY <1>1, QuietCalls, RunKeepsPipes, StartKeepsPipes, ChainBeginKeepsPipes,
     ChainFirstKeepsPipes, ChainNextKeepsPipes, ChainEndKeepsPipes DEF DriverNext
<1>2. CASE nob_mkdir_if_not_exists \/ do_clean
  <2>1. exit = "none" /\ Return(TRUE) /\ UNCHANGED <<children, chain, fds>>
    BY <1>2 DEF nob_mkdir_if_not_exists, do_clean, Calling
  <2> QED BY <2>1, QuietKeeps
<1> QED BY <1>1, <1>2 DEF DriverStep

LEMMA ProcessKeepsPipes ==
  ASSUME PipesInv, NEW p, Works(p) \/ Breaks(p)
  PROVE  PipesInv'
<1>1. PICK ok \in BOOLEAN : Ends(p, ok)
  BY DEF Works, Breaks, Finish, Fail
<1>2. UNCHANGED <<todo, exit, chain, fds>>
  BY <1>1 DEF Ends, driver
<1>3. /\ children' \in Seq(AnyChildren)
      /\ \A q \in Pids' : \A k \in Nat : WriteEnd(k) \in children'[q].holds => k = q
  BY <1>1, InvFacts, ChildMoves DEF Ends
<1> QED BY <1>2, <1>3, InvFacts, Together

LEMMA FreshRun ==
  ASSUME NEW g \in Programs
  PROVE  /\ g \in Seq(AllCalls) /\ g # <<>>
         /\ NoChain \in [cmd : Seq(AllCommands), fdin : SUBSET Things, err2out : Merges]
         /\ <<>> \in Seq(AnyChildren)
<1>1. <<>> \in Seq(AllCommands) /\ <<>> \in Seq(AnyChildren)
  OBVIOUS
<1>2. {} \in SUBSET Things /\ {} \in Merges
  BY DEF Merges
<1> QED BY <1>1, <1>2, ProgramsHaveCalls DEF NoChain

LEMMA PipesInvInit == BuildInit => PipesInv
<1> SUFFICES ASSUME BuildInit PROVE PipesInv
  OBVIOUS
<1>1. goal \in Programs /\ todo = goal /\ chain = NoChain /\ fds = {} /\ children = <<>>
  BY DEF BuildInit, ProcsInit
<1> QED BY <1>1, FreshRun DEF PipesInv, DriverTypes, OwnEnds, Pids

LEMMA PipesInvNext == PipesInv /\ [Next]_buildVars => PipesInv'
<1> SUFFICES ASSUME PipesInv, [Next]_buildVars PROVE PipesInv'
  OBVIOUS
<1>1. CASE UNCHANGED buildVars \/ Edit
  <2>1. UNCHANGED <<todo, exit, chain, fds, children>>
    BY <1>1 DEF buildVars, procVars, driver, Edit
  <2> QED BY <2>1, InvFacts, ChildrenStand, Together
<1>2. CASE Invoke
  <2>1. /\ goal' \in Programs /\ todo' = goal' /\ chain' = NoChain /\ fds' = {}
        /\ children' = <<>>
    BY <1>2 DEF Invoke
  <2>2. \A q \in Pids' : FALSE
    BY <2>1 DEF Pids
  <2> QED BY <2>1, <2>2, FreshRun, Together
<1> QED BY <1>1, <1>2, DriverStepKeepsPipes, ProcessKeepsPipes DEF Next

\* In every driver that makes the calls of nob.h, in any order and whichever of
\* them fail, the writing end of a pipe is held by its writer alone: its reader
\* sees the end of the input when the writer ends.
THEOREM DriversPipesEnd == Spec => []PipesEnd
<1>1. PipesInv => PipesEnd
  <2> SUFFICES ASSUME PipesInv, NEW p \in Pids
               PROVE  /\ WriteEnd(p) \notin fds
                      /\ \A q \in Pids : q # p => WriteEnd(p) \notin children[q].holds
    BY DEF PipesEnd
  <2>1. p \in Nat
    BY DEF Pids
  <2> QED BY <2>1 DEF PipesInv, OwnEnds
<1> QED BY <1>1, PipesInvInit, PipesInvNext, PTL DEF Spec

----------------------------------------------------------------------------
(* What is asked of a driver *)

\* The programs of nob.c wait for each command and open no chain.
LEMMA NobCallsPlain ==
  ASSUME NEW c \in NobCalls
  PROVE  c.op \in {"mkdir", "clean", "run"} /\ (c.op = "run" => c.async = FALSE)
<1>0. PICK g \in {build_test, build, clean} : \E i \in 1..Len(g) : c = g[i]
  BY DEF NobCalls
<1>1. PICK i \in 1..Len(g) : c = g[i]
  BY <1>0
<1>2. \A cmd : Run(cmd).op = "run" /\ Run(cmd).async = FALSE
  BY DEF Run
<1>3. mkdir.op = "mkdir"
  BY DEF mkdir
<1>4. CASE g = build_test
  <2>1. \/ c = mkdir \/ c = Compile("impl.o") \/ c = Compile("mcp.o")
        \/ c = Compile("odoo.o") \/ c = Run(Command("tests", Objects))
        \/ c = Run(Command("none", {"tests"}))
    BY <1>1, <1>4 DEF build_test
  <2> QED BY <1>2, <1>3, <2>1 DEF Compile
<1>5. CASE g = build
  <2>1. c = mkdir \/ c = Run(Command("TARGET", {}))
    BY <1>1, <1>5 DEF build
  <2> QED BY <1>2, <1>3, <2>1
<1>6. CASE g = clean
  <2>1. c = [op |-> "clean"]
    BY <1>1, <1>6 DEF clean
  <2> QED BY <2>1
<1> QED BY <1>0, <1>4, <1>5, <1>6

LEMMA NobKeepsTo ==
  ASSUME NEW g \in {build_test, build, clean}
  PROVE  Chained(g) /\ Flushed(g) /\ Unmixed(g)
<1>1. g \in Seq(NobCalls) /\ Len(g) \in Nat \ {0}
  BY NobProgramsHaveCalls
<1>2. \A i \in 1..Len(g) : g[i] \in NobCalls
  BY <1>1
<1>3. \A i \in 1..Len(g) : ~GoesOn(g[i]) /\ ~Continues(g[i]) /\ ~Pooled(g[i]) /\ g[i].op # "start"
  BY <1>2, NobCallsPlain DEF GoesOn, Continues, Pooled, Polled
<1>4. 1 \in 1..Len(g) /\ Head(g) = g[1] /\ \A i \in 1..Len(g) : i < Len(g) => i + 1 \in 1..Len(g)
  BY <1>1
<1>5. Chained(g)
  BY <1>3, <1>4 DEF Chained, Linked
<1> QED BY <1>3, <1>5 DEF Flushed, Unmixed, NoneStarted

\* The rest of a program: its calls move up by one.
LEMMA TailCalls ==
  ASSUME NEW s \in Seq(AllCalls), s # <<>>
  PROVE  /\ Tail(s) \in Seq(AllCalls) /\ Len(Tail(s)) = Len(s) - 1 /\ Len(s) \in Nat \ {0}
         /\ Head(s) = s[1] /\ 1 \in 1..Len(s)
         /\ \A i \in 1..Len(Tail(s)) : Tail(s)[i] = s[i + 1] /\ i + 1 \in 1..Len(s)
         /\ \A i \in 2..Len(s) : i - 1 \in 1..Len(Tail(s)) /\ Tail(s)[i - 1] = s[i]
         /\ Len(s) > 1 => Head(Tail(s)) = s[2]
<1>1. Tail(s) \in Seq(AllCalls) /\ Len(Tail(s)) = Len(s) - 1 /\ Len(s) \in Nat \ {0}
  OBVIOUS
<1>2. \A i \in 1..Len(Tail(s)) : Tail(s)[i] = s[i + 1] /\ i + 1 \in 1..Len(s)
  BY <1>1
<1>3. \A i \in 2..Len(s) : i - 1 \in 1..Len(Tail(s)) /\ Tail(s)[i - 1] = s[i]
  <2> SUFFICES ASSUME NEW i \in 2..Len(s)
               PROVE  i - 1 \in 1..Len(Tail(s)) /\ Tail(s)[i - 1] = s[i]
    OBVIOUS
  <2>1. i - 1 \in 1..Len(Tail(s)) /\ (i - 1) + 1 = i
    BY <1>1
  <2>2. Tail(s)[i - 1] = s[(i - 1) + 1]
    BY <1>2, <2>1
  <2> QED BY <2>1, <2>2
<1>4. Len(s) > 1 => Head(Tail(s)) = s[2]
  <2>1. Len(s) > 1 => 1 \in 1..Len(Tail(s)) /\ Head(Tail(s)) = Tail(s)[1]
    BY <1>1
  <2> QED BY <1>2, <2>1
<1> QED BY <1>1, <1>2, <1>3, <1>4

LEMMA LinkedTail ==
  ASSUME NEW s \in Seq(AllCalls), s # <<>>, Linked(s)
  PROVE  /\ Linked(Tail(s))
         /\ GoesOn(Head(s)) => Len(s) > 1
         /\ Len(s) > 1 => (Continues(Head(Tail(s))) <=> GoesOn(Head(s)))
<1>1. GoesOn(s[1]) <=> (1 < Len(s) /\ Continues(s[1 + 1]))
  BY TailCalls DEF Linked
<1>2. 1 + 1 = 2 /\ (1 < Len(s) <=> Len(s) > 1)
  BY TailCalls
<1>3. Linked(Tail(s))
  <2> SUFFICES ASSUME NEW i \in 1..Len(Tail(s))
               PROVE  GoesOn(Tail(s)[i]) <=> (i < Len(Tail(s)) /\ Continues(Tail(s)[i + 1]))
    BY DEF Linked
  <2>1. /\ Tail(s)[i] = s[i + 1] /\ i + 1 \in 1..Len(s)
        /\ i < Len(Tail(s)) <=> i + 1 < Len(s)
        /\ i < Len(Tail(s)) => i + 1 \in 1..Len(Tail(s))
    BY TailCalls
  <2>2. i < Len(Tail(s)) => Tail(s)[i + 1] = s[(i + 1) + 1]
    BY <2>1, TailCalls
  <2>3. GoesOn(s[i + 1]) <=> (i + 1 < Len(s) /\ Continues(s[(i + 1) + 1]))
    BY <2>1 DEF Linked
  <2> QED BY <2>1, <2>2, <2>3
<1> QED BY <1>1, <1>2, <1>3, TailCalls

----------------------------------------------------------------------------
(* What is open *)

\* Between calls a driver holds what a chain goes on with, and nothing else.
Held == IF Continues(Call) THEN chain.fdin ELSE {}

FdsInv ==
    /\ ~misclosed
    /\ exit # "none" => fds = {}
    /\ exit = "none" =>
         /\ Linked(todo)
         /\ fds = Held \cup (IF waiting THEN Opened ELSE {})
         /\ waiting => ~GoesOn(Call)
    /\ \A p \in Nat : ReadEnd(p) \in fds => p <= Len(children)

\* After a call that returned true the next one finds a chain to go on with
\* exactly if the call was part of one.
LEMMA ReturnsLinked ==
  ASSUME PipesInv, exit = "none", Linked(todo), Return(TRUE)
  PROVE  /\ ~waiting'
         /\ exit' = "none" => Linked(todo') /\ (Continues(Call') <=> GoesOn(Call))
         /\ GoesOn(Call) => exit' = "none"
         /\ exit' # "failure"
<1>1. todo \in Seq(AllCalls) /\ todo # <<>>
  BY InvFacts
<1>2. /\ todo' = Tail(todo) /\ ~waiting'
      /\ exit' = IF Len(todo) = 1 THEN "success" ELSE "none"
  BY DEF Return
<1>3. Call' = Head(Tail(todo))
  BY <1>2 DEF Call
<1>4. Len(todo) \in Nat \ {0}
  BY <1>1, TailCalls
<1>5. /\ Linked(Tail(todo))
      /\ GoesOn(Call) => Len(todo) > 1
      /\ Len(todo) > 1 => (Continues(Head(Tail(todo))) <=> GoesOn(Call))
  BY <1>1, LinkedTail DEF Call
<1>6. exit' = "none" <=> Len(todo) > 1
  <2>1. exit' = "none" <=> Len(todo) # 1
    BY <1>2
  <2>2. \A n \in Nat \ {0} : n # 1 <=> n > 1
    OBVIOUS
  <2> QED BY <1>4, <2>1, <2>2
<1>7. exit' # "failure"
  BY <1>2
<1> QED BY <1>2, <1>3, <1>5, <1>6, <1>7

\* A call that ends a chain or is not of one: nothing is left open.
LEMMA ReturnsEmpty ==
  ASSUME PipesInv, FdsInv, exit = "none", Return(TRUE) \/ Return(FALSE), ~GoesOn(Call) \/ Return(FALSE),
         fds' = {}, ~misclosed'
  PROVE  FdsInv'
<1>1. Linked(todo) /\ ~misclosed
  BY DEF FdsInv
<1>2. CASE Return(FALSE)
  <2>1. exit' = "failure"
    BY <1>2 DEF Return
  <2> QED BY <1>1, <2>1 DEF FdsInv
<1>3. CASE Return(TRUE) /\ ~GoesOn(Call)
  <2>1. exit' = "none" => Linked(todo') /\ ~Continues(Call')
    BY <1>1, <1>3, ReturnsLinked
  <2>2. ~waiting'
    BY <1>3 DEF Return
  <2> QED BY <1>1, <2>1, <2>2 DEF FdsInv, Held
<1> QED BY <1>2, <1>3

\* A call that goes on with a chain, or begins one.
LEMMA ReturnsHolding ==
  ASSUME PipesInv, FdsInv, exit = "none", Return(TRUE), GoesOn(Call),
         fds' = chain'.fdin, ~misclosed',
         \A p \in Nat : ReadEnd(p) \in fds' => p <= Len(children')
  PROVE  FdsInv'
<1>1. Linked(todo) /\ ~misclosed
  BY DEF FdsInv
<1>2. exit' = "none" /\ Linked(todo') /\ Continues(Call') /\ ~waiting'
  BY <1>1, ReturnsLinked
<1> QED BY <1>1, <1>2 DEF FdsInv, Held

\* The call goes on: it polls, or waits for the process it has started.
LEMMA StaysHolding ==
  ASSUME FdsInv, exit = "none", Stay, chain'.fdin = chain.fdin, ~misclosed',
         chain'.err2out = chain.err2out \/ Call.op # "chain_end",
         ~GoesOn(Call) \/ waiting' = waiting,
         fds' = Held \cup (IF waiting' THEN Opened ELSE {}),
         \A p \in Nat : ReadEnd(p) \in fds' => p <= Len(children')
  PROVE  FdsInv'
<1>1. Call' = Call /\ exit' = "none" /\ todo' = todo
  BY DEF Stay, Call
<1>2. Held' = Held /\ Opened' = Opened
  BY <1>1 DEF Held, Opened
<1> QED BY <1>1, <1>2 DEF FdsInv

LEMMA QuietFds ==
  ASSUME PipesInv, FdsInv, exit = "none", ~waiting, ~Continues(Call), ~GoesOn(Call),
         Return(TRUE) \/ Return(FALSE), fds' = fds, ~misclosed'
  PROVE  FdsInv'
<1>1. fds = {}
  BY DEF FdsInv, Held
<1> QED BY <1>1, ReturnsEmpty

LEMMA ChainsFields ==
  ASSUME PipesInv
  PROVE  \A s : /\ [chain EXCEPT !.cmd = s].fdin = chain.fdin
                /\ [chain EXCEPT !.cmd = s].err2out = chain.err2out
                /\ \A e : [chain EXCEPT !.cmd = s, !.err2out = e].fdin = chain.fdin
  BY InvFacts

\* Waiting for a process changes its state and no more.
LEMMA ReapFacts ==
  ASSUME PipesInv, NEW p, Reap(p)
  PROVE  /\ Len(children) \in Nat /\ Len(children') = Len(children)
         /\ \A q \in Pids :
              /\ children'[q].async = children[q].async
              /\ children'[q].piped = children[q].piped
              /\ children'[q].ok = children[q].ok
              /\ q # p => children'[q].state = children[q].state
              /\ q = p => children'[q].state = "reaped"
<1>1. children \in Seq(AnyChildren)
  BY InvFacts
<1>2. \A q \in 1..Len(children) : children[q] \in AnyChildren
  BY <1>1
<1>3. children' = [children EXCEPT ![p] = [children[p] EXCEPT !.state = "reaped"]]
  BY DEF Reap
<1>4. \A q \in Pids : children'[q] = IF q = p THEN [children[p] EXCEPT !.state = "reaped"] ELSE children[q]
  BY <1>1, <1>3 DEF Pids
<1>5. \A c \in AnyChildren :
        /\ [c EXCEPT !.state = "reaped"].async = c.async
        /\ [c EXCEPT !.state = "reaped"].piped = c.piped
        /\ [c EXCEPT !.state = "reaped"].ok = c.ok
        /\ [c EXCEPT !.state = "reaped"].state = "reaped"
  BY DEF AnyChildren
<1>6. Len(children) \in Nat /\ Len(children') = Len(children)
  BY <1>1, <1>3
<1>7. ASSUME NEW q \in Pids
      PROVE  /\ children'[q].async = children[q].async
             /\ children'[q].piped = children[q].piped
             /\ children'[q].ok = children[q].ok
             /\ q # p => children'[q].state = children[q].state
             /\ q = p => children'[q].state = "reaped"
  <2>1. children[q] \in AnyChildren
    BY <1>2 DEF Pids
  <2>2. CASE q = p
    <3>1. children'[q] = [children[q] EXCEPT !.state = "reaped"]
      BY <1>4, <2>2
    <3> QED BY <1>5, <2>1, <2>2, <3>1
  <2>3. CASE q # p
    BY <1>4, <2>3
  <2> QED BY <2>2, <2>3
<1> QED BY <1>6, <1>7

LEMMA PollFds == ASSUME PipesInv, FdsInv, Poll PROVE FdsInv'
<1>1. exit = "none" /\ ~waiting /\ Call.op \in {"run", "chain_end"} /\ chain' = chain
  BY DEF Poll, Calling
<1>2. fds = Held /\ ~GoesOn(Call)
  BY <1>1 DEF FdsInv, GoesOn
<1>3. Len(children') = Len(children)
  <2>1. children' = children \/ \E p : Reap(p)
    BY DEF Poll
  <2> QED BY <2>1, ReapFacts
<1>4. CASE Stay /\ UNCHANGED <<waiting, fds, misclosed>>
  BY <1>1, <1>2, <1>3, <1>4, StaysHolding DEF FdsInv
<1>5. CASE Return(FALSE) /\ Close(IF Call.op = "chain_end" THEN ChainEndCloses ELSE {})
  <2>1. fds = (IF Call.op = "chain_end" THEN ChainEndCloses ELSE {})
    BY <1>1, <1>2 DEF Held, Continues, ChainEndCloses
  <2>2. fds' = {} /\ ~misclosed'
    BY <1>5, <2>1 DEF Close, FdsInv
  <2> QED BY <1>1, <1>5, <2>2, ReturnsEmpty
<1> QED BY <1>4, <1>5 DEF Poll

LEMMA RunFds == ASSUME PipesInv, FdsInv, nob_cmd_run_opt PROVE FdsInv'
<1>1. /\ exit = "none" /\ ~waiting /\ Call.op = "run" /\ chain' = chain /\ ~misclosed'
  BY DEF nob_cmd_run_opt, Calling, FdsInv
<1>2. ~GoesOn(Call) /\ ~Continues(Call) /\ fds = {} /\ Held = {}
  BY <1>1 DEF FdsInv, GoesOn, Continues, Held
<1>3. CASE Return(FALSE) /\ UNCHANGED <<children, pool, fds>>
  BY <1>1, <1>2, <1>3, ReturnsEmpty
<1>4. CASE Started /\ fds' = IF Call.async THEN fds ELSE fds \cup Call.files
  <2>1. CASE Call.async
    BY <1>1, <1>2, <1>4, <2>1, ReturnsEmpty DEF Started
  <2>2. CASE ~Call.async
    <3>1. waiting' = TRUE /\ Stay
      BY <1>4, <2>2 DEF Started
    <3>2. fds' = Held \cup (IF waiting' THEN Opened ELSE {})
      BY <1>1, <1>2, <1>4, <2>2, <3>1, OpenedFiles
    <3>3. \A p \in Nat : ReadEnd(p) \notin Call.files
      BY <1>1, InvFacts, TheCallOfAll, FilesAreFiles DEF FileOps
    <3>4. \A p \in Nat : ReadEnd(p) \notin fds'
      BY <1>2, <3>2, <3>3, OpenedFiles
    <3> QED BY <1>1, <1>2, <3>1, <3>2, <3>4, StaysHolding
  <2> QED BY <2>1, <2>2
<1> QED BY <1>3, <1>4 DEF nob_cmd_run_opt

LEMMA ProcWaitFds == ASSUME PipesInv, FdsInv, nob_proc_wait PROVE FdsInv'
<1>1. /\ exit = "none" /\ waiting
      /\ Close(Opened \cup IF Call.op = "chain_end" THEN ChainEndCloses ELSE {})
      /\ Return(TRUE) \/ Return(FALSE)
  <2>1. EndedWell(Len(children)) \in BOOLEAN
    BY DEF EndedWell
  <2> QED BY <2>1 DEF nob_proc_wait
<1>2. ~GoesOn(Call) /\ fds = Held \cup Opened
  BY <1>1 DEF FdsInv
<1>3. Held = IF Call.op = "chain_end" THEN ChainEndCloses ELSE {}
  BY <1>2 DEF Held, GoesOn, Continues, ChainEndCloses
<1>4. fds' = {} /\ ~misclosed'
  BY <1>1, <1>2, <1>3 DEF Close, FdsInv
<1> QED BY <1>1, <1>2, <1>4, ReturnsEmpty

LEMMA StartFds == ASSUME PipesInv, FdsInv, nob_procs_append_with_flush PROVE FdsInv'
<1>1. /\ exit = "none" /\ ~waiting /\ Call.op = "start" /\ fds' = fds /\ ~misclosed'
  BY DEF nob_procs_append_with_flush, Calling, FdsInv
<1>2. ~GoesOn(Call) /\ ~Continues(Call)
  BY <1>1 DEF GoesOn, Continues
<1>3. CASE Return(TRUE)
  BY <1>1, <1>2, <1>3, QuietFds
<1>4. CASE todo' = <<[op |-> "flush"]>> \o Tail(todo) /\ UNCHANGED <<exit, waiting, index, success>>
  <2> DEFINE f == [op |-> "flush"]
  <2>1. /\ todo \in Seq(AllCalls) /\ todo # <<>> /\ Linked(todo) /\ fds = {}
    BY <1>1, <1>2, InvFacts DEF FdsInv, Held
  <2>2. f \in AllCalls /\ ~GoesOn(f) /\ ~Continues(f)
    BY DEF AllCalls, GoesOn, Continues
  <2> HIDE DEF f
  <2>3. /\ Len(todo') = Len(todo) /\ todo'[1] = f /\ Head(todo') = f
        /\ \A i \in 2..Len(todo) : todo'[i] = todo[i]
        /\ Len(todo) \in Nat \ {0}
    <3>1. todo' = <<f>> \o Tail(todo) /\ Tail(todo) \in Seq(AllCalls) /\ <<f>> \in Seq(AllCalls)
      BY <1>4, <2>1, <2>2 DEF f
    <3>2. Len(todo) \in Nat \ {0} /\ Len(Tail(todo)) = Len(todo) - 1
      BY <2>1, TailCalls
    <3>3. /\ Len(todo') = 1 + Len(Tail(todo)) /\ todo'[1] = f /\ Head(todo') = f
          /\ \A i \in 2..Len(todo) : todo'[i] = Tail(todo)[i - 1]
      BY <3>1, <3>2
    <3>4. \A i \in 2..Len(todo) : Tail(todo)[i - 1] = todo[i]
      BY <2>1, TailCalls
    <3> QED BY <3>2, <3>3, <3>4
  <2>4. Linked(todo')
    <3> SUFFICES ASSUME NEW i \in 1..Len(todo)
                 PROVE  GoesOn(todo'[i]) <=> (i < Len(todo) /\ Continues(todo'[i + 1]))
      BY <2>3 DEF Linked
    <3>1. GoesOn(todo[i]) <=> (i < Len(todo) /\ Continues(todo[i + 1]))
      BY <2>1 DEF Linked
    <3>2. i < Len(todo) => todo'[i + 1] = todo[i + 1]
      <4>1. i < Len(todo) => i + 1 \in 2..Len(todo)
        BY <2>3
      <4> QED BY <2>3, <4>1
    <3>3. CASE i = 1
      <4>1. ~GoesOn(todo[i])
        BY <1>2, <2>1, <3>3, TailCalls DEF Call
      <4> QED BY <2>2, <2>3, <3>1, <3>2, <3>3, <4>1
    <3>4. CASE i # 1
      <4>1. i \in 2..Len(todo)
        BY <2>3, <3>4
      <4> QED BY <2>3, <3>1, <3>2, <4>1
    <3> QED BY <3>3, <3>4
  <2>5. Call' = f
    BY <2>3 DEF Call
  <2>6. Held' = {} /\ ~waiting'
    BY <1>1, <1>4, <2>2, <2>5 DEF Held
  <2>7. exit' = "none" /\ fds' = {}
    BY <1>1, <1>4, <2>1
  <2> QED BY <1>1, <2>4, <2>6, <2>7 DEF FdsInv
<1> QED BY <1>3, <1>4 DEF nob_procs_append_with_flush

LEMMA FlushFds == ASSUME PipesInv, FdsInv, nob_procs_wait \/ nob_procs_flush PROVE FdsInv'
<1>1. /\ exit = "none" /\ ~waiting /\ Call.op = "flush" /\ fds' = fds /\ ~misclosed'
      /\ chain' = chain
  BY DEF nob_procs_wait, nob_procs_flush, Calling, FdsInv
<1>2. ~GoesOn(Call) /\ ~Continues(Call) /\ Held = {}
  BY <1>1 DEF GoesOn, Continues, Held
<1>3. fds = {}
  BY <1>1, <1>2 DEF FdsInv
<1>4. CASE nob_procs_wait
  <2>1. Stay /\ waiting' = waiting
    BY <1>4 DEF nob_procs_wait
  <2> QED BY <1>1, <1>2, <1>3, <2>1, StaysHolding
<1>5. CASE nob_procs_flush
  <2>1. Return(TRUE) \/ Return(FALSE)
    BY <1>5 DEF nob_procs_flush, Return
  <2> QED BY <1>1, <1>2, <2>1, QuietFds
<1> QED BY <1>4, <1>5

LEMMA ChainBeginFds == ASSUME PipesInv, FdsInv, nob_chain_begin_opt PROVE FdsInv'
<1>1. /\ exit = "none" /\ ~waiting /\ Call.op = "chain_begin" /\ ~misclosed'
  BY DEF nob_chain_begin_opt, Calling, FdsInv
<1>2. GoesOn(Call) /\ ~Continues(Call) /\ fds = {}
  BY <1>1 DEF GoesOn, Continues, FdsInv, Held
<1>3. CASE Return(FALSE) /\ UNCHANGED fds
  BY <1>1, <1>2, <1>3, ReturnsEmpty
<1>4. CASE chain' = [NoChain EXCEPT !.fdin = Call.files] /\ fds' = fds \cup Call.files /\ Return(TRUE)
  <2>1. fds' = chain'.fdin
    BY <1>2, <1>4 DEF NoChain
  <2>2. \A p \in Nat : ReadEnd(p) \notin Call.files
    BY <1>1, InvFacts, TheCallOfAll, FilesAreFiles DEF FileOps
  <2>3. \A p \in Nat : ReadEnd(p) \notin fds'
    BY <1>2, <1>4, <2>2
  <2> QED BY <1>1, <1>2, <1>4, <2>1, <2>3, ReturnsHolding
<1> QED BY <1>3, <1>4 DEF nob_chain_begin_opt

LEMMA ChainFirstFds == ASSUME PipesInv, FdsInv, ChainFirst PROVE FdsInv'
<1>1. /\ exit = "none" /\ ~waiting /\ Call.op = "chain_cmd" /\ ~misclosed'
      /\ fds' = fds /\ children' = children /\ Return(TRUE)
      /\ chain' = [chain EXCEPT !.cmd = <<Call.cmd>>, !.err2out = Call.err2out]
  BY DEF ChainFirst, Calling, FdsInv
<1>2. GoesOn(Call) /\ fds = chain.fdin
  BY <1>1 DEF GoesOn, Continues, FdsInv, Held
<1>3. chain'.fdin = chain.fdin
  BY <1>1, ChainsFields
<1>4. \A p \in Nat : ReadEnd(p) \in fds' => p <= Len(children')
  BY <1>1 DEF FdsInv
<1> QED BY <1>1, <1>2, <1>3, <1>4, ReturnsHolding

LEMMA ChainBrokenFds == ASSUME PipesInv, FdsInv, ChainBroken PROVE FdsInv'
<1>1. /\ exit = "none" /\ ~waiting /\ Call.op = "chain_cmd"
      /\ Close(chain.fdin) /\ Return(FALSE)
  BY DEF ChainBroken, Calling
<1>2. fds = chain.fdin
  BY <1>1 DEF Continues, FdsInv, Held
<1>3. fds' = {} /\ ~misclosed'
  BY <1>1, <1>2 DEF Close, FdsInv
<1> QED BY <1>1, <1>3, ReturnsEmpty

\* The pipe's reading end is new, so closing what the command read from leaves
\* the driver with that end alone.
LEMMA ChainNextFds == ASSUME PipesInv, FdsInv, ChainNext PROVE FdsInv'
<1> DEFINE ends == {ReadEnd(Pid), WriteEnd(Pid)}
<1>1. /\ exit = "none" /\ ~waiting /\ Call.op = "chain_cmd" /\ Return(TRUE)
      /\ fds' = (fds \cup ends) \ (chain.fdin \cup {WriteEnd(Pid)})
      /\ misclosed' = (misclosed \/ ~(chain.fdin \subseteq fds))
      /\ chain' = [cmd |-> <<Call.cmd>>, fdin |-> {ReadEnd(Pid)}, err2out |-> Call.err2out]
      /\ \E c : children' = Append(children, c)
  BY DEF ChainNext, Calling, ChainCloses, nob__cmd_start_process
<1>2. GoesOn(Call) /\ fds = chain.fdin
  BY <1>1 DEF GoesOn, Continues, FdsInv, Held
<1>3. /\ Len(children) \in Nat /\ Pid = Len(children) + 1 /\ Pid \in Nat /\ Len(children') = Pid
  <2>1. children \in Seq(AnyChildren)
    BY InvFacts
  <2> QED BY <1>1, <2>1 DEF Pid
<1>4. ReadEnd(Pid) \notin fds
  <2>1. ~(Pid <= Len(children))
    BY <1>3
  <2> QED BY <1>3, <2>1 DEF FdsInv
<1>5. ReadEnd(Pid) # WriteEnd(Pid) /\ \A p \in Nat : ReadEnd(p) = ReadEnd(Pid) => p = Pid
  BY DEF ReadEnd, WriteEnd
<1>6. fds' = {ReadEnd(Pid)}
  BY <1>1, <1>2, <1>4, <1>5
<1>7. chain'.fdin = {ReadEnd(Pid)}
  BY <1>1
<1>8. \A p \in Nat : ReadEnd(p) \in fds' => p <= Len(children')
  BY <1>3, <1>5, <1>6
<1>9. ~misclosed'
  BY <1>1, <1>2 DEF FdsInv
<1> QED BY <1>1, <1>2, <1>6, <1>7, <1>8, <1>9, ReturnsHolding

LEMMA ChainEndFds ==
  ASSUME PipesInv, FdsInv, ChainEndless \/ nob_chain_end_opt
  PROVE  FdsInv'
<1>1. exit = "none" /\ ~waiting /\ Call.op = "chain_end"
  BY DEF ChainEndless, nob_chain_end_opt, Calling
<1>2. /\ ~GoesOn(Call) /\ Held = chain.fdin /\ fds = chain.fdin
  BY <1>1 DEF GoesOn, Continues, FdsInv, Held
<1>3. Close(ChainEndCloses) => fds' = {} /\ ~misclosed'
  BY <1>2 DEF Close, ChainEndCloses, FdsInv
<1>4. CASE ChainEndless
  <2>1. Return(TRUE) \/ Return(FALSE)
    BY <1>4 DEF ChainEndless
  <2>2. Close(ChainEndCloses)
    BY <1>4 DEF ChainEndless
  <2> QED BY <1>1, <1>2, <1>3, <2>1, <2>2, ReturnsEmpty
<1>5. CASE nob_chain_end_opt
  <2>1. /\ Started /\ chain' = [chain EXCEPT !.cmd = <<>>]
        /\ \/ Call.async /\ Close(ChainEndCloses)
           \/ ~Call.async /\ fds' = fds \cup Opened /\ UNCHANGED misclosed
        /\ \E c : children' = Append(children, c)
    BY <1>5 DEF nob_chain_end_opt, nob__cmd_start_process
  <2>2. CASE Call.async
    <3>1. Return(TRUE) /\ Close(ChainEndCloses)
      BY <2>1, <2>2 DEF Started
    <3> QED BY <1>1, <1>2, <1>3, <3>1, ReturnsEmpty
  <2>3. CASE ~Call.async
    <3>0. fds' = fds \cup Opened /\ ~misclosed'
      BY <2>1, <2>3 DEF FdsInv
    <3>1. waiting' = TRUE /\ Stay /\ fds' = fds \cup Opened /\ ~misclosed'
      BY <2>1, <2>3, <3>0 DEF Started
    <3>2. fds' = Held \cup (IF waiting' THEN Opened ELSE {})
      BY <1>2, <3>1
    <3>3. chain'.fdin = chain.fdin /\ chain'.err2out = chain.err2out
      BY <2>1, ChainsFields
    <3>4. \A p \in Nat : ReadEnd(p) \notin Call.files
      BY <1>1, InvFacts, TheCallOfAll, FilesAreFiles DEF FileOps
    <3>5. Len(children) \in Nat /\ Len(children') = Len(children) + 1
      <4>1. children \in Seq(AnyChildren)
        BY InvFacts
      <4> QED BY <2>1, <4>1
    <3>6. \A p \in Nat : ReadEnd(p) \in fds' => p <= Len(children')
      <4>1. \A p \in Nat : ReadEnd(p) \in fds' => p <= Len(children)
        BY <3>1, <3>4, OpenedFiles DEF FdsInv
      <4> QED BY <3>5, <4>1
    <3> QED BY <1>1, <1>2, <3>1, <3>2, <3>3, <3>6, StaysHolding
  <2> QED BY <2>2, <2>3
<1> QED BY <1>4, <1>5

LEMMA FdsInvInit ==
  ASSUME \A g \in OtherPrograms : Chained(g)
  PROVE  BuildInit => FdsInv
<1> SUFFICES ASSUME BuildInit PROVE FdsInv
  OBVIOUS
<1>1. /\ goal \in Programs /\ todo = goal /\ exit = "none" /\ ~waiting /\ fds = {} /\ ~misclosed
  BY DEF BuildInit, ProcsInit
<1>2. Chained(todo)
  BY <1>1, NobKeepsTo DEF Programs
<1> QED BY <1>1, <1>2 DEF FdsInv, Held, Chained, Call

LEMMA FdsInvNext ==
  ASSUME \A g \in OtherPrograms : Chained(g)
  PROVE  PipesInv /\ FdsInv /\ [Next]_buildVars => FdsInv'
<1> SUFFICES ASSUME PipesInv, FdsInv, [Next]_buildVars PROVE FdsInv'
  OBVIOUS
<1>1. CASE DriverNext
  BY <1>1, PollFds, RunFds, ProcWaitFds, StartFds, FlushFds, ChainBeginFds, ChainFirstFds,
     ChainBrokenFds, ChainNextFds, ChainEndFds DEF DriverNext
<1>2. CASE nob_mkdir_if_not_exists \/ do_clean
  <2>1. /\ exit = "none" /\ ~waiting /\ Call.op \in {"mkdir", "clean"}
        /\ Return(TRUE) /\ UNCHANGED <<fds, misclosed>>
    BY <1>2 DEF nob_mkdir_if_not_exists, do_clean, Calling
  <2>2. ~GoesOn(Call) /\ ~Continues(Call) /\ fds' = fds /\ ~misclosed'
    BY <2>1 DEF GoesOn, Continues, FdsInv
  <2> QED BY <2>1, <2>2, QuietFds
<1>3. ASSUME NEW p, Works(p) \/ Breaks(p) PROVE FdsInv'
  <2>1. PICK ok \in BOOLEAN : Ends(p, ok)
    BY <1>3 DEF Works, Breaks, Finish, Fail
  <2>2. UNCHANGED driver
    BY <2>1 DEF Ends
  <2>3. Len(children') = Len(children)
    <3>1. children \in Seq(AnyChildren)
      BY InvFacts
    <3> QED BY <2>1, <3>1 DEF Ends
  <2> QED BY <2>2, <2>3 DEF driver, FdsInv, Held, Opened, Call
<1>4. CASE Edit \/ UNCHANGED buildVars
  <2>1. UNCHANGED procVars
    BY <1>4 DEF Edit, buildVars
  <2> QED BY <2>1 DEF procVars, driver, FdsInv, Held, Opened, Call
<1>5. CASE Invoke
  <2>1. /\ goal' \in Programs /\ todo' = goal' /\ exit' = "none" /\ waiting' = FALSE
        /\ fds' = {} /\ misclosed' = FALSE
    BY <1>5 DEF Invoke
  <2>2. Chained(todo')
    BY <2>1, NobKeepsTo DEF Programs
  <2> QED BY <2>1, <2>2 DEF FdsInv, Held, Chained, Call
<1> QED BY <1>1, <1>2, <1>3, <1>4, <1>5 DEF Next, DriverStep

\* A driver whose chains are made of calls in a row has closed, when it ends,
\* whatever was opened for it, on success and on every failure, and closes no
\* descriptor it does not hold.
THEOREM DriversFdsBalanced ==
  ASSUME \A g \in OtherPrograms : Chained(g)
  PROVE  Spec => []FdsBalanced
<1>1. FdsInv => FdsBalanced
  BY DEF FdsInv, FdsBalanced
<1> QED BY <1>1, PipesInvInit, PipesInvNext, FdsInvInit, FdsInvNext, PTL DEF Spec

----------------------------------------------------------------------------
(* Every process is accounted for *)

Flushing == exit = "none" /\ Call.op = "flush"

\* p is in the pool and has yet to be waited for.
Listed(p) == \E i \in 1..Len(pool) : pool[i] = p /\ (Flushing => index <= i)

\* It has been waited for, and ended well.
Seen(p) == children[p].state = "reaped" /\ children[p].ok

\* The loop variable stays inside the pool, and starts from its first entry.
IndexInv ==
    exit = "none" =>
      /\ index \in Nat \ {0}
      /\ Call.op = "start" => index = 1
      /\ Call.op # "flush" => index = 1 \/ index <= Len(pool)

\* What can run beside the driver is in the pool; what has not been seen to end
\* well is waited for, or in the pool, or has spoilt the flush.
Tracked(p) ==
    /\ (Running(p) /\ children[p].async) => Listed(p)
    /\ (~children[p].piped /\ exit # "failure") =>
         Seen(p) \/ (waiting /\ p = Len(children)) \/ Listed(p) \/ (Flushing /\ ~success)

PoolInv ==
    /\ pool \in Seq(Nat)
    /\ IndexInv
    /\ waiting => exit = "none" /\ Call.op \in {"run", "chain_end"}
    /\ \A p \in Pids : Tracked(p)

LEMMA ReturnFacts ==
  ASSUME NEW ok, Return(ok)
  PROVE  /\ ~waiting' /\ index' = 1 /\ (~ok => exit' = "failure")
         /\ exit' = "none" => ok
  BY DEF Return

\* In the pool before, in the pool after, and not passed over.
LEMMA StaysListed ==
  ASSUME NEW p, Listed(p), index' = 1 \/ ~Flushing',
         pool' \in Seq(Nat),
         \A i \in 1..Len(pool) : pool[i] = p => \E j \in 1..Len(pool') : pool'[j] = p
  PROVE  Listed(p)'
<1>1. PICK j \in 1..Len(pool') : pool'[j] = p
  BY DEF Listed
<1>2. Flushing' => index' <= j
  BY <1>1
<1> QED BY <1>1, <1>2 DEF Listed

\* A call other than a flush that leaves the pool alone and starts nothing.
LEMMA QuietPool ==
  ASSUME PipesInv, PoolInv, exit = "none", ~waiting, Call.op # "flush",
         \/ Return(TRUE) \/ Return(FALSE)
         \/ Stay /\ ~waiting' /\ index' \in 1..Len(pool) /\ Call.op # "start",
         pool' = pool, children' = children \/ \E p : Reap(p)
  PROVE  PoolInv'
<1>1. pool' \in Seq(Nat) /\ ~waiting'
  BY ReturnFacts DEF PoolInv
<1>2. index' = 1 \/ ~Flushing'
  BY ReturnFacts DEF Stay, Flushing, Call
<1>3. IndexInv'
  <2>1. CASE Return(TRUE) \/ Return(FALSE)
    <3>1. index' = 1
      BY <2>1, ReturnFacts
    <3> QED BY <3>1 DEF IndexInv
  <2>2. CASE Stay /\ index' \in 1..Len(pool) /\ Call.op # "start"
    <3>1. Call' = Call /\ Len(pool') = Len(pool) /\ index' \in Nat \ {0} /\ index' <= Len(pool)
      BY <2>2 DEF Stay, Call, PoolInv
    <3> QED BY <2>2, <3>1 DEF IndexInv
  <2> QED BY <2>1, <2>2
<1>4. /\ Pids' = Pids
      /\ \A p \in Pids :
           /\ children'[p].piped = children[p].piped /\ children'[p].async = children[p].async
           /\ Running(p)' => Running(p)
           /\ Seen(p) => Seen(p)'
  <2>1. CASE children' = children
    BY <2>1 DEF Pids, Running, Seen
  <2>2. ASSUME NEW q, Reap(q)
        PROVE  /\ Pids' = Pids
               /\ \A p \in Pids :
                    /\ children'[p].piped = children[p].piped /\ children'[p].async = children[p].async
                    /\ Running(p)' => Running(p)
                    /\ Seen(p) => Seen(p)'
    <3>1. Pids' = Pids
      BY <2>2, ReapFacts DEF Pids
    <3>2. \A p \in Pids :
              /\ children'[p].piped = children[p].piped /\ children'[p].async = children[p].async
              /\ children'[p].ok = children[p].ok
              /\ p # q => children'[p].state = children[p].state
              /\ p = q => children'[p].state = "reaped"
      BY <2>2, ReapFacts
    <3> QED BY <3>1, <3>2 DEF Running, Seen
  <2> QED BY <2>1, <2>2
<1>5. ASSUME NEW p \in Pids PROVE Tracked(p)'
  <2>1. Tracked(p) /\ ~Flushing
    BY DEF PoolInv, Flushing
  <2>2. Listed(p) => Listed(p)'
    BY <1>1, <1>2, StaysListed
  <2>3. exit # "failure"
    OBVIOUS
  <2> QED BY <1>4, <2>1, <2>2, <2>3 DEF Tracked
<1> QED BY <1>1, <1>3, <1>4, <1>5 DEF PoolInv

\* nob_da_remove_unordered loses one element only.
LEMMA Removed ==
  ASSUME NEW s \in Seq(Nat), NEW i \in 1..Len(s)
  PROVE  /\ RemoveUnordered(s, i) \in Seq(Nat)
         /\ Len(RemoveUnordered(s, i)) = Len(s) - 1
         /\ \A j \in 1..Len(s) : j # i =>
              \E k \in 1..Len(RemoveUnordered(s, i)) : RemoveUnordered(s, i)[k] = s[j]
<1> DEFINE n == Len(s)
           t == RemoveUnordered(s, i)
<1>1. n \in Nat \ {0} /\ n - 1 \in Nat /\ \A j \in 1..n : s[j] \in Nat
  OBVIOUS
<1>2. t = [k \in 1..(n - 1) |-> IF k = i THEN s[n] ELSE s[k]]
  BY DEF RemoveUnordered
<1>3. n \in 1..n /\ \A k \in 1..(n - 1) : k \in 1..n
  BY <1>1
<1>4. t \in Seq(Nat) /\ Len(t) = n - 1
  <2>1. t \in [1..(n - 1) -> Nat]
    BY <1>1, <1>2, <1>3
  <2> HIDE DEF t
  <2> QED BY <1>1, <2>1
<1>5. ASSUME NEW j \in 1..n, j # i PROVE \E k \in 1..(n - 1) : t[k] = s[j]
  <2>1. CASE j = n
    <3>1. i \in 1..(n - 1)
      BY <1>1, <1>5, <2>1
    <3>2. t[i] = s[n]
      BY <1>2, <3>1
    <3> QED BY <2>1, <3>1, <3>2
  <2>2. CASE j # n
    <3>1. j \in 1..(n - 1)
      BY <1>1, <2>2
    <3>2. t[j] = s[j]
      BY <1>2, <1>5, <3>1
    <3> QED BY <3>1, <3>2
  <2> QED BY <2>1, <2>2
<1> HIDE DEF t, n
<1>6. t \in Seq(Nat) /\ Len(t) = n - 1 /\ \A j \in 1..n : j # i => \E k \in 1..Len(t) : t[k] = s[j]
  BY <1>4, <1>5
<1> QED BY <1>6 DEF t, n

LEMMA PollPool == ASSUME PipesInv, PoolInv, Poll PROVE PoolInv'
<1>1. exit = "none" /\ ~waiting /\ Call.op \in {"run", "chain_end"} /\ PoolFull
  BY DEF Poll, Calling
<1>2. pool \in Seq(Nat) /\ Len(pool) \in Nat /\ index \in Nat \ {0} /\ index \in 1..Len(pool)
  <2>1. pool \in Seq(Nat)
    BY DEF PoolInv
  <2>2. Len(pool) \in Nat /\ Len(pool) >= 1
    BY <1>1, <2>1, MaxProcsAssumption DEF PoolFull
  <2>3. index \in Nat \ {0} /\ (index = 1 \/ index <= Len(pool))
    BY <1>1 DEF PoolInv, IndexInv
  <2> QED BY <2>1, <2>2, <2>3
<1>3. CASE /\ index' = (index % Len(pool)) + 1 /\ Stay
           /\ UNCHANGED <<waiting, children, pool>>
  <2>1. index' \in 1..Len(pool)
    <3>1. Len(pool) > 0
      BY <1>2
    <3>2. index % Len(pool) \in 0..(Len(pool) - 1)
      BY <1>2, <3>1
    <3> QED BY <1>2, <1>3, <3>2
  <2> QED BY <1>1, <1>3, <2>1, QuietPool
<1>4. CASE Return(FALSE) /\ Reap(pool[index]) /\ pool' = pool
  BY <1>1, <1>4, QuietPool
<1>5. CASE /\ PollEnded(pool[index]) /\ Reap(pool[index])
           /\ pool' = RemoveUnordered(pool, index) /\ index' = 1
           /\ Stay /\ waiting' = waiting
  <2> DEFINE p == pool[index]
  <2>1. pool' \in Seq(Nat)
    BY <1>2, <1>5, Removed
  <2>2. exit' = "none" /\ Call' = Call /\ ~Flushing /\ ~Flushing' /\ ~waiting'
    BY <1>1, <1>5 DEF Stay, Call, Flushing
  <2>3. IndexInv'
    BY <1>5 DEF IndexInv
  <2>4. Pids' = Pids
    BY <1>5, ReapFacts DEF Pids
  <2>5. ASSUME NEW q \in Pids PROVE Tracked(q)'
    <3>1. /\ children'[q].async = children[q].async /\ children'[q].piped = children[q].piped
          /\ children'[q].ok = children[q].ok
          /\ q # p => children'[q].state = children[q].state
          /\ q = p => children'[q].state = "reaped"
      BY <1>5, ReapFacts
    <3>2. CASE q = p
      <4>1. children[q].ok
        BY <1>5, <3>2 DEF PollEnded, EndedWell
      <4> QED BY <3>1, <3>2, <4>1 DEF Tracked, Seen, Running
    <3>3. CASE q # p
      <4>1. \A i \in 1..Len(pool) : pool[i] = q => \E j \in 1..Len(pool') : pool'[j] = q
        <5>1. \A i \in 1..Len(pool) : i # index =>
                \E j \in 1..Len(pool') : pool'[j] = pool[i]
          BY <1>2, <1>5, Removed
        <5>2. \A i \in 1..Len(pool) : pool[i] = q => i # index
          BY <3>3
        <5> QED BY <5>1, <5>2
      <4>2. Listed(q) => Listed(q)'
        BY <2>1, <2>2, <4>1, StaysListed
      <4>3. Tracked(q)
        BY DEF PoolInv
      <4>4. (Running(q)' => Running(q)) /\ (Seen(q) => Seen(q)')
        BY <3>1, <3>3 DEF Running, Seen
      <4> QED BY <1>1, <2>2, <3>1, <4>2, <4>3, <4>4 DEF Tracked
    <3> QED BY <3>2, <3>3
  <2> QED BY <2>1, <2>2, <2>3, <2>4, <2>5 DEF PoolInv
<1> QED BY <1>3, <1>4, <1>5 DEF Poll

\* A process is started.
LEMMA OneMore ==
  ASSUME PipesInv, NEW c, children' = Append(children, c)
  PROVE  /\ Pid \in Nat \ {0} /\ Len(children') = Pid /\ Pids' = Pids \cup {Pid} /\ Pid \notin Pids
         /\ children'[Pid] = c /\ \A p \in Pids : children'[p] = children[p]
<1>1. children \in Seq(AnyChildren)
  BY InvFacts
<1>2. Len(children) \in Nat /\ Len(children') = Len(children) + 1
  BY <1>1
<1>3. \A p \in 1..Len(children) : children'[p] = children[p]
  BY <1>1
<1>4. children'[Len(children) + 1] = c
  BY <1>1
<1> QED BY <1>2, <1>3, <1>4 DEF Pid, Pids

\* One that is waited for, or that writes into a pipe.
LEMMA StartsAlone ==
  ASSUME PipesInv, PoolInv, exit = "none", ~waiting, Call.op \in {"run", "chain_cmd", "chain_end"},
         NEW c, children' = Append(children, c), ~c.async, pool' = pool,
         \/ c.piped /\ Return(TRUE)
         \/ waiting' /\ Stay /\ index' = index /\ Call.op # "chain_cmd"
  PROVE  PoolInv'
<1>1. pool' \in Seq(Nat)
  BY DEF PoolInv
<1>2. index' = 1 \/ ~Flushing'
  BY ReturnFacts DEF Stay, Flushing, Call
<1>3. IndexInv'
  <2>1. CASE Return(TRUE)
    <3>1. index' = 1
      BY <2>1, ReturnFacts
    <3> QED BY <3>1 DEF IndexInv
  <2>2. CASE Stay /\ index' = index
    BY <2>2 DEF PoolInv, IndexInv, Stay, Call
  <2> QED BY <2>1, <2>2
<1>4. waiting' => exit' = "none" /\ Call'.op \in {"run", "chain_end"}
  <2>1. Return(TRUE) => ~waiting'
    BY ReturnFacts
  <2> QED BY <2>1 DEF Stay, Call
<1>5. ASSUME NEW p \in Pids PROVE Tracked(p)'
  <2>1. Tracked(p) /\ ~Flushing /\ children'[p] = children[p]
    BY OneMore DEF PoolInv, Flushing
  <2>2. Listed(p) => Listed(p)'
    BY <1>1, <1>2, StaysListed
  <2> QED BY <2>1, <2>2 DEF Tracked, Running, Seen
<1>6. ASSUME NEW n, n = Pid PROVE Tracked(n)'
  <2>1. children'[n] = c /\ Len(children') = n
    BY <1>6, OneMore
  <2>2. c.piped \/ waiting'
    OBVIOUS
  <2> QED BY <2>1, <2>2 DEF Tracked
<1>7. \A p \in Pids' : Tracked(p)'
  BY <1>5, <1>6, OneMore
<1> QED BY <1>1, <1>3, <1>4, <1>7 DEF PoolInv

\* One that goes to the pool, or none.
LEMMA StartsPooled ==
  ASSUME PipesInv, PoolInv, exit = "none", ~waiting, Call.op \in {"run", "chain_end", "start"},
         NEW x \in Nat, pool' = Append(pool, x), index' = 1, ~waiting',
         children' = children \/ (x = Pid /\ \E c : children' = Append(children, c))
  PROVE  PoolInv'
<1>1. /\ pool \in Seq(Nat) /\ pool' \in Seq(Nat) /\ Len(pool) \in Nat /\ Len(pool') = Len(pool) + 1
      /\ pool'[Len(pool) + 1] = x
      /\ \A i \in 1..Len(pool) : pool'[i] = pool[i] /\ i \in 1..Len(pool')
  <2>1. pool \in Seq(Nat)
    BY DEF PoolInv
  <2> QED BY <2>1
<1>2. IndexInv'
  BY DEF IndexInv
<1>3. ASSUME NEW p \in Pids, children'[p] = children[p] PROVE Tracked(p)'
  <2>1. Tracked(p) /\ ~Flushing
    BY DEF PoolInv, Flushing
  <2>2. Listed(p) => Listed(p)'
    BY <1>1, StaysListed
  <2> QED BY <1>3, <2>1, <2>2 DEF Tracked, Running, Seen
<1>4. CASE children' = children
  <2>1. Pids' = Pids
    BY <1>4 DEF Pids
  <2> QED BY <1>1, <1>2, <1>3, <1>4, <2>1 DEF PoolInv
<1>5. ASSUME x = Pid, NEW c, children' = Append(children, c) PROVE PoolInv'
  <2>1. Listed(x)'
    <3>1. Len(pool) + 1 \in 1..Len(pool') /\ index' <= Len(pool) + 1
      BY <1>1
    <3> QED BY <1>1, <3>1 DEF Listed
  <2>2. Tracked(x)'
    BY <2>1 DEF Tracked
  <2>3. \A p \in Pids : Tracked(p)'
    BY <1>3, <1>5, OneMore
  <2>4. \A p \in Pids' : Tracked(p)'
    BY <1>5, <2>2, <2>3, OneMore
  <2> QED BY <1>1, <1>2, <2>4 DEF PoolInv
<1> QED BY <1>4, <1>5

LEMMA ProcWaitPool == ASSUME PipesInv, PoolInv, nob_proc_wait PROVE PoolInv'
<1> DEFINE last == Len(children)
<1>1. /\ exit = "none" /\ waiting /\ Reap(last) /\ Return(EndedWell(last)) /\ pool' = pool
  BY DEF nob_proc_wait
<1>2. /\ ~waiting' /\ index' = 1 /\ (~EndedWell(last) => exit' = "failure")
  BY <1>1, ReturnFacts
<1>3. pool' \in Seq(Nat) /\ IndexInv'
  BY <1>1, <1>2 DEF PoolInv, IndexInv
<1>4. Call.op # "flush"
  BY <1>1 DEF PoolInv
<1>5. Pids' = Pids
  BY <1>1, ReapFacts DEF Pids
<1>6. ASSUME NEW p \in Pids PROVE Tracked(p)'
  <2>1. /\ children'[p].async = children[p].async /\ children'[p].piped = children[p].piped
        /\ children'[p].ok = children[p].ok
        /\ p # last => children'[p].state = children[p].state
        /\ p = last => children'[p].state = "reaped"
    BY <1>1, ReapFacts
  <2>2. Tracked(p) /\ ~Flushing
    BY <1>4 DEF PoolInv, Flushing
  <2>3. Listed(p) => Listed(p)'
    BY <1>1, <1>2, <1>3, StaysListed
  <2>4. CASE p = last
    <3>1. EndedWell(last) => children[p].ok
      BY <2>4 DEF EndedWell
    <3> QED BY <1>2, <2>1, <2>4, <3>1 DEF Tracked, Seen, Running
  <2>5. CASE p # last
    BY <1>1, <2>1, <2>2, <2>3, <2>5 DEF Tracked, Seen, Running
  <2> QED BY <2>4, <2>5
<1> QED BY <1>2, <1>3, <1>5, <1>6 DEF PoolInv

\* One wait of a flush: what it passes over is seen to have ended well, or the
\* flush is going to fail.
LEMMA ProcsWaitPool == ASSUME PipesInv, PoolInv, nob_procs_wait PROVE PoolInv'
<1> DEFINE q == pool[index]
<1>1. /\ exit = "none" /\ ~waiting /\ Call.op = "flush" /\ index <= Len(pool)
      /\ (q = 0 /\ children' = children) \/ Reap(q)
      /\ success' = AllWell(q) /\ index' = index + 1
      /\ Stay /\ waiting' = waiting /\ pool' = pool
  BY DEF nob_procs_wait, Calling, WaitFor
<1>2. pool \in Seq(Nat) /\ Len(pool) \in Nat /\ index \in Nat \ {0}
  <2>1. pool \in Seq(Nat)
    BY DEF PoolInv
  <2> QED BY <1>1, <2>1 DEF PoolInv, IndexInv
<1>3. Flushing /\ Flushing' /\ exit' = "none" /\ Call' = Call /\ ~waiting'
  BY <1>1 DEF Stay, Flushing, Call
<1>4. IndexInv'
  BY <1>1, <1>2, <1>3 DEF IndexInv
<1>5. Pids' = Pids
  BY <1>1, ReapFacts DEF Pids
<1>6. ASSUME NEW p \in Pids PROVE Tracked(p)'
  <2>1. /\ children'[p].async = children[p].async /\ children'[p].piped = children[p].piped
        /\ children'[p].ok = children[p].ok
        /\ p # q => children'[p].state = children[p].state
        /\ p = q => children'[p].state = "reaped"
    <3>1. CASE Reap(q)
      BY <3>1, ReapFacts
    <3>2. CASE q = 0 /\ children' = children
      BY <3>2 DEF Pids
    <3> QED BY <1>1, <3>1, <3>2
  <2>2. Tracked(p)
    BY DEF PoolInv
  <2>3. ~success => ~success'
    BY <1>1 DEF AllWell
  <2>4. CASE p = q
    <3>1. Seen(p)' \/ ~success'
      BY <1>1, <2>1, <2>4 DEF AllWell, EndedWell, Seen
    <3> QED BY <1>3, <2>1, <2>4, <3>1 DEF Tracked, Running
  <2>5. CASE p # q
    <3>1. Listed(p) => Listed(p)'
      <4> SUFFICES ASSUME NEW i \in 1..Len(pool), pool[i] = p, index <= i PROVE Listed(p)'
        BY <1>3 DEF Listed
      <4>1. index + 1 <= i
        BY <1>2, <2>5
      <4> QED BY <1>1, <4>1 DEF Listed
    <3> QED BY <1>1, <1>3, <2>1, <2>2, <2>3, <2>5, <3>1 DEF Tracked, Seen, Running
  <2> QED BY <2>4, <2>5
<1> QED BY <1>1, <1>2, <1>3, <1>4, <1>5, <1>6 DEF PoolInv

LEMMA FlushPool == ASSUME PipesInv, PoolInv, nob_procs_flush PROVE PoolInv'
<1>1. /\ exit = "none" /\ ~waiting /\ Call.op = "flush" /\ index > Len(pool)
      /\ pool' = <<>> /\ Return(success) /\ children' = children
  BY DEF nob_procs_flush, Calling
<1>2. pool \in Seq(Nat) /\ Len(pool) \in Nat /\ index \in Nat \ {0}
  <2>1. pool \in Seq(Nat)
    BY DEF PoolInv
  <2> QED BY <1>1, <2>1 DEF PoolInv, IndexInv
<1>3. ~waiting' /\ index' = 1 /\ (~success => exit' = "failure")
  BY <1>1, ReturnFacts
<1>4. pool' \in Seq(Nat) /\ IndexInv' /\ Pids' = Pids
  BY <1>1, <1>3 DEF IndexInv, Pids
<1>5. ASSUME NEW p \in Pids PROVE Tracked(p)'
  <2>1. Tracked(p)
    BY DEF PoolInv
  <2>2. ~Listed(p)
    BY <1>1, <1>2 DEF Listed, Flushing
  <2> QED BY <1>1, <1>3, <2>1, <2>2 DEF Tracked, Seen, Running
<1> QED BY <1>3, <1>4, <1>5 DEF PoolInv

LEMMA RunPool == ASSUME PipesInv, PoolInv, nob_cmd_run_opt PROVE PoolInv'
<1>1. exit = "none" /\ ~waiting /\ Call.op = "run"
  BY DEF nob_cmd_run_opt, Calling
<1>2. CASE Return(FALSE) /\ UNCHANGED <<children, pool, fds>>
  BY <1>1, <1>2, QuietPool
<1>3. ASSUME nob__cmd_start_process(Child(Call.cmd, {}, FALSE, fds \cup Call.files, Call.async)),
             Started
      PROVE  PoolInv'
  <2> DEFINE c == Child(Call.cmd, {}, FALSE, fds \cup Call.files, Call.async)
  <2>1. children' = Append(children, c) /\ c.async = Call.async
    BY <1>3 DEF nob__cmd_start_process, Child
  <2> HIDE DEF c
  <2>2. CASE Call.async
    <3>1. pool' = Append(pool, Pid) /\ Return(TRUE)
      BY <1>3, <2>2 DEF Started
    <3> QED BY <1>1, <2>1, <3>1, OneMore, ReturnFacts, StartsPooled
  <2>3. CASE ~Call.async
    <3>1. waiting' /\ Stay /\ index' = index /\ pool' = pool
      BY <1>3, <2>3 DEF Started
    <3> QED BY <1>1, <2>1, <2>3, <3>1, StartsAlone
  <2> QED BY <2>2, <2>3
<1> QED BY <1>2, <1>3 DEF nob_cmd_run_opt

LEMMA ChainEndPool == ASSUME PipesInv, PoolInv, nob_chain_end_opt PROVE PoolInv'
<1> DEFINE c == Child(chain.cmd[1], chain.fdin, FALSE, fds \cup Opened, Call.async)
<1>1. exit = "none" /\ ~waiting /\ Call.op = "chain_end" /\ Started /\ nob__cmd_start_process(c)
  BY DEF nob_chain_end_opt, Calling
<1>2. children' = Append(children, c) /\ c.async = Call.async
  BY <1>1 DEF nob__cmd_start_process, Child
<1> HIDE DEF c
<1>3. CASE Call.async
  <2>1. pool' = Append(pool, Pid) /\ Return(TRUE)
    BY <1>1, <1>3 DEF Started
  <2> QED BY <1>1, <1>2, <2>1, OneMore, ReturnFacts, StartsPooled
<1>4. CASE ~Call.async
  <2>1. waiting' /\ Stay /\ index' = index /\ pool' = pool
    BY <1>1, <1>4 DEF Started
  <2> QED BY <1>1, <1>2, <1>4, <2>1, StartsAlone
<1> QED BY <1>3, <1>4

LEMMA ChainNextPool == ASSUME PipesInv, PoolInv, ChainNext PROVE PoolInv'
<1>1. exit = "none" /\ ~waiting /\ Call.op = "chain_cmd" /\ Return(TRUE) /\ pool' = pool
  BY DEF ChainNext, Calling
<1>2. PICK h : nob__cmd_start_process(Child(chain.cmd[1], chain.fdin, TRUE, h, FALSE))
  BY DEF ChainNext
<1> DEFINE c == Child(chain.cmd[1], chain.fdin, TRUE, h, FALSE)
<1>3. children' = Append(children, c) /\ c.async = FALSE /\ c.piped = TRUE
  BY <1>2 DEF nob__cmd_start_process, Child
<1> HIDE DEF c
<1> QED BY <1>1, <1>3, StartsAlone

LEMMA AppendPool == ASSUME PipesInv, PoolInv, nob_procs_append_with_flush PROVE PoolInv'
<1>1. exit = "none" /\ ~waiting /\ Call.op = "start"
  BY DEF nob_procs_append_with_flush, Calling
<1>2. index' = 1 /\ ~waiting'
  <2>1. index = 1
    BY <1>1 DEF PoolInv, IndexInv
  <2>2. CASE Return(TRUE)
    BY <2>2, ReturnFacts
  <2>3. CASE UNCHANGED <<exit, waiting, index, success>>
    <3>1. waiting' = waiting /\ index' = index
      BY <2>3
    <3> QED BY <1>1, <2>1, <3>1
  <2> QED BY <2>2, <2>3 DEF nob_procs_append_with_flush
<1>3. CASE pool' = Append(pool, 0) /\ UNCHANGED children
  BY <1>1, <1>2, <1>3, StartsPooled
<1>4. CASE nob__cmd_start_process(Child(Call.cmd, {}, FALSE, fds, TRUE)) /\ pool' = Append(pool, Pid)
  <2>1. \E c : children' = Append(children, c)
    BY <1>4 DEF nob__cmd_start_process
  <2> QED BY <1>1, <1>2, <1>4, <2>1, OneMore, StartsPooled
<1> QED BY <1>3, <1>4 DEF nob_procs_append_with_flush

\* A process ends.
LEMMA ProcessPool ==
  ASSUME PipesInv, PoolInv, NEW p, Works(p) \/ Breaks(p)
  PROVE  PoolInv'
<1>1. PICK ok \in BOOLEAN : Ends(p, ok)
  BY DEF Works, Breaks, Finish, Fail
<1>2. p \in Pids /\ Running(p)
  BY DEF Works, Breaks, Finish, Fail
<1>3. UNCHANGED driver /\ pool' = pool
  BY <1>1 DEF Ends
<1>4. /\ exit' = exit /\ Call' = Call /\ Flushing' = Flushing /\ waiting' = waiting
      /\ index' = index /\ success' = success
  BY <1>3 DEF driver, Call, Flushing
<1>5. children \in Seq(AnyChildren) /\ p \in 1..Len(children) /\ children[p] \in AnyChildren
  BY <1>2, InvFacts DEF Pids
<1> DEFINE c == [children[p] EXCEPT !.state = "ended", !.ok = ok]
<1>6. children' = [children EXCEPT ![p] = c]
  BY <1>1, <1>5 DEF Ends
<1>7. c.async = children[p].async /\ c.piped = children[p].piped /\ c.state = "ended"
  BY <1>5 DEF AnyChildren
<1> HIDE DEF c
<1>8. /\ Len(children') = Len(children)
      /\ \A q \in 1..Len(children) : children'[q] = IF q = p THEN c ELSE children[q]
  BY <1>5, <1>6
<1>9. ASSUME NEW q \in Pids PROVE Tracked(q)'
  <2>1. /\ children'[q].async = children[q].async /\ children'[q].piped = children[q].piped
        /\ Running(q)' => Running(q)
        /\ Seen(q) => Seen(q)'
    <3>1. CASE q = p
      <4>1. children'[q] = c
        BY <1>8, <3>1 DEF Pids
      <4>2. children[q].state = "running"
        BY <1>2, <3>1 DEF Running
      <4> QED BY <1>7, <3>1, <4>1, <4>2 DEF Running, Seen
    <3>2. CASE q # p
      <4>1. children'[q] = children[q]
        BY <1>8, <3>2 DEF Pids
      <4> QED BY <4>1 DEF Running, Seen
    <3> QED BY <3>1, <3>2
  <2>2. Tracked(q)
    BY DEF PoolInv
  <2>3. Listed(q) = Listed(q)'
    BY <1>3, <1>4 DEF Listed
  <2> QED BY <1>4, <1>8, <2>1, <2>2, <2>3 DEF Tracked
<1>10. IndexInv'
  BY <1>3, <1>4 DEF PoolInv, IndexInv
<1> QED BY <1>3, <1>4, <1>8, <1>9, <1>10 DEF PoolInv, Pids

LEMMA FreshPool ==
  ASSUME children' = <<>>, pool' = <<>>, index' = 1, ~waiting'
  PROVE  PoolInv'
<1>1. Len(children') = 0 /\ pool' \in Seq(Nat)
  OBVIOUS
<1>2. IndexInv'
  BY DEF IndexInv
<1> QED BY <1>1, <1>2 DEF PoolInv, Pids

LEMMA PoolInvInit == BuildInit => PoolInv
<1> SUFFICES ASSUME BuildInit PROVE PoolInv
  OBVIOUS
<1>1. children = <<>> /\ pool = <<>> /\ index = 1 /\ ~waiting
  BY DEF BuildInit, ProcsInit
<1>2. Len(children) = 0 /\ pool \in Seq(Nat)
  BY <1>1
<1>3. IndexInv
  BY <1>1 DEF IndexInv
<1> QED BY <1>1, <1>2, <1>3 DEF PoolInv, Pids

LEMMA PoolInvNext == PipesInv /\ PoolInv /\ [Next]_buildVars => PoolInv'
<1> SUFFICES ASSUME PipesInv, PoolInv, [Next]_buildVars PROVE PoolInv'
  OBVIOUS
<1>1. CASE nob_chain_begin_opt \/ ChainFirst \/ ChainBroken \/ ChainEndless
           \/ nob_mkdir_if_not_exists \/ do_clean
  <2>1. /\ exit = "none" /\ ~waiting
        /\ Call.op \in {"chain_begin", "chain_cmd", "chain_end", "mkdir", "clean"}
        /\ Return(TRUE) \/ Return(FALSE)
        /\ UNCHANGED <<children, pool>>
    BY <1>1 DEF nob_chain_begin_opt, ChainFirst, ChainBroken, ChainEndless,
                nob_mkdir_if_not_exists, do_clean, Calling
  <2> QED BY <2>1, QuietPool
<1>2. CASE DriverNext
  BY <1>1, <1>2, PollPool, RunPool, ProcWaitPool, AppendPool, ProcsWaitPool, FlushPool,
     ChainNextPool, ChainEndPool DEF DriverNext
<1>3. CASE Edit \/ UNCHANGED buildVars
  <2>1. UNCHANGED procVars
    BY <1>3 DEF Edit, buildVars
  <2>2. UNCHANGED <<children, pool, index, waiting, success, exit, todo>>
    BY <2>1 DEF procVars, driver
  <2>3. /\ Call' = Call /\ Flushing' = Flushing /\ Pids' = Pids /\ IndexInv' = IndexInv
    BY <2>2 DEF Call, Flushing, Pids, IndexInv
  <2>4. \A p : Tracked(p)' = Tracked(p)
    BY <2>2, <2>3 DEF Tracked, Listed, Seen, Running
  <2> QED BY <2>2, <2>3, <2>4 DEF PoolInv
<1>4. CASE Invoke
  BY <1>4, FreshPool DEF Invoke
<1> QED BY <1>1, <1>2, <1>3, <1>4, ProcessPool DEF Next, DriverStep

----------------------------------------------------------------------------
(* What goes to the pool is flushed before a driver succeeds *)

HasFlush(s) == \E i \in 1..Len(s) : s[i].op = "flush"

FlushInv ==
    /\ exit = "none" => Flushed(todo) /\ (pool # <<>> => HasFlush(todo))
    /\ exit = "success" => pool = <<>>

LEMMA FlushedTail ==
  ASSUME NEW s \in Seq(AllCalls), s # <<>>, Flushed(s)
  PROVE  /\ Flushed(Tail(s))
         /\ Pooled(Head(s)) => HasFlush(Tail(s))
         /\ HasFlush(s) /\ Head(s).op # "flush" => HasFlush(Tail(s))
<1>1. /\ Len(s) \in Nat \ {0} /\ Len(Tail(s)) = Len(s) - 1
      /\ \A i \in 2..Len(s) : i - 1 \in 1..Len(Tail(s)) /\ Tail(s)[i - 1] = s[i]
  BY TailCalls
<1>2. Flushed(Tail(s))
  <2> SUFFICES ASSUME NEW i \in 1..Len(Tail(s)), Pooled(Tail(s)[i])
               PROVE  \E j \in (i + 1)..Len(Tail(s)) : Tail(s)[j].op = "flush"
    BY DEF Flushed
  <2>1. i + 1 \in 1..Len(s) /\ Tail(s)[i] = s[i + 1]
    BY TailCalls
  <2>2. PICK j \in ((i + 1) + 1)..Len(s) : s[j].op = "flush"
    BY <2>1 DEF Flushed
  <2>3. j \in 2..Len(s) /\ j - 1 \in (i + 1)..Len(Tail(s))
    BY <1>1
  <2> QED BY <1>1, <2>2, <2>3
<1>3. ASSUME Pooled(Head(s)) PROVE HasFlush(Tail(s))
  <2>1. 1 \in 1..Len(s) /\ Head(s) = s[1]
    BY TailCalls
  <2>2. PICK j \in (1 + 1)..Len(s) : s[j].op = "flush"
    BY <1>3, <2>1 DEF Flushed
  <2>3. j \in 2..Len(s)
    OBVIOUS
  <2> QED BY <1>1, <2>2, <2>3 DEF HasFlush
<1>4. ASSUME HasFlush(s), Head(s).op # "flush" PROVE HasFlush(Tail(s))
  <2>1. PICK j \in 1..Len(s) : s[j].op = "flush"
    BY <1>4 DEF HasFlush
  <2>2. Head(s) = s[1]
    BY TailCalls
  <2>3. j \in 2..Len(s)
    BY <1>1, <1>4, <2>1, <2>2
  <2> QED BY <1>1, <2>1, <2>3 DEF HasFlush
<1> QED BY <1>2, <1>3, <1>4

LEMMA ReturnTail ==
  ASSUME PipesInv, exit = "none", Return(TRUE)
  PROVE  /\ todo' = Tail(todo) /\ exit' # "failure"
         /\ exit' = "success" => \A i : i \notin 1..Len(Tail(todo))
<1>1. todo \in Seq(AllCalls) /\ todo # <<>>
  BY InvFacts
<1>2. todo' = Tail(todo) /\ exit' = IF Len(todo) = 1 THEN "success" ELSE "none"
  BY DEF Return
<1>3. exit' = "success" => Len(Tail(todo)) = 0
  BY <1>1, <1>2, TailCalls
<1> QED BY <1>2, <1>3

LEMMA FlushStep ==
  ASSUME PipesInv, FlushInv, exit = "none",
         \/ Return(FALSE)
         \/ Stay /\ (pool' # <<>> => pool # <<>>)
         \/ /\ Return(TRUE)
            /\ pool' # <<>> => Pooled(Call) \/ (pool # <<>> /\ Call.op # "flush")
  PROVE  FlushInv'
<1>1. CASE Return(FALSE)
  BY <1>1, ReturnFacts DEF FlushInv
<1>2. CASE Stay /\ (pool' # <<>> => pool # <<>>)
  BY <1>2 DEF Stay, FlushInv
<1>3. CASE /\ Return(TRUE)
           /\ pool' # <<>> => Pooled(Call) \/ (pool # <<>> /\ Call.op # "flush")
  <2>1. todo \in Seq(AllCalls) /\ todo # <<>> /\ Flushed(todo)
    BY InvFacts DEF FlushInv
  <2>2. pool' # <<>> => HasFlush(Tail(todo))
    BY <1>3, <2>1, FlushedTail DEF FlushInv, Call
  <2>3. exit' = "success" => ~HasFlush(Tail(todo))
    BY <1>3, ReturnTail DEF HasFlush
  <2> QED BY <1>3, <2>1, <2>2, <2>3, ReturnTail, FlushedTail DEF FlushInv
<1> QED BY <1>1, <1>2, <1>3

\* A full pool makes the driver flush: the call is replaced by a flush.
LEMMA FlushInstead ==
  ASSUME PipesInv, exit = "none", todo' = <<[op |-> "flush"]>> \o Tail(todo)
  PROVE  /\ Len(todo') = Len(todo) /\ Len(todo) \in Nat \ {0}
         /\ todo'[1] = [op |-> "flush"] /\ Head(todo') = [op |-> "flush"]
         /\ \A i \in 2..Len(todo) : todo'[i] = todo[i]
         /\ Call = todo[1] /\ Call' = [op |-> "flush"]
<1> DEFINE f == [op |-> "flush"]
<1>1. todo \in Seq(AllCalls) /\ todo # <<>>
  BY InvFacts
<1>2. f \in AllCalls
  BY DEF AllCalls
<1> HIDE DEF f
<1>3. todo' = <<f>> \o Tail(todo) /\ Tail(todo) \in Seq(AllCalls) /\ <<f>> \in Seq(AllCalls)
  BY <1>1, <1>2 DEF f
<1>4. Len(todo) \in Nat \ {0} /\ Len(Tail(todo)) = Len(todo) - 1
  BY <1>1, TailCalls
<1>5. /\ Len(todo') = 1 + Len(Tail(todo)) /\ todo'[1] = f /\ Head(todo') = f
      /\ \A i \in 2..Len(todo) : todo'[i] = Tail(todo)[i - 1]
  BY <1>3, <1>4
<1>6. \A i \in 2..Len(todo) : Tail(todo)[i - 1] = todo[i]
  BY <1>1, TailCalls
<1>7. Call = todo[1] /\ Call' = Head(todo')
  BY <1>1, TailCalls DEF Call
<1> QED BY <1>4, <1>5, <1>6, <1>7 DEF f

LEMMA AppendFlush ==
  ASSUME PipesInv, FlushInv, nob_procs_append_with_flush
  PROVE  FlushInv'
<1>1. exit = "none" /\ Call.op = "start" /\ Pooled(Call)
  BY DEF nob_procs_append_with_flush, Calling, Pooled
<1>2. CASE Return(TRUE)
  BY <1>1, <1>2, FlushStep
<1>3. CASE todo' = <<[op |-> "flush"]>> \o Tail(todo) /\ UNCHANGED <<exit, waiting, index, success>>
  <2>1. /\ Len(todo') = Len(todo) /\ Len(todo) \in Nat \ {0} /\ todo'[1] = [op |-> "flush"]
        /\ \A i \in 2..Len(todo) : todo'[i] = todo[i]
    BY <1>1, <1>3, FlushInstead
  <2>2. Flushed(todo')
    <3> SUFFICES ASSUME NEW i \in 1..Len(todo), Pooled(todo'[i])
                 PROVE  \E j \in (i + 1)..Len(todo) : todo'[j].op = "flush"
      BY <2>1 DEF Flushed
    <3>1. i # 1
      BY <2>1 DEF Pooled, Polled
    <3>2. i \in 2..Len(todo) /\ todo'[i] = todo[i]
      BY <2>1, <3>1
    <3>3. PICK j \in (i + 1)..Len(todo) : todo[j].op = "flush"
      BY <1>1, <3>2 DEF FlushInv, Flushed
    <3>4. j \in 2..Len(todo)
      BY <3>2
    <3> QED BY <2>1, <3>3, <3>4
  <2>3. HasFlush(todo')
    <3>1. 1 \in 1..Len(todo')
      BY <2>1
    <3> QED BY <2>1, <3>1 DEF HasFlush
  <2> QED BY <1>1, <1>3, <2>2, <2>3 DEF FlushInv
<1> QED BY <1>2, <1>3 DEF nob_procs_append_with_flush

LEMMA FlushInvInit ==
  ASSUME \A g \in OtherPrograms : Flushed(g)
  PROVE  BuildInit => FlushInv
  BY NobKeepsTo DEF BuildInit, ProcsInit, Programs, FlushInv

LEMMA FlushInvNext ==
  ASSUME \A g \in OtherPrograms : Flushed(g)
  PROVE  PipesInv /\ PoolInv /\ FlushInv /\ [Next]_buildVars => FlushInv'
<1> SUFFICES ASSUME PipesInv, PoolInv, FlushInv, [Next]_buildVars PROVE FlushInv'
  OBVIOUS
<1>1. CASE nob_chain_begin_opt \/ ChainFirst \/ ChainBroken \/ ChainNext \/ ChainEndless
           \/ nob_mkdir_if_not_exists \/ do_clean
  <2>1. /\ exit = "none" /\ Call.op # "flush" /\ pool' = pool
        /\ Return(TRUE) \/ Return(FALSE)
    BY <1>1 DEF nob_chain_begin_opt, ChainFirst, ChainBroken, ChainNext, ChainEndless,
                nob_mkdir_if_not_exists, do_clean, Calling
  <2> QED BY <2>1, FlushStep
<1>2. CASE Poll
  <2>1. exit = "none" /\ Call.op \in {"run", "chain_end"} /\ PoolFull
    BY <1>2 DEF Poll, Calling
  <2>2. pool # <<>>
    <3>1. Len(pool) # 0
      BY <2>1, MaxProcsAssumption DEF PoolFull, PoolInv
    <3> QED BY <3>1
  <2>3. Stay \/ Return(FALSE)
    BY <1>2 DEF Poll
  <2> QED BY <2>1, <2>2, <2>3, FlushStep
<1>3. CASE nob_cmd_run_opt \/ nob_chain_end_opt
  <2>1. exit = "none" /\ Call.op \in {"run", "chain_end"} /\ (Return(FALSE) \/ Started)
    BY <1>3 DEF nob_cmd_run_opt, nob_chain_end_opt, Calling
  <2>2. CASE Call.async /\ Return(TRUE)
    <3>1. Pooled(Call)
      BY <2>1, <2>2 DEF Pooled, Polled
    <3> QED BY <2>1, <2>2, <3>1, FlushStep
  <2>3. CASE Stay /\ pool' = pool
    BY <2>1, <2>3, FlushStep
  <2> QED BY <2>1, <2>2, <2>3, FlushStep DEF Started
<1>4. CASE nob_proc_wait
  <2>1. exit = "none" /\ Call.op # "flush" /\ pool' = pool /\ (Return(TRUE) \/ Return(FALSE))
    <3>1. EndedWell(Len(children)) \in BOOLEAN
      BY DEF EndedWell
    <3>2. Call.op \in {"run", "chain_end"}
      BY <1>4 DEF nob_proc_wait, PoolInv
    <3> QED BY <1>4, <3>1, <3>2 DEF nob_proc_wait
  <2> QED BY <2>1, FlushStep
<1>5. CASE nob_procs_wait
  BY <1>5, FlushStep DEF nob_procs_wait, Calling
<1>6. CASE nob_procs_flush
  <2>1. exit = "none" /\ pool' = <<>> /\ (Return(TRUE) \/ Return(FALSE))
    BY <1>6 DEF nob_procs_flush, Calling, Return
  <2> QED BY <2>1, FlushStep
<1>7. ASSUME NEW p, Works(p) \/ Breaks(p) PROVE FlushInv'
  BY <1>7 DEF Works, Breaks, Finish, Fail, Ends, driver, FlushInv
<1>8. CASE Edit \/ UNCHANGED buildVars
  BY <1>8 DEF Edit, buildVars, procVars, driver, FlushInv
<1>9. CASE Invoke
  <2>1. goal' \in Programs /\ todo' = goal' /\ exit' = "none" /\ pool' = <<>>
    BY <1>9 DEF Invoke
  <2>2. Flushed(todo')
    BY <2>1, NobKeepsTo DEF Programs
  <2> QED BY <2>1, <2>2 DEF FlushInv
<1> QED BY <1>1, <1>2, <1>3, <1>4, <1>5, <1>6, <1>7, <1>8, <1>9, AppendFlush
        DEF Next, DriverStep, DriverNext

\* A driver that flushes its pool after filling it and exits with success has
\* seen every command end well, but for the first ones of chains, which nobody
\* waits for.
THEOREM DriversSuccessMeansDone ==
  ASSUME \A g \in OtherPrograms : Flushed(g)
  PROVE  Spec => []SuccessMeansDone
<1>1. PoolInv /\ FlushInv => SuccessMeansDone
  <2> SUFFICES ASSUME PoolInv, FlushInv, exit = "success", NEW p \in Pids, ~children[p].piped
               PROVE  Seen(p)
    BY DEF SuccessMeansDone, Seen
  <2>1. Tracked(p) /\ ~waiting /\ ~Flushing /\ exit # "failure"
    BY DEF PoolInv, Flushing
  <2>2. ~Listed(p)
    BY DEF FlushInv, Listed
  <2> QED BY <2>1, <2>2 DEF Tracked
<1> QED BY <1>1, PipesInvInit, PipesInvNext, PoolInvInit, PoolInvNext, FlushInvInit,
           FlushInvNext, PTL DEF Spec

----------------------------------------------------------------------------
(* How many are in the pool *)

RoomInv ==
    /\ Len(pool) <= MaxProcs
    /\ exit = "none" =>
         \/ NoneStarted(todo)
         \/ NonePolled(todo) /\ (Call.op # "flush" => Len(pool) < MaxProcs)

LEMMA UnmixedTail ==
  ASSUME NEW s \in Seq(AllCalls), s # <<>>
  PROVE  /\ NoneStarted(s) => NoneStarted(Tail(s)) /\ Head(s).op # "start"
         /\ NonePolled(s) => NonePolled(Tail(s)) /\ ~Polled(Head(s))
<1>1. /\ \A i \in 1..Len(Tail(s)) : Tail(s)[i] = s[i + 1] /\ i + 1 \in 1..Len(s)
      /\ 1 \in 1..Len(s) /\ Head(s) = s[1]
  BY TailCalls
<1> QED BY <1>1 DEF NoneStarted, NonePolled

\* A call that leaves the pool no larger than it may be with the next call.
LEMMA RoomStep ==
  ASSUME PipesInv, PoolInv, RoomInv, exit = "none", Len(pool') \in Nat, Len(pool') <= MaxProcs,
         \/ Return(FALSE)
         \/ Stay /\ Len(pool') <= Len(pool)
         \/ Return(TRUE) /\ (Len(pool') < MaxProcs \/ Polled(Call)
                              \/ (Len(pool') <= Len(pool) /\ Call.op # "flush"))
  PROVE  RoomInv'
<1>1. CASE Return(FALSE)
  BY <1>1, ReturnFacts DEF RoomInv
<1>2. CASE Stay /\ Len(pool') <= Len(pool)
  <2>1. todo' = todo /\ exit' = exit /\ Call' = Call
    BY <1>2 DEF Stay, Call
  <2>2. Len(pool) < MaxProcs => Len(pool') < MaxProcs
    <3>1. Len(pool) \in Nat
      BY DEF PoolInv
    <3> QED BY <1>2, <3>1, MaxProcsAssumption
  <2> QED BY <2>1, <2>2 DEF RoomInv
<1>3. CASE Return(TRUE) /\ (Len(pool') < MaxProcs \/ Polled(Call)
                             \/ (Len(pool') <= Len(pool) /\ Call.op # "flush"))
  <2>1. todo \in Seq(AllCalls) /\ todo # <<>> /\ todo' = Tail(todo)
    BY <1>3, InvFacts, ReturnTail
  <2>2. CASE NoneStarted(todo)
    BY <2>1, <2>2, UnmixedTail DEF RoomInv
  <2>3. CASE NonePolled(todo) /\ (Call.op # "flush" => Len(pool) < MaxProcs)
    <3>1. NonePolled(todo') /\ ~Polled(Call)
      BY <2>1, <2>3, UnmixedTail DEF Call
    <3>2. Len(pool') < MaxProcs
      <4>1. Len(pool) \in Nat
        BY DEF PoolInv
      <4> QED BY <1>3, <2>3, <3>1, <4>1, MaxProcsAssumption
    <3> QED BY <3>1, <3>2 DEF RoomInv
  <2> QED BY <2>2, <2>3 DEF RoomInv
<1> QED BY <1>1, <1>2, <1>3

LEMMA RoomQuiet ==
  ASSUME PipesInv, PoolInv, RoomInv, exit = "none", pool' = pool,
         Return(FALSE) \/ Stay \/ (Return(TRUE) /\ Call.op # "flush")
  PROVE  RoomInv'
<1>1. Len(pool) \in Nat /\ Len(pool) <= MaxProcs
  BY DEF PoolInv, RoomInv
<1>2. Len(pool') \in Nat /\ Len(pool') <= MaxProcs /\ Len(pool') <= Len(pool)
  BY <1>1
<1> QED BY <1>2, RoomStep

\* What opt.async starts found room before.
LEMMA PolledRoom ==
  ASSUME PipesInv, PoolInv, RoomInv, exit = "none", Call.op \in {"run", "chain_end"}, ~PoolFull,
         (Return(FALSE) /\ pool' = pool) \/ Started
  PROVE  RoomInv'
<1>1. pool \in Seq(Nat) /\ Len(pool) \in Nat /\ Len(pool) <= MaxProcs /\ Call.op # "flush"
  BY DEF PoolInv, RoomInv
<1>2. CASE (Return(FALSE) \/ Stay) /\ pool' = pool
  BY <1>1, <1>2, RoomQuiet
<1>3. CASE Call.async /\ pool' = Append(pool, Pid) /\ Return(TRUE)
  <2>1. Len(pool) < MaxProcs
    BY <1>1, <1>3, MaxProcsAssumption DEF PoolFull
  <2>2. Len(pool') = Len(pool) + 1
    BY <1>1, <1>3
  <2>3. Len(pool') \in Nat /\ Len(pool') <= MaxProcs
    BY <1>1, <2>1, <2>2, MaxProcsAssumption
  <2>4. Polled(Call)
    BY <1>3 DEF Polled
  <2> QED BY <1>3, <2>3, <2>4, RoomStep
<1> QED BY <1>2, <1>3 DEF Started

LEMMA AppendRoom ==
  ASSUME PipesInv, PoolInv, RoomInv, nob_procs_append_with_flush
  PROVE  RoomInv'
<1>1. exit = "none" /\ Call.op = "start"
  BY DEF nob_procs_append_with_flush, Calling
<1>2. NonePolled(todo) /\ Len(pool) < MaxProcs
  <2>1. ~NoneStarted(todo)
    BY <1>1, InvFacts, UnmixedTail DEF Call
  <2> QED BY <1>1, <2>1 DEF RoomInv
<1>3. Len(pool') \in Nat /\ Len(pool') <= MaxProcs
  <2>1. pool \in Seq(Nat) /\ Len(pool) \in Nat
    BY DEF PoolInv
  <2>2. PICK x : pool' = Append(pool, x)
    BY DEF nob_procs_append_with_flush
  <2>3. Len(pool') = Len(pool) + 1
    BY <2>1, <2>2
  <2> QED BY <1>2, <2>1, <2>3, MaxProcsAssumption
<1>4. CASE Return(TRUE) /\ Len(pool') < MaxProcs
  BY <1>1, <1>3, <1>4, RoomStep
<1>5. CASE todo' = <<[op |-> "flush"]>> \o Tail(todo) /\ UNCHANGED <<exit, waiting, index, success>>
  <2>1. /\ Len(todo') = Len(todo) /\ Len(todo) \in Nat \ {0} /\ todo'[1] = [op |-> "flush"]
        /\ \A i \in 2..Len(todo) : todo'[i] = todo[i]
        /\ Call' = [op |-> "flush"]
    BY <1>1, <1>5, FlushInstead
  <2>2. NonePolled(todo')
    <3> SUFFICES ASSUME NEW i \in 1..Len(todo) PROVE ~Polled(todo'[i])
      BY <2>1 DEF NonePolled
    <3>1. CASE i = 1
      BY <2>1, <3>1 DEF Polled
    <3>2. CASE i # 1
      <4>1. i \in 2..Len(todo)
        BY <2>1, <3>2
      <4> QED BY <1>2, <2>1, <4>1 DEF NonePolled
    <3> QED BY <3>1, <3>2
  <2>3. Call'.op = "flush"
    BY <2>1
  <2> QED BY <1>3, <2>2, <2>3 DEF RoomInv
<1> QED BY <1>4, <1>5 DEF nob_procs_append_with_flush

LEMMA PollRoom == ASSUME PipesInv, PoolInv, RoomInv, Poll PROVE RoomInv'
<1>1. exit = "none" /\ Call.op \in {"run", "chain_end"} /\ PoolFull
  BY DEF Poll, Calling
<1>2. pool \in Seq(Nat) /\ Len(pool) \in Nat /\ Len(pool) <= MaxProcs /\ index \in 1..Len(pool)
  <2>1. pool \in Seq(Nat) /\ Len(pool) <= MaxProcs
    BY DEF PoolInv, RoomInv
  <2>2. Len(pool) \in Nat /\ Len(pool) >= 1
    BY <1>1, <2>1, MaxProcsAssumption DEF PoolFull
  <2>3. index \in Nat \ {0} /\ (index = 1 \/ index <= Len(pool))
    BY <1>1 DEF PoolInv, IndexInv
  <2> QED BY <2>1, <2>2, <2>3
<1>3. CASE (Stay \/ Return(FALSE)) /\ pool' = pool
  BY <1>1, <1>3, RoomQuiet
<1>4. CASE Stay /\ pool' = RemoveUnordered(pool, index)
  <2>1. Len(pool') = Len(pool) - 1 /\ Len(pool) >= 1
    BY <1>2, <1>4, Removed
  <2>2. Len(pool') \in Nat /\ Len(pool') <= Len(pool) /\ Len(pool') <= MaxProcs
    BY <1>2, <2>1, MaxProcsAssumption
  <2> QED BY <1>1, <1>4, <2>2, RoomStep
<1> QED BY <1>3, <1>4 DEF Poll

LEMMA FreshRoom ==
  ASSUME NEW g \in Programs, \A h \in OtherPrograms : Unmixed(h)
  PROVE  NoneStarted(g) \/ NonePolled(g)
  BY NobKeepsTo DEF Programs, Unmixed

LEMMA RoomInvInit ==
  ASSUME \A g \in OtherPrograms : Unmixed(g)
  PROVE  BuildInit => RoomInv
<1> SUFFICES ASSUME BuildInit PROVE RoomInv
  OBVIOUS
<1>1. goal \in Programs /\ todo = goal /\ pool = <<>>
  BY DEF BuildInit, ProcsInit
<1>2. NoneStarted(todo) \/ NonePolled(todo)
  BY <1>1, FreshRoom
<1>3. Len(pool) < MaxProcs /\ Len(pool) <= MaxProcs
  BY <1>1, MaxProcsAssumption
<1> QED BY <1>2, <1>3 DEF RoomInv

LEMMA RoomInvNext ==
  ASSUME \A g \in OtherPrograms : Unmixed(g)
  PROVE  PipesInv /\ PoolInv /\ RoomInv /\ [Next]_buildVars => RoomInv'
<1> SUFFICES ASSUME PipesInv, PoolInv, RoomInv, [Next]_buildVars PROVE RoomInv'
  OBVIOUS
<1>1. CASE nob_chain_begin_opt \/ ChainFirst \/ ChainBroken \/ ChainNext \/ ChainEndless
           \/ nob_mkdir_if_not_exists \/ do_clean
  <2>1. /\ exit = "none" /\ Call.op # "flush" /\ pool' = pool
        /\ Return(TRUE) \/ Return(FALSE)
    BY <1>1 DEF nob_chain_begin_opt, ChainFirst, ChainBroken, ChainNext, ChainEndless,
                nob_mkdir_if_not_exists, do_clean, Calling
  <2> QED BY <2>1, RoomQuiet
<1>2. CASE nob_cmd_run_opt \/ nob_chain_end_opt
  <2>1. /\ exit = "none" /\ Call.op \in {"run", "chain_end"} /\ ~PoolFull
        /\ (Return(FALSE) /\ pool' = pool) \/ Started
    BY <1>2 DEF nob_cmd_run_opt, nob_chain_end_opt, Calling
  <2> QED BY <2>1, PolledRoom
<1>3. CASE nob_proc_wait
  <2>1. exit = "none" /\ Call.op # "flush" /\ pool' = pool /\ (Return(TRUE) \/ Return(FALSE))
    <3>1. EndedWell(Len(children)) \in BOOLEAN
      BY DEF EndedWell
    <3>2. Call.op \in {"run", "chain_end"}
      BY <1>3 DEF nob_proc_wait, PoolInv
    <3> QED BY <1>3, <3>1, <3>2 DEF nob_proc_wait
  <2> QED BY <2>1, RoomQuiet
<1>4. CASE nob_procs_wait
  <2>1. exit = "none" /\ Stay /\ pool' = pool
    BY <1>4 DEF nob_procs_wait, Calling
  <2> QED BY <2>1, RoomQuiet
<1>5. CASE nob_procs_flush
  <2>1. exit = "none" /\ pool' = <<>> /\ (Return(TRUE) \/ Return(FALSE))
    BY <1>5 DEF nob_procs_flush, Calling, Return
  <2>2. Len(pool') \in Nat /\ Len(pool') < MaxProcs /\ Len(pool') <= MaxProcs
    BY <2>1, MaxProcsAssumption
  <2> QED BY <2>1, <2>2, RoomStep
<1>6. ASSUME NEW p, Works(p) \/ Breaks(p) PROVE RoomInv'
  BY <1>6 DEF Works, Breaks, Finish, Fail, Ends, driver, RoomInv, Call
<1>7. CASE Edit \/ UNCHANGED buildVars
  BY <1>7 DEF Edit, buildVars, procVars, driver, RoomInv, Call
<1>8. CASE Invoke
  <2>1. goal' \in Programs /\ todo' = goal' /\ pool' = <<>>
    BY <1>8 DEF Invoke
  <2>2. NoneStarted(todo') \/ NonePolled(todo')
    BY <2>1, FreshRoom
  <2>3. Len(pool') < MaxProcs /\ Len(pool') <= MaxProcs
    BY <2>1, MaxProcsAssumption
  <2> QED BY <2>2, <2>3 DEF RoomInv
<1> QED BY <1>1, <1>2, <1>3, <1>4, <1>5, <1>6, <1>7, <1>8, AppendRoom, PollRoom
        DEF Next, DriverStep, DriverNext

\* There are no more pids in the pool than places.
LEMMA PoolPids ==
  ASSUME NEW s \in Seq(Nat)
  PROVE  /\ IsFiniteSet({s[i] : i \in 1..Len(s)})
         /\ Cardinality({s[i] : i \in 1..Len(s)}) <= Len(s)
<1> DEFINE T == {s[i] : i \in 1..Len(s)}
           f == [i \in 1..Len(s) |-> s[i]]
<1>1. Len(s) \in Nat
  OBVIOUS
<1>2. IsFiniteSet(1..Len(s)) /\ Cardinality(1..Len(s)) = Len(s)
  <2>1. /\ IsFiniteSet(1..Len(s))
        /\ Cardinality(1..Len(s)) = IF 1 > Len(s) THEN 0 ELSE Len(s) - 1 + 1
    BY <1>1, FS_Interval
  <2> QED BY <1>1, <2>1
<1>3. f \in Surjection(1..Len(s), T)
  BY DEF Surjection
<1> HIDE DEF f
<1>4. IsFiniteSet(T) /\ Cardinality(T) <= Cardinality(1..Len(s))
  BY <1>2, <1>3, FS_Surjection
<1> QED BY <1>2, <1>4

\* However many processes a driver hands to the pool, no more than max_procs of
\* them run at a time, if it fills the pool either through opt.async or through
\* nob_procs_append_with_flush.
THEOREM DriversPoolBounded ==
  ASSUME \A g \in OtherPrograms : Unmixed(g)
  PROVE  Spec => []PoolBounded
<1>1. PipesInv /\ PoolInv /\ RoomInv => PoolBounded
  <2> SUFFICES ASSUME PipesInv, PoolInv, RoomInv PROVE PoolBounded
    OBVIOUS
  <2> DEFINE S == {p \in Pids : children[p].async /\ Running(p)}
             T == {pool[i] : i \in 1..Len(pool)}
  <2>1. pool \in Seq(Nat) /\ Len(pool) \in Nat /\ Len(pool) <= MaxProcs
    BY DEF PoolInv, RoomInv
  <2>2. S \subseteq T
    BY DEF PoolInv, Tracked, Listed
  <2>3. IsFiniteSet(T) /\ Cardinality(T) <= Len(pool)
    BY <2>1, PoolPids
  <2> HIDE DEF S, T
  <2>4. Cardinality(S) <= Cardinality(T) /\ Cardinality(S) \in Nat /\ Cardinality(T) \in Nat
    BY <2>2, <2>3, FS_Subset, FS_CardinalityType
  <2>5. Cardinality(S) <= MaxProcs
    BY <2>1, <2>3, <2>4, MaxProcsAssumption
  <2> QED BY <2>5 DEF S, PoolBounded
<1> QED BY <1>1, PipesInvInit, PipesInvNext, PoolInvInit, PoolInvNext, RoomInvInit,
           RoomInvNext, PTL DEF Spec

----------------------------------------------------------------------------
(* The programs of nob.c *)

NobPrograms == {build_test, build, clean}

Commands == {Command(o, I) : o \in Outputs \cup {"none"}, I \in SUBSET Outputs}
SimpleCalls == {mkdir, [op |-> "clean"]} \cup {Run(c) : c \in Commands}

\* What the proofs use of nob.c's programs: each command is waited for, needs
\* only what commands before it have made, and makes what no other makes.
Sequential(g) ==
    \A i \in 1..Len(g) :
      /\ g[i].op \in {"mkdir", "run", "clean"}
      /\ g[i].op = "clean" => i = 1
      /\ g[i].op = "run" =>
           /\ g[i].async = FALSE /\ g[i].files = {} /\ g[i].cmd \in Commands
           /\ \A f \in g[i].cmd.inputs :
                \E j \in 1..(i - 1) : g[j].op = "run" /\ g[j].cmd.output = f
           /\ \A j \in 1..(i - 1) :
                g[j].op = "run" => g[j].cmd.output # g[i].cmd.output

\* The call that runs a command making o of I.
Runs(call, o, I) ==
    /\ call \in SimpleCalls /\ call.op = "run" /\ call.async = FALSE /\ call.files = {}
    /\ call.cmd \in Commands /\ call.cmd.output = o /\ call.cmd.inputs = I

LEMMA RunFields ==
  ASSUME NEW o \in Outputs \cup {"none"}, NEW I \in SUBSET Outputs
  PROVE  Runs(Run(Command(o, I)), o, I)
<1>1. Command(o, I) \in Commands
  BY DEF Commands
<1>2. Run(Command(o, I)) \in SimpleCalls
  BY <1>1 DEF SimpleCalls
<1>3. Command(o, I).output = o /\ Command(o, I).inputs = I
  BY DEF Command
<1> QED BY <1>1, <1>2, <1>3 DEF Run, Runs

LEMMA CommandParts ==
  ASSUME NEW c \in Commands
  PROVE  c.output \in Outputs \cup {"none"} /\ c.inputs \subseteq Outputs
<1>1. PICK o \in Outputs \cup {"none"}, I \in SUBSET Outputs : c = Command(o, I)
  BY DEF Commands
<1> QED BY <1>1 DEF Command

LEMMA NobSequential ==
  ASSUME NEW g \in NobPrograms
  PROVE  g \in Seq(SimpleCalls) /\ Len(g) \in Nat \ {0} /\ Sequential(g)
<1>1. mkdir \in SimpleCalls /\ mkdir.op = "mkdir"
  BY DEF SimpleCalls, mkdir
<1>2. /\ "impl.o" \in Outputs \cup {"none"} /\ "mcp.o" \in Outputs \cup {"none"}
      /\ "odoo.o" \in Outputs \cup {"none"} /\ "tests" \in Outputs \cup {"none"}
      /\ "TARGET" \in Outputs \cup {"none"} /\ "none" \in Outputs \cup {"none"}
      /\ {} \in SUBSET Outputs /\ Objects \in SUBSET Outputs /\ {"tests"} \in SUBSET Outputs
  BY DEF Outputs, Objects
<1>3. CASE g = build_test
  <2> DEFINE r1 == Run(Command("impl.o", {}))
             r2 == Run(Command("mcp.o", {}))
             r3 == Run(Command("odoo.o", {}))
             r4 == Run(Command("tests", Objects))
             r5 == Run(Command("none", {"tests"}))
  <2>1. g = <<mkdir, r1, r2, r3, r4, r5>>
    BY <1>3 DEF build_test, Compile
  <2>2. Runs(r1, "impl.o", {}) /\ Runs(r2, "mcp.o", {}) /\ Runs(r3, "odoo.o", {})
    BY <1>2, RunFields
  <2>3. Runs(r4, "tests", Objects) /\ Runs(r5, "none", {"tests"})
    BY <1>2, RunFields
  <2> HIDE DEF r1, r2, r3, r4, r5
  <2>4. g \in Seq(SimpleCalls) /\ Len(g) = 6
    BY <1>1, <2>1, <2>2, <2>3 DEF Runs
  <2>5. /\ g[1].op = "mkdir"
        /\ Runs(g[2], "impl.o", {}) /\ Runs(g[3], "mcp.o", {}) /\ Runs(g[4], "odoo.o", {})
        /\ Runs(g[5], "tests", Objects) /\ Runs(g[6], "none", {"tests"})
    BY <1>1, <2>1, <2>2, <2>3
  <2>6. ASSUME NEW i \in 1..6
        PROVE  /\ g[i].op \in {"mkdir", "run", "clean"}
               /\ g[i].op = "clean" => i = 1
               /\ g[i].op = "run" =>
                    g[i].async = FALSE /\ g[i].files = {} /\ g[i].cmd \in Commands
    <3>1. i = 1 \/ i = 2 \/ i = 3 \/ i = 4 \/ i = 5 \/ i = 6
      OBVIOUS
    <3> QED BY <2>5, <3>1 DEF Runs
  <2>7. ASSUME NEW i \in 1..6, g[i].op = "run", NEW f \in g[i].cmd.inputs
        PROVE  \E j \in 1..(i - 1) : g[j].op = "run" /\ g[j].cmd.output = f
    <3>1. i = 1 \/ i = 2 \/ i = 3 \/ i = 4 \/ i = 5 \/ i = 6
      OBVIOUS
    <3>2. CASE i = 5
      <4>1. f = "impl.o" \/ f = "mcp.o" \/ f = "odoo.o"
        BY <2>5, <2>7, <3>2 DEF Runs, Objects
      <4>2. 2 \in 1..(i - 1) /\ 3 \in 1..(i - 1) /\ 4 \in 1..(i - 1)
        BY <3>2
      <4> QED BY <2>5, <4>1, <4>2 DEF Runs
    <3>3. CASE i = 6
      <4>1. f = "tests" /\ 5 \in 1..(i - 1)
        BY <2>5, <2>7, <3>3 DEF Runs
      <4> QED BY <2>5, <4>1 DEF Runs
    <3> QED BY <2>5, <2>7, <3>1, <3>2, <3>3 DEF Runs
  <2>8. ASSUME NEW i \in 1..6, NEW j \in 1..(i - 1), g[i].op = "run", g[j].op = "run"
        PROVE  g[j].cmd.output # g[i].cmd.output
    <3>1. i = 1 \/ i = 2 \/ i = 3 \/ i = 4 \/ i = 5 \/ i = 6
      OBVIOUS
    <3>2. j = 1 \/ j = 2 \/ j = 3 \/ j = 4 \/ j = 5
      OBVIOUS
    <3>3. j < i
      OBVIOUS
    <3> QED BY <2>5, <2>8, <3>1, <3>2, <3>3 DEF Runs
  <2>9. Sequential(g)
    BY <2>4, <2>6, <2>7, <2>8 DEF Sequential
  <2> QED BY <2>4, <2>9
<1>4. CASE g = build
  <2> DEFINE r1 == Run(Command("TARGET", {}))
  <2>1. g = <<mkdir, r1>>
    BY <1>4 DEF build
  <2>2. Runs(r1, "TARGET", {})
    BY <1>2, RunFields
  <2> HIDE DEF r1
  <2>3. g \in Seq(SimpleCalls) /\ Len(g) = 2 /\ g[1].op = "mkdir" /\ Runs(g[2], "TARGET", {})
    BY <1>1, <2>1, <2>2 DEF Runs
  <2>4. ASSUME NEW i \in 1..2 PROVE i = 1 \/ i = 2
    OBVIOUS
  <2>5. Sequential(g)
    BY <2>3, <2>4 DEF Sequential, Runs
  <2> QED BY <2>3, <2>5
<1>5. CASE g = clean
  <2>1. g = <<[op |-> "clean"]>>
    BY <1>5 DEF clean
  <2>2. g \in Seq(SimpleCalls) /\ Len(g) = 1 /\ g[1].op = "clean"
    BY <2>1 DEF SimpleCalls
  <2>3. Sequential(g)
    BY <2>2 DEF Sequential
  <2> QED BY <2>2, <2>3
<1> QED BY <1>3, <1>4, <1>5 DEF NobPrograms

----------------------------------------------------------------------------
(* The invariant *)

NobChildren ==
    [cmd : Commands, input : {{}}, piped : {FALSE}, holds : {{}}, async : {FALSE},
     state : {"running", "ended", "reaped"}, ok : BOOLEAN]

\* The call being made is the At-th of the program.
At == Len(goal) - Len(todo) + 1

OnTheWay ==
    /\ todo \in Seq(SimpleCalls) /\ Len(todo) \in 1..Len(goal)
    /\ \A i \in 1..Len(todo) : todo[i] = goal[Len(goal) - Len(todo) + i]

\* The i-th call has left what it is to leave.
Made(i) ==
    goal[i].op = "run" =>
      /\ goal[i].cmd.output \in Outputs => files[goal[i].cmd.output] = edition
      /\ "tests" \in goal[i].cmd.inputs => tested = edition

\* Only the process that is waited for can be running.
OnlyTheLast == \A p \in Pids : Running(p) => waiting /\ p = Len(children)

TheProcess ==
    waiting =>
      /\ Call.op = "run" /\ Len(children) > 0
      /\ children[Len(children)].cmd = Call.cmd
      /\ EndedWell(Len(children)) => Made(At)

\* The driver is in the middle of a program of nob.c.
UnderWay ==
    /\ OnTheWay /\ OnlyTheLast /\ TheProcess
    /\ \A i \in 1..(At - 1) : Made(i)

NobRun ==
    goal \in NobPrograms =>
      /\ children \in Seq(NobChildren) /\ fds = {}
      /\ exit = "none" => UnderWay
      /\ exit # "none" => \A p \in Pids : ~Running(p)

BuildInv ==
    /\ edition \in Nat
    /\ files = [f \in Outputs |-> files[f]]
    /\ NobRun

----------------------------------------------------------------------------
(* A call of nob.c *)

\* The call being made is one of the program's.
LEMMA TheCall ==
  ASSUME goal \in NobPrograms, OnTheWay
  PROVE  /\ At \in 1..Len(goal) /\ Call = goal[At] /\ Call = todo[1]
         /\ Call.op \in {"mkdir", "run", "clean"}
         /\ Call.op = "clean" => At = 1
         /\ Call.op = "run" =>
              Call.async = FALSE /\ Call.files = {} /\ Call.cmd \in Commands
<1>1. Len(goal) \in Nat \ {0} /\ Sequential(goal)
  BY NobSequential
<1>2. Len(todo) \in 1..Len(goal) /\ todo \in Seq(SimpleCalls)
  BY DEF OnTheWay
<1>3. At \in 1..Len(goal)
  BY <1>1, <1>2 DEF At
<1>4. Call = todo[1]
  BY <1>1, <1>2 DEF Call
<1>5. todo[1] = goal[At]
  <2>1. 1 \in 1..Len(todo)
    BY <1>1, <1>2
  <2> QED BY <2>1 DEF OnTheWay, At
<1> QED BY <1>1, <1>3, <1>4, <1>5 DEF Sequential

\* A call returns: the next one is made, or the driver exits.
LEMMA ReturnEffect ==
  ASSUME goal \in NobPrograms, OnTheWay, goal' = goal, NEW ok \in BOOLEAN, Return(ok)
  PROVE  /\ waiting' = FALSE
         /\ ~ok => exit' = "failure"
         /\ ok /\ At = Len(goal) => exit' = "success"
         /\ exit' = "none" => ok
         /\ ok /\ At # Len(goal) => exit' = "none" /\ OnTheWay' /\ At' = At + 1
<1>1. Len(goal) \in Nat
  BY NobSequential
<1>2. Len(todo) \in 1..Len(goal) /\ todo \in Seq(SimpleCalls)
  BY DEF OnTheWay
<1>3. At = Len(goal) => Len(todo) = 1
  <2>1. \A m, n \in Int : m - n + 1 = m => n = 1
    OBVIOUS
  <2>2. Len(todo) \in Int /\ Len(goal) \in Int
    BY <1>1, <1>2
  <2> QED BY <2>1, <2>2 DEF At
<1>3a. Len(todo) = 1 => At = Len(goal)
  BY <1>1, <1>2 DEF At
<1>4. ASSUME ok, Len(todo) # 1
      PROVE  OnTheWay' /\ At' = At + 1
  <2>1. todo' = Tail(todo)
    BY <1>4 DEF Return
  <2>2. todo' \in Seq(SimpleCalls) /\ Len(todo') = Len(todo) - 1
    BY <1>1, <1>2, <2>1
  <2>3. ASSUME NEW i \in 1..Len(todo')
        PROVE  todo'[i] = goal[Len(goal) - Len(todo') + i]
    <3>1. i + 1 \in 1..Len(todo) /\ todo'[i] = todo[i + 1]
      BY <1>1, <1>2, <2>1, <2>2
    <3>2. todo[i + 1] = goal[Len(goal) - Len(todo) + (i + 1)]
      BY <3>1 DEF OnTheWay
    <3>3. Len(goal) - Len(todo) + (i + 1) = Len(goal) - Len(todo') + i
      BY <1>1, <1>2, <2>2
    <3> QED BY <3>1, <3>2, <3>3
  <2>4. Len(todo') \in 1..Len(goal)
    BY <1>1, <1>2, <1>4, <2>2
  <2>5. At' = At + 1
    BY <1>1, <1>2, <2>2 DEF At
  <2> QED BY <2>2, <2>3, <2>4, <2>5 DEF OnTheWay
<1> QED BY <1>3, <1>3a, <1>4 DEF Return

\* What was made stays made as long as files, edition and tests stand.
LEMMA MadeStands ==
  ASSUME NEW i, Made(i), goal' = goal, UNCHANGED <<files, edition, tested>>
  PROVE  Made(i)'
BY DEF Made

\* The invariant after a call that returns with no process running, all it was
\* to make being made.
LEMMA ReturnKeeps ==
  ASSUME BuildInv, goal \in NobPrograms, goal' = goal, exit = "none",
         NEW ok \in BOOLEAN, Return(ok), UNCHANGED edition,
         files' = [f \in Outputs |-> files'[f]],
         children' \in Seq(NobChildren), fds' = {},
         \A p \in 1..Len(children') : children'[p].state # "running",
         ok => \A i \in 1..At : Made(i)'
  PROVE  BuildInv'
<1>1. OnTheWay
  BY DEF BuildInv, NobRun, UnderWay
<1>2. \A p \in Pids' : ~Running(p)'
  BY DEF Pids, Running
<1>3. edition' \in Nat
  BY DEF BuildInv
<1>4. ASSUME exit' = "none"
      PROVE  UnderWay'
  <2>1. ok /\ At # Len(goal)
    BY <1>1, <1>4, ReturnEffect
  <2>2. OnTheWay' /\ At' = At + 1 /\ waiting' = FALSE
    BY <1>1, <2>1, ReturnEffect
  <2>3. At \in Nat
    BY <1>1, TheCall, NobSequential
  <2>4. \A i \in 1..(At' - 1) : Made(i)'
    BY <2>1, <2>2, <2>3
  <2>5. OnlyTheLast'
    BY <1>2 DEF OnlyTheLast
  <2>6. TheProcess'
    BY <2>2 DEF TheProcess
  <2> QED BY <2>2, <2>4, <2>5, <2>6 DEF UnderWay
<1> QED BY <1>2, <1>3, <1>4 DEF BuildInv, NobRun

LEMMA UnderWayFacts ==
  ASSUME BuildInv, goal \in NobPrograms, exit = "none"
  PROVE  /\ UnderWay /\ children \in Seq(NobChildren) /\ fds = {}
         /\ ~waiting => \A p \in 1..Len(children) : children[p].state # "running"
<1>1. UnderWay /\ children \in Seq(NobChildren) /\ fds = {}
  BY DEF BuildInv, NobRun
<1>2. ~waiting => \A p \in 1..Len(children) : children[p].state # "running"
  BY <1>1 DEF UnderWay, OnlyTheLast, Pids, Running
<1> QED BY <1>1, <1>2

LEMMA MkdirKeeps ==
  ASSUME BuildInv, goal \in NobPrograms, nob_mkdir_if_not_exists
  PROVE  BuildInv'
<1>1. /\ exit = "none" /\ ~waiting /\ Call.op = "mkdir" /\ Return(TRUE)
      /\ UNCHANGED <<children, fds, edition, files, tested, goal>>
  BY DEF nob_mkdir_if_not_exists, Calling
<1>2. UnderWay /\ children \in Seq(NobChildren) /\ fds = {}
      /\ \A p \in 1..Len(children) : children[p].state # "running"
  BY <1>1, UnderWayFacts
<1>3. At \in 1..Len(goal) /\ goal[At].op = "mkdir"
  BY <1>1, <1>2, TheCall DEF UnderWay
<1>4. \A i \in 1..At : Made(i)'
  <2> SUFFICES ASSUME NEW i \in 1..At PROVE Made(i)'
    OBVIOUS
  <2>1. CASE i = At
    BY <1>1, <1>3, <2>1 DEF Made
  <2>2. CASE i # At
    <3>1. i \in 1..(At - 1)
      BY <1>3, <2>2, NobSequential
    <3> QED BY <1>1, <1>2, <3>1, MadeStands DEF UnderWay
  <2> QED BY <2>1, <2>2
<1>5. files' = [f \in Outputs |-> files'[f]]
  BY <1>1 DEF BuildInv
<1> QED BY <1>1, <1>2, <1>4, <1>5, ReturnKeeps

LEMMA CleanKeeps ==
  ASSUME BuildInv, goal \in NobPrograms, do_clean
  PROVE  BuildInv'
<1>1. /\ exit = "none" /\ ~waiting /\ Call.op = "clean" /\ Return(TRUE)
      /\ UNCHANGED <<children, fds, edition, tested, goal>>
      /\ files' = [files EXCEPT !["TARGET"] = 0]
  BY DEF do_clean, Calling
<1>2. UnderWay /\ children \in Seq(NobChildren) /\ fds = {}
      /\ \A p \in 1..Len(children) : children[p].state # "running"
  BY <1>1, UnderWayFacts
<1>3. At = 1 /\ goal[At].op = "clean"
  BY <1>1, <1>2, TheCall DEF UnderWay
<1>4. \A i \in 1..At : Made(i)'
  <2> SUFFICES ASSUME NEW i \in 1..At PROVE Made(i)'
    OBVIOUS
  <2>1. i = At
    BY <1>3
  <2> QED BY <1>1, <1>3, <2>1 DEF Made
<1>5. files' = [f \in Outputs |-> files'[f]]
  BY <1>1 DEF BuildInv
<1> QED BY <1>1, <1>2, <1>4, <1>5, ReturnKeeps

\* The drivers' other calls do not occur in nob.c.
LEMMA SimpleCallsOnly ==
  ASSUME goal \in NobPrograms, OnTheWay, DriverNext
  PROVE  nob_cmd_run_opt \/ nob_proc_wait
<1>1. Call.op \in {"mkdir", "run", "clean"} /\ (Call.op = "run" => Call.async = FALSE)
  BY TheCall
<1>2. ~Poll
  BY <1>1 DEF Poll, Calling, PoolFull
<1>3. ~nob_procs_append_with_flush /\ ~nob_procs_wait /\ ~nob_procs_flush
  BY <1>1 DEF nob_procs_append_with_flush, nob_procs_wait, nob_procs_flush, Calling
<1>4. /\ ~nob_chain_begin_opt /\ ~ChainFirst /\ ~ChainBroken /\ ~ChainNext
      /\ ~ChainEndless /\ ~nob_chain_end_opt
  BY <1>1 DEF nob_chain_begin_opt, ChainFirst, ChainBroken, ChainNext, ChainEndless,
              nob_chain_end_opt, Calling
<1> QED BY <1>2, <1>3, <1>4 DEF DriverNext

LEMMA RunKeeps ==
  ASSUME BuildInv, goal \in NobPrograms, nob_cmd_run_opt, UNCHANGED <<tree, goal>>
  PROVE  BuildInv'
<1>1. /\ exit = "none" /\ ~waiting /\ Call.op = "run"
      /\ UNCHANGED <<edition, files, tested, goal>>
  BY DEF nob_cmd_run_opt, Calling, tree
<1>2. UnderWay /\ children \in Seq(NobChildren) /\ fds = {}
      /\ \A p \in 1..Len(children) : children[p].state # "running"
  BY <1>1, UnderWayFacts
<1>3. Call.async = FALSE /\ Call.files = {} /\ Call.cmd \in Commands
  BY <1>1, <1>2, TheCall DEF UnderWay
<1>4. files' = [f \in Outputs |-> files'[f]]
  BY <1>1 DEF BuildInv
<1>5. CASE Return(FALSE) /\ UNCHANGED <<children, pool, fds>>
  BY <1>1, <1>2, <1>4, <1>5, ReturnKeeps
<1>6. CASE /\ nob__cmd_start_process(Child(Call.cmd, {}, FALSE, fds \cup Call.files, Call.async))
           /\ Started
           /\ fds' = IF Call.async THEN fds ELSE fds \cup Call.files
  <2> DEFINE child == Child(Call.cmd, {}, FALSE, fds \cup Call.files, Call.async)
  <2>1. child = [cmd |-> Call.cmd, input |-> {}, piped |-> FALSE, holds |-> {},
                 async |-> FALSE, state |-> "running", ok |-> FALSE]
    BY <1>2, <1>3 DEF Child
  <2>2. children' = Append(children, child)
    BY <1>6 DEF nob__cmd_start_process
  <2> HIDE DEF child
  <2>3. child \in NobChildren /\ child.cmd = Call.cmd /\ child.state = "running"
    BY <1>3, <2>1 DEF NobChildren
  <2>4. /\ children' \in Seq(NobChildren) /\ Len(children') = Len(children) + 1
        /\ children'[Len(children')] = child
        /\ \A p \in 1..Len(children) : children'[p] = children[p]
    BY <1>2, <2>2, <2>3
  <2>5. fds' = {} /\ waiting' = TRUE /\ UNCHANGED <<todo, exit>>
    BY <1>2, <1>3, <1>6 DEF Started, Stay
  <2>6. OnTheWay' /\ At' = At /\ Call' = Call
    BY <1>1, <1>2, <2>5 DEF UnderWay, OnTheWay, At, Call
  <2>7. OnlyTheLast'
    <3> SUFFICES ASSUME NEW p \in 1..Len(children'), children'[p].state = "running"
                 PROVE  p = Len(children')
      BY <2>5 DEF OnlyTheLast, Pids, Running
    <3>1. p \notin 1..Len(children)
      BY <1>2, <2>4
    <3> QED BY <1>2, <2>4, <3>1
  <2>8. TheProcess'
    <3>1. ~EndedWell(Len(children))'
      BY <2>3, <2>4 DEF EndedWell
    <3>2. Len(children') > 0
      BY <1>2, <2>4
    <3> QED BY <1>1, <2>3, <2>4, <2>6, <3>1, <3>2 DEF TheProcess
  <2>9. \A i \in 1..(At' - 1) : Made(i)'
    BY <1>1, <1>2, <2>6, MadeStands DEF UnderWay
  <2>10. UnderWay'
    BY <2>6, <2>7, <2>8, <2>9 DEF UnderWay
  <2> QED BY <1>1, <1>4, <2>4, <2>5, <2>10 DEF BuildInv, NobRun
<1> QED BY <1>5, <1>6 DEF nob_cmd_run_opt

LEMMA WaitKeeps ==
  ASSUME BuildInv, goal \in NobPrograms, nob_proc_wait, UNCHANGED <<tree, goal>>
  PROVE  BuildInv'
<1> DEFINE last == Len(children)
           ok   == EndedWell(last)
<1>1. /\ exit = "none" /\ waiting /\ Waitable(last) /\ Reap(last) /\ Return(ok)
      /\ fds' = fds \ (Opened \cup IF Call.op = "chain_end" THEN ChainEndCloses ELSE {})
      /\ UNCHANGED <<edition, files, tested, goal>>
  BY DEF nob_proc_wait, tree, Close
<1>2. UnderWay /\ children \in Seq(NobChildren) /\ fds = {}
  BY <1>1, UnderWayFacts
<1>3. At \in 1..Len(goal) /\ last > 0 /\ (ok => Made(At))
  BY <1>1, <1>2, TheCall DEF UnderWay, TheProcess
<1>4. files' = [f \in Outputs |-> files'[f]]
  BY <1>1 DEF BuildInv
<1>5. fds' = {}
  BY <1>1, <1>2
<1>6. ok \in BOOLEAN
  BY DEF EndedWell
<1>7. /\ children' \in Seq(NobChildren) /\ Len(children') = last
      /\ children'[last].state = "reaped"
      /\ \A p \in 1..last : p # last => children'[p] = children[p]
  <2>1. children' = [children EXCEPT ![last].state = "reaped"] /\ last \in 1..Len(children)
    BY <1>1, <1>2, <1>3 DEF Reap
  <2>2. children[last] \in NobChildren
    BY <1>2, <2>1
  <2>3. [children[last] EXCEPT !.state = "reaped"] \in NobChildren
    BY <2>2 DEF NobChildren
  <2> DEFINE c == [children[last] EXCEPT !.state = "reaped"]
  <2>4. children' = [children EXCEPT ![last] = c] /\ c.state = "reaped" /\ c \in NobChildren
    BY <2>1, <2>2, <2>3 DEF NobChildren
  <2> HIDE DEF c
  <2> QED BY <1>2, <2>1, <2>4
<1>8. \A p \in 1..Len(children') : children'[p].state # "running"
  <2> SUFFICES ASSUME NEW p \in 1..last PROVE children'[p].state # "running"
    BY <1>7
  <2>1. CASE p = last
    BY <1>7, <2>1
  <2>2. CASE p # last
    BY <1>2, <1>7, <2>2 DEF UnderWay, OnlyTheLast, Pids, Running
  <2> QED BY <2>1, <2>2
<1>9. ok => \A i \in 1..At : Made(i)'
  <2> SUFFICES ASSUME ok, NEW i \in 1..At PROVE Made(i)'
    OBVIOUS
  <2>1. Made(i)
    <3>1. i = At \/ i \in 1..(At - 1)
      BY <1>3, NobSequential
    <3> QED BY <1>2, <1>3, <3>1 DEF UnderWay
  <2> QED BY <1>1, <2>1, MadeStands
<1> HIDE DEF ok
<1> QED BY <1>1, <1>4, <1>5, <1>6, <1>7, <1>8, <1>9, ReturnKeeps

----------------------------------------------------------------------------
(* The processes *)

\* A command whose inputs are all of the present edition makes such an output.
LEMMA MadeFromFresh ==
  ASSUME NEW cmd, edition \in Nat, \A f \in cmd.inputs : files[f] = edition
  PROVE  MadeFrom(cmd) = edition
<1>1. {edition} \cup {files[f] : f \in cmd.inputs} = {edition}
  OBVIOUS
<1>2. Min({edition}) = edition
  BY DEF Min
<1> QED BY <1>1, <1>2 DEF MadeFrom

\* What the process of call At leaves, and that it spoils nothing made before.
LEMMA EffectMakes ==
  ASSUME goal \in NobPrograms, OnTheWay, edition \in Nat,
         files = [f \in Outputs |-> files[f]], \A i \in 1..(At - 1) : Made(i),
         Call.op = "run", NEW ok \in BOOLEAN, UNCHANGED <<goal, edition, todo>>,
         Effect(Call.cmd, ok) \/ UNCHANGED <<files, tested>>
  PROVE  /\ files' = [f \in Outputs |-> files'[f]]
         /\ \A i \in 1..(At - 1) : Made(i)'
         /\ ok /\ Effect(Call.cmd, ok) => Made(At)'
<1>1. Sequential(goal) /\ Len(goal) \in Nat
  BY NobSequential
<1>2. At \in 1..Len(goal) /\ Call = goal[At] /\ goal[At].op = "run"
  BY TheCall
<1>3. CASE UNCHANGED <<files, tested>> /\ ~Effect(Call.cmd, ok)
  BY <1>3, MadeStands
<1>4. CASE Effect(Call.cmd, ok)
  <2> DEFINE cmd == goal[At].cmd
  <2>1. \A f \in cmd.inputs :
          \E j \in 1..(At - 1) : goal[j].op = "run" /\ goal[j].cmd.output = f
    BY <1>1, <1>2 DEF Sequential
  <2>2. cmd \in Commands
    BY <1>1, <1>2 DEF Sequential
  <2>3. cmd.inputs \subseteq Outputs
    BY <2>2, CommandParts
  <2>4. \A f \in cmd.inputs : files[f] = edition
    BY <2>1, <2>3 DEF Made
  <2>5. MadeFrom(cmd) = edition
    BY <2>4, MadeFromFresh
  <2>6. /\ files' = IF cmd.output \notin Outputs THEN files
                    ELSE [files EXCEPT ![cmd.output] = IF ok THEN edition ELSE 0]
        /\ tested' = IF "tests" \in cmd.inputs THEN files["tests"] ELSE tested
    BY <1>2, <1>4, <2>5 DEF Effect
  <2>7. tested' = tested \/ tested' = edition
    BY <2>4, <2>6
  <2>8. files' = [f \in Outputs |-> files'[f]]
    BY <2>6
  <2>9. ASSUME NEW i \in 1..(At - 1) PROVE Made(i)'
    <3>1. Made(i)
      OBVIOUS
    <3>2. SUFFICES ASSUME goal[i].op = "run"
                   PROVE  /\ goal[i].cmd.output \in Outputs =>
                               files'[goal[i].cmd.output] = edition
                          /\ "tests" \in goal[i].cmd.inputs => tested' = edition
      BY DEF Made
    <3>3. goal[i].cmd.output # cmd.output
      BY <1>1, <1>2, <3>2 DEF Sequential
    <3>4. goal[i].cmd.output \in Outputs => files'[goal[i].cmd.output] = files[goal[i].cmd.output]
      BY <2>6, <3>3
    <3> QED BY <2>7, <3>1, <3>2, <3>4 DEF Made
  <2>10. ok => Made(At)'
    <3> SUFFICES ASSUME ok PROVE Made(At)'
      OBVIOUS
    <3>1. cmd.output \in Outputs => files'[cmd.output] = edition
      BY <2>6
    <3>2. "tests" \in cmd.inputs => tested' = edition
      BY <2>4, <2>6
    <3>3. At' = At
      BY DEF At
    <3> QED BY <1>2, <3>1, <3>2, <3>3 DEF Made
  <2> QED BY <2>8, <2>9, <2>10
<1> QED BY <1>3, <1>4

LEMMA ProcessKeeps ==
  ASSUME BuildInv, goal \in NobPrograms, NEW p, Works(p) \/ Breaks(p)
  PROVE  BuildInv'
<1>1. PICK ok \in BOOLEAN :
        /\ p \in Pids /\ Running(p) /\ Ends(p, ok)
        /\ Effect(children[p].cmd, ok) \/ (ok = FALSE /\ UNCHANGED <<files, tested>>)
        /\ UNCHANGED <<edition, goal>>
  BY DEF Works, Breaks, Finish, Fail
<1>2. exit = "none"
  BY <1>1 DEF BuildInv, NobRun
<1>3. UnderWay /\ children \in Seq(NobChildren) /\ fds = {}
  BY <1>2, UnderWayFacts
<1>4. waiting /\ p = Len(children) /\ Call.op = "run" /\ children[p].cmd = Call.cmd
  BY <1>1, <1>3 DEF UnderWay, OnlyTheLast, TheProcess
<1>5. /\ children' = [children EXCEPT ![p].state = "ended", ![p].ok = ok]
      /\ UNCHANGED <<todo, waiting, fds, exit>>
  BY <1>1 DEF Ends, driver
<1>6. /\ children' \in Seq(NobChildren) /\ Len(children') = Len(children)
      /\ children'[p].state = "ended" /\ children'[p].ok = ok
      /\ children'[p].cmd = children[p].cmd
      /\ \A q \in 1..Len(children) : q # p => children'[q] = children[q]
  <2>1. p \in 1..Len(children) /\ children[p] \in NobChildren
    BY <1>1, <1>3 DEF Pids
  <2> DEFINE c == [children[p] EXCEPT !.state = "ended", !.ok = ok]
  <2>2. /\ c \in NobChildren /\ c.state = "ended" /\ c.ok = ok /\ c.cmd = children[p].cmd
    BY <2>1 DEF NobChildren
  <2>3. children' = [children EXCEPT ![p] = c]
    BY <1>3, <1>5, <2>1 DEF NobChildren
  <2> HIDE DEF c
  <2> QED BY <1>3, <2>1, <2>2, <2>3
<1>7. edition \in Nat /\ files = [f \in Outputs |-> files[f]]
  BY DEF BuildInv
<1>8. /\ files' = [f \in Outputs |-> files'[f]]
      /\ \A i \in 1..(At - 1) : Made(i)'
      /\ ok => Made(At)'
  BY <1>1, <1>3, <1>4, <1>5, <1>7, EffectMakes DEF UnderWay
<1>9. OnTheWay' /\ At' = At /\ Call' = Call
  BY <1>1, <1>3, <1>5 DEF UnderWay, OnTheWay, At, Call
<1>10. OnlyTheLast'
  <2> SUFFICES ASSUME NEW q \in 1..Len(children'), children'[q].state = "running"
               PROVE  FALSE
    BY DEF OnlyTheLast, Pids, Running
  <2>1. q # p
    BY <1>6
  <2>2. children[q].state = "running" /\ q \in 1..Len(children)
    BY <1>6, <2>1
  <2> QED BY <1>3, <1>4, <2>1, <2>2 DEF UnderWay, OnlyTheLast, Pids, Running
<1>11. TheProcess'
  <2>1. Len(children') > 0
    BY <1>1, <1>3, <1>6 DEF Pids
  <2>2. EndedWell(Len(children))' => ok
    BY <1>4, <1>6 DEF EndedWell
  <2> QED BY <1>4, <1>6, <1>8, <1>9, <2>1, <2>2 DEF TheProcess
<1>12. UnderWay'
  BY <1>8, <1>9, <1>10, <1>11 DEF UnderWay
<1> QED BY <1>1, <1>2, <1>5, <1>6, <1>3, <1>7, <1>8, <1>12 DEF BuildInv, NobRun

----------------------------------------------------------------------------
(* Any step *)

\* Whatever the program, files of build/ stay what they are: files.
LEMMA TreeKeeps ==
  ASSUME BuildInv, Next
  PROVE  edition' \in Nat /\ files' = [f \in Outputs |-> files'[f]]
<1>1. edition \in Nat /\ files = [f \in Outputs |-> files[f]]
  BY DEF BuildInv
<1>2. CASE DriverStep
  BY <1>1, <1>2 DEF DriverStep, tree, nob_mkdir_if_not_exists, do_clean
<1>3. ASSUME NEW p, Works(p) \/ Breaks(p)
      PROVE  edition' \in Nat /\ files' = [f \in Outputs |-> files'[f]]
  <2>1. edition' = edition
    BY <1>3 DEF Works, Breaks
  <2>2. UNCHANGED files \/ \E ok \in BOOLEAN : Effect(children[p].cmd, ok)
    BY <1>3 DEF Works, Breaks
  <2> QED BY <1>1, <2>1, <2>2 DEF Effect
<1>4. CASE Edit \/ Invoke
  BY <1>1, <1>4 DEF Edit, Invoke
<1> QED BY <1>2, <1>3, <1>4 DEF Next

\* A run begins.
LEMMA BeginKeeps ==
  ASSUME goal' \in Programs, todo' = goal', exit' = "none", waiting' = FALSE,
         children' = <<>>, fds' = {}, edition' \in Nat,
         files' = [f \in Outputs |-> files'[f]]
  PROVE  BuildInv'
<1> SUFFICES ASSUME goal' \in NobPrograms PROVE UnderWay'
  BY DEF BuildInv, NobRun
<1>1. goal' \in Seq(SimpleCalls) /\ Len(goal') \in Nat \ {0}
  BY NobSequential
<1>2. OnTheWay' /\ At' = 1
  BY <1>1 DEF OnTheWay, At
<1>3. OnlyTheLast' /\ TheProcess'
  BY DEF OnlyTheLast, TheProcess, Pids
<1> QED BY <1>2, <1>3 DEF UnderWay

LEMMA BuildInvInit == BuildInit => BuildInv
<1> SUFFICES ASSUME BuildInit PROVE BuildInv
  OBVIOUS
<1>1. /\ todo = goal /\ exit = "none" /\ waiting = FALSE /\ children = <<>> /\ fds = {}
      /\ edition = 1 /\ files = [f \in Outputs |-> 0]
  BY DEF BuildInit, ProcsInit
<1>2. ASSUME goal \in NobPrograms PROVE UnderWay
  <2>1. goal \in Seq(SimpleCalls) /\ Len(goal) \in Nat \ {0}
    BY <1>2, NobSequential
  <2>2. OnTheWay /\ At = 1
    BY <1>1, <2>1 DEF OnTheWay, At
  <2>3. OnlyTheLast /\ TheProcess
    BY <1>1 DEF OnlyTheLast, TheProcess, Pids
  <2> QED BY <2>2, <2>3 DEF UnderWay
<1>3. files = [f \in Outputs |-> files[f]]
  BY <1>1
<1> QED BY <1>1, <1>2, <1>3 DEF BuildInv, NobRun

LEMMA BuildInvNext == BuildInv /\ [Next]_buildVars => BuildInv'
<1> SUFFICES ASSUME BuildInv, [Next]_buildVars PROVE BuildInv'
  OBVIOUS
<1>1. CASE UNCHANGED buildVars
  BY <1>1 DEF buildVars, procVars, driver, BuildInv, NobRun, UnderWay, OnTheWay, OnlyTheLast,
     TheProcess, Made, At, Call, EndedWell, Pids, Running
<1>2. CASE Next
  <2>1. edition' \in Nat /\ files' = [f \in Outputs |-> files'[f]]
    BY <1>2, TreeKeeps
  <2>2. CASE Invoke
    BY <2>1, <2>2, BeginKeeps DEF Invoke
  <2>3. CASE ~Invoke /\ goal \notin NobPrograms
    <3>1. goal' = goal
      BY <1>2, <2>3 DEF Next, DriverStep, nob_mkdir_if_not_exists, do_clean, Works, Breaks, Edit
    <3> QED BY <2>1, <2>3, <3>1 DEF BuildInv, NobRun
  <2>4. CASE goal \in NobPrograms /\ DriverStep
    <3>1. CASE nob_mkdir_if_not_exists
      BY <2>4, <3>1, MkdirKeeps
    <3>2. CASE do_clean
      BY <2>4, <3>2, CleanKeeps
    <3>3. CASE DriverNext /\ UNCHANGED <<tree, goal, runs>>
      <4>1. exit = "none"
        BY <3>3 DEF DriverNext, Calling, Poll, nob_cmd_run_opt, nob_proc_wait,
           nob_procs_append_with_flush, nob_procs_wait, nob_procs_flush, nob_chain_begin_opt,
           ChainFirst, ChainBroken, ChainNext, ChainEndless, nob_chain_end_opt
      <4>2. OnTheWay
        BY <2>4, <4>1, UnderWayFacts DEF UnderWay
      <4>3. nob_cmd_run_opt \/ nob_proc_wait
        BY <2>4, <3>3, <4>2, SimpleCallsOnly
      <4> QED BY <2>4, <3>3, <4>3, RunKeeps, WaitKeeps
    <3> QED BY <2>4, <3>1, <3>2, <3>3 DEF DriverStep
  <2>5. ASSUME goal \in NobPrograms, NEW p \in Pids, Works(p) \/ Breaks(p)
        PROVE  BuildInv'
    BY <2>5, ProcessKeeps
  <2>6. CASE goal \in NobPrograms /\ Edit
    <3>1. /\ exit # "none" /\ UNCHANGED <<goal, children, fds, exit>>
      BY <2>6 DEF Edit, procVars, driver
    <3>2. \A p \in Pids' : ~Running(p)'
      BY <2>6, <3>1 DEF BuildInv, NobRun, Pids, Running
    <3> QED BY <2>1, <2>6, <3>1, <3>2 DEF BuildInv, NobRun
  <2> QED BY <1>2, <2>2, <2>3, <2>4, <2>5, <2>6 DEF Next
<1> QED BY <1>1, <1>2

LEMMA BuildInvAlways == Spec => []BuildInv
BY BuildInvInit, BuildInvNext, PTL DEF Spec

----------------------------------------------------------------------------
(* The theorems *)

\* Whatever fails, when nob.c exits no process of it is left that could write
\* into build/ during the next run.
THEOREM BuildNoStrayWriter == Spec => []NoStrayWriter
<1>1. BuildInv => NoStrayWriter
  BY DEF BuildInv, NobRun, NoStrayWriter, NobPrograms
<1> QED BY <1>1, BuildInvAlways, PTL

\* The last command of a program that succeeds has left what it is to leave.
LEMMA SuccessMade ==
  ASSUME BuildInv, [Next]_buildVars, goal \in {build_test, build}, exit = "none",
         exit' = "success"
  PROVE  Made(Len(goal)) /\ UNCHANGED <<goal, files, tested, edition>>
<1>1. goal \in NobPrograms
  BY DEF NobPrograms
<1>2. UnderWay
  BY <1>1, UnderWayFacts
<1>3. goal[Len(goal)].op = "run"
  BY DEF build_test, build, Run, Compile
<1>4. At \in 1..Len(goal) /\ Call = goal[At]
  BY <1>1, <1>2, TheCall DEF UnderWay
<1>5. ~(UNCHANGED buildVars) /\ ~Edit /\ ~Invoke
  BY DEF buildVars, procVars, driver, Edit, Invoke
<1>6. ASSUME NEW p PROVE ~Works(p) /\ ~Breaks(p)
  BY DEF Works, Breaks, Finish, Fail, Ends, driver
<1>7. ASSUME Return(TRUE), goal' = goal PROVE At = Len(goal)
  BY <1>1, <1>2, <1>7, ReturnEffect DEF UnderWay
<1>8. ~nob_mkdir_if_not_exists
  BY <1>3, <1>4, <1>7 DEF nob_mkdir_if_not_exists, Calling
<1>9. ~do_clean
  BY <1>3, <1>4, <1>7 DEF do_clean, Calling
<1>10. ~nob_cmd_run_opt
  <2>1. Call.op = "run" => ~Call.async
    BY <1>1, <1>2, TheCall DEF UnderWay
  <2> QED BY <2>1 DEF nob_cmd_run_opt, Return, Started, Stay, Calling
<1>11. nob_proc_wait /\ UNCHANGED <<tree, goal, runs>>
  BY <1>1, <1>2, <1>5, <1>6, <1>8, <1>9, <1>10, SimpleCallsOnly DEF Next, DriverStep, UnderWay
<1>12. waiting /\ Return(EndedWell(Len(children)))
  BY <1>11 DEF nob_proc_wait
<1>13. EndedWell(Len(children)) = TRUE
  BY <1>12 DEF Return, EndedWell
<1>14. At = Len(goal)
  BY <1>7, <1>11, <1>12, <1>13
<1>15. Made(At)
  BY <1>2, <1>12, <1>13 DEF UnderWay, TheProcess
<1> QED BY <1>11, <1>14, <1>15 DEF tree

\* A run that ends in success has tested, or built, the sources as they are,
\* whatever earlier runs and failures have left in build/.
THEOREM BuildSuccessIsFresh == Spec => SuccessIsFresh
<1>1. BuildInv /\ [Next]_buildVars =>
        [/\ Succeeds(build_test) => tested' = edition
         /\ Succeeds(build) => files'["TARGET"] = edition]_buildVars
  <2> SUFFICES ASSUME BuildInv, [Next]_buildVars
               PROVE  /\ Succeeds(build_test) => tested' = edition
                      /\ Succeeds(build) => files'["TARGET"] = edition
    OBVIOUS
  <2>1. ASSUME Succeeds(build_test) PROVE tested' = edition
    <3>1. Made(Len(goal)) /\ tested' = tested
      BY <2>1, SuccessMade DEF Succeeds
    <3>2. goal[Len(goal)].op = "run" /\ "tests" \in goal[Len(goal)].cmd.inputs
      BY <2>1 DEF Succeeds, build_test, Run, Command, Compile
    <3> QED BY <3>1, <3>2 DEF Made
  <2>2. ASSUME Succeeds(build) PROVE files'["TARGET"] = edition
    <3>1. Made(Len(goal)) /\ files' = files
      BY <2>2, SuccessMade DEF Succeeds
    <3>2. goal[Len(goal)].op = "run" /\ goal[Len(goal)].cmd.output = "TARGET"
      BY <2>2 DEF Succeeds, build, Run, Command
    <3> QED BY <3>1, <3>2 DEF Made, Outputs
  <2> QED BY <2>1, <2>2
<1> QED BY <1>1, BuildInvAlways, PTL DEF Spec, SuccessIsFresh
=============================================================================
