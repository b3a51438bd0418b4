------------------------------- MODULE Procs -------------------------------
(***************************************************************************)
(* The process part of nob.h: commands run one by one, or several at a     *)
(* time with a pool that says which are running (opt.async), or joined by  *)
(* pipes into a chain.  A driver (a program like nob.c) makes one call     *)
(* after the other and stops at the first that returns false; each command *)
(* is a process that goes on by itself.  POSIX branch.                     *)
(*                                                                         *)
(* A call is a record: op names the function, cmd the command, async says  *)
(* whether it goes to the pool, files which of stdin, stdout and stderr    *)
(* are files to be opened, err2out that the command's stderr goes where    *)
(* its stdout goes: it is the set of the files that then need not be held  *)
(* open, {} or that of stderr.  A command is a record: reads is "all" if   *)
(* it reads its input to the end, writes is "much" if it writes more than  *)
(* a pipe holds.                                                           *)
(***************************************************************************)
EXTENDS Naturals, Sequences, FiniteSets

CONSTANT MaxProcs   \* opt.max_procs, or the number of processors and one

ASSUME MaxProcsAssumption == MaxProcs \in Nat \ {0}

VARIABLES
    todo,      \* calls still to be made; the first is being made
    waiting,   \* it waits for the last process started (nob_proc_wait)
    index,     \* the loop variable over the pool, from 1
    success,   \* of nob_procs_wait so far
    children,  \* processes started, in order; the index is the pid
    pool,      \* opt.async->items: pids, or 0 for NOB_INVALID_PROC
    chain,     \* [cmd, fdin, err2out]: the command not started yet, where it
               \* reads, and its err2out
    fds,       \* what the driver holds open
    misclosed, \* it closed something it did not hold
    exit       \* "none" while it runs, then "success" or "failure"

driver == <<todo, waiting, index, success, chain, fds, misclosed, exit>>
procVars == <<driver, children, pool>>

\* What is opened: a file in the place of stdin, stdout or stderr, and the two
\* ends of the pipe that process p writes into.
File(name) == <<"file", name>>
ReadEnd(p) == <<"read", p>>
WriteEnd(p) == <<"write", p>>

NoChain == [cmd |-> <<>>, fdin |-> {}, err2out |-> {}]

Call == Head(todo)

\* The files the call holds open for its process.  At the end of a chain the
\* file of stderr is only made empty if the last command has err2out.
Opened ==
    IF Call.op = "chain_end" THEN Call.files \ chain.err2out ELSE Call.files

Calling(ops) == exit = "none" /\ ~waiting /\ Call.op \in ops
Pid == Len(children) + 1
Pids == 1..Len(children)
Running(p) == children[p].state = "running"

\* Something is held by the driver or by a process that inherited it.
Open(e) == (exit = "none" /\ e \in fds) \/ \E p \in Pids : Running(p) /\ e \in children[p].holds

ProcsInit ==
    /\ waiting = FALSE /\ index = 1 /\ success = TRUE
    /\ children = <<>> /\ pool = <<>>
    /\ chain = NoChain /\ fds = {} /\ misclosed = FALSE

----------------------------------------------------------------------------
(* Returning from a call *)

\* The driver goes on if the call returned true, and exits otherwise.
Return(ok) ==
    /\ todo' = IF ok THEN Tail(todo) ELSE <<>>
    /\ exit' = IF ~ok THEN "failure" ELSE IF Len(todo) = 1 THEN "success" ELSE "none"
    /\ waiting' = FALSE /\ index' = 1 /\ success' = TRUE

Stay == UNCHANGED <<todo, exit>>

Close(E) ==
    /\ fds' = fds \ E
    /\ misclosed' = (misclosed \/ ~(E \subseteq fds))

\* Faulty variant: where the last command reads from stays open.
ChainEndCloses_KeepsInput == {}

\* What nob_chain_end closes on every way out, beside the files it opened.
ChainEndCloses == chain.fdin

\* Adds a process: it reads from input, and inherits whatever is open.
Child(cmd, input, piped, holds, async) ==
    [cmd |-> cmd, input |-> input, piped |-> piped, holds |-> holds,
     async |-> async, state |-> "running", ok |-> FALSE]

nob__cmd_start_process(child) == children' = Append(children, child)

\* waitpid on p takes its exit status, and with it the process.
Reap(p) == children' = [children EXCEPT ![p].state = "reaped"]

\* nob_proc_wait: false without a process, or when it is not ours any more.
Waitable(p) == p # 0 => ~Running(p)
\* Faulty variant: the exit status is not looked at.
EndedWell_AnyStatus(p) == p # 0 /\ children[p].state = "ended"

EndedWell(p) == p # 0 /\ children[p].state = "ended" /\ children[p].ok
WaitFor(p) == IF p = 0 THEN UNCHANGED children ELSE Reap(p)

----------------------------------------------------------------------------
(* nob_cmd_run_opt *)

\* Faulty variant: one more than allowed.
PoolFull_OffByOne == Call.async /\ Len(pool) > MaxProcs

PoolFull == Call.async /\ Len(pool) >= MaxProcs

\* nob_da_remove_unordered
RemoveUnordered(s, i) ==
    [k \in 1..(Len(s) - 1) |-> IF k = i THEN s[Len(s)] ELSE s[k]]

PollEnded(p) == EndedWell(p)

\* A failure, or a process that was taken before.
PollFailed(p) == p # 0 /\ ~Running(p) /\ ~PollEnded(p)

\* One nob__proc_wait_async of the loop that waits for room in the pool.
\* NOB_INVALID_PROC counts as not ended.
Poll ==
    /\ Calling({"run", "chain_end"}) /\ PoolFull
    /\ Call.op = "chain_end" => chain.cmd # <<>>
    /\ LET p == pool[index] IN
       \/ /\ p # 0 => Running(p)
          /\ index' = (index % Len(pool)) + 1
          /\ Stay
          /\ UNCHANGED <<waiting, success, children, pool, chain, fds, misclosed>>
       \/ /\ PollEnded(p)
          /\ Reap(p) /\ pool' = RemoveUnordered(pool, index) /\ index' = 1
          /\ Stay
          /\ UNCHANGED <<waiting, success, chain, fds, misclosed>>
       \/ /\ PollFailed(p)
          /\ Reap(p) /\ Return(FALSE)
          /\ Close(IF Call.op = "chain_end" THEN ChainEndCloses ELSE {})
          /\ UNCHANGED <<pool, chain>>

\* Goes to the pool, or is waited for; files stay open until then.
Started ==
    \/ /\ Call.async
       /\ pool' = Append(pool, Pid)
       /\ Return(TRUE)
    \/ /\ ~Call.async
       /\ waiting' = TRUE
       /\ Stay
       /\ UNCHANGED <<pool, index, success>>

\* Opens the files, forks, closes the files.  Opening and forking may fail.
nob_cmd_run_opt ==
    /\ Calling({"run"}) /\ ~PoolFull
    /\ \/ Return(FALSE) /\ UNCHANGED <<children, pool, fds>>
       \/ /\ nob__cmd_start_process(
                Child(Call.cmd, {}, FALSE, fds \cup Call.files, Call.async))
          /\ Started
          /\ fds' = IF Call.async THEN fds ELSE fds \cup Call.files
    /\ UNCHANGED <<chain, misclosed>>

\* What nob_proc_wait was called with is the last process started.
nob_proc_wait ==
    /\ exit = "none" /\ waiting
    /\ Waitable(Len(children))
    /\ Reap(Len(children))
    /\ Close(Opened \cup IF Call.op = "chain_end" THEN ChainEndCloses ELSE {})
    /\ Return(EndedWell(Len(children)))
    /\ UNCHANGED <<pool, chain>>

----------------------------------------------------------------------------
(* nob_procs_wait, nob_procs_flush, nob_procs_append_with_flush *)

\* nob_cmd_run_async, whose result is appended as it is; a full pool is flushed.
nob_procs_append_with_flush ==
    /\ Calling({"start"})
    /\ \/ pool' = Append(pool, 0) /\ UNCHANGED children
       \/ /\ nob__cmd_start_process(Child(Call.cmd, {}, FALSE, fds, TRUE))
          /\ pool' = Append(pool, Pid)
    /\ \/ /\ Len(pool') >= MaxProcs
          /\ todo' = <<[op |-> "flush"]>> \o Tail(todo)
          /\ UNCHANGED <<exit, waiting, index, success>>
       \/ /\ Len(pool') < MaxProcs
          /\ Return(TRUE)
    /\ UNCHANGED <<chain, fds, misclosed>>

\* Faulty variant: the last result is the result of all.
AllWell_LastOnly(p) == EndedWell(p)

AllWell(p) == EndedWell(p) /\ success

nob_procs_wait ==
    /\ Calling({"flush"}) /\ index <= Len(pool)
    /\ LET p == pool[index] IN
         /\ Waitable(p) /\ WaitFor(p)
         /\ success' = AllWell(p)
    /\ index' = index + 1
    /\ Stay /\ UNCHANGED <<waiting, pool, chain, fds, misclosed>>

nob_procs_flush ==
    /\ Calling({"flush"}) /\ index > Len(pool)
    /\ pool' = <<>>
    /\ Return(success)
    /\ UNCHANGED <<children, chain, fds, misclosed>>

----------------------------------------------------------------------------
(* Chains *)

nob_chain_begin_opt ==
    /\ Calling({"chain_begin"})
    /\ \/ Call.files # {} /\ Return(FALSE) /\ chain' = NoChain /\ UNCHANGED fds
       \/ /\ chain' = [NoChain EXCEPT !.fdin = Call.files]
          /\ fds' = fds \cup Call.files
          /\ Return(TRUE)
    /\ UNCHANGED <<children, pool, misclosed>>

\* The first command of a chain is only remembered.
ChainFirst ==
    /\ Calling({"chain_cmd"}) /\ chain.cmd = <<>>
    /\ chain' = [chain EXCEPT !.cmd = <<Call.cmd>>, !.err2out = Call.err2out]
    /\ Return(TRUE)
    /\ UNCHANGED <<children, pool, fds, misclosed>>

\* pipe() or fork() failed.  What was opened is closed; chain->fdin keeps its
\* number.
ChainBroken ==
    /\ Calling({"chain_cmd"}) /\ chain.cmd # <<>>
    /\ Close(chain.fdin)
    /\ \/ UNCHANGED chain
       \/ chain' = [chain EXCEPT !.cmd = <<>>]
    /\ Return(FALSE)
    /\ UNCHANGED <<children, pool>>

\* Faulty variant: the driver keeps its copy of the end the process writes to.
ChainCloses_KeepsWrite(p) == chain.fdin

\* The driver closes what the process reads from and what it writes to.
ChainCloses(p) == chain.fdin \cup {WriteEnd(p)}

\* The command remembered is started with a pipe behind it; the next one will
\* read from that.  Neither end is closed on exec: the process inherits both.
\* With err2out its stderr is the writing end as well.
ChainNext ==
    /\ Calling({"chain_cmd"}) /\ chain.cmd # <<>>
    /\ LET ends == {ReadEnd(Pid), WriteEnd(Pid)} IN
         /\ nob__cmd_start_process(
              Child(chain.cmd[1], chain.fdin, TRUE, fds \cup ends, FALSE))
         /\ fds' = (fds \cup ends) \ ChainCloses(Pid)
         /\ misclosed' = (misclosed \/ ~(chain.fdin \subseteq fds))
    /\ chain' = [cmd |-> <<Call.cmd>>, fdin |-> {ReadEnd(Pid)}, err2out |-> Call.err2out]
    /\ Return(TRUE)
    /\ UNCHANGED pool

\* Nothing to start, or a file or the process cannot be had.
ChainEndless ==
    /\ Calling({"chain_end"})
    /\ \/ chain.cmd = <<>> /\ Return(TRUE) /\ UNCHANGED chain
       \/ /\ chain.cmd # <<>> /\ ~PoolFull
          /\ Return(FALSE)
          /\ \/ Call.files # {} /\ UNCHANGED chain
             \/ chain' = [chain EXCEPT !.cmd = <<>>]
    /\ Close(ChainEndCloses)
    /\ UNCHANGED <<children, pool>>

nob_chain_end_opt ==
    /\ Calling({"chain_end"}) /\ chain.cmd # <<>> /\ ~PoolFull
    /\ nob__cmd_start_process(
         Child(chain.cmd[1], chain.fdin, FALSE, fds \cup Opened, Call.async))
    /\ chain' = [chain EXCEPT !.cmd = <<>>]
    /\ Started
    /\ \/ Call.async /\ Close(ChainEndCloses)
       \/ ~Call.async /\ fds' = fds \cup Opened /\ UNCHANGED misclosed

DriverNext ==
    \/ Poll \/ nob_cmd_run_opt \/ nob_proc_wait
    \/ nob_procs_append_with_flush \/ nob_procs_wait \/ nob_procs_flush
    \/ nob_chain_begin_opt \/ ChainFirst \/ ChainBroken \/ ChainNext
    \/ ChainEndless \/ nob_chain_end_opt

----------------------------------------------------------------------------
(* The processes *)

\* The input is at its end once nobody can write to it any more.
Eof(p) == \A k \in Pids : ReadEnd(k) \in children[p].input => ~Open(WriteEnd(k))

Reads(q, p) == ReadEnd(p) \in children[q].input

\* What p writes fits the pipe, or is read while p writes.
OutputFits(p) ==
    \/ ~children[p].piped \/ children[p].cmd.writes # "much"
    \/ \E q \in Pids : Running(q) /\ Reads(q, p)

Ends(p, ok) ==
    /\ children' = [children EXCEPT ![p].state = "ended", ![p].ok = ok]
    /\ UNCHANGED <<driver, pool>>

\* p has done its work, well or not.
Finish(p, ok) ==
    /\ Running(p) /\ OutputFits(p)
    /\ children[p].cmd.reads = "all" => Eof(p)
    /\ Ends(p, ok)

\* It fails before: exec failed, a signal.
Fail(p) == Running(p) /\ Ends(p, FALSE)

----------------------------------------------------------------------------
(* What a driver keeps to, for the properties below: a sequence of calls *)

\* A chain is begun, given commands and ended by calls that follow one another.
GoesOn(call) == call.op \in {"chain_begin", "chain_cmd"}
Continues(call) == call.op \in {"chain_cmd", "chain_end"}
Linked(g) ==
    \A i \in 1..Len(g) : GoesOn(g[i]) <=> (i < Len(g) /\ Continues(g[i + 1]))
Chained(g) == Linked(g) /\ ~Continues(Head(g))

\* What goes to the pool is waited for in the end.
Polled(call) == call.op \in {"run", "chain_end"} /\ call.async
Pooled(call) == call.op = "start" \/ Polled(call)
Flushed(g) ==
    \A i \in 1..Len(g) : Pooled(g[i]) => \E j \in (i + 1)..Len(g) : g[j].op = "flush"

\* opt.async is not mixed with nob_procs_append_with_flush: the one fills the
\* pool, and the other starts its process before it looks.
NoneStarted(g) == \A i \in 1..Len(g) : g[i].op # "start"
NonePolled(g) == \A i \in 1..Len(g) : ~Polled(g[i])
Unmixed(g) == NoneStarted(g) \/ NonePolled(g)

----------------------------------------------------------------------------
(* Properties *)

\* However many commands go to the pool, whichever of them end and in whatever
\* order, no more than max_procs of them run at a time (of Unmixed drivers).
PoolBounded ==
    Cardinality({p \in Pids : children[p].async /\ Running(p)}) <= MaxProcs

\* A driver that waits for its pool (Flushed) and exits with success has seen
\* every command end well, except the first ones of a chain: no failure is lost
\* on the way through pool and flush, none is left running or unwaited.
SuccessMeansDone ==
    exit = "success" =>
      \A p \in Pids : children[p].piped \/ (children[p].state = "reaped" /\ children[p].ok)

\* When a Chained driver ends, whatever failed, it has closed all it opened,
\* and it never closes what it does not hold (a descriptor that may be another's
\* by then).
FdsBalanced == ~misclosed /\ (exit # "none" => fds = {})

\* The end of a pipe that a process writes to is held by that process alone, so
\* that its reader sees the end of the input when the process ends.
PipesEnd ==
    \A p \in Pids :
      /\ WriteEnd(p) \notin fds
      /\ \A q \in Pids : q # p => WriteEnd(p) \notin children[q].holds

\* The writer of a pipe whose reader is gone, or was not started because the
\* driver gave up.  It holds the reading end itself, so it is not told.
Abandoned(p) ==
    /\ exit # "none"
    /\ children[p].piped /\ children[p].cmd.writes = "much"
    /\ ~\E q \in Pids : Running(q) /\ Reads(q, p)
=============================================================================
