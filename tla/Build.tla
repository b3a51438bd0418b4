------------------------------- MODULE Build -------------------------------
(***************************************************************************)
(* nob.c, the build driver, run again and again on a source tree that is   *)
(* edited in between: `nob`, `nob test`, `nob clean`.  Its programs are    *)
(* sequences of calls of Procs; their commands make files of build/.  A    *)
(* file is known by the edition of the sources it was made from, 0 if it   *)
(* does not exist or is broken.                                            *)
(*                                                                         *)
(* OtherPrograms are drivers that use what nob.c does not: the pool and    *)
(* the chains of nob.h.                                                    *)
(***************************************************************************)
EXTENDS Procs, FiniteSetsExt

CONSTANTS
    OtherPrograms, \* sequences of calls
    MaxEdits,      \* bound: editions after the first
    MaxRuns        \* bound: times a driver is run

\* A driver makes a call at least, and gives files, no pipes, to be opened.
OtherCalls == UNION {{g[i] : i \in 1..Len(g)} : g \in OtherPrograms}
ASSUME OtherProgramsAssumption ==
    /\ \A g \in OtherPrograms : g \in Seq(OtherCalls) /\ g # <<>>
    /\ \A c \in OtherCalls :
         c.op \in {"run", "chain_begin", "chain_end"} => \A f \in c.files : f[1] = "file"

VARIABLES
    edition,   \* of the sources
    folder,    \* BUILD_FOLDER exists
    files,     \* what each file of build/ was made from
    goal,      \* the program of the present run
    tested,    \* the edition the tests ran on, 0 before
    runs       \* times a driver was run

buildVars == <<procVars, edition, folder, files, goal, tested, runs>>
tree == <<edition, folder, files, tested>>

----------------------------------------------------------------------------
(* The programs of nob.c *)

Objects == {"impl.o", "mcp.o", "odoo.o"}
Outputs == Objects \cup {"tests", "TARGET"}

\* A command that nob.c runs: what it makes of which files of build/.
Command(output, inputs) ==
    [output |-> output, inputs |-> inputs, reads |-> "some", writes |-> "little"]
\* Faulty variant: nob.c's commands go to a pool nobody waits for.
Run_Async(cmd) == [op |-> "run", cmd |-> cmd, async |-> TRUE, files |-> {}]

Run(cmd) == [op |-> "run", cmd |-> cmd, async |-> FALSE, files |-> {}]
mkdir == [op |-> "mkdir"]

Compile(object) == Run(Command(object, {}))

build_test ==
    <<mkdir, Compile("impl.o"), Compile("mcp.o"), Compile("odoo.o"),
      Run(Command("tests", Objects)), Run(Command("none", {"tests"}))>>

\* All sources in one command, for either target.
build == <<mkdir, Run(Command("TARGET", {}))>>

clean == <<[op |-> "clean"]>>

\* main's choice by its argument, or another driver.
Programs == {build_test, build, clean} \cup OtherPrograms

----------------------------------------------------------------------------

BuildInit ==
    /\ ProcsInit
    /\ goal \in Programs /\ todo = goal /\ exit = "none" /\ runs = 1
    /\ edition = 1 /\ folder = FALSE /\ tested = 0
    /\ files = [f \in Outputs |-> 0]

\* The result of nob_mkdir_if_not_exists is not looked at.
nob_mkdir_if_not_exists ==
    /\ Calling({"mkdir"})
    /\ folder' \in {folder, TRUE}
    /\ Return(TRUE)
    /\ UNCHANGED <<children, pool, chain, fds, misclosed>>
    /\ UNCHANGED <<edition, files, tested, goal, runs>>

\* rmdir fails if anything is left in the folder.
do_clean ==
    /\ Calling({"clean"})
    /\ files' = [files EXCEPT !["TARGET"] = 0]
    /\ folder' = (folder /\ \E f \in Outputs : files'[f] # 0)
    /\ Return(TRUE)
    /\ UNCHANGED <<children, pool, chain, fds, misclosed>>
    /\ UNCHANGED <<edition, tested, goal, runs>>

\* The edition that a command's output is made from: a link is as old as its
\* oldest input.
MadeFrom(cmd) == Min({edition} \cup {files[f] : f \in cmd.inputs})

\* The command ends well only if what it needs is there.
Possible(cmd) ==
    /\ \A f \in cmd.inputs : files[f] # 0
    /\ cmd.output \in Outputs => folder

\* What a process leaves in build/.  One that fails may have removed or spoilt
\* what it was to write, or not.
Effect(cmd, ok) ==
    /\ files' =
         IF cmd.output \notin Outputs THEN files
         ELSE [files EXCEPT ![cmd.output] = IF ok THEN MadeFrom(cmd) ELSE 0]
    /\ tested' = IF "tests" \in cmd.inputs THEN files["tests"] ELSE tested

Works(p) ==
    /\ p \in Pids
    /\ \E ok \in BOOLEAN :
         /\ ok => Possible(children[p].cmd)
         /\ Finish(p, ok) /\ Effect(children[p].cmd, ok)
    /\ UNCHANGED <<edition, folder, goal, runs>>

Breaks(p) ==
    /\ p \in Pids /\ Fail(p)
    /\ \/ Effect(children[p].cmd, FALSE)
       \/ UNCHANGED <<files, tested>>
    /\ UNCHANGED <<edition, folder, goal, runs>>

Edit ==
    /\ exit # "none" /\ edition <= MaxEdits
    /\ edition' = edition + 1
    /\ UNCHANGED <<procVars, folder, files, goal, tested, runs>>

\* Another run, once the processes of the last one are gone.
Invoke ==
    /\ exit # "none" /\ \A p \in Pids : ~Running(p)
    /\ runs < MaxRuns /\ runs' = runs + 1
    /\ goal' \in Programs /\ todo' = goal' /\ exit' = "none"
    /\ waiting' = FALSE /\ index' = 1 /\ success' = TRUE
    /\ children' = <<>> /\ pool' = <<>>
    /\ chain' = NoChain /\ fds' = {} /\ misclosed' = FALSE
    /\ tested' = 0
    /\ UNCHANGED <<edition, folder, files>>

DriverStep ==
    \/ DriverNext /\ UNCHANGED <<tree, goal, runs>>
    \/ nob_mkdir_if_not_exists
    \/ do_clean

\* Every process has a pid of 1..MostPids in the programs given.
MostPids == Max({Len(g) : g \in Programs})

Next ==
    \/ DriverStep
    \/ \E p \in Pids : Works(p) \/ Breaks(p)
    \/ Edit \/ Invoke

Spec == BuildInit /\ [][Next]_buildVars

\* The scheduler runs the driver and every process that can go on.  None has to
\* break.
FairSpec ==
    /\ Spec
    /\ WF_buildVars(DriverStep)
    /\ \A p \in 1..MostPids : WF_buildVars(Works(p))

----------------------------------------------------------------------------
(* Properties *)

Succeeds(program) == goal = program /\ exit = "none" /\ exit' = "success"

\* `nob test` that exits with 0 has run the tests, and on objects of the sources
\* as they are; `nob` has made the target from them.  Whatever earlier runs left
\* behind and however they failed, and though mkdir's result is not looked at.
SuccessIsFresh ==
    [][/\ Succeeds(build_test) => tested' = edition
       /\ Succeeds(build) => files'["TARGET"] = edition]_buildVars

\* nob.c waits for each command: when it exits, whatever failed, no process of
\* it is left that could go on writing into build/ during the next run.
NoStrayWriter ==
    goal \in {build_test, build, clean} /\ exit # "none" => \A p \in Pids : ~Running(p)

\* Every driver comes to its end: no wait for a process that cannot end, no
\* endless turning round a full pool.
DriverEnds == exit = "none" ~> exit # "none"

\* And every process, but for writers whose readers are gone.
ProcessesEnd ==
    \A p \in 1..MostPids :
      (p \in Pids /\ Running(p)) ~> (p \in Pids => ~Running(p) \/ Abandoned(p))
=============================================================================
