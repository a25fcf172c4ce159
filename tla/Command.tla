------------------------------ MODULE Command ------------------------------
(***************************************************************************)
(* One xk6 command after the other: Execute and trapSignals of root.go     *)
(* around build (buildRunE), run and x (runK6Command, buildK6OnTheFly),    *)
(* both over buildK6 and k6foundry's Build, and around the commands that   *)
(* set a context of their own (lint, sync, new, adjust).  An interrupt     *)
(* from the terminal reaches xk6 and its children alike.  What the build   *)
(* resolves is the subject of K6Resolve; here it always yields something.  *)
(***************************************************************************)
EXTENDS Naturals, Sequences

CONSTANTS
    MaxRounds,      \* commands
    MaxBlocks,      \* size of a k6 binary
    MaxSteps,       \* steps of a command with its own context
    MaxInterrupts,
    MaxFaults       \* failing calls

ASSUME BoundsAssumption ==
    /\ {MaxRounds, MaxBlocks} \subseteq Nat \ {0}
    /\ {MaxSteps, MaxInterrupts, MaxFaults} \subseteq Nat

Kinds == {"build", "run", "own"}
Blocks == UNION {[1..n -> 0..MaxRounds] : n \in 0..MaxBlocks}

VARIABLES
    pc,         \* of the main goroutine, "idle" between two commands
    kind,       \* of the command
    skip,       \* --skip-cleanup
    gomod,      \* the go.mod run and x find: with a module line, without it, none
    round,      \* number of the command
    trap,       \* the goroutine of trapSignals: "created", "listening", "done"
    sig,        \* an interrupt is in its channel
    ctx,        \* the root context is cancelled
    hit,        \* an interrupt has reached the child of go or of lint
    dir,        \* xk6-build-* exists
    work,       \* k6foundry* exists
    out,        \* the output files: of build, and in the temporary directory
    size,       \* of the binary that was compiled, 0 before
    copied,     \* blocks of it that are in the output file
    k6,         \* the child of run and x
    left,       \* steps left of a command with its own context
    interrupts, faults,
    before,     \* history: the output file of build when the command started
    exit        \* exit code of the last command

params == <<kind, skip, gomod, round>>
signals == <<trap, sig, ctx, hit>>
files == <<dir, work, out>>
vars == <<pc, params, signals, files, size, copied, k6, left, interrupts, faults, before, exit>>

NoExit == 3
Killed == 130
Alive == {"running", "stopping"}

TypeOK ==
    /\ pc \in {"idle", "mktemp", "modfile", "open", "mkwork", "go", "copy", "startk6", "wait", "own"}
    /\ kind \in Kinds
    /\ gomod \in {"ok", "headless", "none"}
    /\ round \in 0..MaxRounds
    /\ trap \in {"created", "listening", "done"}
    /\ {skip, sig, ctx, hit, dir, work} \subseteq BOOLEAN
    /\ out \in [{"build", "run"} -> Blocks] /\ before \in Blocks
    /\ size \in 0..MaxBlocks /\ copied \in 0..size
    /\ k6 \in {"none", "running", "stopping", "done", "failed", "killed"}
    /\ left \in 0..MaxSteps
    /\ interrupts \in 0..MaxInterrupts /\ faults \in 0..MaxFaults
    /\ exit \in {0, 1, 2, Killed, NoExit}

Init ==
    /\ pc = "idle"
    /\ kind = "own" /\ skip = FALSE /\ gomod = "ok" /\ round = 0
    /\ trap = "done" /\ sig = FALSE /\ ctx = FALSE /\ hit = FALSE
    /\ dir = FALSE /\ work = FALSE
    \* an old binary may be there
    /\ out \in {[k \in {"build", "run"} |-> <<>>],
                [build |-> [i \in 1..MaxBlocks |-> 0], run |-> <<>>]}
    /\ before = out["build"]
    /\ size = 0 /\ copied = 0 /\ k6 = "none" /\ left = 0
    /\ interrupts = 0 /\ faults = 0
    /\ exit = NoExit

Fault == faults < MaxFaults /\ faults' = faults + 1

------------------------------------------------------------------------------
(* Execute and trapSignals.                                                  *)

\* A new process: the goroutine is created, maybe not yet run.
Begin ==
    /\ pc = "idle"
    /\ round < MaxRounds
    /\ round' = round + 1
    /\ kind' \in Kinds
    /\ pc' = CASE kind' = "build" -> "open" [] kind' = "run" -> "mktemp" [] OTHER -> "own"
    /\ skip' \in BOOLEAN
    /\ gomod' \in IF kind' = "run" THEN {"ok", "headless", "none"} ELSE {"ok"}
    /\ trap' = "created" /\ sig' = FALSE /\ ctx' = FALSE /\ hit' = FALSE
    /\ dir' = FALSE /\ work' = FALSE
    /\ size' = 0 /\ copied' = 0 /\ k6' = "none"
    /\ left' = IF kind' = "own" THEN MaxSteps ELSE 0
    /\ before' = out["build"]
    /\ exit' = NoExit
    /\ UNCHANGED <<out, interrupts, faults>>

Exit(code) == pc' = "idle" /\ exit' = code

Listen ==
    /\ pc # "idle" /\ trap = "created"
    /\ trap' = "listening"
    /\ UNCHANGED <<pc, params, sig, ctx, hit, files, size, copied, k6, left,
                   interrupts, faults, before, exit>>

\* Mutant of ShutDown: the interrupt is only logged.
LogOnly ==
    /\ pc # "idle" /\ trap = "listening" /\ sig
    /\ trap' = "done" /\ sig' = FALSE
    /\ UNCHANGED <<pc, params, ctx, hit, files, size, copied, k6, left,
                   interrupts, faults, before, exit>>

\* "SIGINT: Shutting down" is logged and the root context cancelled.  Nobody
\* reads the channel after that.
ShutDown ==
    /\ pc # "idle" /\ trap = "listening" /\ sig
    /\ trap' = "done" /\ sig' = FALSE
    /\ ctx' = TRUE
    /\ UNCHANGED <<pc, params, hit, files, size, copied, k6, left,
                   interrupts, faults, before, exit>>

\* The terminal interrupts all of its foreground processes.  Before
\* signal.Notify it ends xk6, after it there is only what trapSignals does.
Interrupt ==
    /\ pc # "idle"
    /\ interrupts < MaxInterrupts
    /\ interrupts' = interrupts + 1
    /\ IF trap = "created" THEN Exit(Killed) ELSE UNCHANGED <<pc, exit>>
    /\ sig' = (trap # "created")
    /\ hit' = (hit \/ pc \in {"go", "own"})
    /\ k6' = IF k6 = "running" THEN "stopping" ELSE k6
    /\ UNCHANGED <<params, trap, ctx, files, size, copied, left, faults, before>>

------------------------------------------------------------------------------
(* buildK6OnTheFly up to buildK6.                                            *)

\* Mutant of Target: they build where build does.
DefaultOutput == "build"

\* Where the binary goes: run and x set opts.output to their directory.
Target == kind

MkdirTemp ==
    /\ pc = "mktemp"
    /\ \/ /\ dir' = TRUE /\ out' = [out EXCEPT !["run"] = <<>>] /\ pc' = "modfile"
          /\ UNCHANGED <<faults, exit>>
       \/ Fault /\ Exit(1) /\ UNCHANGED <<dir, out>>
    /\ UNCHANGED <<params, signals, work, size, copied, k6, left, interrupts, before>>

\* The go.mod in this directory or above, and its module path, which
\* buildK6OnTheFly takes from a nil pointer if there is no module line: Go ends
\* a panic with 2.  Without a path the directory stays.
getModfile ==
    /\ pc = "modfile"
    /\ \/ gomod = "ok" /\ pc' = "open" /\ UNCHANGED <<faults, exit>>
       \/ gomod = "headless" /\ Exit(2) /\ UNCHANGED faults
       \/ gomod = "none" /\ Exit(1) /\ UNCHANGED faults
       \/ Fault /\ Exit(1)
    /\ UNCHANGED <<params, signals, files, size, copied, k6, left, interrupts, before>>

------------------------------------------------------------------------------
(* buildK6, with k6foundry's Build (external): a working directory, go       *)
(* commands that end with the context, and the copy.                         *)

\* Mutant of Opened: os.Create.
Truncated(blocks) == <<>>

\* os.OpenFile with O_CREATE and without O_TRUNC.
Opened(blocks) == blocks

\* resolveK6Repo and newFoundry before it, NewPlatform after it.
OpenOutput ==
    /\ pc = "open"
    /\ \/ /\ out' = [out EXCEPT ![Target] = Opened(@)]
          /\ pc' = "mkwork" /\ UNCHANGED <<faults, exit>>
       \/ Fault /\ Exit(1) /\ UNCHANGED out
    /\ UNCHANGED <<params, signals, dir, work, size, copied, k6, left, interrupts, before>>

MkWork ==
    /\ pc = "mkwork"
    /\ \/ work' = TRUE /\ pc' = "go" /\ UNCHANGED <<faults, exit>>
       \/ Fault /\ Exit(1) /\ UNCHANGED work
    /\ UNCHANGED <<params, signals, dir, out, size, copied, k6, left, interrupts, before>>

GoBuild ==
    /\ pc = "go"
    /\ \/ /\ ~ctx /\ ~hit
          /\ size' \in 1..MaxBlocks
          /\ pc' = "copy" /\ UNCHANGED <<work, faults, exit>>
       \/ /\ Fault \/ ((ctx \/ hit) /\ UNCHANGED faults)
          /\ work' = skip
          /\ Exit(1) /\ UNCHANGED size
    /\ UNCHANGED <<params, signals, dir, out, copied, k6, left, interrupts, before>>

\* Mutant of Written: opened with O_APPEND.
Appended(blocks) == Append(blocks, round)

\* Over what the file may hold already.
Written(blocks) == IF copied < Len(blocks) THEN [blocks EXCEPT ![copied + 1] = round]
                   ELSE Append(blocks, round)

\* io.Copy, block by block.
CopyBlock ==
    /\ pc = "copy" /\ copied < size
    /\ \/ /\ out' = [out EXCEPT ![Target] = Written(@)]
          /\ copied' = copied + 1
          /\ UNCHANGED <<pc, work, faults, exit>>
       \/ Fault /\ work' = skip /\ Exit(1) /\ UNCHANGED <<out, copied>>
    /\ UNCHANGED <<params, signals, dir, size, k6, left, interrupts, before>>

\* The end of Build and of buildK6; buildRunE then only reports.
Built ==
    /\ pc = "copy" /\ copied = size
    /\ work' = skip
    /\ \/ IF kind = "build" THEN Exit(0) /\ UNCHANGED faults
          ELSE pc' = "startk6" /\ UNCHANGED <<faults, exit>>
       \/ Fault /\ Exit(1)
    /\ UNCHANGED <<params, signals, dir, out, size, copied, k6, left, interrupts, before>>

------------------------------------------------------------------------------
(* runK6Command after the build.                                             *)

\* Mutant of Cleanup: not called.
NoCleanup == UNCHANGED dir

\* The deferred cleanup of buildK6OnTheFly.
Cleanup == dir' = FALSE

StartK6 ==
    /\ pc = "startk6"
    /\ \/ ~ctx /\ k6' = "running" /\ pc' = "wait" /\ UNCHANGED <<dir, faults, exit>>
       \/ /\ Fault \/ (ctx /\ UNCHANGED faults)
          /\ Cleanup /\ Exit(1) /\ UNCHANGED k6
    /\ UNCHANGED <<params, signals, work, out, size, copied, left, interrupts, before>>

\* Wait returns the error of the context, too, when k6 has ended well.
Wait ==
    /\ pc = "wait" /\ k6 \notin Alive
    /\ Cleanup
    /\ \/ Exit(IF k6 = "done" THEN 0 ELSE 1)
       \/ ctx /\ Exit(1)
    /\ UNCHANGED <<params, signals, work, out, size, copied, k6, left, interrupts,
                   faults, before>>

\* k6 (external) stops by itself or when interrupted; exec.CommandContext kills it.
K6Ends ==
    /\ k6 \in Alive
    /\ k6' \in IF k6 = "running" THEN {"done", "failed"} ELSE {"failed"}
    /\ UNCHANGED <<pc, params, signals, files, size, copied, left, interrupts, faults,
                   before, exit>>

K6Killed ==
    /\ pc = "wait" /\ ctx /\ k6 \in Alive
    /\ k6' = "killed"
    /\ UNCHANGED <<pc, params, signals, files, size, copied, left, interrupts, faults,
                   before, exit>>

------------------------------------------------------------------------------
(* Commands with a context of their own: the next check, file or go command, *)
(* whatever the root context says; an error of it may end the command, and   *)
(* lint ends with 2 if a check has failed.                                   *)
OwnStep ==
    /\ pc = "own"
    /\ hit' = FALSE
    /\ \/ left > 0 /\ left' = left - 1 /\ UNCHANGED <<pc, faults, exit>>
       \/ left = 0 /\ (Exit(0) \/ Exit(2)) /\ UNCHANGED <<left, faults>>
       \/ (Fault \/ (hit /\ UNCHANGED faults)) /\ Exit(1) /\ UNCHANGED left
    /\ UNCHANGED <<params, trap, sig, ctx, files, size, copied, k6, interrupts, before>>

Main == MkdirTemp \/ getModfile \/ OpenOutput \/ MkWork \/ GoBuild \/ CopyBlock \/ Built
        \/ StartK6 \/ Wait \/ OwnStep

Next == Begin \/ Listen \/ ShutDown \/ Interrupt \/ Main \/ K6Ends \/ K6Killed

Spec == Init /\ [][Next]_vars

\* The goroutines run, and the one of exec.CommandContext kills; nothing is
\* assumed of k6 itself, which may run for hours.
FairSpec == Spec /\ WF_vars(Main) /\ WF_vars(Listen) /\ WF_vars(ShutDown) /\ WF_vars(K6Killed)

------------------------------------------------------------------------------
(* Properties.                                                               *)

Fresh == [i \in 1..size |-> round]

\* What run and x execute is the binary this command has built, all of it and
\* nothing of an older one, and so it is while k6 runs.
RunsItsOwnBuild == pc = "wait" => dir /\ out["run"] = Fresh

\* The binary that was there stays as it is until a new one has been compiled,
\* although its file is open for writing by then.
OldBinaryKept == copied = 0 => out["build"] = before

\* A build that reports success has written all of the binary.
SuccessIsWhole ==
    kind = "build" /\ exit = 0 => size > 0 /\ SubSeq(out["build"], 1, size) = Fresh

\* The output file at any time.
OutputIsSound == OldBinaryKept /\ SuccessIsWhole

\* An xk6 that was not killed leaves no child and no directory behind, but for
\* those it is told to keep and that of run or x when they end, with an error or
\* a panic, before buildK6OnTheFly returns the function that removes it: for want
\* of a go.mod with a module path, or because a call has failed or been stopped.
LeavesNothing ==
    pc = "idle" /\ exit \in {0, 1, 2} =>
        /\ k6 \notin Alive
        /\ work => skip
        /\ dir => /\ kind = "run" /\ exit # 0 /\ k6 = "none"
                  /\ gomod # "ok" \/ faults + interrupts > 0

\* An interrupt that was seen ends build, run and x, however long k6 runs.
InterruptEnds == sig /\ trap = "listening" /\ kind # "own" ~> pc = "idle"
==============================================================================
