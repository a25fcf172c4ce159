------------------------------- MODULE TestRun -------------------------------
(***************************************************************************)
(* xk6 test: runTestE of internal/cmd over runFiles, runFile and runAndLog *)
(* of internal/test.  The test files are run one after the other, each by  *)
(* a k6 process of its own whose log comes through a pipe that holds a few *)
(* lines; the user may interrupt, which kills the k6 processes.            *)
(***************************************************************************)
EXTENDS Naturals, Sequences, SequencesExt, FiniteSets

CONSTANTS
    Globs,      \* what the patterns may match, in their order
    MaxRuns,    \* k6 processes
    MaxLines,   \* lines of one log
    PipeSize,   \* lines the pipe holds
    MaxFaults   \* failing calls

ASSUME GlobsAssumption == \A g \in Globs : g \in Seq(Nat) /\ Len(g) <= MaxRuns
ASSUME BoundsAssumption ==
    /\ MaxRuns \in Nat
    /\ MaxLines \in Nat
    /\ PipeSize \in Nat \ {0}
    /\ MaxFaults \in Nat

Runs == 1..MaxRuns

\* A line that is JSON, one that also carries a reason for a failure, and one
\* that is no JSON at all.
Line == {"info", "reason", "text"}
Scripts == UNION {[1..n -> Line] : n \in 0..MaxLines}

\* Exit codes of k6: fine, thresholds have failed, and killed.
Codes == {0, 99, 255}

VARIABLES
    pc,
    given,       \* --k6 names an executable, no k6 is built
    gomod,       \* else the go.mod found: with a module line, without it, none
    json,        \* --json, else the report is TAP
    globbed,     \* what the patterns match
    filenames,   \* sorted, without repetitions
    cur,         \* the run that is under way
    proc,        \* state of each k6 process
    lines,       \* what it logs
    written,     \* how many lines of it
    code,        \* its exit code
    read,        \* lines runAndLog has read of it
    details,     \* the first reason it has seen, as a line number, 0 if none
    results,
    temp,        \* the temporary directory of buildK6OnTheFly exists
    cancelled,
    faults,
    exit         \* exit code of xk6

k6 == <<proc, lines, written, code>>
input == <<given, gomod, json, globbed>>
vars == <<pc, input, filenames, cur, k6, read, details, results, temp, cancelled, faults, exit>>

Labels == {"output", "build", "glob", "start", "read", "report", "exit"}
NoExit == 3

\* A message is the line number of a reason, "error" or "code".
Result == [file : Nat, passed : BOOLEAN, message : {"none", "reason", "code", "error"},
           line : 0..MaxLines]

TypeOK ==
    /\ pc \in Labels
    /\ given \in BOOLEAN
    /\ gomod \in {"ok", "headless", "none"}
    /\ json \in BOOLEAN
    /\ globbed \in Globs
    /\ filenames \in Seq(Nat)
    /\ cur \in 1..(MaxRuns + 1)
    /\ proc \in [Runs -> {"none", "running", "exited"}]
    /\ lines \in [Runs -> Scripts]
    /\ code \in [Runs -> Codes]
    /\ \A i \in Runs : /\ written[i] \in 0..Len(lines[i])
                       /\ read[i] \in 0..written[i]
                       /\ written[i] - read[i] <= PipeSize
    /\ details \in 0..MaxLines
    /\ results \in Seq(Result)
    /\ {temp, cancelled} \subseteq BOOLEAN
    /\ faults \in 0..MaxFaults
    /\ exit \in {0, 1, 2, NoExit}

Init ==
    /\ pc = "output"
    /\ given \in BOOLEAN
    /\ gomod \in IF given THEN {"ok"} ELSE {"ok", "headless", "none"}
    /\ json \in BOOLEAN
    /\ globbed \in Globs
    /\ filenames = <<>>
    /\ cur = 1
    /\ proc = [i \in Runs |-> "none"]
    /\ lines = [i \in Runs |-> <<>>]
    /\ written = [i \in Runs |-> 0]
    /\ code = [i \in Runs |-> 0]
    /\ read = [i \in Runs |-> 0]
    /\ details = 0
    /\ results = <<>>
    /\ temp = FALSE
    /\ cancelled = FALSE
    /\ faults = 0
    /\ exit = NoExit

------------------------------------------------------------------------------
(* runTestE.                                                                 *)

Fault == faults < MaxFaults /\ faults' = faults + 1

\* Return from runTestE, and the exit code of the command.
Exit(c) == pc' = "exit" /\ exit' = c /\ temp' = FALSE

\* The report file is created first.
CreateOutput ==
    /\ pc = "output"
    /\ \/ pc' = "build" /\ UNCHANGED <<temp, faults, exit>>
       \/ Fault /\ Exit(1)
    /\ UNCHANGED <<input, filenames, cur, k6, read, details, results, cancelled>>

\* buildK6OnTheFly: on an error there is no cleanup function to call, and the
\* directory, if it was there already, stays.  It also stays after the panic for
\* want of a module line, which Go ends with 2.
BuildK6 ==
    /\ pc = "build"
    /\ \/ given /\ pc' = "glob" /\ UNCHANGED <<temp, faults, exit>>
       \/ /\ ~given /\ gomod = "ok" /\ ~cancelled
          /\ pc' = "glob" /\ temp' = TRUE /\ UNCHANGED <<faults, exit>>
       \/ /\ ~given /\ gomod = "headless"
          /\ pc' = "exit" /\ exit' = 2 /\ temp' = TRUE /\ UNCHANGED faults
       \/ /\ ~given /\ (gomod = "none" \/ (gomod = "ok" /\ cancelled))
          /\ pc' = "exit" /\ exit' = 1 /\ temp' = TRUE /\ UNCHANGED faults
       \/ /\ ~given /\ Fault
          /\ pc' = "exit" /\ exit' = 1 /\ temp' \in BOOLEAN
    /\ UNCHANGED <<input, filenames, cur, k6, read, details, results, cancelled>>

\* Mutant of SortCompact: a file two patterns match is run twice.
SortOnly(s) == SortSeq(s, LAMBDA a, b : a < b)

\* Each name once, at the place that the number of smaller ones says.
SortCompact(s) ==
    LET S == ToSet(s) IN
    [i \in 1..Cardinality(S) |-> CHOOSE x \in S : Cardinality({y \in S : y < x}) = i - 1]

Glob ==
    /\ pc = "glob"
    /\ \/ /\ globbed # <<>>
          /\ filenames' = SortCompact(globbed)
          /\ pc' = "start"
          /\ UNCHANGED <<temp, faults, exit>>
       \/ /\ (globbed = <<>> /\ UNCHANGED faults) \/ Fault
          /\ Exit(1)
          /\ UNCHANGED filenames
    /\ UNCHANGED <<input, cur, k6, read, details, results, cancelled>>

------------------------------------------------------------------------------
(* runFile and runAndLog.                                                    *)

NextFile == IF cur = Len(filenames) THEN "report" ELSE "start"

Record(passed, message, line) ==
    /\ results' = Append(results, [file |-> filenames[cur], passed |-> passed,
                                   message |-> message, line |-> line])
    /\ cur' = cur + 1
    /\ pc' = NextFile

\* Start fails when the context is cancelled.
StartK6 ==
    /\ pc = "start"
    /\ \/ /\ ~cancelled
          /\ \E s \in Scripts : lines' = [lines EXCEPT ![cur] = s]
          /\ proc' = [proc EXCEPT ![cur] = "running"]
          /\ details' = 0
          /\ pc' = "read"
          /\ UNCHANGED <<cur, results, faults>>
       \/ /\ Fault \/ (cancelled /\ UNCHANGED faults)
          /\ Record(FALSE, "error", 0)
          /\ UNCHANGED <<proc, lines, details>>
    /\ UNCHANGED <<input, filenames, written, code, read, temp, cancelled, exit>>

\* Mutant of ReadEntry: the last reason is kept.
ReadEntryLast ==
    /\ pc = "read"
    /\ read[cur] < written[cur]
    /\ read' = [read EXCEPT ![cur] = @ + 1]
    /\ LET line == lines[cur][read'[cur]] IN
         IF line = "text"
         THEN Record(FALSE, "error", 0) /\ UNCHANGED details
         ELSE /\ details' = IF line = "reason" THEN read'[cur] ELSE details
              /\ UNCHANGED <<pc, cur, results>>
    /\ UNCHANGED <<input, filenames, k6, temp, cancelled, faults, exit>>

\* Mutant of ReadEntry: the log is read when k6 is done.
ReadEntryAfterExit ==
    /\ pc = "read"
    /\ proc[cur] = "exited"
    /\ read[cur] < written[cur]
    /\ read' = [read EXCEPT ![cur] = @ + 1]
    /\ LET line == lines[cur][read'[cur]] IN
         IF line = "text"
         THEN Record(FALSE, "error", 0) /\ UNCHANGED details
         ELSE /\ details' = IF details = 0 /\ line = "reason" THEN read'[cur] ELSE details
              /\ UNCHANGED <<pc, cur, results>>
    /\ UNCHANGED <<input, filenames, k6, temp, cancelled, faults, exit>>

\* One log entry.  What is no JSON ends the reading, and k6 is left alone with
\* a pipe nobody reads; nobody waits for it either.
ReadEntry ==
    /\ pc = "read"
    /\ read[cur] < written[cur]
    /\ read' = [read EXCEPT ![cur] = @ + 1]
    /\ LET line == lines[cur][read'[cur]] IN
         IF line = "text"
         THEN Record(FALSE, "error", 0) /\ UNCHANGED details
         ELSE /\ details' = IF details = 0 /\ line = "reason" THEN read'[cur] ELSE details
              /\ UNCHANGED <<pc, cur, results>>
    /\ UNCHANGED <<input, filenames, k6, temp, cancelled, faults, exit>>

\* The message of errorToResult: details, else what the error says.
Reason(other) == IF details # 0 THEN Record(FALSE, "reason", details)
                 ELSE Record(FALSE, other, 0)

\* Mutant of ReadEof: an interrupt ends the reading too.
ReadEofOrCancel ==
    /\ pc = "read"
    /\ read[cur] = written[cur]
    /\ \/ proc[cur] = "exited" /\ code[cur] = 0 /\ Record(TRUE, "none", 0)
       \/ proc[cur] = "exited" /\ code[cur] # 0 /\ Reason("code")
       \/ cancelled /\ Reason("error")
    /\ UNCHANGED <<input, filenames, k6, read, details, temp, cancelled, faults, exit>>

\* The end of the log, Wait, and the verdict.  Wait returns the error of the
\* context, too, when k6 has ended well.
ReadEof ==
    /\ pc = "read"
    /\ read[cur] = written[cur]
    /\ proc[cur] = "exited"
    /\ \/ code[cur] = 0 /\ Record(TRUE, "none", 0)
       \/ code[cur] = 0 /\ cancelled /\ Reason("error")
       \/ code[cur] # 0 /\ Reason("code")
    /\ UNCHANGED <<input, filenames, k6, read, details, temp, cancelled, faults, exit>>

Failed == {i \in 1..Len(results) : ~results[i].passed}

\* Mutant of Report: k6's exit code is passed on.
ReportCode ==
    /\ pc = "report"
    /\ \/ Exit(IF Failed # {} THEN code[CHOOSE i \in Failed : TRUE] ELSE 0) /\ UNCHANGED faults
       \/ Fault /\ Exit(1)
    /\ UNCHANGED <<input, filenames, cur, k6, read, details, results, cancelled>>

\* The report and the exit code.  JSON that cannot be written comes before tests
\* that have failed, TAP is not looked at, and closing the output file has the
\* last word only when there is no other error.
Report ==
    /\ pc = "report"
    /\ LET verdict == IF Failed # {} THEN 2 ELSE 0 IN
         \/ Exit(verdict) /\ UNCHANGED faults
         \/ Fault /\ json /\ Exit(1)
         \/ Fault /\ ~json /\ Exit(verdict)
         \/ Fault /\ Exit(IF verdict = 0 THEN 1 ELSE verdict)
    /\ UNCHANGED <<input, filenames, cur, k6, read, details, results, cancelled>>

------------------------------------------------------------------------------
(* k6 (external), and the user.                                              *)

Parent == <<pc, input, filenames, cur, read, details, results, temp, faults, exit>>

\* A write blocks while the pipe is full.
K6Logs(i) ==
    /\ proc[i] = "running"
    /\ written[i] < Len(lines[i])
    /\ written[i] - read[i] < PipeSize
    /\ written' = [written EXCEPT ![i] = @ + 1]
    /\ UNCHANGED <<Parent, proc, lines, code, cancelled>>

K6Exits(i) ==
    /\ proc[i] = "running"
    /\ written[i] = Len(lines[i])
    /\ proc' = [proc EXCEPT ![i] = "exited"]
    /\ \E c \in {0, 99} : code' = [code EXCEPT ![i] = c]
    /\ UNCHANGED <<Parent, lines, written, cancelled>>

\* exec.CommandContext kills what it has started, maybe within a line.
K6Killed(i) ==
    /\ proc[i] = "running"
    /\ cancelled
    /\ proc' = [proc EXCEPT ![i] = "exited"]
    /\ code' = [code EXCEPT ![i] = 255]
    /\ \/ UNCHANGED <<lines, written>>
       \/ /\ written[i] < Len(lines[i]) /\ written[i] - read[i] < PipeSize
          /\ lines' = [lines EXCEPT ![i] = SubSeq(@, 1, written[i]) \o <<"text">>]
          /\ written' = [written EXCEPT ![i] = @ + 1]
    /\ UNCHANGED <<Parent, cancelled>>

Interrupt ==
    /\ pc # "exit"
    /\ ~cancelled
    /\ cancelled' = TRUE
    /\ UNCHANGED <<Parent, k6>>

Xk6 == CreateOutput \/ BuildK6 \/ Glob \/ StartK6 \/ ReadEntry \/ ReadEof \/ Report

Next ==
    \/ Xk6
    \/ \E i \in Runs : K6Logs(i) \/ K6Exits(i) \/ K6Killed(i)
    \/ Interrupt

Spec == Init /\ [][Next]_vars

\* xk6 is sequential code; a k6 that can write or end does so (one iteration).
FairSpec ==
    /\ Spec
    /\ WF_vars(Xk6)
    /\ \A i \in Runs : WF_vars(K6Logs(i) \/ K6Exits(i))

------------------------------------------------------------------------------
(* Properties.                                                               *)

Abandoned(i) == \E k \in 1..read[i] : lines[i][k] = "text"

\* The go.mod that makes buildK6OnTheFly panic.
Panics == ~given /\ gomod = "headless"

\* The report has each matching file once, in order, however many patterns
\* match it and whatever happens to the others.
ReportIsComplete ==
    pc = "report" \/ (pc = "exit" /\ exit # 1 /\ ~Panics) =>
        /\ {results[i].file : i \in 1..Len(results)} = ToSet(globbed)
        /\ \A i, j \in 1..Len(results) : i < j => results[i].file < results[j].file

\* A test passes only if its k6 was heard out and ended with 0, and fails only
\* if it did not, was never started, logged something that is no JSON, or ended
\* while the user interrupted.
VerdictIsEarned ==
    \A i \in 1..Len(results) :
        IF results[i].passed
        THEN proc[i] = "exited" /\ code[i] = 0 /\ read[i] = Len(lines[i])
        ELSE \/ proc[i] = "exited" /\ (code[i] # 0 \/ cancelled)
             \/ proc[i] = "none" /\ (faults > 0 \/ cancelled)
             \/ Abandoned(i)

\* The message of a failed test is the first reason in its own log, and its
\* exit code, or the error of a log that was read to its end, only when there
\* is none.
FirstReason ==
    \A i \in 1..Len(results) :
        LET reasons == {k \in 1..read[i] : lines[i][k] = "reason"} IN
        /\ results[i].message = "reason" =>
             results[i].line \in reasons /\ \A k \in reasons : results[i].line <= k
        /\ results[i].message = "code" => reasons = {}
        /\ results[i].message = "error" => reasons = {} \/ Abandoned(i)

\* What is said of each test.
ResultsAreEarned == VerdictIsEarned /\ FirstReason

\* 0 is for tests that have all passed, 2 for one that has not, 1 for any error
\* of the command, as test.md lists them; but 2 is a panic's, too, and only with
\* --json does 0 mean that the report was written.
ExitCode ==
    pc = "exit" =>
        /\ exit = 0 => results # <<>> /\ Failed = {} /\ (json => faults = 0)
        /\ exit = 2 => Failed # {} \/ Panics
        /\ exit = 1 => faults > 0 \/ cancelled \/ globbed = <<>> \/ (~given /\ gomod = "none")

\* What is said of all of them.
ReportIsRight == ReportIsComplete /\ ExitCode

\* No two k6 processes run at once and none outlives the command, but for those
\* that were given up because of what they had logged.
OneAtATime ==
    \A i \in Runs : proc[i] = "running" /\ (i < cur \/ pc = "exit") => Abandoned(i)

\* The k6 that was built is removed, whatever the tests and the report did.
TempRemoved == pc = "exit" /\ filenames # <<>> => ~temp

\* What is left of them.
NothingIsLeft == OneAtATime /\ TempRemoved

\* xk6 and k6 never wait for each other: the command ends.
Terminates == <>(pc = "exit")
==============================================================================
