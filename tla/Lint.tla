-------------------------------- MODULE Lint --------------------------------
(***************************************************************************)
(* xk6 lint: lintRunE of internal/cmd over runChecks, the caches of state  *)
(* and the checkers of internal/lint.  The checks are made one after the   *)
(* other; what several of them need (go.mod, a k6 with the extension, its  *)
(* version output) is obtained by the first and kept, unless obtaining it  *)
(* fails.  Meanwhile somebody may edit go.mod.                             *)
(***************************************************************************)
EXTENDS Naturals, Sequences, SequencesExt, FiniteSets

CONSTANTS
    Options,      \* the flags lint is called with
    Extensions,   \* what the extension is like, but for its go.mod
    GoMods,       \* the contents of its go.mod
    MaxEdits,     \* edits of go.mod
    MaxFaults     \* failing calls

CheckIDs == <<"security", "vulnerability", "module", "replace", "readme", "license", "git",
              "versions", "build", "smoke", "examples", "types", "codeowners">>
Checks == ToSet(CheckIDs)

\* The checks that use state; the others look at files or run a tool.
GoModChecks == {"module", "replace"}
K6Checks == {"build", "smoke", "examples", "types"}

Private == {"security", "vulnerability", "module", "git"}
Loose == Private \cup {"readme", "license", "versions", "build"}
Strict == Loose \cup {"replace", "smoke", "examples", "types"}
Presets == [private |-> Private, loose |-> Loose, community |-> Loose,
            strict |-> Strict, official |-> Checks, all |-> Checks]

\* What a go.mod may be: unreadable, without a module line, with or without
\* replace directives.
GoModKinds == {"unreadable", "headless", "plain", "replace"}
K6Kinds == {"unbuildable", "nothing", "output", "js"}

ASSUME OptionsAssumption ==
    Options \subseteq [preset : DOMAIN Presets, enable : SUBSET Checks, disable : SUBSET Checks,
                       enableOnly : Seq(Checks), json : BOOLEAN, out : BOOLEAN]
\* fine: the checks whose files and scripts are in order.
ASSUME ExtensionsAssumption == Extensions \subseteq [fine : SUBSET Checks, k6 : K6Kinds]
ASSUME GoModsAssumption == GoMods \subseteq GoModKinds
ASSUME BoundsAssumption == MaxEdits \in Nat /\ MaxFaults \in Nat

VARIABLES
    pc,
    opts, ext,
    checkers,   \* the checks to do, in order
    gomod,      \* the go.mod on disk
    rev,        \* and how often it was edited
    s,          \* state: modfile with its rev, exe (0 if none), version
    results,    \* verdicts, with the rev and the exe they rest on, 0 if none
    temp,       \* temporary executables on disk, numbered in order
    builds,     \* k6 builds so far
    report,     \* "none", "whole" or "lost"
    faults,
    seen,       \* history: the contents go.mod has had
    exit        \* exit code

input == <<opts, ext, checkers>>
disk == <<gomod, rev, seen>>
vars == <<pc, input, disk, s, results, temp, builds, report, faults, exit>>

NoExit == 3

------------------------------------------------------------------------------
(* checkersFor, and what the checks look at.                                 *)

\* Where in CheckIDs the checks are that --enable, --disable and the preset leave.
Wanted(o) ==
    {i \in DOMAIN CheckIDs : CheckIDs[i] \in (o.enable \cup Presets[o.preset]) \ o.disable}

\* Those of --enable-only as they come, the others in the order of CheckIDs.
checkersFor(o) ==
    IF o.enableOnly # <<>> THEN o.enableOnly
    ELSE [k \in 1..Cardinality(Wanted(o)) |->
            CheckIDs[CHOOSE i \in Wanted(o) : Cardinality({j \in Wanted(o) : j < i}) = k - 1]]

\* Whether go builds k6 with the extension, from the go.mod that is there now.
Builds(g) == g \in {"plain", "replace"} /\ ext.k6 # "unbuildable"

\* A check of what only JavaScript extensions have passes for the others.
JsOnly(c, k6) == k6 # "js" \/ c \in ext.fine

\* The verdict the extension deserves with go.mod g.
Deserves(c, g) ==
    /\ c = "module" => g \in {"plain", "replace"}
    /\ c = "replace" => g \in {"plain", "headless"}
    /\ c = "build" => Builds(g) /\ ext.k6 # "nothing"
    /\ c \in K6Checks \ {"build"} => Builds(g) /\ JsOnly(c, ext.k6)
    /\ c \notin GoModChecks \cup K6Checks => c \in ext.fine

TypeOK ==
    /\ pc \in {"start", "checks", "output", "close", "exit"}
    /\ opts \in Options /\ ext \in Extensions
    /\ checkers \in Seq(Checks)
    /\ gomod \in GoMods /\ seen \subseteq GoMods /\ gomod \in seen
    /\ rev \in 1..(MaxEdits + 1)
    /\ s \in [modfile : GoMods \cup {"none"}, rev : 0..(MaxEdits + 1),
              exe : 0..Len(checkers), version : K6Kinds \cup {"none"}]
    /\ Len(results) <= Len(checkers)
    /\ results \in Seq([id : Checks, passed : BOOLEAN, rev : 0..(MaxEdits + 1),
                        exe : 0..Len(checkers)])
    /\ builds \in 0..Len(checkers)
    /\ temp \subseteq 1..builds
    /\ report \in {"none", "whole", "lost"}
    /\ faults \in 0..MaxFaults
    /\ exit \in {0, 1, 2, NoExit}

newState == [modfile |-> "none", rev |-> 0, exe |-> 0, version |-> "none"]

Init ==
    /\ pc = "start"
    /\ opts \in Options
    /\ ext \in Extensions
    /\ checkers = checkersFor(opts)
    /\ gomod \in GoMods
    /\ rev = 1
    /\ s = newState
    /\ results = <<>>
    /\ temp = {}
    /\ builds = 0
    /\ report = "none"
    /\ faults = 0
    /\ seen = {gomod}
    /\ exit = NoExit

Fault == faults < MaxFaults /\ faults' = faults + 1

------------------------------------------------------------------------------
(* runChecks: withState and the loop.                                        *)

\* dirArg and the output file come first.
Start ==
    /\ pc = "start"
    /\ \/ pc' = "checks" /\ UNCHANGED <<faults, exit>>
       \/ Fault /\ pc' = "exit" /\ exit' = 1
    /\ UNCHANGED <<input, disk, s, results, temp, builds, report>>

c == checkers[Len(results) + 1]

InCheck(S) == pc = "checks" /\ Len(results) < Len(checkers) /\ c \in S

\* Mutant of Verdict: no return after the error of a getter.
VerdictTwice(p, from, exe) ==
    results' = results \o [i \in {1, 2} |-> [id |-> c, passed |-> p, rev |-> from, exe |-> exe]]

\* The end of a check, with what it rests on.
Verdict(p, from, exe) ==
    results' = Append(results, [id |-> c, passed |-> p, rev |-> from, exe |-> exe])

\* What the getters still have to obtain for check c.
Missing ==
    IF s.modfile = "none" THEN "modfile"
    ELSE IF c \in GoModChecks \/ s.version # "none" THEN "nothing"
    ELSE IF s.exe = 0 THEN "exe"
    ELSE "version"

\* Mutant of KeepState: withState is called for each check.
DropState == s' = newState

\* What a check keeps for the next ones.
KeepState == UNCHANGED s

\* A checker that looks at files or runs a tool; an error is a failure, too.
Look(id) ==
    /\ InCheck({id})
    /\ \/ Verdict(id \in ext.fine, 0, 0) /\ UNCHANGED faults
       \/ Fault /\ Verdict(FALSE, 0, 0)
    /\ KeepState
    /\ UNCHANGED <<pc, input, disk, temp, builds, report, exit>>

checkerSecurity == Look("security")
checkerVulnerability == Look("vulnerability")
checkerReadme == Look("readme")
checkerLicense == Look("license")
checkerGit == Look("git")
checkerVersions == Look("versions")
checkerCodeowners == Look("codeowners")

\* moduleFile: only what could be parsed is kept.
ReadModfile ==
    /\ InCheck(GoModChecks \cup K6Checks)
    /\ Missing = "modfile"
    /\ \/ /\ gomod # "unreadable"
          /\ s' = [s EXCEPT !.modfile = gomod, !.rev = rev]
          /\ UNCHANGED <<results, faults>>
       \/ /\ (gomod = "unreadable" /\ UNCHANGED faults) \/ Fault
          /\ Verdict(FALSE, 0, 0)
          /\ KeepState
    /\ UNCHANGED <<pc, input, disk, temp, builds, report, exit>>

\* modulePath, and checkerModule, take the module line for granted.
Panics == InCheck(K6Checks \cup {"module"}) /\ s.modfile = "headless"

\* exePath and build: the temporary file is made first and kept in state only
\* if k6 was built.
BuildExe ==
    /\ InCheck(K6Checks)
    /\ Missing = "exe"
    /\ ~Panics
    /\ \/ /\ Builds(gomod)
          /\ s' = [s EXCEPT !.exe = builds + 1]
          /\ temp' = temp \cup {builds + 1}
          /\ UNCHANGED <<results, faults>>
       \/ /\ (~Builds(gomod) /\ UNCHANGED faults) \/ Fault
          /\ temp' = temp \cup {builds + 1}
          /\ Verdict(FALSE, 0, 0)
          /\ KeepState
       \/ Fault /\ Verdict(FALSE, 0, 0) /\ KeepState /\ UNCHANGED temp
    /\ builds' = builds + 1
    /\ UNCHANGED <<pc, input, disk, report, exit>>

\* versionOutput runs the k6 that was built.
RunVersion ==
    /\ InCheck(K6Checks)
    /\ Missing = "version"
    /\ \/ s' = [s EXCEPT !.version = ext.k6] /\ UNCHANGED <<results, faults>>
       \/ Fault /\ Verdict(FALSE, 0, 0) /\ KeepState
    /\ UNCHANGED <<pc, input, disk, temp, builds, report, exit>>

\* The end of a checker that has got what it needs.
End(id, passes) ==
    /\ InCheck({id})
    /\ Missing = "nothing"
    /\ ~Panics
    /\ Verdict(passes, s.rev, s.exe)
    /\ KeepState
    /\ UNCHANGED <<pc, input, disk, temp, builds, report, exit>>

Conclude(id, passes) == End(id, passes) /\ UNCHANGED faults

\* The files cannot be read, or the script cannot be run.
Unread(id) == s.version = "js" /\ Fault /\ End(id, FALSE)

\* Mutant of checkerBuild: it is content with a k6 that was built.
checkerBuildOnly == Conclude("build", TRUE)

\* hasExtension, isJS, and the files and the script of JavaScript extensions.
checkerModule == Conclude("module", TRUE)
checkerReplace == Conclude("replace", s.modfile # "replace")
checkerBuild == Conclude("build", s.version # "nothing")
checkerSmoke == Conclude("smoke", JsOnly("smoke", s.version)) \/ Unread("smoke")
checkerExamples == Conclude("examples", JsOnly("examples", s.version)) \/ Unread("examples")
checkerTypes == Conclude("types", JsOnly("types", s.version)) \/ Unread("types")

\* Mutant of Cleanup: it is left to the next run.
NoCleanup == UNCHANGED temp

\* cleanup is deferred by runChecks.
Cleanup == temp' = temp \ {s.exe}

Panic ==
    /\ Panics
    /\ Cleanup
    /\ pc' = "exit"
    /\ exit' = 2
    /\ UNCHANGED <<input, disk, s, results, builds, report, faults>>

------------------------------------------------------------------------------
(* lintRunE after the checks.                                                *)

AllPassed == \A i \in DOMAIN results : results[i].passed

ChecksDone ==
    /\ pc = "checks"
    /\ Len(results) = Len(checkers)
    /\ Cleanup
    /\ pc' = "output"
    /\ UNCHANGED <<input, disk, s, results, builds, report, faults, exit>>

\* lintOutput: an error of the JSON encoder counts, one of the text does not.
\* exit is what lintRunE is going to return.
Output ==
    /\ pc = "output"
    /\ pc' = "close"
    /\ \/ /\ report' = "whole"
          /\ exit' = IF AllPassed THEN 0 ELSE 2
          /\ UNCHANGED faults
       \/ /\ Fault
          /\ report' = "lost"
          /\ exit' = IF opts.json THEN 1 ELSE IF AllPassed THEN 0 ELSE 2
    /\ UNCHANGED <<input, disk, s, results, temp, builds>>

\* Mutant of CloseOutput: defer file.Close().
CloseIgnored ==
    /\ pc = "close"
    /\ pc' = "exit"
    /\ UNCHANGED report \/ (opts.out /\ report' = "lost")
    /\ UNCHANGED <<input, disk, s, results, temp, builds, faults, exit>>

\* The deferred close of the output file: its error counts if there is no other.
CloseOutput ==
    /\ pc = "close"
    /\ pc' = "exit"
    /\ \/ UNCHANGED <<report, faults, exit>>
       \/ /\ opts.out
          /\ Fault
          /\ report' = "lost"
          /\ exit' = IF exit = 0 THEN 1 ELSE exit
    /\ UNCHANGED <<input, disk, s, results, temp, builds>>

\* Somebody edits go.mod.
Edit ==
    /\ pc = "checks"
    /\ rev <= MaxEdits
    /\ gomod' \in GoMods \ {gomod}
    /\ rev' = rev + 1
    /\ seen' = seen \cup {gomod'}
    /\ UNCHANGED <<pc, input, s, results, temp, builds, report, faults, exit>>

Checker == checkerSecurity \/ checkerVulnerability \/ checkerModule \/ checkerReplace
           \/ checkerReadme \/ checkerLicense \/ checkerGit \/ checkerVersions \/ checkerBuild
           \/ checkerSmoke \/ checkerExamples \/ checkerTypes \/ checkerCodeowners

Xk6 == Start \/ Checker \/ ReadModfile \/ BuildExe \/ RunVersion \/ Panic \/ ChecksDone
       \/ Output \/ CloseOutput

Next == Xk6 \/ Edit

Spec == Init /\ [][Next]_vars

------------------------------------------------------------------------------
(* Properties.                                                               *)

\* LintReport's view of the run.
Given == [i \in DOMAIN results |-> [id |-> results[i].id, passed |-> results[i].passed]]
Deserved == {<<k, Deserves(k, g)>> : k \in Checks, g \in seen}
Trouble == faults > 0
Status == IF pc = "exit" THEN exit ELSE NoExit

Report == INSTANCE LintReport WITH
    wanted <- checkers, given <- Given, deserved <- Deserved, trouble <- Trouble,
    status <- Status

\* The report keeps the promises of LintReport: a check that passes deserves
\* it, whatever was kept from an earlier check, failed or was edited, and the
\* exit code tells how the checks went.
ReportSpec == Report!Spec

\* All verdicts about go.mod come from one reading of it and all about k6 from
\* one binary, also when go.mod is edited and failed builds are repeated.
OneReading ==
    \A i, j \in DOMAIN results :
        /\ 0 \notin {results[i].rev, results[j].rev} => results[i].rev = results[j].rev
        /\ 0 \notin {results[i].exe, results[j].exe} => results[i].exe = results[j].exe

\* A k6 that was built is there as long as checks may run it and removed in the
\* end; the temporary files that stay are of failed builds, at most one for
\* each check that needed k6 and got none.
TempIsKept ==
    /\ pc = "checks" /\ s.exe # 0 => s.exe \in temp
    /\ pc \in {"output", "close", "exit"} => s.exe \notin temp
    /\ Cardinality(temp \ {s.exe}) <=
         Cardinality({i \in DOMAIN results : results[i].id \in K6Checks /\ results[i].exe = 0})

\* A JSON report that the exit code 0 speaks of has been written.
ReportIsThere == pc = "exit" /\ exit = 0 /\ opts.json => report = "whole"

------------------------------------------------------------------------------
(* What the documents say and the code does not do.                          *)

\* Exit code "2   One or more checks failed".
TwoMeansFailed == pc = "exit" /\ exit = 2 => ~AllPassed
==============================================================================
