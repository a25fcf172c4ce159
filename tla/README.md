# xk6 in TLA+

xk6 builds custom k6 binaries from extensions, and lints, tests, runs, creates
and synchronizes extensions. This directory specifies the parts of it whose
order of steps matters, checks them with TLC on small instances and proves the
most important facts with TLAPS for every instance.

## The system

All of it is one sequential Go program per command; what makes it hard is
everything around that program: a module proxy that fails or is slow, a
registry that publishes releases meanwhile, child processes (go, k6), files
that others write too, the user's interrupt, and, for `fixids`, a container
that dies and is started again.

| Component | State | Operations | Modelled |
|---|---|---|---|
| Go proxy client (`internal/sync/sync.go`) | attempt, response in hand | `goProxyGet` and the lookups `getLatestVersion`, `getModule`, `probeVersionInfo` | `GoProxy`, `ProxyCall` |
| k6 module resolution (`internal/sync/sync.go`, `internal/cmd/build_helper.go`, `internal/lint/check_util.go`) | `opts.k6repo`, `opts.k6version`, best so far, consecutive absent majors | `resolveK6Repo`, `ResolveK6ModuleForExtensions`, `getOverallLatestVersionFor`, `ResolveModuleForVersion`, `resolveK6Module`, `newFoundry` | `K6Resolve` |
| `xk6 sync` (`internal/sync/sync.go`, `internal/cmd/sync.go`) | `go.mod`, the copy read of it, the changes | `Sync`, `diffRequires`, `syncRunE` | `SyncDeps` |
| `xk6 test` (`internal/cmd/test.go`, `internal/test`) | results, the k6 process and its pipe, the temporary k6 | `runTestE`, `runFiles`, `runFile`, `runAndLog`, `errorToResult` | `TestRun` |
| `fixids` (`internal/fixids`) | `/etc/passwd`, `/etc/group`, owners of files, the marker, credentials | `main`, `exitOrExec`, `updateEtcPasswd`, `updateEtcGroup` | `FixIds` |
| Build on the fly (`internal/cmd/run_helper.go`, `build_helper.go`, `build.go`) | temporary directory, output file, the child | `buildK6OnTheFly`, `buildK6`, `runK6Command`, `buildRunE` | `Command`; the choice of k6 in `K6Resolve` |
| Signals and contexts (`internal/cmd/root.go`) | the signal channel, the root context | `Execute`, `trapSignals` | `Command`; flags, help and version have no state |
| `xk6 lint` (`internal/cmd/lint.go`, `internal/lint`) | caches of the check run, the temporary k6, the report | `lintRunE`, `checkersFor`, `runChecks`, the getters of `state`, `build`, `cleanup` | `Lint`, `LintReport` |
| Lint checkers (`internal/lint/checker_*.go`) | none of their own | one function per check | `Lint`, an action each |
| `xk6 new`, `xk6 adjust` (`internal/scaffold`, `internal/cmd/new*.go`, `adjust.go`) | the directory, its `.git` | `Scaffold`, `Adjust`, `cleanup`, `customize`, `getLatest` | `Scaffold` |
| Generators (`tools/`) | none | | no: pure I/O, used in development only |
| k6foundry, go, git, go-git, k6 (external) | | | only as their callers see them |

How they interact: `build`, `run`, `x` and `test` call `resolveK6Repo`, which
calls the resolver, which makes one proxy lookup after the other; `lint` and
`sync` call the resolver too. `test`, `run` and `x` build k6 into a temporary
directory and run it as a child; `lint` builds one, too, and asks it for its
version. `sync` has `go get` write `go.mod`. The commands receive the root
context, which an interrupt cancels, but for `lint`, `sync`, `new` and `adjust`,
which set a context of their own that nobody cancels. `adjust` ends with the
`customize` that `new` ends with, on what an earlier `new` or a fork has left in
the directory. The container's entry point evaluates the output of `fixids` and
then executes xk6.

## Modules

### ProxyCall and GoProxy: one lookup at the proxy

`ProxyCall` is what one lookup promises its caller: a value only if the proxy
has it, an error only for a reason (not there, request not valid, cancelled, a
fault). `GoProxy` is the client as written, one action per step of
`goProxyGet`'s loop and of its callers: `Start` (`proxyPath`), `TimerFires` and
`StopWaiting` (the `select`), `Send`, `CtxAborts`, `NetworkError`, `Answer`,
`Retry5xx`, `CheckStatus`, `ReadBody`, `BodyUnreadable`. Which URL is asked and
what is parsed is abstracted to present, valid and readable. `CallSpec` says
that `GoProxy` implements `ProxyCall`.

### K6Resolve: which k6

One module for all entry points, because they share the loops: `BeginBuild`
(`resolveK6Repo`), `BeginLint`, `BeginSync`. A lookup is one step that
`Found`s or is `NotFound`, with the outcomes that `ProxyCall` allows; between
two lookups `Publish` may add releases and `Cancel` may cancel the context. A
module path is represented by its major (1 for the base path), a version by its
kind and major and minor. `NewFoundry` is the end of a build's resolution: which
module k6foundry will require, and which fork replaces it. History: `asked` is
the registry when the command started, `home` the major that holds a requested
branch or SHA, `source` the branch of the code that decided.

### SyncDeps: synchronizing go.mod

`LoadModfile`, `ResolveK6Module` (the outcomes of K6Resolve in one step),
`GetModule` with `DiffRequires`, `GoGet`, `Report`; `Fail` at each call.
Commands are run again and again on the same `go.mod`, `Edit` is another
writer, `Kill` stops xk6 and may leave the `go get` child, which `OrphanWrites`
later. `AfterGoGet` is what the go command makes of a `go.mod`: it is external
and settles the graph of all modules (`Needs`, what each version requires) as
minimal version selection does: what is asked for gets exactly that version,
what needs more of it goes down to its newest version that does not (`Roots`),
and then each module is as new as the others need it (`Selected`). Which of the
modules that are only needed it lists depends on the packages used, so the
result is a set. `Consistent` is a go.mod that the go command leaves alone.
`-k latest` is refused in `NoSuchVersion`: the name is passed to the `.mod`
endpoint, which accepts canonical versions only (docs/k6-module-resolution.md).

### TestRun: running the tests

`CreateOutput`, `BuildK6`, `Glob`, then per file `StartK6`, `ReadEntry`,
`ReadEof`, and `Report`. `BuildK6` may panic on a go.mod without a module line;
`ReadEof` may get the context's error for a k6 that has ended well; `Report`
ignores what TAP cannot write, as the code does. The k6 processes are concurrent with it: `K6Logs`
blocks on a full pipe, `K6Exits`, and `K6Killed` after an `Interrupt`, perhaps
in the middle of a line. A log line is JSON, JSON with a reason, or no JSON.

### FixIds: the setuid helper

One action per system call that changes something: the two account files are
emptied and written (`os.WriteFile` is two steps), the walk visits a file at a
time, the marker, the credentials in the order of `exitOrExec`. `Crash` stops
it between any two; `Start` runs it again, with the same ids until the marker
is there and with any ids after that. `Marked` takes any error of `os.Stat` but
"not there" for the marker. An account file is a record per name, an
emptied one is `torn`. `Walked` is the set of files under `$HOME` and the
working directory that are on their mount.

### LintReport and Lint: the linter

`LintReport` is what lint.md promises of a run: one verdict per wanted check,
in order, each of them deserved by the extension at some moment of the run
unless a call failed, and an exit code that fits them. `Lint` is the code: `Start`
(`lintRunE` up to the checks), the loop of `runChecks` with an action per
checker, the getters of `state` as `ReadModfile`, `BuildExe` and `RunVersion`
(what the first check obtains is kept in `s`, a failure is not), `Panic` for a
go.mod without a module line, `ChecksDone`, `Output`, `CloseOutput`, and `Edit`
by somebody else. An extension is the set of checks whose files and tools are in
order (`fine`) and what k6 does with it (`k6`: does not build, is not in it, is
in it, is JavaScript); a go.mod is one of four kinds. Temporary executables are
numbered. Every verdict carries the reading of go.mod and the k6 it rests on.
`ReportSpec` says that `Lint` implements `LintReport`.

### Command: one xk6 process after the other

`Begin` is a new process that builds, runs k6 or works with a context of its
own. `Listen` and `ShutDown` are the goroutine of `trapSignals`, which may not
have run yet when `Interrupt` comes; the terminal sends it to the children as
well. `MkdirTemp` and `getModfile` are `buildK6OnTheFly`, with the panic of a
go.mod that has no module line; `OpenOutput`,
`MkWork`, `GoBuild`, `CopyBlock` and `Built` are `buildK6` with k6foundry's
Build; `StartK6`, `Wait`, `K6Ends` and `K6Killed` are `runK6Command`. A binary
is a sequence of blocks, each the number of the command that wrote it, because
the output file is opened without truncating it.

### Scaffold: new and adjust

One directory that `new` and `adjust` work on, one command after the other.
`LookupSample`, `PlainClone`, `Fetch`, `Populate`, `FindLatest`, `checkout` and
`cleanup` are `newRunE` and `Scaffold`, file by file; `getModulePath`,
`NotSample`, `getGitURL`, `getDescription` and `Adjust` are `adjustRunE`;
`customizeFile` is the walk of both, which may fail or be killed before, within
or after a file. Of a file the model keeps where it is from (user, template of
some revision, torn) and how often the replacer has changed it. A name is
`nested` when it contains the sample's, so that a second replacement finds it
again. `notes` is a file of the user. In a half-made clone the origin is the
sample's own repository, so `adjust` replaces its module by itself; `words` says
whether package and description, from flags or from the repository's page,
differ from the sample's, and `Wordy` in which files they stand. The clone is external: it refuses a
directory that has a `.git` and, when it fails, cleans up only one that was
empty.

## What the runs check

Each module has one type invariant. The other properties are commented where
they are defined; in short:

| Run | Properties | Bounds, and why they are enough |
|---|---|---|
| `goproxy` | `BodyReleased`, `ErrorIsEarned`, `RetryOnlyAfterFault`, the refinement `CallSpec`, `Returns` | three attempts, as in the code; the safety properties are proved for any number |
| `k6resolve` | `PlanAgrees`, `LatestNotStale`, `ChoiceIsEarned` (the first extension that declares k6 decides, giving up has a reason), `Resolves` | five majors, so that a probe can meet a gap, recover and meet two more; up to two extensions of seven sorts; one failing lookup; each major may be published or not and may appear at any moment; one release per major |
| `syncdeps` | `AllOrNothing`, `ReportIsTrue`, `DefaultKeepsOthers`, `EditsSurvive` | k6, two common dependencies and two modules that k6 lacks, with needs by which one goes up or down with a dependency and the other is pulled up when it goes down; two versions, two commands, one edit, one failing call |
| `fixids` | `AccountsAreSound` (unique ids, primary groups kept, ids have names), `OwnersAreRight` (the user's files follow, nobody else's), `RunsAsCaller` (privileges dropped, home known), `FatalIsEarned` | four ids: root's, the container's, another account's and one nobody has, in every combination for uid and gid; a second user in the container's group; five files, one per sort of owner; two crashes, three starts, one failing call |
| `testrun` | `ResultsAreEarned` (each verdict and its first reason), `ReportIsRight` (complete, exit code), `NothingIsLeft` (one k6 at a time, no temporary directory), `Terminates` | two files, one matched twice, or none; logs of two lines through a pipe of one, so that k6 blocks; any go.mod, JSON or TAP; one failing call, an interrupt at any moment |
| `lint` | `OneReading`, `TempIsKept`, `ReportIsThere`, the refinement `ReportSpec` | five ways to call the linter (a preset, checks added and removed, lists with a repetition, JSON or text, file or standard output) on eight extensions with each of four go.mods; one edit that may come between any two steps, two failing calls, so that one build may fail and be repeated |
| `command` | `RunsItsOwnBuild`, `OutputIsSound`, `LeavesNothing`, `InterruptEnds` | two commands, so that the second meets what the first has left; binaries of one or two blocks, so that a shorter one follows a longer one; any go.mod; two interrupts at any moment, one failing call, two steps of a command with its own context |
| `scaffold` | `NewIsWhole`, `OthersAreKept`, `AdjustAllOrNothing` | three commands, so that a retry can be adjusted; two failures or kills; eight files, one per way they are treated; two releases or fewer; an empty directory, one of the user's, a fork; any package and description where the origin is the sample |

Deadlock is checked where the model has no natural end without a stuttering
action; the other modules bound the number of commands, starts and runs, or end
with the one command they model, and so stop.

Fairness. `GoProxy!FairSpec`: the client's own steps; nothing is assumed of the
proxy, for which the first half of `Returns` holds, a cancelled lookup ends; the
second half has the assumption that a request is answered or fails in front of
it. `K6Resolve!FairSpec`: the resolver is sequential
code whose lookups return. `TestRun!FairSpec`: xk6 is sequential code, and a k6
that can write or end does so, since it runs one iteration. `Command!FairSpec`:
the main goroutine, the one of `trapSignals` and the one of `exec.CommandContext`
that kills run; nothing is assumed of k6, which may run for hours, so that
`InterruptEnds` rests on the kill alone. No fairness is
assumed of the user, of publications or of failures.

### Where the code and its documents differ

Four runs show, by a counterexample, that the code does not do what a
comment or document says:

| Run | What happens |
|---|---|
| `k6resolve_transient` | any failing lookup ends the scan for the newest k6, which is then silently an older one, though the comment speaks of a major that does not exist |
| `fixids_old_gid` | the inverted `err != nil` keeps the old gid among the supplementary groups |
| `lint_panic` | a go.mod without a module line makes the linter panic, which ends with 2, the code for checks that failed, and without a report |
| `scaffold_adjust` | after an adjust that failed behind go.mod, the next one looks at go.mod alone, has nothing to do and reports success over half an extension |

Met while modelling, without a run of their own:

- docs/k6-module-resolution.md says the probe for a branch "stops on the first
  failure" where the code stops after two missing majors in a row, and that a
  fork given by `--k6-repo` is returned immediately where the code looks it up.
- The newest k6 is "the module with the highest published version" (help of
  build), but only up to the first missing major.
- `sync.md` allows `-k latest`; `sync -k` with an older k6 moves the
  requirement of k6 itself, which is not in k6's `go.mod`.
- "Dependencies not found in k6's `go.mod` remain unchanged" (sync.md:3) is not
  so: `go get` also moves modules that k6 lacks but that cannot stand beside the
  versions asked for, and lists new ones. It may raise a dependency that had
  k6's own version, so that a second sync finds something to do.
  `DefaultKeepsOthers` and `EditsSurvive` say which modules can move.
- `run`, `x` and `test` panic on a go.mod without a module line
  (`mfile.Module.Mod` in `buildK6OnTheFly`), end with 2 and leave `xk6-build-*`
  behind; of `test`, 2 is the code for tests that failed.
- Errors of writing the TAP report are lost, and the exit code is that of the
  tests.
- An interrupt between the end of a k6 and `Wait` makes a test that passed a
  failed one, with the message "context canceled".
- fixids takes any error of `os.Stat` but "not there" for a marked system.
- On a system that is marked, fixids executes the user name as the command;
  after a crash before the end of the walk the files are never handed over.
- A k6 that ends with 0 fails its test if it has logged a line that is not
  JSON. The warning for no test files cannot be reached, because no match is an
  error before.
- A build over a longer file leaves that file's tail behind its own binary and
  reports success; that is why `OutputIsSound` speaks of a prefix.
- After "SIGINT: Shutting down" `lint`, `sync`, `new` and `adjust` go on to
  their end.
- Errors of writing the text report of lint are lost; lint has `--k6-version`
  and `--k6-repo` flags that nothing reads.
- After a clone that failed in a directory that was not empty, `adjust` finds
  the sample's repository as origin, keeps its module and may still replace
  package and description.
- `adjust` panics on a go.mod without a module line. `customize` also rewrites
  the user's own files in the directory.
- A replacement loses its version, and a relative path in it is resolved
  against another directory than the one of its go.mod. `go get` runs in the
  working directory instead of the one passed to `Sync`, whose only caller
  passes ".".

## What is proved

In `GoProxyProofs`, for every `MaxAttempts`: the type invariant,
`BodyReleased`, `ErrorIsEarned`, `RetryOnlyAfterFault`, and that `GoProxy`
implements `ProxyCall`. None of the properties is inductive as it stands: what
ties them together is that attempts, requests and faults count in step.
`IInv` states that relation per label (undisturbed, `attempt` requests have
been sent and as many faults been met; one more of each while a request is
under way or a 5xx answer is in hand), and the
refinement maps every step but the ones of the loop to a stutter.
`LookupsAreBounded` says that the loop ends: `StepsLeft` gives the steps left at
each label, and every step of the client or the network lowers it.

In `K6ResolveProofs`, for any number of majors, releases, faults and any set of
requests, from the named assumptions on the constants: the type invariant,
`PlanAgrees`, `LatestNotStale` and `ChoiceIsEarned`. The inductive invariant adds to them what
each label knows: that `best` is a release of the last major found and not older
than what that major had when the command started, how far the loops have come
(`major` is bounded by the consecutive absent majors), which kind of version
goes with which source, and that path and version are still the user's until
something is resolved. `Chosen` and `Probed` are added to it for
`ChoiceIsEarned`: which extensions have been passed over so far, and which
majors are known not to hold the ref or to be missing, as long as nothing has
failed. Each step is one case per action. Three theorems say what others may
rely on: `ResolutionsAreBounded` (no release published meanwhile gives the scans
more to do), `DecidesOnce`, and `SyncFollowsIt`, which relates the two modules
of a sync: what `SyncDeps` takes for one step, `ResolveK6Module` and
`NoSuchVersion`, is what the lookups of `K6Resolve` come to.

In `SyncDepsProofs`, for any modules, versions, commands, edits and failures:
the type invariant, `AllOrNothing`, `ReportIsTrue`, `DefaultKeepsOthers` and the
action property `EditsSurvive`. `Snapshot` says what the copy of go.mod a
command works on has to do with the file, `Progress` what the changes are at
each label, `Done` that a command that comes to its report has done what it is going to list,
and both go.mods are `Consistent`. About go get there are lemmas, for any `Needs`
that are transitive and any k6 whose go.mod is tidy (`NeedsAssumption`): what it leaves
is consistent (`GoGetIsConsistent`) and follows k6 (`GoGetFollows`), a second
one for the same changes moves nothing that is listed (`GoGetAgain`, for the orphan that comes
after), and what it moves it has a reason to move (`GoGetMoves`).
`SyncIsIdempotent` follows: nothing that was a difference is one again, and
without `-k` the k6 that go.mod requires is not older. That there is a newest
version to choose, `Max` being defined by a choice, is `Newest`, by well-founded
induction.

In `FixIdsProofs`, for any ids, accounts, groups, files and any number of
crashes and starts: the type invariant and all four safety properties.
`Accounts` says what the files can be after a crash between two writes
(the image's ids but for the user's uid and the group's gid), `Writing` what the
label adds, `Whose` and `Walking` which files have been visited, `Creds` how far
`exitOrExec` has come. `CrashesLeaveNoTrace` sums up recovery: the accounts of a
marked system are those of one undisturbed start; `MarkIsFinal` says that
nothing changes them, or the owner of a file, once the mark is set.

In `TestRunProofs`, for any files, logs, pipe and any number of failures: the
type invariant, `ResultsAreEarned`, `ReportIsRight` and `NothingIsLeft`. `Place`
ties results, files and the current run together, `Processes` says that later
files have no k6 yet, `Heard` what the reader knows of the log, `Counted` what
the exit code rests on. That `SortCompact` sorts is a lemma: the rank of an
element among the others is injective. `TestsAreBounded` gives xk6 and each k6
a measure of its own that every step of it lowers and no step of the other
raises, and `NobodyWaits` excludes the deadlock the pipe could cause: whenever
`runAndLog` reads, there is something to read or its k6 can log or end.

In `LintProofs`, for any options, extensions, go.mods, edits and failures: the
type invariant, `OneReading`, `TempIsKept`, `ReportIsThere`, and that `Lint` implements
`LintReport`, where each checker's last step maps to `Judge`, an edit to `Edit`,
a step that only fills a cache to a stutter. `Kept` says that what `state` holds
was read or built from a go.mod the extension has had and that every verdict
rests on it, `Told` and `Judged` what the exit code is going to say. The type
invariant needs two more facts: that `checkersFor` yields a list of checks,
since each place in it is taken by exactly one (`EveryPlaceIsTaken`, a
pigeonhole over the ranks), and `Limits`, that builds do not outnumber the
checks, since a build that fails ends one. `ChecksAreBounded` says that the loop of
`runChecks` ends: each step ends a check or obtains one of the three things
`state` keeps, and none of these is obtained twice or taken back.

In `CommandProofs`, for any number of commands, interrupts and faults and
binaries of any length: the type invariant and the three safety properties.
`RunFile` and `BuildFile` say which blocks of the two output files are this
command's, `Where` and `Leftovers` what can exist at which label.
`CommandsAreBounded` adds that a command takes a bounded number of steps and that an
interrupt, once received, is not forgotten before the command ends, neither in
the signal channel nor in the context.

In `ScaffoldProofs`, for any releases, commands, failures and kills: the type
invariant and the three safety properties. `NewPhases` and `AdjustPhases` say
for every label which files have been placed, removed or replaced already;
`Times` bounds how often a file was replaced by the number of commands. That
`getLatest` yields the newest release is a lemma, by a least element of a
well-founded relation, since a maximum is defined by a choice.
`UsersFileIsKept` is an action property: however a command fails, a file of the
user's that the sample lacks is neither removed nor replaced, because a failing
clone cleans up only where the directory was empty (`CleanDirectory`); only a
write of `customize` that fails may cost it.

Only model-checked: liveness under fairness (`Returns`, `Resolves`, `Terminates`,
`InterruptEnds`), since `ENABLED` is out of the prover's reach. What can be
proved of it is the part that does not depend on fairness, the measures above:
from any state the number of steps the program can still take is bounded, and
the environment does not raise it. That a step is always possible until the end
is left to TLC.

## Plan

The modules planned are written and every safety property the runs check is
proved. Left to prove: more of what one module takes for granted of another, as
`SyncFollowsIt` does for `SyncDeps`; `TestRun` and `Command` likewise take a
build for one step.

## Not modelled

The layout of reports and logs, the parsing of flags and of go.mod, escaping of
module paths, the content the checkers look for, the generators under `tools/`,
and what k6foundry, go, git and k6 do inside. The build's second lookup of an
extension without a version is inside k6foundry; it may find another version
than the one whose go.mod decided which k6 is used, and nothing promises that it
does not, so there is no property to state. Descriptions and package names,
which `new` and `adjust` replace as well, are told apart from the module path
and the name only where the origin is the sample's own repository.

Two things the properties excuse, since the code accepts them: a crash of
`fixids` between the account files and the walk, and an `lchown` that fails,
leave files that are not handed over; a shorter binary written over a longer one
keeps its tail. A lookup that fails leaves `--k6-repo` and `--k6-version` as they
were given, whether go can build that pair or not.

## Running

    tlc -workers 2 -config K6Resolve.cfg MCK6Resolve
    tlapm K6ResolveProofs.tla

A run's module is the one named `MC...` where there is one, else the module itself.
