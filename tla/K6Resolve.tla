------------------------------ MODULE K6Resolve ------------------------------
(***************************************************************************)
(* Which k6 module, at which version, a command builds or syncs against:   *)
(* resolveK6Repo and newFoundry (xk6 build, run and x), the resolution in  *)
(* lint's build, and resolveK6Module (xk6 sync), over the resolver of      *)
(* internal/sync.  Every proxy lookup is one step with the outcomes that   *)
(* ProxyCall allows; between two of them the registry may publish          *)
(* releases, the network may fail and the user may interrupt.              *)
(*                                                                         *)
(* A module path is its major: 1 for the base path ("go.k6.io/k6" or the   *)
(* fork's), m for "<base>/vm".  Major v0 lives at the base path too and is *)
(* not told apart from v1.                                                 *)
(***************************************************************************)
EXTENDS Naturals, Sequences

CONSTANTS
    MaxMajor,   \* majors 1..MaxMajor may be published
    MaxMinor,   \* releases of one major
    MaxFaults,  \* lookups that fail though the resource exists
    Requests    \* the command lines considered, see RequestType

ASSUME BoundsAssumption ==
    /\ MaxMajor \in Nat \ {0}
    /\ MaxMinor \in Nat \ {0}
    /\ MaxFaults \in Nat

Majors == 1..MaxMajor

\* What --k6-version may be: "latest" (build's default), not set (sync's
\* default), a release, a semver with a prerelease part, a branch or SHA.
Version == [kind : {"latest", "unset", "release", "pre", "ref"},
            major : 0..MaxMajor, minor : 0..MaxMinor]

Release(m, n) == [kind |-> "release", major |-> m, minor |-> n]

\* An extension, as --with names it: replaced by a directory (LocalPath) or
\* not, with or without a version, its go.mod readable or not, and the majors
\* of the k6 modules that go.mod requires, in the order of the file.
Extension == [local : BOOLEAN, pinned : BOOLEAN, readable : BOOLEAN,
              requires : Seq(Majors)]

\* The suffix is the major in --k6-repo, 1 when it has none.
RequestType == [cmd : {"build", "lint", "sync"}, fork : BOOLEAN,
                suffix : Majors, version : Version, exts : Seq(Extension)]

\* lint and sync take no --k6-repo and look at the extension in the working
\* directory alone.
ASSUME RequestsAssumption ==
    /\ Requests \subseteq RequestType
    /\ \A r \in Requests :
         /\ r.version.kind \in {"release", "pre"} => r.version.major \in Majors
         /\ r.cmd = "build" => r.version.kind # "unset"
         /\ r.cmd # "build" => /\ ~r.fork /\ r.suffix = 1 /\ Len(r.exts) = 1
                               /\ r.exts[1].local
         /\ r.cmd = "lint" => r.version.kind = "latest"

VARIABLES
    req,        \* the command line
    latest,     \* the registry: the newest release of each major, 0 if none
    home,       \* the major whose module holds the requested ref, 0 if none
    cancelled,  \* the command's context is cancelled
    faults,     \* lookups that failed though the resource exists
    pc,
    ext,        \* index in req.exts of ResolveK6ModuleForExtensions's loop
    major,      \* major of the probing loops
    best,       \* bestPath and bestVersion
    absent,     \* consecutiveAbsent
    path,       \* opts.k6repo, or the module path sync returns
    version,    \* opts.k6version, or the version sync returns
    plan,       \* what k6foundry is asked for: require and replace
    asked,      \* history: the registry when the command started
    source      \* history: what the result rests on

input == <<req, home, asked>>
world == <<latest, cancelled, faults>>
loop == <<ext, major, best, absent>>
result == <<path, version, source>>
vars == <<input, world, pc, loop, result, plan>>

Labels == {"begin", "exts", "extmod", "base", "majors", "baseinfo", "info",
           "exists", "foundry", "done", "failed"}

InputOK ==
    /\ req \in Requests
    /\ home \in 0..MaxMajor
    /\ asked \in [Majors -> 0..MaxMinor]

WorldOK ==
    /\ latest \in [Majors -> 0..MaxMinor]
    /\ cancelled \in BOOLEAN
    /\ faults \in 0..MaxFaults

LoopOK ==
    /\ ext \in 1..(Len(req.exts) + 1)
    /\ major \in 2..(MaxMajor + 2)
    /\ best \in [path : Majors, major : Majors, minor : 0..MaxMinor]
    /\ absent \in 0..2

ResultOK ==
    /\ pc \in Labels
    /\ path \in Majors
    /\ version \in Version
    /\ source \in {"none", "user", "ext", "latest", "release", "probe", "asis"}
    /\ plan \in [require : 0..MaxMajor, replace : 0..MaxMajor]

TypeOK == InputOK /\ WorldOK /\ LoopOK /\ ResultOK

Init ==
    /\ req \in Requests
    /\ latest \in [Majors -> 0..MaxMinor]
    /\ home \in CASE req.version.kind = "ref" -> 0..MaxMajor
                  [] req.version.kind = "pre" -> {0, req.version.major}
                  [] OTHER -> {0}
    /\ asked = latest
    /\ cancelled = FALSE
    /\ faults = 0
    /\ pc = "begin"
    /\ ext = 1
    /\ major = 2
    /\ best = [path |-> 1, major |-> 1, minor |-> 0]
    /\ absent = 0
    /\ path = req.suffix
    /\ version = req.version
    /\ plan = [require |-> 0, replace |-> 0]
    /\ source = "none"

------------------------------------------------------------------------------
(* Proxy lookups, as ProxyCall promises them: a lookup finds what is there,  *)
(* or fails because it is not there, the context is cancelled, or the proxy  *)
(* or the network failed for the whole budget of attempts.                   *)

Published(m) == m \in Majors /\ latest[m] > 0

Found(there) == there /\ ~cancelled /\ UNCHANGED world

NotFound(there) ==
    /\ UNCHANGED <<latest, cancelled>>
    /\ \/ (~there \/ cancelled) /\ UNCHANGED faults
       \/ there /\ faults < MaxFaults /\ faults' = faults + 1

(* The ways out of the resolver.                                             *)

Resolved(p, v, s) ==
    /\ path' = p
    /\ version' = v
    /\ source' = s
    /\ pc' = IF req.cmd = "sync" THEN "done" ELSE "foundry"

\* A build goes on with what it was given; lint and sync report the error.
Unresolved ==
    /\ UNCHANGED <<path, version>>
    /\ IF req.cmd = "build"
       THEN pc' = "foundry" /\ source' = "asis"
       ELSE pc' = "failed" /\ UNCHANGED source

------------------------------------------------------------------------------
(* Mutants: bugs this code could have, each caught by a property below.      *)

\* The loop goes on after the second absent major.
MajorExistsLate ==
    /\ pc = "exists"
    /\ \/ /\ Found(Published(major))
          /\ absent' = 0
          /\ major' = major + 1
          /\ pc' = "info"
          /\ UNCHANGED result
       \/ /\ NotFound(Published(major))
          /\ IF absent = 2
             THEN Unresolved /\ UNCHANGED <<major, absent>>
             ELSE /\ absent' = absent + 1
                  /\ major' = major + 1
                  /\ pc' = "info"
                  /\ UNCHANGED result
    /\ UNCHANGED <<input, ext, best, plan>>

\* The lower of two versions is kept.
TakeBestLower(m) == UNCHANGED best

\* An existing major that does not hold the ref is probed again.
MajorExistsStays ==
    /\ pc = "exists"
    /\ \/ /\ Found(Published(major))
          /\ absent' = 0
          /\ pc' = "info"
          /\ UNCHANGED <<major, result>>
       \/ /\ NotFound(Published(major))
          /\ absent' = absent + 1
          /\ IF absent + 1 >= 2
             THEN Unresolved /\ UNCHANGED major
             ELSE pc' = "info" /\ major' = major + 1 /\ UNCHANGED result
    /\ UNCHANGED <<input, ext, best, plan>>

\* LocalPath is not looked at: the extension is asked for at the proxy, which
\* does not know it, and skipped.
ReadLocalRemotely ==
    /\ pc = "exts"
    /\ ext <= Len(req.exts)
    /\ req.exts[ext].local
    /\ ext' = ext + 1
    /\ UNCHANGED <<input, world, pc, major, best, absent, result, plan>>

------------------------------------------------------------------------------
(* Entry points.                                                             *)

\* ResolveModuleForVersion, up to its first lookup.
ResolveModuleForVersion ==
    IF req.version.kind = "release"
    THEN Resolved(req.version.major, version, "release")
    ELSE pc' = "baseinfo" /\ UNCHANGED result

\* resolveK6Repo, up to its first lookup.
BeginBuild ==
    /\ pc = "begin"
    /\ req.cmd = "build"
    /\ CASE req.suffix # 1 -> Resolved(path, version, "user")
         [] req.suffix = 1 /\ req.version.kind = "latest" ->
              pc' = (IF req.fork THEN "base" ELSE "exts") /\ UNCHANGED result
         [] OTHER -> ResolveModuleForVersion
    /\ UNCHANGED <<input, world, loop, plan>>

\* build in internal/lint asks about its own extension.
BeginLint ==
    /\ pc = "begin"
    /\ req.cmd = "lint"
    /\ pc' = "exts"
    /\ UNCHANGED <<input, world, loop, result, plan>>

\* findK6Require: the first k6 module required wins.
Declares(e) == e.readable /\ e.requires # <<>>

UseRequire(e) == Resolved(e.requires[1], Release(e.requires[1], 1), "ext")

\* resolveK6Module, over the go.mod that Sync has read.
BeginSync ==
    /\ pc = "begin"
    /\ req.cmd = "sync"
    /\ req.exts[1].readable
    /\ IF version.kind # "unset" THEN ResolveModuleForVersion
       ELSE IF Declares(req.exts[1]) THEN UseRequire(req.exts[1])
       ELSE pc' = "base" /\ UNCHANGED result
    /\ UNCHANGED <<input, world, loop, plan>>

\* Sync fails on a go.mod it cannot read.
NoModfile ==
    /\ pc = "begin"
    /\ req.cmd = "sync"
    /\ ~req.exts[1].readable
    /\ Unresolved
    /\ UNCHANGED <<input, world, loop, plan>>

------------------------------------------------------------------------------
(* ResolveK6ModuleForExtensions.                                             *)

\* The go.mod of extension e was read.
Scan(e) ==
    IF Declares(e)
    THEN UseRequire(e) /\ UNCHANGED ext
    ELSE ext' = ext + 1 /\ pc' = "exts" /\ UNCHANGED result

\* It could not be read: "skipping".
Skip == ext' = ext + 1 /\ pc' = "exts" /\ UNCHANGED result

ReadLocal ==
    /\ pc = "exts"
    /\ ext <= Len(req.exts)
    /\ req.exts[ext].local
    /\ Scan(req.exts[ext])
    /\ UNCHANGED <<input, world, major, best, absent, plan>>

\* No version was asked for: look up the latest.
LatestOfExt ==
    /\ pc = "exts"
    /\ ext <= Len(req.exts)
    /\ ~req.exts[ext].local
    /\ ~req.exts[ext].pinned
    /\ \E there \in {TRUE, req.exts[ext].readable} :
         \/ Found(there) /\ pc' = "extmod" /\ UNCHANGED <<ext, result>>
         \/ NotFound(there) /\ Skip
    /\ UNCHANGED <<input, major, best, absent, plan>>

ModOfExt ==
    /\ \/ pc = "extmod"
       \/ /\ pc = "exts"
          /\ ext <= Len(req.exts)
          /\ ~req.exts[ext].local
          /\ req.exts[ext].pinned
    /\ \/ Found(req.exts[ext].readable) /\ Scan(req.exts[ext])
       \/ NotFound(req.exts[ext].readable) /\ Skip
    /\ UNCHANGED <<input, major, best, absent, plan>>

NoneDeclares ==
    /\ pc = "exts"
    /\ ext > Len(req.exts)
    /\ pc' = "base"
    /\ UNCHANGED <<input, world, loop, result, plan>>

------------------------------------------------------------------------------
(* getOverallLatestVersionFor.                                               *)

LatestOfBase ==
    /\ pc = "base"
    /\ \/ /\ Found(Published(1))
          /\ best' = [path |-> 1, major |-> 1, minor |-> latest[1]]
          /\ pc' = "majors"
          /\ UNCHANGED result
       \/ NotFound(Published(1)) /\ Unresolved /\ UNCHANGED best
    /\ UNCHANGED <<input, ext, major, absent, plan>>

\* semver.Compare(ver, bestVersion) > 0
Higher(m, n) == m > best.major \/ (m = best.major /\ n > best.minor)

TakeBest(m) ==
    best' = IF Higher(m, latest[m])
            THEN [path |-> m, major |-> m, minor |-> latest[m]]
            ELSE best

\* Any failure stops the scan.
LatestOfMajor ==
    /\ pc = "majors"
    /\ \/ /\ Found(Published(major))
          /\ TakeBest(major)
          /\ major' = major + 1
          /\ UNCHANGED <<pc, result>>
       \/ /\ NotFound(Published(major))
          /\ Resolved(best.path, Release(best.major, best.minor), "latest")
          /\ UNCHANGED <<best, major>>
    /\ UNCHANGED <<input, ext, absent, plan>>

------------------------------------------------------------------------------
(* probeModuleVersionForBase.                                                *)

BaseInfo ==
    /\ pc = "baseinfo"
    /\ \/ Found(home = 1) /\ Resolved(1, version, "probe")
       \/ NotFound(home = 1) /\ pc' = "info" /\ UNCHANGED result
    /\ UNCHANGED <<input, loop, plan>>

\* probeModuleForVersion
MajorInfo ==
    /\ pc = "info"
    /\ \/ Found(home = major) /\ Resolved(major, version, "probe")
       \/ NotFound(home = major) /\ pc' = "exists" /\ UNCHANGED result
    /\ UNCHANGED <<input, loop, plan>>

\* getLatestVersion tells whether the major exists at all.
MajorExists ==
    /\ pc = "exists"
    /\ \/ /\ Found(Published(major))
          /\ absent' = 0
          /\ major' = major + 1
          /\ pc' = "info"
          /\ UNCHANGED result
       \/ /\ NotFound(Published(major))
          /\ absent' = absent + 1
          /\ IF absent + 1 >= 2
             THEN Unresolved /\ UNCHANGED major
             ELSE pc' = "info" /\ major' = major + 1 /\ UNCHANGED result
    /\ UNCHANGED <<input, ext, best, plan>>

------------------------------------------------------------------------------
(* newFoundry, and k6foundry's choice of the module to require.              *)

K6ModulePath(v, majorOverride) ==
    IF v.kind \in {"release", "pre"} THEN v.major ELSE majorOverride

\* Mutant of NewFoundry: build sets no K6MajorVersion either.
NewFoundryNoMajor ==
    /\ pc = "foundry"
    /\ plan' = [require |-> K6ModulePath(version, 1),
                replace |-> IF req.fork THEN path ELSE 0]
    /\ pc' = "done"
    /\ UNCHANGED <<input, world, loop, result>>

\* A fork replaces the k6 module; lint sets no K6MajorVersion.
NewFoundry ==
    /\ pc = "foundry"
    /\ plan' = [require |-> K6ModulePath(version, IF req.cmd = "lint" THEN 1 ELSE path),
                replace |-> IF req.fork THEN path ELSE 0]
    /\ pc' = "done"
    /\ UNCHANGED <<input, world, loop, result>>

------------------------------------------------------------------------------
(* The environment.                                                          *)

Publish ==
    /\ pc \notin {"done", "failed"}
    /\ \E m \in Majors :
         /\ latest[m] < MaxMinor
         /\ latest' = [latest EXCEPT ![m] = @ + 1]
    /\ UNCHANGED <<input, cancelled, faults, pc, loop, result, plan>>

Cancel ==
    /\ ~cancelled
    /\ cancelled' = TRUE
    /\ UNCHANGED <<input, latest, faults, pc, loop, result, plan>>

------------------------------------------------------------------------------
Resolver ==
    \/ BeginBuild \/ BeginLint \/ BeginSync \/ NoModfile
    \/ ReadLocal \/ LatestOfExt \/ ModOfExt \/ NoneDeclares
    \/ LatestOfBase \/ LatestOfMajor
    \/ BaseInfo \/ MajorInfo \/ MajorExists
    \/ NewFoundry

Done == pc \in {"done", "failed"} /\ UNCHANGED vars

Next == Resolver \/ Publish \/ Cancel \/ Done

Spec == Init /\ [][Next]_vars

\* The resolver is sequential code whose lookups return (GoProxy!Returns).
FairSpec == Spec /\ WF_vars(Resolver)

------------------------------------------------------------------------------
(* Properties.                                                               *)

Disturbed == faults > 0 \/ cancelled

\* Module path and version are resolved together and agree, whatever fails or
\* is published meanwhile: a semver is used with the path of its major, a ref
\* with the path that holds it, and the module a build requires, and the fork
\* that replaces it, are of that same major.  When nothing could be resolved
\* both are what the user gave (resolveK6Repo writes either both fields of
\* opts, or the path alone for an explicit version, or none).
PlanAgrees ==
    /\ source \in {"ext", "latest", "release", "probe"} =>
         /\ path = IF version.kind = "ref" THEN home ELSE version.major
         /\ pc = "done" /\ req.cmd # "sync" =>
              plan.require = path /\ plan.replace = IF req.fork THEN path ELSE 0
    /\ source \in {"none", "user", "asis"} =>
         path = req.suffix /\ version = req.version

\* Without any "--with" extension or k6 requirement to follow, an undisturbed
\* resolution is not older than the newest release of the highest major
\* published when it started, as long as no major below is missing; and it is
\* a real release, disturbed or not.
LatestNotStale ==
    source = "latest" =>
        /\ version.minor \in 1..latest[path]
        /\ ~Disturbed =>
             \A m \in Majors : (\A k \in 1..m : asked[k] > 0) =>
                 \/ path > m
                 \/ path = m /\ version.minor >= asked[m]

\* The first extension that declares k6 decides; one before it is passed over
\* only when its go.mod had to be fetched and the fetch failed.
FirstDeclaringWins ==
    LET PassedOver(e) == Declares(e) => ~e.local /\ Disturbed IN
    /\ source = "ext" => /\ path = req.exts[ext].requires[1]
                         /\ \A i \in 1..(ext - 1) : PassedOver(req.exts[i])
    /\ source = "latest" /\ ~req.fork =>
         \A i \in 1..Len(req.exts) : PassedOver(req.exts[i])

\* The majors a probe for a ref can reach: it gives up after two missing ones.
Reachable(h) ==
    h # 0 /\ \A m \in 2..(h - 2) : asked[m] > 0 \/ asked[m + 1] > 0

\* The resolver gives up (and a build goes on unresolved) only for a reason:
\* a disturbance, a ref the registry does not hold or hides behind two missing
\* majors, a base module without a release, or an unreadable go.mod.
FailureIsEarned ==
    (pc = "failed" \/ source = "asis") /\ ~Disturbed =>
        \/ req.version.kind \in {"pre", "ref"} /\ ~Reachable(home)
        \/ req.version.kind \in {"latest", "unset"} /\ asked[1] = 0
        \/ req.cmd = "sync" /\ req.version.kind = "latest"
        \/ req.cmd = "sync" /\ ~req.exts[1].readable

\* What is chosen, or given up, is so for a reason.
ChoiceIsEarned == FirstDeclaringWins /\ FailureIsEarned

\* Every command gets its answer, whatever the registry publishes meanwhile.
Resolves == <>(pc \in {"done", "failed"})

------------------------------------------------------------------------------
(* What the comments and documents say and the code does not do.             *)

\* "This major does not exist yet; stop probing." (sync.go)
OnlyAbsenceStopsTheScan ==
    source = "latest" /\ ~cancelled /\ path < MaxMajor => asked[path + 1] = 0
==============================================================================
