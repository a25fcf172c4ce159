--------------------------- MODULE K6ResolveProofs ---------------------------
(***************************************************************************)
(* Proofs about the k6 resolver, for every set of requests, every registry *)
(* and every number of majors, releases and faults.                        *)
(***************************************************************************)
EXTENDS K6Resolve, SequenceTheorems, TLAPS

\* Before a result: the options are the user's.
Unchanged ==
    /\ pc \in {"begin", "exts", "extmod", "base", "majors", "baseinfo", "info",
               "exists", "failed"} => source = "none"
    /\ source \in {"none", "user", "asis"} => path = req.suffix /\ version = req.version

\* What each kind of result carries.
Sourced ==
    /\ source \in {"ext", "latest", "release"} =>
         version.kind = "release" /\ path = version.major
    /\ source = "probe" => /\ version = req.version
                          /\ home = path
                          /\ version.kind \in {"pre", "ref"}

\* A ref lives under one major; a semver with a prerelease under its own.
HomeOK ==
    /\ req.version.kind = "pre" => home \in {0, req.version.major}
    /\ req.version.kind \notin {"pre", "ref"} => home = 0

\* Where the loops are.
Loops ==
    /\ pc \in {"exts", "extmod"} => ext <= Len(req.exts) + 1
    /\ pc = "extmod" => ext <= Len(req.exts)
    /\ major <= MaxMajor + 1 + absent
    /\ pc \in {"info", "exists"} => absent < 2
    /\ pc \in {"begin", "exts", "extmod", "base", "majors", "baseinfo"} => absent = 0
    /\ pc \in {"begin", "exts", "extmod", "base", "baseinfo"} => major = 2

\* What was asked of the foundry.
Planned ==
    pc = "done" /\ req.cmd # "sync" /\ source \in {"ext", "latest", "release", "probe"} =>
        plan.require = path /\ plan.replace = IF req.fork THEN path ELSE 0

\* What the scan of the majors has seen.
Scanned ==
    /\ \A m \in Majors : asked[m] <= latest[m]
    /\ pc = "majors" => /\ best.path = major - 1
                       /\ best.major = best.path
                       /\ best.minor \in 1..latest[best.path]
                       /\ best.minor >= asked[best.path]

\* The inductive invariant.
IInv ==
    /\ TypeOK
    /\ Unchanged
    /\ Sourced
    /\ HomeOK
    /\ Loops
    /\ Planned
    /\ Scanned
    /\ LatestNotStale

LEMMA Bounds ==
    /\ MaxMajor \in Nat /\ MaxMajor >= 1
    /\ MaxMinor \in Nat /\ MaxMinor >= 1
    /\ MaxFaults \in Nat
BY BoundsAssumption

USE Bounds

LEMMA MajorsFacts ==
    /\ 1 \in Majors
    /\ \A m \in Majors : m \in Nat /\ m >= 1 /\ m <= MaxMajor
    /\ \A m \in Nat : m >= 1 /\ m <= MaxMajor => m \in Majors
BY DEF Majors

\* The result of a resolution has the right type.
LEMMA RequestFacts ==
    ASSUME NEW r \in Requests
    PROVE  /\ r.cmd \in {"build", "lint", "sync"}
           /\ r.fork \in BOOLEAN
           /\ r.suffix \in Majors
           /\ r.version \in Version
           /\ r.exts \in Seq(Extension)
           /\ r.version.kind \in {"release", "pre"} => r.version.major \in Majors
           /\ r.cmd = "lint" => r.version.kind = "latest"
           /\ r.cmd = "sync" => 1 \in 1..Len(r.exts)
           /\ Len(r.exts) \in Nat
<1>1. r \in RequestType
  BY RequestsAssumption
<1>2. QED
  BY <1>1, RequestsAssumption DEF RequestType

\* A release is a version.
LEMMA ReleaseFacts ==
    ASSUME NEW m \in Majors, NEW n \in 0..MaxMinor
    PROVE  /\ Release(m, n) \in Version
           /\ Release(m, n).kind = "release"
           /\ Release(m, n).major = m
           /\ Release(m, n).minor = n
BY DEF Release, Version, Majors

LEMMA InitIInv == Init => IInv
<1> SUFFICES ASSUME Init
             PROVE  IInv
  OBVIOUS
<1>1. req \in Requests /\ req.suffix \in Majors /\ req.version \in Version
      /\ req.exts \in Seq(Extension)
  BY RequestFacts DEF Init
<1>2. cancelled \in BOOLEAN
  BY Zenon DEF Init
<1>3. home \in 0..MaxMajor /\ HomeOK
  <2>1. CASE req.version.kind = "ref"
    BY <2>1 DEF Init, HomeOK
  <2>2. CASE req.version.kind = "pre"
    BY <2>2, RequestFacts DEF Init, HomeOK, Majors
  <2>3. CASE req.version.kind \notin {"pre", "ref"}
    BY <2>3 DEF Init, HomeOK
  <2>4. QED
    BY <2>1, <2>2, <2>3
<1>4. TypeOK
  BY <1>1, <1>2, <1>3 DEF Init, TypeOK, InputOK, WorldOK, LoopOK, ResultOK, Labels, Majors
<1>5. Unchanged /\ Sourced /\ Loops /\ Planned /\ LatestNotStale
  BY <1>1, <1>4 DEF Init, TypeOK, Unchanged, Sourced, Loops, Planned, LatestNotStale
<1>6. Scanned
  BY <1>4 DEF Init, TypeOK, Scanned, Majors
<1>7. QED
  BY <1>3, <1>4, <1>5, <1>6 DEF IInv

\* A lookup that finds what it asks for changes nothing in the world.
LEMMA FoundFacts ==
    ASSUME WorldOK, NEW there, Found(there)
    PROVE  /\ there
           /\ ~cancelled
           /\ UNCHANGED <<latest, cancelled, faults>>
           /\ faults' \in 0..MaxFaults
           /\ faults' >= faults
BY DEF Found, world, WorldOK

\* One that does not may have spent a fault; undisturbed, nothing is there.
LEMMA NotFoundFacts ==
    ASSUME WorldOK, NEW there, NotFound(there)
    PROVE  /\ UNCHANGED <<latest, cancelled>>
           /\ faults' \in 0..MaxFaults
           /\ faults' >= faults
           /\ ~cancelled /\ faults' = 0 => ~there
<1>1. CASE (~there \/ cancelled) /\ UNCHANGED faults
  BY <1>1 DEF NotFound, WorldOK
<1>2. CASE there /\ faults < MaxFaults /\ faults' = faults + 1
  BY <1>2 DEF NotFound, WorldOK
<1>3. QED
  BY <1>1, <1>2 DEF NotFound

\* A step that keeps the result and the registry keeps LatestNotStale.
LEMMA NotStaleKept ==
    ASSUME LatestNotStale, WorldOK, faults' \in Nat, faults' >= faults,
           UNCHANGED <<asked, latest, cancelled>>,
           source' # "latest" \/ UNCHANGED <<path, version, source>>
    PROVE  LatestNotStale'
<1>1. CASE source' # "latest"
  BY <1>1 DEF LatestNotStale
<1>2. CASE UNCHANGED <<path, version, source>>
  <2>1. Disturbed => Disturbed'
    BY DEF Disturbed, WorldOK
  <2>2. QED
    BY <1>2, <2>1 DEF LatestNotStale
<1>3. QED
  BY <1>1, <1>2

LEMMA ScannedKept ==
    ASSUME Scanned, UNCHANGED <<asked, latest>>,
           pc' # "majors" \/ UNCHANGED <<pc, major, best>>
    PROVE  Scanned'
BY DEF Scanned

LEMMA PlannedKept ==
    ASSUME Planned, UNCHANGED req,
           pc' # "done" \/ req.cmd = "sync" \/ UNCHANGED <<pc, path, source, plan>>
    PROVE  Planned'
BY DEF Planned

\* What taking the k6 requirement of an extension yields.
LEMMA UseRequireFacts ==
    ASSUME InputOK, NEW i \in 1..Len(req.exts), Declares(req.exts[i]),
           UseRequire(req.exts[i])
    PROVE  /\ path' \in Majors
           /\ version' \in Version
           /\ version'.kind = "release"
           /\ version'.major = path'
           /\ source' = "ext"
           /\ pc' \in {"done", "foundry"}
           /\ req.cmd # "sync" => pc' = "foundry"
<1> DEFINE m == req.exts[i].requires[1]
<1>1. req.exts \in Seq(Extension)
  BY RequestFacts DEF InputOK
<1>2. req.exts[i] \in Extension
  BY <1>1, ElementOfSeq
<1>3. req.exts[i].requires \in Seq(Majors)
  BY <1>2 DEF Extension
<1>4. m \in Majors
  BY <1>3 DEF Declares
<1>5. Resolved(m, Release(m, 1), "ext")
  BY DEF UseRequire
<1> HIDE DEF m
<1>6. 1 \in 0..MaxMinor
  OBVIOUS
<1>7. QED
  BY <1>4, <1>5, <1>6, ReleaseFacts DEF Resolved

\* The facts about a request that the steps below use.
LEMMA ReqFacts ==
    ASSUME InputOK
    PROVE  /\ req \in Requests
           /\ req.cmd \in {"build", "lint", "sync"}
           /\ req.suffix \in Majors
           /\ req.version \in Version
           /\ req.version.kind \in {"release", "pre"} => req.version.major \in Majors
           /\ req.cmd = "lint" => req.version.kind = "latest"
           /\ req.cmd = "sync" => 1 \in 1..Len(req.exts)
           /\ Len(req.exts) \in Nat
BY RequestFacts DEF InputOK

LEMMA StepIInv == IInv /\ [Next]_vars => IInv'
<1> SUFFICES ASSUME IInv, [Next]_vars
             PROVE  IInv'
  OBVIOUS
<1> USE DEF input, world, loop, result
<1>1. InputOK /\ WorldOK /\ LoopOK /\ ResultOK
  BY DEF IInv, TypeOK
<1>2. Unchanged /\ Sourced /\ HomeOK /\ Loops
  BY DEF IInv
<1>3. Planned /\ Scanned /\ LatestNotStale
  BY DEF IInv
<1>4. CASE BeginBuild
  <2>0. /\ pc = "begin" /\ source = "none"
        /\ UNCHANGED <<req, home, asked, latest, cancelled, faults, ext, major, best, absent,
                       version, plan>>
        /\ \/ UNCHANGED path /\ source' = "user" /\ pc' = "foundry"
           \/ UNCHANGED <<path, source>> /\ pc' \in {"base", "exts", "baseinfo"}
           \/ /\ req.version.kind = "release"
              /\ path' = req.version.major /\ source' = "release" /\ pc' = "foundry"
    BY <1>1, <1>2, <1>4, ReqFacts DEF BeginBuild, ResolveModuleForVersion, Resolved, Unchanged
  <2>1. (InputOK /\ WorldOK)'
    BY <1>1, <2>0 DEF InputOK, WorldOK
  <2>2. LoopOK'
    BY <1>1, <2>0, ReqFacts DEF LoopOK
  <2>3. ResultOK'
    BY <1>1, <2>0, ReqFacts DEF ResultOK, Labels
  <2>4. (Unchanged /\ Sourced /\ HomeOK)'
    BY <1>1, <1>2, <2>0, ReqFacts DEF Unchanged, Sourced, HomeOK, ResultOK
  <2>5. Loops'
    BY <1>1, <1>2, <2>0, ReqFacts DEF LoopOK, Loops
  <2>6. Planned'
    BY <1>3, <2>0, PlannedKept
  <2>7. Scanned'
    BY <1>3, <2>0, ScannedKept
  <2>8. LatestNotStale'
    BY <1>1, <1>3, <2>0, NotStaleKept DEF WorldOK
  <2>9. QED
    BY <2>1, <2>2, <2>3, <2>4, <2>5, <2>6, <2>7, <2>8 DEF IInv, TypeOK
<1>5. CASE BeginLint
  <2>0. /\ pc = "begin" /\ pc' = "exts"
        /\ UNCHANGED <<req, home, asked, latest, cancelled, faults, ext, major, best, absent,
                       path, version, source, plan>>
    BY <1>5 DEF BeginLint
  <2>1. (InputOK /\ WorldOK)'
    BY <1>1, <2>0 DEF InputOK, WorldOK
  <2>2. LoopOK'
    BY <1>1, <2>0, ReqFacts DEF LoopOK
  <2>3. ResultOK'
    BY <1>1, <2>0, ReqFacts DEF ResultOK, Labels
  <2>4. (Unchanged /\ Sourced /\ HomeOK)'
    BY <1>1, <1>2, <2>0, ReqFacts DEF Unchanged, Sourced, HomeOK, ResultOK
  <2>5. Loops'
    BY <1>1, <1>2, <2>0, ReqFacts DEF LoopOK, Loops
  <2>6. Planned'
    BY <1>3, <2>0, PlannedKept
  <2>7. Scanned'
    BY <1>3, <2>0, ScannedKept
  <2>8. LatestNotStale'
    BY <1>1, <1>3, <2>0, NotStaleKept DEF WorldOK
  <2>9. QED
    BY <2>1, <2>2, <2>3, <2>4, <2>5, <2>6, <2>7, <2>8 DEF IInv, TypeOK
<1>6. CASE BeginSync
  <2>0. /\ pc = "begin" /\ req.cmd = "sync" /\ source = "none"
        /\ UNCHANGED <<req, home, asked, latest, cancelled, faults, ext, major, best, absent, plan>>
        /\ \/ /\ path' \in Majors /\ version' \in Version /\ version'.kind = "release"
              /\ version'.major = path' /\ source' = "ext" /\ pc' = "done"
           \/ UNCHANGED <<path, version, source>> /\ pc' \in {"base", "baseinfo"}
           \/ /\ req.version.kind = "release" /\ UNCHANGED version
              /\ path' = req.version.major /\ source' = "release" /\ pc' = "done"
    <3>1. CASE Declares(req.exts[1]) /\ UseRequire(req.exts[1])
      BY <1>1, <1>2, <1>6, <3>1, ReqFacts, UseRequireFacts
         DEF BeginSync, Resolved, UseRequire, Unchanged
    <3>2. CASE ResolveModuleForVersion
      BY <1>2, <1>6, <3>2 DEF BeginSync, ResolveModuleForVersion, Resolved, Unchanged
    <3>3. CASE pc' = "base" /\ UNCHANGED result
      BY <1>2, <1>6, <3>3 DEF BeginSync, Unchanged
    <3>4. QED
      BY <1>6, <3>1, <3>2, <3>3 DEF BeginSync
  <2>1. (InputOK /\ WorldOK)'
    BY <1>1, <2>0 DEF InputOK, WorldOK
  <2>2. LoopOK'
    BY <1>1, <2>0, ReqFacts DEF LoopOK
  <2>3. ResultOK'
    BY <1>1, <2>0, ReqFacts DEF ResultOK, Labels
  <2>4. (Unchanged /\ Sourced /\ HomeOK)'
    BY <1>1, <1>2, <2>0, ReqFacts DEF Unchanged, Sourced, HomeOK, ResultOK
  <2>5. Loops'
    BY <1>1, <1>2, <2>0, ReqFacts DEF LoopOK, Loops
  <2>6. Planned'
    BY <1>3, <2>0, PlannedKept
  <2>7. Scanned'
    BY <1>3, <2>0, ScannedKept
  <2>8. LatestNotStale'
    BY <1>1, <1>3, <2>0, NotStaleKept DEF WorldOK
  <2>9. QED
    BY <2>1, <2>2, <2>3, <2>4, <2>5, <2>6, <2>7, <2>8 DEF IInv, TypeOK
<1>7. CASE NoModfile
  <2>0. /\ pc = "begin" /\ pc' = "failed"
        /\ UNCHANGED <<req, home, asked, latest, cancelled, faults, ext, major, best, absent,
                       path, version, source, plan>>
    BY <1>7 DEF NoModfile, Unresolved
  <2>1. (InputOK /\ WorldOK)'
    BY <1>1, <2>0 DEF InputOK, WorldOK
  <2>2. LoopOK'
    BY <1>1, <2>0, ReqFacts DEF LoopOK
  <2>3. ResultOK'
    BY <1>1, <2>0, ReqFacts DEF ResultOK, Labels
  <2>4. (Unchanged /\ Sourced /\ HomeOK)'
    BY <1>1, <1>2, <2>0, ReqFacts DEF Unchanged, Sourced, HomeOK, ResultOK
  <2>5. Loops'
    BY <1>1, <1>2, <2>0, ReqFacts DEF LoopOK, Loops
  <2>6. Planned'
    BY <1>3, <2>0, PlannedKept
  <2>7. Scanned'
    BY <1>3, <2>0, ScannedKept
  <2>8. LatestNotStale'
    BY <1>1, <1>3, <2>0, NotStaleKept DEF WorldOK
  <2>9. QED
    BY <2>1, <2>2, <2>3, <2>4, <2>5, <2>6, <2>7, <2>8 DEF IInv, TypeOK
<1>8. CASE ReadLocal
  <2>0. /\ pc = "exts" /\ ext \in 1..Len(req.exts)
        /\ UNCHANGED <<req, home, asked, latest, cancelled, faults, major, best, absent, plan>>
        /\ \/ /\ path' \in Majors /\ version' \in Version /\ version'.kind = "release"
              /\ version'.major = path' /\ source' = "ext" /\ pc' \in {"done", "foundry"}
              /\ req.cmd # "sync" => pc' = "foundry"
              /\ UNCHANGED ext
           \/ UNCHANGED <<path, version, source>> /\ pc' = "exts" /\ ext' = ext + 1
    <3>1. ext \in 1..Len(req.exts)
      BY <1>1, <1>8, ReqFacts DEF ReadLocal, LoopOK
    <3>2. CASE Declares(req.exts[ext])
      BY <1>1, <1>8, <3>1, <3>2, UseRequireFacts DEF ReadLocal, Scan
    <3>3. CASE ~Declares(req.exts[ext])
      BY <1>8, <3>1, <3>3 DEF ReadLocal, Scan
    <3>4. QED
      BY <3>2, <3>3
  <2>1. (InputOK /\ WorldOK)'
    BY <1>1, <2>0 DEF InputOK, WorldOK
  <2>2. LoopOK'
    BY <1>1, <2>0, ReqFacts DEF LoopOK
  <2>3. ResultOK'
    BY <1>1, <2>0, ReqFacts DEF ResultOK, Labels
  <2>4. (Unchanged /\ Sourced /\ HomeOK)'
    BY <1>1, <1>2, <2>0, ReqFacts DEF Unchanged, Sourced, HomeOK, ResultOK
  <2>5. Loops'
    BY <1>1, <1>2, <2>0, ReqFacts DEF LoopOK, Loops
  <2>6. Planned'
    BY <1>3, <2>0, PlannedKept
  <2>7. Scanned'
    BY <1>3, <2>0, ScannedKept
  <2>8. LatestNotStale'
    BY <1>1, <1>3, <2>0, NotStaleKept DEF WorldOK
  <2>9. QED
    BY <2>1, <2>2, <2>3, <2>4, <2>5, <2>6, <2>7, <2>8 DEF IInv, TypeOK
<1>9. CASE LatestOfExt
  <2>0. /\ pc = "exts" /\ ext \in 1..Len(req.exts)
        /\ UNCHANGED <<req, home, asked, latest, cancelled, major, best, absent,
                       path, version, source, plan>>
        /\ faults' \in 0..MaxFaults /\ faults' >= faults
        /\ \/ pc' = "extmod" /\ ext' = ext
           \/ pc' = "exts" /\ ext' = ext + 1
    <3>1. ext \in 1..Len(req.exts)
      BY <1>1, <1>9, ReqFacts DEF LatestOfExt, LoopOK
    <3>2. PICK there \in {TRUE, req.exts[ext].readable} :
             \/ Found(there) /\ pc' = "extmod" /\ UNCHANGED <<ext, result>>
             \/ NotFound(there) /\ Skip
      BY <1>9 DEF LatestOfExt
    <3>3. CASE Found(there) /\ pc' = "extmod" /\ UNCHANGED <<ext, result>>
      BY <1>1, <1>9, <3>1, <3>3, FoundFacts DEF LatestOfExt
    <3>4. CASE NotFound(there) /\ Skip
      BY <1>1, <1>9, <3>1, <3>4, NotFoundFacts DEF LatestOfExt, Skip
    <3>5. QED
      BY <3>2, <3>3, <3>4
  <2>1. (InputOK /\ WorldOK)'
    BY <1>1, <2>0 DEF InputOK, WorldOK
  <2>2. LoopOK'
    BY <1>1, <2>0, ReqFacts DEF LoopOK
  <2>3. ResultOK'
    BY <1>1, <2>0, ReqFacts DEF ResultOK, Labels
  <2>4. (Unchanged /\ Sourced /\ HomeOK)'
    BY <1>1, <1>2, <2>0, ReqFacts DEF Unchanged, Sourced, HomeOK, ResultOK
  <2>5. Loops'
    BY <1>1, <1>2, <2>0, ReqFacts DEF LoopOK, Loops
  <2>6. Planned'
    BY <1>3, <2>0, PlannedKept
  <2>7. Scanned'
    BY <1>3, <2>0, ScannedKept
  <2>8. LatestNotStale'
    BY <1>1, <1>3, <2>0, NotStaleKept DEF WorldOK
  <2>9. QED
    BY <2>1, <2>2, <2>3, <2>4, <2>5, <2>6, <2>7, <2>8 DEF IInv, TypeOK
<1>10. CASE ModOfExt
  <2>0. /\ pc \in {"exts", "extmod"} /\ ext \in 1..Len(req.exts)
        /\ UNCHANGED <<req, home, asked, latest, cancelled, major, best, absent, plan>>
        /\ faults' \in 0..MaxFaults /\ faults' >= faults
        /\ \/ /\ path' \in Majors /\ version' \in Version /\ version'.kind = "release"
              /\ version'.major = path' /\ source' = "ext" /\ pc' \in {"done", "foundry"}
              /\ req.cmd # "sync" => pc' = "foundry"
              /\ UNCHANGED ext
           \/ UNCHANGED <<path, version, source>> /\ pc' = "exts" /\ ext' = ext + 1
    <3> DEFINE e == req.exts[ext]
    <3>1. ext \in 1..Len(req.exts) /\ pc \in {"exts", "extmod"}
      BY <1>1, <1>2, <1>10, ReqFacts DEF ModOfExt, LoopOK, Loops
    <3>2. CASE Found(e.readable) /\ Scan(e) /\ Declares(e)
      <4>1. UseRequire(e) /\ UNCHANGED ext
        BY <3>2 DEF Scan
      <4>2. QED
        BY <1>1, <1>10, <3>1, <3>2, <4>1, FoundFacts, UseRequireFacts DEF ModOfExt
    <3>3. CASE Found(e.readable) /\ Scan(e) /\ ~Declares(e)
      <4>1. ext' = ext + 1 /\ pc' = "exts" /\ UNCHANGED result
        BY <3>3 DEF Scan
      <4>2. QED
        BY <1>1, <1>10, <3>1, <3>3, <4>1, FoundFacts DEF ModOfExt
    <3>4. CASE NotFound(e.readable) /\ Skip
      BY <1>1, <1>10, <3>1, <3>4, NotFoundFacts DEF ModOfExt, Skip
    <3>5. QED
      BY <1>10, <3>2, <3>3, <3>4 DEF ModOfExt
  <2>1. (InputOK /\ WorldOK)'
    BY <1>1, <2>0 DEF InputOK, WorldOK
  <2>2. LoopOK'
    BY <1>1, <2>0, ReqFacts DEF LoopOK
  <2>3. ResultOK'
    BY <1>1, <2>0, ReqFacts DEF ResultOK, Labels
  <2>4. (Unchanged /\ Sourced /\ HomeOK)'
    BY <1>1, <1>2, <2>0, ReqFacts DEF Unchanged, Sourced, HomeOK, ResultOK
  <2>5. Loops'
    BY <1>1, <1>2, <2>0, ReqFacts DEF LoopOK, Loops
  <2>6. Planned'
    BY <1>3, <2>0, PlannedKept
  <2>7. Scanned'
    BY <1>3, <2>0, ScannedKept
  <2>8. LatestNotStale'
    BY <1>1, <1>3, <2>0, NotStaleKept DEF WorldOK
  <2>9. QED
    BY <2>1, <2>2, <2>3, <2>4, <2>5, <2>6, <2>7, <2>8 DEF IInv, TypeOK
<1>11. CASE NoneDeclares
  <2>0. /\ pc = "exts" /\ pc' = "base"
        /\ UNCHANGED <<req, home, asked, latest, cancelled, faults, ext, major, best, absent,
                       path, version, source, plan>>
    BY <1>11 DEF NoneDeclares
  <2>1. (InputOK /\ WorldOK)'
    BY <1>1, <2>0 DEF InputOK, WorldOK
  <2>2. LoopOK'
    BY <1>1, <2>0, ReqFacts DEF LoopOK
  <2>3. ResultOK'
    BY <1>1, <2>0, ReqFacts DEF ResultOK, Labels
  <2>4. (Unchanged /\ Sourced /\ HomeOK)'
    BY <1>1, <1>2, <2>0, ReqFacts DEF Unchanged, Sourced, HomeOK, ResultOK
  <2>5. Loops'
    BY <1>1, <1>2, <2>0, ReqFacts DEF LoopOK, Loops
  <2>6. Planned'
    BY <1>3, <2>0, PlannedKept
  <2>7. Scanned'
    BY <1>3, <2>0, ScannedKept
  <2>8. LatestNotStale'
    BY <1>1, <1>3, <2>0, NotStaleKept DEF WorldOK
  <2>9. QED
    BY <2>1, <2>2, <2>3, <2>4, <2>5, <2>6, <2>7, <2>8 DEF IInv, TypeOK
<1>12. CASE LatestOfBase
  <2>0. /\ pc = "base"
        /\ UNCHANGED <<req, home, asked, latest, cancelled, ext, major, absent, path, version, plan>>
        /\ faults' \in 0..MaxFaults /\ faults' >= faults
        /\ \/ /\ pc' = "majors" /\ source' = source /\ latest[1] > 0
              /\ best' = [path |-> 1, major |-> 1, minor |-> latest[1]]
           \/ pc' = "foundry" /\ source' = "asis" /\ best' = best
           \/ pc' = "failed" /\ source' = source /\ best' = best
    <3> DEFINE there == Published(1)
    <3>1. there => latest[1] > 0
      BY DEF Published
    <3> HIDE DEF there
    <3>2. CASE /\ Found(there)
               /\ best' = [path |-> 1, major |-> 1, minor |-> latest[1]]
               /\ pc' = "majors"
               /\ UNCHANGED result
      BY <1>1, <1>12, <3>1, <3>2, FoundFacts DEF LatestOfBase
    <3>3. CASE NotFound(there) /\ Unresolved /\ UNCHANGED best
      BY <1>1, <1>12, <3>3, NotFoundFacts DEF LatestOfBase, Unresolved
    <3>4. QED
      BY <1>12, <3>2, <3>3 DEF LatestOfBase, there
  <2>1. (InputOK /\ WorldOK)'
    BY <1>1, <2>0 DEF InputOK, WorldOK
  <2>2. LoopOK'
    BY <1>1, <2>0, MajorsFacts DEF LoopOK, WorldOK
  <2>3. ResultOK'
    BY <1>1, <2>0, ReqFacts DEF ResultOK, Labels
  <2>4. (Unchanged /\ Sourced /\ HomeOK)'
    BY <1>1, <1>2, <2>0, ReqFacts DEF Unchanged, Sourced, HomeOK, ResultOK
  <2>5. Loops'
    BY <1>1, <1>2, <2>0, ReqFacts DEF LoopOK, Loops
  <2>6. Planned'
    BY <1>3, <2>0, PlannedKept
  <2>7. Scanned'
    <3>1. CASE pc' = "majors"
      <4>1. best'.path = 1 /\ best'.major = 1 /\ best'.minor = latest[1] /\ latest[1] > 0
        BY <2>0, <3>1
      <4>2. major = 2 /\ latest[1] \in 0..MaxMinor
        BY <1>1, <1>2, <2>0, MajorsFacts DEF Loops, WorldOK
      <4>3. asked[1] <= latest[1]
        BY <1>3, MajorsFacts DEF Scanned
      <4>4. QED
        BY <1>3, <2>0, <4>1, <4>2, <4>3 DEF Scanned
    <3>2. CASE pc' # "majors"
      BY <1>3, <2>0, <3>2, ScannedKept
    <3>3. QED
      BY <3>1, <3>2
  <2>8. LatestNotStale'
    BY <1>1, <1>3, <2>0, NotStaleKept DEF WorldOK
  <2>9. QED
    BY <2>1, <2>2, <2>3, <2>4, <2>5, <2>6, <2>7, <2>8 DEF IInv, TypeOK
<1>13. CASE LatestOfMajor
  <2>0. /\ pc = "majors"
        /\ UNCHANGED <<req, home, asked, latest, cancelled, ext, absent, plan>>
        /\ faults' \in 0..MaxFaults /\ faults' >= faults
        /\ \/ /\ Published(major) /\ major' = major + 1
              /\ best' = [path |-> major, major |-> major, minor |-> latest[major]]
              /\ UNCHANGED <<pc, path, version, source>>
           \/ /\ UNCHANGED <<best, major>>
              /\ path' = best.path /\ version' = Release(best.major, best.minor)
              /\ source' = "latest" /\ pc' \in {"done", "foundry"}
              /\ req.cmd # "sync" => pc' = "foundry"
              /\ ~cancelled /\ faults' = 0 => ~Published(major)
    <3>1. CASE /\ Found(Published(major)) /\ TakeBest(major)
               /\ major' = major + 1 /\ UNCHANGED <<pc, result>>
      <4>1. Published(major) /\ UNCHANGED <<latest, cancelled, faults>>
            /\ faults' \in 0..MaxFaults /\ faults' >= faults
        BY <1>1, <3>1, FoundFacts
      <4>2. best.major = major - 1 /\ major \in Nat
        BY <1>1, <1>3, <1>13 DEF LatestOfMajor, Scanned, LoopOK
      <4>3. Higher(major, latest[major])
        BY <4>2 DEF Higher
      <4>4. best' = [path |-> major, major |-> major, minor |-> latest[major]]
        BY <3>1, <4>3 DEF TakeBest
      <4>5. QED
        BY <1>13, <3>1, <4>1, <4>4 DEF LatestOfMajor
    <3>2. CASE /\ NotFound(Published(major))
               /\ Resolved(best.path, Release(best.major, best.minor), "latest")
               /\ UNCHANGED <<best, major>>
      BY <1>1, <1>13, <3>2, NotFoundFacts DEF LatestOfMajor, Resolved
    <3>3. QED
      BY <1>13, <3>1, <3>2 DEF LatestOfMajor
  <2>1. (InputOK /\ WorldOK)'
    BY <1>1, <2>0 DEF InputOK, WorldOK
  <2>2. LoopOK'
    <3>1. CASE UNCHANGED <<best, major>>
      BY <1>1, <2>0, <3>1 DEF LoopOK
    <3>2. CASE /\ Published(major) /\ major' = major + 1
               /\ best' = [path |-> major, major |-> major, minor |-> latest[major]]
      <4>1. major \in Majors /\ latest[major] \in 0..MaxMinor
        BY <1>1, <3>2 DEF Published, WorldOK
      <4>2. major \in Nat /\ 2 <= major /\ major <= MaxMajor
        BY <1>1, <4>1, MajorsFacts DEF LoopOK
      <4>3. major' \in 2..(MaxMajor + 2)
        BY ONLY <3>2, <4>2, BoundsAssumption
      <4>4. QED
        BY <1>1, <2>0, <3>2, <4>1, <4>3 DEF LoopOK
    <3>3. QED
      BY <2>0, <3>1, <3>2
  <2>3. ResultOK'
    <3>1. best.path \in Majors /\ Release(best.major, best.minor) \in Version
      BY <1>1, ReleaseFacts DEF LoopOK
    <3>2. QED
      BY <1>1, <2>0, <3>1 DEF ResultOK, Labels
  <2>4. (Unchanged /\ Sourced /\ HomeOK)'
    <3>1. best.major = best.path /\ best.path \in Majors /\ best.minor \in 0..MaxMinor
      BY <1>1, <1>3, <2>0 DEF Scanned, LoopOK
    <3>2. Release(best.major, best.minor).kind = "release"
          /\ Release(best.major, best.minor).major = best.path
      BY <3>1, ReleaseFacts
    <3>3. QED
      BY <1>2, <2>0, <3>1, <3>2 DEF Unchanged, Sourced, HomeOK
  <2>5. Loops'
    BY <1>1, <1>2, <2>0, MajorsFacts DEF LoopOK, Loops, Published
  <2>6. Planned'
    BY <1>3, <2>0, PlannedKept
  <2>7. Scanned'
    <3>1. CASE Published(major) /\ major' = major + 1
      <4>1. best'.path = major /\ best'.major = major /\ best'.minor = latest[major]
        BY <2>0, <3>1
      <4>2. major \in Majors /\ latest[major] > 0 /\ latest[major] \in 0..MaxMinor
        BY <1>1, <3>1 DEF Published, WorldOK
      <4>3. asked[major] <= latest[major] /\ major \in Nat
        BY <1>3, <4>2, MajorsFacts DEF Scanned
      <4>4. QED
        BY <1>3, <2>0, <3>1, <4>1, <4>2, <4>3 DEF Scanned
    <3>2. CASE pc' # "majors"
      BY <1>3, <2>0, <3>2, ScannedKept
    <3>3. QED
      BY <2>0, <3>1, <3>2
  <2>8. LatestNotStale'
    <3>1. CASE UNCHANGED <<path, version, source>>
      BY <1>1, <1>3, <2>0, <3>1, NotStaleKept
    <3>2. CASE /\ path' = best.path /\ version' = Release(best.major, best.minor)
               /\ ~cancelled /\ faults' = 0 => ~Published(major)
      <4>1. /\ best.path = major - 1 /\ best.minor \in 1..latest[best.path]
            /\ best.minor >= asked[best.path] /\ major \in Nat /\ best.path \in Majors
            /\ \A m \in Majors : asked[m] <= latest[m]
        BY <1>1, <1>3, <2>0 DEF Scanned, LoopOK
      <4>2. version'.minor = best.minor
        <5>1. best.major \in Majors /\ best.minor \in 0..MaxMinor
          BY <1>1 DEF LoopOK
        <5>2. QED
          BY <3>2, <5>1, ReleaseFacts
      <4>3. ASSUME ~Disturbed', NEW m \in Majors, \A k \in 1..m : asked[k] > 0
            PROVE  m <= best.path
        <5>1. ~Published(major)
          <6>1. ~(faults' > 0) /\ ~cancelled'
            BY <4>3 DEF Disturbed
          <6>2. faults' = 0 /\ ~cancelled
            BY <2>0, <6>1
          <6>3. QED
            BY <3>2, <6>2
        <5>2. CASE major \in Majors
          <6>1. ~(asked[major] > 0)
            BY <1>1, <4>1, <5>1, <5>2 DEF Published, WorldOK, InputOK
          <6>2. ~(major \in 1..m)
            BY <4>3, <6>1
          <6>3. QED
            BY <4>1, <5>2, <6>2, MajorsFacts
        <5>3. CASE major \notin Majors
          BY <1>1, <4>1, <5>3, MajorsFacts DEF LoopOK
        <5>4. QED
          BY <5>2, <5>3
      <4>4. \A m \in Majors : asked[m] \in Nat
        BY <1>1 DEF InputOK
      <4>5. ASSUME ~Disturbed', NEW m \in Majors, \A k \in 1..m : asked[k] > 0
            PROVE  path' > m \/ (path' = m /\ version'.minor >= asked[m])
        <5>1. m <= best.path /\ m \in Nat /\ best.path \in Nat
          BY <4>1, <4>3, <4>5, MajorsFacts
        <5>2. CASE best.path = m
          BY <3>2, <4>1, <4>2, <5>2
        <5>3. CASE best.path > m
          BY <3>2, <5>3
        <5>4. QED
          BY <5>1, <5>2, <5>3
      <4>6. version'.minor \in 1..latest'[path']
        <5>1. path' = best.path /\ latest' = latest
          BY <2>0, <3>2
        <5>2. QED
          BY <4>1, <4>2, <5>1
      <4>7. QED
        BY <2>0, <4>5, <4>6 DEF LatestNotStale
    <3>3. QED
      BY <2>0, <3>1, <3>2
  <2>9. QED
    BY <2>1, <2>2, <2>3, <2>4, <2>5, <2>6, <2>7, <2>8 DEF IInv, TypeOK
<1>14. CASE BaseInfo
  <2>0. /\ pc = "baseinfo"
        /\ UNCHANGED <<req, home, asked, latest, cancelled, ext, major, best, absent, version, plan>>
        /\ faults' \in 0..MaxFaults /\ faults' >= faults
        /\ \/ /\ home = 1 /\ path' = 1 /\ source' = "probe"
              /\ pc' \in {"done", "foundry"}
              /\ req.cmd # "sync" => pc' = "foundry"
           \/ pc' = "info" /\ UNCHANGED <<path, source>>
    <3>1. CASE Found(home = 1) /\ Resolved(1, version, "probe")
      BY <1>1, <1>14, <3>1, FoundFacts DEF BaseInfo, Resolved
    <3>2. CASE NotFound(home = 1) /\ pc' = "info" /\ UNCHANGED result
      BY <1>1, <1>14, <3>2, NotFoundFacts DEF BaseInfo
    <3>3. QED
      BY <1>14, <3>1, <3>2 DEF BaseInfo
  <2>1. (InputOK /\ WorldOK)'
    BY <1>1, <2>0 DEF InputOK, WorldOK
  <2>2. LoopOK'
    BY <1>1, <2>0, ReqFacts DEF LoopOK
  <2>3. ResultOK'
    BY <1>1, <2>0, MajorsFacts DEF ResultOK, Labels
  <2>4. (Unchanged /\ Sourced /\ HomeOK)'
    BY <1>1, <1>2, <2>0, ReqFacts DEF Unchanged, Sourced, HomeOK, ResultOK
  <2>5. Loops'
    BY <1>1, <1>2, <2>0, ReqFacts DEF LoopOK, Loops
  <2>6. Planned'
    BY <1>3, <2>0, PlannedKept
  <2>7. Scanned'
    BY <1>3, <2>0, ScannedKept
  <2>8. LatestNotStale'
    BY <1>1, <1>3, <2>0, NotStaleKept DEF WorldOK
  <2>9. QED
    BY <2>1, <2>2, <2>3, <2>4, <2>5, <2>6, <2>7, <2>8 DEF IInv, TypeOK
<1>15. CASE MajorInfo
  <2>0. /\ pc = "info"
        /\ UNCHANGED <<req, home, asked, latest, cancelled, ext, major, best, absent, version, plan>>
        /\ faults' \in 0..MaxFaults /\ faults' >= faults
        /\ \/ /\ home = major /\ path' = major /\ source' = "probe"
              /\ pc' \in {"done", "foundry"}
              /\ req.cmd # "sync" => pc' = "foundry"
           \/ pc' = "exists" /\ UNCHANGED <<path, source>>
    <3>1. CASE Found(home = major) /\ Resolved(major, version, "probe")
      BY <1>1, <1>15, <3>1, FoundFacts DEF MajorInfo, Resolved
    <3>2. CASE NotFound(home = major) /\ pc' = "exists" /\ UNCHANGED result
      BY <1>1, <1>15, <3>2, NotFoundFacts DEF MajorInfo
    <3>3. QED
      BY <1>15, <3>1, <3>2 DEF MajorInfo
  <2>1. (InputOK /\ WorldOK)'
    BY <1>1, <2>0 DEF InputOK, WorldOK
  <2>2. LoopOK'
    BY <1>1, <2>0, ReqFacts DEF LoopOK
  <2>3. ResultOK'
    BY <1>1, <2>0, MajorsFacts DEF ResultOK, InputOK, LoopOK, Labels
  <2>4. (Unchanged /\ Sourced /\ HomeOK)'
    <3>1. source = "none" /\ version = req.version /\ major # 0
      BY <1>1, <1>2, <2>0 DEF Unchanged, LoopOK
    <3>2. home = major => req.version.kind \in {"pre", "ref"}
      BY <1>2, <3>1 DEF HomeOK
    <3>3. Unchanged'
      BY <1>2, <2>0, <3>1 DEF Unchanged
    <3>4. Sourced'
      BY <2>0, <3>1, <3>2 DEF Sourced
    <3>5. QED
      BY <1>2, <2>0, <3>3, <3>4 DEF HomeOK
  <2>5. Loops'
    BY <1>1, <1>2, <2>0, ReqFacts DEF LoopOK, Loops
  <2>6. Planned'
    BY <1>3, <2>0, PlannedKept
  <2>7. Scanned'
    BY <1>3, <2>0, ScannedKept
  <2>8. LatestNotStale'
    BY <1>1, <1>3, <2>0, NotStaleKept DEF WorldOK
  <2>9. QED
    BY <2>1, <2>2, <2>3, <2>4, <2>5, <2>6, <2>7, <2>8 DEF IInv, TypeOK
<1>16. CASE MajorExists
  <2>0. /\ pc = "exists"
        /\ UNCHANGED <<req, home, asked, latest, cancelled, ext, best, path, version, plan>>
        /\ faults' \in 0..MaxFaults /\ faults' >= faults
        /\ \/ /\ major \in Majors /\ absent' = 0 /\ major' = major + 1
              /\ pc' = "info" /\ UNCHANGED source
           \/ /\ absent = 0 /\ absent' = 1 /\ major' = major + 1
              /\ pc' = "info" /\ UNCHANGED source
           \/ /\ absent = 1 /\ absent' = 2 /\ UNCHANGED major
              /\ pc' = "foundry" /\ source' = "asis"
           \/ /\ absent = 1 /\ absent' = 2 /\ UNCHANGED major
              /\ pc' = "failed" /\ UNCHANGED source
    <3>1. absent \in {0, 1}
      BY <1>1, <1>2, <1>16 DEF MajorExists, Loops, LoopOK
    <3>2. CASE /\ Found(Published(major)) /\ absent' = 0 /\ major' = major + 1
               /\ pc' = "info" /\ UNCHANGED result
      <4>1. Published(major) /\ UNCHANGED <<latest, cancelled, faults>>
            /\ faults' \in 0..MaxFaults /\ faults' >= faults
        BY <1>1, <3>2, FoundFacts
      <4>2. major \in Majors
        BY <4>1 DEF Published
      <4>3. QED
        BY <1>16, <3>2, <4>1, <4>2 DEF MajorExists
    <3>3. CASE /\ NotFound(Published(major))
               /\ absent' = absent + 1
               /\ IF absent + 1 >= 2
                  THEN Unresolved /\ UNCHANGED major
                  ELSE pc' = "info" /\ major' = major + 1 /\ UNCHANGED result
      BY <1>1, <1>16, <3>1, <3>3, NotFoundFacts DEF MajorExists, Unresolved
    <3>4. QED
      BY <1>16, <3>2, <3>3 DEF MajorExists
  <2>1. (InputOK /\ WorldOK)'
    BY <1>1, <2>0 DEF InputOK, WorldOK
  <2>2. LoopOK'
    BY <1>1, <1>2, <2>0, MajorsFacts DEF LoopOK, Loops
  <2>3. ResultOK'
    BY <1>1, <2>0, ReqFacts DEF ResultOK, Labels
  <2>4. (Unchanged /\ Sourced /\ HomeOK)'
    BY <1>1, <1>2, <2>0, ReqFacts DEF Unchanged, Sourced, HomeOK, ResultOK
  <2>5. Loops'
    BY <1>1, <1>2, <2>0, MajorsFacts DEF LoopOK, Loops
  <2>6. Planned'
    BY <1>3, <2>0, PlannedKept
  <2>7. Scanned'
    BY <1>3, <2>0, ScannedKept
  <2>8. LatestNotStale'
    BY <1>1, <1>3, <2>0, NotStaleKept DEF WorldOK
  <2>9. QED
    BY <2>1, <2>2, <2>3, <2>4, <2>5, <2>6, <2>7, <2>8 DEF IInv, TypeOK
<1>17. CASE NewFoundry
  <2>0. /\ pc = "foundry" /\ pc' = "done"
        /\ UNCHANGED <<req, home, asked, latest, cancelled, faults, ext, major, best, absent,
                       path, version, source>>
        /\ plan' = [require |-> K6ModulePath(version, IF req.cmd = "lint" THEN 1 ELSE path),
                    replace |-> IF req.fork THEN path ELSE 0]
    BY <1>17 DEF NewFoundry
  <2>1. (InputOK /\ WorldOK)'
    BY <1>1, <2>0 DEF InputOK, WorldOK
  <2>2. LoopOK'
    BY <1>1, <2>0, ReqFacts DEF LoopOK
  <2>3. ResultOK'
    <3>1. version.major \in 0..MaxMajor
      BY <1>1 DEF ResultOK, Version
    <3>2. plan' \in [require : 0..MaxMajor, replace : 0..MaxMajor]
      BY <1>1, <2>0, <3>1, MajorsFacts DEF K6ModulePath, ResultOK
    <3>3. QED
      BY <1>1, <2>0, <3>2 DEF ResultOK, Labels
  <2>4. (Unchanged /\ Sourced /\ HomeOK)'
    BY <1>1, <1>2, <2>0, ReqFacts DEF Unchanged, Sourced, HomeOK, ResultOK
  <2>5. Loops'
    BY <1>1, <1>2, <2>0, ReqFacts DEF LoopOK, Loops
  <2>6. Planned'
    <3>1. CASE version.kind \in {"release", "pre"}
      <4>1. source \in {"ext", "latest", "release", "probe"} => path = version.major
        <5>1. CASE source = "probe" /\ version.kind = "pre"
          <6>1. version = req.version /\ home = path /\ path # 0
            BY <1>1, <1>2, <5>1, MajorsFacts DEF Sourced, ResultOK
          <6>2. QED
            BY <1>2, <5>1, <6>1 DEF HomeOK
        <5>2. QED
          BY <1>2, <3>1, <5>1 DEF Sourced
      <4>2. QED
        BY <2>0, <3>1, <4>1 DEF K6ModulePath, Planned
    <3>2. CASE version.kind \notin {"release", "pre"}
      <4>1. source \in {"ext", "latest", "release", "probe"} => req.cmd # "lint"
        BY <1>1, <1>2, <3>2, ReqFacts DEF Sourced
      <4>2. QED
        BY <2>0, <3>2, <4>1 DEF K6ModulePath, Planned
    <3>3. QED
      BY <3>1, <3>2
  <2>7. Scanned'
    BY <1>3, <2>0, ScannedKept
  <2>8. LatestNotStale'
    BY <1>1, <1>3, <2>0, NotStaleKept DEF WorldOK
  <2>9. QED
    BY <2>1, <2>2, <2>3, <2>4, <2>5, <2>6, <2>7, <2>8 DEF IInv, TypeOK
<1>18. CASE Publish
  <2>0. /\ latest' \in [Majors -> 0..MaxMinor]
        /\ \A m \in Majors : latest'[m] >= latest[m]
        /\ UNCHANGED <<req, home, asked, cancelled, faults, pc, ext, major, best, absent,
                       path, version, source, plan>>
    <3>1. PICK m \in Majors : latest[m] < MaxMinor /\ latest' = [latest EXCEPT ![m] = @ + 1]
      BY <1>18 DEF Publish
    <3>2. latest[m] \in 0..MaxMinor
      BY <1>1 DEF WorldOK
    <3>3. \A k \in Majors : latest[k] \in 0..MaxMinor
      BY <1>1 DEF WorldOK
    <3>4. \A k \in Majors : latest'[k] = IF k = m THEN latest[m] + 1 ELSE latest[k]
      BY <1>1, <3>1 DEF WorldOK
    <3>5. latest' \in [Majors -> 0..MaxMinor]
      BY <1>1, <3>1, <3>2 DEF WorldOK
    <3>6. \A k \in Majors : latest'[k] >= latest[k]
      BY <3>2, <3>3, <3>4
    <3>7. QED
      BY <1>18, <3>5, <3>6 DEF Publish
  <2>1. TypeOK'
    BY <1>1, <2>0 DEF TypeOK, InputOK, WorldOK, LoopOK, ResultOK
  <2>2. (Unchanged /\ Sourced /\ HomeOK /\ Loops /\ Planned)'
    BY <1>2, <1>3, <2>0 DEF Unchanged, Sourced, HomeOK, Loops, Planned
  <2>3. /\ \A m \in Majors : asked[m] \in Nat /\ latest[m] \in Nat /\ latest'[m] \in Nat
        /\ best.path \in Majors /\ path \in Majors
    BY <1>1, <2>0 DEF InputOK, WorldOK, LoopOK, ResultOK
  <2>4. Scanned'
    BY <1>3, <2>0, <2>3 DEF Scanned
  <2>5. LatestNotStale'
    BY <1>3, <2>0, <2>3 DEF LatestNotStale, Disturbed
  <2>6. QED
    BY <2>1, <2>2, <2>4, <2>5 DEF IInv
<1>19. CASE Cancel
  <2>0. /\ cancelled' = TRUE
        /\ UNCHANGED <<req, home, asked, latest, faults, pc, ext, major, best, absent,
                       path, version, source, plan>>
    BY <1>19 DEF Cancel
  <2>1. TypeOK'
    BY <1>1, <2>0 DEF TypeOK, InputOK, WorldOK, LoopOK, ResultOK
  <2>2. (Unchanged /\ Sourced /\ HomeOK /\ Loops /\ Planned /\ Scanned)'
    BY <1>2, <1>3, <2>0 DEF Unchanged, Sourced, HomeOK, Loops, Planned, Scanned
  <2>3. Disturbed'
    BY <2>0 DEF Disturbed
  <2>4. LatestNotStale'
    BY <1>3, <2>0, <2>3 DEF LatestNotStale
  <2>5. QED
    BY <2>1, <2>2, <2>4 DEF IInv
<1>20. CASE Done \/ UNCHANGED vars
  <2>0. UNCHANGED vars
    BY <1>20 DEF Done
  <2>1. TypeOK'
    BY <1>1, <2>0 DEF vars, TypeOK, InputOK, WorldOK, LoopOK, ResultOK
  <2>2. (Unchanged /\ Sourced /\ HomeOK /\ Loops /\ Planned /\ Scanned)'
    BY <1>2, <1>3, <2>0 DEF vars, Unchanged, Sourced, HomeOK, Loops, Planned, Scanned
  <2>3. LatestNotStale'
    BY <1>3, <2>0 DEF vars, LatestNotStale, Disturbed
  <2>4. QED
    BY <2>1, <2>2, <2>3 DEF IInv
<1>21. QED
  BY <1>4, <1>5, <1>6, <1>7, <1>8, <1>9, <1>10, <1>11, <1>12, <1>13, <1>14, <1>15, <1>16, <1>17, <1>18, <1>19, <1>20 DEF Next, Resolver

LEMMA Invariance == Spec => []IInv
<1>1. QED
  BY InitIInv, StepIInv, PTL DEF Spec

\* Type correctness, and with it the bound of the probing loops: no more than
\* two majors past the newest one are ever asked for.
THEOREM TypeCorrect == Spec => []TypeOK
<1>1. IInv => TypeOK
  BY DEF IInv
<1>2. QED
  BY <1>1, Invariance, PTL

\* Path, version and plan agree, whatever is published, fails or is cancelled
\* while they are looked up.
THEOREM PlansAgree == Spec => []PlanAgrees
<1>1. IInv => PlanAgrees
  <2> SUFFICES ASSUME IInv
               PROVE  PlanAgrees
    OBVIOUS
  <2>1. Unchanged /\ Sourced /\ HomeOK /\ Planned /\ ResultOK
    BY DEF IInv, TypeOK
  <2>2. source \in {"ext", "latest", "release", "probe"} =>
          path = IF version.kind = "ref" THEN home ELSE version.major
    BY <2>1, MajorsFacts DEF Sourced, HomeOK, ResultOK
  <2>3. source \in {"none", "user", "asis"} => path = req.suffix /\ version = req.version
    BY <2>1 DEF Unchanged
  <2>4. QED
    BY <2>1, <2>2, <2>3 DEF PlanAgrees, Planned
<1>2. QED
  BY <1>1, Invariance, PTL

\* The newest k6 that is found is not older than the newest one published when
\* the command started.
THEOREM LatestIsNotStale == Spec => []LatestNotStale
<1>1. IInv => LatestNotStale
  BY DEF IInv
<1>2. QED
  BY <1>1, Invariance, PTL

------------------------------------------------------------------------------
(* What is chosen is chosen for a reason.                                    *)

PassedOver(e) == Declares(e) => ~e.local /\ Disturbed

\* The extensions that were passed over so far.
Chosen ==
    /\ pc = "begin" => ext = 1
    /\ pc \in {"exts", "extmod", "base", "majors"} => req.version.kind \in {"latest", "unset"}
    /\ pc \in {"exts", "extmod"} => \A i \in 1..(ext - 1) : PassedOver(req.exts[i])
    /\ pc = "extmod" => ~req.exts[ext].local
    /\ pc \in {"base", "majors"} /\ ~req.fork =>
         \A i \in 1..Len(req.exts) : PassedOver(req.exts[i])

\* The majors that are known not to hold the ref, or to be missing.
Probed ==
    /\ pc \in {"baseinfo", "info", "exists"} =>
         req.version.kind \in {"pre", "ref"} \/ (req.cmd = "sync" /\ req.version.kind = "latest")
    /\ pc \in {"info", "exists"} /\ ~Disturbed =>
         /\ home = 0 \/ home >= major
         /\ pc = "exists" => home # major
         /\ absent = 1 => major > 2 /\ (major - 1 \in Majors => asked[major - 1] = 0)

CInv == Chosen /\ Probed /\ ChoiceIsEarned

\* Faults and the cancellation are not taken back.
LEMMA DisturbedStays ==
    ASSUME WorldOK, faults' \in Nat, faults' >= faults, cancelled => cancelled'
    PROVE  Disturbed => Disturbed'
BY DEF Disturbed, WorldOK

\* A step that takes no decision keeps the reasons of those taken.
LEMMA EarnedKept ==
    ASSUME ChoiceIsEarned, UNCHANGED <<req, home, asked>>, Disturbed => Disturbed',
           pc' # "failed" \/ UNCHANGED pc,
           source' \notin {"ext", "latest", "asis"} \/ UNCHANGED <<source, path, ext>>
    PROVE  ChoiceIsEarned'
<1>1. FirstDeclaringWins'
  BY DEF ChoiceIsEarned, FirstDeclaringWins
<1>2. FailureIsEarned'
  BY DEF ChoiceIsEarned, FailureIsEarned, Reachable
<1>3. QED
  BY <1>1, <1>2 DEF ChoiceIsEarned

\* Steps of the environment keep the conjuncts together.
LEMMA FrameCInv ==
    ASSUME CInv, UNCHANGED <<req, home, asked, pc, ext, major, absent, path, version, source>>,
           Disturbed => Disturbed'
    PROVE  CInv'
<1>1. Chosen'
  BY DEF CInv, Chosen, PassedOver, Declares
<1>2. Probed'
  BY DEF CInv, Probed
<1>3. ChoiceIsEarned'
  BY EarnedKept DEF CInv
<1>4. QED
  BY <1>1, <1>2, <1>3 DEF CInv

\* A major that is not published now was not when the command started.
LEMMA NotPublished ==
    ASSUME InputOK, WorldOK, Scanned, NEW m \in Majors, ~Published(m)
    PROVE  asked[m] = 0
<1>1. asked[m] \in Nat /\ latest[m] \in Nat /\ asked[m] <= latest[m]
  BY DEF InputOK, WorldOK, Scanned
<1>2. QED
  BY <1>1 DEF Published

\* One that is missing is the second missing one in a row before the ref.
LEMMA NotReachable ==
    ASSUME InputOK, NEW m \in Nat, m > 2, home > m, home # 0,
           m - 1 \in Majors => asked[m - 1] = 0, m \in Majors => asked[m] = 0
    PROVE  ~Reachable(home)
<1>1. home \in Nat /\ home <= MaxMajor
  BY DEF InputOK
<1>2. m \in Majors /\ m - 1 \in Majors /\ m - 1 \in 2..(home - 2)
  BY <1>1, MajorsFacts
<1>3. asked[m - 1] = 0 /\ asked[(m - 1) + 1] = 0
  BY <1>2
<1>4. QED
  BY <1>2, <1>3 DEF Reachable

\* Taking the requirement of an extension that all the others were passed over
\* for is choosing the first that declares k6.
LEMMA RequireEarned ==
    ASSUME InputOK, ext \in Nat, \A i \in 1..(ext - 1) : PassedOver(req.exts[i]),
           UseRequire(req.exts[ext]), UNCHANGED <<req, home, asked, ext>>,
           Disturbed => Disturbed'
    PROVE  /\ pc' \in {"done", "foundry"}
           /\ ChoiceIsEarned'
<1>1. source' = "ext" /\ path' = req.exts[ext].requires[1] /\ pc' \in {"done", "foundry"}
  BY DEF UseRequire, Resolved
<1>2. FirstDeclaringWins'
  BY <1>1 DEF FirstDeclaringWins, PassedOver, Declares
<1>3. FailureIsEarned'
  BY <1>1 DEF FailureIsEarned
<1>4. QED
  BY <1>1, <1>2, <1>3 DEF ChoiceIsEarned

\* Passing over one more extension.
LEMMA SkipEarned ==
    ASSUME InputOK, ext \in Nat, ext >= 1, \A i \in 1..(ext - 1) : PassedOver(req.exts[i]),
           UNCHANGED <<req, home, asked>>, ext' = ext + 1, pc' = "exts",
           req.version.kind \in {"latest", "unset"}, source' = "none",
           Disturbed => Disturbed',
           Declares(req.exts[ext]) => ~req.exts[ext].local /\ Disturbed'
    PROVE  CInv'
<1>1. \A i \in 1..ext : i \in 1..(ext - 1) \/ i = ext
  OBVIOUS
<1>2. \A i \in 1..ext : PassedOver(req.exts[i])'
  BY <1>1 DEF PassedOver, Declares
<1>3. Chosen'
  BY <1>2 DEF Chosen
<1>4. Probed' /\ FirstDeclaringWins' /\ FailureIsEarned'
  BY DEF Probed, FirstDeclaringWins, FailureIsEarned
<1>5. QED
  BY <1>3, <1>4 DEF CInv, ChoiceIsEarned

\* The one extension of lint and sync is local.
LEMMA OwnExtension ==
    ASSUME InputOK, req.cmd # "build"
    PROVE  Len(req.exts) = 1 /\ req.exts[1].local /\ ~req.fork
BY RequestsAssumption DEF InputOK

LEMMA StepCInv == IInv /\ CInv /\ [Next]_vars => CInv'
<1> SUFFICES ASSUME IInv, CInv, [Next]_vars
             PROVE  CInv'
  OBVIOUS
<1> USE DEF input, world, loop, result
<1>1. InputOK /\ WorldOK /\ LoopOK /\ ResultOK
  BY DEF IInv, TypeOK
<1>2. Unchanged /\ HomeOK /\ Loops /\ Scanned
  BY DEF IInv
<1>3. Chosen /\ Probed /\ ChoiceIsEarned
  BY DEF CInv
<1>4. CASE BeginBuild
  <2>0. /\ pc = "begin" /\ source = "none" /\ ext = 1 /\ req.cmd = "build"
        /\ UNCHANGED <<req, home, asked, cancelled, faults, ext, major, absent, version>>
        /\ \/ source' = "user" /\ pc' = "foundry"
           \/ /\ source' = "none" /\ req.version.kind = "latest"
              /\ IF req.fork THEN pc' = "base" ELSE pc' = "exts"
           \/ source' = "none" /\ req.version.kind \in {"pre", "ref"} /\ pc' = "baseinfo"
           \/ source' = "release" /\ pc' = "foundry"
    <3>1. req.version.kind \in {"latest", "release", "pre", "ref"}
      BY <1>1, <1>4, RequestsAssumption DEF BeginBuild, InputOK, RequestType, Version
    <3>2. QED
      BY <1>2, <1>3, <1>4, <3>1 DEF BeginBuild, ResolveModuleForVersion, Resolved, Unchanged, Chosen
  <2>1. Chosen'
    BY <2>0 DEF Chosen
  <2>2. Probed'
    BY <2>0 DEF Probed
  <2>3. ChoiceIsEarned'
    BY <1>3, <2>0, EarnedKept DEF Disturbed
  <2>4. QED
    BY <2>1, <2>2, <2>3 DEF CInv
<1>5. CASE BeginLint
  <2>0. /\ pc = "begin" /\ pc' = "exts" /\ source' = "none" /\ ext = 1
        /\ req.version.kind = "latest"
        /\ UNCHANGED <<req, home, asked, cancelled, faults, ext, major, absent>>
    BY <1>1, <1>2, <1>3, <1>5, ReqFacts DEF BeginLint, Unchanged, Chosen
  <2>1. Chosen'
    BY <2>0 DEF Chosen
  <2>2. Probed'
    BY <2>0 DEF Probed
  <2>3. ChoiceIsEarned'
    BY <1>3, <2>0, EarnedKept DEF Disturbed
  <2>4. QED
    BY <2>1, <2>2, <2>3 DEF CInv
<1>6. CASE BeginSync
  <2>0. /\ pc = "begin" /\ source = "none" /\ ext = 1 /\ req.cmd = "sync"
        /\ version = req.version /\ req.version.kind \in {"latest", "unset", "release", "pre", "ref"}
        /\ UNCHANGED <<req, home, asked, cancelled, faults, ext, major, absent>>
    <3>1. source = "none" /\ version = req.version /\ ext = 1
      BY <1>2, <1>3, <1>6 DEF BeginSync, Unchanged, Chosen
    <3>2. QED
      BY <1>1, <1>6, <3>1, ReqFacts DEF BeginSync, Version
  <2>1. CASE UseRequire(req.exts[1])
    <3>1. pc' \in {"done", "foundry"} /\ ChoiceIsEarned'
      BY <1>1, <2>0, <2>1, RequireEarned DEF Disturbed
    <3>2. Chosen' /\ Probed'
      BY <3>1 DEF Chosen, Probed
    <3>3. QED
      BY <3>1, <3>2 DEF CInv
  <2>2. CASE ResolveModuleForVersion /\ req.version.kind # "unset"
    <3>1. \/ source' = "release" /\ pc' = "done"
          \/ source' = "none" /\ req.version.kind \in {"latest", "pre", "ref"} /\ pc' = "baseinfo"
      BY <2>0, <2>2 DEF ResolveModuleForVersion, Resolved
    <3>2. Chosen' /\ Probed'
      BY <2>0, <3>1 DEF Chosen, Probed
    <3>3. ChoiceIsEarned'
      BY <1>3, <2>0, <3>1, EarnedKept DEF Disturbed
    <3>4. QED
      BY <3>2, <3>3 DEF CInv
  <2>3. CASE ~Declares(req.exts[1]) /\ req.version.kind = "unset" /\ pc' = "base" /\ UNCHANGED result
    <3>1. Len(req.exts) = 1
      BY <1>1, <2>0, OwnExtension
    <3>2. \A i \in 1..Len(req.exts) : PassedOver(req.exts[i])'
      BY <2>0, <2>3, <3>1 DEF PassedOver, Declares
    <3>3. Chosen' /\ Probed'
      BY <2>0, <2>3, <3>2 DEF Chosen, Probed
    <3>4. ChoiceIsEarned'
      BY <1>3, <2>0, <2>3, EarnedKept DEF Disturbed
    <3>5. QED
      BY <3>3, <3>4 DEF CInv
  <2>4. QED
    BY <1>6, <2>0, <2>1, <2>2, <2>3 DEF BeginSync
<1>7. CASE NoModfile
  <2>0. /\ pc = "begin" /\ pc' = "failed" /\ source' = "none"
        /\ req.cmd = "sync" /\ ~req.exts[1].readable
        /\ UNCHANGED <<req, home, asked, cancelled, faults, ext, major, absent>>
    BY <1>2, <1>7 DEF NoModfile, Unresolved, Unchanged
  <2>1. Chosen' /\ Probed'
    BY <2>0 DEF Chosen, Probed
  <2>2. FirstDeclaringWins' /\ FailureIsEarned'
    BY <2>0 DEF FirstDeclaringWins, FailureIsEarned
  <2>3. QED
    BY <2>1, <2>2 DEF CInv, ChoiceIsEarned
<1>8. ASSUME pc \in {"exts", "extmod"}
      PROVE  /\ source = "none" /\ ext \in Nat /\ ext >= 1
             /\ req.version.kind \in {"latest", "unset"}
             /\ \A i \in 1..(ext - 1) : PassedOver(req.exts[i])
  <2>1. source = "none" /\ req.version.kind \in {"latest", "unset"}
        /\ \A i \in 1..(ext - 1) : PassedOver(req.exts[i])
    BY <1>2, <1>3, <1>8 DEF Unchanged, Chosen
  <2>2. ext \in Nat /\ ext >= 1
    BY <1>1, ReqFacts DEF LoopOK
  <2>3. QED
    BY <2>1, <2>2
<1>9. CASE ReadLocal
  <2>0. /\ pc = "exts" /\ req.exts[ext].local /\ Scan(req.exts[ext])
        /\ UNCHANGED <<req, home, asked, cancelled, faults, major, absent>>
    BY <1>9 DEF ReadLocal
  <2>1. CASE Declares(req.exts[ext])
    <3>1. UseRequire(req.exts[ext]) /\ UNCHANGED ext
      BY <2>0, <2>1 DEF Scan
    <3>2. pc' \in {"done", "foundry"} /\ ChoiceIsEarned'
      BY <1>1, <1>8, <2>0, <3>1, RequireEarned DEF Disturbed
    <3>3. Chosen' /\ Probed'
      BY <3>2 DEF Chosen, Probed
    <3>4. QED
      BY <3>2, <3>3 DEF CInv
  <2>2. CASE ~Declares(req.exts[ext])
    <3>1. ext' = ext + 1 /\ pc' = "exts" /\ UNCHANGED source
      BY <2>0, <2>2 DEF Scan
    <3>2. QED
      BY <1>1, <1>8, <2>0, <2>2, <3>1, SkipEarned DEF Disturbed
  <2>3. QED
    BY <2>1, <2>2
<1>10. CASE LatestOfExt
  <2>0. /\ pc = "exts" /\ ~req.exts[ext].local
        /\ UNCHANGED <<req, home, asked, major, absent>>
    BY <1>10 DEF LatestOfExt
  <2>1. PICK there \in {TRUE, req.exts[ext].readable} :
          \/ Found(there) /\ pc' = "extmod" /\ UNCHANGED <<ext, result>>
          \/ NotFound(there) /\ Skip
    BY <1>10 DEF LatestOfExt
  <2>2. CASE Found(there) /\ pc' = "extmod" /\ UNCHANGED <<ext, result>>
    <3>1. UNCHANGED <<cancelled, faults, source, ext>> /\ pc' = "extmod"
      BY <1>1, <2>2, FoundFacts
    <3>2. Disturbed' = Disturbed
      BY <3>1 DEF Disturbed
    <3>3. Chosen'
      BY <1>8, <2>0, <3>1, <3>2 DEF Chosen, PassedOver, Declares
    <3>4. Probed'
      BY <3>1 DEF Probed
    <3>5. ChoiceIsEarned'
      BY <1>3, <1>8, <2>0, <3>1, <3>2, EarnedKept
    <3>6. QED
      BY <3>3, <3>4, <3>5 DEF CInv
  <2>3. CASE NotFound(there) /\ Skip
    <3>1. /\ UNCHANGED <<latest, cancelled>> /\ faults' \in 0..MaxFaults /\ faults' >= faults
          /\ ~cancelled /\ faults' = 0 => ~there
      BY <1>1, <2>3, NotFoundFacts
    <3>2. ext' = ext + 1 /\ pc' = "exts" /\ UNCHANGED source
      BY <2>3 DEF Skip
    <3>3. Disturbed => Disturbed'
      BY <1>1, <3>1, DisturbedStays
    <3>4. there = TRUE \/ there = req.exts[ext].readable
      BY <2>1
    <3>5. ~Disturbed' => ~there
      BY <3>1 DEF Disturbed
    <3>6. Declares(req.exts[ext]) => there
      BY <3>4 DEF Declares
    <3>7. QED
      BY <1>1, <1>8, <2>0, <3>2, <3>3, <3>5, <3>6, SkipEarned
  <2>4. QED
    BY <2>1, <2>2, <2>3
<1>11. CASE ModOfExt
  <2> DEFINE e == req.exts[ext]
  <2>0. /\ pc \in {"exts", "extmod"} /\ ~e.local
        /\ UNCHANGED <<req, home, asked, major, absent>>
    BY <1>3, <1>11 DEF ModOfExt, Chosen
  <2>1. CASE Found(e.readable) /\ Scan(e)
    <3>1. UNCHANGED <<cancelled, faults>>
      BY <1>1, <2>1, FoundFacts
    <3>2. CASE Declares(e)
      <4>1. UseRequire(e) /\ UNCHANGED ext
        BY <2>1, <3>2 DEF Scan
      <4>2. pc' \in {"done", "foundry"} /\ ChoiceIsEarned'
        BY <1>1, <1>8, <2>0, <3>1, <4>1, RequireEarned DEF Disturbed
      <4>3. Chosen' /\ Probed'
        BY <4>2 DEF Chosen, Probed
      <4>4. QED
        BY <4>2, <4>3 DEF CInv
    <3>3. CASE ~Declares(e)
      <4>1. ext' = ext + 1 /\ pc' = "exts" /\ UNCHANGED source
        BY <2>1, <3>3 DEF Scan
      <4>2. QED
        BY <1>1, <1>8, <2>0, <3>1, <3>3, <4>1, SkipEarned DEF Disturbed
    <3>4. QED
      BY <3>2, <3>3
  <2>2. CASE NotFound(e.readable) /\ Skip
    <3>1. /\ UNCHANGED <<latest, cancelled>> /\ faults' \in 0..MaxFaults /\ faults' >= faults
          /\ ~cancelled /\ faults' = 0 => ~e.readable
      BY <1>1, <2>2, NotFoundFacts
    <3>2. ext' = ext + 1 /\ pc' = "exts" /\ UNCHANGED source
      BY <2>2 DEF Skip
    <3>3. Disturbed => Disturbed'
      BY <1>1, <3>1, DisturbedStays
    <3>4. Declares(e) => Disturbed'
      BY <3>1 DEF Disturbed, Declares
    <3>5. QED
      BY <1>1, <1>8, <2>0, <3>2, <3>3, <3>4, SkipEarned
  <2>3. QED
    BY <1>11, <2>1, <2>2 DEF ModOfExt
<1>12. CASE NoneDeclares
  <2>0. /\ pc = "exts" /\ pc' = "base" /\ ext > Len(req.exts)
        /\ UNCHANGED <<req, home, asked, cancelled, faults, ext, major, absent, source>>
    BY <1>12 DEF NoneDeclares
  <2>1. ext \in Nat /\ Len(req.exts) \in Nat
    BY <1>1, ReqFacts DEF LoopOK
  <2>2. \A i \in 1..Len(req.exts) : i \in 1..(ext - 1)
    BY <2>0, <2>1
  <2>3. \A i \in 1..Len(req.exts) : PassedOver(req.exts[i])'
    BY <1>8, <2>0, <2>2 DEF PassedOver, Declares, Disturbed
  <2>4. Chosen' /\ Probed'
    BY <1>8, <2>0, <2>3 DEF Chosen, Probed
  <2>5. ChoiceIsEarned'
    BY <1>3, <1>8, <2>0, EarnedKept DEF Disturbed
  <2>6. QED
    BY <2>4, <2>5 DEF CInv
<1>13. CASE LatestOfBase
  <2>0. /\ pc = "base" /\ source = "none" /\ req.version.kind \in {"latest", "unset"}
        /\ UNCHANGED <<req, home, asked, ext, major, absent>>
    BY <1>2, <1>3, <1>13 DEF LatestOfBase, Unchanged, Chosen
  <2>1. CASE Found(Published(1)) /\ pc' = "majors" /\ UNCHANGED result
    <3>1. UNCHANGED <<cancelled, faults, source>> /\ pc' = "majors"
      BY <1>1, <2>1, FoundFacts
    <3>2. Disturbed' = Disturbed
      BY <3>1 DEF Disturbed
    <3>3. Chosen'
      BY <1>3, <2>0, <3>1, <3>2 DEF Chosen, PassedOver, Declares
    <3>4. Probed'
      BY <3>1 DEF Probed
    <3>5. ChoiceIsEarned'
      BY <1>3, <2>0, <3>1, <3>2, EarnedKept
    <3>6. QED
      BY <3>3, <3>4, <3>5 DEF CInv
  <2>2. CASE NotFound(Published(1)) /\ Unresolved
    <3>1. /\ UNCHANGED <<latest, cancelled>> /\ faults' \in 0..MaxFaults /\ faults' >= faults
          /\ ~cancelled /\ faults' = 0 => ~Published(1)
      BY <1>1, <2>2, NotFoundFacts
    <3>2. pc' \in {"foundry", "failed"} /\ source' \in {"asis", "none"}
      BY <2>0, <2>2 DEF Unresolved
    <3>3. ~Disturbed' => asked[1] = 0
      BY <1>1, <1>2, <3>1, MajorsFacts, NotPublished DEF Disturbed
    <3>4. FirstDeclaringWins' /\ FailureIsEarned'
      BY <2>0, <3>2, <3>3 DEF FirstDeclaringWins, FailureIsEarned
    <3>5. Chosen' /\ Probed'
      BY <3>2 DEF Chosen, Probed
    <3>6. QED
      BY <3>4, <3>5 DEF CInv, ChoiceIsEarned
  <2>3. QED
    BY <1>13, <2>1, <2>2 DEF LatestOfBase
<1>14. CASE LatestOfMajor
  <2>0. /\ pc = "majors" /\ source = "none" /\ req.version.kind \in {"latest", "unset"}
        /\ UNCHANGED <<req, home, asked, ext, absent>>
    BY <1>2, <1>3, <1>14 DEF LatestOfMajor, Unchanged, Chosen
  <2>1. CASE Found(Published(major)) /\ UNCHANGED <<pc, result>>
    <3>1. UNCHANGED <<cancelled, faults, source, pc>>
      BY <1>1, <2>1, FoundFacts
    <3>2. Disturbed' = Disturbed
      BY <3>1 DEF Disturbed
    <3>3. Chosen'
      BY <1>3, <2>0, <3>1, <3>2 DEF Chosen, PassedOver, Declares
    <3>4. Probed'
      BY <2>0, <3>1 DEF Probed
    <3>5. ChoiceIsEarned'
      BY <1>3, <2>0, <3>1, <3>2, EarnedKept
    <3>6. QED
      BY <3>3, <3>4, <3>5 DEF CInv
  <2>2. CASE /\ NotFound(Published(major))
             /\ Resolved(best.path, Release(best.major, best.minor), "latest")
    <3>1. UNCHANGED cancelled /\ faults' \in 0..MaxFaults /\ faults' >= faults
      BY <1>1, <2>2, NotFoundFacts
    <3>2. pc' \in {"done", "foundry"} /\ source' = "latest"
      BY <2>2 DEF Resolved
    <3>3. Disturbed => Disturbed'
      BY <1>1, <3>1, DisturbedStays
    <3>4. FirstDeclaringWins' /\ FailureIsEarned'
      BY <1>3, <2>0, <3>2, <3>3
         DEF Chosen, FirstDeclaringWins, FailureIsEarned, PassedOver, Declares
    <3>5. Chosen' /\ Probed'
      BY <3>2 DEF Chosen, Probed
    <3>6. QED
      BY <3>4, <3>5 DEF CInv, ChoiceIsEarned
  <2>3. QED
    BY <1>14, <2>1, <2>2 DEF LatestOfMajor
<1>15. CASE BaseInfo
  <2>0. /\ pc = "baseinfo" /\ source = "none" /\ major = 2 /\ absent = 0
        /\ UNCHANGED <<req, home, asked, ext, major, absent>>
    BY <1>2, <1>15 DEF BaseInfo, Unchanged, Loops
  <2>1. CASE Found(home = 1) /\ Resolved(1, version, "probe")
    <3>1. UNCHANGED <<cancelled, faults>>
      BY <1>1, <2>1, FoundFacts
    <3>2. pc' \in {"done", "foundry"} /\ source' = "probe"
      BY <2>1 DEF Resolved
    <3>3. Chosen' /\ Probed'
      BY <3>2 DEF Chosen, Probed
    <3>4. ChoiceIsEarned'
      BY <1>3, <2>0, <3>1, <3>2, EarnedKept DEF Disturbed
    <3>5. QED
      BY <3>3, <3>4 DEF CInv
  <2>2. CASE NotFound(home = 1) /\ pc' = "info" /\ UNCHANGED result
    <3>1. /\ UNCHANGED cancelled /\ faults' \in 0..MaxFaults /\ faults' >= faults
          /\ ~cancelled /\ faults' = 0 => home # 1
      BY <1>1, <2>2, NotFoundFacts
    <3>2. Disturbed => Disturbed'
      BY <1>1, <3>1, DisturbedStays
    <3>3. ~Disturbed' => home = 0 \/ home >= 2
      BY <1>1, <3>1 DEF Disturbed, InputOK
    <3>4. Chosen'
      BY <2>2 DEF Chosen
    <3>5. Probed'
      BY <1>3, <2>0, <2>2, <3>3 DEF Probed
    <3>6. ChoiceIsEarned'
      BY <1>3, <2>0, <2>2, <3>2, EarnedKept
    <3>7. QED
      BY <3>4, <3>5, <3>6 DEF CInv
  <2>3. QED
    BY <1>15, <2>1, <2>2 DEF BaseInfo
<1>16. CASE MajorInfo
  <2>0. /\ pc = "info" /\ source = "none"
        /\ UNCHANGED <<req, home, asked, ext, major, absent>>
    BY <1>2, <1>16 DEF MajorInfo, Unchanged
  <2>1. CASE Found(home = major) /\ Resolved(major, version, "probe")
    <3>1. UNCHANGED <<cancelled, faults>>
      BY <1>1, <2>1, FoundFacts
    <3>2. pc' \in {"done", "foundry"} /\ source' = "probe"
      BY <2>1 DEF Resolved
    <3>3. Chosen' /\ Probed'
      BY <3>2 DEF Chosen, Probed
    <3>4. ChoiceIsEarned'
      BY <1>3, <2>0, <3>1, <3>2, EarnedKept DEF Disturbed
    <3>5. QED
      BY <3>3, <3>4 DEF CInv
  <2>2. CASE NotFound(home = major) /\ pc' = "exists" /\ UNCHANGED result
    <3>1. /\ UNCHANGED cancelled /\ faults' \in 0..MaxFaults /\ faults' >= faults
          /\ ~cancelled /\ faults' = 0 => home # major
      BY <1>1, <2>2, NotFoundFacts
    <3>2. Disturbed => Disturbed'
      BY <1>1, <3>1, DisturbedStays
    <3>3. ~Disturbed' => home # major
      BY <3>1 DEF Disturbed
    <3>4. Chosen'
      BY <2>2 DEF Chosen
    <3>5. Probed'
      BY <1>3, <2>0, <2>2, <3>2, <3>3 DEF Probed
    <3>6. ChoiceIsEarned'
      BY <1>3, <2>0, <2>2, <3>2, EarnedKept
    <3>7. QED
      BY <3>4, <3>5, <3>6 DEF CInv
  <2>3. QED
    BY <1>16, <2>1, <2>2 DEF MajorInfo
<1>17. CASE MajorExists
  <2>0. /\ pc = "exists" /\ source = "none" /\ absent \in {0, 1}
        /\ major \in Nat /\ major >= 2 /\ home \in Nat
        /\ UNCHANGED <<req, home, asked, ext>>
    BY <1>1, <1>2, <1>17 DEF MajorExists, Unchanged, Loops, LoopOK, InputOK
  <2>1. ~Disturbed => home = 0 \/ home > major
    BY <1>3, <2>0 DEF Probed
  <2>2. CASE /\ Found(Published(major)) /\ absent' = 0 /\ major' = major + 1
             /\ pc' = "info" /\ UNCHANGED result
    <3>1. UNCHANGED <<cancelled, faults>>
      BY <1>1, <2>2, FoundFacts
    <3>2. Disturbed' = Disturbed
      BY <3>1 DEF Disturbed
    <3>3. Chosen'
      BY <2>2 DEF Chosen
    <3>4. Probed'
      BY <1>3, <2>0, <2>1, <2>2, <3>2 DEF Probed
    <3>5. ChoiceIsEarned'
      BY <1>3, <2>0, <2>2, <3>2, EarnedKept
    <3>6. QED
      BY <3>3, <3>4, <3>5 DEF CInv
  <2>3. ASSUME NotFound(Published(major))
        PROVE  /\ Disturbed => Disturbed'
               /\ ~Disturbed' => (major \in Majors => asked[major] = 0)
    <3>1. /\ UNCHANGED cancelled /\ faults' \in 0..MaxFaults /\ faults' >= faults
          /\ ~cancelled /\ faults' = 0 => ~Published(major)
      BY <1>1, <2>3, NotFoundFacts
    <3>2. Disturbed => Disturbed'
      BY <1>1, <3>1, DisturbedStays
    <3>3. ~Disturbed' => ~Published(major)
      BY <3>1 DEF Disturbed
    <3>4. QED
      BY <1>1, <1>2, <3>2, <3>3, NotPublished
  <2>4. CASE /\ NotFound(Published(major)) /\ absent = 0 /\ absent' = 1
             /\ pc' = "info" /\ major' = major + 1 /\ UNCHANGED result
    <3>1. Chosen'
      BY <2>4 DEF Chosen
    <3>2. (major + 1) - 1 = major /\ major + 1 > 2
      BY <2>0
    <3>3. Probed'
      BY <1>3, <2>0, <2>1, <2>3, <2>4, <3>2 DEF Probed
    <3>4. ChoiceIsEarned'
      BY <1>3, <2>0, <2>3, <2>4, EarnedKept
    <3>5. QED
      BY <3>1, <3>3, <3>4 DEF CInv
  <2>5. CASE NotFound(Published(major)) /\ absent = 1 /\ Unresolved
    <3>1. pc' \in {"foundry", "failed"} /\ source' \in {"asis", "none"}
      BY <2>0, <2>5 DEF Unresolved
    <3>2. req.version.kind \in {"pre", "ref"} \/ (req.cmd = "sync" /\ req.version.kind = "latest")
      BY <1>3, <2>0 DEF Probed
    <3>3. ~Disturbed' => ~Reachable(home)
      <4> SUFFICES ASSUME ~Disturbed'
                   PROVE  ~Reachable(home)
        OBVIOUS
      <4>1. ~Disturbed /\ (major \in Majors => asked[major] = 0)
        BY <2>3, <2>5
      <4>2. major > 2 /\ (major - 1 \in Majors => asked[major - 1] = 0)
        BY <1>3, <2>0, <2>5, <4>1 DEF Probed
      <4>3. CASE home = 0
        BY <4>3 DEF Reachable
      <4>4. CASE home # 0 /\ home > major
        BY <1>1, <2>0, <4>1, <4>2, <4>4, NotReachable
      <4>5. QED
        BY <2>1, <4>1, <4>3, <4>4
    <3>4. ~Disturbed' => ~Reachable(home)'
      BY <2>0, <3>3 DEF Reachable
    <3>5. FirstDeclaringWins' /\ FailureIsEarned'
      BY <2>0, <3>1, <3>2, <3>4 DEF FirstDeclaringWins, FailureIsEarned
    <3>6. Chosen' /\ Probed'
      BY <3>1 DEF Chosen, Probed
    <3>7. QED
      BY <3>5, <3>6 DEF CInv, ChoiceIsEarned
  <2>6. QED
    <3>1. absent = 0 => absent + 1 = 1 /\ ~(absent + 1 >= 2)
      BY <2>0
    <3>2. absent = 1 => absent + 1 >= 2
      BY <2>0
    <3>3. QED
      BY <1>17, <2>0, <2>2, <2>4, <2>5, <3>1, <3>2 DEF MajorExists
<1>18. CASE NewFoundry
  <2>0. /\ pc' = "done"
        /\ UNCHANGED <<req, home, asked, cancelled, faults, ext, path, source>>
    BY <1>18 DEF NewFoundry
  <2>1. Chosen' /\ Probed'
    BY <2>0 DEF Chosen, Probed
  <2>2. ChoiceIsEarned'
    BY <1>3, <2>0, EarnedKept DEF Disturbed
  <2>3. QED
    BY <2>1, <2>2 DEF CInv
<1>19. CASE Publish \/ Cancel \/ Done \/ UNCHANGED vars
  <2>1. UNCHANGED <<req, home, asked, pc, ext, major, absent, path, version, source>>
    BY <1>19 DEF Publish, Cancel, Done, vars
  <2>2. Disturbed => Disturbed'
    BY <1>19 DEF Publish, Cancel, Done, vars, Disturbed
  <2>3. QED
    BY <2>1, <2>2, FrameCInv
<1>20. QED
  BY <1>4, <1>5, <1>6, <1>7, <1>9, <1>10, <1>11, <1>12, <1>13, <1>14, <1>15, <1>16, <1>17, <1>18, <1>19 DEF Next, Resolver

\* The first extension that declares k6 decides, and the resolver gives up
\* only when the registry, a fault, the user or an unreadable go.mod makes it:
\* for every registry, every list of extensions and every interleaving.
THEOREM ChoicesAreEarned == Spec => []ChoiceIsEarned
<1>1. Init => CInv
  BY DEF Init, CInv, Chosen, Probed, ChoiceIsEarned, FirstDeclaringWins, FailureIsEarned
<1>2. CInv => ChoiceIsEarned
  BY DEF CInv
<1>3. QED
  BY <1>1, <1>2, Invariance, StepCInv, PTL DEF Spec

------------------------------------------------------------------------------
(* Termination, but for the fairness: TLC checks Resolves, and this is the   *)
(* measure it rests on.                                                      *)

ExtsLeft == Len(req.exts) + 1 - ext
MajorsLeft == MaxMajor + 3 - major

\* How many steps, and so how many lookups at most, a resolution may still take.
StepsLeft ==
    CASE pc = "begin" -> 2 * ExtsLeft + 2 * MajorsLeft + 6
      [] pc = "exts" -> 2 * ExtsLeft + 2 * MajorsLeft + 5
      [] pc = "extmod" -> 2 * ExtsLeft + 2 * MajorsLeft + 4
      [] pc \in {"base", "baseinfo"} -> 2 * MajorsLeft + 4
      [] pc = "info" -> 2 * MajorsLeft + 3
      [] pc = "exists" -> 2 * MajorsLeft + 2
      [] pc = "majors" -> MajorsLeft + 2
      [] pc = "foundry" -> 1
      [] OTHER -> 0

Advances ==
    /\ Resolver => StepsLeft' < StepsLeft
    /\ Publish \/ Cancel => StepsLeft' = StepsLeft

LEMMA LeftAt ==
    /\ pc = "begin" => StepsLeft = 2 * ExtsLeft + 2 * MajorsLeft + 6
    /\ pc = "exts" => StepsLeft = 2 * ExtsLeft + 2 * MajorsLeft + 5
    /\ pc = "extmod" => StepsLeft = 2 * ExtsLeft + 2 * MajorsLeft + 4
    /\ pc \in {"base", "baseinfo"} => StepsLeft = 2 * MajorsLeft + 4
    /\ pc = "info" => StepsLeft = 2 * MajorsLeft + 3
    /\ pc = "exists" => StepsLeft = 2 * MajorsLeft + 2
    /\ pc = "majors" => StepsLeft = MajorsLeft + 2
    /\ pc = "foundry" => StepsLeft = 1
    /\ pc \in {"done", "failed"} => StepsLeft = 0
BY DEF StepsLeft

LEMMA LeftFacts ==
    ASSUME TypeOK
    PROVE  /\ ExtsLeft \in Nat /\ MajorsLeft \in Nat /\ MajorsLeft >= 1
           /\ StepsLeft \in Nat
           /\ pc \notin {"foundry", "done", "failed"} => StepsLeft >= 2
           /\ ext \in Nat /\ major \in Nat /\ Len(req.exts) \in Nat
<1>1. /\ ext \in Nat /\ ext <= Len(req.exts) + 1 /\ Len(req.exts) \in Nat
      /\ major \in Nat /\ major <= MaxMajor + 2
  BY RequestFacts DEF TypeOK, InputOK, LoopOK
<1>2. ExtsLeft \in Nat /\ MajorsLeft \in Nat /\ MajorsLeft >= 1
  BY <1>1 DEF ExtsLeft, MajorsLeft
<1>3. pc \in Labels
  BY DEF TypeOK, ResultOK
<1>4. StepsLeft \in Nat /\ (pc \notin {"foundry", "done", "failed"} => StepsLeft >= 2)
  BY <1>2, <1>3, LeftAt DEF Labels
<1>5. QED
  BY <1>1, <1>2, <1>4

\* A step out of the lookups.
LEMMA EndsLookups ==
    ASSUME TypeOK, pc \notin {"foundry", "done", "failed"}, pc' \in {"foundry", "done", "failed"}
    PROVE  StepsLeft' < StepsLeft
<1>1. StepsLeft' \in {0, 1}
  BY DEF StepsLeft
<1>2. QED
  BY <1>1, LeftFacts

LEMMA ResolutionAdvances ==
    ASSUME IInv, Resolver
    PROVE  StepsLeft' < StepsLeft
<1>1. TypeOK
  BY DEF IInv
<1>2. /\ ExtsLeft \in Nat /\ MajorsLeft \in Nat /\ MajorsLeft >= 1
      /\ ext \in Nat /\ major \in Nat /\ Len(req.exts) \in Nat
  BY <1>1, LeftFacts
<1>3. \A p, v, r : Resolved(p, v, r) => pc' \in {"foundry", "done", "failed"}
  BY DEF Resolved
<1>4. Unresolved => pc' \in {"foundry", "done", "failed"}
  BY DEF Unresolved
<1>5. CASE pc' \in {"foundry", "done", "failed"} /\ pc \notin {"foundry", "done", "failed"}
  BY <1>1, <1>5, EndsLookups
<1>6. /\ UNCHANGED <<req, ext>> => ExtsLeft' = ExtsLeft
      /\ UNCHANGED req /\ ext' = ext + 1 => ExtsLeft' = ExtsLeft - 1
      /\ UNCHANGED major => MajorsLeft' = MajorsLeft
      /\ major' = major + 1 => MajorsLeft' = MajorsLeft - 1
  BY <1>2 DEF ExtsLeft, MajorsLeft
<1> USE <1>2, <1>6 DEF input, world, loop, StepsLeft
<1>7. CASE BeginBuild \/ BeginLint \/ BeginSync \/ NoModfile
  <2>1. pc = "begin" /\ UNCHANGED <<req, ext, major>>
    BY <1>7 DEF BeginBuild, BeginLint, BeginSync, NoModfile
  <2>2. pc' \in {"exts", "base", "baseinfo", "foundry", "done", "failed"}
    <3>1. ResolveModuleForVersion => pc' \in {"baseinfo", "foundry", "done", "failed"}
      BY <1>3 DEF ResolveModuleForVersion
    <3>2. \A e : UseRequire(e) => pc' \in {"foundry", "done", "failed"}
      BY <1>3 DEF UseRequire
    <3>3. BeginBuild => pc' \in {"exts", "base", "baseinfo", "foundry", "done", "failed"}
      BY <1>3, <3>1 DEF BeginBuild
    <3>4. BeginSync => pc' \in {"base", "baseinfo", "foundry", "done", "failed"}
      BY <3>1, <3>2 DEF BeginSync
    <3>5. QED
      BY <1>4, <1>7, <3>3, <3>4 DEF BeginLint, NoModfile
  <2> HIDE DEF StepsLeft
  <2>3. CASE pc' = "exts"
    <3>1. /\ StepsLeft = 2 * ExtsLeft + 2 * MajorsLeft + 6
          /\ StepsLeft' = 2 * ExtsLeft' + 2 * MajorsLeft' + 5
      BY <2>1, <2>3 DEF StepsLeft
    <3>2. ExtsLeft' = ExtsLeft /\ MajorsLeft' = MajorsLeft
      BY <2>1
    <3>3. QED
      BY <3>1, <3>2
  <2>4. CASE pc' \in {"base", "baseinfo"}
    <3>1. /\ StepsLeft = 2 * ExtsLeft + 2 * MajorsLeft + 6
          /\ StepsLeft' = 2 * MajorsLeft' + 4
      BY <2>1, <2>4 DEF StepsLeft
    <3>2. MajorsLeft' = MajorsLeft
      BY <2>1
    <3>3. QED
      BY <3>1, <3>2
  <2>5. QED
    BY <1>5, <2>1, <2>2, <2>3, <2>4
<1>8. CASE ReadLocal \/ LatestOfExt \/ ModOfExt
  <2>1. pc \in {"exts", "extmod"} /\ UNCHANGED <<req, major>>
    BY <1>8 DEF ReadLocal, LatestOfExt, ModOfExt
  <2>2. \/ ext' = ext + 1 /\ pc' = "exts"
        \/ ext' = ext /\ pc = "exts" /\ pc' = "extmod"
        \/ pc' \in {"foundry", "done", "failed"}
    <3>1. \A e : Scan(e) => (ext' = ext + 1 /\ pc' = "exts") \/ pc' \in {"foundry", "done", "failed"}
      BY <1>3 DEF Scan, UseRequire
    <3>2. Skip => ext' = ext + 1 /\ pc' = "exts"
      BY DEF Skip
    <3>3. QED
      BY <1>8, <3>1, <3>2 DEF ReadLocal, LatestOfExt, ModOfExt
  <2> HIDE DEF StepsLeft
  <2>3. CASE ext' = ext + 1 /\ pc' = "exts"
    <3>1. /\ StepsLeft = 2 * ExtsLeft + 2 * MajorsLeft + (IF pc = "exts" THEN 5 ELSE 4)
          /\ StepsLeft' = 2 * ExtsLeft' + 2 * MajorsLeft' + 5
      BY <2>1, <2>3 DEF StepsLeft
    <3>2. ExtsLeft' = ExtsLeft - 1 /\ MajorsLeft' = MajorsLeft
      BY <2>1, <2>3
    <3>3. QED
      BY <3>1, <3>2
  <2>4. CASE ext' = ext /\ pc = "exts" /\ pc' = "extmod"
    <3>1. /\ StepsLeft = 2 * ExtsLeft + 2 * MajorsLeft + 5
          /\ StepsLeft' = 2 * ExtsLeft' + 2 * MajorsLeft' + 4
      BY <2>4 DEF StepsLeft
    <3>2. ExtsLeft' = ExtsLeft /\ MajorsLeft' = MajorsLeft
      BY <2>1, <2>4
    <3>3. QED
      BY <3>1, <3>2
  <2>5. QED
    BY <1>5, <2>1, <2>2, <2>3, <2>4
<1>9. CASE NoneDeclares
  BY <1>9 DEF NoneDeclares
<1>10. CASE LatestOfBase
  BY <1>4, <1>5, <1>10 DEF LatestOfBase
<1>11. CASE LatestOfMajor
  BY <1>3, <1>5, <1>11 DEF LatestOfMajor
<1>12. CASE BaseInfo
  BY <1>3, <1>5, <1>12 DEF BaseInfo
<1>13. CASE MajorInfo
  BY <1>3, <1>5, <1>13 DEF MajorInfo
<1>14. CASE MajorExists
  BY <1>4, <1>5, <1>14 DEF MajorExists
<1>15. CASE NewFoundry
  BY <1>15 DEF NewFoundry
<1>16. QED
  BY <1>7, <1>8, <1>9, <1>10, <1>11, <1>12, <1>13, <1>14, <1>15 DEF Resolver

\* The scans of extensions and majors are bounded by the command line and by
\* the majors there can be, however many releases appear meanwhile and whatever
\* fails: no step of the resolver but takes it nearer to its answer, and none
\* of the registry or the user takes it away from it.
THEOREM ResolutionsAreBounded ==
    Spec => /\ [](StepsLeft \in 0..(2 * Len(req.exts) + 2 * MaxMajor + 8))
            /\ [][Advances]_vars
<1>1. IInv => StepsLeft \in 0..(2 * Len(req.exts) + 2 * MaxMajor + 8)
  <2> SUFFICES ASSUME IInv
               PROVE  StepsLeft \in 0..(2 * Len(req.exts) + 2 * MaxMajor + 8)
    OBVIOUS
  <2>1. TypeOK
    BY DEF IInv
  <2>2. ext >= 1 /\ major >= 2
    BY <2>1 DEF TypeOK, LoopOK
  <2>3. ExtsLeft <= Len(req.exts) /\ MajorsLeft <= MaxMajor + 1
    BY <2>1, <2>2, LeftFacts DEF ExtsLeft, MajorsLeft
  <2>4. StepsLeft \in Nat /\ ExtsLeft \in Nat /\ MajorsLeft \in Nat /\ Len(req.exts) \in Nat
    BY <2>1, LeftFacts
  <2>5. StepsLeft <= 2 * ExtsLeft + 2 * MajorsLeft + 6
    BY <2>1, <2>4, LeftAt DEF TypeOK, ResultOK, Labels
  <2>6. \A n, e, l, p, m \in Nat :
          n <= 2 * e + 2 * p + 6 /\ e <= l /\ p <= m + 1 => n \in 0..(2 * l + 2 * m + 8)
    OBVIOUS
  <2>7. QED
    BY <2>3, <2>4, <2>5, <2>6
<1>2. IInv /\ [Next]_vars => [Advances]_vars
  <2>1. Publish \/ Cancel => StepsLeft' = StepsLeft
    BY DEF Publish, Cancel, input, loop, StepsLeft, ExtsLeft, MajorsLeft
  <2>2. QED
    BY <2>1, ResolutionAdvances DEF Advances
<1>3. QED
  BY <1>1, <1>2, Invariance, PTL DEF Spec

------------------------------------------------------------------------------
(* What others may take for granted of it.                                   *)

ResultIsFinal == source # "none" => UNCHANGED result

\* A resolution decides once: path and version are written together with what
\* they rest on, and no later lookup, release or failure changes any of them.
THEOREM DecidesOnce == Spec => [][ResultIsFinal]_vars
<1>1. ASSUME IInv, Next, source # "none"
      PROVE  UNCHANGED result
  <2>1. pc \in {"foundry", "done"}
    BY <1>1 DEF IInv, Unchanged, TypeOK, ResultOK, Labels
  <2>2. CASE Resolver
    BY <2>1, <2>2 DEF Resolver, BeginBuild, BeginLint, BeginSync, NoModfile, ReadLocal, LatestOfExt,
                      ModOfExt, NoneDeclares, LatestOfBase, LatestOfMajor, BaseInfo, MajorInfo,
                      MajorExists, NewFoundry
  <2>3. CASE Publish \/ Cancel \/ Done
    BY <2>3 DEF Publish, Cancel, Done, vars
  <2>4. QED
    BY <1>1, <2>2, <2>3 DEF Next
<1>2. IInv /\ [Next]_vars => [ResultIsFinal]_vars
  BY <1>1 DEF ResultIsFinal
<1>3. QED
  BY <1>2, Invariance, PTL DEF Spec

\* The k6 a sync follows, by what it has been asked for.
SyncFollows ==
    req.cmd = "sync" /\ pc = "done" =>
        /\ req.version.kind # "latest"
        /\ req.version.kind \in {"release", "pre", "ref"} => version = req.version
        /\ req.version.kind = "unset" =>
             /\ version.kind = "release" /\ path = version.major
             /\ Declares(req.exts[1]) => path = req.exts[1].requires[1]
             /\ ~Declares(req.exts[1]) => version.minor \in 1..latest[path]

\* The same at every label of a sync.
SyncPath ==
    req.cmd = "sync" =>
        /\ pc \notin {"exts", "extmod", "foundry"}
        /\ pc \in {"base", "majors"} \/ source = "latest" =>
             req.version.kind = "unset" /\ ~Declares(req.exts[1])
        /\ pc \in {"baseinfo", "info", "exists"} => req.version.kind # "unset"
        /\ source = "ext" => /\ req.version.kind = "unset"
                             /\ Declares(req.exts[1]) /\ path = req.exts[1].requires[1]
        /\ source = "release" => req.version.kind = "release" /\ version = req.version
        /\ source \in {"none", "ext", "latest", "release", "probe"}
        /\ pc = "done" => source # "none"

LEMMA StepSyncPath == IInv /\ SyncPath /\ [Next]_vars => SyncPath'
<1> SUFFICES ASSUME IInv, SyncPath, [Next]_vars, req'.cmd = "sync"
             PROVE  SyncPath'
  BY DEF SyncPath
<1> USE DEF input, world, loop, result
<1>1. Unchanged /\ ResultOK
  BY DEF IInv, TypeOK
<1>2. req' = req
  BY DEF Next, Resolver, BeginBuild, BeginLint, BeginSync, NoModfile, ReadLocal, LatestOfExt, ModOfExt,
         NoneDeclares, LatestOfBase, LatestOfMajor, BaseInfo, MajorInfo, MajorExists, NewFoundry,
         Publish, Cancel, Done, vars
<1>3. /\ req.cmd = "sync" /\ pc \notin {"exts", "extmod", "foundry"}
      /\ pc \in {"base", "majors"} => req.version.kind = "unset" /\ ~Declares(req.exts[1])
      /\ pc \in {"baseinfo", "info", "exists"} => req.version.kind # "unset"
  BY <1>2 DEF SyncPath
<1>4. \A p, v, r : Resolved(p, v, r) => path' = p /\ version' = v /\ source' = r /\ pc' = "done"
  BY <1>3 DEF Resolved
<1>5. Unresolved => pc' = "failed" /\ UNCHANGED source
  BY <1>3 DEF Unresolved
<1>6. Declares(req.exts[1])' = Declares(req.exts[1])
  BY <1>2 DEF Declares
<1>7. CASE BeginSync
  <2>1. pc = "begin" /\ source = "none" /\ version = req.version
    BY <1>1, <1>7 DEF BeginSync, Unchanged
  <2>2. CASE version.kind # "unset" /\ ResolveModuleForVersion
    <3>1. \/ req.version.kind = "release" /\ source' = "release" /\ version' = version /\ pc' = "done"
          \/ pc' = "baseinfo" /\ UNCHANGED source
      BY <1>4, <2>2 DEF ResolveModuleForVersion
    <3>2. QED
      BY <1>2, <2>1, <2>2, <3>1 DEF SyncPath
  <2>3. CASE version.kind = "unset" /\ Declares(req.exts[1]) /\ UseRequire(req.exts[1])
    <3>1. source' = "ext" /\ path' = req.exts[1].requires[1] /\ pc' = "done"
      BY <1>4, <2>3 DEF UseRequire
    <3>2. QED
      BY <1>2, <1>6, <2>1, <2>3, <3>1 DEF SyncPath
  <2>4. CASE version.kind = "unset" /\ ~Declares(req.exts[1]) /\ pc' = "base" /\ UNCHANGED result
    BY <1>2, <1>6, <2>1, <2>4 DEF SyncPath
  <2>5. QED
    BY <1>7, <2>2, <2>3, <2>4 DEF BeginSync
<1>8. CASE NoModfile
  <2>1. pc' = "failed" /\ source' = "none"
    BY <1>1, <1>5, <1>8 DEF NoModfile, Unchanged
  <2>2. QED
    BY <2>1 DEF SyncPath
<1>9. CASE LatestOfBase \/ LatestOfMajor
  <2>1. pc \in {"base", "majors"} /\ source = "none"
    BY <1>1, <1>9 DEF LatestOfBase, LatestOfMajor, Unchanged
  <2>2. \/ pc' \in {"majors", "failed"} /\ UNCHANGED source
        \/ pc' = "done" /\ source' = "latest"
    BY <1>4, <1>5, <1>9, <2>1 DEF LatestOfBase, LatestOfMajor
  <2>3. QED
    BY <1>2, <1>3, <1>6, <2>1, <2>2 DEF SyncPath
<1>10. CASE BaseInfo \/ MajorInfo \/ MajorExists
  <2>1. pc \in {"baseinfo", "info", "exists"} /\ source = "none"
    BY <1>1, <1>10 DEF BaseInfo, MajorInfo, MajorExists, Unchanged
  <2>2. \/ pc' \in {"info", "exists", "failed"} /\ UNCHANGED source
        \/ pc' = "done" /\ source' = "probe"
    BY <1>4, <1>5, <1>10 DEF BaseInfo, MajorInfo, MajorExists
  <2>3. QED
    BY <1>2, <1>3, <2>1, <2>2 DEF SyncPath
<1>11. CASE Publish \/ Cancel \/ Done \/ UNCHANGED vars
  <2>1. UNCHANGED <<req, pc, path, version, source>>
    BY <1>11 DEF Publish, Cancel, Done, vars
  <2>2. QED
    BY <1>6, <2>1 DEF SyncPath
<1>12. ~BeginBuild /\ ~BeginLint /\ ~ReadLocal /\ ~LatestOfExt /\ ~ModOfExt /\ ~NoneDeclares /\ ~NewFoundry
  BY <1>3 DEF BeginBuild, BeginLint, ReadLocal, LatestOfExt, ModOfExt, NoneDeclares, NewFoundry
<1>13. QED
  BY <1>7, <1>8, <1>9, <1>10, <1>11, <1>12 DEF Next, Resolver

\* What SyncDeps takes for one step of a sync, ResolveK6Module and NoSuchVersion,
\* is what the lookups come to: the k6 that -k names, else the first one go.mod
\* requires, else a release that is published, and never one for "-k latest".
THEOREM SyncFollowsIt == Spec => []SyncFollows
<1>1. Init => SyncPath
  BY DEF Init, SyncPath
<1>2. ASSUME IInv, SyncPath, req.cmd = "sync", pc = "done"
      PROVE  SyncFollows
  <2>1. /\ source \in {"ext", "latest", "release", "probe"}
        /\ source = "latest" => req.version.kind = "unset" /\ ~Declares(req.exts[1])
        /\ source = "ext" => /\ req.version.kind = "unset"
                             /\ Declares(req.exts[1]) /\ path = req.exts[1].requires[1]
        /\ source = "release" => req.version.kind = "release" /\ version = req.version
    BY <1>2 DEF SyncPath
  <2>2. /\ source \in {"ext", "latest", "release"} =>
             version.kind = "release" /\ path = version.major
        /\ source = "probe" => version = req.version /\ version.kind \in {"pre", "ref"}
    BY <1>2 DEF IInv, Sourced
  <2>3. source = "latest" => version.minor \in 1..latest[path]
    BY <1>2 DEF IInv, LatestNotStale
  <2>4. QED
    BY <2>1, <2>2, <2>3 DEF SyncFollows
<1>3. IInv /\ SyncPath => SyncFollows
  <2> SUFFICES ASSUME IInv, SyncPath, req.cmd = "sync", pc = "done"
               PROVE  SyncFollows
    BY DEF SyncFollows
  <2>1. QED
    BY <1>2
<1>4. QED
  BY <1>1, <1>3, Invariance, StepSyncPath, PTL DEF Spec

==============================================================================
