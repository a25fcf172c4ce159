------------------------------ MODULE LintProofs ------------------------------
(***************************************************************************)
(* Proofs about xk6 lint, for any flags, extensions and go.mods and any    *)
(* number of edits and failing calls.                                      *)
(***************************************************************************)
EXTENDS Lint, SequenceTheorems, FiniteSetTheorems, TLAPS

LEMMA Constants ==
    /\ GoMods \subseteq GoModKinds
    /\ \A e \in Extensions : e.fine \subseteq Checks /\ e.k6 \in K6Kinds
    /\ \A o \in Options : o.json \in BOOLEAN /\ o.out \in BOOLEAN
    /\ MaxEdits \in Nat /\ MaxFaults \in Nat
BY OptionsAssumption, ExtensionsAssumption, GoModsAssumption, BoundsAssumption

\* The checks, one by one.
LEMMA TheChecks ==
    Checks = {"security", "vulnerability", "module", "replace", "readme", "license", "git",
              "versions", "build", "smoke", "examples", "types", "codeowners"}
BY DEF Checks, ToSet, CheckIDs

VerdictRec == [id : Checks, passed : BOOLEAN, rev : Nat, exe : Nat]

\* The types that do not depend on the number of checks.
Types ==
    /\ pc \in {"start", "checks", "output", "close", "exit"}
    /\ opts \in Options /\ ext \in Extensions
    /\ gomod \in GoMods /\ seen \subseteq GoMods /\ gomod \in seen
    /\ rev \in Nat \ {0}
    /\ s \in [modfile : GoMods \cup {"none"}, rev : Nat, exe : Nat, version : K6Kinds \cup {"none"}]
    /\ results \in Seq(VerdictRec)
    /\ builds \in Nat
    /\ temp \subseteq 1..builds
    /\ report \in {"none", "whole", "lost"}
    /\ faults \in Nat
    /\ exit \in {0, 1, 2, NoExit}

\* What is kept was read or built from a go.mod that was there, once.
Kept ==
    /\ s.rev = 0 <=> s.modfile = "none"
    /\ s.modfile # "none" => s.modfile \in seen /\ s.modfile # "unreadable"
    /\ s.exe # 0 => s.modfile \notin {"none", "headless"} /\ \E g \in seen : Builds(g)
    /\ s.exe <= builds
    /\ s.version # "none" => s.version = ext.k6 /\ s.exe # 0
    /\ \A i \in DOMAIN results : results[i].rev \in {0, s.rev} /\ results[i].exe \in {0, s.exe}

\* What the exit code is going to say.
Told ==
    /\ pc \in {"start", "checks", "output"} => exit = NoExit
    /\ pc = "start" => results = <<>> /\ temp = {} /\ s.exe = 0
    /\ pc \in {"close", "exit"} => exit \in {0, 1, 2}
    /\ pc \in {"close", "exit"} /\ exit = 0 /\ opts.json => report = "whole"

IInv ==
    /\ Types
    /\ Kept
    /\ Told
    /\ TempIsKept

LEMMA InitIInv == Init => IInv
<1> SUFFICES ASSUME Init
             PROVE  IInv
  OBVIOUS
<1>1. Types
  BY Constants DEF Init, Types, newState
<1>2. Kept /\ Told
  BY DEF Init, Kept, Told, newState, NoExit
<1>3. TempIsKept
  <2>1. Cardinality(temp \ {s.exe}) = 0
    BY FS_EmptySet DEF Init
  <2>2. Cardinality({i \in DOMAIN results : results[i].id \in K6Checks /\ results[i].exe = 0}) = 0
    <3>1. {i \in DOMAIN results : results[i].id \in K6Checks /\ results[i].exe = 0} = {}
      BY DEF Init
    <3>2. QED
      BY <3>1, FS_EmptySet
  <2>3. QED
    BY <2>1, <2>2 DEF Init, TempIsKept, newState
<1>4. QED
  BY <1>1, <1>2, <1>3 DEF IInv

------------------------------------------------------------------------------
(* Steps.                                                                    *)

\* A verdict is appended and disturbs none that is there.
LEMMA VerdictAppends ==
    ASSUME Types, NEW p \in BOOLEAN, NEW from \in Nat, NEW exe \in Nat, c \in Checks,
           Verdict(p, from, exe)
    PROVE  /\ results' \in Seq(VerdictRec)
           /\ Len(results') = Len(results) + 1
           /\ DOMAIN results' = DOMAIN results \cup {Len(results) + 1}
           /\ Len(results) + 1 \notin DOMAIN results
           /\ \A i \in DOMAIN results : results'[i] = results[i]
           /\ results'[Len(results) + 1] = [id |-> c, passed |-> p, rev |-> from, exe |-> exe]
<1>1. /\ results \in Seq(VerdictRec)
      /\ [id |-> c, passed |-> p, rev |-> from, exe |-> exe] \in VerdictRec
  BY DEF Types, VerdictRec
<1>2. results' = Append(results, [id |-> c, passed |-> p, rev |-> from, exe |-> exe])
  BY DEF Verdict
<1>3. QED
  BY <1>1, <1>2, AppendProperties, LenProperties

\* The checks that needed k6 and got none.
Without == {i \in DOMAIN results : results[i].id \in K6Checks /\ results[i].exe = 0}

LEMMA WithoutFinite ==
    ASSUME Types
    PROVE  IsFiniteSet(Without) /\ Cardinality(Without) \in Nat
<1>1. DOMAIN results = 1..Len(results) /\ Len(results) \in Nat
  BY LenProperties DEF Types
<1>2. IsFiniteSet(1..Len(results))
  BY <1>1, FS_Interval
<1>3. QED
  BY <1>1, <1>2, FS_Subset, FS_CardinalityType DEF Without

LEMMA WithoutGrows ==
    ASSUME Types, NEW p \in BOOLEAN, NEW from \in Nat, NEW exe \in Nat, c \in Checks,
           Verdict(p, from, exe)
    PROVE  Cardinality(Without') =
             IF c \in K6Checks /\ exe = 0 THEN Cardinality(Without) + 1 ELSE Cardinality(Without)
<1>1. Without' = IF c \in K6Checks /\ exe = 0 THEN Without \cup {Len(results) + 1} ELSE Without
  <2>1. /\ DOMAIN results' = DOMAIN results \cup {Len(results) + 1}
        /\ Len(results) + 1 \notin DOMAIN results
        /\ \A i \in DOMAIN results : results'[i] = results[i]
        /\ results'[Len(results) + 1] = [id |-> c, passed |-> p, rev |-> from, exe |-> exe]
    BY VerdictAppends
  <2>2. QED
    BY ONLY <2>1 DEF Without
<1>2. Len(results) + 1 \notin Without
  BY VerdictAppends DEF Without
<1>3. QED
  BY <1>1, <1>2, WithoutFinite, FS_AddElement

LEMMA TempFinite ==
    ASSUME Types
    PROVE  IsFiniteSet(temp) /\ builds + 1 \notin temp
<1>1. IsFiniteSet(1..builds)
  BY FS_Interval DEF Types
<1>2. temp \subseteq 1..builds /\ builds \in Nat
  BY DEF Types
<1>3. IsFiniteSet(temp)
  BY ONLY <1>1, <1>2, FS_Subset
<1>4. builds + 1 \notin temp
  BY <1>2
<1>5. QED
  BY <1>3, <1>4

\* The end of a check that leaves at most one temporary file behind.
LEMMA JudgedKeeps ==
    ASSUME IInv, pc = "checks", c \in Checks,
           NEW p \in BOOLEAN, NEW from \in {0, s.rev}, NEW exe \in {0, s.exe},
           Verdict(p, from, exe),
           \/ temp' = temp /\ builds' \in {builds, builds + 1}
           \/ /\ c \in K6Checks /\ s.exe = 0
              /\ temp' = temp \cup {builds + 1} /\ builds' = builds + 1,
           faults' \in Nat,
           UNCHANGED <<pc, input, disk, s, report, exit>>
    PROVE  IInv'
<1> USE DEF IInv
<1>1. from \in Nat /\ exe \in Nat
  BY DEF Types
<1>2. /\ results' \in Seq(VerdictRec)
      /\ DOMAIN results' = DOMAIN results \cup {Len(results) + 1}
      /\ \A i \in DOMAIN results : results'[i] = results[i]
      /\ results'[Len(results) + 1] = [id |-> c, passed |-> p, rev |-> from, exe |-> exe]
  BY <1>1, VerdictAppends
<1>3. Types'
  <2>1. builds' \in Nat /\ temp' \subseteq 1..builds'
    <3>1. builds \in Nat /\ temp \subseteq 1..builds
      BY DEF Types
    <3>2. /\ 1..builds \subseteq 1..(builds + 1) /\ builds + 1 \in 1..(builds + 1)
          /\ builds + 1 \in Nat
      BY <3>1
    <3>3. builds' = builds \/ builds' = builds + 1
      OBVIOUS
    <3>4. temp' \subseteq temp \cup {builds + 1} /\ (builds' = builds => temp' = temp)
      <4>1. builds # builds + 1
        BY <3>1
      <4>2. QED
        BY <4>1
    <3>5. CASE builds' = builds
      BY <3>1, <3>4, <3>5
    <3>6. CASE builds' = builds + 1
      BY <3>1, <3>2, <3>4, <3>6
    <3>7. QED
      BY <3>3, <3>5, <3>6
  <2>2. QED
    BY <1>2, <2>1 DEF Types, input, disk
<1>4. Kept'
  <2>1. \A i \in DOMAIN results' : results'[i].rev \in {0, s.rev} /\ results'[i].exe \in {0, s.exe}
    BY <1>2 DEF Kept
  <2>2. \A g : Builds(g)' = Builds(g)
    BY DEF Builds, input
  <2>3. s.exe <= builds'
    BY DEF Kept, Types
  <2>4. QED
    BY <2>1, <2>2, <2>3 DEF Kept, input, disk
<1>5. Told'
  BY DEF Told, input
<1>6. TempIsKept'
  <2>1. Cardinality(Without') =
          IF c \in K6Checks /\ exe = 0 THEN Cardinality(Without) + 1 ELSE Cardinality(Without)
    BY <1>1, WithoutGrows
  <2>2. Cardinality(temp \ {s.exe}) <= Cardinality(Without)
    BY DEF TempIsKept, Without
  <2>3. /\ IsFiniteSet(temp \ {s.exe}) /\ builds + 1 \notin temp \ {s.exe}
        /\ Cardinality(Without) \in Nat /\ Cardinality(temp \ {s.exe}) \in Nat
    BY TempFinite, WithoutFinite, FS_Subset, FS_CardinalityType
  <2>4. CASE temp' = temp
    BY <2>1, <2>2, <2>3, <2>4 DEF TempIsKept, Without
  <2>5. CASE c \in K6Checks /\ s.exe = 0 /\ temp' = temp \cup {builds + 1}
    <3>1. temp' \ {s.exe} = (temp \ {s.exe}) \cup {builds + 1}
      BY <2>5 DEF Types
    <3>2. Cardinality(temp' \ {s.exe}) = Cardinality(temp \ {s.exe}) + 1
      BY <2>3, <3>1, FS_AddElement
    <3>3. exe = 0
      BY <2>5
    <3>4. Cardinality(temp' \ {s'.exe}) <= Cardinality(Without')
      BY <2>1, <2>2, <2>3, <2>5, <3>2, <3>3
    <3>5. QED
      BY <2>5, <3>4 DEF TempIsKept, Without
  <2>6. QED
    BY <2>4, <2>5
<1>7. QED
  BY <1>3, <1>4, <1>5, <1>6

LEMMA K6ChecksAreChecks == K6Checks \subseteq Checks /\ GoModChecks \subseteq Checks
BY TheChecks DEF K6Checks, GoModChecks

LEMMA LookStep ==
    ASSUME IInv, NEW id \in Checks, Look(id)
    PROVE  IInv'
<1>1. pc = "checks" /\ c = id /\ UNCHANGED <<pc, input, disk, s, temp, builds, report, exit>>
  BY DEF Look, InCheck, KeepState
<1>2. faults' \in Nat
  <2>1. UNCHANGED faults \/ Fault
    BY Zenon DEF Look
  <2>2. QED
    BY <2>1 DEF Fault, IInv, Types
<1>3. \E p \in BOOLEAN : Verdict(p, 0, 0)
  <2>1. Verdict(id \in ext.fine, 0, 0) \/ Verdict(FALSE, 0, 0)
    BY Zenon DEF Look
  <2>2. (id \in ext.fine) \in BOOLEAN /\ FALSE \in BOOLEAN
    OBVIOUS
  <2>3. QED
    BY ONLY <2>1, <2>2, Zenon
<1>4. QED
  BY <1>1, <1>2, <1>3, JudgedKeeps

LEMMA EndStep ==
    ASSUME IInv, NEW id \in Checks, NEW passes \in BOOLEAN, End(id, passes), faults' \in Nat
    PROVE  IInv'
<1>1. /\ pc = "checks" /\ c = id /\ UNCHANGED <<pc, input, disk, s, temp, builds, report, exit>>
      /\ Verdict(passes, s.rev, s.exe)
  BY DEF End, InCheck, KeepState
<1>2. QED
  BY <1>1, JudgedKeeps

\* The steps of the getters that succeed.
LEMMA GotStep ==
    ASSUME IInv, pc = "checks", UNCHANGED <<pc, input, disk, results, report, faults, exit>>,
           \/ /\ s.modfile = "none" /\ gomod # "unreadable"
              /\ s' = [s EXCEPT !.modfile = gomod, !.rev = rev] /\ UNCHANGED <<temp, builds>>
           \/ /\ s.exe = 0 /\ s.modfile \notin {"none", "headless"} /\ Builds(gomod)
              /\ s' = [s EXCEPT !.exe = builds + 1]
              /\ temp' = temp \cup {builds + 1} /\ builds' = builds + 1
           \/ /\ s.exe # 0
              /\ s' = [s EXCEPT !.version = ext.k6] /\ UNCHANGED <<temp, builds>>
    PROVE  IInv'
<1> USE DEF IInv, input, disk
<1>1. /\ builds \in Nat /\ builds' \in Nat /\ temp' \subseteq 1..builds' /\ temp \subseteq 1..builds
      /\ builds + 1 \notin temp
  <2>1. builds \in Nat /\ temp \subseteq 1..builds
    BY DEF Types
  <2>2. 1..builds \subseteq 1..(builds + 1) /\ builds + 1 \in 1..(builds + 1)
        /\ builds + 1 \notin 1..builds
    BY <2>1
  <2>3. QED
    BY <2>1, <2>2
<1>2. s' \in [modfile : GoMods \cup {"none"}, rev : Nat, exe : Nat, version : K6Kinds \cup {"none"}]
  BY <1>1, Constants DEF Types
<1>3. Types'
  BY <1>1, <1>2 DEF Types
<1>4. Kept'
  <2>1. \A g : Builds(g)' = Builds(g)
    BY DEF Builds
  <2>2. "none" \notin GoMods /\ gomod \in GoMods /\ "none" # ext.k6 /\ gomod \in seen /\ rev \in Nat \ {0}
    BY Constants DEF GoModKinds, K6Kinds, Types
  <2>3. /\ s.rev \in Nat /\ s.exe \in Nat /\ s.exe <= builds
        /\ DOMAIN s = {"modfile", "rev", "exe", "version"}
    BY DEF Types, Kept
  <2>4. CASE /\ s.modfile = "none" /\ gomod # "unreadable"
             /\ s' = [s EXCEPT !.modfile = gomod, !.rev = rev] /\ UNCHANGED <<temp, builds>>
    <3>1. s.exe = 0 /\ s.rev = 0 /\ s.version = "none"
      BY <2>4 DEF Kept
    <3>2. /\ s'.modfile = gomod /\ s'.rev = rev /\ s'.exe = s.exe /\ s'.version = s.version
      BY <2>4, <2>3 DEF Types
    <3>3. \A k \in DOMAIN results : results[k].rev \in {0, s'.rev} /\ results[k].exe \in {0, s'.exe}
      BY <3>1, <3>2 DEF Kept
    <3>4. s'.rev # 0 /\ s'.modfile # "none" /\ s'.modfile \in seen' /\ s'.modfile # "unreadable"
      BY <2>2, <2>4, <3>2
    <3>5. s'.exe = 0 /\ s'.exe <= builds' /\ s'.version = "none"
      BY <2>3, <2>4, <3>1, <3>2
    <3>6. QED
      BY <3>3, <3>4, <3>5 DEF Kept
  <2>5. CASE /\ s.exe = 0 /\ s.modfile \notin {"none", "headless"} /\ Builds(gomod)
             /\ s' = [s EXCEPT !.exe = builds + 1]
             /\ temp' = temp \cup {builds + 1} /\ builds' = builds + 1
    <3>1. s.version = "none"
      BY <2>5 DEF Kept
    <3>2. /\ s'.modfile = s.modfile /\ s'.rev = s.rev /\ s'.exe = builds + 1
          /\ s'.version = s.version
      BY <2>5, <2>3 DEF Types
    <3>3. \A k \in DOMAIN results : results[k].rev \in {0, s'.rev} /\ results[k].exe \in {0, s'.exe}
      BY <2>5, <3>2 DEF Kept
    <3>4. s'.exe # 0 => s'.modfile \notin {"none", "headless"} /\ \E g \in seen' : Builds(g)'
      BY <2>1, <2>2, <2>5, <3>2
    <3>5. s'.exe <= builds'
      BY <1>1, <2>5, <3>2
    <3>6. (s'.rev = 0 <=> s'.modfile = "none")
          /\ (s'.modfile # "none" => s'.modfile \in seen' /\ s'.modfile # "unreadable")
      BY <3>2 DEF Kept
    <3>7. QED
      BY <3>1, <3>2, <3>3, <3>4, <3>5, <3>6 DEF Kept
  <2>6. CASE /\ s.exe # 0
             /\ s' = [s EXCEPT !.version = ext.k6] /\ UNCHANGED <<temp, builds>>
    <3>1. /\ s'.modfile = s.modfile /\ s'.rev = s.rev /\ s'.exe = s.exe
          /\ s'.version = ext.k6
      BY <2>6, <2>3 DEF Types
    <3>2. QED
      BY <2>1, <2>2, <2>3, <2>6, <3>1 DEF Kept
  <2>7. QED
    BY <2>4, <2>5, <2>6
<1>5. Told'
  BY DEF Told
<1>6. TempIsKept'
  <2>1. Without' = Without
    BY DEF Without
  <2>2. temp' \ {s'.exe} = temp \ {s.exe}
    <3>1. 0 \notin temp
      BY <1>1
    <3>2. CASE s'.exe = builds + 1 /\ s.exe = 0 /\ temp' = temp \cup {builds + 1}
      BY <1>1, <3>1, <3>2
    <3>3. CASE s'.exe = s.exe /\ temp' = temp
      BY <3>3
    <3>4. QED
      BY <3>2, <3>3 DEF Types
  <2>3. s'.exe # 0 => s'.exe \in temp'
    <3>1. DOMAIN s = {"modfile", "rev", "exe", "version"} /\ (s.exe # 0 => s.exe \in temp)
      BY DEF TempIsKept, Types
    <3>2. (s'.exe = s.exe /\ temp' = temp) \/ (s'.exe = builds + 1 /\ temp' = temp \cup {builds + 1})
      BY <3>1
    <3>3. QED
      BY <3>1, <3>2
  <2>4. Cardinality(temp' \ {s'.exe}) <= Cardinality(Without')
    BY <2>1, <2>2 DEF TempIsKept, Without
  <2>5. QED
    BY <2>3, <2>4 DEF TempIsKept, Without
<1>7. QED
  BY <1>3, <1>4, <1>5, <1>6

LEMMA ReadModfileStep ==
    ASSUME IInv, ReadModfile
    PROVE  IInv'
<1>1. /\ pc = "checks" /\ c \in Checks /\ s.modfile = "none"
      /\ UNCHANGED <<pc, input, disk, temp, builds, report, exit>>
  BY K6ChecksAreChecks DEF ReadModfile, InCheck, Missing, GoModChecks
<1>2. CASE /\ gomod # "unreadable"
           /\ s' = [s EXCEPT !.modfile = gomod, !.rev = rev]
           /\ UNCHANGED <<results, faults>>
  BY <1>1, <1>2, GotStep
<1>3. CASE /\ (gomod = "unreadable" /\ UNCHANGED faults) \/ Fault
           /\ Verdict(FALSE, 0, 0)
           /\ KeepState
  <2>1. faults' \in Nat
    BY <1>3 DEF Fault, IInv, Types
  <2>2. QED
    BY <1>1, <1>3, <2>1, JudgedKeeps DEF KeepState
<1>4. QED
  BY <1>2, <1>3 DEF ReadModfile

LEMMA BuildExeStep ==
    ASSUME IInv, BuildExe
    PROVE  IInv'
<1>1. /\ pc = "checks" /\ c \in K6Checks /\ c \in Checks /\ s.modfile \notin {"none", "headless"}
      /\ s.exe = 0 /\ builds' = builds + 1
      /\ UNCHANGED <<pc, input, disk, report, exit>>
  BY K6ChecksAreChecks DEF BuildExe, InCheck, Missing, Panics
<1>2. CASE /\ Builds(gomod)
           /\ s' = [s EXCEPT !.exe = builds + 1]
           /\ temp' = temp \cup {builds + 1}
           /\ UNCHANGED <<results, faults>>
  BY <1>1, <1>2, GotStep
<1>3. CASE /\ (~Builds(gomod) /\ UNCHANGED faults) \/ Fault
           /\ temp' = temp \cup {builds + 1}
           /\ Verdict(FALSE, 0, 0)
           /\ KeepState
  <2>1. faults' \in Nat
    BY <1>3 DEF Fault, IInv, Types
  <2>2. QED
    BY <1>1, <1>3, <2>1, JudgedKeeps DEF KeepState
<1>4. CASE Fault /\ Verdict(FALSE, 0, 0) /\ KeepState /\ UNCHANGED temp
  <2>1. faults' \in Nat
    BY <1>4 DEF Fault, IInv, Types
  <2>2. QED
    BY <1>1, <1>4, <2>1, JudgedKeeps DEF KeepState
<1>5. QED
  BY <1>2, <1>3, <1>4 DEF BuildExe

LEMMA RunVersionStep ==
    ASSUME IInv, RunVersion
    PROVE  IInv'
<1>1. /\ pc = "checks" /\ c \in Checks /\ s.exe # 0
      /\ UNCHANGED <<pc, input, disk, temp, builds, report, exit>>
  BY K6ChecksAreChecks DEF RunVersion, InCheck, Missing
<1>2. CASE s' = [s EXCEPT !.version = ext.k6] /\ UNCHANGED <<results, faults>>
  BY <1>1, <1>2, GotStep
<1>3. CASE Fault /\ Verdict(FALSE, 0, 0) /\ KeepState
  <2>1. faults' \in Nat
    BY <1>3 DEF Fault, IInv, Types
  <2>2. QED
    BY <1>1, <1>3, <2>1, JudgedKeeps DEF KeepState
<1>4. QED
  BY <1>2, <1>3 DEF RunVersion

LEMMA CheckerStep ==
    ASSUME IInv, Checker
    PROVE  IInv'
<1>1. \A id \in Checks : Look(id) => IInv'
  BY LookStep
<1>2. ASSUME NEW id \in Checks, NEW passes \in BOOLEAN, Conclude(id, passes)
      PROVE  IInv'
  <2>1. faults' \in Nat
    BY <1>2 DEF Conclude, IInv, Types
  <2>2. QED
    BY <1>2, <2>1, EndStep DEF Conclude
<1>3. ASSUME NEW id \in Checks, Unread(id)
      PROVE  IInv'
  <2>1. faults' \in Nat
    BY <1>3 DEF Unread, Fault, IInv, Types
  <2>2. QED
    BY <1>3, <2>1, EndStep DEF Unread
<1>4. CASE \E id \in Checks : Look(id)
  BY <1>1, <1>4
<1>5. CASE \E id \in Checks : Unread(id)
  BY <1>3, <1>5
<1>6. CASE \E id \in Checks, passes \in BOOLEAN : Conclude(id, passes)
  BY <1>2, <1>6
<1>7. CASE checkerModule \/ checkerReplace \/ checkerBuild
  <2>1. \A v : (v # "replace") \in BOOLEAN /\ (v # "nothing") \in BOOLEAN
    OBVIOUS
  <2>2. {"module", "replace", "build"} \subseteq Checks
    BY TheChecks
  <2>3. QED
    BY <1>2, <1>7, <2>1, <2>2 DEF checkerModule, checkerReplace, checkerBuild
<1>8. CASE checkerSmoke \/ checkerExamples \/ checkerTypes
  <2>1. \A id : JsOnly(id, s.version) \in BOOLEAN
    BY DEF JsOnly
  <2>2. {"smoke", "examples", "types"} \subseteq Checks
    BY TheChecks
  <2>3. QED
    BY <1>2, <1>3, <1>8, <2>1, <2>2 DEF checkerSmoke, checkerExamples, checkerTypes
<1>9. CASE \/ checkerSecurity \/ checkerVulnerability \/ checkerReadme \/ checkerLicense
           \/ checkerGit \/ checkerVersions \/ checkerCodeowners
  <2>1. {"security", "vulnerability", "readme", "license", "git", "versions", "codeowners"}
          \subseteq Checks
    BY TheChecks
  <2>2. QED
    BY <1>1, <1>9, <2>1
       DEF checkerSecurity, checkerVulnerability, checkerReadme, checkerLicense, checkerGit,
           checkerVersions, checkerCodeowners
<1>10. QED
  BY <1>7, <1>8, <1>9 DEF Checker

\* The steps that end the checks; the binary goes, and only the binary.
LEMMA CleanupStep ==
    ASSUME IInv, pc = "checks", Cleanup, pc' \in {"output", "exit"},
           pc' = "output" => exit' = NoExit,
           pc' = "exit" => exit' = 2,
           UNCHANGED <<input, disk, s, results, builds, report, faults>>
    PROVE  IInv'
<1> USE DEF IInv, input, disk
<1>1. Types'
  <2>1. exit' \in {0, 1, 2, NoExit}
    OBVIOUS
  <2>2. temp' \subseteq 1..builds
    BY DEF Cleanup, Types
  <2>3. QED
    BY <2>1, <2>2 DEF Types
<1>2. Kept'
  BY DEF Kept, Builds
<1>3. Told'
  BY DEF Told
<1>4. TempIsKept'
  <2>1. temp' \ {s'.exe} = temp \ {s.exe} /\ s'.exe \notin temp'
    BY DEF Cleanup
  <2>2. Without' = Without
    BY DEF Without
  <2>3. Cardinality(temp' \ {s'.exe}) <= Cardinality(Without')
    BY <2>1, <2>2 DEF TempIsKept, Without
  <2>4. QED
    BY <2>1, <2>3 DEF TempIsKept, Without
<1>5. QED
  BY <1>1, <1>2, <1>3, <1>4

\* The steps that leave the checks and the files alone.
LEMMA OtherStep ==
    ASSUME IInv, UNCHANGED <<opts, ext, s, results, temp, builds>>,
           pc' \in {"checks", "output", "close", "exit"},
           pc' = "checks" => pc \in {"start", "checks"},
           pc' = "exit" => pc \in {"start", "close"},
           pc' = "close" => pc = "output",
           pc' # "output",
           gomod' \in GoMods, seen' = seen \cup {gomod'}, rev' \in Nat \ {0},
           report' \in {"none", "whole", "lost"}, faults' \in Nat,
           exit' \in {0, 1, 2, NoExit}, Told'
    PROVE  IInv'
<1> USE DEF IInv
<1>1. Types'
  BY DEF Types
<1>2. Kept'
  <2>1. \A g : Builds(g)' = Builds(g)
    BY DEF Builds
  <2>2. QED
    BY <2>1 DEF Kept
<1>3. TempIsKept'
  <2>1. Without' = Without /\ (pc = "start" => s.exe = 0 /\ temp = {})
    BY DEF Without, Told
  <2>2. Cardinality(temp' \ {s'.exe}) <= Cardinality(Without')
    BY <2>1 DEF TempIsKept, Without
  <2>3. (pc' = "checks" /\ s'.exe # 0 => s'.exe \in temp')
        /\ (pc' \in {"close", "exit"} => s'.exe \notin temp')
    BY <2>1 DEF TempIsKept
  <2>4. QED
    BY <2>2, <2>3 DEF TempIsKept, Without
<1>4. QED
  BY <1>1, <1>2, <1>3

LEMMA StepIInv == IInv /\ [Next]_vars => IInv'
<1> SUFFICES ASSUME IInv, [Next]_vars
             PROVE  IInv'
  OBVIOUS
<1> USE DEF input, disk
<1>0. Types /\ Told /\ (Fault => faults' \in Nat)
  BY DEF IInv, Types, Fault
<1>1. CASE Start
  <2>1. faults' \in Nat /\ exit' \in {0, 1, 2, NoExit} /\ Told'
    BY <1>0, <1>1 DEF Start, Told, Types, NoExit
  <2>2. QED
    BY <1>0, <1>1, <2>1, OtherStep DEF Start, Types
<1>2. CASE Checker
  BY <1>2, CheckerStep
<1>3. CASE ReadModfile
  BY <1>3, ReadModfileStep
<1>4. CASE BuildExe
  BY <1>4, BuildExeStep
<1>5. CASE RunVersion
  BY <1>5, RunVersionStep
<1>6. CASE Panic
  BY <1>6, CleanupStep DEF Panic, Panics, InCheck
<1>7. CASE ChecksDone
  BY <1>0, <1>7, CleanupStep DEF ChecksDone, Told
<1>8. CASE Output
  <2>1. AllPassed \in BOOLEAN /\ exit = NoExit
    BY <1>0, <1>8 DEF AllPassed, Output, Told
  <2>2. /\ faults' \in Nat /\ exit' \in {0, 1, 2} /\ report' \in {"whole", "lost"}
        /\ (exit' = 0 /\ opts'.json => report' = "whole")
    BY <1>0, <1>8, <2>1 DEF Output, Types
  <2>3. Told'
    BY <1>8, <2>2 DEF Told, Output
  <2>4. QED
    BY <1>0, <1>8, <2>2, <2>3, OtherStep DEF Output, Types
<1>9. CASE CloseOutput
  <2>1. exit \in {0, 1, 2} /\ (exit = 0 /\ opts.json => report = "whole")
    BY <1>0, <1>9 DEF CloseOutput, Told
  <2>2. /\ faults' \in Nat /\ exit' \in {0, 1, 2} /\ report' \in {"none", "whole", "lost"}
        /\ (exit' = 0 /\ opts'.json => report' = "whole")
    BY <1>0, <1>9, <2>1 DEF CloseOutput, Types
  <2>3. Told'
    BY <1>9, <2>2 DEF Told, CloseOutput
  <2>4. QED
    BY <1>0, <1>9, <2>2, <2>3, OtherStep DEF CloseOutput, Types
<1>10. CASE Edit
  <2>1. Told' /\ rev' \in Nat \ {0}
    BY <1>0, <1>10 DEF Edit, Told, Types
  <2>2. QED
    BY <1>0, <1>10, <2>1, OtherStep DEF Edit, Types
<1>11. CASE UNCHANGED vars
  BY <1>11 DEF vars, IInv, Types, Kept, Told, TempIsKept, Builds
<1>12. QED
  BY <1>1, <1>2, <1>3, <1>4, <1>5, <1>6, <1>7, <1>8, <1>9, <1>10, <1>11 DEF Next, Xk6

LEMMA Invariance == Spec => []IInv
BY InitIInv, StepIInv, PTL DEF Spec

------------------------------------------------------------------------------
(* The checks to do, and how much of everything there can be.                *)

\* The wanted checks that come before the one at i.
Before(W, i) == {j \in W : j < i}

\* Each place is taken: the number of those before is another for each check.
LEMMA EveryPlaceIsTaken ==
    ASSUME NEW W \in SUBSET Nat, IsFiniteSet(W), NEW k \in 1..Cardinality(W)
    PROVE  \E i \in W : Cardinality(Before(W, i)) = k - 1
<1> DEFINE n == Cardinality(W)
           place == [i \in W |-> Cardinality(Before(W, i)) + 1]
<1>1. n \in Nat
  BY FS_CardinalityType
<1>2. ASSUME NEW i \in W
      PROVE  /\ Cardinality(Before(W, i)) \in Nat
             /\ \A T \in SUBSET W : Before(W, i) \subseteq T /\ i \in T =>
                  Cardinality(Before(W, i)) < Cardinality(T) /\ Cardinality(T) \in Nat
  <2>1. Before(W, i) \in SUBSET W /\ i \notin Before(W, i)
    BY DEF Before
  <2>2. Cardinality(Before(W, i)) \in Nat
    BY <2>1, FS_Subset, FS_CardinalityType
  <2>3. ASSUME NEW T \in SUBSET W, Before(W, i) \subseteq T, i \in T
        PROVE  Cardinality(Before(W, i)) < Cardinality(T) /\ Cardinality(T) \in Nat
    <3>1. IsFiniteSet(T) /\ Cardinality(T) \in Nat
      BY FS_Subset, FS_CardinalityType
    <3>2. /\ Cardinality(Before(W, i)) <= Cardinality(T)
          /\ Cardinality(T) = Cardinality(Before(W, i)) => T = Before(W, i)
      BY <2>3, <3>1, FS_Subset
    <3>3. T # Before(W, i)
      BY <2>1, <2>3
    <3>4. QED
      BY <2>2, <3>1, <3>2, <3>3
  <2>4. QED
    BY <2>2, <2>3
<1>3. \A i \in W : place[i] \in 1..n
  <2> TAKE i \in W
  <2>1. Before(W, i) \subseteq W /\ W \in SUBSET W
    BY DEF Before
  <2>2. Cardinality(Before(W, i)) \in Nat /\ Cardinality(Before(W, i)) < n
    BY <1>2, <2>1
  <2>3. QED
    BY <1>1, <2>2
<1>4. \A i, j \in W : i < j => place[i] < place[j]
  <2> SUFFICES ASSUME NEW i \in W, NEW j \in W, i < j
               PROVE  place[i] < place[j]
    OBVIOUS
  <2>1. Before(W, j) \in SUBSET W /\ i \in Before(W, j) /\ Before(W, i) \subseteq Before(W, j)
    <3>1. i \in Nat /\ j \in Nat /\ \A m \in W : m \in Nat
      OBVIOUS
    <3>2. \A m \in W : m < i => m < j
      BY <3>1
    <3>3. QED
      BY <3>2 DEF Before
  <2>2. /\ Cardinality(Before(W, i)) \in Nat /\ Cardinality(Before(W, j)) \in Nat
        /\ Cardinality(Before(W, i)) < Cardinality(Before(W, j))
    BY <1>2, <2>1
  <2>3. QED
    BY <2>2
<1> HIDE DEF place, n
<1>5. place \in Injection(W, 1..n)
  <2>1. place \in [W -> 1..n]
    BY <1>3 DEF place
  <2>2. \A i, j \in W : i = j \/ i < j \/ j < i
    OBVIOUS
  <2>3. \A i \in W : ~(place[i] < place[i])
    BY <1>1, <1>3
  <2>4. \A i, j \in W : place[i] = place[j] => i = j
    BY <1>4, <2>2, <2>3
  <2>5. QED
    BY <2>1, <2>4 DEF Injection, IsInjective
<1>6. place \in Surjection(W, 1..n)
  <2>1. IsFiniteSet(1..n) /\ Cardinality(1..n) = n
    BY <1>1, FS_Interval
  <2>2. QED
    BY <1>5, <2>1, FS_Injection DEF n
<1>7. PICK i \in W : place[i] = k
  BY <1>6 DEF Surjection, n
<1>8. Cardinality(Before(W, i)) \in Nat /\ place[i] = Cardinality(Before(W, i)) + 1
  BY <1>2 DEF place
<1>9. QED
  BY <1>1, <1>7, <1>8 DEF n

\* What is done is a list of checks.
LEMMA CheckersAreChecks ==
    ASSUME NEW o \in Options
    PROVE  checkersFor(o) \in Seq(Checks) /\ Len(checkersFor(o)) \in Nat
<1>1. o.enableOnly \in Seq(Checks)
  BY OptionsAssumption
<1>2. \A i \in DOMAIN CheckIDs : CheckIDs[i] \in Checks
  BY DEF Checks, ToSet
<1>3. Wanted(o) \in SUBSET (1..13)
  BY DEF Wanted, CheckIDs
<1>4. IsFiniteSet(Wanted(o)) /\ Cardinality(Wanted(o)) \in Nat
  <2>1. 1 \in Int /\ 13 \in Int
    OBVIOUS
  <2>2. IsFiniteSet(1..13)
    BY <2>1, FS_Interval
  <2>3. QED
    BY <1>3, <2>2, FS_Subset, FS_CardinalityType
<1> DEFINE n == Cardinality(Wanted(o))
           at(k) == CHOOSE i \in Wanted(o) : Cardinality({j \in Wanted(o) : j < i}) = k - 1
<1>5. \A k \in 1..n : CheckIDs[at(k)] \in Checks
  <2> TAKE k \in 1..n
  <2>1. Wanted(o) \in SUBSET Nat
    BY <1>3
  <2>2. \E i \in Wanted(o) : Cardinality({j \in Wanted(o) : j < i}) = k - 1
    BY <1>4, <2>1, EveryPlaceIsTaken DEF Before
  <2>3. at(k) \in Wanted(o)
    BY <2>2
  <2>4. QED
    BY <1>2, <2>3 DEF Wanted
<1> DEFINE q == [k \in 1..n |-> CheckIDs[at(k)]]
<1>6. q \in Seq(Checks)
  <2> HIDE DEF at
  <2>1. q \in [1..n -> Checks]
    BY <1>5
  <2> HIDE DEF q, n
  <2>2. n \in Nat
    BY <1>4 DEF n
  <2>3. q \in UNION {[1..m -> Checks] : m \in Nat}
    BY <2>1, <2>2
  <2>4. QED
    BY <2>3, SeqDef
<1>7. checkersFor(o) = o.enableOnly \/ checkersFor(o) = q
  BY Zenon DEF checkersFor
<1> HIDE DEF q
<1>8. checkersFor(o) \in Seq(Checks)
  BY <1>1, <1>6, <1>7
<1>9. QED
  BY <1>8, LenProperties

\* As long as there is no k6, each build has cost one check.
Limits ==
    /\ checkers \in Seq(Checks)
    /\ rev <= MaxEdits + 1
    /\ s.rev <= rev
    /\ faults <= MaxFaults
    /\ Len(results) <= Len(checkers)
    /\ s.exe = 0 => builds <= Len(results)
    /\ builds <= Len(checkers)

LEMMA InitLimits == Init => Limits
<1> SUFFICES ASSUME Init
             PROVE  Limits
  OBVIOUS
<1>1. checkers \in Seq(Checks) /\ Len(checkers) \in Nat
  BY CheckersAreChecks DEF Init
<1>2. Len(results) = 0
  BY DEF Init
<1>3. QED
  BY <1>1, <1>2, Constants DEF Init, Limits, newState

\* A step that ends at most one check, and builds at most once in doing so.
LEMMA LimitsKept ==
    ASSUME IInv, Limits, UNCHANGED <<input, rev, s>>,
           faults' = faults \/ Fault,
           \/ results' = results /\ builds' = builds
           \/ /\ Len(results) < Len(checkers) /\ Len(results') = Len(results) + 1
              /\ builds' = builds \/ (builds' = builds + 1 /\ s.exe = 0)
    PROVE  Limits'
<1>1. /\ Len(checkers) \in Nat /\ Len(results) \in Nat /\ builds \in Nat
      /\ faults \in Nat /\ MaxFaults \in Nat
  BY Constants, LenProperties DEF IInv, Types, Limits
<1>2. faults' <= MaxFaults
  BY <1>1 DEF Fault, Limits
<1>3. QED
  BY <1>1, <1>2 DEF Limits, input

\* A verdict adds one result.
LEMMA VerdictIsOne ==
    ASSUME IInv, NEW p, NEW from, NEW exe, Verdict(p, from, exe)
    PROVE  Len(results') = Len(results) + 1
BY AppendProperties DEF Verdict, IInv, Types

\* What every checker does: it ends a check and nothing else.
Ends ==
    /\ pc = "checks" /\ Len(results) < Len(checkers)
    /\ Len(results') = Len(results) + 1
    /\ UNCHANGED <<pc, input, disk, s, temp, builds, report, exit>>
    /\ faults' = faults \/ Fault

LEMMA CheckerEnds ==
    ASSUME IInv, Checker
    PROVE  Ends
<1>1. ASSUME NEW id \in Checks, Look(id)
      PROVE  Ends
  <2>1. Verdict(id \in ext.fine, 0, 0) \/ Verdict(FALSE, 0, 0)
    BY <1>1, Zenon DEF Look
  <2>2. Len(results') = Len(results) + 1
    BY <2>1, VerdictIsOne
  <2>3. faults' = faults \/ Fault
    BY <1>1, Zenon DEF Look
  <2>4. QED
    BY <1>1, <2>2, <2>3 DEF Look, InCheck, KeepState, Ends
<1>2. ASSUME NEW id \in Checks, NEW p \in BOOLEAN, End(id, p), faults' = faults \/ Fault
      PROVE  Ends
  <2>1. Len(results') = Len(results) + 1
    BY <1>2, VerdictIsOne DEF End
  <2>2. QED
    BY <1>2, <2>1 DEF End, InCheck, KeepState, Ends
<1>3. ASSUME NEW id \in Checks, NEW p \in BOOLEAN, Conclude(id, p)
      PROVE  Ends
  BY <1>2, <1>3 DEF Conclude
<1>4. ASSUME NEW id \in Checks, Unread(id)
      PROVE  Ends
  BY <1>2, <1>4 DEF Unread
<1>5. CASE checkerModule \/ checkerReplace \/ checkerBuild
  <2>1. \A v : (v # "replace") \in BOOLEAN /\ (v # "nothing") \in BOOLEAN
    OBVIOUS
  <2>2. {"module", "replace", "build"} \subseteq Checks
    BY TheChecks
  <2>3. QED
    BY <1>3, <1>5, <2>1, <2>2 DEF checkerModule, checkerReplace, checkerBuild
<1>6. CASE checkerSmoke \/ checkerExamples \/ checkerTypes
  <2>1. \A id : JsOnly(id, s.version) \in BOOLEAN
    BY DEF JsOnly
  <2>2. {"smoke", "examples", "types"} \subseteq Checks
    BY TheChecks
  <2>3. QED
    BY <1>3, <1>4, <1>6, <2>1, <2>2 DEF checkerSmoke, checkerExamples, checkerTypes
<1>7. CASE \/ checkerSecurity \/ checkerVulnerability \/ checkerReadme \/ checkerLicense
           \/ checkerGit \/ checkerVersions \/ checkerCodeowners
  <2>1. {"security", "vulnerability", "readme", "license", "git", "versions", "codeowners"}
          \subseteq Checks
    BY TheChecks
  <2>2. QED
    BY <1>1, <1>7, <2>1
       DEF checkerSecurity, checkerVulnerability, checkerReadme, checkerLicense, checkerGit,
           checkerVersions, checkerCodeowners
<1>8. QED
  BY <1>5, <1>6, <1>7 DEF Checker

LEMMA StepLimits == IInv /\ Limits /\ [Next]_vars => Limits'
<1> SUFFICES ASSUME IInv, Limits, [Next]_vars
             PROVE  Limits'
  OBVIOUS
<1>0. /\ Len(checkers) \in Nat /\ Len(results) \in Nat /\ builds \in Nat
      /\ faults \in Nat /\ rev \in Nat \ {0} /\ MaxFaults \in Nat /\ MaxEdits \in Nat
      /\ s \in [modfile : GoMods \cup {"none"}, rev : Nat, exe : Nat, version : K6Kinds \cup {"none"}]
      /\ UNCHANGED checkers
  <2>1. UNCHANGED checkers
    <3>1. Checker => UNCHANGED input
      BY CheckerEnds DEF Ends
    <3>2. QED
      BY <3>1 DEF Next, Xk6, Start, ReadModfile, BuildExe, RunVersion, Panic, ChecksDone, Output,
                  CloseOutput, Edit, vars, input
  <2>2. QED
    BY <2>1, Constants, LenProperties DEF IInv, Types, Limits
<1>1. CASE Start \/ Output \/ CloseOutput \/ Panic \/ ChecksDone
  <2>1. UNCHANGED <<results, builds, input, rev, s>> /\ (faults' = faults \/ Fault)
    BY <1>1 DEF Start, Output, CloseOutput, Panic, ChecksDone, disk
  <2>2. QED
    BY <2>1, LimitsKept
<1>2. CASE Checker
  BY <1>2, CheckerEnds, LimitsKept DEF Ends, disk
<1>3. CASE ReadModfile
  <2>1. CASE /\ gomod # "unreadable"
             /\ s' = [s EXCEPT !.modfile = gomod, !.rev = rev]
             /\ UNCHANGED <<results, faults>>
    <3>1. s'.rev = rev /\ s'.exe = s.exe /\ UNCHANGED <<results, faults, rev, builds>>
      BY <1>0, <1>3, <2>1 DEF ReadModfile, disk
    <3>2. QED
      BY <1>0, <3>1 DEF Limits
  <2>2. CASE /\ (gomod = "unreadable" /\ UNCHANGED faults) \/ Fault
             /\ Verdict(FALSE, 0, 0)
             /\ KeepState
    BY <1>3, <2>2, VerdictIsOne, LimitsKept DEF ReadModfile, InCheck, KeepState, disk
  <2>3. QED
    BY <1>3, <2>1, <2>2 DEF ReadModfile
<1>4. CASE BuildExe
  <2>1. /\ s.exe = 0 /\ builds' = builds + 1 /\ Len(results) < Len(checkers)
        /\ UNCHANGED <<input, rev>>
    BY <1>4 DEF BuildExe, InCheck, Missing, disk
  <2>2. CASE s' = [s EXCEPT !.exe = builds + 1] /\ UNCHANGED <<results, faults>>
    <3>1. s'.exe # 0 /\ s'.rev = s.rev
      BY <1>0, <2>2
    <3>2. builds + 1 <= Len(checkers)
      BY <1>0, <2>1 DEF Limits
    <3>3. QED
      BY <1>0, <2>1, <2>2, <3>1, <3>2 DEF Limits
  <2>3. CASE Verdict(FALSE, 0, 0) /\ KeepState /\ (faults' = faults \/ Fault)
    BY <2>1, <2>3, VerdictIsOne, LimitsKept DEF KeepState
  <2>4. QED
    BY <1>4, <2>2, <2>3 DEF BuildExe
<1>5. CASE RunVersion
  <2>1. Len(results) < Len(checkers) /\ UNCHANGED <<input, rev, builds>>
    BY <1>5 DEF RunVersion, InCheck, disk
  <2>2. CASE s' = [s EXCEPT !.version = ext.k6] /\ UNCHANGED <<results, faults>>
    <3>1. s'.exe = s.exe /\ s'.rev = s.rev
      BY <1>0, <2>2
    <3>2. QED
      BY <1>0, <2>1, <2>2, <3>1 DEF Limits
  <2>3. CASE Fault /\ Verdict(FALSE, 0, 0) /\ KeepState
    BY <2>1, <2>3, VerdictIsOne, LimitsKept DEF KeepState
  <2>4. QED
    BY <1>5, <2>2, <2>3 DEF RunVersion
<1>6. CASE Edit
  <2>1. rev' = rev + 1 /\ rev <= MaxEdits /\ UNCHANGED <<s, results, builds, faults>>
    BY <1>6 DEF Edit
  <2>2. rev' <= MaxEdits + 1 /\ s.rev <= rev'
    BY <1>0, <2>1 DEF Limits
  <2>3. QED
    BY <1>0, <2>1, <2>2 DEF Limits
<1>7. CASE UNCHANGED vars
  BY <1>7 DEF vars, input, disk, Limits
<1>8. QED
  BY <1>1, <1>2, <1>3, <1>4, <1>5, <1>6, <1>7 DEF Next, Xk6

LEMMA LimitsAlways == Spec => []Limits
BY InitLimits, StepLimits, Invariance, PTL DEF Spec

------------------------------------------------------------------------------
(* The properties of the run lint.                                           *)

\* What runChecks and the getters leave has its type: verdicts of known checks,
\* never more of them, nor more builds of k6, than there are checks to do,
\* however many edits and failing calls there are.
THEOREM TypeCorrect == Spec => []TypeOK
<1>1. ASSUME IInv, Limits
      PROVE  TypeOK
  <2>1. /\ Len(checkers) \in Nat /\ builds \in Nat /\ rev \in Nat \ {0} /\ faults \in Nat
        /\ MaxFaults \in Nat /\ MaxEdits \in Nat
        /\ Len(results) \in Nat /\ DOMAIN results = 1..Len(results)
    BY <1>1, Constants, LenProperties DEF IInv, Types, Limits
  <2>2. rev \in 1..(MaxEdits + 1) /\ builds \in 0..Len(checkers) /\ faults \in 0..MaxFaults
    BY <1>1, <2>1 DEF Limits
  <2>3. s.rev \in 0..(MaxEdits + 1) /\ s.exe \in 0..Len(checkers)
    <3>1. s.rev \in Nat /\ s.exe \in Nat
      BY <1>1 DEF IInv, Types
    <3>2. s.rev <= MaxEdits + 1 /\ s.exe <= Len(checkers)
      BY <1>1, <2>1, <3>1 DEF IInv, Kept, Limits
    <3>3. QED
      BY <2>1, <3>1, <3>2
  <2>4. s \in [modfile : GoMods \cup {"none"}, rev : 0..(MaxEdits + 1),
               exe : 0..Len(checkers), version : K6Kinds \cup {"none"}]
    BY <1>1, <2>3 DEF IInv, Types
  <2> DEFINE R == [id : Checks, passed : BOOLEAN, rev : 0..(MaxEdits + 1), exe : 0..Len(checkers)]
  <2>5. \A i \in 1..Len(results) : results[i] \in R
    <3> SUFFICES ASSUME NEW i \in 1..Len(results)
                 PROVE  results[i] \in R
      OBVIOUS
    <3>1. results[i] \in VerdictRec
      BY <1>1, <2>1 DEF IInv, Types
    <3>2. results[i].rev \in {0, s.rev} /\ results[i].exe \in {0, s.exe}
      BY <1>1, <2>1 DEF IInv, Kept
    <3>3. results[i].rev \in 0..(MaxEdits + 1) /\ results[i].exe \in 0..Len(checkers)
      BY <2>1, <2>3, <3>2
    <3>4. QED
      BY <3>1, <3>3 DEF VerdictRec
  <2>6. results \in Seq(R)
    <3> HIDE DEF R
    <3>1. results = [i \in 1..Len(results) |-> results[i]]
      BY <1>1, LenProperties DEF IInv, Types
    <3>2. results \in [1..Len(results) -> R]
      BY <2>5, <3>1
    <3>3. results \in UNION {[1..m -> R] : m \in Nat}
      BY ONLY <2>1, <3>2
    <3>4. QED
      BY ONLY <3>3, SeqDef
  <2>7. QED
    BY <1>1, <2>2, <2>4, <2>6 DEF TypeOK, IInv, Types, Limits
<1>2. QED
  BY <1>1, Invariance, LimitsAlways, PTL

\* All verdicts about go.mod rest on one reading of it and all about k6 on one
\* binary: what state keeps for the checkers is obtained once.
THEOREM OneReadingForAll == Spec => []OneReading
<1>1. IInv => OneReading
  BY DEF IInv, Types, Kept, OneReading
<1>2. QED
  BY <1>1, Invariance, PTL

\* The k6 of build and cleanup is there while it is needed and gone afterwards,
\* and no check leaves more than one temporary file behind.
THEOREM TempFilesAreKept == Spec => []TempIsKept
<1>1. IInv => TempIsKept
  BY DEF IInv
<1>2. QED
  BY <1>1, Invariance, PTL

\* lintRunE does not return nil when its JSON report was not written.
THEOREM ReportsAreThere == Spec => []ReportIsThere
<1>1. IInv => ReportIsThere
  BY DEF IInv, Told, ReportIsThere
<1>2. QED
  BY <1>1, Invariance, PTL

------------------------------------------------------------------------------
(* Lint implements LintReport.                                               *)

\* What the exit code is made of between the last check and the end.
Judged ==
    /\ pc \in {"output", "close"} => Len(results) = Len(checkers)
    /\ pc = "close" => /\ exit = 0 => AllPassed
                       /\ exit = 2 => ~AllPassed
                       /\ exit = 1 => faults > 0

LEMMA JudgedAlways == Spec => []Judged
<1>1. Init => Judged
  BY DEF Init, Judged
<1>2. IInv /\ Judged /\ [Next]_vars => Judged'
  <2> SUFFICES ASSUME IInv, Judged, [Next]_vars
               PROVE  Judged'
    OBVIOUS
  <2> USE DEF Judged, input
  <2>1. CASE Output
    <3>1. AllPassed' = AllPassed /\ AllPassed \in BOOLEAN /\ faults \in Nat
      BY <2>1 DEF Output, AllPassed, IInv, Types
    <3>2. CASE /\ exit' = IF AllPassed THEN 0 ELSE 2
               /\ UNCHANGED faults
      BY <2>1, <3>1, <3>2 DEF Output
    <3>3. CASE /\ Fault
               /\ exit' = IF opts.json THEN 1 ELSE IF AllPassed THEN 0 ELSE 2
      BY <2>1, <3>1, <3>3 DEF Output, Fault
    <3>4. QED
      BY <2>1, <3>2, <3>3 DEF Output
  <2>2. CASE ChecksDone
    BY <2>2 DEF ChecksDone
  <2>3. CASE Start \/ Panic \/ CloseOutput
    BY <2>3 DEF Start, Panic, CloseOutput
  <2>4. CASE pc' = "checks" \/ UNCHANGED vars
    BY <2>4 DEF vars, AllPassed
  <2>5. CASE Edit \/ ReadModfile \/ BuildExe \/ RunVersion
    BY <2>4, <2>5 DEF Edit, ReadModfile, BuildExe, RunVersion, InCheck
  <2>6. CASE Checker
    BY <2>4, <2>6, CheckerEnds DEF Ends
  <2>7. QED
    BY <2>1, <2>2, <2>3, <2>4, <2>5, <2>6 DEF Next, Xk6
<1>3. QED
  BY <1>1, <1>2, Invariance, PTL DEF Spec

\* What a verdict deserves, check by check.
LEMMA ReasonsToJudge ==
    ASSUME IInv
    PROVE  /\ \A id \in Checks \ (GoModChecks \cup K6Checks) :
                Deserves(id, gomod) <=> id \in ext.fine
           /\ gomod = "unreadable" =>
                \A id \in GoModChecks \cup K6Checks : ~Deserves(id, gomod)
           /\ ~Builds(gomod) => \A id \in K6Checks : ~Deserves(id, gomod)
           /\ ~Deserves("module", "headless")
           /\ s.modfile \notin {"none", "headless"} => Deserves("module", s.modfile)
           /\ s.modfile # "none" => (Deserves("replace", s.modfile) <=> s.modfile # "replace")
           /\ \A g : Builds(g) => /\ Deserves("build", g) <=> ext.k6 # "nothing"
                                 /\ \A id \in K6Checks \ {"build"} :
                                      Deserves(id, g) <=> JsOnly(id, ext.k6)
<1>1. \A id \in Checks \ (GoModChecks \cup K6Checks) : Deserves(id, gomod) <=> id \in ext.fine
  BY DEF Deserves, GoModChecks, K6Checks
<1>2. \A id \in K6Checks : ~Builds(gomod) => ~Deserves(id, gomod)
  BY DEF Deserves, K6Checks
<1>3. gomod = "unreadable" => ~Builds(gomod)
  BY DEF Builds
<1>4. gomod = "unreadable" => \A id \in GoModChecks : ~Deserves(id, gomod)
  BY DEF Deserves, GoModChecks
<1>5. ~Deserves("module", "headless")
  BY DEF Deserves
<1>6. s.modfile # "none" => s.modfile \in {"headless", "plain", "replace"}
  BY Constants DEF IInv, Types, Kept, GoModKinds
<1>7. s.modfile \notin {"none", "headless"} => Deserves("module", s.modfile)
  BY <1>6 DEF Deserves, GoModChecks, K6Checks
<1>8. s.modfile # "none" => (Deserves("replace", s.modfile) <=> s.modfile # "replace")
  BY <1>6 DEF Deserves, GoModChecks, K6Checks
<1>9. \A g : Builds(g) => /\ Deserves("build", g) <=> ext.k6 # "nothing"
                         /\ \A id \in K6Checks \ {"build"} :
                              Deserves(id, g) <=> JsOnly(id, ext.k6)
  BY DEF Deserves, K6Checks, GoModChecks
<1>10. QED
  BY <1>1, <1>2, <1>3, <1>4, <1>5, <1>7, <1>8, <1>9

LEMMA DeservedPair ==
    ASSUME NEW id \in Checks, NEW g \in seen, NEW p \in BOOLEAN, Deserves(id, g) <=> p
    PROVE  <<id, p>> \in Deserved
<1>1. Deserves(id, g) = p
  BY DEF Deserves
<1>2. QED
  BY <1>1 DEF Deserved

LEMMA GivenIsASeq ==
    ASSUME Types
    PROVE  Given \in Seq([id : Checks, passed : BOOLEAN]) /\ Len(Given) = Len(results)
<1>1. /\ results \in Seq(VerdictRec) /\ Len(results) \in Nat
      /\ DOMAIN results = 1..Len(results)
  BY LenProperties DEF Types
<1>2. \A i \in 1..Len(results) : [id |-> results[i].id, passed |-> results[i].passed]
                                   \in [id : Checks, passed : BOOLEAN]
  <2>1. \A i \in 1..Len(results) : results[i] \in VerdictRec
    BY <1>1
  <2>2. QED
    BY <2>1 DEF VerdictRec
<1>3. Given \in [1..Len(results) -> [id : Checks, passed : BOOLEAN]]
  BY <1>1, <1>2 DEF Given
<1>4. Given \in Seq([id : Checks, passed : BOOLEAN])
  <2> DEFINE R == [id : Checks, passed : BOOLEAN]
  <2> HIDE DEF R
  <2>1. Given \in [1..Len(results) -> R]
    BY <1>3 DEF R
  <2>2. Given \in UNION {[1..n -> R] : n \in Nat}
    BY ONLY <1>1, <2>1
  <2>3. Given \in Seq(R)
    BY ONLY <2>2, SeqDef
  <2>4. QED
    BY ONLY <2>3 DEF R
<1>5. Len(Given) = Len(results)
  BY <1>1, <1>3, <1>4, LenProperties
<1>6. QED
  BY <1>4, <1>5

\* The verdict of a step is one LintReport allows.
LEMMA JudgeStep ==
    ASSUME IInv, NEW id \in Checks, InCheck({id}), NEW p \in BOOLEAN,
           NEW from \in Nat, NEW exe \in Nat, Verdict(p, from, exe),
           (\E g \in seen : Deserves(id, g) <=> p) \/ (~p /\ Fault),
           UNCHANGED faults \/ Fault,
           UNCHANGED <<pc, input, disk, exit>>
    PROVE  Report!Judge
<1>1. c = id /\ pc = "checks" /\ c \in Checks /\ Len(results) < Len(checkers)
  BY DEF InCheck
<1>2. /\ results \in Seq(VerdictRec) /\ results' \in Seq(VerdictRec)
      /\ Len(results) \in Nat
      /\ DOMAIN results = 1..Len(results)
      /\ DOMAIN results' = 1..(Len(results) + 1)
      /\ \A i \in DOMAIN results : results'[i] = results[i]
      /\ results'[Len(results) + 1] = [id |-> c, passed |-> p, rev |-> from, exe |-> exe]
  <2>1. Types
    BY DEF IInv
  <2>2. QED
    BY <1>1, <2>1, VerdictAppends, LenProperties DEF Types
<1>3. Given \in Seq([id : Checks, passed : BOOLEAN]) /\ Len(Given) = Len(results)
  BY GivenIsASeq DEF IInv
<1>4. Given' = Append(Given, [id |-> c, passed |-> p])
  <2> DEFINE new == [id |-> c, passed |-> p]
             A == Append(Given, new)
  <2>1. /\ A \in Seq([id : Checks, passed : BOOLEAN]) /\ Len(A) = Len(results) + 1
        /\ \A i \in 1..Len(results) : A[i] = Given[i]
        /\ A[Len(results) + 1] = new
    <3>1. new \in [id : Checks, passed : BOOLEAN]
      BY <1>1
    <3>2. QED
      BY <1>3, <3>1, AppendProperties
  <2>2. Given' = [i \in 1..(Len(results) + 1) |->
                    [id |-> results'[i].id, passed |-> results'[i].passed]]
    BY <1>2 DEF Given
  <2>3. A = [i \in 1..(Len(results) + 1) |-> A[i]]
    BY <2>1, LenProperties
  <2>4. \A i \in 1..(Len(results) + 1) :
          [id |-> results'[i].id, passed |-> results'[i].passed] = A[i]
    <3> SUFFICES ASSUME NEW i \in 1..(Len(results) + 1)
                 PROVE  [id |-> results'[i].id, passed |-> results'[i].passed] = A[i]
      OBVIOUS
    <3> HIDE DEF A
    <3>1. CASE i \in 1..Len(results)
      BY <1>2, <2>1, <3>1 DEF Given
    <3>2. CASE i = Len(results) + 1
      BY <1>2, <2>1, <3>2
    <3>3. QED
      BY <1>2, <3>1, <3>2
  <2> HIDE DEF A
  <2>5. Given' = A
    BY <2>2, <2>3, <2>4
  <2>6. QED
    BY <2>5 DEF A
<1>5. (faults > 0 => faults' > 0) /\ (Fault => faults' > 0)
  <2>1. faults \in Nat /\ (faults' = faults \/ faults' = faults + 1)
    BY DEF Fault, IInv, Types
  <2>2. QED
    BY <2>1 DEF Fault
<1>6. <<c, p>> \in Deserved \/ (~p /\ faults' > 0)
  <2>1. ASSUME NEW g \in seen, Deserves(id, g) <=> p
        PROVE  <<c, p>> \in Deserved
    BY <1>1, <2>1, DeservedPair
  <2>2. QED
    BY <1>5, <2>1
<1>7. Deserved' = Deserved
  <2>1. \A k, g : Deserves(k, g)' = Deserves(k, g)
    BY DEF Deserves, Builds, JsOnly, input
  <2>2. QED
    BY <2>1 DEF Deserved, disk
<1>8. Status = NoExit /\ Status' = Status /\ NoExit = 3
  BY <1>1 DEF Status, NoExit
<1>9. UNCHANGED checkers
  BY DEF input
<1>10. /\ Trouble' \in {Trouble, TRUE}
       /\ <<c, p>> \in Deserved \/ (~p /\ Trouble')
  BY <1>5, <1>6 DEF Trouble
<1>11. \E q \in BOOLEAN :
          LET k == checkers[Len(Given) + 1] IN
          /\ <<k, q>> \in Deserved \/ (~q /\ Trouble')
          /\ Given' = Append(Given, [id |-> k, passed |-> q])
  <2>1. c = checkers[Len(Given) + 1]
    BY <1>3 DEF c
  <2>2. QED
    BY <1>4, <1>10, <2>1
<1>12. Len(Given) < Len(checkers)
  BY <1>1, <1>3
<1>13. QED
  BY <1>7, <1>8, <1>9, <1>10, <1>11, <1>12
     DEF Report!Judge, Report!MaybeTrouble, Report!Running

\* A step after which the report looks the same, or that only met trouble.
LEMMA StutterStep ==
    ASSUME IInv, pc = "checks" \/ pc = "start" \/ pc = "output",
           pc' # "exit", UNCHANGED <<input, disk, results>>, UNCHANGED faults \/ Fault
    PROVE  [Report!Next]_Report!vars
<1>1. Given' = Given
  BY DEF Given
<1>2. Deserved' = Deserved
  <2>1. \A k, g : Deserves(k, g)' = Deserves(k, g)
    BY DEF Deserves, Builds, JsOnly, input
  <2>2. QED
    BY <2>1 DEF Deserved, disk
<1>3. Status = 3 /\ Status' = 3
  BY DEF Status, NoExit
<1>4. Trouble' \in {Trouble, TRUE}
  <2>1. faults \in Nat /\ (faults' = faults \/ faults' = faults + 1)
    BY DEF Fault, IInv, Types
  <2>2. faults' = faults + 1 => faults' > 0
    BY <2>1
  <2>3. QED
    BY <2>1, <2>2 DEF Trouble
<1>5. UNCHANGED checkers
  BY DEF input
<1>6. Report!Stumble
  BY <1>1, <1>2, <1>3, <1>4, <1>5 DEF Report!Stumble, Report!MaybeTrouble, Report!Running
<1>7. QED
  BY <1>6 DEF Report!Next

\* The end of the run: lintRunE or the panic exits.
LEMMA ExitStep ==
    ASSUME IInv, pc # "exit", pc' = "exit", UNCHANGED <<input, disk, results>>,
           UNCHANGED faults \/ Fault,
           \/ /\ Len(results) = Len(checkers) /\ exit' = IF AllPassed THEN 0 ELSE 2
           \/ exit' = 1 /\ faults' > 0
           \/ exit' = 2 /\ "headless" \in seen /\ UNCHANGED faults
    PROVE  [Report!Next]_Report!vars
<1>1. Given' = Given
  BY DEF Given
<1>2. Deserved' = Deserved
  <2>1. \A k, g : Deserves(k, g)' = Deserves(k, g)
    BY DEF Deserves, Builds, JsOnly, input
  <2>2. QED
    BY <2>1 DEF Deserved, disk
<1>3. Status = 3 /\ Status' = exit'
  BY DEF Status, NoExit
<1>4. Trouble' \in {Trouble, TRUE} /\ (faults' > 0 => Trouble') /\ (UNCHANGED faults => Trouble' = Trouble)
  <2>1. faults \in Nat /\ (faults' = faults \/ faults' = faults + 1)
    BY DEF Fault, IInv, Types
  <2>2. faults' = faults + 1 => faults' > 0
    BY <2>1
  <2>3. QED
    BY <2>1, <2>2 DEF Trouble
<1>5. UNCHANGED checkers
  BY DEF input
<1>6. CASE Len(results) = Len(checkers) /\ exit' = IF AllPassed THEN 0 ELSE 2
  <2>1. /\ DOMAIN Given = DOMAIN results
        /\ \A i \in DOMAIN Given : Given[i].passed = results[i].passed
    BY DEF Given
  <2>2. Report!AllPassed <=> AllPassed
    BY <2>1 DEF Report!AllPassed, AllPassed
  <2>3. Len(Given) = Len(checkers)
    BY <1>6, GivenIsASeq DEF IInv
  <2>4. Report!Finish
    BY <1>1, <1>2, <1>3, <1>4, <1>5, <1>6, <2>2, <2>3
       DEF Report!Finish, Report!MaybeTrouble, Report!Running
  <2>5. QED
    BY <2>4 DEF Report!Next
<1>7. CASE exit' = 1 /\ faults' > 0
  <2>1. Report!Finish
    BY <1>1, <1>2, <1>3, <1>4, <1>5, <1>7
       DEF Report!Finish, Report!MaybeTrouble, Report!Running
  <2>2. QED
    BY <2>1 DEF Report!Next
<1>8. CASE exit' = 2 /\ "headless" \in seen /\ UNCHANGED faults
  <2>1. <<"module", FALSE>> \in Deserved
    <3>1. ~Deserves("module", "headless")
      BY ReasonsToJudge
    <3>2. "module" \in Checks
      BY TheChecks
    <3>3. QED
      BY <1>8, <3>1, <3>2, DeservedPair
  <2>2. Report!Panic
    BY <1>1, <1>2, <1>3, <1>4, <1>5, <1>8, <2>1 DEF Report!Panic, Report!Running
  <2>3. QED
    BY <2>2 DEF Report!Next
<1>9. QED
  BY <1>6, <1>7, <1>8

\* The steps of a getter and of a checker that judge.
LEMMA ReadModfileJudges == ASSUME IInv, ReadModfile PROVE [Report!Next]_Report!vars
<1>1. /\ pc = "checks" /\ c \in GoModChecks \cup K6Checks /\ c \in Checks /\ InCheck({c})
      /\ UNCHANGED <<pc, input, disk, exit>>
  BY K6ChecksAreChecks DEF ReadModfile, InCheck
<1>2. CASE UNCHANGED <<results, faults>>
  BY <1>1, <1>2, StutterStep
<1>3. CASE ((gomod = "unreadable" /\ UNCHANGED faults) \/ Fault) /\ Verdict(FALSE, 0, 0)
  <2>1. gomod = "unreadable" => ~Deserves(c, gomod)
    BY <1>1, ReasonsToJudge
  <2>2. gomod \in seen
    BY DEF IInv, Types
  <2>3. Report!Judge
    BY <1>1, <1>3, <2>1, <2>2, JudgeStep
  <2>4. QED
    BY <2>3 DEF Report!Next
<1>4. QED
  BY <1>2, <1>3 DEF ReadModfile

LEMMA BuildExeJudges == ASSUME IInv, BuildExe PROVE [Report!Next]_Report!vars
<1>1. /\ pc = "checks" /\ c \in K6Checks /\ c \in Checks /\ InCheck({c})
      /\ UNCHANGED <<pc, input, disk, exit>>
  BY K6ChecksAreChecks DEF BuildExe, InCheck
<1>2. CASE UNCHANGED <<results, faults>>
  BY <1>1, <1>2, StutterStep
<1>3. CASE ((~Builds(gomod) /\ UNCHANGED faults) \/ Fault) /\ Verdict(FALSE, 0, 0)
  <2>1. ~Builds(gomod) => ~Deserves(c, gomod)
    BY <1>1, ReasonsToJudge
  <2>2. gomod \in seen
    BY DEF IInv, Types
  <2>3. Report!Judge
    BY <1>1, <1>3, <2>1, <2>2, JudgeStep
  <2>4. QED
    BY <2>3 DEF Report!Next
<1>4. QED
  BY <1>2, <1>3 DEF BuildExe

LEMMA RunVersionJudges == ASSUME IInv, RunVersion PROVE [Report!Next]_Report!vars
<1>1. /\ pc = "checks" /\ c \in Checks /\ InCheck({c}) /\ UNCHANGED <<pc, input, disk, exit>>
  BY K6ChecksAreChecks DEF RunVersion, InCheck
<1>2. CASE UNCHANGED <<results, faults>>
  BY <1>1, <1>2, StutterStep
<1>3. CASE Fault /\ Verdict(FALSE, 0, 0)
  <2>1. Report!Judge
    BY <1>1, <1>3, JudgeStep
  <2>2. QED
    BY <2>1 DEF Report!Next
<1>4. QED
  BY <1>2, <1>3 DEF RunVersion

LEMMA LookJudges ==
    ASSUME IInv, NEW id \in Checks \ (GoModChecks \cup K6Checks), Look(id)
    PROVE  [Report!Next]_Report!vars
<1>1. InCheck({id}) /\ UNCHANGED <<pc, input, disk, exit>> /\ gomod \in seen
  BY DEF Look, IInv, Types
<1>2. CASE Verdict(id \in ext.fine, 0, 0) /\ UNCHANGED faults
  <2>1. (id \in ext.fine) \in BOOLEAN /\ (Deserves(id, gomod) <=> id \in ext.fine)
    BY ReasonsToJudge
  <2> DEFINE p == id \in ext.fine
  <2>2. p \in BOOLEAN /\ (Deserves(id, gomod) <=> p) /\ Verdict(p, 0, 0)
    BY <1>2, <2>1
  <2> HIDE DEF p
  <2>3. Report!Judge
    BY <1>1, <1>2, <2>2, JudgeStep
  <2>4. QED
    BY <2>3 DEF Report!Next
<1>3. CASE Fault /\ Verdict(FALSE, 0, 0)
  <2>1. Report!Judge
    BY <1>1, <1>3, JudgeStep
  <2>2. QED
    BY <2>1 DEF Report!Next
<1>4. QED
  BY <1>2, <1>3, Zenon DEF Look

\* A checker that has got what it needs concludes from what was kept, which
\* was true at some moment.
LEMMA EndJudges ==
    ASSUME IInv, NEW id \in Checks, NEW p \in BOOLEAN, End(id, p),
           UNCHANGED faults \/ Fault,
           (\E g \in seen : Deserves(id, g) <=> p) \/ (~p /\ Fault)
    PROVE  [Report!Next]_Report!vars
<1>1. /\ InCheck({id}) /\ UNCHANGED <<pc, input, disk, exit>> /\ Verdict(p, s.rev, s.exe)
      /\ s.rev \in Nat /\ s.exe \in Nat
  BY DEF End, IInv, Types
<1>2. Report!Judge
  BY <1>1, JudgeStep
<1>3. QED
  BY <1>2 DEF Report!Next

LEMMA ConcludeJudges ==
    ASSUME IInv, checkerModule \/ checkerReplace \/ checkerBuild \/ checkerSmoke
                 \/ checkerExamples \/ checkerTypes
    PROVE  [Report!Next]_Report!vars
<1>1. ASSUME NEW id \in Checks, NEW p \in BOOLEAN, Conclude(id, p),
             \E g \in seen : Deserves(id, g) <=> p
      PROVE  [Report!Next]_Report!vars
  BY <1>1, EndJudges DEF Conclude
<1>2. ASSUME NEW id \in Checks, Unread(id)
      PROVE  [Report!Next]_Report!vars
  BY <1>2, EndJudges DEF Unread
<1>3. {"module", "replace", "build", "smoke", "examples", "types"} \subseteq Checks
  BY TheChecks
<1>4. ASSUME NEW id \in Checks, NEW p, End(id, p)
      PROVE  /\ c = id /\ Missing = "nothing" /\ s.modfile # "none"
             /\ s.modfile \in seen
             /\ id \in K6Checks \cup {"module"} => s.modfile # "headless"
             /\ id \in K6Checks => s.version = ext.k6 /\ \E g \in seen : Builds(g)
  <2>1. c = id /\ Missing = "nothing" /\ ~Panics /\ InCheck({id})
    BY <1>4 DEF End, InCheck
  <2>2. s.modfile # "none"
    BY <2>1 DEF Missing
  <2>3. id \in K6Checks \cup {"module"} => s.modfile # "headless"
    BY <2>1 DEF Panics, InCheck
  <2>4. id \in K6Checks => s.version # "none"
    BY <2>1, <2>2 DEF Missing, K6Checks, GoModChecks
  <2>5. QED
    BY <2>1, <2>2, <2>3, <2>4 DEF IInv, Kept
<1>5. CASE checkerModule
  <2>1. End("module", TRUE) /\ Conclude("module", TRUE)
    BY <1>5 DEF checkerModule, Conclude
  <2>2. s.modfile \in seen /\ Deserves("module", s.modfile)
    BY <1>3, <1>4, <2>1, ReasonsToJudge
  <2>3. QED
    BY <1>1, <1>3, <2>1, <2>2
<1>6. CASE checkerReplace
  <2> DEFINE p == s.modfile # "replace"
  <2>1. End("replace", p) /\ Conclude("replace", p) /\ p \in BOOLEAN
    BY <1>6 DEF checkerReplace, Conclude
  <2>2. s.modfile \in seen /\ (Deserves("replace", s.modfile) <=> p)
    BY <1>3, <1>4, <2>1, ReasonsToJudge
  <2> HIDE DEF p
  <2>3. QED
    BY <1>1, <1>3, <2>1, <2>2
<1>7. CASE checkerBuild
  <2> DEFINE p == s.version # "nothing"
  <2>1. End("build", p) /\ Conclude("build", p) /\ p \in BOOLEAN
    BY <1>7 DEF checkerBuild, Conclude
  <2>2. \E g \in seen : Deserves("build", g) <=> p
    BY <1>3, <1>4, <2>1, ReasonsToJudge DEF K6Checks
  <2> HIDE DEF p
  <2>3. QED
    BY <1>1, <1>3, <2>1, <2>2
<1>8. ASSUME NEW id \in K6Checks \ {"build"}, Conclude(id, JsOnly(id, s.version))
      PROVE  [Report!Next]_Report!vars
  <2> DEFINE p == JsOnly(id, s.version)
  <2>1. End(id, p) /\ Conclude(id, p)
    BY <1>8 DEF Conclude
  <2>2. p \in BOOLEAN /\ id \in Checks
    BY K6ChecksAreChecks DEF JsOnly
  <2>3. \E g \in seen : Deserves(id, g) <=> p
    BY <1>4, <2>1, <2>2, ReasonsToJudge
  <2> HIDE DEF p
  <2>4. QED
    BY <1>1, <2>1, <2>2, <2>3
<1>9. CASE checkerSmoke \/ checkerExamples \/ checkerTypes
  BY <1>2, <1>3, <1>8, <1>9 DEF checkerSmoke, checkerExamples, checkerTypes, K6Checks
<1>10. QED
  BY <1>5, <1>6, <1>7, <1>9

LEMMA InitReports == Init => Report!Init
<1> SUFFICES ASSUME Init
             PROVE  Report!Init
  OBVIOUS
<1>1. Given = <<>>
  <2>1. Types /\ Len(results) = 0
    BY InitIInv DEF IInv, Init
  <2>2. Given \in Seq([id : Checks, passed : BOOLEAN]) /\ Len(Given) = 0
    BY <2>1, GivenIsASeq
  <2>3. QED
    BY <2>2, EmptySeq
<1>2. Deserved \subseteq Checks \X BOOLEAN
  <2> SUFFICES ASSUME NEW k \in Checks, NEW g \in seen
               PROVE  <<k, Deserves(k, g)>> \in Checks \X BOOLEAN
    BY DEF Deserved
  <2>1. Deserves(k, g) \in BOOLEAN
    BY Zenon DEF Deserves
  <2> DEFINE p == Deserves(k, g)
  <2>2. p \in BOOLEAN
    BY <2>1
  <2> HIDE DEF p
  <2>3. <<k, p>> \in Checks \X BOOLEAN
    BY <2>2
  <2>4. QED
    BY <2>3 DEF p
<1>3. Trouble = FALSE /\ Status = 3
  BY DEF Init, Trouble, Status, NoExit
<1>4. QED
  BY <1>1, <1>2, <1>3 DEF Report!Init, Report!Running

LEMMA EditReports == ASSUME IInv, Edit PROVE [Report!Next]_Report!vars
<1>1. UNCHANGED <<checkers, Given, Trouble, Status>> /\ Status = 3
  BY DEF Edit, input, Given, Trouble, Status, NoExit
<1>2. Deserved \subseteq Deserved'
  <2>1. \A k, g : Deserves(k, g)' = Deserves(k, g)
    BY DEF Deserves, Builds, JsOnly, Edit, input
  <2>2. QED
    BY <2>1 DEF Deserved, Edit
<1>3. Report!Edit
  BY <1>1, <1>2 DEF Report!Edit, Report!Running
<1>4. QED
  BY <1>3 DEF Report!Next

LEMMA StepReports == IInv /\ Judged /\ [Next]_vars => [Report!Next]_Report!vars
<1> SUFFICES ASSUME IInv, Judged, [Next]_vars
             PROVE  [Report!Next]_Report!vars
  OBVIOUS
<1>1. CASE Start
  <2>1. CASE pc' = "checks" /\ UNCHANGED faults
    BY <1>1, <2>1, StutterStep DEF Start
  <2>2. CASE Fault /\ pc' = "exit" /\ exit' = 1
    <3>1. faults' > 0
      BY <2>2 DEF Fault, IInv, Types
    <3>2. QED
      BY <1>1, <2>2, <3>1, ExitStep DEF Start
  <2>3. QED
    BY <1>1, <2>1, <2>2 DEF Start
<1>2. CASE Checker
  <2>1. {"security", "vulnerability", "readme", "license", "git", "versions", "codeowners"}
          \subseteq Checks \ (GoModChecks \cup K6Checks)
    BY TheChecks DEF GoModChecks, K6Checks
  <2>2. QED
    BY <1>2, <2>1, LookJudges, ConcludeJudges
       DEF Checker, checkerSecurity, checkerVulnerability, checkerReadme, checkerLicense,
           checkerGit, checkerVersions, checkerCodeowners
<1>3. CASE ReadModfile \/ BuildExe \/ RunVersion
  BY <1>3, ReadModfileJudges, BuildExeJudges, RunVersionJudges
<1>4. CASE Panic
  <2>1. /\ pc = "checks" /\ pc' = "exit" /\ exit' = 2 /\ s.modfile = "headless"
        /\ UNCHANGED <<input, disk, results, faults>>
    BY <1>4 DEF Panic, Panics, InCheck
  <2>2. "headless" \in seen
    BY <2>1 DEF IInv, Kept
  <2>3. QED
    BY <2>1, <2>2, ExitStep
<1>5. CASE ChecksDone
  BY <1>5, StutterStep DEF ChecksDone
<1>6. CASE Output
  BY <1>6, StutterStep DEF Output
<1>7. CASE CloseOutput
  <2>1. /\ pc = "close" /\ pc' = "exit" /\ UNCHANGED <<input, disk, results>>
        /\ UNCHANGED faults \/ Fault
        /\ Len(results) = Len(checkers) /\ exit \in {0, 1, 2}
        /\ exit = 0 => AllPassed
        /\ exit = 2 => ~AllPassed
        /\ exit = 1 => faults > 0
    BY <1>7 DEF CloseOutput, Judged, IInv, Told
  <2>2. faults \in Nat /\ (Fault => faults' > 0)
    BY DEF Fault, IInv, Types
  <2>3. CASE UNCHANGED <<faults, exit>>
    BY <2>1, <2>3, ExitStep
  <2>4. CASE Fault /\ exit' = IF exit = 0 THEN 1 ELSE exit
    BY <2>1, <2>2, <2>4, ExitStep
  <2>5. QED
    BY <1>7, <2>3, <2>4 DEF CloseOutput
<1>8. CASE Edit
  BY <1>8, EditReports
<1>9. CASE UNCHANGED vars
  <2>1. \A k, g : Deserves(k, g)' = Deserves(k, g)
    BY <1>9 DEF Deserves, Builds, JsOnly, vars, input
  <2>2. UNCHANGED <<checkers, Given, Deserved, Trouble, Status>>
    BY <1>9, <2>1 DEF vars, input, disk, Given, Deserved, Trouble, Status
  <2>3. QED
    BY <2>2 DEF Report!vars
<1>10. QED
  BY <1>1, <1>2, <1>3, <1>4, <1>5, <1>6, <1>7, <1>8, <1>9 DEF Next, Xk6

\* The caches, the failing tools and the edits do not show in the report: each
\* verdict is deserved or a call has failed, and the exit code says how they
\* went together.
THEOREM ImplementsLintReport == Spec => ReportSpec
BY InitReports, StepReports, Invariance, JudgedAlways, PTL DEF Spec, ReportSpec, Report!Spec

------------------------------------------------------------------------------
(* The loop ends.                                                            *)

Count(P) == IF P THEN 1 ELSE 0

\* What state has not obtained yet.
Unobtained == Count(s.modfile = "none") + Count(s.exe = 0) + Count(s.version = "none")

ChecksLeft == Len(checkers) - Len(results)

\* How many steps the linter may still take.
StepsLeft ==
    CASE pc = "start" -> ChecksLeft + Unobtained + 4
      [] pc = "checks" -> ChecksLeft + Unobtained + 3
      [] pc = "output" -> 2
      [] pc = "close" -> 1
      [] OTHER -> 0

\* What a getter has obtained is what all later checks are given.
StateIsKept ==
    /\ s.modfile # "none" => s'.modfile = s.modfile /\ s'.rev = s.rev
    /\ s.exe # 0 => s'.exe = s.exe
    /\ s.version # "none" => s'.version = s.version

Advances ==
    /\ Xk6 => StepsLeft' < StepsLeft
    /\ Edit => StepsLeft' = StepsLeft

\* A step of the loop ends a check or obtains something.
EndsOne == Len(results') = Len(results) + 1 /\ ChecksLeft >= 1 /\ UNCHANGED s
Obtains == UNCHANGED results /\ Unobtained' = Unobtained - 1 /\ StateIsKept

LEMMA LeftFacts ==
    ASSUME IInv, Limits
    PROVE  ChecksLeft \in 0..Len(checkers) /\ Unobtained \in 0..3 /\ Len(checkers) \in Nat
<1>1. Len(checkers) \in Nat /\ Len(results) \in Nat /\ Len(results) <= Len(checkers)
  BY LenProperties DEF IInv, Types, Limits
<1>2. ChecksLeft \in 0..Len(checkers)
  BY <1>1 DEF ChecksLeft
<1>3. Unobtained \in 0..3
  BY DEF Unobtained, Count
<1>4. QED
  BY <1>1, <1>2, <1>3

LEMMA LoopSteps ==
    ASSUME IInv, Limits, Checker \/ ReadModfile \/ BuildExe \/ RunVersion
    PROVE  /\ pc = "checks" /\ UNCHANGED <<pc, checkers>>
           /\ EndsOne \/ Obtains
<1>1. /\ Len(checkers) \in Nat /\ Len(results) \in Nat /\ builds \in Nat
      /\ s \in [modfile : GoMods \cup {"none"}, rev : Nat, exe : Nat, version : K6Kinds \cup {"none"}]
  BY LenProperties DEF IInv, Types, Limits
<1>2. Len(results) < Len(checkers) => ChecksLeft >= 1
  BY <1>1 DEF ChecksLeft
<1>3. CASE Checker
  BY <1>2, <1>3, CheckerEnds DEF Ends, EndsOne, input
<1>4. CASE ReadModfile
  <2>1. pc = "checks" /\ UNCHANGED <<pc, checkers>> /\ ChecksLeft >= 1 /\ s.modfile = "none"
    BY <1>2, <1>4 DEF ReadModfile, InCheck, Missing, input
  <2>2. CASE s' = [s EXCEPT !.modfile = gomod, !.rev = rev] /\ UNCHANGED results
    <3>1. gomod # "none"
      BY Constants DEF IInv, Types, GoModKinds
    <3>2. s'.modfile # "none" /\ s'.exe = s.exe /\ s'.version = s.version
      BY <1>1, <2>2, <3>1
    <3>3. Unobtained' = Unobtained - 1
      BY <2>1, <3>2 DEF Unobtained, Count
    <3>4. QED
      BY <2>1, <2>2, <3>2, <3>3 DEF Obtains, StateIsKept
  <2>3. CASE Verdict(FALSE, 0, 0) /\ KeepState
    BY <2>1, <2>3, VerdictIsOne DEF EndsOne, KeepState
  <2>4. QED
    BY <1>4, <2>1, <2>2, <2>3 DEF ReadModfile
<1>5. CASE BuildExe
  <2>1. pc = "checks" /\ UNCHANGED <<pc, checkers>> /\ ChecksLeft >= 1 /\ s.exe = 0
    BY <1>2, <1>5 DEF BuildExe, InCheck, Missing, input
  <2>2. CASE s' = [s EXCEPT !.exe = builds + 1] /\ UNCHANGED results
    <3>1. s'.exe # 0 /\ s'.modfile = s.modfile /\ s'.rev = s.rev /\ s'.version = s.version
      BY <1>1, <2>2
    <3>2. Unobtained' = Unobtained - 1
      BY <2>1, <3>1 DEF Unobtained, Count
    <3>3. QED
      BY <2>1, <2>2, <3>1, <3>2 DEF Obtains, StateIsKept
  <2>3. CASE Verdict(FALSE, 0, 0) /\ KeepState
    BY <2>1, <2>3, VerdictIsOne DEF EndsOne, KeepState
  <2>4. QED
    BY <1>5, <2>1, <2>2, <2>3 DEF BuildExe
<1>6. CASE RunVersion
  <2>1. pc = "checks" /\ UNCHANGED <<pc, checkers>> /\ ChecksLeft >= 1 /\ s.version = "none"
    BY <1>2, <1>6 DEF RunVersion, InCheck, Missing, input
  <2>2. CASE s' = [s EXCEPT !.version = ext.k6] /\ UNCHANGED results
    <3>1. ext.k6 # "none"
      BY Constants DEF IInv, Types, K6Kinds
    <3>2. /\ s'.version # "none" /\ s'.modfile = s.modfile /\ s'.rev = s.rev /\ s'.exe = s.exe
      BY <1>1, <2>2, <3>1
    <3>3. Unobtained' = Unobtained - 1
      BY <2>1, <3>2 DEF Unobtained, Count
    <3>4. QED
      BY <2>1, <2>2, <3>2, <3>3 DEF Obtains, StateIsKept
  <2>3. CASE Verdict(FALSE, 0, 0) /\ KeepState
    BY <2>1, <2>3, VerdictIsOne DEF EndsOne, KeepState
  <2>4. QED
    BY <1>6, <2>1, <2>2, <2>3 DEF RunVersion
<1>7. QED
  BY <1>3, <1>4, <1>5, <1>6

LEMMA StepAdvances == IInv /\ Limits /\ [Next]_vars => [Advances /\ StateIsKept]_vars
<1> SUFFICES ASSUME IInv, Limits, Next
             PROVE  Advances /\ StateIsKept
  OBVIOUS
<1>1. /\ ChecksLeft \in Nat /\ Unobtained \in Nat /\ Len(checkers) \in Nat /\ Len(results) \in Nat
  BY LeftFacts, LenProperties DEF IInv, Types
<1>2. CASE Checker \/ ReadModfile \/ BuildExe \/ RunVersion
  <2>1. pc = "checks" /\ UNCHANGED <<pc, checkers>> /\ (EndsOne \/ Obtains)
    BY <1>2, LoopSteps
  <2>2. StepsLeft = ChecksLeft + Unobtained + 3 /\ StepsLeft' = ChecksLeft' + Unobtained' + 3
    BY <2>1 DEF StepsLeft
  <2>3. EndsOne => ChecksLeft' = ChecksLeft - 1 /\ Unobtained' = Unobtained /\ StateIsKept
    BY <1>1, <2>1 DEF EndsOne, ChecksLeft, Unobtained, Count, StateIsKept
  <2>4. Obtains => ChecksLeft' = ChecksLeft /\ Unobtained' = Unobtained - 1 /\ StateIsKept
    BY <2>1 DEF Obtains, ChecksLeft
  <2>5. StepsLeft' < StepsLeft
    BY <1>1, <2>1, <2>2, <2>3, <2>4
  <2>6. ~Edit
    <3>1. rev \in Nat /\ UNCHANGED rev
      <4>1. Checker => UNCHANGED rev
        BY CheckerEnds DEF Ends, disk
      <4>2. QED
        BY <1>2, <4>1 DEF ReadModfile, BuildExe, RunVersion, disk, IInv, Types
    <3>2. QED
      BY <3>1 DEF Edit
  <2>7. QED
    BY <2>1, <2>3, <2>4, <2>5, <2>6 DEF Advances
<1>3. CASE Start \/ Panic \/ ChecksDone \/ Output \/ CloseOutput
  <2>1. UNCHANGED <<checkers, results, s, rev>>
    BY <1>3 DEF Start, Panic, ChecksDone, Output, CloseOutput, input, disk
  <2>2. \/ pc = "start" /\ pc' \in {"checks", "exit"}
        \/ pc = "checks" /\ pc' \in {"output", "exit"}
        \/ pc = "output" /\ pc' = "close"
        \/ pc = "close" /\ pc' = "exit"
    BY <1>3 DEF Start, Panic, Panics, InCheck, ChecksDone, Output, CloseOutput
  <2>3. ChecksLeft' = ChecksLeft /\ Unobtained' = Unobtained /\ StateIsKept
    BY <2>1 DEF ChecksLeft, Unobtained, Count, StateIsKept
  <2>4. StepsLeft' < StepsLeft
    BY <1>1, <2>2, <2>3 DEF StepsLeft
  <2>5. ~Edit
    BY <2>1 DEF Edit, IInv, Types
  <2>6. QED
    BY <2>3, <2>4, <2>5 DEF Advances
<1>4. CASE Edit
  <2>1. UNCHANGED <<pc, checkers, results, s>>
    BY <1>4 DEF Edit, input
  <2>2. StepsLeft' = StepsLeft /\ StateIsKept
    BY <2>1 DEF StepsLeft, ChecksLeft, Unobtained, Count, StateIsKept
  <2>3. ~Xk6
    <3>1. ASSUME Xk6
          PROVE  UNCHANGED rev
      <4>1. Checker => UNCHANGED rev
        BY CheckerEnds DEF Ends, disk
      <4>2. QED
        BY <3>1, <4>1 DEF Xk6, Start, ReadModfile, BuildExe, RunVersion, Panic, ChecksDone, Output,
                         CloseOutput, disk
    <3>2. QED
      BY <1>4, <3>1 DEF Edit, IInv, Types
  <2>4. QED
    BY <2>2, <2>3 DEF Advances
<1>5. QED
  BY <1>2, <1>3, <1>4 DEF Next, Xk6

\* runChecks ends, however often getters fail and go.mod is edited: each of its
\* steps ends a check or obtains one of the three things that state keeps, and
\* what was obtained once is never obtained again nor taken back.
THEOREM ChecksAreBounded ==
    Spec => [](StepsLeft \in 0..(Len(checkers) + 7)) /\ [][Advances /\ StateIsKept]_vars
<1>1. ASSUME IInv, Limits
      PROVE  StepsLeft \in 0..(Len(checkers) + 7)
  <2>1. ChecksLeft \in 0..Len(checkers) /\ Unobtained \in 0..3 /\ Len(checkers) \in Nat
    BY <1>1, LeftFacts
  <2>2. StepsLeft \in {ChecksLeft + Unobtained + 4, ChecksLeft + Unobtained + 3, 2, 1, 0}
    BY DEF StepsLeft
  <2>3. QED
    BY <2>1, <2>2
<1>2. IInv /\ Limits => StepsLeft \in 0..(Len(checkers) + 7)
  BY <1>1
<1>3. QED
  BY <1>2, StepAdvances, Invariance, LimitsAlways, PTL DEF Spec

==============================================================================
