--------------------------- MODULE ScaffoldProofs ---------------------------
(***************************************************************************)
(* Proofs about xk6 new and xk6 adjust, for any releases of the sample and *)
(* any number of commands, failing calls and kills.                        *)
(***************************************************************************)
EXTENDS Scaffold, FiniteSetTheorems, WellFoundedInduction, TLAPS

LEMMA Constants ==
    /\ IsFiniteSet(Releases) /\ Releases \subseteq Nat \ {0}
    /\ MaxRuns \in Nat \ {0} /\ MaxFaults \in Nat
BY ReleasesAssumption, BoundsAssumption

------------------------------------------------------------------------------
(* The files.                                                                *)

LEMMA TheFiles ==
    /\ Paths = {".github", "CODEOWNERS", "LICENSE", "README.md", "go.mod", "notes", "register.go",
                "renovate.json"}
    /\ ToSet(Template) = Paths \ {"notes"}
    /\ ToSet(Excluded) = {".git", "CODEOWNERS", "renovate.json"}
    /\ Len(Walk) = 8 /\ Len(Template) = 7 /\ Len(Excluded) = 3
    /\ \A i \in 1..8 : Walk[i] \in Paths
    /\ \A i \in 1..7 : Template[i] \in Paths \ {"notes"}
    /\ \A p \in Paths : \E i \in 1..8 : Walk[i] = p
    /\ \A p \in Paths \ {"notes"} : \E i \in 1..7 : Template[i] = p
    /\ Excluded[1] = ".git" /\ Excluded[2] = "CODEOWNERS" /\ Excluded[3] = "renovate.json"
<1>1. /\ Len(Walk) = 8 /\ Len(Template) = 7 /\ Len(Excluded) = 3
      /\ DOMAIN Walk = 1..8 /\ DOMAIN Template = 1..7 /\ DOMAIN Excluded = 1..3
  BY DEF Walk, Template, Excluded
<1>2. /\ Walk[1] = ".github" /\ Walk[2] = "CODEOWNERS" /\ Walk[3] = "LICENSE"
      /\ Walk[4] = "README.md" /\ Walk[5] = "go.mod" /\ Walk[6] = "notes"
      /\ Walk[7] = "register.go" /\ Walk[8] = "renovate.json"
  BY DEF Walk
<1>3. /\ Template[1] = ".github" /\ Template[2] = "CODEOWNERS" /\ Template[3] = "LICENSE"
      /\ Template[4] = "README.md" /\ Template[5] = "go.mod" /\ Template[6] = "register.go"
      /\ Template[7] = "renovate.json"
  BY DEF Template
<1>4. Excluded[1] = ".git" /\ Excluded[2] = "CODEOWNERS" /\ Excluded[3] = "renovate.json"
  BY DEF Excluded
<1>5. /\ 1..8 = {1, 2, 3, 4, 5, 6, 7, 8} /\ 1..7 = {1, 2, 3, 4, 5, 6, 7} /\ 1..3 = {1, 2, 3}
  OBVIOUS
<1>6. Paths = {".github", "CODEOWNERS", "LICENSE", "README.md", "go.mod", "notes", "register.go",
               "renovate.json"}
  BY <1>1, <1>2, <1>5 DEF Paths, ToSet
<1>7. ToSet(Template) = Paths \ {"notes"}
  BY <1>1, <1>3, <1>5, <1>6 DEF ToSet
<1>8. ToSet(Excluded) = {".git", "CODEOWNERS", "renovate.json"}
  BY <1>1, <1>4, <1>5 DEF ToSet
<1>9. \A i \in 1..8 : Walk[i] \in Paths
  BY <1>2, <1>5, <1>6
<1>10. \A i \in 1..7 : Template[i] \in Paths \ {"notes"}
  BY <1>3, <1>5, <1>6
<1>11. \A p \in Paths : \E i \in 1..8 : Walk[i] = p
  BY <1>1, <1>2, <1>5, <1>6
<1>12. \A p \in Paths \ {"notes"} : \E i \in 1..7 : Template[i] = p
  BY <1>1, <1>3, <1>5, <1>6
<1>13. QED
  BY <1>1, <1>4, <1>6, <1>7, <1>8, <1>9, <1>10, <1>11, <1>12

\* The files are visited one after the other.
Placed(n) == {Template[i] : i \in 1..(n - 1)}
Visited(n) == {Walk[i] : i \in 1..(n - 1)}

LEMMA OneByOne ==
    /\ Placed(1) = {} /\ Placed(8) = ToSet(Template)
    /\ \A n \in 1..7 : Placed(n + 1) = Placed(n) \cup {Template[n]}
    /\ Visited(1) = {} /\ Visited(9) = Paths
    /\ \A n \in 1..8 : /\ Visited(n + 1) = Visited(n) \cup {Walk[n]}
                       /\ Walk[n] \notin Visited(n)
<1>1. 1..(1 - 1) = {} /\ 1..(8 - 1) = 1..7 /\ 1..(9 - 1) = 1..8
  OBVIOUS
<1>2. \A n \in Nat \ {0} : 1..((n + 1) - 1) = (1..(n - 1)) \cup {n}
  OBVIOUS
<1>3. ASSUME NEW n \in 1..7
      PROVE  Placed(n + 1) = Placed(n) \cup {Template[n]}
  BY <1>2 DEF Placed
<1>4. ASSUME NEW n \in 1..8
      PROVE  Visited(n + 1) = Visited(n) \cup {Walk[n]}
  BY <1>2 DEF Visited
<1>5. \A i, j \in 1..8 : i < j => Walk[i] # Walk[j]
  <2>1. 1..8 = {1, 2, 3, 4, 5, 6, 7, 8}
    OBVIOUS
  <2>2. /\ Walk[1] = ".github" /\ Walk[2] = "CODEOWNERS" /\ Walk[3] = "LICENSE"
        /\ Walk[4] = "README.md" /\ Walk[5] = "go.mod" /\ Walk[6] = "notes"
        /\ Walk[7] = "register.go" /\ Walk[8] = "renovate.json"
    BY DEF Walk
  <2>3. QED
    BY <2>1, <2>2
<1>6. ASSUME NEW n \in 1..8
      PROVE  Walk[n] \notin Visited(n)
  <2>1. \A i \in 1..(n - 1) : i \in 1..8 /\ i < n
    OBVIOUS
  <2>2. QED
    BY <1>5, <2>1 DEF Visited
<1>7. Placed(1) = {} /\ Visited(1) = {}
  BY <1>1 DEF Placed, Visited
<1>8. Placed(8) = ToSet(Template) /\ Visited(9) = Paths
  <2>1. DOMAIN Template = 1..7 /\ DOMAIN Walk = 1..8
    BY DEF Template, Walk
  <2>2. QED
    BY <1>1, <2>1 DEF Placed, Visited, ToSet, Paths
<1>9. QED
  BY <1>3, <1>4, <1>6, <1>7, <1>8

\* The newest of some releases.
LEMMA Newest ==
    ASSUME NEW S \in SUBSET Nat, IsFiniteSet(S), S # {}
    PROVE  Max(S) \in S /\ \A y \in S : y <= Max(S)
<1> DEFINE Newer(x) == {y \in S : y > x}
           T == {Cardinality(Newer(x)) : x \in S}
<1>1. ASSUME NEW x \in S
      PROVE  IsFiniteSet(Newer(x)) /\ Cardinality(Newer(x)) \in Nat
  <2>1. Newer(x) \in SUBSET S
    OBVIOUS
  <2>2. QED
    BY <2>1, FS_Subset, FS_CardinalityType
<1>2. T \subseteq Nat /\ T # {}
  BY <1>1
<1>3. PICK c \in T : \A d \in T : ~(<<d, c>> \in OpToRel(<, Nat))
  BY <1>2, NatLessThanWellFounded, WFMin
<1>4. \A d \in T : ~(d < c)
  BY <1>2, <1>3 DEF OpToRel
<1>5. PICK x \in S : c = Cardinality(Newer(x))
  OBVIOUS
<1>6. ASSUME NEW y \in S
      PROVE  y <= x
  <2>1. SUFFICES ASSUME y > x
                 PROVE  FALSE
    <3>1. x \in Nat /\ y \in Nat
      OBVIOUS
    <3>2. QED
      BY ONLY <3>1, <2>1
  <2>2. x \in Nat /\ y \in Nat /\ \A z \in S : z \in Nat
    OBVIOUS
  <2>3. \A z \in S : z > y => z > x
    BY <2>1, <2>2
  <2>4. Newer(y) \in SUBSET Newer(x) /\ y \in Newer(x) /\ y \notin Newer(y)
    <3>1. ~(y > y)
      BY <2>2
    <3>2. QED
      BY <2>1, <2>3, <3>1
  <2>5. /\ Cardinality(Newer(y)) <= Cardinality(Newer(x))
        /\ Cardinality(Newer(x)) = Cardinality(Newer(y)) => Newer(x) = Newer(y)
    BY <1>1, <2>4, FS_Subset
  <2>6. Cardinality(Newer(y)) < Cardinality(Newer(x))
    <3>1. Newer(x) # Newer(y)
      BY <2>4
    <3>2. Cardinality(Newer(x)) \in Nat /\ Cardinality(Newer(y)) \in Nat
      BY <1>1
    <3> HIDE DEF Newer
    <3>3. QED
      BY <2>5, <3>1, <3>2
  <2>7. QED
    BY <1>4, <1>5, <2>6
<1>7. \E m \in S : \A y \in S : m >= y
  <2>1. \A y \in S : x >= y
    BY <1>6
  <2>2. QED
    BY <2>1
<1>8. Max(S) \in S /\ \A y \in S : Max(S) >= y
  BY <1>7 DEF Max
<1>9. QED
  BY <1>8

------------------------------------------------------------------------------
(* The invariant.                                                            *)

NewLabels == {"lookup", "clone", "fetch", "populate", "latest", "checkout", "cleanup"}
Cloned == {"fetch", "populate", "latest", "checkout", "cleanup"}

\* What the labels say of the rest.
Shape ==
    /\ pc # "idle" => exit = NoExit /\ runs > 0
    /\ pc \in NewLabels => cmd = "new"
    /\ pc = "probe" => cmd = "adjust"
    /\ pc \in {"lookup", "clone", "probe"} => files = base.files /\ git = base.git
    /\ pc \in Cloned \/ (pc = "customize" /\ cmd = "new") => base.git = "none"
    /\ pc \in {"populate", "checkout"} => todo <= 7
    /\ pc = "cleanup" => todo <= 3

\* No command changes a file twice.
Times ==
    \A p \in Paths :
        /\ files[p].times <= runs
        /\ pc = "idle" \/ (pc = "customize" /\ p \in Visited(todo)) \/ files[p].times < runs

CustomizedFile(r) == [TemplateFile(r) EXCEPT !.times = 1]

\* How far a new has come.
NewPhases ==
    /\ pc = "populate" => \A p \in Placed(todo) : files[p] = TemplateFile(0)
    /\ pc = "latest" => \A p \in ToSet(Template) : files[p] = TemplateFile(0)
    /\ pc = "checkout" =>
         \A p \in ToSet(Template) :
             files[p] = TemplateFile(IF p \in Placed(todo) THEN getLatest ELSE 0)
    /\ pc = "cleanup" =>
         /\ todo > 1 => git = "none"
         /\ \A p \in ToSet(Template) :
              files[p] = IF p = "CODEOWNERS" /\ todo > 2 THEN NoFile ELSE TemplateFile(getLatest)
    /\ pc = "customize" /\ cmd = "new" =>
         /\ git = "none"
         /\ \A p \in ToSet(Template) :
              files[p] = IF p \in ToSet(Excluded) THEN NoFile
                         ELSE IF p \in Visited(todo) \ Skipped THEN CustomizedFile(getLatest)
                         ELSE TemplateFile(getLatest)

After(p) == IF p \in Skipped THEN base.files[p] ELSE Replaced(p, base.files[p])

\* How far an adjust has come.
AdjustPhases ==
    pc = "customize" /\ cmd = "adjust" =>
        /\ git = base.git
        /\ base.files["go.mod"].kind = "template" /\ base.files["go.mod"].times = 0
        /\ \A p \in Paths : files[p] = IF p \in Visited(todo) THEN After(p) ELSE base.files[p]

IInv ==
    /\ TypeOK
    /\ Shape
    /\ Times
    /\ NewPhases
    /\ AdjustPhases
    /\ NewIsWhole
    /\ OthersAreKept
    /\ AdjustAllOrNothing

\* What a file may be.
LEMMA TheContents ==
    /\ NoFile \in Contents /\ UserFile \in Contents /\ Torn \in Contents
    /\ \A r \in Revs : TemplateFile(r) \in Contents /\ CustomizedFile(r) \in Contents
    /\ NoFile.times = 0 /\ UserFile.times = 0 /\ Torn.times = 0
    /\ NoFile.kind = "none" /\ UserFile.kind = "user" /\ Torn.kind = "torn"
    /\ \A r : TemplateFile(r).times = 0 /\ TemplateFile(r).kind = "template"
    /\ 0 \in Revs
<1>1. 0 \in Revs /\ 0 \in 0..MaxRuns /\ 1 \in 0..MaxRuns
  BY Constants DEF Revs
<1>2. QED
  BY <1>1 DEF Contents, NoFile, UserFile, Torn, TemplateFile, CustomizedFile

LEMMA TheLatest ==
    ASSUME TypeOK
    PROVE  /\ getLatest \in Revs /\ getLatest \in tags \cup {0}
           /\ \A x \in tags : x <= getLatest
           /\ tags = {} <=> getLatest = 0
<1>1. tags \in SUBSET Nat /\ IsFiniteSet(tags) /\ tags \subseteq Releases /\ 0 \notin tags
  BY Constants, FS_Subset DEF TypeOK
<1>2. CASE tags = {}
  BY <1>2 DEF getLatest, Revs
<1>3. CASE tags # {}
  <2>1. Max(tags) \in tags /\ \A y \in tags : y <= Max(tags)
    BY <1>1, <1>3, Newest
  <2>2. QED
    BY <1>1, <1>3, <2>1 DEF getLatest, Revs
<1>4. QED
  BY <1>2, <1>3

\* The replacer changes a file once at most, and none that is empty or absent.
LEMMA TheReplacer ==
    ASSUME TypeOK, NEW p \in Paths, NEW f \in Contents, f.times < MaxRuns
    PROVE  /\ Replaced(p, f) \in Contents
           /\ Replaced(p, f).times \in {f.times, f.times + 1}
           /\ to(p) = "same" => Replaced(p, f) = f
           /\ to(p) # "same" /\ f.kind = "template" /\ f.times = 0 =>
                Replaced(p, f) = [f EXCEPT !.times = 1]
           /\ f = NoFile => Replaced(p, f) = NoFile
<1>1. /\ f.times \in 0..MaxRuns /\ f.times \in Nat /\ f.times + 1 \in 0..MaxRuns
      /\ DOMAIN f = {"kind", "rev", "times"}
  BY Constants DEF Contents
<1>2. [f EXCEPT !.times = @ + 1] \in Contents /\ [f EXCEPT !.times = @ + 1].times = f.times + 1
  BY <1>1 DEF Contents
<1>3. /\ Replaced(p, f) \in {f, [f EXCEPT !.times = @ + 1]}
      /\ to(p) = "same" => Replaced(p, f) = f
      /\ to(p) # "same" /\ f.kind = "template" /\ f.times = 0 =>
           Replaced(p, f) = [f EXCEPT !.times = @ + 1]
  <2>1. ~(0 > 0)
    OBVIOUS
  <2>2. QED
    BY <2>1 DEF Replaced, Settled
<1>4. f.times = 0 => [f EXCEPT !.times = @ + 1] = [f EXCEPT !.times = 1]
  BY <1>1
<1>5. f = NoFile => Replaced(p, f) = NoFile
  BY TheContents DEF Replaced, Settled
<1>6. QED
  BY <1>1, <1>2, <1>3, <1>4, <1>5

LEMMA InitIInv == Init => IInv
<1> SUFFICES ASSUME Init
             PROVE  IInv
  OBVIOUS
<1> USE DEF Init
<1>1. files \in [Paths -> Contents] /\ \A p \in Paths : files[p].times = 0
  BY TheContents DEF Nothing
<1>2. TypeOK
  <2>1. todo \in 1..(Len(Walk) + 1) /\ runs \in 0..MaxRuns /\ faults \in 0..MaxFaults
    BY TheFiles, Constants
  <2>2. git \in {"none", "sample", "own"} /\ exit \in {0, 1, 2, Killed, NoExit}
    BY DEF NoExit
  <2>3. tags \subseteq Releases /\ clean \in BOOLEAN
    OBVIOUS
  <2>4. QED
    BY <1>1, <2>1, <2>2, <2>3 DEF TypeOK
<1>3. Shape /\ NewPhases /\ AdjustPhases
  BY DEF Shape, NewPhases, AdjustPhases, NewLabels, Cloned
<1>4. Times
  BY <1>1 DEF Times
<1>5. NewIsWhole /\ OthersAreKept /\ AdjustAllOrNothing
  <2>1. files = base.files
    OBVIOUS
  <2>2. exit # 0 /\ cmd = "new"
    BY DEF NoExit
  <2>3. QED
    BY <2>1, <2>2 DEF NewIsWhole, OthersAreKept, RepositoryIsKept, OwnModuleIsKept, AdjustAllOrNothing
<1>6. QED
  BY <1>2, <1>3, <1>4, <1>5 DEF IInv

------------------------------------------------------------------------------
(* The steps that begin or end a command.                                    *)

LEMMA FaultIsANumber ==
    ASSUME TypeOK, UNCHANGED faults \/ Fault
    PROVE  faults' \in 0..MaxFaults
BY Constants DEF TypeOK, Fault

LEMMA BeginStep ==
    ASSUME IInv, BeginNew \/ BeginAdjust
    PROVE  IInv'
<1> USE DEF IInv
<1>1. /\ pc = "idle" /\ runs < MaxRuns /\ runs' = runs + 1 /\ exit' = NoExit
      /\ base' = [files |-> files, git |-> git]
      /\ (cmd' = "new" /\ pc' = "lookup") \/ (cmd' = "adjust" /\ pc' = "probe")
      /\ words' \in {"same", "plain", "nested"}
      /\ UNCHANGED <<name, tags, files, git, clean, todo, faults>>
  BY DEF BeginNew, BeginAdjust, Begin
<1>2. runs \in Nat /\ runs' \in 0..MaxRuns /\ runs' > 0
  BY <1>1, Constants DEF TypeOK
<1>3. TypeOK'
  BY <1>1, <1>2 DEF TypeOK
<1>4. Shape'
  BY <1>1, <1>2 DEF Shape, NewLabels, Cloned
<1>5. Times'
  <2>1. \A p \in Paths : files[p].times \in Nat
    BY Constants DEF TypeOK, Contents
  <2>2. QED
    BY <1>1, <1>2, <2>1 DEF Times
<1>6. NewPhases' /\ AdjustPhases'
  BY <1>1 DEF NewPhases, AdjustPhases
<1>7. NewIsWhole' /\ OthersAreKept' /\ AdjustAllOrNothing'
  <2>1. files' = base'.files /\ exit' # 0
    BY <1>1 DEF NoExit
  <2>2. QED
    BY <2>1 DEF NewIsWhole, OthersAreKept, RepositoryIsKept, OwnModuleIsKept, AdjustAllOrNothing
<1>8. QED
  BY <1>3, <1>4, <1>5, <1>6, <1>7

LEMMA GitInitStep ==
    ASSUME IInv, GitInit
    PROVE  IInv'
<1> USE DEF IInv
<1>1. /\ pc = "idle" /\ git' = "own"
      /\ UNCHANGED <<pc, cmd, name, words, tags, files, clean, todo, runs, faults, base, exit>>
  BY DEF GitInit
<1>2. TypeOK'
  BY <1>1 DEF TypeOK
<1>3. Shape' /\ Times' /\ NewPhases' /\ AdjustPhases'
  BY <1>1 DEF Shape, Times, NewPhases, AdjustPhases, NewLabels, Cloned
<1>4. NewIsWhole' /\ OthersAreKept' /\ AdjustAllOrNothing'
  BY <1>1 DEF NewIsWhole, OthersAreKept, RepositoryIsKept, OwnModuleIsKept, AdjustAllOrNothing,
              Customized
<1>5. QED
  BY <1>2, <1>3, <1>4

\* What an adjust may change although the sample's repository is its origin.
Open(p) == words # "same" /\ p \in Wordy

\* A command that ends otherwise than well leaves files behind that it may change.
LEMMA EndStep ==
    ASSUME IInv, pc # "idle", pc' = "idle", exit' \in {1, 2, Killed},
           UNCHANGED <<cmd, name, words, tags, clean, todo, runs, base>>,
           UNCHANGED faults \/ Fault,
           files' \in [Paths -> Contents], git' \in {"none", "sample", "own"},
           \A p \in Paths : files'[p].times <= runs,
           \/ files' = files
           \/ cmd = "new" /\ base.git = "none"
           \/ /\ cmd = "adjust"
              /\ base.files["go.mod"].kind = "template" /\ base.files["go.mod"].times = 0
              /\ base.git = "sample" => \A p \in Paths : files'[p] = files[p] \/ Open(p)
    PROVE  IInv'
<1> USE DEF IInv
<1>1. TypeOK'
  BY FaultIsANumber DEF TypeOK
<1>2. Shape' /\ Times' /\ NewPhases' /\ AdjustPhases'
  BY DEF Shape, Times, NewPhases, AdjustPhases, NewLabels, Cloned
<1>3. exit' # 0
  BY DEF Killed
<1>4. NewIsWhole' /\ AdjustAllOrNothing'
  BY <1>3 DEF NewIsWhole, AdjustAllOrNothing
<1>5. OthersAreKept'
  <2>1. 0 > 0 <=> FALSE
    OBVIOUS
  <2>2. QED
    BY <2>1 DEF OthersAreKept, RepositoryIsKept, OwnModuleIsKept, Open
<1>6. QED
  BY <1>1, <1>2, <1>4, <1>5

\* The same when the files are left as they are.
LEMMA LeaveStep ==
    ASSUME IInv, pc # "idle", pc' = "idle", exit' \in {1, 2, Killed},
           UNCHANGED <<cmd, name, words, tags, files, git, clean, todo, runs, base>>,
           UNCHANGED faults \/ Fault
    PROVE  IInv'
<1>1. \A p \in Paths : files'[p].times <= runs
  BY DEF IInv, Times
<1>2. files' \in [Paths -> Contents] /\ git' \in {"none", "sample", "own"}
  BY DEF IInv, TypeOK
<1>3. QED
  BY <1>1, <1>2, EndStep

LEMMA KillStep == ASSUME IInv, Kill PROVE IInv'
BY LeaveStep DEF Kill, Exit

\* Adjust's ways out before customize.
LEMMA ProbeStep ==
    ASSUME IInv, getModulePath \/ NotSample \/ getGitURL \/ getDescription
    PROVE  IInv'
<1> USE DEF IInv
<1>1. /\ pc = "probe" /\ pc' = "idle" /\ exit' \in {0, 1, 2}
      /\ UNCHANGED faults \/ Fault
      /\ UNCHANGED <<cmd, name, words, tags, files, git, clean, todo, runs, base>>
  BY DEF getModulePath, NotSample, getGitURL, getDescription, SkipAdjust, Exit
<1>2. CASE exit' # 0
  BY <1>1, <1>2, LeaveStep
<1>3. CASE exit' = 0
  <2>1. cmd = "adjust" /\ files = base.files
    BY <1>1 DEF Shape
  <2>2. TypeOK'
    BY <1>1, <1>3, FaultIsANumber DEF TypeOK
  <2>3. Shape' /\ Times' /\ NewPhases' /\ AdjustPhases'
    BY <1>1 DEF Shape, Times, NewPhases, AdjustPhases, NewLabels, Cloned
  <2>4. NewIsWhole' /\ OthersAreKept' /\ AdjustAllOrNothing'
    BY <1>1, <2>1 DEF NewIsWhole, OthersAreKept, RepositoryIsKept, OwnModuleIsKept, AdjustAllOrNothing
  <2>5. QED
    BY <2>2, <2>3, <2>4
<1>4. QED
  BY <1>2, <1>3

------------------------------------------------------------------------------
(* The steps within a command.                                               *)

LEMMA MidStep ==
    ASSUME IInv, pc # "idle",
           pc' \in NewLabels \cup {"customize", "probe"},
           UNCHANGED <<cmd, name, words, tags, runs, base, exit, faults>>,
           clean' \in BOOLEAN, todo' \in 1..9,
           files' \in [Paths -> Contents], git' \in {"none", "sample", "own"},
           Shape', Times', NewPhases', AdjustPhases',
           files' = files \/ OthersAreKept'
    PROVE  IInv'
<1> USE DEF IInv
<1>1. TypeOK'
  BY TheFiles DEF TypeOK, NewLabels
<1>2. exit' # 0
  BY DEF Shape, NoExit
<1>3. NewIsWhole' /\ AdjustAllOrNothing'
  BY <1>2 DEF NewIsWhole, AdjustAllOrNothing
<1>4. OthersAreKept'
  BY DEF OthersAreKept, RepositoryIsKept, OwnModuleIsKept
<1>5. QED
  BY <1>1, <1>3, <1>4

LEMMA LookupSampleStep == ASSUME IInv, LookupSample PROVE IInv'
<1>1. /\ pc = "lookup"
      /\ UNCHANGED <<cmd, name, words, tags, files, git, clean, runs, base>>
  BY DEF LookupSample
<1>2. CASE Goto("clone")
  <2>1. Shape' /\ Times' /\ NewPhases' /\ AdjustPhases'
    BY <1>1, <1>2 DEF IInv, Shape, Times, NewPhases, AdjustPhases, NewLabels, Cloned, Goto
  <2>2. pc' = "clone" /\ todo' = 1 /\ UNCHANGED <<exit, faults>>
    BY <1>2 DEF Goto
  <2>3. clean \in BOOLEAN /\ files \in [Paths -> Contents] /\ git \in {"none", "sample", "own"}
    BY DEF IInv, TypeOK
  <2>4. QED
    BY <1>1, <2>1, <2>2, <2>3, MidStep DEF NewLabels
<1>3. CASE Exit(1) /\ UNCHANGED <<todo, faults>>
  BY <1>1, <1>3, LeaveStep DEF Exit
<1>4. QED
  BY <1>2, <1>3 DEF LookupSample

LEMMA PlainCloneStep == ASSUME IInv, PlainClone PROVE IInv'
<1>1. /\ pc = "clone" /\ UNCHANGED <<cmd, name, words, tags, files, runs, base>>
  BY DEF PlainClone
<1>2. CASE MayClone /\ Goto("fetch") /\ git' = "sample" /\ clean' = (files = Nothing)
  <2>1. Shape' /\ Times' /\ NewPhases' /\ AdjustPhases'
    BY <1>1, <1>2
       DEF IInv, Shape, Times, NewPhases, AdjustPhases, NewLabels, Cloned, Goto, MayClone
  <2>2. pc' = "fetch" /\ todo' = 1 /\ UNCHANGED <<exit, faults>>
    BY <1>2 DEF Goto
  <2>3. clean' \in BOOLEAN /\ files \in [Paths -> Contents]
    BY <1>2 DEF IInv, TypeOK
  <2>4. QED
    BY <1>1, <1>2, <2>1, <2>2, <2>3, MidStep DEF NewLabels
<1>3. CASE Exit(1) /\ UNCHANGED <<git, clean, todo, faults>>
  BY <1>1, <1>3, LeaveStep DEF Exit
<1>4. QED
  BY <1>2, <1>3 DEF PlainClone

\* A clone that fails, in a directory that had no repository.
LEMMA CloneFailsStep ==
    ASSUME IInv, CloneFails, pc \in {"fetch", "populate"},
           UNCHANGED <<cmd, name, words, tags, clean, runs, base>>
    PROVE  IInv'
<1>1. cmd = "new" /\ base.git = "none"
  BY DEF IInv, Shape, NewLabels, Cloned
<1>2. /\ pc' = "idle" /\ exit' = 1 /\ Fault /\ UNCHANGED todo
      /\ (files' = Nothing /\ git' = "none") \/ UNCHANGED <<files, git>>
  BY DEF CloneFails, Exit
<1>3. runs \in Nat
  BY Constants DEF IInv, TypeOK
<1>4. files' \in [Paths -> Contents] /\ \A p \in Paths : files'[p].times <= runs
  <2>1. CASE files' = Nothing
    BY <1>3, <2>1, TheContents DEF Nothing
  <2>2. CASE files' = files
    BY <2>2 DEF IInv, TypeOK, Times
  <2>3. QED
    BY <1>2, <2>1, <2>2
<1>5. git' \in {"none", "sample", "own"}
  BY <1>2 DEF IInv, TypeOK
<1>6. QED
  BY <1>1, <1>2, <1>4, <1>5, EndStep

LEMMA FetchStep == ASSUME IInv, Fetch PROVE IInv'
<1>1. pc = "fetch" /\ UNCHANGED <<cmd, name, words, tags, clean, runs, base>>
  BY DEF Fetch
<1>2. CASE Goto("populate") /\ UNCHANGED <<files, git>>
  <2>1. Shape' /\ Times' /\ NewPhases' /\ AdjustPhases'
    BY <1>1, <1>2, OneByOne
       DEF IInv, Shape, Times, NewPhases, AdjustPhases, NewLabels, Cloned, Goto
  <2>2. pc' = "populate" /\ todo' = 1 /\ UNCHANGED <<exit, faults>>
    BY <1>2 DEF Goto
  <2>3. clean \in BOOLEAN /\ files \in [Paths -> Contents] /\ git \in {"none", "sample", "own"}
    BY DEF IInv, TypeOK
  <2>4. QED
    BY <1>1, <1>2, <2>1, <2>2, <2>3, MidStep DEF NewLabels
<1>3. CASE CloneFails
  BY <1>1, <1>3, CloneFailsStep
<1>4. QED
  BY <1>2, <1>3 DEF Fetch

\* One more file of revision r.
LEMMA PlaceIt ==
    ASSUME IInv, NEW r \in Revs, NEW next, Place(r, next), todo \in 1..7, pc \in Cloned,
           UNCHANGED runs
    PROVE  /\ files' \in [Paths -> Contents]
           /\ \A p \in Paths : files'[p] = IF p = Template[todo] THEN TemplateFile(r) ELSE files[p]
           /\ \A p \in Paths : files'[p].times < runs
           /\ \/ todo = 7 /\ pc' = next /\ todo' = 1
              \/ todo < 7 /\ pc' = pc /\ todo' = todo + 1
           /\ UNCHANGED <<exit, faults, git>>
           /\ Placed(todo + 1) = Placed(todo) \cup {Template[todo]}
<1>1. Template[todo] \in Paths /\ Len(Template) = 7
  BY TheFiles
<1>2. /\ files' = [files EXCEPT ![Template[todo]] = TemplateFile(r)]
      /\ UNCHANGED <<exit, faults, git>>
      /\ \/ todo = 7 /\ pc' = next /\ todo' = 1
         \/ todo # 7 /\ pc' = pc /\ todo' = todo + 1
  BY <1>1 DEF Place, Goto
<1>3. files' \in [Paths -> Contents]
  BY <1>1, <1>2, TheContents DEF IInv, TypeOK
<1>4. \A p \in Paths : files'[p] = IF p = Template[todo] THEN TemplateFile(r) ELSE files[p]
  BY <1>1, <1>2 DEF IInv, TypeOK
<1>5. \A p \in Paths : files'[p].times < runs
  <2>1. runs \in Nat /\ 0 < runs
    BY Constants DEF IInv, TypeOK, Shape, Cloned
  <2>2. \A p \in Paths : files[p].times < runs
    BY DEF IInv, Times, Cloned
  <2>3. TemplateFile(r).times = 0
    BY TheContents
  <2>4. QED
    BY <1>4, <2>1, <2>2, <2>3
<1>6. QED
  BY <1>2, <1>3, <1>4, <1>5, OneByOne

LEMMA PopulateStep == ASSUME IInv, Populate PROVE IInv'
<1>1. /\ pc = "populate" /\ UNCHANGED <<cmd, name, words, tags, clean, runs, base>>
      /\ todo \in 1..7 /\ cmd = "new" /\ base.git = "none" /\ todo \in Nat
  BY TheFiles DEF Populate, IInv, TypeOK, Shape, NewLabels, Cloned
<1>2. CASE Place(0, "latest")
  <2>1. /\ files' \in [Paths -> Contents]
        /\ \A p \in Paths : files'[p] = IF p = Template[todo] THEN TemplateFile(0) ELSE files[p]
        /\ \A p \in Paths : files'[p].times < runs
        /\ \/ todo = 7 /\ pc' = "latest" /\ todo' = 1
           \/ todo < 7 /\ pc' = "populate" /\ todo' = todo + 1
        /\ UNCHANGED <<exit, faults, git>>
        /\ Placed(todo + 1) = Placed(todo) \cup {Template[todo]}
    BY <1>1, <1>2, TheContents, PlaceIt DEF Cloned
  <2>2. \A p \in Placed(todo + 1) : files'[p] = TemplateFile(0)
    <3>1. \A p \in Placed(todo) : files[p] = TemplateFile(0)
      BY <1>1 DEF IInv, NewPhases
    <3>2. Placed(todo) \subseteq Paths /\ Template[todo] \in Paths
      BY <1>1, TheFiles DEF Placed
    <3>3. QED
      BY <2>1, <3>1, <3>2
  <2>3. todo = 7 => Placed(todo + 1) = ToSet(Template)
    BY OneByOne
  <2>4. NewPhases' /\ AdjustPhases'
    BY <1>1, <2>1, <2>2, <2>3 DEF NewPhases, AdjustPhases
  <2>5. Shape'
    BY <1>1, <2>1 DEF IInv, Shape, NewLabels, Cloned
  <2>6. Times'
    <3>1. \A p \in Paths : files'[p].times \in Nat /\ runs \in Nat
      BY <2>1, Constants DEF IInv, TypeOK, Contents
    <3>2. QED
      BY <1>1, <2>1, <3>1 DEF Times
  <2>7. OthersAreKept'
    BY <1>1 DEF OthersAreKept, RepositoryIsKept, OwnModuleIsKept
  <2>8. todo' \in 1..9 /\ clean' \in BOOLEAN /\ git' \in {"none", "sample", "own"}
    BY <1>1, <2>1 DEF IInv, TypeOK
  <2>9. QED
    BY <1>1, <2>1, <2>4, <2>5, <2>6, <2>7, <2>8, MidStep DEF NewLabels
<1>3. CASE CloneFails
  BY <1>1, <1>3, CloneFailsStep
<1>4. QED
  BY <1>2, <1>3 DEF Populate

LEMMA FindLatestStep == ASSUME IInv, FindLatest PROVE IInv'
<1>1. /\ pc = "latest" /\ UNCHANGED <<cmd, name, words, tags, files, git, clean, runs, base>>
      /\ getLatest' = getLatest
  BY DEF FindLatest, getLatest
<1>2. CASE Goto(IF getLatest = 0 THEN "cleanup" ELSE "checkout")
  <2>1. /\ (pc' = "cleanup" /\ getLatest = 0) \/ pc' = "checkout"
        /\ todo' = 1 /\ UNCHANGED <<exit, faults>>
    BY <1>2 DEF Goto
  <2>2. NewPhases'
    <3>1. \A p \in ToSet(Template) : files[p] = TemplateFile(0)
      BY <1>1 DEF IInv, NewPhases
    <3>2. CASE pc' = "cleanup"
      BY <1>1, <2>1, <3>1, <3>2 DEF NewPhases
    <3>3. CASE pc' = "checkout"
      BY <1>1, <2>1, <3>1, <3>3, OneByOne DEF NewPhases
    <3>4. QED
      BY <2>1, <3>2, <3>3
  <2>3. Shape' /\ Times' /\ AdjustPhases'
    BY <1>1, <2>1 DEF IInv, Shape, Times, AdjustPhases, NewLabels, Cloned
  <2>4. clean \in BOOLEAN /\ files \in [Paths -> Contents] /\ git \in {"none", "sample", "own"}
    BY DEF IInv, TypeOK
  <2>5. QED
    BY <1>1, <2>1, <2>2, <2>3, <2>4, MidStep DEF NewLabels
<1>3. CASE Fault /\ Exit(1) /\ UNCHANGED todo
  BY <1>1, <1>3, LeaveStep DEF Exit
<1>4. QED
  BY <1>2, <1>3 DEF FindLatest

LEMMA checkoutStep == ASSUME IInv, checkout PROVE IInv'
<1>1. /\ pc = "checkout" /\ UNCHANGED <<cmd, name, words, tags, clean, runs, base>>
      /\ todo \in 1..7 /\ cmd = "new" /\ base.git = "none" /\ todo \in Nat
      /\ getLatest' = getLatest
  BY TheFiles DEF checkout, IInv, TypeOK, Shape, NewLabels, Cloned, getLatest
<1>2. CASE Place(getLatest, "cleanup")
  <2>1. /\ files' \in [Paths -> Contents]
        /\ \A p \in Paths :
             files'[p] = IF p = Template[todo] THEN TemplateFile(getLatest) ELSE files[p]
        /\ \A p \in Paths : files'[p].times < runs
        /\ \/ todo = 7 /\ pc' = "cleanup" /\ todo' = 1
           \/ todo < 7 /\ pc' = "checkout" /\ todo' = todo + 1
        /\ UNCHANGED <<exit, faults, git>>
        /\ Placed(todo + 1) = Placed(todo) \cup {Template[todo]}
    <3>1. getLatest \in Revs
      BY TheLatest DEF IInv
    <3>2. QED
      BY <1>1, <1>2, <3>1, PlaceIt DEF Cloned
  <2>2. \A p \in ToSet(Template) :
          files'[p] = TemplateFile(IF p \in Placed(todo + 1) THEN getLatest ELSE 0)
    <3>1. \A p \in ToSet(Template) :
            files[p] = TemplateFile(IF p \in Placed(todo) THEN getLatest ELSE 0)
      BY <1>1 DEF IInv, NewPhases
    <3>2. ToSet(Template) \subseteq Paths
      BY TheFiles
    <3>3. QED
      BY <2>1, <3>1, <3>2
  <2>3. NewPhases' /\ AdjustPhases'
    <3>1. CASE todo = 7
      <4>1. \A p \in ToSet(Template) : files'[p] = TemplateFile(getLatest)
        BY <2>2, <3>1, OneByOne
      <4>2. QED
        BY <1>1, <2>1, <3>1, <4>1 DEF NewPhases, AdjustPhases
    <3>2. CASE todo < 7
      BY <1>1, <2>1, <2>2, <3>2 DEF NewPhases, AdjustPhases
    <3>3. QED
      BY <2>1, <3>1, <3>2
  <2>4. Shape'
    BY <1>1, <2>1 DEF IInv, Shape, NewLabels, Cloned
  <2>5. Times'
    <3>1. \A p \in Paths : files'[p].times \in Nat /\ runs \in Nat
      BY <2>1, Constants DEF IInv, TypeOK, Contents
    <3>2. QED
      BY <1>1, <2>1, <3>1 DEF Times
  <2>6. OthersAreKept'
    BY <1>1 DEF OthersAreKept, RepositoryIsKept, OwnModuleIsKept
  <2>7. todo' \in 1..9 /\ clean' \in BOOLEAN /\ git' \in {"none", "sample", "own"}
    BY <1>1, <2>1 DEF IInv, TypeOK
  <2>8. QED
    BY <1>1, <2>1, <2>3, <2>4, <2>5, <2>6, <2>7, MidStep DEF NewLabels
<1>3. CASE Fault /\ Exit(1) /\ UNCHANGED <<files, git, todo>>
  BY <1>1, <1>3, LeaveStep DEF Exit
<1>4. QED
  BY <1>2, <1>3 DEF checkout

LEMMA cleanupStep == ASSUME IInv, cleanup PROVE IInv'
<1>1. /\ pc = "cleanup" /\ UNCHANGED <<cmd, name, words, tags, clean, runs, base>>
      /\ todo \in {1, 2, 3} /\ cmd = "new" /\ base.git = "none"
      /\ getLatest' = getLatest
  <2>1. todo \in 1..9 /\ todo <= 3
    BY TheFiles DEF cleanup, IInv, TypeOK, Shape
  <2>2. todo \in {1, 2, 3}
    BY <2>1
  <2>3. QED
    BY <2>2 DEF cleanup, IInv, Shape, NewLabels, Cloned, getLatest
<1>2. CASE /\ Removed(Excluded[todo])
           /\ IF todo = Len(Excluded) THEN Goto("customize")
              ELSE todo' = todo + 1 /\ UNCHANGED <<pc, exit, faults>>
  <2>1. /\ \/ todo = 3 /\ pc' = "customize" /\ todo' = 1
           \/ todo < 3 /\ pc' = "cleanup" /\ todo' = todo + 1
        /\ UNCHANGED <<exit, faults>>
    BY <1>1, <1>2, TheFiles DEF Goto
  <2>2. /\ todo = 1 => git' = "none" /\ files' = files
        /\ todo = 2 => files' = [files EXCEPT !["CODEOWNERS"] = NoFile] /\ git' = git
        /\ todo = 3 => files' = [files EXCEPT !["renovate.json"] = NoFile] /\ git' = git
    BY <1>2, TheFiles DEF Removed
  <2>3. files \in [Paths -> Contents] /\ git \in {"none", "sample", "own"}
    BY DEF IInv, TypeOK
  <2>4. files' \in [Paths -> Contents] /\ git' \in {"none", "sample", "own"}
    BY <1>1, <2>2, <2>3, TheContents
  <2>5. \A p \in Paths : files'[p] = files[p] \/ files'[p] = NoFile
    BY <1>1, <2>2, <2>3
  <2>6. Times'
    <3>1. runs \in Nat /\ 0 < runs /\ \A p \in Paths : files[p].times < runs
      BY <1>1, Constants DEF IInv, TypeOK, Shape, Times
    <3>2. \A p \in Paths : files'[p].times < runs /\ files'[p].times \in Nat
      BY <2>4, <2>5, <3>1, TheContents, Constants DEF Contents
    <3>3. QED
      BY <1>1, <3>1, <3>2 DEF Times
  <2>7. NewPhases'
    <3>1. /\ todo > 1 => git = "none"
          /\ \A p \in ToSet(Template) :
               files[p] = IF p = "CODEOWNERS" /\ todo > 2 THEN NoFile ELSE TemplateFile(getLatest)
      BY <1>1 DEF IInv, NewPhases
    <3>2. /\ ToSet(Template) \subseteq Paths
          /\ ToSet(Excluded) = {".git", "CODEOWNERS", "renovate.json"}
          /\ ".git" \notin ToSet(Template)
      BY TheFiles
    <3>3. CASE todo = 1
      <4>1. pc' = "cleanup" /\ todo' = 2 /\ git' = "none" /\ files' = files
        BY <2>1, <2>2, <3>3
      <4>2. QED
        BY <1>1, <3>1, <3>3, <4>1 DEF NewPhases
    <3>4. CASE todo = 2
      <4>1. pc' = "cleanup" /\ todo' = 3 /\ git' = "none"
        BY <2>1, <2>2, <3>1, <3>4
      <4>2. \A p \in ToSet(Template) :
              files'[p] = IF p = "CODEOWNERS" THEN NoFile ELSE TemplateFile(getLatest)
        BY <2>2, <2>3, <3>1, <3>2, <3>4
      <4>3. QED
        BY <1>1, <4>1, <4>2 DEF NewPhases
    <3>5. CASE todo = 3
      <4>1. pc' = "customize" /\ todo' = 1 /\ git' = "none"
        BY <2>1, <2>2, <3>1, <3>5
      <4>2. \A p \in ToSet(Template) :
              files'[p] = IF p \in ToSet(Excluded) THEN NoFile ELSE TemplateFile(getLatest)
        BY <2>2, <2>3, <3>1, <3>2, <3>5
      <4>3. QED
        BY <1>1, <4>1, <4>2, OneByOne DEF NewPhases
    <3>6. QED
      BY <1>1, <3>3, <3>4, <3>5
  <2>8. Shape' /\ AdjustPhases'
    BY <1>1, <2>1 DEF IInv, Shape, AdjustPhases, NewLabels, Cloned
  <2>9. OthersAreKept'
    BY <1>1 DEF OthersAreKept, RepositoryIsKept, OwnModuleIsKept
  <2>10. clean' \in BOOLEAN /\ todo' \in 1..9
    BY <1>1, <2>1 DEF IInv, TypeOK
  <2>11. QED
    BY <1>1, <2>1, <2>4, <2>6, <2>7, <2>8, <2>9, <2>10, MidStep DEF NewLabels
<1>3. CASE Fault /\ Exit(1) /\ UNCHANGED <<files, git, todo>>
  BY <1>1, <1>3, LeaveStep DEF Exit
<1>4. QED
  BY <1>2, <1>3 DEF cleanup

------------------------------------------------------------------------------
(* The steps of customize.                                                   *)

\* The next file as the replacer leaves it.
Rewritten == IF Walk[todo] \in Skipped THEN files[Walk[todo]] ELSE Replaced(Walk[todo], files[Walk[todo]])

LEMMA TheNextFile ==
    ASSUME IInv, pc = "customize", todo <= 8
    PROVE  /\ todo \in 1..8 /\ todo \in Nat /\ Walk[todo] \in Paths
           /\ Visited(todo + 1) = Visited(todo) \cup {Walk[todo]} /\ Walk[todo] \notin Visited(todo)
           /\ files[Walk[todo]] \in Contents /\ files[Walk[todo]].times < runs
           /\ Rewritten \in Contents /\ Rewritten.times <= runs
           /\ cmd = "new" => base.git = "none"
           /\ cmd = "adjust" =>
                /\ base.files["go.mod"].kind = "template" /\ base.files["go.mod"].times = 0
                /\ Rewritten = After(Walk[todo])
                /\ base.git = "sample" => Rewritten = files[Walk[todo]] \/ Open(Walk[todo])
<1> DEFINE p == Walk[todo]
<1> USE DEF IInv
<1>1. todo \in 1..8 /\ todo \in Nat /\ p \in Paths
  <2>1. todo \in 1..8 /\ todo \in Nat
    BY TheFiles DEF TypeOK
  <2>2. QED
    BY <2>1, TheFiles
<1>2. Visited(todo + 1) = Visited(todo) \cup {p} /\ p \notin Visited(todo)
  BY <1>1, OneByOne
<1>3. files[p] \in Contents
  BY <1>1 DEF TypeOK
<1>4. files[p].times < runs /\ runs \in 0..MaxRuns /\ files[p].times \in Nat
  BY <1>1, <1>2, <1>3, Constants DEF Times, TypeOK, Contents
<1>5. files[p].times < MaxRuns /\ files[p].times <= runs /\ files[p].times + 1 <= runs
  BY <1>4, Constants
<1>6. /\ Replaced(p, files[p]) \in Contents
      /\ Replaced(p, files[p]).times \in {files[p].times, files[p].times + 1}
      /\ to(p) = "same" => Replaced(p, files[p]) = files[p]
  BY <1>1, <1>3, <1>5, TheReplacer
<1>7. Rewritten \in Contents /\ Rewritten.times <= runs
  BY <1>3, <1>5, <1>6 DEF Rewritten
<1>8. cmd = "new" => base.git = "none"
  BY DEF Shape
<1>9. ASSUME cmd = "adjust"
      PROVE  /\ base.files["go.mod"].kind = "template" /\ base.files["go.mod"].times = 0
             /\ Rewritten = After(p)
             /\ base.git = "sample" => Rewritten = files[p] \/ Open(p)
  <2>1. /\ base.files["go.mod"].kind = "template" /\ base.files["go.mod"].times = 0
        /\ git = base.git /\ files[p] = base.files[p]
    BY <1>1, <1>2, <1>9 DEF AdjustPhases
  <2>2. Rewritten = After(p)
    BY <2>1 DEF Rewritten, After
  <2>3. base.git = "sample" => Rewritten = files[p] \/ Open(p)
    BY <1>6, <1>9, <2>1 DEF Rewritten, Open, to
  <2>4. QED
    BY <2>1, <2>2, <2>3
<1>10. QED
  BY <1>1, <1>2, <1>3, <1>4, <1>7, <1>8, <1>9

LEMMA WriteStep ==
    ASSUME IInv, pc = "customize", todo <= 8,
           files' = [files EXCEPT ![Walk[todo]] = Rewritten], todo' = todo + 1,
           UNCHANGED <<pc, exit, faults, cmd, name, words, tags, git, clean, runs, base>>
    PROVE  IInv'
<1> DEFINE p == Walk[todo]
<1> USE DEF IInv
<1>1. /\ todo \in 1..8 /\ todo \in Nat /\ p \in Paths
      /\ Visited(todo + 1) = Visited(todo) \cup {p} /\ p \notin Visited(todo)
      /\ files[p] \in Contents /\ files[p].times < runs
      /\ Rewritten \in Contents /\ Rewritten.times <= runs
      /\ cmd = "new" => base.git = "none"
  BY TheNextFile
<1>2. cmd = "adjust" =>
        /\ base.files["go.mod"].kind = "template" /\ base.files["go.mod"].times = 0
        /\ Rewritten = After(p)
        /\ base.git = "sample" => Rewritten = files[p] \/ Open(p)
  BY TheNextFile
<1>3. /\ files' \in [Paths -> Contents]
      /\ \A q \in Paths : files'[q] = IF q = p THEN Rewritten ELSE files[q]
  BY <1>1 DEF TypeOK
<1> HIDE DEF p
<1>4. getLatest' = getLatest /\ \A q : After(q)' = After(q)
  BY DEF getLatest, After, Replaced, Settled, to
<1>5. Times'
  <2>1. \A q \in Visited(todo + 1) : q \in Visited(todo) \/ q = p
    BY <1>1
  <2>2. \A q \in Paths : /\ files[q].times <= runs
                         /\ q \in Visited(todo) \/ files[q].times < runs
    BY DEF Times
  <2>3. QED
    BY <1>1, <1>3, <2>1, <2>2 DEF Times
<1>6. AdjustPhases'
  <2>1. SUFFICES ASSUME cmd = "adjust"
                 PROVE  AdjustPhases'
    BY DEF AdjustPhases
  <2>2. git = base.git /\ \A q \in Paths :
          files[q] = IF q \in Visited(todo) THEN After(q) ELSE base.files[q]
    BY <2>1 DEF AdjustPhases
  <2>3. \A q \in Paths : files'[q] = IF q \in Visited(todo + 1) THEN After(q) ELSE base.files[q]
    BY <1>1, <1>2, <1>3, <2>1, <2>2
  <2>4. QED
    BY <1>2, <1>4, <2>1, <2>2, <2>3 DEF AdjustPhases
<1>7. NewPhases'
  <2>1. SUFFICES ASSUME cmd = "new"
                 PROVE  NewPhases'
    BY DEF NewPhases
  <2>2. /\ git = "none"
        /\ \A q \in ToSet(Template) :
             files[q] = IF q \in ToSet(Excluded) THEN NoFile
                        ELSE IF q \in Visited(todo) \ Skipped THEN CustomizedFile(getLatest)
                        ELSE TemplateFile(getLatest)
    BY <2>1 DEF NewPhases
  <2>3. files[p] = TemplateFile(getLatest) /\ p \notin Skipped => Rewritten = CustomizedFile(getLatest)
    <3>1. to(p) # "same"
      BY <2>1 DEF to, TypeOK
    <3>2. files[p].times < MaxRuns
      BY <1>1, Constants DEF TypeOK, Contents
    <3>3. QED
      BY <1>1, <3>1, <3>2, TheReplacer, TheContents DEF Rewritten, CustomizedFile, p
  <2>4. files[p] = NoFile => Rewritten = NoFile
    <3>1. files[p].times < MaxRuns
      BY <1>1, Constants DEF TypeOK, Contents
    <3>2. QED
      BY <1>1, <3>1, TheReplacer DEF Rewritten, p
  <2>5. p \in Skipped => Rewritten = files[p]
    BY DEF Rewritten, p
  <2>6. \A q \in ToSet(Template) :
          files'[q] = IF q \in ToSet(Excluded) THEN NoFile
                      ELSE IF q \in Visited(todo + 1) \ Skipped THEN CustomizedFile(getLatest)
                      ELSE TemplateFile(getLatest)
    <3>1. ToSet(Template) \subseteq Paths
      BY TheFiles
    <3>2. QED
      BY <1>1, <1>3, <2>2, <2>3, <2>4, <2>5, <3>1
  <2>7. QED
    BY <1>4, <2>1, <2>2, <2>6 DEF NewPhases
<1>8. Shape'
  BY DEF Shape, NewLabels, Cloned
<1>9. OthersAreKept'
  <2>1. cmd \in {"new", "adjust"} /\ ~(0 > 0) /\ files \in [Paths -> Contents]
    BY DEF TypeOK
  <2>2. CASE cmd = "new"
    BY <1>1, <2>1, <2>2 DEF OthersAreKept, RepositoryIsKept, OwnModuleIsKept
  <2>3. CASE cmd = "adjust"
    <3>1. OwnModuleIsKept'
      BY <1>2, <2>1, <2>3 DEF OwnModuleIsKept
    <3>2. ASSUME base.git = "sample", NEW q \in Paths, files'[q] # base.files[q]
          PROVE  words # "same" /\ q \in Wordy
      <4>1. CASE files'[q] = files[q]
        BY <3>2, <4>1 DEF OthersAreKept, RepositoryIsKept
      <4>2. CASE files'[q] # files[q]
        BY <1>2, <1>3, <2>3, <3>2, <4>2 DEF Open
      <4>3. QED
        BY <4>1, <4>2
    <3>3. RepositoryIsKept'
      BY <2>3, <3>2 DEF RepositoryIsKept
    <3>4. QED
      BY <3>1, <3>3 DEF OthersAreKept
  <2>4. QED
    BY <2>1, <2>2, <2>3
<1>10. clean \in BOOLEAN /\ git \in {"none", "sample", "own"} /\ todo' \in 1..9
  BY <1>1 DEF TypeOK
<1>11. QED
  BY <1>3, <1>5, <1>6, <1>7, <1>8, <1>9, <1>10, MidStep

LEMMA customizeFileStep == ASSUME IInv, customizeFile PROVE IInv'
<1> DEFINE p == Walk[todo]
<1>1. /\ pc = "customize" /\ todo <= 8
      /\ UNCHANGED <<cmd, name, words, tags, git, clean, runs, base>>
  BY TheFiles DEF customizeFile
<1>2. CASE files' = [files EXCEPT ![p] = Rewritten] /\ todo' = todo + 1 /\ UNCHANGED <<pc, exit, faults>>
  BY <1>1, <1>2, WriteStep
<1>3. CASE files[p] # Rewritten /\ files' = [files EXCEPT ![p] = Torn] /\ WriteFails
  <2>1. /\ p \in Paths
        /\ cmd = "new" => base.git = "none"
        /\ cmd = "adjust" =>
             /\ base.files["go.mod"].kind = "template" /\ base.files["go.mod"].times = 0
             /\ base.git = "sample" => Rewritten = files[p] \/ Open(p)
    BY <1>1, TheNextFile
  <2>2. files' \in [Paths -> Contents] /\ \A q \in Paths : files'[q].times <= runs
    <3>1. files \in [Paths -> Contents] /\ runs \in Nat /\ \A q \in Paths : files[q].times <= runs
      BY Constants DEF IInv, TypeOK, Times
    <3>2. \A q \in Paths : files'[q] = Torn \/ files'[q] = files[q]
      BY <1>3, <3>1
    <3>3. files' \in [Paths -> Contents]
      BY <1>3, <3>1, TheContents
    <3>4. Torn.times <= runs
      BY <3>1, TheContents
    <3>5. \A q \in Paths : files'[q].times <= runs
      BY <3>1, <3>2, <3>4
    <3>6. QED
      BY <3>3, <3>5
  <2>3. /\ cmd \in {"new", "adjust"}
        /\ files \in [Paths -> Contents]
        /\ \A q \in Paths : files'[q] = files[q] \/ q = p
        /\ git \in {"none", "sample", "own"}
    BY <1>3 DEF IInv, TypeOK
  <2>4. pc' = "idle" /\ exit' = 1 /\ Fault /\ UNCHANGED todo
    BY <1>3 DEF WriteFails, Exit
  <2>5. QED
    BY <1>1, <1>3, <2>1, <2>2, <2>3, <2>4, EndStep
<1>4. CASE UNCHANGED files /\ WriteFails
  BY <1>1, <1>4, LeaveStep DEF WriteFails, Exit
<1>5. QED
  BY <1>2, <1>3, <1>4 DEF customizeFile, Rewritten

\* A command that comes to the end of the walk.
LEMMA DoneStep == ASSUME IInv, Done PROVE IInv'
<1> USE DEF IInv
<1>1. /\ pc = "customize" /\ todo = 9 /\ pc' = "idle" /\ exit' = 0
      /\ UNCHANGED <<cmd, name, words, tags, files, git, clean, todo, runs, faults, base>>
  BY TheFiles DEF Done, Exit, TypeOK
<1>2. Visited(todo) = Paths /\ ToSet(Template) \subseteq Paths /\ Skipped \subseteq ToSet(Template)
  BY <1>1, OneByOne, TheFiles DEF Skipped
<1>3. TypeOK' /\ Shape' /\ Times' /\ NewPhases' /\ AdjustPhases'
  BY <1>1 DEF TypeOK, Shape, Times, NewPhases, AdjustPhases, NewLabels, Cloned
<1>4. NewIsWhole'
  <2>1. SUFFICES ASSUME cmd = "new"
                 PROVE  NewIsWhole'
    BY <1>1 DEF NewIsWhole
  <2>2. getLatest \in tags \cup {0} /\ \A t \in tags : t <= getLatest
    BY TheLatest
  <2>3. /\ git = "none"
        /\ \A p \in ToSet(Template) :
             files[p] = IF p \in ToSet(Excluded) THEN NoFile
                        ELSE IF p \in Skipped THEN TemplateFile(getLatest)
                        ELSE CustomizedFile(getLatest)
    BY <1>1, <1>2, <2>1 DEF NewPhases
  <2>4. \A r : [TemplateFile(r) EXCEPT !.times = 0] = TemplateFile(r)
    BY DEF TemplateFile
  <2>5. \A p \in ToSet(Template) : p \notin ToSet(Excluded) => Customized(p, getLatest)
    BY <2>3, <2>4 DEF Customized, CustomizedFile
  <2>6. NewIsWhole
    BY <2>2, <2>3, <2>5 DEF NewIsWhole
  <2>7. git' # "sample"
    BY <1>1, <2>3
  <2>8. \A p \in ToSet(Template) : p \in ToSet(Excluded) => files'[p] = NoFile
    BY <1>1, <2>3
  <2>9. \A p, r : Customized(p, r)' <=> Customized(p, r)
    BY <1>1 DEF Customized
  <2>10. \A p \in ToSet(Template) :
           IF p \in ToSet(Excluded) THEN files'[p] = NoFile
           ELSE \E r \in tags \cup {0} : Customized(p, r)' /\ \A t \in tags : t <= r
    BY <2>2, <2>5, <2>8, <2>9
  <2>11. QED
    BY <1>1, <2>7, <2>10 DEF NewIsWhole
<1>5. AdjustAllOrNothing'
  <2>1. SUFFICES ASSUME cmd = "adjust", \A p \in ToSet(Template) : base.files[p] = TemplateFile(0)
                 PROVE  AdjustAllOrNothing'
    BY <1>1 DEF AdjustAllOrNothing
  <2>2. \A p \in Paths : files[p] = After(p)
    BY <1>1, <1>2, <2>1 DEF AdjustPhases
  <2>3. git = base.git /\ base.git # "sample" => \A p \in Paths : to(p) # "same"
    BY DEF to, TypeOK
  <2>4. SUFFICES ASSUME \A p \in Paths : to(p) # "same"
                 PROVE  \A p \in ToSet(Template) : Customized(p, 0)'
    BY <1>1, <2>1, <2>3 DEF AdjustAllOrNothing, AdjustPhases
  <2>5. ASSUME NEW p \in ToSet(Template)
        PROVE  After(p) = [TemplateFile(0) EXCEPT !.times = IF p \in Skipped THEN 0 ELSE 1]
    <3>1. TemplateFile(0) \in Contents /\ 0 < MaxRuns /\ p \in Paths
      BY <1>2, Constants, TheContents
    <3>2. Replaced(p, TemplateFile(0)) = [TemplateFile(0) EXCEPT !.times = 1]
      BY <2>4, <3>1, TheReplacer, TheContents
    <3>3. TemplateFile(0) = [TemplateFile(0) EXCEPT !.times = 0]
      BY DEF TemplateFile
    <3>4. QED
      BY <2>1, <3>2, <3>3 DEF After
  <2>6. QED
    BY <1>1, <1>2, <2>2, <2>5 DEF Customized
<1>6. OthersAreKept'
  BY <1>1 DEF OthersAreKept, RepositoryIsKept, OwnModuleIsKept
<1>7. QED
  BY <1>3, <1>4, <1>5, <1>6

LEMMA AdjustStep == ASSUME IInv, Adjust PROVE IInv'
<1>1. /\ pc = "probe" /\ pc' = "customize" /\ todo' = 1 /\ cmd = "adjust"
      /\ files["go.mod"].kind = "template" /\ files["go.mod"].times = 0
      /\ files = base.files /\ git = base.git
      /\ UNCHANGED <<cmd, name, words, tags, files, git, clean, runs, base, exit, faults>>
  BY DEF Adjust, Goto, IsSample, gomod, IInv, Shape
<1>2. AdjustPhases'
  <2>1. \A p \in Paths : p \notin Visited(1)
    BY OneByOne
  <2>2. QED
    BY <1>1, <2>1 DEF AdjustPhases
<1>3. Shape' /\ Times' /\ NewPhases'
  BY <1>1 DEF IInv, Shape, Times, NewPhases, NewLabels, Cloned
<1>4. clean \in BOOLEAN /\ files \in [Paths -> Contents] /\ git \in {"none", "sample", "own"}
  BY DEF IInv, TypeOK
<1>5. QED
  BY <1>1, <1>2, <1>3, <1>4, MidStep

LEMMA StutteringStep == ASSUME IInv, UNCHANGED vars PROVE IInv'
<1> USE DEF IInv
<1>1. UNCHANGED <<pc, cmd, name, words, tags, files, git, clean, todo, runs, faults, base, exit>>
  BY DEF vars
<1>2. TypeOK' /\ Shape' /\ Times'
  BY <1>1 DEF TypeOK, Shape, Times, NewLabels, Cloned
<1>3. getLatest' = getLatest /\ \A p : After(p)' = After(p)
  BY <1>1 DEF getLatest, After, Replaced, Settled, to
<1>4. NewPhases' /\ AdjustPhases'
  BY <1>1, <1>3 DEF NewPhases, AdjustPhases
<1>5. NewIsWhole' /\ OthersAreKept' /\ AdjustAllOrNothing'
  BY <1>1
     DEF NewIsWhole, OthersAreKept, RepositoryIsKept, OwnModuleIsKept, AdjustAllOrNothing, Customized
<1>6. QED
  BY <1>2, <1>4, <1>5

------------------------------------------------------------------------------
(* The theorems.                                                             *)

\* Between any two steps of the two commands the files are as far as the label
\* says: the phases of Scaffold and of customize.
LEMMA Invariance == Spec => []IInv
<1>1. Init => IInv
  BY InitIInv
<1>2. IInv /\ [Next]_vars => IInv'
  <2>1. SUFFICES ASSUME IInv, Next \/ UNCHANGED vars
                 PROVE  IInv'
    OBVIOUS
  <2>2. CASE BeginNew \/ BeginAdjust
    BY <2>1, <2>2, BeginStep
  <2>3. CASE GitInit
    BY <2>1, <2>3, GitInitStep
  <2>4. CASE Kill
    BY <2>1, <2>4, KillStep
  <2>5. CASE LookupSample
    BY <2>1, <2>5, LookupSampleStep
  <2>6. CASE PlainClone
    BY <2>1, <2>6, PlainCloneStep
  <2>7. CASE Fetch
    BY <2>1, <2>7, FetchStep
  <2>8. CASE Populate
    BY <2>1, <2>8, PopulateStep
  <2>9. CASE FindLatest
    BY <2>1, <2>9, FindLatestStep
  <2>10. CASE checkout
    BY <2>1, <2>10, checkoutStep
  <2>11. CASE cleanup
    BY <2>1, <2>11, cleanupStep
  <2>12. CASE customizeFile
    BY <2>1, <2>12, customizeFileStep
  <2>13. CASE Done
    BY <2>1, <2>13, DoneStep
  <2>14. CASE getModulePath \/ NotSample \/ getGitURL \/ getDescription
    BY <2>1, <2>14, ProbeStep
  <2>15. CASE Adjust
    BY <2>1, <2>15, AdjustStep
  <2>16. CASE UNCHANGED vars
    BY <2>1, <2>16, StutteringStep
  <2>17. QED
    BY <2>1, <2>2, <2>3, <2>4, <2>5, <2>6, <2>7, <2>8, <2>9, <2>10, <2>11, <2>12, <2>13, <2>14,
       <2>15, <2>16 DEF Next
<1>3. QED
  BY <1>1, <1>2, PTL DEF Spec

\* The variables of newRunE, Scaffold, adjustRunE and Adjust keep their types;
\* each walk over the files stays within them.
THEOREM TypeCorrect == Spec => []TypeOK
<1>1. IInv => TypeOK
  BY DEF IInv
<1>2. QED
  BY <1>1, Invariance, PTL

\* A new that succeeds leaves the whole template, of the newest release there
\* is and customized once, whatever it found and however often new and adjust
\* failed before (Scaffold, cleanup, customize).
THEOREM WholeNew == Spec => []NewIsWhole
<1>1. IInv => NewIsWhole
  BY DEF IInv
<1>2. QED
  BY <1>1, Invariance, PTL

\* Neither command changes a repository or a module that is not its own to
\* change (PlainClone in Scaffold, the checks of adjustRunE); a half-made clone
\* of the sample keeps its go.mod, and every file but those where an adjust with
\* another package or description finds the sample's (newReplacer).
THEOREM OthersKept == Spec => []OthersAreKept
<1>1. IInv => OthersAreKept
  BY DEF IInv
<1>2. QED
  BY <1>1, Invariance, PTL

\* An adjust that succeeds on a whole sample changes all of it or nothing
\* (Adjust over customize).
THEOREM AllOrNothing == Spec => []AdjustAllOrNothing
<1>1. IInv => AdjustAllOrNothing
  BY DEF IInv
<1>2. QED
  BY <1>1, Invariance, PTL

------------------------------------------------------------------------------
(* The user's own file.                                                      *)

\* A clone that fails removes everything only where nothing of the user's is.
CleanDirectory == pc \in {"fetch", "populate"} /\ clean => files["notes"] = NoFile

LEMMA NotesIsAPath ==
    /\ "notes" \in Paths
    /\ IInv /\ pc \in {"populate", "checkout"} => Template[todo] # "notes"
    /\ IInv /\ pc = "cleanup" => Excluded[todo] # "notes"
<1>1. "notes" \in Paths
  BY TheFiles
<1>2. ASSUME IInv, pc \in {"populate", "checkout"}
      PROVE  Template[todo] # "notes"
  <2>1. todo \in 1..7
    BY <1>2, TheFiles DEF IInv, TypeOK, Shape
  <2>2. QED
    BY <2>1, TheFiles
<1>3. ASSUME IInv, pc = "cleanup"
      PROVE  Excluded[todo] # "notes"
  <2>1. todo \in {1, 2, 3}
    BY <1>3, TheFiles DEF IInv, TypeOK, Shape
  <2>2. QED
    BY <2>1, TheFiles
<1>4. QED
  BY <1>1, <1>2, <1>3

LEMMA CleanDirectoryStep ==
    ASSUME IInv, CleanDirectory, [Next]_vars
    PROVE  CleanDirectory'
<1>1. CASE PlainClone
  <2>1. pc' = "fetch" => clean' = (files = Nothing)
    BY <1>1 DEF PlainClone, Exit
  <2>2. pc' # "populate" /\ files' = files
    BY <1>1 DEF PlainClone, Exit, Goto
  <2>3. files = Nothing => files["notes"] = NoFile
    BY NotesIsAPath DEF Nothing
  <2>4. QED
    BY <2>1, <2>2, <2>3 DEF CleanDirectory
<1>2. CASE Fetch
  BY <1>2 DEF Fetch, Goto, CloneFails, Exit, CleanDirectory
<1>3. CASE Populate
  <2>1. CASE CloneFails
    BY <2>1, <1>3 DEF CloneFails, Exit, CleanDirectory
  <2>2. CASE Place(0, "latest")
    <3>1. files' = [files EXCEPT ![Template[todo]] = TemplateFile(0)] /\ clean' = clean
      BY <1>3, <2>2 DEF Populate, Place
    <3>2. Template[todo] # "notes" /\ files \in [Paths -> Contents] /\ "notes" \in Paths
      BY <1>3, NotesIsAPath DEF Populate, IInv, TypeOK
    <3>3. files'["notes"] = files["notes"]
      BY <3>1, <3>2
    <3>4. QED
      BY <3>1, <3>3, <1>3 DEF Populate, CleanDirectory
  <2>3. QED
    BY <1>3, <2>1, <2>2 DEF Populate
<1>4. CASE UNCHANGED vars
  BY <1>4 DEF vars, CleanDirectory
<1>5. CASE \/ BeginNew \/ BeginAdjust \/ GitInit \/ Kill \/ LookupSample \/ FindLatest
           \/ customizeFile \/ Done \/ getModulePath \/ NotSample \/ getGitURL
           \/ getDescription \/ Adjust
  <2>1. pc' \notin {"fetch", "populate"}
    BY <1>5
       DEF BeginNew, BeginAdjust, Begin, GitInit, Kill, LookupSample, FindLatest, customizeFile,
           WriteFails, Done, getModulePath, NotSample, getGitURL, getDescription, SkipAdjust,
           Adjust, Goto, Exit
  <2>2. QED
    BY <2>1 DEF CleanDirectory
<1>6. CASE checkout \/ cleanup
  <2>1. pc' \notin {"fetch", "populate"}
    BY <1>6 DEF checkout, cleanup, Place, Goto, Exit
  <2>2. QED
    BY <2>1 DEF CleanDirectory
<1>7. QED
  BY <1>1, <1>2, <1>3, <1>4, <1>5, <1>6 DEF Next

\* The file stays the user's, or is torn by the step of a failing write.
NotesAreKept ==
    files["notes"].kind = "user" =>
        \/ files'["notes"].kind = "user"
        \/ pc = "customize" /\ files'["notes"] = Torn /\ faults' = faults + 1

LEMMA NotesStep ==
    ASSUME IInv, CleanDirectory, [Next]_vars
    PROVE  NotesAreKept
<1>0. /\ files \in [Paths -> Contents] /\ "notes" \in Paths
      /\ NoFile.kind # "user"
  BY NotesIsAPath, TheContents DEF IInv, TypeOK
<1>1. CASE Fetch \/ Populate
  <2>1. CASE CloneFails
    <3>1. pc \in {"fetch", "populate"}
      BY <1>1 DEF Fetch, Populate
    <3>2. CASE clean
      BY <3>1, <3>2, <1>0 DEF CleanDirectory, NotesAreKept
    <3>3. CASE ~clean
      BY <3>3, <2>1 DEF CloneFails, NotesAreKept
    <3>4. QED
      BY <3>2, <3>3
  <2>2. CASE Populate /\ Place(0, "latest")
    <3>1. files' = [files EXCEPT ![Template[todo]] = TemplateFile(0)]
      BY <2>2 DEF Place
    <3>2. Template[todo] # "notes"
      BY <2>2, NotesIsAPath DEF Populate
    <3>3. QED
      BY <3>1, <3>2, <1>0 DEF NotesAreKept
  <2>3. CASE UNCHANGED files
    BY <2>3 DEF NotesAreKept
  <2>4. QED
    BY <1>1, <2>1, <2>2, <2>3 DEF Fetch, Populate
<1>2. CASE checkout
  <2>1. CASE Place(getLatest, "cleanup")
    <3>1. files' = [files EXCEPT ![Template[todo]] = TemplateFile(getLatest)]
      BY <2>1 DEF Place
    <3>2. Template[todo] # "notes"
      BY <1>2, NotesIsAPath DEF checkout
    <3>3. QED
      BY <3>1, <3>2, <1>0 DEF NotesAreKept
  <2>2. CASE UNCHANGED files
    BY <2>2 DEF NotesAreKept
  <2>3. QED
    BY <1>2, <2>1, <2>2 DEF checkout
<1>3. CASE cleanup
  <2>1. CASE files' = [files EXCEPT ![Excluded[todo]] = NoFile]
    <3>1. Excluded[todo] # "notes"
      BY <1>3, NotesIsAPath DEF cleanup
    <3>2. QED
      BY <2>1, <3>1, <1>0 DEF NotesAreKept
  <2>2. CASE UNCHANGED files
    BY <2>2 DEF NotesAreKept
  <2>3. QED
    BY <1>3, <2>1, <2>2 DEF cleanup, Removed
<1>4. CASE customizeFile
  <2> DEFINE p == Walk[todo]
             f == IF p \in Skipped THEN files[p] ELSE Replaced(p, files[p])
  <2>1. /\ pc = "customize"
        /\ \/ files' = [files EXCEPT ![p] = f]
           \/ files' = [files EXCEPT ![p] = Torn] /\ WriteFails
           \/ UNCHANGED files
    BY <1>4 DEF customizeFile
  <2>2. \A q, g : g.kind = "user" /\ g \in Contents => Replaced(q, g).kind = "user"
    BY DEF Replaced, Contents
  <2>3. CASE files' = [files EXCEPT ![p] = f]
    <3>1. files["notes"] \in Contents
      BY <1>0
    <3>2. CASE p = "notes"
      <4>1. files'["notes"] = f
        BY <2>3, <3>2, <1>0
      <4>2. files["notes"].kind = "user" => f.kind = "user"
        BY <2>2, <3>1, <3>2
      <4>3. QED
        BY <4>1, <4>2 DEF NotesAreKept
    <3>3. CASE p # "notes"
      BY <2>3, <3>3, <1>0 DEF NotesAreKept
    <3>4. QED
      BY <3>2, <3>3
  <2>4. CASE files' = [files EXCEPT ![p] = Torn] /\ WriteFails
    BY <2>1, <2>4, <1>0 DEF WriteFails, Fault, NotesAreKept
  <2>5. QED
    BY <2>1, <2>3, <2>4 DEF NotesAreKept
<1>5. CASE \/ BeginNew \/ BeginAdjust \/ GitInit \/ Kill \/ LookupSample \/ PlainClone
           \/ FindLatest \/ Done \/ getModulePath \/ NotSample \/ getGitURL
           \/ getDescription \/ Adjust \/ UNCHANGED vars
  <2>1. files' = files
    BY <1>5
       DEF BeginNew, BeginAdjust, Begin, GitInit, Kill, LookupSample, PlainClone, FindLatest,
           Done, getModulePath, NotSample, getGitURL, getDescription, SkipAdjust, Adjust, vars
  <2>2. QED
    BY <2>1 DEF NotesAreKept
<1>6. QED
  BY <1>1, <1>2, <1>3, <1>4, <1>5 DEF Next

\* No new and no adjust removes a file of the user's that the sample does not
\* have, nor replaces it by another, however the commands fail: a clone cleans
\* up after itself only where the directory was empty, and of the writes of
\* customize only one that fails may cost the file (Scaffold, customize).
THEOREM UsersFileIsKept == Spec => [][NotesAreKept]_vars
<1>1. Init => CleanDirectory
  BY DEF Init, CleanDirectory
<1>2. IInv /\ CleanDirectory /\ [Next]_vars => CleanDirectory' /\ NotesAreKept
  BY CleanDirectoryStep, NotesStep
<1>3. QED
  BY <1>1, <1>2, Invariance, PTL DEF Spec
=============================================================================
