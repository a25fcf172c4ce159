------------------------------ MODULE Scaffold ------------------------------
(***************************************************************************)
(* xk6 new and xk6 adjust in one directory, one command after the other:   *)
(* newRunE over Scaffold, adjustRunE over Adjust.  Any call may fail and   *)
(* any command may be killed between two files; the next one finds what is *)
(* there.  Of a file the model keeps where it is from and how often the    *)
(* replacer has changed it.                                                *)
(***************************************************************************)
EXTENDS Naturals, Sequences, FiniteSetsExt, SequencesExt

CONSTANTS
    Releases,   \* the versions a sample may be tagged with
    MaxRuns,    \* commands
    MaxFaults   \* failing calls and kills

ASSUME ReleasesAssumption == IsFiniteSet(Releases) /\ Releases \subseteq Nat \ {0}
ASSUME BoundsAssumption == MaxRuns \in Nat \ {0} /\ MaxFaults \in Nat

\* The files, in the order of fs.WalkDir; .git is apart.
Walk == <<".github", "CODEOWNERS", "LICENSE", "README.md", "go.mod", "notes", "register.go",
          "renovate.json">>
Paths == ToSet(Walk)
Template == <<".github", "CODEOWNERS", "LICENSE", "README.md", "go.mod", "register.go",
              "renovate.json">>

\* special of cleanup, and what has a prefix that is special in customize.
Excluded == <<".git", "CODEOWNERS", "renovate.json">>
Skipped == {".github", "LICENSE"}

\* The sample's package and description stand here, its module in every file.
Wordy == {"README.md", "notes", "register.go"}

VARIABLES
    pc,
    cmd,
    name,    \* of the actual module: "nested" if it contains the sample's name
    words,   \* package and description of an adjust: "same" as the sample's, or like name
    tags,    \* releases of the sample
    files,
    git,     \* .git: "none", or whose repository is its origin
    clean,   \* the directory was empty when the clone began
    todo,    \* the next file
    runs, faults,
    base,    \* history: files and git when the command started
    exit     \* exit code

vars == <<pc, cmd, name, words, tags, files, git, clean, todo, runs, faults, base, exit>>

\* The default branch is revision 0.
Revs == Releases \cup {0}
Contents == [kind : {"none", "user", "template", "torn"}, rev : Revs, times : 0..MaxRuns]
NoFile == [kind |-> "none", rev |-> 0, times |-> 0]
UserFile == [NoFile EXCEPT !.kind = "user"]
Torn == [NoFile EXCEPT !.kind = "torn"]
TemplateFile(r) == [kind |-> "template", rev |-> r, times |-> 0]

Killed == 3
NoExit == 4

TypeOK ==
    /\ pc \in {"idle", "lookup", "clone", "fetch", "populate", "latest", "checkout", "cleanup",
               "customize", "probe"}
    /\ cmd \in {"new", "adjust"}
    /\ name \in {"plain", "nested"} /\ words \in {"same", "plain", "nested"}
    /\ tags \subseteq Releases
    /\ files \in [Paths -> Contents]
    /\ git \in {"none", "sample", "own"}
    /\ clean \in BOOLEAN
    /\ todo \in 1..(Len(Walk) + 1)
    /\ runs \in 0..MaxRuns /\ faults \in 0..MaxFaults
    /\ base \in [files : [Paths -> Contents], git : {"none", "sample", "own"}]
    /\ exit \in {0, 1, 2, Killed, NoExit}

Nothing == [p \in Paths |-> NoFile]

\* No directory, one with files of the user, or the clone of a fork.
Init ==
    /\ pc = "idle" /\ cmd = "new"
    /\ name \in {"plain", "nested"} /\ words = "same"
    /\ tags \in SUBSET Releases
    /\ \/ files = Nothing /\ git = "none"
       \/ /\ files = [p \in Paths |-> IF p \in {"notes", "go.mod", "renovate.json"} THEN UserFile
                                      ELSE NoFile]
          /\ git = "none"
       \/ files = [p \in Paths |-> IF p = "notes" THEN NoFile ELSE TemplateFile(0)] /\ git = "own"
    /\ clean = FALSE /\ todo = 1
    /\ runs = 0 /\ faults = 0
    /\ base = [files |-> files, git |-> git]
    /\ exit = NoExit

------------------------------------------------------------------------------
Begin(c, first) ==
    /\ pc = "idle"
    /\ runs < MaxRuns
    /\ runs' = runs + 1
    /\ cmd' = c
    /\ pc' = first
    /\ base' = [files |-> files, git |-> git]
    /\ exit' = NoExit
    /\ UNCHANGED <<name, tags, files, git, clean, todo, faults>>

BeginNew == Begin("new", "lookup") /\ words' = "same"

\* Without --package and --description they follow from the origin.
BeginAdjust ==
    /\ Begin("adjust", "probe")
    /\ words' \in IF git = "sample" THEN {"same", "plain", "nested"} ELSE {"same"}

Exit(code) == pc' = "idle" /\ exit' = code
Goto(next) == pc' = next /\ todo' = 1 /\ UNCHANGED <<exit, faults>>
Fault == faults < MaxFaults /\ faults' = faults + 1

\* git init and git remote add, by the user.
GitInit ==
    /\ pc = "idle" /\ runs > 0 /\ git = "none"
    /\ git' = "own"
    /\ UNCHANGED <<pc, cmd, name, words, tags, files, clean, todo, runs, faults, base, exit>>

Kill ==
    /\ pc # "idle"
    /\ Fault
    /\ Exit(Killed)
    /\ UNCHANGED <<cmd, name, words, tags, files, git, clean, todo, runs, base>>

------------------------------------------------------------------------------
(* newRunE and Scaffold.                                                     *)

\* An unknown type ends the command; a description that cannot be had does not.
LookupSample ==
    /\ pc = "lookup"
    /\ Goto("clone") \/ (Exit(1) /\ UNCHANGED <<todo, faults>>)
    /\ UNCHANGED <<cmd, name, words, tags, files, git, clean, runs, base>>

\* go-git (external) refuses a directory that is a repository.
MayClone == git = "none"

PlainClone ==
    /\ pc = "clone"
    /\ IF MayClone THEN Goto("fetch") /\ git' = "sample" /\ clean' = (files = Nothing)
       ELSE Exit(1) /\ UNCHANGED <<git, clean, todo, faults>>
    /\ UNCHANGED <<cmd, name, words, tags, files, runs, base>>

\* A clone that fails is removed again if nothing else was there.
CloneFails ==
    /\ Fault /\ Exit(1)
    /\ IF clean THEN files' = Nothing /\ git' = "none" ELSE UNCHANGED <<files, git>>
    /\ UNCHANGED todo

Fetch ==
    /\ pc = "fetch"
    /\ (Goto("populate") /\ UNCHANGED <<files, git>>) \/ CloneFails
    /\ UNCHANGED <<cmd, name, words, tags, clean, runs, base>>

\* The next file of revision r, over the one that may be there.
Place(r, next) ==
    /\ files' = [files EXCEPT ![Template[todo]] = TemplateFile(r)]
    /\ IF todo = Len(Template) THEN Goto(next)
       ELSE todo' = todo + 1 /\ UNCHANGED <<pc, exit, faults>>
    /\ UNCHANGED git

\* The default branch.
Populate ==
    /\ pc = "populate"
    /\ Place(0, "latest") \/ CloneFails
    /\ UNCHANGED <<cmd, name, words, tags, clean, runs, base>>

\* Mutant of getLatest: the comparison of the sort is turned round.
getOldest == IF tags = {} THEN 0 ELSE Min(tags)

getLatest == IF tags = {} THEN 0 ELSE Max(tags)

FindLatest ==
    /\ pc = "latest"
    /\ \/ Goto(IF getLatest = 0 THEN "cleanup" ELSE "checkout")
       \/ Fault /\ Exit(1) /\ UNCHANGED todo
    /\ UNCHANGED <<cmd, name, words, tags, files, git, clean, runs, base>>

checkout ==
    /\ pc = "checkout"
    /\ \/ Place(getLatest, "cleanup")
       \/ Fault /\ Exit(1) /\ UNCHANGED <<files, git, todo>>
    /\ UNCHANGED <<cmd, name, words, tags, clean, runs, base>>

Removed(p) ==
    IF p = ".git" THEN git' = "none" /\ UNCHANGED files
    ELSE files' = [files EXCEPT ![p] = NoFile] /\ UNCHANGED git

cleanup ==
    /\ pc = "cleanup"
    /\ \/ /\ Removed(Excluded[todo])
          /\ IF todo = Len(Excluded) THEN Goto("customize")
             ELSE todo' = todo + 1 /\ UNCHANGED <<pc, exit, faults>>
       \/ Fault /\ Exit(1) /\ UNCHANGED <<files, git, todo>>
    /\ UNCHANGED <<cmd, name, words, tags, clean, runs, base>>

------------------------------------------------------------------------------
(* customize, the last part of both.                                         *)

\* What newReplacer puts into p.  Adjust takes the actual module from the origin,
\* which may be the sample itself: then only package and description can differ.
to(p) ==
    IF cmd = "adjust" /\ git = "sample" THEN IF p \in Wordy THEN words ELSE "same" ELSE name

\* Nothing of the sample's to replace, or with nothing else.
Settled(p, f) ==
    f.kind \in {"none", "torn"} \/ to(p) = "same" \/ (to(p) = "plain" /\ f.times > 0)

\* Mutant of Replaced: one ReplaceAll for the module and one for the name.
PairByPair(p, f) ==
    IF Settled(p, f) THEN f ELSE [f EXCEPT !.times = @ + (IF to(p) = "nested" THEN 2 ELSE 1)]

\* newReplacer: a name that contains the sample's is found again next time.
Replaced(p, f) == IF Settled(p, f) THEN f ELSE [f EXCEPT !.times = @ + 1]

\* Mutant of WriteFails: the error is logged.
WriteLogged == Fault /\ todo' = todo + 1 /\ UNCHANGED <<pc, exit>>

\* An error of a file ends the walk.
WriteFails == Fault /\ Exit(1) /\ UNCHANGED todo

\* WriteFile truncates the file first.
customizeFile ==
    /\ pc = "customize" /\ todo <= Len(Walk)
    /\ LET p == Walk[todo]
           f == IF p \in Skipped THEN files[p] ELSE Replaced(p, files[p])
       IN \/ files' = [files EXCEPT ![p] = f] /\ todo' = todo + 1 /\ UNCHANGED <<pc, exit, faults>>
          \/ files[p] # f /\ files' = [files EXCEPT ![p] = Torn] /\ WriteFails
          \/ files[p].kind # "none" /\ p \notin Skipped /\ UNCHANGED files /\ WriteFails
    /\ UNCHANGED <<cmd, name, words, tags, git, clean, runs, base>>

Done ==
    /\ pc = "customize" /\ todo > Len(Walk)
    /\ Exit(0)
    /\ UNCHANGED <<cmd, name, words, tags, files, git, clean, todo, runs, faults, base>>

------------------------------------------------------------------------------
(* adjustRunE before it.                                                     *)

gomod == files["go.mod"]

\* Mutant of IsSample: only the template is compared, not the module.
IsTemplate == gomod.kind = "template"

IsSample == gomod.kind = "template" /\ gomod.times = 0

\* An empty go.mod has no module line, and getModulePath panics.
getModulePath ==
    /\ pc = "probe"
    /\ \/ gomod.kind = "none" /\ Exit(1) /\ UNCHANGED faults
       \/ gomod.kind = "torn" /\ Exit(1) /\ UNCHANGED faults
       \/ gomod.kind = "torn" /\ Exit(2) /\ UNCHANGED faults
       \/ Fault /\ Exit(1)
    /\ UNCHANGED <<cmd, name, words, tags, files, git, clean, todo, runs, base>>

\* The ways out before customize.
SkipAdjust ==
    /\ pc = "probe"
    /\ gomod.kind \in {"user", "template"}
    /\ Exit(0)
    /\ UNCHANGED <<cmd, name, words, tags, files, git, clean, todo, runs, base>>

\* Nothing to do, or nobody to say what: the command ends well.
NotSample == ~IsSample /\ SkipAdjust /\ UNCHANGED faults
getGitURL == IsSample /\ git = "none" /\ SkipAdjust /\ UNCHANGED faults
getDescription == IsSample /\ git # "none" /\ SkipAdjust /\ Fault

Adjust ==
    /\ pc = "probe"
    /\ IsSample /\ git # "none"
    /\ Goto("customize")
    /\ UNCHANGED <<cmd, name, words, tags, files, git, clean, runs, base>>

------------------------------------------------------------------------------
Next == BeginNew \/ BeginAdjust \/ GitInit \/ Kill \/ LookupSample \/ PlainClone \/ Fetch
        \/ Populate \/ FindLatest \/ checkout \/ cleanup \/ customizeFile \/ Done
        \/ getModulePath \/ NotSample \/ getGitURL \/ getDescription \/ Adjust

Spec == Init /\ [][Next]_vars

------------------------------------------------------------------------------
(* Properties.                                                               *)

\* Customized as often as it should be, of revision r.
Customized(p, r) ==
    files[p] = [TemplateFile(r) EXCEPT !.times = IF p \in Skipped THEN 0 ELSE 1]

\* A new that succeeds leaves each file of the template in its newest release
\* and customized once, and those that are excluded not at all, whatever an
\* earlier new, adjust or the user has left there.
NewIsWhole ==
    cmd = "new" /\ exit = 0 =>
        /\ git # "sample"
        /\ \A p \in ToSet(Template) :
             IF p \in ToSet(Excluded) THEN files[p] = NoFile
             ELSE \E r \in tags \cup {0} : Customized(p, r) /\ \A t \in tags : t <= r

\* New changes nothing in a repository, and what an earlier new has left half
\* made, with the sample's repository in it, is never turned into an extension:
\* no adjust changes its go.mod, and only one that is given another package or
\* description changes the files where these stand.
RepositoryIsKept ==
    /\ cmd = "new" /\ base.git # "none" => files = base.files
    /\ base.git = "sample" =>
         \A p \in Paths : files[p] # base.files[p] => words # "same" /\ p \in Wordy

\* An extension whose go.mod has its own module is not touched by adjust,
\* however often the command is repeated.
OwnModuleIsKept ==
    cmd = "adjust" /\ (base.files["go.mod"].times > 0 \/ base.files["go.mod"].kind # "template")
        => files = base.files

\* What is not theirs.
OthersAreKept == RepositoryIsKept /\ OwnModuleIsKept

\* From a whole sample in a repository of its own an adjust that succeeds makes
\* a whole extension, or has left everything as it was.
AdjustAllOrNothing ==
    LET whole == \A p \in ToSet(Template) : base.files[p] = TemplateFile(0) IN
    cmd = "adjust" /\ exit = 0 /\ whole /\ base.git # "sample" =>
        files = base.files \/ \A p \in ToSet(Template) : Customized(p, 0)

------------------------------------------------------------------------------
(* What the documents say and the code does not do.                          *)

\* "The extension will be ready to build and test": after an adjust of a fork
\* that succeeds and finds its module, no file is torn or customized twice.
AdjustIsWhole ==
    cmd = "adjust" /\ exit = 0 /\ git = "own" /\ gomod.kind = "template" /\ gomod.times > 0 =>
        \A p \in ToSet(Template) : files[p].kind # "torn" /\ files[p].times <= 1
==============================================================================
