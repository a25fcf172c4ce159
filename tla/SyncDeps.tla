------------------------------- MODULE SyncDeps -------------------------------
(***************************************************************************)
(* xk6 sync: Sync of internal/sync and syncRunE of internal/cmd, run again *)
(* and again on one go.mod that somebody else may edit meanwhile.          *)
(*                                                                         *)
(* Sync reads go.mod once, decides which k6 to follow (resolveK6Module,    *)
(* lookup by lookup in K6Resolve and one step here), fetches that k6's     *)
(* go.mod, compares, and has one "go get" child write all differences; the *)
(* report follows.  The command's context is context.Background(), so only *)
(* a kill stops it, and that leaves the child running.                     *)
(***************************************************************************)
EXTENDS Naturals, FiniteSetsExt

CONSTANTS
    Modules,     \* module paths a go.mod may require
    K6,          \* k6's own path among them
    MaxVersion,  \* versions of a module are 1..MaxVersion, 0 is "not required"
    K6Mods,      \* the go.mod of each k6 version
    Needs,       \* what each version of a module requires, directly or not
    MaxRuns,     \* commands started
    MaxEdits,    \* edits by somebody else
    MaxFaults    \* calls that fail: files, proxy, "go get"

Versions == 1..MaxVersion
Requirements == [Modules -> 0..MaxVersion]

ASSUME ModulesAssumption == K6 \in Modules
ASSUME BoundsAssumption ==
    /\ MaxVersion \in Nat \ {0}
    /\ MaxRuns \in Nat
    /\ MaxEdits \in Nat
    /\ MaxFaults \in Nat

\* No k6 requires itself.
ASSUME K6ModsAssumption ==
    /\ K6Mods \in [Versions -> Requirements]
    /\ \A v \in Versions : K6Mods[v][K6] = 0

\* A requirement brings its own along; k6's go.mod is tidy.
ASSUME NeedsAssumption ==
    /\ Needs \in [Modules -> [Versions -> Requirements]]
    /\ \A x, d \in Modules, v \in Versions :
         Needs[x][v][d] > 0 =>
             \A e \in Modules : Needs[d][Needs[x][v][d]][e] <= Needs[x][v][e]
    /\ \A v \in Versions, d \in Modules : K6Mods[v][d] > 0 => Needs[K6][v][d] = K6Mods[v][d]

VARIABLES
    mod,       \* go.mod on disk
    pc,
    opts,      \* k6version and dryRun of the command
    ext,       \* extModfile: go.mod as Sync has read it
    k6,        \* the k6 version followed, 0 before that is known
    changes,   \* result.Changes
    orphans,   \* what "go get" children of killed commands may still write
    runs, edits, faults,
    before,    \* history: go.mod when the command started
    disturbed  \* history: somebody else has written go.mod since

counters == <<runs, edits, faults>>
history == <<before, disturbed>>
vars == <<mod, pc, opts, ext, k6, changes, orphans, counters, history>>

\* -k: not set, a version, or "latest".
Options == [k6version : {"unset", "latest", "version"}, k6 : Versions, dryRun : BOOLEAN]
Change == [module : Modules, from : Versions, to : Versions]
Labels == {"idle", "load", "resolve", "fetch", "goget", "report", "done", "failed", "killed"}

TypeOK ==
    /\ mod \in Requirements
    /\ pc \in Labels
    /\ opts \in Options
    /\ ext \in Requirements
    /\ k6 \in 0..MaxVersion
    /\ changes \subseteq Change
    /\ orphans \subseteq SUBSET Change
    /\ runs \in 0..MaxRuns
    /\ edits \in 0..MaxEdits
    /\ faults \in 0..MaxFaults
    /\ before \in Requirements
    /\ disturbed \in BOOLEAN

\* What the go command leaves in a go.mod: nothing older than the others need.
Consistent(m) ==
    \A x, d \in Modules : m[x] > 0 /\ m[d] > 0 => m[d] >= Needs[x][m[x]][d]

Init ==
    /\ mod \in {m \in Requirements : Consistent(m)}
    /\ pc = "idle"
    /\ opts = [k6version |-> "unset", k6 |-> 1, dryRun |-> TRUE]
    /\ ext = mod
    /\ k6 = 0
    /\ changes = {}
    /\ orphans = {}
    /\ runs = 0
    /\ edits = 0
    /\ faults = 0
    /\ before = mod
    /\ disturbed = FALSE

------------------------------------------------------------------------------
Ended == pc \in {"idle", "done", "failed", "killed"}

Start ==
    /\ Ended
    /\ runs < MaxRuns
    /\ runs' = runs + 1
    /\ opts' \in Options
    /\ pc' = "load"
    /\ k6' = 0
    /\ changes' = {}
    /\ before' = mod
    /\ disturbed' = FALSE
    /\ UNCHANGED <<mod, ext, orphans, edits, faults>>

\* An error goes up to the user.
Fail ==
    /\ pc \in {"load", "resolve", "fetch", "goget", "report"}
    /\ faults < MaxFaults
    /\ faults' = faults + 1
    /\ pc' = "failed"
    /\ UNCHANGED <<mod, opts, ext, k6, changes, orphans, runs, edits, history>>

LoadModfile ==
    /\ pc = "load"
    /\ ext' = mod
    /\ pc' = "resolve"
    /\ UNCHANGED <<mod, opts, k6, changes, orphans, counters, history>>

\* Mutant of ResolveK6Module: the k6 that go.mod requires is not looked for.
ResolveNewest ==
    /\ pc = "resolve"
    /\ k6' \in IF opts.k6version = "version" THEN {opts.k6} ELSE Versions
    /\ pc' = "fetch"
    /\ UNCHANGED <<mod, opts, ext, changes, orphans, counters, history>>

\* "-k latest" is taken for a branch, and no proxy has a .mod file of that name.
NoSuchVersion ==
    /\ pc = "resolve"
    /\ opts.k6version = "latest"
    /\ pc' = "failed"
    /\ UNCHANGED <<mod, opts, ext, k6, changes, orphans, counters, history>>

\* K6Resolve's outcomes: the k6 named by -k, else the one go.mod requires, else
\* the newest found, which under faults may be an older one.
ResolveK6Module ==
    /\ pc = "resolve"
    /\ opts.k6version # "latest"
    /\ k6' \in CASE opts.k6version = "version" -> {opts.k6}
                 [] opts.k6version = "unset" /\ ext[K6] > 0 -> {ext[K6]}
                 [] OTHER -> Versions
    /\ pc' = "fetch"
    /\ UNCHANGED <<mod, opts, ext, changes, orphans, counters, history>>

\* Mutant of DiffRequires: only what k6 has in a newer version is changed.
DiffRequiresUpgrades(e, k) ==
    {[module |-> d, from |-> e[d], to |-> k[d]] :
        d \in {d \in Modules : e[d] > 0 /\ k[d] > e[d]}}

\* Mutant of DiffRequires: k6's requirements the extension does not have count.
DiffRequiresAll(e, k) ==
    {[module |-> d, from |-> e[d], to |-> k[d]] : d \in {d \in Modules : k[d] > 0 /\ e[d] # k[d]}}

DiffRequires(e, k) ==
    {[module |-> d, from |-> e[d], to |-> k[d]] :
        d \in {d \in Modules : e[d] > 0 /\ k[d] > 0 /\ e[d] # k[d]}}

\* getModule, the comparison and the early returns; else "go get" is started.
GetModule ==
    /\ pc = "fetch"
    /\ changes' = DiffRequires(ext, K6Mods[k6])
    /\ pc' = IF changes' = {} \/ opts.dryRun THEN "report" ELSE "goget"
    /\ UNCHANGED <<mod, opts, ext, k6, orphans, counters, history>>

\* "go get" (external).  What is asked for gets exactly that version, added if it
\* is not there; whatever needs more than that goes down to its newest version
\* that does not, or out.
Roots(m, cs) ==
    [d \in Modules |->
        IF \E c \in cs : c.module = d THEN (CHOOSE c \in cs : c.module = d).to
        ELSE Max({0} \cup {v \in 1..m[d] : \A c \in cs : Needs[d][v][c.module] <= c.to})]

\* Minimal version selection.
Selected(r, d) == Max({r[d]} \cup {Needs[e][r[e]][d] : e \in {e \in Modules : r[e] > 0}})

\* A module that is only needed is listed if the extension uses its packages.
AfterGoGet(m, cs) ==
    LET r == Roots(m, cs)
    IN  {[d \in Modules |-> IF r[d] > 0 \/ d \in used THEN Selected(r, d) ELSE 0] :
            used \in SUBSET {d \in Modules : r[d] = 0}}

\* Mutant of GoGet: one "go get" for each change.
GoGetOneByOne ==
    /\ pc = "goget"
    /\ \E c \in changes :
         /\ mod[c.module] # c.to
         /\ mod' \in AfterGoGet(mod, {c})
    /\ pc' = IF \A c \in changes : mod'[c.module] = c.to THEN "report" ELSE "goget"
    /\ UNCHANGED <<opts, ext, k6, changes, orphans, counters, history>>

\* Mutant of GoGet: the requirements are written as they were read.
GoGetWritesSnapshot ==
    /\ pc = "goget"
    /\ mod' \in AfterGoGet(ext, changes)
    /\ pc' = "report"
    /\ UNCHANGED <<opts, ext, k6, changes, orphans, counters, history>>

GoGet ==
    /\ pc = "goget"
    /\ mod' \in AfterGoGet(mod, changes)
    /\ pc' = "report"
    /\ UNCHANGED <<opts, ext, k6, changes, orphans, counters, history>>

\* syncRunE: the output file is created and written only now.
Report ==
    /\ pc = "report"
    /\ pc' = "done"
    /\ UNCHANGED <<mod, opts, ext, k6, changes, orphans, counters, history>>

------------------------------------------------------------------------------
(* The environment.                                                          *)

Kill ==
    /\ ~Ended
    /\ pc' = "killed"
    /\ orphans' = IF pc = "goget" THEN orphans \cup {changes} ELSE orphans
    /\ UNCHANGED <<mod, opts, ext, k6, changes, counters, history>>

OrphanWrites ==
    \E cs \in orphans :
        /\ orphans' = orphans \ {cs}
        /\ mod' \in AfterGoGet(mod, cs)
        /\ disturbed' = (disturbed \/ pc # "killed" \/ cs # changes)
        /\ UNCHANGED <<pc, opts, ext, k6, changes, counters, before>>

Edit ==
    /\ edits < MaxEdits
    /\ edits' = edits + 1
    /\ \E d \in Modules, v \in 0..MaxVersion : mod' = [mod EXCEPT ![d] = v]
    /\ Consistent(mod')
    /\ disturbed' = TRUE
    /\ UNCHANGED <<pc, opts, ext, k6, changes, orphans, runs, faults, before>>

Next ==
    \/ Start \/ LoadModfile \/ NoSuchVersion \/ ResolveK6Module \/ GetModule \/ GoGet \/ Report \/ Fail
    \/ Kill \/ OrphanWrites \/ Edit

Spec == Init /\ [][Next]_vars

------------------------------------------------------------------------------
(* Properties.                                                               *)

\* What sync.md promises of go.mod m, made of b with k6 version v: what was
\* listed in another version than k6's has k6's, and the rest of what both list
\* is no older than it.  (Newer it may be: of what "go get" lowers, the older
\* version may need more of it.)
Follows(m, b, v) ==
    \A d \in Modules :
        b[d] > 0 /\ K6Mods[v][d] > 0 =>
            IF b[d] = K6Mods[v][d] THEN m[d] >= b[d] ELSE m[d] = K6Mods[v][d]

\* Whatever fails and whenever the command is killed, go.mod is either as it
\* was or wholly synchronized, never in between, as long as nobody else writes
\* it: all changes go to one "go get".
AllOrNothing == ~disturbed => mod = before \/ (k6 > 0 /\ Follows(mod, before, k6))

\* A command that reports success has done what it reports: each change it
\* lists was a difference from k6's go.mod, no difference is missing, and go.mod
\* now follows k6; a dry run has changed nothing.
ReportIsTrue ==
    pc = "done" /\ ~disturbed =>
        /\ \A c \in changes : before[c.module] = c.from
        /\ IF opts.dryRun THEN mod = before ELSE Follows(mod, before, k6)
        /\ \A d \in Modules :
             before[d] > 0 /\ K6Mods[k6][d] > 0 =>
                 (before[d] # K6Mods[k6][d] <=> \E c \in changes : c.module = d)

\* In m, d needs a newer version of a module than the one asked for.
Clashes(m, d) == \E c \in changes : m[d] > 0 /\ Needs[d][m[d]][c.module] > c.to

\* An older version of a module that clashes needs d in version v.
Pulled(m, d, v) ==
    \E x \in Modules : Clashes(m, x) /\ \E w \in 1..(m[x] - 1) : Needs[x][w][d] = v

\* Without -k the extension's own k6 is not lowered, and what no change names is
\* moved only if it cannot stay with k6's versions, or if something that cannot
\* pulls it up.  ("Dependencies not found in k6's go.mod remain unchanged", says
\* sync.md; these are the ones that do not.)
DefaultKeepsOthers ==
    opts.k6version = "unset" /\ ~disturbed /\ before[K6] > 0 =>
        /\ mod[K6] >= before[K6]
        /\ \A d \in Modules :
             before[d] > 0 /\ mod[d] # before[d] =>
                 \/ \E c \in changes : c.module = d
                 \/ Clashes(before, d)
                 \/ mod[d] > before[d] /\ Pulled(before, d, mod[d])

\* A line that somebody else has added or changed while the command ran stays,
\* unless a change names its module or it cannot stand beside the changes: it
\* needs more than they ask for, or what they ask for, or pull, needs more of it.
EditsSurvive ==
    [][pc = "goget" /\ pc' = "report" =>
        \A d \in Modules :
            mod[d] > 0 /\ mod'[d] # mod[d] =>
                \/ \E c \in changes : c.module = d
                \/ Clashes(mod, d)
                \/ /\ mod'[d] > mod[d]
                   /\ \/ Pulled(mod, d, mod'[d])
                      \/ \E c \in changes : Needs[c.module][c.to][d] = mod'[d]]_vars
==============================================================================
