---------------------------- MODULE TestRunProofs ----------------------------
(***************************************************************************)
(* Proofs about xk6 test, for any patterns, any number of test files, any  *)
(* logs, any pipe and any number of failing calls.                         *)
(***************************************************************************)
EXTENDS TestRun, FunctionTheorems, SequenceTheorems, FiniteSetTheorems, TLAPS

LEMMA Constants ==
    /\ \A g \in Globs : g \in Seq(Nat) /\ Len(g) <= MaxRuns
    /\ MaxRuns \in Nat /\ MaxLines \in Nat /\ PipeSize \in Nat \ {0} /\ MaxFaults \in Nat
BY GlobsAssumption, BoundsAssumption

------------------------------------------------------------------------------
(* The files to test.                                                        *)

\* The files that come before x.
Before(S, x) == {y \in S : y < x}

LEMMA BeforeCounts ==
    ASSUME NEW S \in SUBSET Nat, IsFiniteSet(S)
    PROVE  /\ \A x \in S : Cardinality(Before(S, x)) + 1 \in 1..Cardinality(S)
           /\ \A x, y \in S : x < y => Cardinality(Before(S, x)) < Cardinality(Before(S, y))
<1>0. Cardinality(S) \in Nat
  BY FS_CardinalityType
<1>1. ASSUME NEW x \in S
      PROVE  IsFiniteSet(Before(S, x)) /\ Cardinality(Before(S, x)) \in Nat
  <2>1. Before(S, x) \in SUBSET S
    BY DEF Before
  <2>2. QED
    BY <2>1, FS_Subset, FS_CardinalityType
<1>2. ASSUME NEW T \in SUBSET S, NEW x \in S, x \notin Before(S, x), x \in T,
             Before(S, x) \subseteq T
      PROVE  Cardinality(Before(S, x)) < Cardinality(T)
  <2>1. IsFiniteSet(T) /\ Cardinality(T) \in Nat
    BY FS_Subset, FS_CardinalityType
  <2>2. /\ Cardinality(Before(S, x)) <= Cardinality(T)
        /\ Cardinality(T) = Cardinality(Before(S, x)) => T = Before(S, x)
    BY <1>2, <2>1, FS_Subset
  <2>3. T # Before(S, x)
    BY <1>2
  <2>4. QED
    BY <1>1, <2>1, <2>2, <2>3
<1>3. ASSUME NEW x \in S
      PROVE  Cardinality(Before(S, x)) + 1 \in 1..Cardinality(S)
  <2>1. x \notin Before(S, x) /\ Before(S, x) \subseteq S
    BY DEF Before
  <2>2. Cardinality(Before(S, x)) < Cardinality(S)
    BY <1>2, <2>1
  <2>3. QED
    BY <1>0, <1>1, <2>2
<1>4. ASSUME NEW x \in S, NEW y \in S, x < y
      PROVE  Cardinality(Before(S, x)) < Cardinality(Before(S, y))
  <2>1. /\ x \notin Before(S, x) /\ Before(S, y) \subseteq S
        /\ x \in Before(S, y) /\ Before(S, x) \subseteq Before(S, y)
    <3>1. \A z \in S : z \in Nat /\ x \in Nat /\ y \in Nat
      OBVIOUS
    <3>2. ~(x < x) /\ \A z \in S : z < x => z < y
      BY <1>4, <3>1
    <3>3. QED
      BY <1>4, <3>2 DEF Before
  <2>2. QED
    BY <1>2, <2>1
<1>5. QED
  BY <1>3, <1>4

\* sort.Strings and slices.Compact: each name once, in order.
LEMMA SortCompactSorts ==
    ASSUME NEW s \in Seq(Nat), Len(s) <= MaxRuns
    PROVE  /\ SortCompact(s) \in Seq(Nat)
           /\ Len(SortCompact(s)) = Cardinality(ToSet(s))
           /\ Len(SortCompact(s)) \in 0..MaxRuns
           /\ s # <<>> => Len(SortCompact(s)) > 0
           /\ {SortCompact(s)[i] : i \in 1..Len(SortCompact(s))} = ToSet(s)
           /\ \A i, j \in 1..Len(SortCompact(s)) :
                i < j => SortCompact(s)[i] < SortCompact(s)[j]
<1> DEFINE S == ToSet(s)
           n == Cardinality(S)
           f == SortCompact(s)
<1>1. S \in SUBSET Nat /\ IsFiniteSet(S) /\ n \in 0..MaxRuns /\ (s # <<>> => n > 0)
  <2>1. DOMAIN s = 1..Len(s) /\ Len(s) \in Nat /\ s \in [1..Len(s) -> Nat]
    BY LenProperties
  <2>2. s \in Surjection(1..Len(s), S)
    BY <2>1 DEF Surjection, ToSet
  <2>3. IsFiniteSet(1..Len(s)) /\ Cardinality(1..Len(s)) = Len(s)
    <3>1. /\ 1 \in Int /\ Len(s) \in Int
          /\ (IF 1 > Len(s) THEN 0 ELSE Len(s) - 1 + 1) = Len(s)
      BY <2>1
    <3>2. QED
      BY <3>1, FS_Interval
  <2>4. IsFiniteSet(S) /\ n <= Len(s) /\ n \in Nat
    BY <2>2, <2>3, FS_Surjection, FS_CardinalityType
  <2>5. S \in SUBSET Nat
    BY <2>1 DEF ToSet
  <2>6. ASSUME s # <<>>
        PROVE  n > 0
    <3>1. Len(s) # 0
      BY <2>6, EmptySeq
    <3>2. s[1] \in S
      BY <2>1, <3>1 DEF ToSet
    <3>3. n # 0
      BY <2>4, <3>2, FS_EmptySet
    <3>4. QED
      BY <2>4, <3>3
  <2>7. QED
    BY <2>4, <2>5, <2>6, Constants
<1> DEFINE rank == [x \in S |-> Cardinality(Before(S, x)) + 1]
<1>2. f = [i \in 1..n |-> CHOOSE x \in S : Cardinality(Before(S, x)) = i - 1]
  BY DEF SortCompact, Before
<1> HIDE DEF S, f
<1>3. /\ \A x \in S : rank[x] \in 1..n
      /\ \A x, y \in S : x < y => rank[x] < rank[y]
  <2>1. \A x \in S : Cardinality(Before(S, x)) + 1 \in 1..n
    BY <1>1, BeforeCounts
  <2>2. \A x, y \in S : x < y => Cardinality(Before(S, x)) < Cardinality(Before(S, y))
    BY <1>1, BeforeCounts
  <2>3. \A x \in S : rank[x] = Cardinality(Before(S, x)) + 1 /\ Cardinality(Before(S, x)) \in Nat
    <3>1. \A x \in S : Before(S, x) \in SUBSET S
      BY DEF Before
    <3>2. \A x \in S : Cardinality(Before(S, x)) \in Nat
      BY <1>1, <3>1, FS_Subset, FS_CardinalityType
    <3>3. QED
      BY <3>2
  <2> HIDE DEF rank, n
  <2>4. QED
    BY <2>1, <2>2, <2>3
<1>4. \A i \in 1..n : f[i] \in S /\ rank[f[i]] = i
  <2>1. rank \in Injection(S, 1..n)
    <3>1. rank \in [S -> 1..n]
      BY <1>3
    <3>2. \A x, y \in S : rank[x] = rank[y] => x = y
      <4>1. \A x, y \in S : x = y \/ x < y \/ y < x
        BY <1>1
      <4>2. \A x \in S : ~(rank[x] < rank[x])
        BY <1>3
      <4> HIDE DEF rank
      <4>3. QED
        BY <1>3, <4>1, <4>2
    <3> HIDE DEF rank
    <3>3. QED
      BY <3>1, <3>2 DEF Injection, IsInjective
  <2>2. IsFiniteSet(1..n) /\ Cardinality(1..n) = n
    BY <1>1, FS_Interval
  <2> HIDE DEF rank
  <2>3. rank \in Surjection(S, 1..n)
    BY <2>1, <2>2, FS_Injection
  <2>4. ASSUME NEW i \in 1..n
        PROVE  \E x \in S : Cardinality(Before(S, x)) = i - 1
    <3>1. PICK x \in S : rank[x] = i
      BY <2>3 DEF Surjection
    <3>2. Cardinality(Before(S, x)) \in Nat
      <4>1. Before(S, x) \in SUBSET S
        BY DEF Before
      <4>2. QED
        BY <1>1, <4>1, FS_Subset, FS_CardinalityType
    <3>3. Cardinality(Before(S, x)) = i - 1
      BY <1>1, <3>1, <3>2 DEF rank
    <3>4. QED
      BY <3>3
  <2>5. ASSUME NEW i \in 1..n
        PROVE  f[i] \in S /\ rank[f[i]] = i
    <3>1. f[i] = CHOOSE x \in S : Cardinality(Before(S, x)) = i - 1
      BY <1>2
    <3>2. f[i] \in S /\ Cardinality(Before(S, f[i])) = i - 1
      BY <2>4, <3>1
    <3>3. QED
      BY <1>1, <3>2 DEF rank
  <2>6. QED
    BY <2>5
<1> HIDE DEF rank
<1>5. f \in [1..n -> Nat] /\ n \in Nat
  <2>1. n \in Nat /\ \A x \in S : x \in Nat
    BY <1>1, Constants
  <2>2. QED
    BY <1>2, <1>4, <2>1
<1> HIDE DEF n
<1>6. f \in Seq(Nat)
  <2>1. f \in UNION {[1..m -> Nat] : m \in Nat}
    BY <1>5
  <2>2. QED
    BY <2>1, SeqDef
<1>7. Len(f) = n
  BY <1>5, <1>6, LenProperties
<1>8. {f[i] : i \in 1..Len(f)} = S
  <2>1. \A x \in S : f[rank[x]] = x
    <3> SUFFICES ASSUME NEW x \in S
                 PROVE  f[rank[x]] = x
      OBVIOUS
    <3>1. /\ rank[x] \in 1..n /\ f[rank[x]] \in S
          /\ rank[f[rank[x]]] = rank[x]
      BY <1>3, <1>4
    <3>2. f[rank[x]] < x \/ x < f[rank[x]] \/ x = f[rank[x]]
      <4>1. \A y \in S : y \in Nat
        BY <1>1
      <4>2. f[rank[x]] \in Nat /\ x \in Nat
        BY <3>1, <4>1
      <4>3. QED
        BY ONLY <4>2
    <3>3. ~(rank[x] < rank[x])
      BY <1>5, <3>1
    <3>4. QED
      BY <1>3, <3>1, <3>2, <3>3
  <2>2. QED
    BY <1>3, <1>4, <1>7, <2>1
<1>9. ASSUME NEW i \in 1..Len(f), NEW j \in 1..Len(f), i < j
      PROVE  f[i] < f[j]
  <2>1. f[i] \in S /\ f[j] \in S /\ rank[f[i]] = i /\ rank[f[j]] = j
    BY <1>4, <1>7
  <2>2. f[i] < f[j] \/ f[j] < f[i] \/ f[i] = f[j]
    <3>1. \A y \in S : y \in Nat
      BY <1>1
    <3>2. f[i] \in Nat /\ f[j] \in Nat
      BY <2>1, <3>1
    <3>3. QED
      BY ONLY <3>2
  <2>3. i # j /\ ~(j < i)
    BY <1>5, <1>7, <1>9
  <2>4. QED
    BY <1>3, <2>1, <2>2, <2>3
<1>10. QED
  BY <1>1, <1>6, <1>7, <1>8, <1>9 DEF f, S, n

------------------------------------------------------------------------------
(* The invariant.                                                            *)

\* Where the files and their results stand.
Place ==
    /\ pc \in {"output", "build", "glob"} => filenames = <<>> /\ exit = NoExit
    /\ filenames # <<>> => globbed # <<>> /\ filenames = SortCompact(globbed)
    /\ filenames = <<>> => cur = 1 /\ results = <<>>
    /\ pc \in {"start", "read"} => cur <= Len(filenames) /\ exit = NoExit
    /\ pc = "report" => filenames # <<>> /\ cur = Len(filenames) + 1 /\ exit = NoExit
    /\ pc = "exit" => \/ cur = Len(filenames) + 1 /\ filenames # <<>> /\ ~temp
                      \/ filenames = <<>> /\ (exit = 1 \/ (exit = 2 /\ Panics))
    /\ cur <= Len(filenames) + 1
    /\ Len(results) = cur - 1
    /\ \A i \in 1..Len(results) : results[i].file = filenames[i]

\* The k6 processes, those of files to come not started.
Processes ==
    /\ DOMAIN written = Runs /\ DOMAIN read = Runs
    /\ \A i \in Runs : i > cur \/ (i = cur /\ pc # "read") =>
         proc[i] = "none" /\ written[i] = 0 /\ read[i] = 0
    /\ pc = "read" => proc[cur] # "none"
    /\ \A i \in Runs : proc[i] = "exited" /\ code[i] = 0 => written[i] = Len(lines[i])

\* What runAndLog has made of the log so far.
Heard ==
    pc = "read" =>
        LET reasons == {k \in 1..read[cur] : lines[cur][k] = "reason"} IN
        /\ details = 0 => reasons = {}
        /\ details # 0 => details \in reasons /\ \A k \in reasons : details <= k

\* What the exit code rests on.
Counted ==
    /\ faults > 0 /\ filenames # <<>> /\ pc # "exit" => Failed # {}
    /\ pc = "exit" => /\ exit = 0 => filenames # <<>> /\ Failed = {} /\ (json => faults = 0)
                      /\ exit = 2 => (filenames # <<>> /\ Failed # {}) \/ Panics
                      /\ exit = 1 => \/ faults > 0 \/ cancelled \/ globbed = <<>>
                                     \/ ~given /\ gomod = "none"
                      /\ exit # NoExit
    /\ pc \in {"output", "build", "glob"} => faults = 0

IInv ==
    /\ TypeOK
    /\ Place
    /\ Processes
    /\ Heard
    /\ Counted
    /\ ResultsAreEarned
    /\ OneAtATime

LEMMA InitIInv == Init => IInv
<1> SUFFICES ASSUME Init
             PROVE  IInv
  OBVIOUS
<1> USE DEF Init
<1>1. TypeOK
  <2>1. filenames \in Seq(Nat) /\ results \in Seq(Result) /\ Len(<<>>) = 0
    BY EmptySeq
  <2>2. lines \in [Runs -> Scripts]
    <3>1. <<>> \in [1..0 -> Line] /\ 0 \in 0..MaxLines
      BY Constants
    <3>2. <<>> \in Scripts
      BY <3>1 DEF Scripts
    <3>3. QED
      BY <3>2
  <2>3. cur \in 1..(MaxRuns + 1) /\ details \in 0..MaxLines /\ faults \in 0..MaxFaults
    BY Constants
  <2>4. \A i \in Runs : /\ written[i] \in 0..Len(lines[i])
                        /\ read[i] \in 0..written[i]
                        /\ written[i] - read[i] <= PipeSize
    BY <2>1, Constants
  <2>5. QED
    BY <2>1, <2>2, <2>3, <2>4 DEF TypeOK, Labels, Codes, NoExit
<1>2. Len(results) = 0 /\ Len(filenames) = 0
  BY EmptySeq
<1>3. Place
  BY <1>2 DEF Place
<1>4. Processes /\ Heard /\ Counted
  BY DEF Processes, Heard, Counted, Runs
<1>5. ResultsAreEarned /\ OneAtATime
  BY <1>2 DEF ResultsAreEarned, VerdictIsEarned, FirstReason, OneAtATime, Runs
<1>6. QED
  BY <1>1, <1>3, <1>4, <1>5 DEF IInv

------------------------------------------------------------------------------
(* What the steps rest on.                                                   *)

LEMMA ScriptsAreSequences ==
    /\ \A s \in Scripts : s \in Seq(Line) /\ Len(s) \in 0..MaxLines
    /\ \A s \in Seq(Line) : Len(s) <= MaxLines => s \in Scripts
<1>1. ASSUME NEW s \in Scripts
      PROVE  s \in Seq(Line) /\ Len(s) \in 0..MaxLines
  <2>1. PICK n \in 0..MaxLines : s \in [1..n -> Line]
    BY DEF Scripts
  <2>2. n \in Nat
    BY Constants
  <2>3. s \in UNION {[1..m -> Line] : m \in Nat}
    BY <2>1, <2>2
  <2>4. s \in Seq(Line)
    BY <2>3, SeqDef
  <2>5. Len(s) = n
    BY <2>1, <2>2, <2>4, LenProperties
  <2>6. QED
    BY <2>4, <2>5
<1>2. ASSUME NEW s \in Seq(Line), Len(s) <= MaxLines
      PROVE  s \in Scripts
  <2>1. s \in [1..Len(s) -> Line] /\ Len(s) \in 0..MaxLines
    BY <1>2, Constants, LenProperties
  <2>2. QED
    BY <2>1 DEF Scripts
<1>3. QED
  BY <1>1, <1>2

\* The file that is being tested.
LEMMA Current ==
    ASSUME TypeOK, Place, pc \in {"start", "read"}
    PROVE  /\ filenames # <<>> /\ Len(filenames) \in 1..MaxRuns
           /\ cur \in Runs /\ cur <= Len(filenames) /\ filenames[cur] \in Nat
           /\ DOMAIN results = 1..(cur - 1) /\ cur \in Nat
<1>1. cur \in Nat /\ cur >= 1 /\ cur <= Len(filenames)
  BY Constants DEF TypeOK, Place
<1>2. filenames # <<>>
  <2>1. Len(<<>>) = 0
    BY EmptySeq
  <2>2. QED
    BY <1>1, <2>1
<1>3. globbed \in Seq(Nat) /\ Len(globbed) <= MaxRuns
  BY Constants DEF TypeOK
<1>4. filenames \in Seq(Nat) /\ Len(filenames) \in 0..MaxRuns
  BY <1>2, <1>3, SortCompactSorts DEF Place
<1>5. DOMAIN results = 1..Len(results) /\ Len(results) = cur - 1
  BY LenProperties DEF TypeOK, Place
<1>6. filenames[cur] \in Nat
  BY <1>1, <1>4, ElementOfSeq
<1>7. QED
  BY <1>1, <1>2, <1>4, <1>5, <1>6, Constants DEF Runs

LEMMA FaultIsANumber ==
    ASSUME TypeOK, UNCHANGED faults \/ Fault
    PROVE  faults' \in 0..MaxFaults /\ (faults > 0 => faults' > 0) /\ (Fault => faults' > 0)
BY Constants DEF TypeOK, Fault

------------------------------------------------------------------------------
(* k6.                                                                       *)

\* A running k6 may log, end or die, but what has been read of it stays.
LEMMA K6Step ==
    ASSUME IInv, NEW i \in Runs, proc[i] = "running",
           UNCHANGED <<Parent, cancelled>>,
           proc' \in [Runs -> {"none", "running", "exited"}], proc'[i] # "none",
           lines' \in [Runs -> Scripts], code' \in [Runs -> Codes], DOMAIN written' = Runs,
           \A j \in Runs \ {i} : /\ proc'[j] = proc[j] /\ lines'[j] = lines[j]
                               /\ code'[j] = code[j] /\ written'[j] = written[j],
           \A k \in 1..read[i] : lines'[i][k] = lines[i][k],
           written'[i] \in 0..Len(lines'[i]), read[i] \in 0..written'[i],
           written'[i] - read[i] <= PipeSize,
           proc'[i] = "exited" /\ code'[i] = 0 => written'[i] = Len(lines'[i])
    PROVE  IInv'
<1> USE DEF IInv, Parent, input
<1>1. TypeOK'
  <2>1. \A j \in Runs : /\ written'[j] \in 0..Len(lines'[j])
                        /\ read'[j] \in 0..written'[j]
                        /\ written'[j] - read'[j] <= PipeSize
    BY DEF TypeOK
  <2>2. QED
    BY <2>1 DEF TypeOK
<1>2. Place'
  BY DEF Place, Panics
<1>3. Processes'
  <2>1. ASSUME NEW j \in Runs, j > cur \/ (j = cur /\ pc # "read")
        PROVE  proc'[j] = "none" /\ written'[j] = 0 /\ read[j] = 0
    <3>1. proc[j] = "none" /\ written[j] = 0 /\ read[j] = 0
      BY <2>1 DEF Processes
    <3>2. j # i
      BY <3>1
    <3>3. QED
      BY <3>1, <3>2
  <2>2. ASSUME pc = "read"
        PROVE  proc'[cur] # "none"
    <3>1. cur \in Runs /\ proc[cur] # "none"
      BY <2>2, Current DEF Processes
    <3>2. QED
      BY <3>1
  <2>3. DOMAIN read' = Runs
    BY DEF Processes
  <2>4. \A j \in Runs : proc'[j] = "exited" /\ code'[j] = 0 => written'[j] = Len(lines'[j])
    BY DEF Processes
  <2>5. QED
    BY <2>1, <2>2, <2>3, <2>4 DEF Processes
<1>4. Failed' = Failed
  BY DEF Failed
<1>5. Counted'
  BY <1>4 DEF Counted, Panics
<1>6. \A j \in Runs : \A k \in 1..read[j] : lines'[j][k] = lines[j][k]
  OBVIOUS
<1>7. \A j \in Runs : {k \in 1..read[j] : lines'[j][k] = "reason"} =
                     {k \in 1..read[j] : lines[j][k] = "reason"}
  BY <1>6
<1>8. \A j \in Runs : Abandoned(j)' <=> Abandoned(j)
  BY <1>6 DEF Abandoned
<1>9. 1..Len(results) \subseteq Runs /\ (pc = "read" => cur \in Runs)
  <2>1. Len(results) <= MaxRuns /\ MaxRuns \in Nat
    BY Constants DEF TypeOK, Place
  <2>2. 1..Len(results) \subseteq Runs
    BY ONLY <2>1 DEF Runs
  <2>3. pc = "read" => cur \in Runs
    BY Current
  <2>4. QED
    BY <2>2, <2>3
<1>10. Heard'
  <2>1. UNCHANGED <<pc, cur, details, read>>
    OBVIOUS
  <2>2. Heard
    OBVIOUS
  <2>3. QED
    BY ONLY <1>7, <1>9, <2>1, <2>2 DEF Heard
<1>11. VerdictIsEarned'
  <2> SUFFICES ASSUME NEW j \in 1..Len(results)
               PROVE  IF results[j].passed
                      THEN proc'[j] = "exited" /\ code'[j] = 0 /\ read[j] = Len(lines'[j])
                      ELSE \/ proc'[j] = "exited" /\ (code'[j] # 0 \/ cancelled)
                           \/ proc'[j] = "none" /\ (faults > 0 \/ cancelled)
                           \/ Abandoned(j)'
    BY DEF VerdictIsEarned
  <2>1. IF results[j].passed
        THEN proc[j] = "exited" /\ code[j] = 0 /\ read[j] = Len(lines[j])
        ELSE \/ proc[j] = "exited" /\ (code[j] # 0 \/ cancelled)
             \/ proc[j] = "none" /\ (faults > 0 \/ cancelled)
             \/ Abandoned(j)
    BY DEF ResultsAreEarned, VerdictIsEarned
  <2>2. j \in Runs
    BY <1>9
  <2>3. QED
    BY <1>8, <2>1, <2>2
<1>12. FirstReason'
  <2>1. \A j \in 1..Len(results) :
          LET reasons == {k \in 1..read[j] : lines[j][k] = "reason"} IN
          /\ results[j].message = "reason" =>
               results[j].line \in reasons /\ \A k \in reasons : results[j].line <= k
          /\ results[j].message = "code" => reasons = {}
          /\ results[j].message = "error" => reasons = {} \/ Abandoned(j)
    BY DEF ResultsAreEarned, FirstReason
  <2>2. \A j \in 1..Len(results) : j \in Runs
    BY <1>9
  <2>3. results' = results /\ read' = read
    OBVIOUS
  <2>4. QED
    BY ONLY <1>7, <1>8, <2>1, <2>2, <2>3 DEF FirstReason
<1>13. OneAtATime'
  BY <1>8 DEF OneAtATime
<1>14. QED
  BY <1>1, <1>2, <1>3, <1>5, <1>10, <1>11, <1>12, <1>13 DEF ResultsAreEarned

LEMMA K6LogsStep == ASSUME IInv, NEW i \in Runs, K6Logs(i) PROVE IInv'
<1> USE DEF IInv
<1>1. /\ lines[i] \in Seq(Line) /\ Len(lines[i]) \in Nat
      /\ written[i] \in 0..Len(lines[i]) /\ read[i] \in 0..written[i]
  BY ScriptsAreSequences, LenProperties DEF TypeOK
<1>2. /\ written'[i] = written[i] + 1 /\ DOMAIN written' = Runs
      /\ \A j \in Runs \ {i} : written'[j] = written[j]
  BY DEF K6Logs, Processes
<1>3. /\ written'[i] \in 0..Len(lines'[i]) /\ read[i] \in 0..written'[i]
      /\ written'[i] - read[i] <= PipeSize
  BY <1>1, <1>2, Constants DEF K6Logs
<1>4. proc' = proc /\ lines' = lines /\ code' = code /\ proc[i] = "running"
  BY DEF K6Logs
<1>5. UNCHANGED <<Parent, cancelled>>
  BY DEF K6Logs
<1>6. QED
  BY <1>2, <1>3, <1>4, <1>5, K6Step DEF TypeOK

LEMMA K6ExitsStep == ASSUME IInv, NEW i \in Runs, K6Exits(i) PROVE IInv'
<1> USE DEF IInv
<1>1. /\ proc' \in [Runs -> {"none", "running", "exited"}] /\ proc'[i] = "exited"
      /\ \A j \in Runs \ {i} : proc'[j] = proc[j]
  BY DEF K6Exits, TypeOK
<1>2. code' \in [Runs -> Codes] /\ \A j \in Runs \ {i} : code'[j] = code[j]
  <2>1. PICK c \in {0, 99} : code' = [code EXCEPT ![i] = c]
    BY DEF K6Exits
  <2>2. QED
    BY <2>1 DEF TypeOK, Codes
<1>3. /\ written' = written /\ lines' = lines /\ proc[i] = "running"
      /\ written[i] = Len(lines[i])
      /\ UNCHANGED <<Parent, cancelled>>
  BY DEF K6Exits
<1>4. QED
  BY <1>1, <1>2, <1>3, K6Step DEF TypeOK, Processes

\* The log of a k6 that is killed within a line.
LEMMA CutLog ==
    ASSUME TypeOK, NEW i \in Runs, written[i] < Len(lines[i]),
           NEW new, new = SubSeq(lines[i], 1, written[i]) \o <<"text">>
    PROVE  /\ new \in Scripts /\ Len(new) = written[i] + 1 /\ Len(new) <= Len(lines[i])
           /\ \A k \in 1..written[i] : new[k] = lines[i][k]
<1>1. /\ lines[i] \in Seq(Line) /\ Len(lines[i]) \in 0..MaxLines
      /\ written[i] \in 0..Len(lines[i])
  BY ScriptsAreSequences DEF TypeOK
<1> DEFINE cut == SubSeq(lines[i], 1, written[i])
<1>2. /\ cut \in Seq(Line) /\ Len(cut) = written[i]
      /\ \A k \in 1..written[i] : cut[k] = lines[i][k]
  <2>1. 1 \in 1..(Len(lines[i]) + 1) /\ written[i] \in 0..Len(lines[i])
    BY <1>1, Constants
  <2>2. QED
    BY <1>1, <2>1, SubSeqProperties, Constants
<1>3. <<"text">> \in Seq(Line) /\ Len(<<"text">>) = 1
  BY DEF Line
<1>4. new = cut \o <<"text">>
  OBVIOUS
<1> HIDE DEF cut
<1>5. /\ new \in Seq(Line) /\ Len(new) = written[i] + 1
      /\ \A k \in 1..written[i] : new[k] = lines[i][k]
  BY <1>1, <1>2, <1>3, <1>4, ConcatProperties
<1>6. Len(new) <= Len(lines[i]) /\ Len(new) <= MaxLines
  BY <1>1, <1>5, Constants
<1>7. QED
  BY <1>5, <1>6, ScriptsAreSequences

LEMMA K6KilledStep == ASSUME IInv, NEW i \in Runs, K6Killed(i) PROVE IInv'
<1> USE DEF IInv
<1>1. /\ proc' \in [Runs -> {"none", "running", "exited"}] /\ proc'[i] = "exited"
      /\ \A j \in Runs \ {i} : proc'[j] = proc[j]
  BY DEF K6Killed, TypeOK
<1>2. /\ code' \in [Runs -> Codes] /\ code'[i] = 255
      /\ \A j \in Runs \ {i} : code'[j] = code[j]
  BY DEF K6Killed, TypeOK, Codes
<1>3. proc[i] = "running" /\ UNCHANGED <<Parent, cancelled>>
  BY DEF K6Killed
<1>4. /\ lines[i] \in Seq(Line) /\ Len(lines[i]) \in 0..MaxLines
      /\ written[i] \in 0..Len(lines[i]) /\ read[i] \in 0..written[i]
      /\ written[i] - read[i] <= PipeSize
  BY ScriptsAreSequences DEF TypeOK
<1>5. CASE UNCHANGED <<lines, written>>
  <2>1. /\ written'[i] \in 0..Len(lines'[i]) /\ read[i] \in 0..written'[i]
        /\ written'[i] - read[i] <= PipeSize
    BY <1>4, <1>5
  <2>2. lines' \in [Runs -> Scripts] /\ DOMAIN written' = Runs
    BY <1>5 DEF TypeOK, Processes
  <2>3. code'[i] # 0
    BY <1>2
  <2>4. QED
    BY <1>1, <1>2, <1>3, <1>5, <2>1, <2>2, <2>3, K6Step
<1>6. CASE /\ written[i] < Len(lines[i]) /\ written[i] - read[i] < PipeSize
           /\ lines' = [lines EXCEPT ![i] = SubSeq(@, 1, written[i]) \o <<"text">>]
           /\ written' = [written EXCEPT ![i] = @ + 1]
  <2> DEFINE new == SubSeq(lines[i], 1, written[i]) \o <<"text">>
  <2>1. /\ new \in Scripts /\ Len(new) = written[i] + 1
        /\ \A k \in 1..written[i] : new[k] = lines[i][k]
    BY <1>6, CutLog
  <2>2. lines' = [lines EXCEPT ![i] = new]
    BY <1>6
  <2> HIDE DEF new
  <2>3. /\ lines' \in [Runs -> Scripts] /\ lines'[i] = new
        /\ \A j \in Runs \ {i} : lines'[j] = lines[j]
    BY <2>1, <2>2 DEF TypeOK
  <2>4. /\ DOMAIN written' = Runs /\ written'[i] = written[i] + 1
        /\ \A j \in Runs \ {i} : written'[j] = written[j]
    BY <1>6 DEF Processes
  <2>5. /\ written'[i] \in 0..Len(lines'[i]) /\ read[i] \in 0..written'[i]
        /\ written'[i] - read[i] <= PipeSize
    BY <1>4, <1>6, <2>1, <2>3, <2>4, Constants
  <2>6. \A k \in 1..read[i] : lines'[i][k] = lines[i][k]
    BY <1>4, <2>1, <2>3, Constants
  <2>7. QED
    BY <1>1, <1>2, <1>3, <2>3, <2>4, <2>5, <2>6, K6Step
<1>7. QED
  BY <1>5, <1>6 DEF K6Killed

------------------------------------------------------------------------------
(* runFile.                                                                  *)

\* The result of the current file, with what has been read of its log.
LEMMA RecordStep ==
    ASSUME IInv, pc \in {"start", "read"},
           NEW passed \in BOOLEAN, NEW message \in {"none", "reason", "code", "error"},
           NEW line \in 0..MaxLines, Record(passed, message, line),
           UNCHANGED <<input, filenames, k6, temp, cancelled, exit>>,
           details' \in 0..MaxLines,
           DOMAIN read' = Runs, \A j \in Runs \ {cur} : read'[j] = read[j],
           read'[cur] \in 0..written[cur], written[cur] - read'[cur] <= PipeSize,
           UNCHANGED faults \/ (Fault /\ ~passed),
           passed => proc[cur] = "exited" /\ code[cur] = 0 /\ read'[cur] = Len(lines[cur]),
           ~passed => \/ proc[cur] = "exited" /\ (code[cur] # 0 \/ cancelled)
                      \/ proc[cur] = "none" /\ (faults' > 0 \/ cancelled)
                      \/ \E k \in 1..read'[cur] : lines[cur][k] = "text",
           proc[cur] = "running" => \E k \in 1..read'[cur] : lines[cur][k] = "text",
           message = "reason" =>
               /\ line \in 1..read'[cur] /\ lines[cur][line] = "reason"
               /\ \A k \in 1..read'[cur] : lines[cur][k] = "reason" => line <= k,
           message = "code" => \A k \in 1..read'[cur] : lines[cur][k] # "reason",
           message = "error" => \/ \A k \in 1..read'[cur] : lines[cur][k] # "reason"
                                \/ \E k \in 1..read'[cur] : lines[cur][k] = "text"
    PROVE  IInv'
<1> USE DEF IInv, input, k6
<1>0. /\ filenames # <<>> /\ Len(filenames) \in 1..MaxRuns
      /\ cur \in Runs /\ cur <= Len(filenames) /\ filenames[cur] \in Nat
      /\ DOMAIN results = 1..(cur - 1) /\ cur \in Nat
  BY Current
<1> DEFINE new == [file |-> filenames[cur], passed |-> passed, message |-> message,
                   line |-> line]
<1>1. /\ results' \in Seq(Result) /\ Len(results) = cur - 1 /\ Len(results') = cur
      /\ \A j \in 1..(cur - 1) : results'[j] = results[j]
      /\ results'[cur] = new
  <2>1. new \in Result /\ results \in Seq(Result) /\ Len(results) = cur - 1
    BY <1>0 DEF Result, TypeOK, Place
  <2>2. results' = Append(results, new)
    BY DEF Record
  <2> HIDE DEF new
  <2>3. QED
    BY <1>0, <2>1, <2>2, AppendProperties
<1>2. /\ cur' = cur + 1 /\ pc' \in {"start", "report"}
      /\ pc' = "report" <=> cur = Len(filenames)
  BY DEF Record, NextFile
<1>3. faults' \in 0..MaxFaults /\ (faults > 0 => faults' > 0)
  BY FaultIsANumber
<1>4. MaxRuns \in Nat /\ cur \in 1..MaxRuns
  BY <1>0, Constants DEF Runs
<1>5. TypeOK'
  <2>1. cur' \in 1..(MaxRuns + 1) /\ pc' \in Labels
    BY <1>2, <1>4 DEF Labels
  <2>2. \A j \in Runs : read'[j] \in 0..written[j] /\ written[j] - read'[j] <= PipeSize
    BY DEF TypeOK
  <2>3. QED
    BY <1>1, <1>3, <2>1, <2>2 DEF TypeOK
<1>6. Place'
  <2>1. \A j \in 1..Len(results') : results'[j].file = filenames'[j]
    <3>1. \A j \in 1..(cur - 1) : results[j].file = filenames[j]
      BY <1>1 DEF Place
    <3>2. \A j \in 1..cur : j \in 1..(cur - 1) \/ j = cur
      BY <1>0
    <3>3. results'[cur].file = filenames[cur]
      BY <1>1
    <3>4. QED
      BY <1>1, <3>1, <3>2, <3>3
  <2>2. exit = NoExit
    BY DEF Place
  <2>3. cur' <= Len(filenames) + 1 /\ (pc' = "start" => cur' <= Len(filenames))
    BY <1>0, <1>2
  <2>4. Len(results') = cur' - 1
    BY <1>0, <1>1, <1>2
  <2>5. QED
    BY <1>0, <1>2, <2>1, <2>2, <2>3, <2>4 DEF Place
<1>7. Processes'
  <2>1. ASSUME NEW j \in Runs, j > cur' \/ j = cur'
        PROVE  proc[j] = "none" /\ written[j] = 0 /\ read'[j] = 0
    <3>1. j > cur /\ j # cur
      BY <1>2, <1>4, <2>1 DEF Runs
    <3>2. QED
      BY <3>1 DEF Processes
  <2>2. QED
    BY <1>2, <2>1 DEF Processes
<1>8. Heard'
  BY <1>2 DEF Heard
<1>9. /\ Failed \subseteq Failed'
      /\ ~passed => Failed' # {}
  <2>1. 1..Len(results) \subseteq 1..Len(results') /\ cur \in 1..Len(results')
    BY <1>0, <1>1, <1>4
  <2>2. QED
    BY <1>1, <2>1 DEF Failed
<1>10. Counted'
  BY <1>0, <1>2, <1>9 DEF Counted
<1>11. \A j \in 1..Len(results') : j \in Runs /\ (j \in 1..Len(results) \/ j = cur)
  BY <1>0, <1>1, <1>4 DEF Runs
<1>12. \A j \in 1..Len(results) : j \in Runs \ {cur} /\ results'[j] = results[j] /\ read'[j] = read[j]
  BY <1>0, <1>1, <1>4 DEF Runs
<1>13. VerdictIsEarned'
  <2> SUFFICES ASSUME NEW j \in 1..Len(results')
               PROVE  IF results'[j].passed
                      THEN proc[j] = "exited" /\ code[j] = 0 /\ read'[j] = Len(lines[j])
                      ELSE \/ proc[j] = "exited" /\ (code[j] # 0 \/ cancelled)
                           \/ proc[j] = "none" /\ (faults' > 0 \/ cancelled)
                           \/ \E k \in 1..read'[j] : lines[j][k] = "text"
    BY DEF VerdictIsEarned, Abandoned
  <2>1. CASE j \in 1..Len(results)
    <3>1. IF results[j].passed
          THEN proc[j] = "exited" /\ code[j] = 0 /\ read[j] = Len(lines[j])
          ELSE \/ proc[j] = "exited" /\ (code[j] # 0 \/ cancelled)
               \/ proc[j] = "none" /\ (faults > 0 \/ cancelled)
               \/ \E k \in 1..read[j] : lines[j][k] = "text"
      BY <2>1 DEF ResultsAreEarned, VerdictIsEarned, Abandoned
    <3>2. QED
      BY <1>3, <1>12, <2>1, <3>1
  <2>2. CASE j = cur
    BY <1>1, <2>2
  <2>3. QED
    BY <1>11, <2>1, <2>2
<1>14. FirstReason'
  <2> SUFFICES ASSUME NEW j \in 1..Len(results')
               PROVE  LET reasons == {k \in 1..read'[j] : lines[j][k] = "reason"} IN
                      /\ results'[j].message = "reason" =>
                           results'[j].line \in reasons /\ \A k \in reasons : results'[j].line <= k
                      /\ results'[j].message = "code" => reasons = {}
                      /\ results'[j].message = "error" =>
                           reasons = {} \/ \E k \in 1..read'[j] : lines[j][k] = "text"
    BY DEF FirstReason, Abandoned
  <2>1. CASE j \in 1..Len(results)
    BY <1>12, <2>1 DEF ResultsAreEarned, FirstReason, Abandoned
  <2>2. CASE j = cur
    BY <1>1, <2>2
  <2>3. QED
    BY <1>11, <2>1, <2>2
<1>15. OneAtATime'
  <2> SUFFICES ASSUME NEW j \in Runs, proc[j] = "running", j < cur'
               PROVE  \E k \in 1..read'[j] : lines[j][k] = "text"
    BY <1>2 DEF OneAtATime, Abandoned
  <2>1. CASE j = cur
    BY <2>1
  <2>2. CASE j # cur
    <3>1. j < cur
      BY <1>2, <1>4, <2>2 DEF Runs
    <3>2. QED
      BY <2>2, <3>1 DEF OneAtATime, Abandoned
  <2>3. QED
    BY <2>1, <2>2
<1>16. QED
  BY <1>5, <1>6, <1>7, <1>8, <1>10, <1>13, <1>14, <1>15 DEF ResultsAreEarned

LEMMA StartK6Step == ASSUME IInv, StartK6 PROVE IInv'
<1> USE DEF IInv, input
<1>1. /\ pc = "start" /\ cur \in Runs /\ filenames # <<>> /\ cur \in Nat
      /\ UNCHANGED <<input, filenames, written, code, read, temp, cancelled, exit>>
  BY Current DEF StartK6
<1>2. proc[cur] = "none" /\ written[cur] = 0 /\ read[cur] = 0
  BY <1>1 DEF Processes
<1>3. CASE /\ Fault \/ (cancelled /\ UNCHANGED faults)
           /\ Record(FALSE, "error", 0)
           /\ UNCHANGED <<proc, lines, details>>
  <2>1. Fault => faults' > 0
    BY FaultIsANumber
  <2>2. 0 \in 0..MaxLines /\ 0 \in 0..written[cur] /\ written[cur] - read[cur] <= PipeSize
    BY <1>1, Constants DEF TypeOK
  <2>3. \A k \in 1..read[cur] : lines[cur][k] # "reason"
    BY <1>2
  <2>4. /\ UNCHANGED k6 /\ details' \in 0..MaxLines /\ DOMAIN read = Runs
        /\ UNCHANGED faults \/ Fault
        /\ faults' > 0 \/ cancelled
    BY <1>1, <1>3, <2>1 DEF k6, TypeOK, Processes
  <2>5. QED
    BY <1>1, <1>2, <1>3, <2>1, <2>2, <2>3, <2>4, RecordStep
<1>4. ASSUME NEW s \in Scripts, lines' = [lines EXCEPT ![cur] = s],
             proc' = [proc EXCEPT ![cur] = "running"],
             details' = 0, pc' = "read", UNCHANGED <<cur, results, faults>>
      PROVE  IInv'
  <2>1. /\ lines' \in [Runs -> Scripts] /\ proc' \in [Runs -> {"none", "running", "exited"}]
        /\ proc'[cur] = "running"
        /\ \A j \in Runs \ {cur} : lines'[j] = lines[j] /\ proc'[j] = proc[j]
    BY <1>1, <1>4 DEF TypeOK
  <2>2. TypeOK'
    <3>1. \A j \in Runs : /\ written[j] \in 0..Len(lines'[j])
                          /\ read[j] \in 0..written[j]
                          /\ written[j] - read[j] <= PipeSize
      <4>1. 0 \in 0..Len(lines'[cur])
        BY <1>1, <2>1, ScriptsAreSequences, Constants
      <4>2. QED
        BY <1>2, <2>1, <4>1 DEF TypeOK
    <3>2. details' \in 0..MaxLines /\ pc' \in Labels
      BY <1>4, Constants DEF Labels
    <3>3. QED
      BY <1>1, <1>4, <2>1, <3>1, <3>2 DEF TypeOK
  <2>3. Place'
    BY <1>1, <1>4 DEF Place
  <2>4. Processes'
    <3>1. \A j \in Runs : j > cur => j # cur
      BY <1>1
    <3>2. QED
      BY <1>1, <1>4, <2>1, <3>1 DEF Processes
  <2>5. Heard'
    BY <1>2, <1>1, <1>4 DEF Heard
  <2>6. Failed' = Failed
    BY <1>4 DEF Failed
  <2>7. Counted'
    BY <1>1, <1>4, <2>6 DEF Counted
  <2>8. \A j \in 1..Len(results) : j \in Runs \ {cur}
    BY <1>1, Current, Constants, LenProperties DEF Runs, TypeOK
  <2>9. VerdictIsEarned' /\ FirstReason'
    BY <1>1, <1>4, <2>1, <2>8 DEF ResultsAreEarned, VerdictIsEarned, FirstReason, Abandoned
  <2>10. OneAtATime'
    <3>1. \A j \in Runs : j < cur => j # cur
      BY <1>1
    <3>2. QED
      BY <1>1, <1>4, <2>1, <3>1 DEF OneAtATime, Abandoned
  <2>11. QED
    BY <2>2, <2>3, <2>4, <2>5, <2>7, <2>9, <2>10 DEF ResultsAreEarned
<1>5. QED
  BY <1>3, <1>4 DEF StartK6

LEMMA ReadEntryStep == ASSUME IInv, ReadEntry PROVE IInv'
<1> USE DEF IInv, input, k6
<1>1. /\ pc = "read" /\ cur \in Runs /\ cur \in Nat /\ filenames # <<>>
      /\ read[cur] < written[cur] /\ read' = [read EXCEPT ![cur] = @ + 1]
      /\ UNCHANGED <<input, filenames, k6, temp, cancelled, faults, exit>>
  BY Current DEF ReadEntry
<1>2. /\ written[cur] \in 0..Len(lines[cur]) /\ Len(lines[cur]) \in 0..MaxLines
      /\ read[cur] \in 0..written[cur] /\ written[cur] - read[cur] <= PipeSize
  BY <1>1, ScriptsAreSequences DEF TypeOK
<1>3. /\ DOMAIN read' = Runs /\ read'[cur] = read[cur] + 1
      /\ \A j \in Runs \ {cur} : read'[j] = read[j]
  BY <1>1 DEF Processes
<1>4. /\ read'[cur] \in 0..written[cur] /\ written[cur] - read'[cur] <= PipeSize
      /\ read'[cur] \in 1..MaxLines
      /\ 1..read'[cur] = 1..read[cur] \cup {read'[cur]}
  BY <1>1, <1>2, <1>3, Constants
<1>5. CASE lines[cur][read'[cur]] = "text" /\ Record(FALSE, "error", 0) /\ UNCHANGED details
  <2>1. \E k \in 1..read'[cur] : lines[cur][k] = "text"
    BY <1>4, <1>5
  <2>2. 0 \in 0..MaxLines /\ details \in 0..MaxLines
    BY Constants DEF TypeOK
  <2>3. QED
    BY <1>1, <1>3, <1>4, <1>5, <2>1, <2>2, RecordStep
<1>6. CASE /\ details' = IF details = 0 /\ lines[cur][read'[cur]] = "reason"
                         THEN read'[cur] ELSE details
           /\ UNCHANGED <<pc, cur, results>>
  <2>1. TypeOK'
    <3>1. \A j \in Runs : /\ read'[j] \in 0..written[j]
                          /\ written[j] - read'[j] <= PipeSize
      BY <1>3, <1>4 DEF TypeOK
    <3>2. details' \in 0..MaxLines
      BY <1>4, <1>6, Constants DEF TypeOK
    <3>3. QED
      BY <1>1, <1>6, <3>1, <3>2 DEF TypeOK
  <2>2. Place'
    BY <1>1, <1>6 DEF Place
  <2>3. Processes'
    <3>1. \A j \in Runs : j > cur => j # cur
      BY <1>1
    <3>2. QED
      BY <1>1, <1>3, <1>6, <3>1 DEF Processes
  <2>4. Heard'
    <3> DEFINE old == {k \in 1..read[cur] : lines[cur][k] = "reason"}
               now == {k \in 1..read'[cur] : lines[cur][k] = "reason"}
    <3>1. /\ details = 0 => old = {}
          /\ details # 0 => details \in old /\ \A k \in old : details <= k
      BY <1>1 DEF Heard
    <3>2. now = IF lines[cur][read'[cur]] = "reason" THEN old \cup {read'[cur]} ELSE old
      BY <1>4
    <3>3. \A k \in old : k \in Nat /\ k < read'[cur]
      BY <1>2, <1>3, Constants
    <3>4. read'[cur] \in Nat \ {0} /\ details \in Nat
      BY <1>4, Constants DEF TypeOK
    <3> HIDE DEF old
    <3>5. /\ details' = 0 => now = {}
          /\ details' # 0 => details' \in now /\ \A k \in now : details' <= k
      <4> HIDE DEF now
      <4>1. CASE details = 0 /\ lines[cur][read'[cur]] = "reason"
        BY <1>6, <3>1, <3>2, <3>4, <4>1
      <4>2. CASE details = 0 /\ lines[cur][read'[cur]] # "reason"
        BY <1>6, <3>1, <3>2, <4>2
      <4>3. CASE details # 0
        BY <1>6, <3>1, <3>2, <3>3, <3>4, <4>3
      <4>4. QED
        BY <4>1, <4>2, <4>3
    <3>6. QED
      BY <1>1, <1>6, <3>5 DEF Heard
  <2>5. Failed' = Failed
    BY <1>6 DEF Failed
  <2>6. Counted'
    BY <1>1, <1>6, <2>5 DEF Counted
  <2>7. \A j \in 1..Len(results) : j \in Runs \ {cur}
    BY <1>1, Current, Constants, LenProperties DEF Runs, TypeOK
  <2>8. VerdictIsEarned' /\ FirstReason'
    BY <1>1, <1>3, <1>6, <2>7 DEF ResultsAreEarned, VerdictIsEarned, FirstReason, Abandoned
  <2>9. OneAtATime'
    <3>1. \A j \in Runs : j < cur => j # cur
      BY <1>1
    <3>2. QED
      BY <1>1, <1>3, <1>6, <3>1 DEF OneAtATime, Abandoned
  <2>10. QED
    BY <2>1, <2>2, <2>3, <2>4, <2>6, <2>8, <2>9 DEF ResultsAreEarned
<1>7. QED
  BY <1>1, <1>5, <1>6 DEF ReadEntry

LEMMA ReadEofStep == ASSUME IInv, ReadEof PROVE IInv'
<1> USE DEF IInv
<1>1. /\ pc = "read" /\ cur \in Runs
      /\ read[cur] = written[cur] /\ proc[cur] = "exited"
      /\ UNCHANGED <<input, filenames, k6, read, details, temp, cancelled, faults, exit>>
  BY Current DEF ReadEof
<1>2. /\ DOMAIN read = Runs /\ 0 \in 0..MaxLines /\ details \in 0..MaxLines
      /\ read[cur] \in 0..written[cur] /\ written[cur] - read[cur] <= PipeSize
  BY <1>1, Constants DEF TypeOK, Processes
<1>3. code[cur] = 0 => read[cur] = Len(lines[cur])
  BY <1>1 DEF Processes
<1>4. CASE code[cur] = 0 /\ Record(TRUE, "none", 0)
  BY <1>1, <1>2, <1>3, <1>4, RecordStep
<1>5. ASSUME code[cur] # 0 \/ cancelled, NEW other \in {"code", "error"}, Reason(other)
      PROVE  IInv'
  <2>1. CASE details # 0 /\ Record(FALSE, "reason", details)
    <3>1. /\ details \in 1..read[cur] /\ lines[cur][details] = "reason"
          /\ \A k \in 1..read[cur] : lines[cur][k] = "reason" => details <= k
      BY <1>1, <2>1 DEF Heard
    <3>2. QED
      BY <1>1, <1>2, <1>5, <2>1, <3>1, RecordStep
  <2>2. CASE details = 0 /\ Record(FALSE, other, 0)
    <3>1. \A k \in 1..read[cur] : lines[cur][k] # "reason"
      BY <1>1, <2>2 DEF Heard
    <3>2. QED
      BY <1>1, <1>2, <1>5, <2>2, <3>1, RecordStep
  <2>3. QED
    BY <1>5, <2>1, <2>2 DEF Reason
<1>6. QED
  BY <1>4, <1>5 DEF ReadEof

------------------------------------------------------------------------------
(* runTestE.                                                                 *)

\* The steps before the first test and after the last one.
LEMMA CommandStep ==
    ASSUME IInv, pc \in {"output", "build", "glob", "report"},
           UNCHANGED <<input, cur, k6, read, details, results, cancelled>>,
           pc' \in Labels \ {"read"}, temp' \in BOOLEAN, exit' \in {0, 1, 2, NoExit},
           UNCHANGED faults \/ Fault, filenames' \in Seq(Nat),
           pc' = "exit" => cur = 1 \/ pc = "report",
           Place', Counted'
    PROVE  IInv'
<1> USE DEF IInv, input, k6
<1>0. faults' \in 0..MaxFaults /\ (faults > 0 => faults' > 0)
  BY FaultIsANumber
<1>1. TypeOK'
  BY <1>0 DEF TypeOK
<1>2. cur' = cur /\ pc # "read"
  OBVIOUS
<1>3. Processes' /\ Heard'
  BY <1>2 DEF Processes, Heard
<1>4. VerdictIsEarned'
  BY <1>0 DEF ResultsAreEarned, VerdictIsEarned, Abandoned
<1>5. FirstReason'
  BY DEF ResultsAreEarned, FirstReason, Abandoned
<1>6. OneAtATime'
  <2> SUFFICES ASSUME NEW i \in Runs, proc[i] = "running", i < cur \/ pc' = "exit"
               PROVE  Abandoned(i)'
    BY DEF OneAtATime
  <2>1. i < cur
    <3>1. ~(i > cur \/ (i = cur /\ pc # "read"))
      BY DEF Processes
    <3>2. i \in Nat /\ cur \in Nat
      BY Constants DEF Runs, TypeOK
    <3>3. QED
      BY <3>1, <3>2
  <2>2. QED
    BY <2>1 DEF OneAtATime, Abandoned
<1>7. QED
  BY <1>1, <1>3, <1>4, <1>5, <1>6 DEF ResultsAreEarned

LEMMA CreateOutputStep == ASSUME IInv, CreateOutput PROVE IInv'
<1> USE DEF IInv
<1>1. /\ pc = "output" /\ filenames = <<>> /\ results = <<>> /\ cur = 1 /\ Len(<<>>) = 0
      /\ exit = NoExit /\ faults = 0
      /\ UNCHANGED <<input, filenames, cur, k6, read, details, results, cancelled>>
  BY EmptySeq DEF CreateOutput, Place, Counted
<1>2. Fault => faults' > 0
  BY FaultIsANumber
<1>3. CASE pc' = "build" /\ UNCHANGED <<temp, faults, exit>>
  <2>1. Place' /\ Counted'
    BY <1>1, <1>3 DEF Place, Counted
  <2>2. QED
    BY <1>1, <1>3, <2>1, CommandStep DEF TypeOK, Labels
<1>4. CASE Fault /\ Exit(1)
  <2>1. Place' /\ Counted'
    BY <1>1, <1>2, <1>4 DEF Place, Counted, Exit, NoExit
  <2>2. QED
    BY <1>1, <1>4, <2>1, CommandStep DEF Exit, TypeOK, Labels
<1>5. QED
  BY <1>3, <1>4 DEF CreateOutput

LEMMA BuildK6Step == ASSUME IInv, BuildK6 PROVE IInv'
<1> USE DEF IInv
<1>1. /\ pc = "build" /\ filenames = <<>> /\ results = <<>> /\ cur = 1 /\ Len(<<>>) = 0
      /\ exit = NoExit /\ faults = 0
      /\ UNCHANGED <<input, filenames, cur, k6, read, details, results, cancelled>>
  BY EmptySeq DEF BuildK6, Place, Counted
<1>2. Fault => faults' > 0
  BY FaultIsANumber
<1>3. CASE pc' = "glob" /\ temp' \in BOOLEAN /\ UNCHANGED <<faults, exit>>
  <2>1. Place' /\ Counted'
    BY <1>1, <1>3 DEF Place, Counted
  <2>2. QED
    BY <1>1, <1>3, <2>1, CommandStep DEF TypeOK, Labels
<1>4. ASSUME pc' = "exit", temp' \in BOOLEAN, UNCHANGED faults \/ Fault,
             \/ exit' = 2 /\ Panics
             \/ exit' = 1 /\ (Fault \/ cancelled \/ (~given /\ gomod = "none"))
      PROVE  IInv'
  <2>1. Panics' = Panics
    BY <1>1 DEF Panics, input
  <2>2. Place' /\ Counted'
    BY <1>1, <1>2, <1>4, <2>1 DEF Place, Counted, NoExit, input
  <2>3. QED
    BY <1>1, <1>4, <2>2, CommandStep DEF TypeOK, Labels
<1>5. QED
  BY <1>3, <1>4 DEF BuildK6, TypeOK, Panics

LEMMA GlobStep == ASSUME IInv, Glob PROVE IInv'
<1> USE DEF IInv
<1>1. /\ pc = "glob" /\ filenames = <<>> /\ results = <<>> /\ cur = 1 /\ Len(<<>>) = 0
      /\ exit = NoExit /\ faults = 0
      /\ UNCHANGED <<input, cur, k6, read, details, results, cancelled>>
  BY EmptySeq DEF Glob, Place, Counted
<1>2. Fault => faults' > 0
  BY FaultIsANumber
<1>3. CASE /\ globbed # <<>> /\ filenames' = SortCompact(globbed)
           /\ pc' = "start" /\ UNCHANGED <<temp, faults, exit>>
  <2>1. globbed \in Seq(Nat) /\ Len(globbed) <= MaxRuns
    BY Constants DEF TypeOK
  <2>2. filenames' \in Seq(Nat) /\ Len(filenames') \in Nat /\ Len(filenames') > 0
    BY <1>3, <2>1, SortCompactSorts, Constants
  <2>3. filenames' # <<>>
    BY <1>1, <2>2
  <2>4. Place' /\ Counted'
    BY <1>1, <1>3, <2>2, <2>3 DEF Place, Counted, input
  <2>5. QED
    BY <1>1, <1>3, <2>2, <2>4, CommandStep DEF TypeOK, Labels
<1>4. CASE /\ (globbed = <<>> /\ UNCHANGED faults) \/ Fault
           /\ Exit(1)
           /\ UNCHANGED filenames
  <2>1. Place' /\ Counted'
    BY <1>1, <1>2, <1>4 DEF Place, Counted, Exit, NoExit, input
  <2>2. QED
    BY <1>1, <1>4, <2>1, CommandStep DEF Exit, TypeOK, Labels
<1>5. QED
  BY <1>3, <1>4 DEF Glob

LEMMA ReportStep == ASSUME IInv, Report PROVE IInv'
<1> USE DEF IInv
<1>1. /\ pc = "report" /\ filenames # <<>> /\ cur = Len(filenames) + 1 /\ exit = NoExit
      /\ UNCHANGED <<input, filenames, cur, k6, read, details, results, cancelled>>
  BY DEF Report, Place
<1>2. (Fault => faults' > 0) /\ faults \in Nat
  BY FaultIsANumber, Constants DEF TypeOK
<1>3. Failed' = Failed
  BY <1>1 DEF Failed
<1>4. ASSUME NEW e \in {0, 1, 2}, Exit(e), UNCHANGED faults \/ Fault,
             e = 0 => Failed = {} /\ (json => UNCHANGED faults),
             e = 2 => Failed # {},
             e = 1 => Fault
      PROVE  IInv'
  <2>1. Place'
    BY <1>1, <1>4 DEF Place, Exit, input
  <2>2. Counted'
    BY <1>1, <1>2, <1>3, <1>4 DEF Counted, Exit, NoExit, Panics, input
  <2>3. QED
    BY <1>1, <1>4, <2>1, <2>2, CommandStep DEF Exit, TypeOK, Labels
<1>5. ASSUME NEW e \in {0, 1, 2}, Exit(e),
             \/ e = (IF Failed # {} THEN 2 ELSE 0) /\ (UNCHANGED faults \/ (~json /\ Fault))
             \/ e = (IF Failed # {} THEN 2 ELSE 1) /\ Fault
             \/ e = 1 /\ Fault
      PROVE  IInv'
  BY <1>4, <1>5
<1>6. QED
  BY <1>5 DEF Report

LEMMA InterruptStep == ASSUME IInv, Interrupt PROVE IInv'
<1> USE DEF IInv
<1>1. cancelled' = TRUE /\ UNCHANGED <<Parent, k6>>
  BY DEF Interrupt
<1>2. UNCHANGED <<pc, input, filenames, cur, k6, read, details, results, temp, faults, exit>>
  BY <1>1 DEF Parent
<1>3. TypeOK'
  BY <1>1, <1>2 DEF TypeOK, input, k6
<1>4. Place' /\ Processes' /\ Heard' /\ Counted'
  BY <1>1, <1>2 DEF Place, Processes, Heard, Counted, Failed, Panics, input, k6
<1>5. ResultsAreEarned' /\ OneAtATime'
  BY <1>1, <1>2
     DEF ResultsAreEarned, VerdictIsEarned, FirstReason, OneAtATime, Abandoned, input, k6
<1>6. QED
  BY <1>3, <1>4, <1>5

LEMMA StepIInv == IInv /\ [Next]_vars => IInv'
<1> SUFFICES ASSUME IInv, [Next]_vars
             PROVE  IInv'
  OBVIOUS
<1>1. CASE Xk6
  BY <1>1, CreateOutputStep, BuildK6Step, GlobStep, StartK6Step, ReadEntryStep, ReadEofStep,
     ReportStep DEF Xk6
<1>2. CASE \E i \in Runs : K6Logs(i) \/ K6Exits(i) \/ K6Killed(i)
  BY <1>2, K6LogsStep, K6ExitsStep, K6KilledStep
<1>3. CASE Interrupt
  BY <1>3, InterruptStep
<1>4. CASE UNCHANGED vars
  BY <1>4 DEF vars, input, k6, IInv, TypeOK, Place, Processes, Heard, Counted, Failed,
              ResultsAreEarned, VerdictIsEarned, FirstReason, OneAtATime, Abandoned, Panics
<1>5. QED
  BY <1>1, <1>2, <1>3, <1>4 DEF Next

LEMMA Invariance == Spec => []IInv
BY InitIInv, StepIInv, PTL DEF Spec

------------------------------------------------------------------------------
(* The properties of the run testrun.                                        *)

\* The variables keep their types, whatever the tests log.
THEOREM TypeCorrect == Spec => []TypeOK
<1>1. IInv => TypeOK
  BY DEF IInv
<1>2. QED
  BY <1>1, Invariance, PTL

\* runFile's verdicts and the messages of errorToResult rest on what k6 did and
\* logged, also when it was killed.
THEOREM EarnedResults == Spec => []ResultsAreEarned
<1>1. IInv => ResultsAreEarned
  BY DEF IInv
<1>2. QED
  BY <1>1, Invariance, PTL

\* The report of runFiles has each file once, in order, and the exit code of
\* runTestE says what is in it.
THEOREM RightReport == Spec => []ReportIsRight
<1>1. ASSUME IInv
      PROVE  ReportIsComplete
  <2> SUFFICES ASSUME pc = "report" \/ (pc = "exit" /\ exit # 1 /\ ~Panics)
               PROVE  /\ {results[i].file : i \in 1..Len(results)} = ToSet(globbed)
                      /\ \A i, j \in 1..Len(results) : i < j => results[i].file < results[j].file
    BY DEF ReportIsComplete
  <2>1. filenames # <<>> /\ cur = Len(filenames) + 1
    BY <1>1 DEF IInv, Place
  <2>2. globbed \in Seq(Nat) /\ Len(globbed) <= MaxRuns /\ filenames = SortCompact(globbed)
    BY <1>1, <2>1, Constants DEF IInv, TypeOK, Place
  <2>3. /\ Len(filenames) \in Nat
        /\ {filenames[i] : i \in 1..Len(filenames)} = ToSet(globbed)
        /\ \A i, j \in 1..Len(filenames) : i < j => filenames[i] < filenames[j]
    <3> DEFINE f == SortCompact(globbed)
    <3>1. /\ Len(f) \in 0..MaxRuns
          /\ {f[i] : i \in 1..Len(f)} = ToSet(globbed)
          /\ \A i, j \in 1..Len(f) : i < j => f[i] < f[j]
      BY <2>2, SortCompactSorts
    <3>2. f = filenames
      BY <2>2
    <3> HIDE DEF f
    <3>3. QED
      BY <3>1, <3>2, Constants
  <2>4. Len(results) = Len(filenames) /\ \A i \in 1..Len(results) : results[i].file = filenames[i]
    BY <1>1, <2>1, <2>3 DEF IInv, Place
  <2>5. QED
    BY <2>3, <2>4
<1>2. ASSUME IInv
      PROVE  ExitCode
  <2>1. filenames # <<>> /\ pc = "exit" => results # <<>>
    <3>1. Len(<<>>) = 0
      BY EmptySeq
    <3>2. filenames # <<>> /\ pc = "exit" => cur = Len(filenames) + 1 /\ Len(results) = cur - 1
      BY <1>2 DEF IInv, Place
    <3>3. filenames # <<>> => Len(filenames) \in Nat \ {0}
      <4>1. filenames \in Seq(Nat)
        BY <1>2 DEF IInv, TypeOK
      <4>2. QED
        BY <4>1, EmptySeq, LenProperties
    <3>4. QED
      BY <3>1, <3>2, <3>3
  <2>2. QED
    BY <1>2, <2>1 DEF IInv, Counted, ExitCode
<1>3. IInv => ReportIsRight
  BY <1>1, <1>2 DEF ReportIsRight
<1>4. QED
  BY <1>3, Invariance, PTL

\* runAndLog leaves only a k6 behind whose log was no JSON, and the k6 that was
\* built goes with cleanup.
THEOREM NothingLeft == Spec => []NothingIsLeft
<1>1. IInv => NothingIsLeft
  BY DEF IInv, Place, NothingIsLeft, TempRemoved
<1>2. QED
  BY <1>1, Invariance, PTL

------------------------------------------------------------------------------
(* Termination, but for the fairness: TLC checks Terminates, and this is     *)
(* what it rests on.                                                         *)

\* A file takes a start, a step for each line of its log, and an end.
Work(files) == (MaxLines + 3) * files

\* How many steps xk6 may still take.
StepsLeft ==
    CASE pc = "output" -> Work(MaxRuns) + 5
      [] pc = "build" -> Work(MaxRuns) + 4
      [] pc = "glob" -> Work(MaxRuns) + 3
      [] pc = "start" -> Work(Len(filenames) + 1 - cur) + 2
      [] pc = "read" -> Work(Len(filenames) - cur) + (Len(lines[cur]) - read[cur]) + 3
      [] pc = "report" -> 1
      [] OTHER -> 0

\* And how many k6 process i, once it runs.
K6StepsLeft(i) == IF proc[i] = "running" THEN Len(lines[i]) - written[i] + 1 ELSE 0

K6Acts(i) == K6Logs(i) \/ K6Exits(i) \/ K6Killed(i)

Advances ==
    /\ Xk6 => /\ StepsLeft' < StepsLeft
             /\ \A i \in Runs : UNCHANGED K6StepsLeft(i) \/ (pc = "start" /\ i = cur)
    /\ \A i \in Runs : K6Acts(i) => /\ K6StepsLeft(i)' < K6StepsLeft(i) /\ StepsLeft' <= StepsLeft
                                  /\ \A j \in Runs \ {i} : UNCHANGED K6StepsLeft(j)
    /\ Interrupt => UNCHANGED StepsLeft /\ \A i \in Runs : UNCHANGED K6StepsLeft(i)

\* While xk6 reads, it has a line to read or the end of the log, or its k6 is
\* free to log the next line or to end.
NobodyIsStuck ==
    pc = "read" =>
        \/ read[cur] < written[cur]
        \/ read[cur] = written[cur] /\ proc[cur] = "exited"
        \/ proc[cur] = "running" /\ written[cur] < Len(lines[cur]) /\ written[cur] - read[cur] < PipeSize
        \/ proc[cur] = "running" /\ written[cur] = Len(lines[cur])

LEMMA WorkFacts ==
    /\ \A n \in Nat : Work(n) \in Nat /\ Work(n + 1) = Work(n) + MaxLines + 3
    /\ \A n, m \in Nat : n <= m => Work(n) <= Work(m)
<1>1. MaxLines \in Nat
  BY Constants
<1>2. \A n \in Nat : Work(n) \in Nat /\ Work(n + 1) = Work(n) + MaxLines + 3
  BY <1>1 DEF Work
<1>3. \A k, n, m \in Nat : n <= m => k * n <= k * m
  OBVIOUS
<1>4. \A n, m \in Nat : n <= m => Work(n) <= Work(m)
  BY <1>1, <1>3 DEF Work
<1>5. QED
  BY <1>2, <1>4

\* The numbers the measures are made of.
LEMMA MeasuredFacts ==
    ASSUME IInv
    PROVE  /\ Len(filenames) \in 0..MaxRuns /\ cur \in Nat \ {0}
           /\ Len(filenames) + 1 - cur \in Nat
           /\ pc \in {"start", "read"} => Len(filenames) - cur \in Nat /\ cur \in Runs
           /\ \A i \in Runs : /\ Len(lines[i]) \in 0..MaxLines
                              /\ written[i] \in 0..Len(lines[i]) /\ read[i] \in 0..written[i]
                              /\ Len(lines[i]) - written[i] \in Nat
                              /\ Len(lines[i]) - read[i] \in Nat
<1>1. Len(filenames) \in 0..MaxRuns
  <2>1. CASE filenames = <<>>
    BY <2>1, EmptySeq, Constants
  <2>2. CASE filenames # <<>>
    <3>1. filenames = SortCompact(globbed) /\ globbed \in Seq(Nat) /\ Len(globbed) <= MaxRuns
      BY <2>2, Constants DEF IInv, TypeOK, Place
    <3>2. QED
      BY <3>1, SortCompactSorts
  <2>3. QED
    BY <2>1, <2>2
<1>2. cur \in Nat \ {0} /\ cur <= Len(filenames) + 1
  BY Constants DEF IInv, TypeOK, Place
<1>3. pc \in {"start", "read"} => cur <= Len(filenames) /\ cur \in Runs
  BY Current DEF IInv
<1>4. \A i \in Runs : /\ Len(lines[i]) \in 0..MaxLines
                      /\ written[i] \in 0..Len(lines[i]) /\ read[i] \in 0..written[i]
  BY ScriptsAreSequences DEF IInv, TypeOK
<1>5. \A i \in Runs : Len(lines[i]) - written[i] \in Nat /\ Len(lines[i]) - read[i] \in Nat
  <2> TAKE i \in Runs
  <2>1. Len(lines[i]) \in Nat /\ written[i] \in Nat /\ read[i] \in Nat
    BY <1>4
  <2>2. written[i] <= Len(lines[i]) /\ read[i] <= written[i]
    BY <1>4
  <2>3. QED
    BY <2>1, <2>2
<1>6. Len(filenames) + 1 - cur \in Nat
  BY <1>1, <1>2, Constants
<1>7. pc \in {"start", "read"} => Len(filenames) - cur \in Nat
  BY <1>1, <1>2, <1>3, Constants
<1>8. QED
  BY <1>1, <1>2, <1>3, <1>4, <1>5, <1>6, <1>7

LEMMA StepsAreCounted ==
    ASSUME IInv
    PROVE  /\ StepsLeft \in 0..(Work(MaxRuns) + 5)
           /\ pc # "exit" => StepsLeft > 0
           /\ \A i \in Runs : K6StepsLeft(i) \in 0..(MaxLines + 1)
<1>1. MaxRuns \in Nat /\ MaxLines \in Nat /\ Work(MaxRuns) \in Nat
  BY Constants, WorkFacts
<1> DEFINE Counts == StepsLeft \in 0..(Work(MaxRuns) + 5) /\ (pc # "exit" => StepsLeft > 0)
<1>2. ASSUME pc \in {"output", "build", "glob"}
      PROVE  Counts
  <2>1. StepsLeft \in {Work(MaxRuns) + n : n \in 3..5}
    BY <1>2 DEF StepsLeft
  <2>2. QED
    BY <1>1, <2>1
<1>3. ASSUME pc = "start"
      PROVE  Counts
  <2>1. StepsLeft = Work(Len(filenames) + 1 - cur) + 2
    BY <1>3 DEF StepsLeft
  <2>2. Len(filenames) + 1 - cur \in Nat /\ Len(filenames) + 1 - cur <= MaxRuns
    BY <1>1, MeasuredFacts
  <2>3. /\ Work(Len(filenames) + 1 - cur) \in Nat
        /\ Work(Len(filenames) + 1 - cur) <= Work(MaxRuns)
    BY <1>1, <2>2, WorkFacts
  <2>4. QED
    BY <1>1, <2>1, <2>3
<1>4. ASSUME pc = "read"
      PROVE  Counts
  <2> DEFINE n == Len(filenames) - cur
             l == Len(lines[cur]) - read[cur]
  <2>1. StepsLeft = Work(n) + l + 3
    BY <1>4 DEF StepsLeft
  <2>2. n \in Nat /\ n + 1 <= MaxRuns /\ l \in Nat /\ l <= MaxLines
    <3>1. /\ n \in Nat /\ cur \in Nat \ {0} /\ Len(filenames) \in 0..MaxRuns
          /\ Len(lines[cur]) \in 0..MaxLines /\ read[cur] \in Nat /\ l \in Nat
      BY <1>4, MeasuredFacts
    <3>2. n + 1 <= MaxRuns
      BY <1>1, <3>1
    <3>3. l <= MaxLines
      BY <1>1, <3>1
    <3>4. QED
      BY <3>1, <3>2, <3>3
  <2> HIDE DEF n, l
  <2>3. /\ Work(n) \in Nat /\ Work(n + 1) = Work(n) + MaxLines + 3 /\ Work(n + 1) <= Work(MaxRuns)
    <3>1. n + 1 \in Nat
      BY <2>2
    <3>2. QED
      BY <1>1, <2>2, <3>1, WorkFacts
  <2>4. QED
    BY <1>1, <2>1, <2>2, <2>3
<1>5. ASSUME pc \in {"report", "exit"}
      PROVE  Counts
  <2>1. StepsLeft = IF pc = "report" THEN 1 ELSE 0
    BY <1>5 DEF StepsLeft
  <2>2. QED
    BY <1>1, <1>5, <2>1
<1>6. Counts
  BY <1>2, <1>3, <1>4, <1>5 DEF IInv, TypeOK, Labels
<1>7. ASSUME NEW i \in Runs
      PROVE  K6StepsLeft(i) \in 0..(MaxLines + 1)
  <2>1. /\ Len(lines[i]) \in 0..MaxLines /\ written[i] \in 0..Len(lines[i])
        /\ Len(lines[i]) - written[i] \in Nat
    BY <1>7, MeasuredFacts
  <2>2. Len(lines[i]) - written[i] + 1 \in 0..(MaxLines + 1)
    BY <1>1, <2>1
  <2>3. QED
    BY <1>1, <2>2 DEF K6StepsLeft
<1>8. QED
  BY <1>6, <1>7

\* After the verdict on a file comes the next file, or the report.
LEMMA RecordAdvances ==
    ASSUME IInv, pc \in {"start", "read"}, UNCHANGED filenames,
           NEW p, NEW m, NEW l, Record(p, m, l)
    PROVE  StepsLeft' < StepsLeft
<1>1. /\ Len(filenames) - cur \in Nat /\ cur \in Nat /\ Len(filenames) \in Nat
      /\ pc = "read" => Len(lines[cur]) - read[cur] \in Nat
      /\ MaxLines \in Nat
  BY MeasuredFacts, Constants
<1> DEFINE n == Len(filenames) - cur
<1>2. /\ Len(filenames) + 1 - cur = n + 1 /\ Len(filenames') + 1 - cur' = n
  BY <1>1 DEF Record
<1>3. n \in Nat /\ Work(n) \in Nat /\ Work(n + 1) = Work(n) + MaxLines + 3
  BY <1>1, WorkFacts
<1>4. StepsLeft >= Work(n) + 3
  <2>1. pc = "start" => StepsLeft = Work(n + 1) + 2
    BY <1>2 DEF StepsLeft
  <2>2. pc = "read" => StepsLeft = Work(n) + (Len(lines[cur]) - read[cur]) + 3
    BY DEF StepsLeft
  <2> HIDE DEF n
  <2>3. QED
    BY <1>1, <1>3, <2>1, <2>2
<1>5. StepsLeft' \in {1, Work(n) + 2}
  <2>1. pc' \in {"start", "report"}
    BY DEF Record, NextFile
  <2>2. pc' = "report" => StepsLeft' = 1
    BY DEF StepsLeft
  <2>3. Work(Len(filenames) + 1 - cur)' = Work(n)
    BY <1>2 DEF Work
  <2>4. pc' = "start" => StepsLeft' = Work(n) + 2
    BY <2>3 DEF StepsLeft
  <2>5. QED
    BY <2>1, <2>2, <2>4
<1> HIDE DEF n
<1>6. StepsLeft \in Nat
  BY StepsAreCounted, WorkFacts, Constants
<1>7. QED
  BY <1>3, <1>4, <1>5, <1>6

LEMMA Xk6Advances ==
    ASSUME IInv, Xk6
    PROVE  StepsLeft' < StepsLeft
<1>1. StepsLeft \in Nat /\ (pc # "exit" => StepsLeft > 0) /\ MaxRuns \in Nat /\ MaxLines \in Nat
      /\ Work(MaxRuns) \in Nat
  BY StepsAreCounted, WorkFacts, Constants
<1>2. ASSUME pc # "exit", pc' = "exit"
      PROVE  StepsLeft' < StepsLeft
  <2>1. StepsLeft' = 0
    BY <1>2 DEF StepsLeft
  <2>2. QED
    BY <1>1, <1>2, <2>1
<1>3. CASE CreateOutput
  BY <1>1, <1>2, <1>3 DEF CreateOutput, Exit, StepsLeft, Work
<1>4. CASE BuildK6
  BY <1>1, <1>2, <1>4 DEF BuildK6, Exit, StepsLeft, Work
<1>5. CASE Glob
  <2>1. pc = "glob" /\ cur = 1 /\ UNCHANGED cur /\ StepsLeft = Work(MaxRuns) + 3
    BY <1>5 DEF Glob, StepsLeft, IInv, Place
  <2>2. CASE globbed # <<>> /\ filenames' = SortCompact(globbed) /\ pc' = "start"
    <3>1. Len(filenames') \in 0..MaxRuns
      BY <2>2, SortCompactSorts, Constants DEF IInv, TypeOK
    <3>2. Len(filenames') + 1 - cur' = Len(filenames')
      BY <2>1, <3>1, <1>1
    <3>3. StepsLeft' = Work(Len(filenames')) + 2
      BY <2>2, <3>2 DEF StepsLeft, Work
    <3>4. Work(Len(filenames')) <= Work(MaxRuns) /\ Work(Len(filenames')) \in Nat
      BY <1>1, <3>1, WorkFacts
    <3>5. QED
      BY <1>1, <2>1, <3>3, <3>4
  <2>3. QED
    BY <1>2, <1>5, <2>1, <2>2 DEF Glob, Exit
<1>6. CASE StartK6
  <2>1. pc = "start" /\ UNCHANGED filenames
    BY <1>6 DEF StartK6
  <2>2. ASSUME NEW s \in Scripts, lines' = [lines EXCEPT ![cur] = s], pc' = "read",
               UNCHANGED <<cur, read>>
        PROVE  StepsLeft' < StepsLeft
    <3>1. cur \in Runs /\ read[cur] = 0 /\ lines'[cur] = s /\ Len(s) \in 0..MaxLines
      BY <2>1, <2>2, Current, ScriptsAreSequences DEF IInv, TypeOK, Processes
    <3> DEFINE n == Len(filenames) - cur
    <3>2. /\ n \in Nat /\ Len(filenames) + 1 - cur = n + 1
      BY <2>1, <1>1, MeasuredFacts
    <3>3. Work(n) \in Nat /\ Work(n + 1) = Work(n) + MaxLines + 3
      BY <3>2, WorkFacts
    <3>4. StepsLeft = Work(n + 1) + 2
      BY <2>1, <3>2 DEF StepsLeft
    <3>5. StepsLeft' = Work(n) + (Len(s) - 0) + 3
      BY <2>1, <2>2, <3>1 DEF StepsLeft, Work
    <3> HIDE DEF n
    <3>6. QED
      BY <1>1, <3>1, <3>3, <3>4, <3>5
  <2>3. QED
    BY <1>6, <2>1, <2>2, RecordAdvances DEF StartK6
<1>7. CASE ReadEntry
  <2>1. /\ pc = "read" /\ cur \in Runs /\ UNCHANGED <<filenames, lines>>
        /\ read' = [read EXCEPT ![cur] = @ + 1] /\ read[cur] < written[cur]
    BY <1>7, Current DEF ReadEntry, k6, IInv
  <2>2. CASE UNCHANGED <<pc, cur>>
    <3>1. read'[cur] = read[cur] + 1
      BY <2>1 DEF IInv, Processes
    <3> DEFINE n == Len(filenames) - cur
               l == Len(lines[cur])
               r == read[cur]
    <3>2. n \in Nat /\ l \in Nat /\ r \in Nat /\ Work(n) \in Nat
      <4>1. n \in Nat /\ l \in 0..MaxLines /\ r \in 0..written[cur] /\ written[cur] \in 0..l
        BY <2>1, MeasuredFacts
      <4>2. Work(n) \in Nat
        BY <4>1, WorkFacts
      <4>3. QED
        BY <4>1, <4>2, Constants
    <3>3. StepsLeft = Work(n) + (l - r) + 3 /\ StepsLeft' = Work(n) + (l - (r + 1)) + 3
      BY <2>1, <2>2, <3>1 DEF StepsLeft, Work
    <3> HIDE DEF n, l, r
    <3>4. QED
      BY <3>2, <3>3
  <2>3. QED
    BY <1>7, <2>1, <2>2, RecordAdvances DEF ReadEntry
<1>8. CASE ReadEof
  BY <1>8, RecordAdvances DEF ReadEof, Reason
<1>9. CASE Report
  BY <1>2, <1>9 DEF Report, Exit
<1>10. QED
  BY <1>3, <1>4, <1>5, <1>6, <1>7, <1>8, <1>9 DEF Xk6

\* While k6 acts, xk6 has no more to read than before.
LEMMA NoMoreToRead ==
    ASSUME IInv, UNCHANGED Parent,
           pc = "read" => Len(lines'[cur]) \in Nat /\ Len(lines'[cur]) <= Len(lines[cur])
    PROVE  StepsLeft' <= StepsLeft
<1>1. StepsLeft \in Nat /\ UNCHANGED <<pc, filenames, cur, read>>
  BY StepsAreCounted, WorkFacts, Constants DEF Parent
<1>2. CASE pc = "read"
  <2> DEFINE n == Len(filenames) - cur
             r == read[cur]
  <2>1. n \in Nat /\ r \in Nat /\ Work(n) \in Nat /\ Len(lines[cur]) \in Nat
    <3>1. n \in Nat /\ cur \in Runs
      BY <1>2, MeasuredFacts
    <3>2. Len(lines[cur]) \in 0..MaxLines /\ written[cur] \in 0..Len(lines[cur]) /\ r \in 0..written[cur]
      BY <3>1, MeasuredFacts
    <3>3. Work(n) \in Nat
      BY <3>1, WorkFacts
    <3>4. QED
      BY <3>1, <3>2, <3>3, Constants
  <2>2. /\ StepsLeft = Work(n) + (Len(lines[cur]) - r) + 3
        /\ StepsLeft' = Work(n) + (Len(lines'[cur]) - r) + 3
    BY <1>1, <1>2 DEF StepsLeft, Work
  <2> HIDE DEF n, r
  <2>3. QED
    BY <1>2, <2>1, <2>2
<1>3. CASE pc # "read"
  <2>1. StepsLeft' = StepsLeft
    BY <1>1, <1>3 DEF StepsLeft, Work
  <2>2. QED
    BY <1>1, <2>1
<1>4. QED
  BY <1>2, <1>3

LEMMA K6Advances ==
    ASSUME IInv, NEW i \in Runs, K6Acts(i)
    PROVE  /\ K6StepsLeft(i)' < K6StepsLeft(i)
           /\ StepsLeft' <= StepsLeft
           /\ \A j \in Runs \ {i} : UNCHANGED K6StepsLeft(j)
<1>1. proc[i] = "running" /\ UNCHANGED Parent
  BY DEF K6Acts, K6Logs, K6Exits, K6Killed
<1>2. /\ Len(lines[i]) \in Nat /\ written[i] \in Nat /\ written[i] <= Len(lines[i])
      /\ Len(lines[i]) - written[i] \in Nat
  <2>1. Len(lines[i]) \in 0..MaxLines /\ written[i] \in 0..Len(lines[i])
    BY MeasuredFacts
  <2>2. QED
    BY <2>1, Constants
<1>3. K6StepsLeft(i) = Len(lines[i]) - written[i] + 1
  BY <1>1 DEF K6StepsLeft
<1>4. CASE K6Logs(i)
  <2>1. /\ proc'[i] = "running" /\ lines' = lines /\ written'[i] = written[i] + 1
        /\ \A j \in Runs \ {i} : written'[j] = written[j] /\ proc'[j] = proc[j]
    BY <1>1, <1>4 DEF K6Logs, IInv, Processes
  <2>2. K6StepsLeft(i)' = Len(lines[i]) - (written[i] + 1) + 1
    BY <2>1 DEF K6StepsLeft
  <2>3. K6StepsLeft(i)' < K6StepsLeft(i)
    BY <1>2, <1>3, <2>2
  <2>4. \A j \in Runs \ {i} : UNCHANGED K6StepsLeft(j)
    BY <2>1 DEF K6StepsLeft
  <2>5. StepsLeft' <= StepsLeft
    BY <1>1, <2>1, MeasuredFacts, NoMoreToRead, Constants
  <2>6. QED
    BY <2>3, <2>4, <2>5
<1>5. ASSUME proc' = [proc EXCEPT ![i] = "exited"]
      PROVE  K6StepsLeft(i)' < K6StepsLeft(i)
  <2>1. proc'[i] = "exited"
    BY <1>5 DEF IInv, TypeOK
  <2>2. K6StepsLeft(i)' = 0
    BY <2>1 DEF K6StepsLeft
  <2>3. QED
    BY <1>2, <1>3, <2>2
<1>6. CASE K6Exits(i)
  <2>1. /\ UNCHANGED <<lines, written>> /\ \A j \in Runs \ {i} : proc'[j] = proc[j]
    BY <1>6 DEF K6Exits, IInv, TypeOK
  <2>2. \A j \in Runs \ {i} : UNCHANGED K6StepsLeft(j)
    BY <2>1 DEF K6StepsLeft
  <2>3. StepsLeft' <= StepsLeft
    BY <1>1, <2>1, MeasuredFacts, NoMoreToRead, Constants
  <2>4. QED
    BY <1>5, <1>6, <2>2, <2>3 DEF K6Exits
<1>7. CASE K6Killed(i)
  <2>1. \A j \in Runs \ {i} : /\ proc'[j] = proc[j] /\ lines'[j] = lines[j]
                              /\ written'[j] = written[j]
    BY <1>7 DEF K6Killed, IInv, TypeOK, Processes
  <2>2. \A j \in Runs \ {i} : UNCHANGED K6StepsLeft(j)
    BY <2>1 DEF K6StepsLeft
  <2>3. Len(lines'[i]) \in Nat /\ Len(lines'[i]) <= Len(lines[i])
    <3>1. CASE UNCHANGED lines
      BY <1>2, <3>1
    <3> DEFINE new == SubSeq(lines[i], 1, written[i]) \o <<"text">>
    <3>2. CASE written[i] < Len(lines[i]) /\ lines' = [lines EXCEPT ![i] = new]
      <4>1. Len(new) = written[i] + 1 /\ Len(new) <= Len(lines[i])
        BY <3>2, CutLog DEF IInv
      <4> HIDE DEF new
      <4>2. lines'[i] = new
        BY <3>2 DEF IInv, TypeOK
      <4>3. QED
        BY <1>2, <4>1, <4>2
    <3>3. QED
      BY <1>7, <3>1, <3>2 DEF K6Killed
  <2>4. pc = "read" => Len(lines'[cur]) \in Nat /\ Len(lines'[cur]) <= Len(lines[cur])
    <3>1. pc = "read" => cur \in Runs
      BY MeasuredFacts
    <3>2. \A j \in Runs : Len(lines[j]) \in Nat
      BY MeasuredFacts, Constants
    <3>3. QED
      BY <2>1, <2>3, <3>1, <3>2
  <2>5. StepsLeft' <= StepsLeft
    BY <1>1, <2>4, NoMoreToRead
  <2>6. QED
    BY <1>5, <1>7, <2>2, <2>5 DEF K6Killed
<1>8. QED
  BY <1>4, <1>6, <1>7 DEF K6Acts

LEMMA StepAdvances == IInv /\ [Next]_vars => [Advances]_vars
<1> SUFFICES ASSUME IInv, Next
             PROVE  Advances
  BY DEF vars
<1>1. ASSUME Xk6, NEW i \in Runs
      PROVE  UNCHANGED K6StepsLeft(i) \/ (pc = "start" /\ i = cur)
  <2>1. CASE pc = "start"
    <3>1. ASSUME i # cur
          PROVE  proc'[i] = proc[i] /\ lines'[i] = lines[i] /\ written'[i] = written[i]
      BY <1>1, <2>1, <3>1 DEF Xk6, CreateOutput, BuildK6, Glob, StartK6, ReadEntry, ReadEof, Report,
                             IInv, TypeOK
    <3>2. QED
      BY <2>1, <3>1 DEF K6StepsLeft
  <2>2. CASE pc # "start"
    <3>1. UNCHANGED k6
      BY <1>1, <2>2 DEF Xk6, CreateOutput, BuildK6, Glob, StartK6, ReadEntry, ReadEof, Report
    <3>2. QED
      BY <3>1 DEF k6, K6StepsLeft
  <2>3. QED
    BY <2>1, <2>2
<1>2. ASSUME Interrupt
      PROVE  UNCHANGED StepsLeft /\ \A i \in Runs : UNCHANGED K6StepsLeft(i)
  BY <1>2 DEF Interrupt, Parent, k6, StepsLeft, K6StepsLeft, Work
<1>3. QED
  BY <1>1, <1>2, Xk6Advances, K6Advances DEF Advances

\* xk6 test and the k6 processes it starts take a number of steps that is known
\* beforehand, at most MaxLines + 3 for each file xk6 tests and MaxLines + 1 for
\* each k6: whatever the logs, the kills and the failing calls, no step of
\* runTestE, runFile and runAndLog comes back to where it was, and what k6 does
\* never gives xk6 more to do.
THEOREM TestsAreBounded ==
    Spec => /\ [](/\ StepsLeft \in 0..(Work(MaxRuns) + 5)
                  /\ \A i \in Runs : K6StepsLeft(i) \in 0..(MaxLines + 1))
            /\ [][Advances]_vars
<1>1. IInv => /\ StepsLeft \in 0..(Work(MaxRuns) + 5)
              /\ \A i \in Runs : K6StepsLeft(i) \in 0..(MaxLines + 1)
  BY StepsAreCounted
<1>2. QED
  BY <1>1, StepAdvances, Invariance, PTL DEF Spec

\* xk6 and k6 never wait for each other: while runAndLog reads, either there is
\* something for it to read, the end of the log included, or its k6 has room to
\* log the next line, or has none left and may end.
THEOREM NobodyWaits == Spec => []NobodyIsStuck
<1>1. ASSUME IInv, pc = "read"
      PROVE  NobodyIsStuck
  <2>1. cur \in Runs /\ proc[cur] \in {"running", "exited"}
    BY <1>1, Current DEF IInv, TypeOK, Processes
  <2>2. /\ Len(lines[cur]) \in 0..MaxLines /\ written[cur] \in 0..Len(lines[cur])
        /\ read[cur] \in 0..written[cur]
    BY <1>1, <2>1, MeasuredFacts
  <2>3. read[cur] = written[cur] => written[cur] - read[cur] < PipeSize
    BY <2>2, Constants
  <2>4. QED
    BY <2>1, <2>2, <2>3, Constants DEF NobodyIsStuck
<1>2. IInv => NobodyIsStuck
  BY <1>1 DEF NobodyIsStuck
<1>3. QED
  BY <1>2, Invariance, PTL


==============================================================================
