---------------------------- MODULE CommandProofs ----------------------------
(***************************************************************************)
(* Proofs about the commands, for any number of them, of blocks, of        *)
(* interrupts and of faults.                                               *)
(***************************************************************************)
EXTENDS Command, SequenceTheorems, TLAPS

LEMMA Bounds ==
    /\ MaxRounds \in Nat /\ MaxRounds >= 1
    /\ MaxBlocks \in Nat /\ MaxBlocks >= 1
    /\ MaxSteps \in Nat /\ MaxInterrupts \in Nat /\ MaxFaults \in Nat
BY BoundsAssumption

USE Bounds DEF NoExit, Killed, Alive

\* Which command is where, and that nothing is copied before it is compiled.
Where ==
    /\ pc \in {"mktemp", "modfile", "startk6", "wait"} => kind = "run"
    /\ pc \in {"open", "mkwork", "go", "copy"} => kind \in {"build", "run"}
    /\ pc = "own" => kind = "own"
    /\ pc # "idle" => exit = NoExit
    /\ pc \in {"mktemp", "modfile", "open", "mkwork", "go", "own"} => copied = 0
    /\ pc = "copy" => size > 0

\* The output file of run and x, from an empty directory on.
RunFile ==
    kind = "run" =>
        /\ pc \in {"modfile", "open", "mkwork", "go", "copy", "startk6", "wait"} => dir
        /\ pc \in {"modfile", "open", "mkwork", "go", "copy"} =>
             out["run"] = [i \in 1..copied |-> round]
        /\ pc \in {"startk6", "wait"} => out["run"] = Fresh

\* The one of build, which may have been longer.
BuildFile ==
    kind = "build" /\ pc = "copy" =>
        /\ copied <= Len(out["build"])
        /\ \A i \in 1..copied : out["build"][i] = round

\* Who is alive and what is there, and that somebody has interrupted.
Leftovers ==
    /\ k6 # "none" => kind = "run" /\ pc \in {"wait", "idle"}
    /\ k6 \in Alive => pc = "wait" \/ exit = Killed
    /\ work => pc \in {"go", "copy"} \/ skip \/ exit = Killed
    /\ dir => kind = "run"
    /\ sig \/ ctx \/ hit => interrupts > 0

\* The inductive invariant.
IInv ==
    /\ TypeOK
    /\ Where
    /\ RunFile
    /\ BuildFile
    /\ Leftovers
    /\ OldBinaryKept
    /\ SuccessIsWhole
    /\ LeavesNothing

------------------------------------------------------------------------------
(* Blocks of a file.                                                         *)

LEMMA BlocksAreSequences ==
    ASSUME NEW b
    PROVE  b \in Blocks <=> b \in Seq(0..MaxRounds) /\ Len(b) \in 0..MaxBlocks
<1>1. ASSUME b \in Blocks
      PROVE  b \in Seq(0..MaxRounds) /\ Len(b) \in 0..MaxBlocks
  <2>1. PICK n \in 0..MaxBlocks : b \in [1..n -> 0..MaxRounds]
    BY <1>1 DEF Blocks
  <2>2. QED
    BY <2>1
<1>2. ASSUME b \in Seq(0..MaxRounds), Len(b) \in 0..MaxBlocks
      PROVE  b \in Blocks
  <2>1. b \in [1..Len(b) -> 0..MaxRounds]
    BY <1>2, LenProperties
  <2>2. QED
    BY <1>2, <2>1 DEF Blocks
<1>3. QED
  BY <1>1, <1>2

\* A block goes behind those that are copied, over an older one or at the end.
LEMMA WrittenBlocks ==
    ASSUME NEW b \in Blocks, TypeOK, copied < size
    PROVE  /\ Written(b) \in Blocks
           /\ copied <= Len(b) =>
                /\ Len(Written(b)) = IF copied < Len(b) THEN Len(b) ELSE copied + 1
                /\ Written(b)[copied + 1] = round
                /\ \A i \in 1..copied : Written(b)[i] = b[i]
<1>1. b \in Seq(0..MaxRounds) /\ Len(b) \in 0..MaxBlocks
  BY BlocksAreSequences
<1>2. copied \in Nat /\ size \in 0..MaxBlocks /\ round \in 0..MaxRounds
  BY DEF TypeOK
<1>3. CASE copied < Len(b)
  <2>1. Written(b) = [b EXCEPT ![copied + 1] = round]
    BY <1>3 DEF Written
  <2>2. Written(b) \in Seq(0..MaxRounds) /\ Len(Written(b)) = Len(b)
    BY <1>1, <1>2, <1>3, <2>1
  <2>3. /\ Written(b)[copied + 1] = round
        /\ \A i \in 1..copied : Written(b)[i] = b[i]
    BY <1>1, <1>2, <1>3, <2>1
  <2>4. QED
    BY <1>1, <1>3, <2>2, <2>3, BlocksAreSequences
<1>4. CASE ~(copied < Len(b))
  <2>1. Written(b) = Append(b, round)
    BY <1>4 DEF Written
  <2>2. /\ Written(b) \in Seq(0..MaxRounds) /\ Len(Written(b)) = Len(b) + 1
        /\ \A i \in 1..Len(b) : Written(b)[i] = b[i]
        /\ Written(b)[Len(b) + 1] = round
    BY <1>1, <1>2, <2>1, AppendProperties
  <2>3. Len(Written(b)) \in 0..MaxBlocks
    BY <1>1, <1>2, <1>4, <2>2
  <2>4. QED
    BY <1>1, <1>2, <1>4, <2>2, <2>3, BlocksAreSequences
<1>5. QED
  BY <1>3, <1>4

LEMMA EmptyFile == <<>> \in Blocks /\ <<>> = [i \in 1..0 |-> round]
<1>1. <<>> \in Seq(0..MaxRounds) /\ Len(<<>>) = 0
  BY EmptySeq
<1>2. <<>> \in Blocks
  <2>1. Len(<<>>) \in 0..MaxBlocks
    BY <1>1
  <2>2. QED
    BY ONLY <1>1, <2>1, BlocksAreSequences
<1>3. <<>> = [i \in 1..0 |-> round]
  OBVIOUS
<1>4. QED
  BY <1>2, <1>3

------------------------------------------------------------------------------
LEMMA InitIInv == Init => IInv
<1> SUFFICES ASSUME Init
             PROVE  IInv
  OBVIOUS
<1>1. TypeOK
  <2>1. [i \in 1..MaxBlocks |-> 0] \in Blocks
    BY DEF Blocks
  <2>2. out \in [{"build", "run"} -> Blocks] /\ before \in Blocks
    BY <2>1, EmptyFile DEF Init
  <2>3. {skip, sig, ctx, hit, dir, work} \subseteq BOOLEAN
    BY DEF Init
  <2>4. QED
    BY <2>2, <2>3 DEF Init, TypeOK, Kinds
<1>2. QED
  BY <1>1 DEF Init, IInv, Where, RunFile, BuildFile, Leftovers, OldBinaryKept, SuccessIsWhole,
              LeavesNothing

LEMMA StepIInv == IInv /\ [Next]_vars => IInv'
<1> SUFFICES ASSUME IInv, [Next]_vars
             PROVE  IInv'
  OBVIOUS
<1> USE DEF IInv, TypeOK, Kinds, Where, RunFile, BuildFile, Leftovers, OldBinaryKept, SuccessIsWhole,
            LeavesNothing, Fresh, Fault, Exit, params, signals, files, Target, Cleanup
<1>1. CASE Begin
  <2>1. TypeOK'
    <3>1. ({skip, sig, ctx, hit, dir, work} \subseteq BOOLEAN)'
      BY <1>1 DEF Begin
    <3>2. /\ out' \in [{"build", "run"} -> Blocks]
          /\ before' \in Blocks
      BY <1>1 DEF Begin
    <3>3. /\ size' \in 0..MaxBlocks /\ copied' \in 0..size' /\ left' \in 0..MaxSteps
          /\ round' \in 0..MaxRounds
          /\ interrupts' \in 0..MaxInterrupts /\ faults' \in 0..MaxFaults
      BY <1>1 DEF Begin
    <3>4. QED
      BY <1>1, <3>1, <3>2, <3>3 DEF Begin
  <2>2. Where'
    BY <1>1 DEF Begin
  <2>3. RunFile'
    BY <1>1 DEF Begin
  <2>4. BuildFile'
    BY <1>1 DEF Begin
  <2>5. Leftovers'
    BY <1>1 DEF Begin
  <2>6. OldBinaryKept'
    BY <1>1 DEF Begin
  <2>7. SuccessIsWhole'
    BY <1>1 DEF Begin
  <2>8. LeavesNothing'
    BY <1>1 DEF Begin
  <2>9. QED
    BY <2>1, <2>2, <2>3, <2>4, <2>5, <2>6, <2>7, <2>8 DEF IInv
<1>2. CASE Listen
  BY <1>2 DEF Listen
<1>3. CASE ShutDown
  <2>1. TypeOK'
    BY <1>3 DEF ShutDown
  <2>2. Where'
    BY <1>3 DEF ShutDown
  <2>3. RunFile'
    BY <1>3 DEF ShutDown
  <2>4. BuildFile'
    BY <1>3 DEF ShutDown
  <2>5. Leftovers'
    BY <1>3 DEF ShutDown
  <2>6. OldBinaryKept'
    BY <1>3 DEF ShutDown
  <2>7. SuccessIsWhole'
    BY <1>3 DEF ShutDown
  <2>8. LeavesNothing'
    BY <1>3 DEF ShutDown
  <2>9. QED
    BY <2>1, <2>2, <2>3, <2>4, <2>5, <2>6, <2>7, <2>8 DEF IInv
<1>4. CASE Interrupt
  BY <1>4 DEF Interrupt
<1>5. CASE MkdirTemp
  <2>1. TypeOK'
    <3>1. ({skip, sig, ctx, hit, dir, work} \subseteq BOOLEAN)'
      BY <1>5 DEF MkdirTemp
    <3>2. /\ out' \in [{"build", "run"} -> Blocks]
          /\ before' \in Blocks
      BY EmptyFile, <1>5 DEF MkdirTemp
    <3>3. /\ size' \in 0..MaxBlocks /\ copied' \in 0..size' /\ left' \in 0..MaxSteps
          /\ round' \in 0..MaxRounds
          /\ interrupts' \in 0..MaxInterrupts /\ faults' \in 0..MaxFaults
      BY <1>5 DEF MkdirTemp
    <3>4. QED
      BY <1>5, <3>1, <3>2, <3>3 DEF MkdirTemp
  <2>2. Where'
    BY <1>5 DEF MkdirTemp
  <2>3. RunFile'
    BY <1>5 DEF MkdirTemp
  <2>4. BuildFile'
    BY <1>5 DEF MkdirTemp
  <2>5. Leftovers'
    BY <1>5 DEF MkdirTemp
  <2>6. OldBinaryKept'
    BY <1>5 DEF MkdirTemp
  <2>7. SuccessIsWhole'
    BY <1>5 DEF MkdirTemp
  <2>8. LeavesNothing'
    BY <1>5 DEF MkdirTemp
  <2>9. QED
    BY <2>1, <2>2, <2>3, <2>4, <2>5, <2>6, <2>7, <2>8 DEF IInv
<1>6. CASE getModfile
  BY <1>6 DEF getModfile
<1>7. CASE OpenOutput
  <2>1. TypeOK'
    <3>1. ({skip, sig, ctx, hit, dir, work} \subseteq BOOLEAN)'
      BY <1>7 DEF OpenOutput
    <3>2. /\ out' \in [{"build", "run"} -> Blocks]
          /\ before' \in Blocks
      BY <1>7 DEF OpenOutput, Opened
    <3>3. /\ size' \in 0..MaxBlocks /\ copied' \in 0..size' /\ left' \in 0..MaxSteps
          /\ round' \in 0..MaxRounds
          /\ interrupts' \in 0..MaxInterrupts /\ faults' \in 0..MaxFaults
      BY <1>7 DEF OpenOutput
    <3>4. QED
      BY <1>7, <3>1, <3>2, <3>3 DEF OpenOutput
  <2>2. Where'
    BY <1>7 DEF OpenOutput, Opened
  <2>3. RunFile'
    BY <1>7 DEF OpenOutput, Opened
  <2>4. BuildFile'
    BY <1>7 DEF OpenOutput, Opened
  <2>5. Leftovers'
    BY <1>7 DEF OpenOutput, Opened
  <2>6. OldBinaryKept'
    BY <1>7 DEF OpenOutput, Opened
  <2>7. SuccessIsWhole'
    BY <1>7 DEF OpenOutput, Opened
  <2>8. LeavesNothing'
    BY <1>7 DEF OpenOutput, Opened
  <2>9. QED
    BY <2>1, <2>2, <2>3, <2>4, <2>5, <2>6, <2>7, <2>8 DEF IInv
<1>8. CASE MkWork
  <2>1. TypeOK'
    <3>1. ({skip, sig, ctx, hit, dir, work} \subseteq BOOLEAN)'
      BY <1>8 DEF MkWork
    <3>2. /\ out' \in [{"build", "run"} -> Blocks]
          /\ before' \in Blocks
      BY <1>8 DEF MkWork
    <3>3. /\ size' \in 0..MaxBlocks /\ copied' \in 0..size' /\ left' \in 0..MaxSteps
          /\ round' \in 0..MaxRounds
          /\ interrupts' \in 0..MaxInterrupts /\ faults' \in 0..MaxFaults
      BY <1>8 DEF MkWork
    <3>4. QED
      BY <1>8, <3>1, <3>2, <3>3 DEF MkWork
  <2>2. Where'
    BY <1>8 DEF MkWork
  <2>3. RunFile'
    BY <1>8 DEF MkWork
  <2>4. BuildFile'
    BY <1>8 DEF MkWork
  <2>5. Leftovers'
    BY <1>8 DEF MkWork
  <2>6. OldBinaryKept'
    BY <1>8 DEF MkWork
  <2>7. SuccessIsWhole'
    BY <1>8 DEF MkWork
  <2>8. LeavesNothing'
    BY <1>8 DEF MkWork
  <2>9. QED
    BY <2>1, <2>2, <2>3, <2>4, <2>5, <2>6, <2>7, <2>8 DEF IInv
<1>9. CASE GoBuild
  BY <1>9 DEF GoBuild
<1>10. CASE CopyBlock
  <2>1. TypeOK'
    <3>1. ({skip, sig, ctx, hit, dir, work} \subseteq BOOLEAN)'
      BY <1>10 DEF CopyBlock
    <3>2. /\ out' \in [{"build", "run"} -> Blocks]
          /\ before' \in Blocks
      BY WrittenBlocks, <1>10 DEF CopyBlock
    <3>3. /\ size' \in 0..MaxBlocks /\ copied' \in 0..size' /\ left' \in 0..MaxSteps
          /\ round' \in 0..MaxRounds
          /\ interrupts' \in 0..MaxInterrupts /\ faults' \in 0..MaxFaults
      BY <1>10 DEF CopyBlock
    <3>4. QED
      BY <1>10, <3>1, <3>2, <3>3 DEF CopyBlock
  <2>2. Where'
    BY <1>10 DEF CopyBlock
  <2>3. RunFile'
    <3>1. CASE pc' = "idle"
      BY <1>10, <3>1 DEF CopyBlock
    <3>2. CASE pc' # "idle" /\ kind = "run"
      <4> DEFINE b == [j \in 1..copied |-> round]
      <4>1. /\ out["run"] = b /\ b \in Blocks
            /\ out'["run"] = Written(b) /\ copied' = copied + 1
            /\ pc' = "copy" /\ UNCHANGED <<round, dir, kind>> /\ dir
        BY <1>10, <3>2 DEF CopyBlock
      <4>2. Len(b) = copied
        OBVIOUS
      <4>3. /\ Written(b) \in Seq(0..MaxRounds) /\ Len(Written(b)) = copied + 1
            /\ \A j \in 1..(copied + 1) : Written(b)[j] = round
        <5>1. /\ Written(b) \in Blocks /\ Len(Written(b)) = copied + 1
              /\ Written(b)[copied + 1] = round
              /\ \A j \in 1..copied : Written(b)[j] = b[j]
          <6>1. copied < size /\ copied \in Nat /\ Len(b) = copied /\ b \in Blocks
            BY <1>10, <4>1, <4>2 DEF CopyBlock
          <6> HIDE DEF b
          <6>2. ~(copied < Len(b)) /\ copied <= Len(b)
            BY ONLY <6>1
          <6>3. /\ Written(b) \in Blocks
                /\ copied <= Len(b) =>
                     /\ Len(Written(b)) = IF copied < Len(b) THEN Len(b) ELSE copied + 1
                     /\ Written(b)[copied + 1] = round
                     /\ \A j \in 1..copied : Written(b)[j] = b[j]
            BY ONLY TypeOK, <6>1, WrittenBlocks
          <6>4. QED
            BY ONLY <6>2, <6>3
        <5>2. copied \in Nat
          OBVIOUS
        <5>3. \A j \in 1..copied : b[j] = round
          OBVIOUS
        <5>4. \A j \in 1..(copied + 1) : j = copied + 1 \/ j \in 1..copied
          BY ONLY <5>2
        <5>5. QED
          BY ONLY <5>1, <5>3, <5>4, BlocksAreSequences
      <4>4. Written(b) = [j \in 1..(copied + 1) |-> round]
        BY <4>3, LenProperties
      <4>5. QED
        BY <4>1, <4>4
    <3>3. CASE kind # "run"
      BY <1>10, <3>3 DEF CopyBlock
    <3>4. QED
      BY <3>1, <3>2, <3>3
  <2>4. BuildFile'
    <3>1. CASE pc' = "idle"
      BY <1>10, <3>1 DEF CopyBlock
    <3>2. CASE pc' # "idle" /\ kind = "build"
      <4>1. /\ out["build"] \in Blocks /\ out'["build"] = Written(out["build"])
            /\ copied' = copied + 1 /\ UNCHANGED <<round, kind>>
            /\ copied <= Len(out["build"])
            /\ \A j \in 1..copied : out["build"][j] = round
        BY <1>10, <3>2 DEF CopyBlock
      <4>2. /\ copied + 1 <= Len(Written(out["build"]))
            /\ \A j \in 1..(copied + 1) : Written(out["build"])[j] = round
        <5>1. Len(out["build"]) \in Nat /\ copied \in Nat /\ copied < size
          BY <1>10, <4>1, BlocksAreSequences DEF CopyBlock
        <5>2. QED
          BY <4>1, <5>1, WrittenBlocks
      <4>3. QED
        BY <4>1, <4>2
    <3>3. CASE kind # "build"
      BY <1>10, <3>3 DEF CopyBlock
    <3>4. QED
      BY <3>1, <3>2, <3>3
  <2>5. Leftovers'
    BY <1>10 DEF CopyBlock
  <2>6. OldBinaryKept'
    BY <1>10 DEF CopyBlock
  <2>7. SuccessIsWhole'
    BY <1>10 DEF CopyBlock
  <2>8. LeavesNothing'
    BY <1>10 DEF CopyBlock
  <2>9. QED
    BY <2>1, <2>2, <2>3, <2>4, <2>5, <2>6, <2>7, <2>8 DEF IInv
<1>11. CASE Built
  BY <1>11 DEF Built
<1>12. CASE StartK6
  <2>1. TypeOK'
    <3>1. ({skip, sig, ctx, hit, dir, work} \subseteq BOOLEAN)'
      BY <1>12 DEF StartK6
    <3>2. /\ out' \in [{"build", "run"} -> Blocks]
          /\ before' \in Blocks
      BY <1>12 DEF StartK6
    <3>3. /\ size' \in 0..MaxBlocks /\ copied' \in 0..size' /\ left' \in 0..MaxSteps
          /\ round' \in 0..MaxRounds /\ interrupts' \in 0..MaxInterrupts
      BY <1>12 DEF StartK6
    <3>4. faults' \in 0..MaxFaults
      <4>1. faults' = faults \/ Fault
        BY ONLY <1>12, Zenon DEF StartK6
      <4>2. QED
        BY <4>1
    <3>5. QED
      BY <1>12, <3>1, <3>2, <3>3, <3>4 DEF StartK6
  <2>2. Where'
    BY <1>12 DEF StartK6
  <2>3. RunFile'
    BY <1>12 DEF StartK6
  <2>4. BuildFile'
    BY <1>12 DEF StartK6
  <2>5. Leftovers'
    <3>1. CASE k6' = "running"
      BY <1>12, <3>1 DEF StartK6
    <3>2. CASE UNCHANGED k6
      BY <1>12, <3>2 DEF StartK6
    <3>3. QED
      BY <1>12, <3>1, <3>2 DEF StartK6
  <2>6. OldBinaryKept'
    BY <1>12 DEF StartK6
  <2>7. SuccessIsWhole'
    BY <1>12 DEF StartK6
  <2>8. LeavesNothing'
    BY <1>12 DEF StartK6
  <2>9. QED
    BY <2>1, <2>2, <2>3, <2>4, <2>5, <2>6, <2>7, <2>8 DEF IInv
<1>13. CASE Wait
  <2>1. TypeOK'
    BY <1>13 DEF Wait
  <2>2. Where'
    BY <1>13 DEF Wait
  <2>3. RunFile'
    BY <1>13 DEF Wait
  <2>4. BuildFile'
    BY <1>13 DEF Wait
  <2>5. Leftovers'
    BY <1>13 DEF Wait
  <2>6. OldBinaryKept'
    BY <1>13 DEF Wait
  <2>7. SuccessIsWhole'
    BY <1>13 DEF Wait
  <2>8. LeavesNothing'
    BY <1>13 DEF Wait
  <2>9. QED
    BY <2>1, <2>2, <2>3, <2>4, <2>5, <2>6, <2>7, <2>8 DEF IInv
<1>14. CASE OwnStep
  <2>1. TypeOK'
    <3>1. ({skip, sig, ctx, hit, dir, work} \subseteq BOOLEAN)'
      BY <1>14 DEF OwnStep
    <3>2. /\ out' \in [{"build", "run"} -> Blocks]
          /\ before' \in Blocks
      BY <1>14 DEF OwnStep
    <3>3. /\ size' \in 0..MaxBlocks /\ copied' \in 0..size' /\ left' \in 0..MaxSteps
          /\ round' \in 0..MaxRounds
          /\ interrupts' \in 0..MaxInterrupts /\ faults' \in 0..MaxFaults
      BY <1>14 DEF OwnStep
    <3>4. QED
      BY <1>14, <3>1, <3>2, <3>3 DEF OwnStep
  <2>2. Where'
    BY <1>14 DEF OwnStep
  <2>3. RunFile'
    BY <1>14 DEF OwnStep
  <2>4. BuildFile'
    BY <1>14 DEF OwnStep
  <2>5. Leftovers'
    BY <1>14 DEF OwnStep
  <2>6. OldBinaryKept'
    BY <1>14 DEF OwnStep
  <2>7. SuccessIsWhole'
    BY <1>14 DEF OwnStep
  <2>8. LeavesNothing'
    BY <1>14 DEF OwnStep
  <2>9. QED
    BY <2>1, <2>2, <2>3, <2>4, <2>5, <2>6, <2>7, <2>8 DEF IInv
<1>15. CASE K6Ends
  BY <1>15 DEF K6Ends
<1>16. CASE K6Killed
  BY <1>16 DEF K6Killed
<1>17. CASE UNCHANGED vars
  BY <1>17 DEF vars
<1>18. QED
  BY <1>1, <1>2, <1>3, <1>4, <1>5, <1>6, <1>7, <1>8, <1>9, <1>10, <1>11, <1>12, <1>13, <1>14, <1>15, <1>16, <1>17 DEF Next, Main

LEMMA Invariance == Spec => []IInv
<1>1. QED
  BY InitIInv, StepIInv, PTL DEF Spec

------------------------------------------------------------------------------
\* Type correctness of the commands: in particular no more is copied than was
\* compiled.
THEOREM TypeCorrect == Spec => []TypeOK
<1>1. IInv => TypeOK
  BY DEF IInv
<1>2. QED
  BY <1>1, Invariance, PTL

\* The k6 that run and x execute is the binary of this very command, for any
\* number of commands before it and whatever is interrupted.
THEOREM RunsItsOwn == Spec => []RunsItsOwnBuild
<1>1. IInv => RunsItsOwnBuild
  BY DEF IInv, Where, RunFile, RunsItsOwnBuild
<1>2. QED
  BY <1>1, Invariance, PTL

\* An older binary is kept until there is a new one to copy, and a build that
\* reports success has copied all of it.
THEOREM OutputsAreSound == Spec => []OutputIsSound
<1>1. IInv => OutputIsSound
  BY DEF IInv, OutputIsSound
<1>2. QED
  BY <1>1, Invariance, PTL

\* No child and no directory outlives a command, but for those listed there.
THEOREM NothingIsLeft == Spec => []LeavesNothing
<1>1. IInv => LeavesNothing
  BY DEF IInv
<1>2. QED
  BY <1>1, Invariance, PTL

------------------------------------------------------------------------------
(* Termination after an interrupt, but for the fairness: TLC checks          *)
(* InterruptEnds, and this is what it rests on.                              *)

\* How many steps the main goroutine may still take in this command.
StepsLeft ==
    CASE pc = "mktemp" -> MaxBlocks + 8
      [] pc = "modfile" -> MaxBlocks + 7
      [] pc = "open" -> MaxBlocks + 6
      [] pc = "mkwork" -> MaxBlocks + 5
      [] pc = "go" -> MaxBlocks + 4
      [] pc = "copy" -> (size - copied) + 3
      [] pc = "startk6" -> 2
      [] pc = "wait" -> 1
      [] pc = "own" -> left + 1
      [] OTHER -> 0

Advances ==
    /\ Main => StepsLeft' < StepsLeft
    /\ Listen \/ ShutDown \/ Interrupt \/ K6Ends \/ K6Killed => StepsLeft' <= StepsLeft

\* An interrupt that trapSignals has been notified of stays in its channel until
\* the root context is cancelled, and that stays until the command has ended.
InterruptIsKept ==
    pc # "idle" /\ pc' # "idle" =>
        /\ sig /\ trap = "listening" => (sig' /\ trap' = "listening") \/ ctx'
        /\ ctx => ctx'

LEMMA LeftFacts ==
    ASSUME IInv
    PROVE  /\ StepsLeft \in 0..(MaxBlocks + MaxSteps + 8)
           /\ size \in Nat /\ copied \in Nat /\ size - copied \in 0..MaxBlocks /\ left \in Nat
           /\ pc # "idle" => StepsLeft > 0
<1>1. /\ size \in Nat /\ copied \in Nat /\ copied <= size /\ size <= MaxBlocks
      /\ left \in Nat /\ left <= MaxSteps
  BY DEF IInv, TypeOK
<1>2. size - copied \in 0..MaxBlocks
  BY <1>1
<1>3. pc \in {"idle", "mktemp", "modfile", "open", "mkwork", "go", "copy", "startk6", "wait", "own"}
  BY DEF IInv, TypeOK
<1>4. StepsLeft \in 0..(MaxBlocks + MaxSteps + 8) /\ (pc # "idle" => StepsLeft > 0)
  <2>1. CASE pc = "idle"
    BY <2>1 DEF StepsLeft
  <2>2. CASE pc = "own"
    BY <1>1, <2>2 DEF StepsLeft
  <2>3. CASE pc \in {"startk6", "wait"}
    <3>1. StepsLeft \in {1, 2}
      BY <2>3 DEF StepsLeft
    <3>2. QED
      BY <3>1
  <2>4. CASE pc = "copy"
    BY <1>2, <2>4 DEF StepsLeft
  <2>5. CASE pc \in {"mktemp", "modfile", "open", "mkwork", "go"}
    <3>1. StepsLeft \in {MaxBlocks + n : n \in 4..8}
      BY <2>5 DEF StepsLeft
    <3>2. QED
      BY <3>1
  <2>6. QED
    BY <1>3, <2>1, <2>2, <2>3, <2>4, <2>5
<1>5. QED
  BY <1>1, <1>2, <1>4

LEMMA MainAdvances ==
    ASSUME IInv, Main
    PROVE  StepsLeft' < StepsLeft
<1>1. /\ size \in Nat /\ copied \in Nat /\ size - copied \in 0..MaxBlocks /\ left \in Nat
      /\ StepsLeft \in Nat /\ (pc # "idle" => StepsLeft > 0)
  BY LeftFacts
<1>2. pc # "idle"
  BY DEF Main, MkdirTemp, getModfile, OpenOutput, MkWork, GoBuild, CopyBlock, Built, StartK6,
         Wait, OwnStep
<1>3. CASE pc' = "idle"
  <2>1. StepsLeft' = 0
    BY <1>3 DEF StepsLeft
  <2>2. QED
    BY <1>1, <1>2, <2>1
<1>4. CASE pc' # "idle"
  <2>0. \A e : ~Exit(e)
    BY <1>4 DEF Exit
  <2> USE <2>0, <1>1 DEF StepsLeft
  <2>1. CASE MkdirTemp \/ getModfile \/ OpenOutput \/ MkWork
    <3>1. \/ pc = "mktemp" /\ pc' = "modfile"
          \/ pc = "modfile" /\ pc' = "open"
          \/ pc = "open" /\ pc' = "mkwork"
          \/ pc = "mkwork" /\ pc' = "go"
      BY <2>1 DEF MkdirTemp, getModfile, OpenOutput, MkWork
    <3>2. QED
      BY <3>1
  <2>2. CASE GoBuild
    <3>1. pc = "go" /\ pc' = "copy" /\ size' \in 1..MaxBlocks /\ copied' = 0
      BY <2>2 DEF GoBuild, IInv, Where
    <3>2. QED
      BY <3>1
  <2>3. CASE CopyBlock
    BY <2>3 DEF CopyBlock
  <2>4. CASE Built
    BY <2>4 DEF Built
  <2>5. CASE StartK6 \/ Wait
    BY <2>5 DEF StartK6, Wait
  <2>6. CASE OwnStep
    BY <2>6 DEF OwnStep
  <2>7. QED
    BY <2>1, <2>2, <2>3, <2>4, <2>5, <2>6 DEF Main
<1>5. QED
  BY <1>3, <1>4

\* A command takes a bounded number of steps, and one that was interrupted
\* learns of it: nothing but the end of the command takes the signal out of its
\* channel or the cancellation back.
THEOREM CommandsAreBounded ==
    Spec => /\ [](StepsLeft \in 0..(MaxBlocks + MaxSteps + 8))
            /\ [][Advances /\ InterruptIsKept]_vars
<1>1. IInv => StepsLeft \in 0..(MaxBlocks + MaxSteps + 8)
  BY LeftFacts
<1>2. ASSUME IInv, Next
      PROVE  Advances
  <2>1. Listen \/ ShutDown \/ K6Ends \/ K6Killed => StepsLeft' = StepsLeft
    BY DEF Listen, ShutDown, K6Ends, K6Killed, params, StepsLeft
  <2>2. Interrupt => StepsLeft' \in {0, StepsLeft}
    BY DEF Interrupt, Exit, StepsLeft
  <2>3. StepsLeft \in Nat
    BY <1>2, LeftFacts
  <2>4. QED
    BY <1>2, <2>1, <2>2, <2>3, MainAdvances DEF Advances
<1>3. ASSUME IInv, Next
      PROVE  InterruptIsKept
  <2> USE DEF params, signals, InterruptIsKept
  <2>1. CASE Begin \/ Listen \/ ShutDown \/ Interrupt \/ K6Ends \/ K6Killed
    BY <2>1 DEF Begin, Listen, ShutDown, Interrupt, Exit, K6Ends, K6Killed
  <2>2. CASE Main
    BY <2>2 DEF Main, MkdirTemp, getModfile, OpenOutput, MkWork, GoBuild, CopyBlock, Built, StartK6,
                Wait, OwnStep
  <2>3. QED
    BY <1>3, <2>1, <2>2 DEF Next
<1>4. IInv /\ [Next]_vars => [Advances /\ InterruptIsKept]_vars
  BY <1>2, <1>3
<1>5. QED
  BY <1>1, <1>4, Invariance, PTL DEF Spec
==============================================================================
