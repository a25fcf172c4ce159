---------------------------- MODULE GoProxyProofs ----------------------------
(***************************************************************************)
(* Proofs about one proxy lookup, for every budget of attempts.            *)
(***************************************************************************)
EXTENDS GoProxy, TLAPS

\* Before a request: what was sent and what failed match the attempt, unless
\* a cancellation aborted a request.
BetweenRequests ==
    pc \in {"start", "backoff", "send"} =>
        /\ resp = "none"
        /\ faults <= attempt
        /\ sent <= attempt
        /\ ~cancelled => faults = attempt /\ sent = attempt
        /\ sent > faults => cancelled

\* While a request is out or its answer is handled.
DuringRequest ==
    pc \in {"inflight", "status", "read"} =>
        /\ faults <= attempt
        /\ sent <= attempt + 1
        /\ ~cancelled => faults = attempt /\ sent = attempt + 1
        /\ pc = "inflight" => resp = "none"
        /\ pc = "status" => resp # "none"
        /\ pc = "read" => resp = "ok"

\* An "ok" answer is about a resource the proxy holds, through a request that
\* could be built.
Truthful ==
    /\ resp = "ok" => present
    /\ resp = "refused" => ~present
    /\ pc \notin {"start", "done"} => valid
    /\ outcome = "pending" <=> pc # "done"
    /\ pc # "done" => attempt < MaxAttempts

\* The inductive invariant.
IInv ==
    /\ TypeOK
    /\ BodyReleased
    /\ BetweenRequests
    /\ DuringRequest
    /\ Truthful
    /\ RetryOnlyAfterFault
    /\ ErrorIsEarned

USE MaxAttemptsAssumption

LEMMA InitIInv == Init => IInv
<1> SUFFICES ASSUME Init
             PROVE  IInv
  OBVIOUS
<1>0. cancelled \in BOOLEAN
  BY Zenon DEF Init
<1>1. TypeOK
  BY <1>0 DEF Init, TypeOK, PCs
<1>2. BodyReleased /\ BetweenRequests /\ DuringRequest /\ Truthful
  BY DEF Init, BodyReleased, BetweenRequests, DuringRequest, Truthful
<1>3. RetryOnlyAfterFault /\ ErrorIsEarned
  BY DEF Init, RetryOnlyAfterFault, ErrorIsEarned
<1>4. QED
  BY <1>1, <1>2, <1>3 DEF IInv

LEMMA StepIInv == IInv /\ [Next]_vars => IInv'
<1> SUFFICES ASSUME IInv, [Next]_vars
             PROVE  IInv'
  OBVIOUS
<1> USE DEF IInv, TypeOK, PCs, BodyReleased, BetweenRequests, DuringRequest,
            Truthful, RetryOnlyAfterFault, ErrorIsEarned, env
<1>1. CASE Start
  BY <1>1 DEF Start, Return
<1>2. CASE TimerFires
  BY <1>2 DEF TimerFires
<1>3. CASE StopWaiting
  BY <1>3 DEF StopWaiting, Return
<1>4. CASE Send
  BY <1>4 DEF Send, NextAttempt
<1>5. CASE CtxAborts
  BY <1>5 DEF CtxAborts, NextAttempt
<1>6. CASE Retry5xx
  BY <1>6 DEF Retry5xx, NextAttempt
<1>7. CASE CheckStatus
  BY <1>7 DEF CheckStatus, Return
<1>8. CASE ReadBody
  BY <1>8 DEF ReadBody, Return
<1>9. CASE BodyUnreadable
  BY <1>9 DEF BodyUnreadable, Return
<1>10. CASE NetworkError
  BY <1>10 DEF NetworkError, NextAttempt
<1>11. CASE Answer
  BY <1>11 DEF Answer
<1>12. CASE Cancel
  BY <1>12 DEF Cancel
<1>13. CASE Done \/ UNCHANGED vars
  BY <1>13 DEF Done, vars
<1>14. QED
  BY <1>1, <1>2, <1>3, <1>4, <1>5, <1>6, <1>7, <1>8, <1>9, <1>10, <1>11,
     <1>12, <1>13 DEF Next, Client, Network

LEMMA Invariance == Spec => []IInv
<1>1. QED
  BY InitIInv, StepIInv, PTL DEF Spec

\* Type correctness of the lookup, for every budget of attempts: in particular
\* no more than MaxAttempts requests are ever sent.
THEOREM TypeCorrect == Spec => []TypeOK
<1>1. IInv => TypeOK
  BY DEF IInv
<1>2. QED
  BY <1>1, Invariance, PTL

\* No response body outlives the handling of its answer.
THEOREM BodiesAreReleased == Spec => []BodyReleased
<1>1. IInv => BodyReleased
  BY DEF IInv
<1>2. QED
  BY <1>1, Invariance, PTL

\* An error has a definite answer, a spent budget, a bad request or a
\* cancellation behind it.
THEOREM ErrorsAreEarned == Spec => []ErrorIsEarned
<1>1. IInv => ErrorIsEarned
  BY DEF IInv
<1>2. QED
  BY <1>1, Invariance, PTL

\* No definite answer is asked for twice.
THEOREM RetriesFollowFaults == Spec => []RetryOnlyAfterFault
<1>1. IInv => RetryOnlyAfterFault
  BY DEF IInv
<1>2. QED
  BY <1>1, Invariance, PTL

LEMMA StepImplements == IInv /\ [Next]_vars => [Call!Next]_(Call!vars)
<1> SUFFICES ASSUME IInv, [Next]_vars
             PROVE  [Call!Next]_(Call!vars)
  OBVIOUS
<1> USE DEF IInv, TypeOK, PCs, DuringRequest, BetweenRequests, Truthful, env,
            Call!Next, Call!vars, Call!Cancel, Call!Fault, Call!ReturnValue,
            Call!ReturnError
<1>1. CASE Start
  BY <1>1 DEF Start, Return
<1>2. CASE TimerFires
  BY <1>2 DEF TimerFires
<1>3. CASE StopWaiting
  BY <1>3 DEF StopWaiting, Return
<1>4. CASE Send
  BY <1>4 DEF Send, NextAttempt
<1>5. CASE CtxAborts
  BY <1>5 DEF CtxAborts, NextAttempt
<1>6. CASE Retry5xx
  BY <1>6 DEF Retry5xx, NextAttempt
<1>7. CASE CheckStatus
  BY <1>7 DEF CheckStatus, Return
<1>8. CASE ReadBody
  BY <1>8 DEF ReadBody, Return
<1>9. CASE BodyUnreadable
  BY <1>9 DEF BodyUnreadable, Return
<1>10. CASE NetworkError
  BY <1>10 DEF NetworkError, NextAttempt
<1>11. CASE Answer
  BY <1>11 DEF Answer
<1>12. CASE Cancel
  BY <1>12 DEF Cancel
<1>13. CASE Done \/ UNCHANGED vars
  BY <1>13 DEF Done, vars
<1>14. QED
  BY <1>1, <1>2, <1>3, <1>4, <1>5, <1>6, <1>7, <1>8, <1>9, <1>10, <1>11,
     <1>12, <1>13 DEF Next, Client, Network

\* The lookup, with its retries, waits and cancellation, implements the
\* atomic call the resolver is modelled on.
THEOREM ImplementsProxyCall == Spec => CallSpec
<1>1. Init => Call!Init
  BY DEF Init, Call!Init
<1>2. QED
  BY <1>1, StepImplements, Invariance, PTL DEF Spec, CallSpec, Call!Spec

------------------------------------------------------------------------------
(* Termination, but for the fairness: TLC checks Returns, and this is the    *)
(* measure it rests on.                                                      *)

\* How many steps a lookup may still take: six for each attempt that is left.
StepsLeft ==
    6 * (MaxAttempts - attempt) +
    CASE pc = "start" -> 6
      [] pc = "backoff" -> 5
      [] pc = "send" -> 4
      [] pc = "inflight" -> 3
      [] pc = "status" -> 2
      [] pc = "read" -> 1
      [] OTHER -> 0

Advances ==
    /\ Client \/ Network => StepsLeft' < StepsLeft
    /\ Cancel => StepsLeft' = StepsLeft

\* goProxyGet's loop is bounded, whatever the network answers and whenever the
\* user cancels: each step of the client or the network is one of at most
\* 6 * MaxAttempts + 6, and a cancellation gives it no new ones.
THEOREM LookupsAreBounded == Spec => [](StepsLeft \in 0..(6 * MaxAttempts + 6)) /\ [][Advances]_vars
<1>1. IInv => StepsLeft \in 0..(6 * MaxAttempts + 6)
  <2> SUFFICES ASSUME IInv
               PROVE  StepsLeft \in 0..(6 * MaxAttempts + 6)
    OBVIOUS
  <2>1. attempt \in Nat /\ attempt <= MaxAttempts /\ pc \in PCs
    BY DEF IInv, TypeOK
  <2>2. QED
    BY <2>1 DEF StepsLeft, PCs
<1>2. IInv /\ [Next]_vars => [Advances]_vars
  <2> SUFFICES ASSUME IInv, Next
               PROVE  Advances
    OBVIOUS
  <2>1. attempt \in Nat /\ attempt <= MaxAttempts /\ pc \in PCs /\ MaxAttempts \in Nat
    BY DEF IInv, TypeOK
  <2> USE <2>1 DEF StepsLeft, env
  <2>2. ASSUME NextAttempt, pc \in {"send", "inflight", "status"}
        PROVE  StepsLeft' < StepsLeft
    BY <2>2 DEF NextAttempt
  <2>3. Start \/ TimerFires \/ StopWaiting => StepsLeft' < StepsLeft
    BY DEF Start, TimerFires, StopWaiting, Return
  <2>4. Send => StepsLeft' < StepsLeft
    BY <2>2 DEF Send
  <2>5. CtxAborts \/ NetworkError \/ Retry5xx => StepsLeft' < StepsLeft
    BY <2>2 DEF CtxAborts, NetworkError, Retry5xx
  <2>6. CheckStatus \/ ReadBody \/ BodyUnreadable => StepsLeft' < StepsLeft
    BY DEF CheckStatus, ReadBody, BodyUnreadable, Return
  <2>7. Answer => StepsLeft' < StepsLeft
    BY DEF Answer
  <2>8. Cancel => StepsLeft' = StepsLeft
    BY DEF Cancel
  <2>9. QED
    BY <2>3, <2>4, <2>5, <2>6, <2>7, <2>8 DEF Advances, Client, Network
<1>3. QED
  BY <1>1, <1>2, Invariance, PTL DEF Spec
==============================================================================
