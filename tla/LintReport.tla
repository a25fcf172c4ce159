----------------------------- MODULE LintReport -----------------------------
(***************************************************************************)
(* What xk6 lint promises, without its caches and tools: one verdict for   *)
(* each wanted check, in their order, none of them but for a reason, and   *)
(* an exit code that says how they went together (help/lint.md).           *)
(***************************************************************************)
EXTENDS Naturals, Sequences

CONSTANT Checks

VARIABLES
    wanted,     \* the checks to do
    given,      \* the verdicts so far, [id, passed]
    deserved,   \* pairs of a check and a verdict the extension has deserved
                \* at some moment of the run
    trouble,    \* some call has failed
    status      \* exit code, Running before

vars == <<wanted, given, deserved, trouble, status>>

Running == 3

Init ==
    /\ given = <<>>
    /\ deserved \subseteq Checks \X BOOLEAN
    /\ trouble = FALSE
    /\ status = Running

MaybeTrouble == trouble' \in {trouble, TRUE}

\* A check passes only if the extension deserves it and fails only if it does
\* not, or if a call has failed.
Judge ==
    /\ status = Running
    /\ Len(given) < Len(wanted)
    /\ MaybeTrouble
    /\ \E p \in BOOLEAN :
         LET id == wanted[Len(given) + 1] IN
         /\ <<id, p>> \in deserved \/ (~p /\ trouble')
         /\ given' = Append(given, [id |-> id, passed |-> p])
    /\ UNCHANGED <<wanted, deserved, status>>

\* The extension is edited meanwhile.
Edit ==
    /\ status = Running
    /\ deserved \subseteq deserved'
    /\ UNCHANGED <<wanted, given, trouble, status>>

AllPassed == \A i \in DOMAIN given : given[i].passed

\* 0 and 2 come with a verdict on every check.
Finish ==
    /\ status = Running
    /\ MaybeTrouble
    /\ \/ Len(given) = Len(wanted) /\ status' = IF AllPassed THEN 0 ELSE 2
       \/ trouble' /\ status' = 1
    /\ UNCHANGED <<wanted, given, deserved>>

\* A go.mod that is not in order may end the linter early, with Go's exit code
\* of a panic.
Panic ==
    /\ status = Running
    /\ <<"module", FALSE>> \in deserved
    /\ status' = 2
    /\ UNCHANGED <<wanted, given, deserved, trouble>>

Stumble ==
    /\ status = Running
    /\ MaybeTrouble
    /\ UNCHANGED <<wanted, given, deserved, status>>

Next == Judge \/ Edit \/ Finish \/ Panic \/ Stumble

Spec == Init /\ [][Next]_vars
==============================================================================
