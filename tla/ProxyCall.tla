------------------------------ MODULE ProxyCall ------------------------------
(***************************************************************************)
(* What one Go module proxy lookup promises its caller, whatever happens   *)
(* on the wire: the value is returned only when the proxy holds the        *)
(* resource, and an error has a cause (the resource is absent, the request *)
(* could not be built, the context was cancelled, or the proxy or the      *)
(* network failed at least once).  GoProxy implements this specification;  *)
(* K6Resolve and SyncDeps are built on it, one step per lookup.            *)
(***************************************************************************)

VARIABLES
    present,    \* does the proxy hold the requested resource?
    valid,      \* can the request be built (module path, proxy URL)?
    cancelled,  \* has the caller's context been cancelled?
    faulty,     \* has the proxy or the network failed during this lookup?
    outcome     \* "pending", then "value" or "error"

vars == <<present, valid, cancelled, faulty, outcome>>

TypeOK ==
    /\ present \in BOOLEAN
    /\ valid \in BOOLEAN
    /\ cancelled \in BOOLEAN
    /\ faulty \in BOOLEAN
    /\ outcome \in {"pending", "value", "error"}

Init ==
    /\ present \in BOOLEAN
    /\ valid \in BOOLEAN
    /\ cancelled = FALSE
    /\ faulty = FALSE
    /\ outcome = "pending"

Cancel ==
    /\ cancelled' = TRUE
    /\ UNCHANGED <<present, valid, faulty, outcome>>

Fault ==
    /\ outcome = "pending"
    /\ faulty'
    /\ UNCHANGED <<present, valid, cancelled, outcome>>

ReturnValue ==
    /\ outcome = "pending"
    /\ valid
    /\ present
    /\ outcome' = "value"
    /\ UNCHANGED <<present, valid, cancelled, faulty>>

\* The last fault and the error it causes may be one step.
ReturnError ==
    /\ outcome = "pending"
    /\ faulty' \/ UNCHANGED faulty
    /\ ~present \/ ~valid \/ cancelled \/ faulty'
    /\ outcome' = "error"
    /\ UNCHANGED <<present, valid, cancelled>>

Next == Cancel \/ Fault \/ ReturnValue \/ ReturnError

Spec == Init /\ [][Next]_vars
==============================================================================
