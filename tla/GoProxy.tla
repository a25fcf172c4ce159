------------------------------- MODULE GoProxy -------------------------------
(***************************************************************************)
(* One lookup at the Go module proxy: getLatestVersion, getModule or       *)
(* probeVersionInfo in internal/sync, with goProxyGet inlined.  The client *)
(* makes up to MaxAttempts requests, waiting between two of them, and      *)
(* gives up early when its context is cancelled during a wait.  The proxy  *)
(* and the network are the environment: they answer, fail or stay silent.  *)
(* The three lookups differ only in what they parse, which is abstracted   *)
(* to "the body can be decoded".                                           *)
(***************************************************************************)
EXTENDS Naturals

CONSTANT MaxAttempts  \* maxAttempts in goProxyGet

ASSUME MaxAttemptsAssumption == MaxAttempts \in Nat \ {0}

VARIABLES
    present,    \* the proxy holds the resource (fixed during the lookup)
    valid,      \* EscapePath and NewRequestWithContext accept the request
    cancelled,  \* ctx.Done() is closed
    pc,         \* where the client is
    attempt,    \* attempt of goProxyGet's loop
    resp,       \* the response in hand: "none", "5xx", "ok" or "refused"
    open,       \* response bodies opened and not closed yet
    outcome,    \* "pending", then what the lookup returns
    sent,       \* history: requests that reached the network
    faults      \* history: network errors, 5xx answers and unreadable bodies

env == <<present, valid>>
vars == <<present, valid, cancelled, pc, attempt, resp, open, outcome, sent, faults>>

PCs == {"start", "backoff", "send", "inflight", "status", "read", "done"}

TypeOK ==
    /\ present \in BOOLEAN
    /\ valid \in BOOLEAN
    /\ cancelled \in BOOLEAN
    /\ pc \in PCs
    /\ attempt \in 0..MaxAttempts
    /\ resp \in {"none", "5xx", "ok", "refused"}
    /\ open \in 0..1
    /\ outcome \in {"pending", "value", "error"}
    /\ sent \in 0..MaxAttempts
    /\ faults \in 0..MaxAttempts

Init ==
    /\ present \in BOOLEAN
    /\ valid \in BOOLEAN
    /\ cancelled = FALSE
    /\ pc = "start"
    /\ attempt = 0
    /\ resp = "none"
    /\ open = 0
    /\ outcome = "pending"
    /\ sent = 0
    /\ faults = 0

------------------------------------------------------------------------------
(* Mutants: bugs this code could have, each caught by a property below.    *)

\* maxAttempts + 1 requests are made.
NextAttemptOneMore ==
    /\ attempt' = attempt + 1
    /\ resp' = "none"
    /\ IF attempt < MaxAttempts
       THEN pc' = "backoff" /\ outcome' = outcome
       ELSE pc' = "done" /\ outcome' = "error"

\* The last attempt of the budget is never made.
NextAttemptOneLess ==
    /\ attempt' = attempt + 1
    /\ resp' = "none"
    /\ IF attempt + 2 < MaxAttempts
       THEN pc' = "backoff" /\ outcome' = outcome
       ELSE pc' = "done" /\ outcome' = "error"

\* The loop retries for ever.
NextAttemptUncounted ==
    pc' = "backoff" /\ resp' = "none" /\ UNCHANGED <<attempt, outcome>>

\* The 5xx body is not closed before the retry.
Retry5xxLeak ==
    /\ pc = "status"
    /\ resp = "5xx"
    /\ faults' = faults + 1
    /\ attempt' = attempt + 1
    /\ resp' = "none"
    /\ pc' = IF attempt + 1 < MaxAttempts THEN "backoff" ELSE "done"
    /\ outcome' = IF attempt + 1 < MaxAttempts THEN outcome ELSE "error"
    /\ UNCHANGED <<env, cancelled, open, sent>>

\* 4xx answers are retried like 5xx ones.
CheckStatusRetries ==
    /\ pc = "status"
    /\ resp # "5xx"
    /\ pc' = IF resp = "ok" THEN "read"
             ELSE IF attempt + 1 < MaxAttempts THEN "backoff" ELSE "done"
    /\ attempt' = IF resp = "ok" THEN attempt ELSE attempt + 1
    /\ open' = IF resp = "ok" THEN open ELSE 0
    /\ outcome' = IF pc' = "done" THEN "error" ELSE outcome
    /\ UNCHANGED <<env, cancelled, resp, sent, faults>>

\* The status code is not looked at.
CheckStatusSkipped ==
    /\ pc = "status"
    /\ resp # "5xx"
    /\ pc' = "read"
    /\ UNCHANGED <<env, cancelled, attempt, resp, open, outcome, sent, faults>>

------------------------------------------------------------------------------
(* The client.                                                             *)

\* The lookup returns to its caller; the deferred Body.Close runs.
Return(result) ==
    /\ pc' = "done"
    /\ outcome' = result
    /\ open' = 0
    /\ UNCHANGED resp

\* "continue" in goProxyGet's loop: back off, or return lastErr after the
\* last attempt.
NextAttempt ==
    /\ attempt' = attempt + 1
    /\ resp' = "none"
    /\ IF attempt + 1 < MaxAttempts
       THEN pc' = "backoff" /\ outcome' = outcome
       ELSE pc' = "done" /\ outcome' = "error"

\* proxyPath escapes the module path; attempt 0 does not wait.
Start ==
    /\ pc = "start"
    /\ IF valid
       THEN pc' = "send" /\ UNCHANGED <<resp, open, outcome>>
       ELSE Return("error")
    /\ UNCHANGED <<env, cancelled, attempt, sent, faults>>

\* select: the timer fires ...
TimerFires ==
    /\ pc = "backoff"
    /\ pc' = "send"
    /\ UNCHANGED <<env, cancelled, attempt, resp, open, outcome, sent, faults>>

\* ... or the context is done (either may win when both are ready).
StopWaiting ==
    /\ pc = "backoff"
    /\ cancelled
    /\ Return("error")
    /\ UNCHANGED <<env, cancelled, attempt, sent, faults>>

\* http.DefaultClient.Do puts nothing on the wire for a cancelled context.
Send ==
    /\ pc = "send"
    /\ IF cancelled
       THEN NextAttempt /\ UNCHANGED sent
       ELSE /\ pc' = "inflight"
            /\ sent' = sent + 1
            /\ UNCHANGED <<attempt, resp, outcome>>
    /\ UNCHANGED <<env, cancelled, open, faults>>

\* A request in flight is aborted by its context.
CtxAborts ==
    /\ pc = "inflight"
    /\ cancelled
    /\ NextAttempt
    /\ UNCHANGED <<env, cancelled, open, sent, faults>>

\* A 5xx answer is drained and closed, then retried.
Retry5xx ==
    /\ pc = "status"
    /\ resp = "5xx"
    /\ open' = open - 1
    /\ faults' = faults + 1
    /\ NextAttempt
    /\ UNCHANGED <<env, cancelled, sent>>

\* goProxyGet returns every other answer; the caller looks at the status.
CheckStatus ==
    /\ pc = "status"
    /\ resp # "5xx"
    /\ IF resp = "ok"
       THEN pc' = "read" /\ UNCHANGED <<resp, open, outcome>>
       ELSE Return("error")
    /\ UNCHANGED <<env, cancelled, attempt, sent, faults>>

\* The caller reads and decodes the body ...
ReadBody ==
    /\ pc = "read"
    /\ Return("value")
    /\ UNCHANGED <<env, cancelled, attempt, sent, faults>>

\* ... which fails on a truncated or malformed body: there is no retry.
BodyUnreadable ==
    /\ pc = "read"
    /\ Return("error")
    /\ faults' = faults + 1
    /\ UNCHANGED <<env, cancelled, attempt, sent>>

------------------------------------------------------------------------------
(* The environment: the network, the proxy and the user's interrupt.       *)

NetworkError ==
    /\ pc = "inflight"
    /\ faults' = faults + 1
    /\ NextAttempt
    /\ UNCHANGED <<env, cancelled, open, sent>>

Answer ==
    /\ pc = "inflight"
    /\ resp' \in {"5xx", IF present THEN "ok" ELSE "refused"}
    /\ pc' = "status"
    /\ open' = open + 1
    /\ UNCHANGED <<env, cancelled, attempt, outcome, sent, faults>>

Cancel ==
    /\ ~cancelled
    /\ cancelled' = TRUE
    /\ UNCHANGED <<env, pc, attempt, resp, open, outcome, sent, faults>>

------------------------------------------------------------------------------
Client == \/ Start \/ TimerFires \/ StopWaiting \/ Send \/ CtxAborts
          \/ Retry5xx \/ CheckStatus \/ ReadBody \/ BodyUnreadable

Network == NetworkError \/ Answer

Done == pc = "done" /\ UNCHANGED vars

Next == Client \/ Network \/ Cancel \/ Done

Spec == Init /\ [][Next]_vars

\* The client runs; nothing is assumed of the proxy (the HTTP client has no
\* timeout of its own) nor of the user.
FairSpec == Spec /\ WF_vars(Client)

------------------------------------------------------------------------------
(* Properties.                                                             *)

\* A response body is open exactly while its answer is being looked at: it is
\* closed on every path out of the lookup and before a request is repeated,
\* so retries cannot pile up connections (goProxyGet closes the 5xx bodies,
\* its callers defer the Close of the others).
BodyReleased == open = IF pc \in {"status", "read"} THEN 1 ELSE 0

\* An error that is not the user's doing comes from a definite answer, or
\* after the whole budget of attempts was spent on faults: one outage shorter
\* than the budget is never reported.
ErrorIsEarned ==
    outcome = "error" /\ valid /\ ~cancelled =>
        \/ resp = "refused"
        \/ resp = "ok" /\ faults > 0
        \/ resp = "none" /\ faults = MaxAttempts /\ sent = MaxAttempts

\* A definite answer is never asked for twice: every request but the first
\* follows a fault (goProxyGet retries network errors and 5xx only).
RetryOnlyAfterFault == sent <= faults + 1

\* A lookup that is cancelled returns, even if the proxy never answers; any
\* other when every request is answered or fails.
Returns ==
    /\ cancelled ~> pc = "done"
    /\ WF_vars(Network) => <>(pc = "done")

\* The lookup keeps the promise the resolver is built on.
Call == INSTANCE ProxyCall WITH faulty <- faults > 0
CallSpec == Call!Spec

==============================================================================
