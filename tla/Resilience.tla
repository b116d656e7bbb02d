----------------------------- MODULE Resilience -----------------------------
(***************************************************************************)
(* withResilience: calls of an external service through a shared circuit   *)
(* breaker, retried with backoff.  The breaker is opossum's, modelled from *)
(* its contract: a call that exceeds the timeout is answered with an       *)
(* error while its task runs on, and may still have its effect later.      *)
(***************************************************************************)
EXTENDS Integers, FiniteSets

CONSTANTS Caller,           \* those who call
          Dependency,       \* the services, each with a breaker of its own
          VolumeThreshold,  \* calls in the window before the circuit may open
          MaxFaults         \* bound on failures and timeouts

ASSUME ResilienceAssumption == VolumeThreshold \in Nat \ {0} /\ MaxFaults \in Nat

VARIABLES breaker,      \* by dependency
          call,         \* the call of withResilience a caller is in
          tasks,        \* running tasks; awaited until their timeout
          faults

resilienceVars == <<breaker, call, tasks, faults>>

Breaker == [state: {"closed", "open", "halfOpen"}, probe: BOOLEAN, fires: Nat, failures: Nat]
NewBreaker == [state |-> "closed", probe |-> FALSE, fires |-> 0, failures |-> 0]

\* What a call is for: an operation, what it is about, and the run of its job.
Work(op, on, run) == [op |-> op, on |-> on, run |-> run]
NoWork == Work("none", 0, 0)
NoCall == [at |-> "idle", dep |-> "none", attempts |-> 1, attempt |-> 0, work |-> NoWork]
Places == {"idle", "ready", "waiting", "backoff", "ok", "error"}

Fault == faults < MaxFaults /\ faults' = faults + 1

-----------------------------------------------------------------------------
\* opossum

Admits(b) == b.state = "closed" \/ b.probe

Fired(b) == [b EXCEPT !.fires = @ + 1, !.probe = FALSE]
Rejected(b) == [b EXCEPT !.fires = @ + 1]

Succeeded(b) == IF b.state = "halfOpen" THEN [b EXCEPT !.state = "closed", !.probe = FALSE] ELSE b

\* Over half of the calls of the window failed, or the probe did.
Trips(b) == b.state = "halfOpen" \/ (b.fires >= VolumeThreshold /\ 2 * b.failures > b.fires)

Failed(b) ==
    LET counted == [b EXCEPT !.failures = @ + 1]
    IN IF Trips(counted) THEN [counted EXCEPT !.state = "open", !.probe = FALSE] ELSE counted

\* resetTimeout passes: one probe may pass.
HalfOpen(d) ==
    /\ breaker[d].state = "open"
    /\ breaker' = [breaker EXCEPT ![d].state = "halfOpen", ![d].probe = TRUE]
    /\ UNCHANGED <<call, tasks, faults>>

\* The calls leave the rolling window.
RollWindow(d) ==
    /\ breaker[d].fires > 0
    /\ breaker' = [breaker EXCEPT ![d].fires = 0, ![d].failures = 0]
    /\ UNCHANGED <<call, tasks, faults>>

-----------------------------------------------------------------------------
\* withResilience

Entered(d, attempts, work) ==
    [at |-> "ready", dep |-> d, attempts |-> attempts, attempt |-> 1, work |-> work]

\* The error of an open circuit ends the retries.
Fire(c) ==
    LET d == call[c].dep IN
    /\ call[c].at = "ready"
    /\ IF Admits(breaker[d])
       THEN /\ breaker' = [breaker EXCEPT ![d] = Fired(@)]
            /\ tasks' = tasks \cup {[caller |-> c, attempt |-> call[c].attempt,
                                   work |-> call[c].work, awaited |-> TRUE]}
            /\ call' = [call EXCEPT ![c].at = "waiting"]
       ELSE /\ breaker' = [breaker EXCEPT ![d] = Rejected(@)]
            /\ call' = [call EXCEPT ![c].at = "error"]
            /\ UNCHANGED tasks
    /\ UNCHANGED faults

\* Mutant: the result is not returned, and the loop goes on.
ReturnedNot(c) == IF c.attempt < c.attempts THEN [c EXCEPT !.at = "backoff"] ELSE [c EXCEPT !.at = "ok"]

Returned(c) == [c EXCEPT !.at = "ok"]

\* Mutant: one attempt too many.
RetriedOnceMore(c, retryIf) ==
    [c EXCEPT !.at = IF retryIf /\ c.attempt <= c.attempts THEN "backoff" ELSE "error"]

Retried(c, retryIf) ==
    [c EXCEPT !.at = IF retryIf /\ c.attempt < c.attempts THEN "backoff" ELSE "error"]

\* A task ends well.  Nobody hears of it after the timeout.
Succeed(t) ==
    LET d == call[t.caller].dep IN
    /\ t \in tasks
    /\ tasks' = tasks \ {t}
    /\ IF t.awaited
       THEN /\ breaker' = [breaker EXCEPT ![d] = Succeeded(@)]
            /\ call' = [call EXCEPT ![t.caller] = Returned(@)]
       ELSE UNCHANGED <<breaker, call>>
    /\ UNCHANGED faults

\* A task ends with an error that retryIf may refuse to retry.
Fail(t, retryIf) ==
    LET d == call[t.caller].dep IN
    /\ t \in tasks
    /\ tasks' = tasks \ {t}
    /\ IF t.awaited
       THEN /\ breaker' = [breaker EXCEPT ![d] = Failed(@)]
            /\ call' = [call EXCEPT ![t.caller] = Retried(@, retryIf)]
       ELSE UNCHANGED <<breaker, call>>
    /\ Fault

\* Mutant: the timeout is only told to the caller.
TimeOutUnheard(t) ==
    /\ t \in tasks /\ t.awaited
    /\ tasks' = (tasks \ {t}) \cup {[t EXCEPT !.awaited = FALSE]}
    /\ call' = [call EXCEPT ![t.caller] = Retried(@, TRUE)]
    /\ UNCHANGED breaker
    /\ Fault

TimeOut(t) ==
    LET d == call[t.caller].dep IN
    /\ t \in tasks /\ t.awaited
    /\ tasks' = (tasks \ {t}) \cup {[t EXCEPT !.awaited = FALSE]}
    /\ breaker' = [breaker EXCEPT ![d] = Failed(@)]
    /\ call' = [call EXCEPT ![t.caller] = Retried(@, TRUE)]
    /\ Fault

\* Mutant: the retry waits until the circuit has closed.
WakeWhenClosed(c) ==
    /\ call[c].at = "backoff" /\ breaker[call[c].dep].state = "closed"
    /\ call' = [call EXCEPT ![c].at = "ready", ![c].attempt = @ + 1]
    /\ UNCHANGED <<breaker, tasks, faults>>

\* The backoff delay is over.
Wake(c) ==
    /\ call[c].at = "backoff"
    /\ call' = [call EXCEPT ![c].at = "ready", ![c].attempt = @ + 1]
    /\ UNCHANGED <<breaker, tasks, faults>>

ResilienceInit ==
    /\ breaker = [d \in Dependency |-> NewBreaker]
    /\ call = [c \in Caller |-> NoCall]
    /\ tasks = {}
    /\ faults = 0

ResilienceTypeOK ==
    /\ breaker \in [Dependency -> Breaker]
    /\ \A c \in Caller : call[c].at \in Places /\ call[c].attempt \in 0..call[c].attempts
    /\ \A t \in tasks : t.caller \in Caller /\ t.attempt >= 1
    /\ faults \in 0..MaxFaults

\* A half-open circuit that admits nobody is waiting for a task that it will
\* hear of, so it cannot stay half-open for good: each call has a timeout and
\* each end of an awaited task, the probe's or an older one's, is a verdict.
HalfOpenIsProbing ==
    \A d \in Dependency :
        breaker[d].state = "halfOpen" /\ ~breaker[d].probe =>
            \E t \in tasks : t.awaited /\ call[t.caller].dep = d
=============================================================================
