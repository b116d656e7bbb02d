---------------------------- MODULE StorageProofs ----------------------------
(***************************************************************************)
(* Proofs about Resilience and Storage, for any callers, groups of roles,  *)
(* upload times and bounds: which calls the running tasks belong to, why a *)
(* half-open circuit gets a verdict, what completed jobs did, how often an *)
(* effect is repeated, and what the bucket holds.                          *)
(***************************************************************************)
EXTENDS Storage, FiniteSetTheorems, TLAPS

WorkSet == [op: {"none", "upload", "delete", "presign", "enqueue", "pin", "verify", "push"},
            on: Nat, run: Nat]
CallSet == [at: Places, dep: Dependency \cup {"none"}, attempts: 1..3, attempt: 0..3, work: WorkSet]
TaskSet == [caller: Caller, attempt: 1..3, work: WorkSet, awaited: BOOLEAN]
AttemptSet == [work: WorkSet, attempt: 1..3]

InCall(c) == call[c].at \in {"ready", "waiting", "backoff"}

Shape ==
    /\ breaker \in [Dependency -> Breaker] /\ faults \in 0..MaxFaults
    /\ call \in [Caller -> CallSet] /\ tasks \subseteq TaskSet
    /\ role \in Roles /\ object \in [Stamps -> Caller \cup {0}] /\ stamp \in [Caller -> Stamps \cup {0}]
    /\ client \in {"none", "loading", "ready", "rejected"}
    /\ job \in [JobIds -> [state: {"none", "waiting", "active", "completed", "failed"}, left: 0..MaxRuns]]
    /\ landed \subseteq AttemptSet /\ blamed \subseteq AttemptSet
    /\ IsFiniteSet(landed) /\ IsFiniteSet(blamed)

\* A caller who is not in a call has nothing, and a retry is one that is left.
CallOK(c) ==
    /\ call[c].at = "idle" => call[c] = NoCall
    /\ InCall(c) => call[c].dep \in Dependency /\ call[c].attempt >= 1
    /\ call[c].attempt <= call[c].attempts
    /\ call[c].at = "backoff" => call[c].attempt < call[c].attempts
    /\ call[c].work.op = "enqueue" => call[c].attempts = 2

\* An awaited task is the one that its caller is waiting for.
AwaitedOK ==
    \A t \in tasks : t.awaited => /\ call[t.caller].at = "waiting"
                                  /\ t.work = call[t.caller].work
                                  /\ t.attempt = call[t.caller].attempt

Calls == (\A c \in Caller : CallOK(c)) /\ AwaitedOK /\ HalfOpenIsProbing

\* The runs of a job are told apart, other work is done by one call.
Plain(w) ==
    \/ w.op \in {"pin", "push"} /\ w.on \in JobIds
    \/ w.run = 0 /\ (w.op \in {"pin", "push", "enqueue"} => w.on = 0)

\* All attempts at w before the n-th are in B.
Before(B, w, n) == \A m \in 1..3 : m < n => [work |-> w, attempt |-> m] \in B

\* A caller works at what his role is.
WorkOK(c) ==
    LET w == call[c].work IN
    \/ call[c].at = "idle" /\ (role[c] = "upload" => stamp[c] = 0)
    \/ role[c] = "upload" /\ stamp[c] \in Stamps /\ w = Work("upload", stamp[c], 0)
    \/ role[c] = "upload" /\ stamp[c] = 0 /\ call[c].at = "error" /\ w = NoWork
    \/ /\ role[c] = "delete" /\ w.on \in Stamps /\ w = Work("delete", w.on, 0)
       /\ \E u \in Caller : role[u] = "upload" /\ call[u].at = "ok" /\ stamp[u] = w.on
    \/ role[c] = "presign" /\ w.on \in Stamps /\ w = Work("presign", w.on, 0)
    \/ role[c] \in {"enqueue", "verify", "pin"} /\ w = Work(role[c], 0, 0)
    \/ role[c] \in Workers /\ w.on \in JobIds /\ w.op = IF role[c] = "push" THEN "push" ELSE "pin"

TaskOK(t) ==
    LET c == t.caller
        k == t.work.on IN
    /\ Plain(t.work) /\ Before(blamed, t.work, t.attempt)
    /\ ~t.awaited => Attempt(t) \in blamed
    /\ t.work.op = "upload" => role[c] = "upload" /\ k \in Stamps /\ stamp[c] = k
    /\ t.work.op = "delete" => role[c] = "delete" /\ k \in Stamps /\ call[c].at # "idle" /\ call[c].work.on = k
    /\ t.work.op = "enqueue" => role[c] = "enqueue"

\* Attempts that are over failed or timed out, and so did the one before a retry.
TriedOK(c) ==
    /\ Plain(call[c].work) /\ Before(blamed, call[c].work, call[c].attempt)
    /\ call[c].at = "backoff" => Before(blamed, call[c].work, call[c].attempt + 1)

Works ==
    /\ \A c \in Caller : WorkOK(c) /\ TriedOK(c)
    /\ \A t \in tasks : TaskOK(t)
    /\ \A a \in landed : Plain(a.work) /\ Before(blamed, a.work, a.attempt)

\* Worker c is at job j.
Runs(c, j) == role[c] \in Workers /\ call[c].at # "idle" /\ call[c].work.on = j

\* What landed and nobody was told otherwise.
Clean == {a \in landed \ blamed : a.work.op \in {"pin", "push", "enqueue"}}

JobOK(j) ==
    /\ job[j].state = "waiting" => job[j].left > 0
    /\ \A c \in Caller : Runs(c, j) =>
          /\ job[j].state = "active"
          /\ \A d \in Caller : Runs(d, j) => c = d
          /\ call[c].at = "ok" => \E a \in landed : a.work = call[c].work
    /\ job[j].state = "completed" =>
            \/ \E a \in landed : a.work.op \in {"pin", "push"} /\ a.work.on = j
            \/ \E w \in expired : w.on = j
    /\ \A a \in Clean : a.work.op \in {"pin", "push"} /\ a.work.on = j =>
          job[j].state = "completed" \/ \E c \in Caller : Runs(c, j) /\ call[c].at = "ok"

\* A job is added once.
EnqueueOK ==
    /\ \A c \in Caller : role[c] = "enqueue" =>
          \A j \in JobIds : j > call[c].attempt \/ (j = call[c].attempt /\ call[c].at = "ready") =>
             job[j].state = "none"
    /\ \A t \in tasks : t.work.op = "enqueue" =>
          /\ t.attempt \in JobIds /\ job[t.attempt].state = "none"
          /\ t.attempt <= call[t.caller].attempt
          /\ t.attempt = call[t.caller].attempt =>
                call[t.caller].at # "ready" /\ (call[t.caller].at = "waiting" => t.awaited)

OneClean == \A a, b \in Clean : a.work.op = b.work.op /\ a.work.on = b.work.on => a = b

Jobs == (\A j \in JobIds : JobOK(j)) /\ EnqueueOK /\ OneClean

IInv == Shape /\ Calls /\ Works /\ Jobs /\ BucketMatchesAnswers

-----------------------------------------------------------------------------
\* Calls, tasks and breakers.

LEMMA CallFields ==
    ASSUME Shape, NEW c \in Caller
    PROVE  /\ call[c] \in CallSet /\ call[c].at \in Places /\ call[c].work \in WorkSet
           /\ call[c].attempt \in 0..3 /\ call[c].attempts \in 1..3
           /\ call[c].dep \in Dependency \cup {"none"}
BY DEF Shape, CallSet

LEMMA TaskFields ==
    ASSUME Shape, NEW t \in tasks
    PROVE  /\ t \in TaskSet /\ t.caller \in Caller /\ t.attempt \in 1..3 /\ t.work \in WorkSet
           /\ t.awaited \in BOOLEAN /\ Attempt(t) \in AttemptSet
BY DEF Shape, TaskSet, Attempt, AttemptSet

\* A call of a caller with another place, or with the next attempt.
Placed(x, at) == [x EXCEPT !.at = at]
Again(x) == [x EXCEPT !.at = "ready", !.attempt = @ + 1]

LEMMA PlacedFields ==
    ASSUME NEW x \in CallSet, NEW at \in Places
    PROVE  /\ Placed(x, at) \in CallSet /\ Placed(x, at).at = at
           /\ Placed(x, at).dep = x.dep /\ Placed(x, at).work = x.work
           /\ Placed(x, at).attempt = x.attempt /\ Placed(x, at).attempts = x.attempts
BY DEF Placed, CallSet

LEMMA AgainFields ==
    ASSUME NEW x \in CallSet, x.attempt < x.attempts
    PROVE  /\ Again(x) \in CallSet /\ Again(x).at = "ready"
           /\ Again(x).dep = x.dep /\ Again(x).work = x.work
           /\ Again(x).attempt = x.attempt + 1 /\ Again(x).attempts = x.attempts
<1>1. x.attempt \in 0..3 /\ x.attempts \in 1..3
  BY DEF CallSet
<1> DEFINE n == x.attempt + 1
<1>2. n \in 0..3
  BY <1>1
<1>3. Again(x) = [[x EXCEPT !.at = "ready"] EXCEPT !.attempt = n]
  BY DEF Again, CallSet
<1>4. "ready" \in Places
  BY DEF Places
<1> HIDE DEF n
<1>5. /\ Again(x) \in CallSet /\ Again(x).at = "ready"
      /\ Again(x).dep = x.dep /\ Again(x).work = x.work
      /\ Again(x).attempt = n /\ Again(x).attempts = x.attempts
  BY <1>2, <1>3, <1>4 DEF CallSet
<1> QED BY <1>5 DEF n

LEMMA Breakers ==
    ASSUME NEW b \in Breaker
    PROVE  /\ Fired(b) \in Breaker /\ Rejected(b) \in Breaker
           /\ Succeeded(b) \in Breaker /\ Failed(b) \in Breaker
           /\ Rejected(b).state = b.state /\ Rejected(b).probe = b.probe
           /\ Succeeded(b).state # "halfOpen" /\ Failed(b).state # "halfOpen"
           /\ Fired(b).state = b.state
<1>1. /\ b.fires \in Nat /\ b.failures \in Nat /\ b.probe \in BOOLEAN
      /\ b.state \in {"closed", "open", "halfOpen"}
  BY DEF Breaker
<1>2. PICK f \in Nat : f = b.fires + 1
  BY <1>1
<1>3. PICK g \in Nat : g = b.failures + 1
  BY <1>1
<1>4. /\ Fired(b) = [[b EXCEPT !.fires = f] EXCEPT !.probe = FALSE]
      /\ Rejected(b) = [b EXCEPT !.fires = f]
  BY <1>2 DEF Fired, Rejected, Breaker
<1>5. /\ Fired(b) \in Breaker /\ Rejected(b) \in Breaker /\ Fired(b).state = b.state
      /\ Rejected(b).state = b.state /\ Rejected(b).probe = b.probe
  BY <1>4 DEF Breaker
<1>6. Succeeded(b) \in Breaker /\ Succeeded(b).state # "halfOpen"
  BY DEF Succeeded, Breaker
<1>7. Failed(b) \in Breaker /\ Failed(b).state # "halfOpen"
  <2> DEFINE counted == [b EXCEPT !.failures = g]
  <2>1. counted \in Breaker /\ counted.state = b.state
    BY DEF Breaker
  <2>2. Failed(b) = IF Trips(counted) THEN [counted EXCEPT !.state = "open", !.probe = FALSE] ELSE counted
    BY <1>3 DEF Failed, Breaker
  <2>3. counted.state = "halfOpen" => Trips(counted)
    BY DEF Trips
  <2> HIDE DEF counted
  <2> QED BY <2>1, <2>2, <2>3 DEF Breaker
<1> QED BY <1>5, <1>6, <1>7

\* The call x is one that may begin.
Begins(x) ==
    /\ x \in CallSet /\ x.at \in {"ready", "ok", "error"}
    /\ x.attempt <= 1 /\ x.attempt <= x.attempts
    /\ x.at = "ready" => x.dep \in Dependency /\ x.attempt = 1
    /\ x.work.op = "enqueue" => x.attempts = 2

LEMMA BeginCalls ==
    ASSUME Shape, Calls, NEW c \in Caller, NEW x, Begins(x), call[c].at = "idle",
           call' = [call EXCEPT ![c] = x], UNCHANGED <<breaker, tasks>>
    PROVE  Calls' /\ call' \in [Caller -> CallSet]
<1>1. call'[c] = x /\ \A d \in Caller \ {c} : call'[d] = call[d]
  BY DEF Shape
<1>2. call' \in [Caller -> CallSet]
  BY DEF Shape, Begins
<1>3. ASSUME NEW d \in Caller PROVE CallOK(d)'
  <2>1. CallOK(d)
    BY DEF Calls
  <2>2. CASE d = c
    BY <1>1, <2>2 DEF CallOK, InCall, Begins
  <2>3. CASE d # c
    BY <1>1, <2>1, <2>3 DEF CallOK, InCall, NoCall, NoWork, Work
  <2> QED BY <2>2, <2>3
<1>4. \A t \in tasks : t.awaited => t.caller \in Caller \ {c}
  BY TaskFields DEF Calls, AwaitedOK
<1>5. AwaitedOK'
  <2>1. \A t \in tasks : t.awaited => /\ call'[t.caller].at = "waiting"
                                      /\ t.work = call'[t.caller].work
                                      /\ t.attempt = call'[t.caller].attempt
    BY <1>1, <1>4 DEF Calls, AwaitedOK
  <2> QED BY <2>1 DEF AwaitedOK
<1>6. HalfOpenIsProbing'
  <2>1. \A t \in tasks : t.awaited => call'[t.caller].dep = call[t.caller].dep
    BY <1>1, <1>4
  <2> QED BY <2>1 DEF Calls, HalfOpenIsProbing
<1> QED BY <1>2, <1>3, <1>5, <1>6 DEF Calls

\* Caller c, in a call or done with one, gets to x.
LEMMA MoveCallOK ==
    ASSUME Shape, Calls, NEW c \in Caller, NEW x \in CallSet,
           call' = [call EXCEPT ![c] = x], x.at # "idle",
           x.at \in {"ready", "waiting", "backoff"} => InCall(c) /\ x.attempt >= 1,
           x.dep = call[c].dep, x.work = call[c].work, x.attempts = call[c].attempts,
           x.attempt <= x.attempts, x.at = "backoff" => x.attempt < x.attempts
    PROVE  /\ \A d \in Caller : CallOK(d)'
           /\ call'[c] = x /\ \A d \in Caller \ {c} : call'[d] = call[d]
           /\ call' \in [Caller -> CallSet]
<1>1. call'[c] = x /\ (\A d \in Caller \ {c} : call'[d] = call[d]) /\ call' \in [Caller -> CallSet]
  BY DEF Shape
<1>2. ASSUME NEW d \in Caller PROVE CallOK(d)'
  <2>1. CallOK(d)
    BY DEF Calls
  <2>2. CASE d = c
    BY <1>1, <2>1, <2>2 DEF CallOK, InCall
  <2>3. CASE d # c
    BY <1>1, <2>1, <2>3 DEF CallOK, InCall, NoCall, NoWork, Work
  <2> QED BY <2>2, <2>3
<1> QED BY <1>1, <1>2

\* The task of the attempt that a caller is at, and a task after its timeout.
NewTask(c) == [caller |-> c, attempt |-> call[c].attempt, work |-> call[c].work, awaited |-> TRUE]
Overdue(t) == [t EXCEPT !.awaited = FALSE]

LEMMA OverdueFields ==
    ASSUME Shape, NEW t \in tasks
    PROVE  /\ Overdue(t) \in TaskSet /\ Overdue(t).caller = t.caller /\ Overdue(t).attempt = t.attempt
           /\ Overdue(t).work = t.work /\ ~Overdue(t).awaited /\ Attempt(Overdue(t)) = Attempt(t)
BY TaskFields DEF Overdue, TaskSet, Attempt

\* An awaited task is determined by its caller.
LEMMA AwaitedUnique ==
    ASSUME Shape, Calls, NEW s \in tasks, NEW t \in tasks, s.awaited, t.awaited, s.caller = t.caller
    PROVE  s = t
<1>1. s.work = t.work /\ s.attempt = t.attempt
  BY DEF Calls, AwaitedOK
<1> QED BY <1>1, TaskFields DEF TaskSet

LEMMA FireMoves ==
    ASSUME Shape, Calls, NEW c \in Caller, Fire(c)
    PROVE  /\ call[c].at = "ready" /\ UNCHANGED faults /\ NewTask(c) \in TaskSet
           /\ \/ /\ call' = [call EXCEPT ![c] = Placed(call[c], "waiting")]
                 /\ tasks' = tasks \cup {NewTask(c)}
              \/ /\ call' = [call EXCEPT ![c] = Placed(call[c], "error")] /\ tasks' = tasks
<1>1. call \in [Caller -> CallSet] /\ call[c].at = "ready"
  BY DEF Shape, Fire
<1>2. NewTask(c) \in TaskSet
  BY <1>1, CallFields DEF Calls, CallOK, InCall, NewTask, TaskSet
<1> QED BY <1>1, <1>2 DEF Fire, NewTask, Placed

LEMMA FireCalls ==
    ASSUME Shape, Calls, NEW c \in Caller, Fire(c)
    PROVE  Calls' /\ breaker' \in [Dependency -> Breaker] /\ call' \in [Caller -> CallSet] /\ tasks' \subseteq TaskSet
<1> DEFINE d == call[c].dep
<1>1. call[c].at = "ready" /\ d \in Dependency /\ call[c].attempt >= 1 /\ call[c].attempt <= call[c].attempts
  BY DEF Fire, Calls, CallOK, InCall
<1>2. breaker[d] \in Breaker /\ breaker \in [Dependency -> Breaker]
  BY <1>1 DEF Shape
<1>3. \A t \in tasks : t.awaited => t.caller \in Caller \ {c}
  BY <1>1, TaskFields DEF Calls, AwaitedOK
<1>4. call[c] \in CallSet /\ NewTask(c) \in TaskSet
  BY FireMoves, CallFields
<1>5. CASE Admits(breaker[d])
  <2>1. /\ call' = [call EXCEPT ![c] = Placed(call[c], "waiting")]
        /\ tasks' = tasks \cup {NewTask(c)}
        /\ breaker' = [breaker EXCEPT ![d] = Fired(breaker[d])]
    BY <1>5 DEF Fire, NewTask, Placed, Shape
  <2> DEFINE x == Placed(call[c], "waiting")
  <2>2. /\ x \in CallSet /\ x.at = "waiting" /\ x.dep = d /\ x.work = call[c].work
        /\ x.attempt = call[c].attempt /\ x.attempts = call[c].attempts
    BY <1>4, PlacedFields DEF Places
  <2> HIDE DEF x
  <2>3. /\ \A e \in Caller : CallOK(e)'
        /\ call'[c] = x /\ \A e \in Caller \ {c} : call'[e] = call[e]
        /\ call' \in [Caller -> CallSet]
    BY <1>1, <2>1, <2>2, MoveCallOK DEF x, d, InCall
  <2>4. AwaitedOK'
    <3>1. ASSUME NEW t \in tasks', t.awaited
          PROVE  /\ call'[t.caller].at = "waiting"
                 /\ t.work = call'[t.caller].work
                 /\ t.attempt = call'[t.caller].attempt
      <4>1. CASE t = NewTask(c)
        BY <2>2, <2>3, <4>1 DEF NewTask
      <4>2. CASE t \in tasks
        BY <1>3, <2>3, <3>1, <4>2 DEF Calls, AwaitedOK
      <4> QED BY <2>1, <4>1, <4>2
    <3> QED BY <3>1 DEF AwaitedOK
  <2>5. HalfOpenIsProbing'
    <3> SUFFICES ASSUME NEW e \in Dependency, breaker'[e].state = "halfOpen", ~breaker'[e].probe
                 PROVE  \E t \in tasks' : t.awaited /\ call'[t.caller].dep = e
      BY DEF HalfOpenIsProbing
    <3>1. CASE e = d
      <4>1. NewTask(c) \in tasks' /\ NewTask(c).awaited /\ NewTask(c).caller = c /\ call'[c].dep = d
        BY <2>1, <2>2, <2>3 DEF NewTask
      <4> QED BY <3>1, <4>1
    <3>2. CASE e # d
      <4>1. breaker'[e] = breaker[e]
        BY <1>2, <2>1, <3>2
      <4>2. PICK t \in tasks : t.awaited /\ call[t.caller].dep = e
        BY <4>1 DEF Calls, HalfOpenIsProbing
      <4>3. call'[t.caller].dep = e
        BY <1>3, <2>3, <4>2
      <4> QED BY <2>1, <4>2, <4>3
    <3> QED BY <3>1, <3>2
  <2>6. breaker' \in [Dependency -> Breaker]
    BY <1>2, <2>1, Breakers
  <2> QED BY <1>4, <2>1, <2>3, <2>4, <2>5, <2>6 DEF Calls, Shape
<1>6. CASE ~Admits(breaker[d])
  <2>1. /\ call' = [call EXCEPT ![c] = Placed(call[c], "error")] /\ tasks' = tasks
        /\ breaker' = [breaker EXCEPT ![d] = Rejected(breaker[d])]
    BY <1>6 DEF Fire, Placed, Shape
  <2> DEFINE x == Placed(call[c], "error")
  <2>2. /\ x \in CallSet /\ x.at = "error" /\ x.dep = d /\ x.work = call[c].work
        /\ x.attempt = call[c].attempt /\ x.attempts = call[c].attempts
    BY <1>4, PlacedFields DEF Places
  <2> HIDE DEF x
  <2>3. /\ \A e \in Caller : CallOK(e)'
        /\ call'[c] = x /\ \A e \in Caller \ {c} : call'[e] = call[e]
        /\ call' \in [Caller -> CallSet]
    BY <1>1, <2>1, <2>2, MoveCallOK DEF x, d, InCall
  <2>4. AwaitedOK'
    BY <1>3, <2>1, <2>3 DEF Calls, AwaitedOK
  <2>5. \A e \in Dependency : breaker'[e].state = breaker[e].state /\ breaker'[e].probe = breaker[e].probe
    BY <1>2, <2>1, Breakers
  <2>6. HalfOpenIsProbing'
    BY <1>3, <2>1, <2>3, <2>5 DEF Calls, HalfOpenIsProbing
  <2>7. breaker' \in [Dependency -> Breaker]
    BY <1>2, <2>1, Breakers
  <2> QED BY <2>1, <2>3, <2>4, <2>6, <2>7 DEF Calls, Shape
<1> QED BY <1>5, <1>6

LEMMA WakeCalls ==
    ASSUME Shape, Calls, NEW c \in Caller, Wake(c)
    PROVE  /\ Calls' /\ call' \in [Caller -> CallSet]
           /\ call[c].at = "backoff" /\ call[c].attempt < call[c].attempts
           /\ call' = [call EXCEPT ![c] = Again(call[c])] /\ UNCHANGED <<breaker, tasks, faults>>
<1>1. /\ call[c].at = "backoff" /\ call[c] \in CallSet /\ call[c].attempt < call[c].attempts
      /\ call[c].attempt >= 1 /\ call[c].attempt \in 0..3 /\ call[c].attempts \in 1..3
  BY CallFields DEF Wake, Calls, CallOK, InCall
<1>2. call' = [call EXCEPT ![c] = Again(call[c])] /\ UNCHANGED <<breaker, tasks, faults>>
  BY DEF Wake, Again, Shape
<1> DEFINE x == Again(call[c])
<1>3. /\ x \in CallSet /\ x.at = "ready" /\ x.dep = call[c].dep /\ x.work = call[c].work
      /\ x.attempt = call[c].attempt + 1 /\ x.attempts = call[c].attempts
  BY <1>1, AgainFields
<1>8. call' = [call EXCEPT ![c] = x] /\ InCall(c) /\ x.attempt >= 1 /\ x.attempt <= x.attempts
  BY <1>1, <1>2, <1>3 DEF InCall
<1> HIDE DEF x
<1>4. /\ \A e \in Caller : CallOK(e)'
      /\ call'[c] = x /\ \A e \in Caller \ {c} : call'[e] = call[e]
      /\ call' \in [Caller -> CallSet]
  BY <1>3, <1>8, MoveCallOK
<1>5. \A t \in tasks : t.awaited => t.caller \in Caller \ {c}
  BY <1>1, TaskFields DEF Calls, AwaitedOK
<1>6. AwaitedOK'
  BY <1>2, <1>4, <1>5 DEF Calls, AwaitedOK
<1>7. HalfOpenIsProbing'
  <2>1. \A t \in tasks : t.awaited => call'[t.caller].dep = call[t.caller].dep
    BY <1>4, <1>5
  <2>2. UNCHANGED <<breaker, tasks>>
    BY <1>2
  <2> QED BY <2>1, <2>2 DEF Calls, HalfOpenIsProbing
<1> QED BY <1>1, <1>2, <1>4, <1>6, <1>7 DEF Calls

\* Task t ends, or times out, and takes its caller to a place and his breaker to b
\* if somebody is waiting for it.
Ends(t, at, b) ==
    /\ t \in tasks /\ at \in {"ok", "backoff", "error"}
    /\ \/ tasks' = tasks \ {t}
       \/ t.awaited /\ at # "ok" /\ tasks' = (tasks \ {t}) \cup {Overdue(t)}
    /\ b \in Breaker /\ b.state # "halfOpen"
    /\ t.awaited => /\ call' = [call EXCEPT ![t.caller] = Placed(call[t.caller], at)]
                    /\ breaker' = [breaker EXCEPT ![call[t.caller].dep] = b]
                    /\ at = "backoff" => call[t.caller].attempt < call[t.caller].attempts
    /\ ~t.awaited => UNCHANGED <<call, breaker>>

LEMMA AwaitedCall ==
    ASSUME Shape, Calls, NEW t \in tasks, t.awaited
    PROVE  /\ call[t.caller].dep \in Dependency /\ breaker[call[t.caller].dep] \in Breaker
           /\ call[t.caller].at = "waiting" /\ t.caller \in Caller
           /\ t.work = call[t.caller].work /\ t.attempt = call[t.caller].attempt
<1>1. t.caller \in Caller /\ call[t.caller].at = "waiting"
      /\ t.work = call[t.caller].work /\ t.attempt = call[t.caller].attempt
  BY TaskFields DEF Calls, AwaitedOK
<1>2. call[t.caller].dep \in Dependency
  BY <1>1 DEF Calls, CallOK, InCall
<1> QED BY <1>1, <1>2 DEF Shape

LEMMA SucceedEnds ==
    ASSUME Shape, Calls, NEW t \in tasks, Succeed(t)
    PROVE  (\E b : Ends(t, "ok", b)) /\ tasks' = tasks \ {t} /\ UNCHANGED faults
<1>1. tasks' = tasks \ {t} /\ UNCHANGED faults
  BY DEF Succeed
<1>2. CASE t.awaited
  <2> DEFINE d == call[t.caller].dep
             b == Succeeded(breaker[d])
  <2>1. b \in Breaker /\ b.state # "halfOpen"
    BY <1>2, AwaitedCall, Breakers
  <2>2. /\ call' = [call EXCEPT ![t.caller] = Placed(call[t.caller], "ok")]
        /\ breaker' = [breaker EXCEPT ![d] = b]
    BY <1>2, TaskFields, AwaitedCall DEF Succeed, Returned, Placed, Shape
  <2> HIDE DEF b
  <2>3. Ends(t, "ok", b)
    BY <1>1, <1>2, <2>1, <2>2 DEF Ends
  <2> QED BY <1>1, <2>3
<1>3. CASE ~t.awaited
  <2>1. NewBreaker \in Breaker /\ NewBreaker.state # "halfOpen"
    BY DEF NewBreaker, Breaker
  <2>2. Ends(t, "ok", NewBreaker)
    BY <1>1, <1>3, <2>1 DEF Ends, Succeed
  <2> QED BY <1>1, <2>2
<1> QED BY <1>2, <1>3, TaskFields

LEMMA RetriedPlaced ==
    ASSUME NEW x \in CallSet, NEW retryIf \in BOOLEAN
    PROVE  \E at \in {"backoff", "error"} : /\ Retried(x, retryIf) = Placed(x, at)
                                            /\ at = "backoff" => x.attempt < x.attempts
<1>1. CASE retryIf /\ x.attempt < x.attempts
  BY <1>1 DEF Retried, Placed
<1>2. CASE ~(retryIf /\ x.attempt < x.attempts)
  BY <1>2 DEF Retried, Placed
<1> QED BY <1>1, <1>2

LEMMA FaultType ==
    ASSUME Shape, Fault
    PROVE  faults' \in 0..MaxFaults
BY ResilienceAssumption DEF ResilienceAssumption, Shape, Fault

LEMMA FailEnds ==
    ASSUME Shape, Calls, NEW t \in tasks, NEW retryIf \in BOOLEAN, Fail(t, retryIf)
    PROVE  /\ \E at \in {"backoff", "error"} : \E b : Ends(t, at, b)
           /\ tasks' = tasks \ {t} /\ faults' \in 0..MaxFaults
<1>1. tasks' = tasks \ {t} /\ faults' \in 0..MaxFaults
  BY FaultType DEF Fail
<1>2. CASE t.awaited
  <2> DEFINE d == call[t.caller].dep
             b == Failed(breaker[d])
  <2>1. b \in Breaker /\ b.state # "halfOpen" /\ call[t.caller] \in CallSet
    BY <1>2, AwaitedCall, Breakers, CallFields
  <2>2. PICK at \in {"backoff", "error"} : /\ Retried(call[t.caller], retryIf) = Placed(call[t.caller], at)
                                           /\ at = "backoff" => call[t.caller].attempt < call[t.caller].attempts
    BY <2>1, RetriedPlaced
  <2>3. /\ call' = [call EXCEPT ![t.caller] = Placed(call[t.caller], at)]
        /\ breaker' = [breaker EXCEPT ![d] = b]
    BY <1>2, <2>2, TaskFields, AwaitedCall DEF Fail, Shape
  <2> HIDE DEF b
  <2>4. Ends(t, at, b)
    BY <1>1, <1>2, <2>1, <2>2, <2>3 DEF Ends
  <2> QED BY <1>1, <2>4
<1>3. CASE ~t.awaited
  <2>1. NewBreaker \in Breaker /\ NewBreaker.state # "halfOpen"
    BY DEF NewBreaker, Breaker
  <2>2. Ends(t, "error", NewBreaker)
    BY <1>1, <1>3, <2>1 DEF Ends, Fail
  <2> QED BY <1>1, <2>2
<1> QED BY <1>2, <1>3, TaskFields

LEMMA TimeOutEnds ==
    ASSUME Shape, Calls, NEW t \in tasks, TimeOut(t)
    PROVE  /\ \E at \in {"backoff", "error"} : \E b : Ends(t, at, b)
           /\ faults' \in 0..MaxFaults /\ t.awaited
<1>1. /\ tasks' = (tasks \ {t}) \cup {Overdue(t)} /\ faults' \in 0..MaxFaults /\ t.awaited
  BY FaultType DEF TimeOut, Overdue
<1> DEFINE d == call[t.caller].dep
           b == Failed(breaker[d])
<1>2. b \in Breaker /\ b.state # "halfOpen" /\ call[t.caller] \in CallSet
  BY <1>1, AwaitedCall, Breakers, CallFields
<1>3. PICK at \in {"backoff", "error"} : /\ Retried(call[t.caller], TRUE) = Placed(call[t.caller], at)
                                         /\ at = "backoff" => call[t.caller].attempt < call[t.caller].attempts
  BY <1>2, RetriedPlaced
<1>4. /\ call' = [call EXCEPT ![t.caller] = Placed(call[t.caller], at)]
      /\ breaker' = [breaker EXCEPT ![d] = b]
  BY <1>1, <1>3, TaskFields, AwaitedCall DEF TimeOut, Shape
<1> HIDE DEF b
<1>5. Ends(t, at, b)
  BY <1>1, <1>2, <1>3, <1>4 DEF Ends
<1> QED BY <1>1, <1>5

\* What the end of a task does to the calls and the tasks.
LEMMA EndsMoves ==
    ASSUME Shape, Calls, NEW t, NEW at, NEW b, Ends(t, at, b)
    PROVE  /\ \A d \in Caller : CallOK(d)'
           /\ \A d \in Caller : ~(t.awaited /\ d = t.caller) => call'[d] = call[d]
           /\ t.awaited => /\ call'[t.caller].at = at /\ call'[t.caller].work = call[t.caller].work
                           /\ call'[t.caller].attempt = call[t.caller].attempt
                           /\ call'[t.caller].attempts = call[t.caller].attempts
           /\ call' \in [Caller -> CallSet] /\ tasks' \subseteq TaskSet
           /\ breaker' \in [Dependency -> Breaker]
           /\ \A s \in tasks' : \/ s \in tasks \ {t}
                                \/ t.awaited /\ at # "ok" /\ s = Overdue(t)
<1>1. t \in tasks /\ at \in {"ok", "backoff", "error"} /\ Overdue(t) \in TaskSet
  BY OverdueFields DEF Ends
<1>2. /\ tasks' \subseteq TaskSet
      /\ \A s \in tasks' : s \in tasks \ {t} \/ (t.awaited /\ at # "ok" /\ s = Overdue(t))
  BY <1>1 DEF Ends, Shape
<1>3. CASE t.awaited
  <2> DEFINE c == t.caller
             x == Placed(call[c], at)
  <2>1. /\ call[c].dep \in Dependency /\ call[c].at = "waiting" /\ c \in Caller /\ call[c] \in CallSet
    BY <1>1, <1>3, AwaitedCall, CallFields
  <2>2. /\ x \in CallSet /\ x.at = at /\ x.dep = call[c].dep /\ x.work = call[c].work
        /\ x.attempt = call[c].attempt /\ x.attempts = call[c].attempts
    BY <1>1, <2>1, PlacedFields DEF Places
  <2>3. /\ call' = [call EXCEPT ![c] = x] /\ InCall(c) /\ x.attempt >= 1 /\ x.attempt <= x.attempts
        /\ x.at = "backoff" => x.attempt < x.attempts
    BY <1>3, <2>1, <2>2 DEF InCall, Ends, Calls, CallOK
  <2>4. x.at # "idle"
    BY <1>1, <2>2
  <2> HIDE DEF x
  <2>5. /\ \A e \in Caller : CallOK(e)'
        /\ call'[c] = x /\ \A e \in Caller \ {c} : call'[e] = call[e]
        /\ call' \in [Caller -> CallSet]
    BY <2>1, <2>2, <2>3, <2>4, MoveCallOK
  <2>6. breaker' \in [Dependency -> Breaker]
    BY <1>3 DEF Ends, Shape
  <2> QED BY <1>2, <1>3, <2>2, <2>5, <2>6
<1>4. CASE ~t.awaited
  <2>1. UNCHANGED <<call, breaker>>
    BY <1>4 DEF Ends
  <2>2. \A d \in Caller : CallOK(d)'
    BY <2>1 DEF Calls, CallOK, InCall, NoCall, NoWork, Work
  <2> QED BY <1>2, <1>4, <2>1, <2>2 DEF Shape
<1> QED BY <1>1, <1>3, <1>4, TaskFields

LEMMA EndsCalls ==
    ASSUME Shape, Calls, NEW t, NEW at, NEW b, Ends(t, at, b)
    PROVE  Calls'
<1>1. /\ \A d \in Caller : CallOK(d)'
      /\ \A d \in Caller : ~(t.awaited /\ d = t.caller) => call'[d] = call[d]
      /\ \A s \in tasks' : s \in tasks \ {t} \/ (t.awaited /\ at # "ok" /\ s = Overdue(t))
      /\ t \in tasks
  BY EndsMoves DEF Ends
<1>2. \A s \in tasks' : s.awaited => s \in tasks \ {t} /\ s.caller \in Caller /\ call'[s.caller] = call[s.caller]
  <2> SUFFICES ASSUME NEW s \in tasks', s.awaited
               PROVE  s \in tasks \ {t} /\ s.caller \in Caller /\ call'[s.caller] = call[s.caller]
    OBVIOUS
  <2>1. s \in tasks \ {t}
    BY <1>1, OverdueFields
  <2>2. t.awaited => s.caller # t.caller
    BY <1>1, <2>1, AwaitedUnique
  <2> QED BY <1>1, <2>1, <2>2, TaskFields
<1>3. AwaitedOK'
  BY <1>2 DEF Calls, AwaitedOK
<1>4. HalfOpenIsProbing'
  <2> SUFFICES ASSUME NEW e \in Dependency, breaker'[e].state = "halfOpen", ~breaker'[e].probe
               PROVE  \E s \in tasks' : s.awaited /\ call'[s.caller].dep = e
    BY DEF HalfOpenIsProbing
  <2>1. breaker'[e] = breaker[e] /\ (t.awaited => e # call[t.caller].dep)
    <3>1. CASE t.awaited
      BY <3>1 DEF Ends, Shape
    <3>2. CASE ~t.awaited
      BY <3>2 DEF Ends
    <3> QED BY <3>1, <3>2
  <2>2. PICK s \in tasks : s.awaited /\ call[s.caller].dep = e
    BY <2>1 DEF Calls, HalfOpenIsProbing
  <2>3. s # t /\ s \in tasks'
    BY <2>1, <2>2 DEF Ends
  <2> QED BY <1>2, <2>2, <2>3
<1> QED BY <1>1, <1>3, <1>4 DEF Calls

LEMMA NoCallFields ==
    /\ NoCall \in CallSet /\ NoCall.at = "idle" /\ NoCall.work = NoWork /\ NoCall.attempt = 0
    /\ NoWork \in WorkSet /\ NoWork.op = "none" /\ NoWork.run = 0 /\ NoWork.on = 0
BY DEF NoCall, NoWork, Work, CallSet, WorkSet, Places

LEMMA LeaveCalls ==
    ASSUME Shape, Calls, NEW c \in Caller, call[c].at \in {"ok", "error"},
           call' = [call EXCEPT ![c] = NoCall], UNCHANGED <<breaker, tasks>>
    PROVE  /\ Calls' /\ call' \in [Caller -> CallSet]
           /\ call'[c] = NoCall /\ \A d \in Caller \ {c} : call'[d] = call[d]
<1>1. /\ call'[c] = NoCall /\ \A d \in Caller \ {c} : call'[d] = call[d]
      /\ call' \in [Caller -> CallSet]
  BY NoCallFields DEF Shape
<1>2. ASSUME NEW d \in Caller PROVE CallOK(d)'
  <2>1. CASE d = c
    BY <1>1, <2>1 DEF CallOK, InCall, NoCall, NoWork, Work
  <2>2. CASE d # c
    <3>1. CallOK(d)
      BY DEF Calls
    <3> QED BY <1>1, <2>2, <3>1 DEF CallOK, InCall, NoCall, NoWork, Work
  <2> QED BY <2>1, <2>2
<1>3. \A t \in tasks : t.awaited => t.caller \in Caller \ {c}
  BY TaskFields DEF Calls, AwaitedOK
<1>4. \A t \in tasks : t.awaited => call'[t.caller] = call[t.caller]
  BY <1>1, <1>3
<1>5. AwaitedOK'
  BY <1>4 DEF Calls, AwaitedOK
<1>6. HalfOpenIsProbing'
  BY <1>4 DEF Calls, HalfOpenIsProbing
<1> QED BY <1>1, <1>2, <1>5, <1>6 DEF Calls

\* Steps of a breaker, and steps that leave the calls alone.
LEMMA BreakerCalls ==
    ASSUME Shape, Calls, NEW d \in Dependency, HalfOpen(d) \/ RollWindow(d)
    PROVE  Calls' /\ breaker' \in [Dependency -> Breaker] /\ UNCHANGED <<call, tasks, faults>>
<1>1. UNCHANGED <<call, tasks, faults>> /\ breaker \in [Dependency -> Breaker] /\ breaker[d] \in Breaker
  BY DEF HalfOpen, RollWindow, Shape
<1>2. PICK b \in Breaker : /\ breaker' = [breaker EXCEPT ![d] = b]
                           /\ b.probe \/ (b.state = breaker[d].state /\ b.probe = breaker[d].probe)
  <2>1. CASE HalfOpen(d)
    <3> DEFINE b == [breaker[d] EXCEPT !.state = "halfOpen", !.probe = TRUE]
    <3>1. b \in Breaker /\ b.probe
      BY <1>1 DEF Breaker
    <3>2. breaker' = [breaker EXCEPT ![d] = b]
      BY <1>1, <2>1 DEF HalfOpen
    <3> QED BY <3>1, <3>2
  <2>2. CASE RollWindow(d)
    <3> DEFINE b == [breaker[d] EXCEPT !.fires = 0, !.failures = 0]
    <3>1. b \in Breaker /\ b.state = breaker[d].state /\ b.probe = breaker[d].probe
      BY <1>1 DEF Breaker
    <3>2. breaker' = [breaker EXCEPT ![d] = b]
      BY <1>1, <2>2 DEF RollWindow
    <3> QED BY <3>1, <3>2
  <2> QED BY <2>1, <2>2
<1>3. breaker' \in [Dependency -> Breaker]
  BY <1>1, <1>2
<1>4. \A c \in Caller : CallOK(c)'
  BY <1>1 DEF Calls, CallOK, InCall, NoCall, NoWork, Work
<1>5. AwaitedOK'
  BY <1>1 DEF Calls, AwaitedOK
<1>6. HalfOpenIsProbing'
  <2>1. \A e \in Dependency : \/ breaker'[e].probe
                              \/ breaker'[e].state = breaker[e].state /\ breaker'[e].probe = breaker[e].probe
    BY <1>1, <1>2
  <2> QED BY <1>1, <2>1 DEF Calls, HalfOpenIsProbing
<1> QED BY <1>1, <1>3, <1>4, <1>5, <1>6 DEF Calls

LEMMA SameCalls ==
    ASSUME Calls, UNCHANGED <<breaker, call, tasks>>
    PROVE  Calls'
<1>1. \A c \in Caller : CallOK(c)'
  BY DEF Calls, CallOK, InCall, NoCall, NoWork, Work
<1> QED BY <1>1 DEF Calls, AwaitedOK, HalfOpenIsProbing

-----------------------------------------------------------------------------
\* Who works at what.

LEMMA BeforeGrows ==
    ASSUME NEW B, NEW D, B \subseteq D, NEW w, NEW n, Before(B, w, n)
    PROVE  Before(D, w, n)
BY DEF Before

LEMMA BeforeFirst == \A B, w : \A n \in {0, 1} : Before(B, w, n)
BY DEF Before

LEMMA BeforeNext ==
    ASSUME NEW B, NEW w, NEW n \in 1..3, Before(B, w, n), [work |-> w, attempt |-> n] \in B
    PROVE  Before(B, w, n + 1)
BY DEF Before

\* A step that neither begins nor leaves a call.
Steady ==
    /\ UNCHANGED <<role, stamp>>
    /\ \A c \in Caller : /\ call'[c].work = call[c].work
                         /\ call'[c].at = "idle" <=> call[c].at = "idle"
                         /\ call[c].at \in {"ok", "error"} => call'[c].at = call[c].at

LEMMA SteadyWorkOK ==
    ASSUME Works, Steady, NEW c \in Caller
    PROVE  WorkOK(c)'
<1>1. /\ WorkOK(c) /\ role' = role /\ stamp' = stamp
      /\ \A d \in Caller : call[d].at = "ok" => call'[d].at = "ok"
      /\ call'[c].work = call[c].work /\ (call'[c].at = "idle" <=> call[c].at = "idle")
      /\ call[c].at = "error" => call'[c].at = "error"
  BY DEF Works, Steady
<1> QED BY <1>1 DEF WorkOK, Work, NoWork, Workers, JobIds

LEMMA SteadyTaskOK ==
    ASSUME Shape, Works, Steady, blamed \subseteq blamed', NEW t \in tasks
    PROVE  TaskOK(t)'
<1>1. /\ TaskOK(t) /\ role' = role /\ stamp' = stamp /\ t.caller \in Caller
      /\ call'[t.caller].work = call[t.caller].work
      /\ call'[t.caller].at = "idle" <=> call[t.caller].at = "idle"
  BY TaskFields DEF Works, Steady
<1>2. Before(blamed', t.work, t.attempt)
  BY <1>1, BeforeGrows DEF TaskOK
<1> QED BY <1>1, <1>2 DEF TaskOK, Plain, JobIds, Attempt, Before

LEMMA SteadyWorks ==
    ASSUME Shape, Works, Steady, blamed \subseteq blamed',
           \A c \in Caller : TriedOK(c)',
           \A t \in tasks' : t \in tasks \/ TaskOK(t)',
           \A a \in landed' : a \in landed \/ (Plain(a.work) /\ Before(blamed', a.work, a.attempt))
    PROVE  Works'
<1>1. \A c \in Caller : WorkOK(c)'
  BY SteadyWorkOK
<1>2. \A t \in tasks' : TaskOK(t)'
  BY SteadyTaskOK
<1>3. \A a \in landed' : Plain(a.work) /\ Before(blamed', a.work, a.attempt)
  BY BeforeGrows DEF Works
<1> QED BY <1>1, <1>2, <1>3 DEF Works, Plain, JobIds, Before

\* A call that stays at its attempt.
LEMMA TriedKept ==
    ASSUME Works, blamed \subseteq blamed', NEW c \in Caller,
           call'[c].work = call[c].work, call'[c].attempt = call[c].attempt,
           call'[c].at = "backoff" => \/ call[c].at = "backoff"
                                      \/ /\ call[c].attempt \in 1..3
                                         /\ [work |-> call[c].work, attempt |-> call[c].attempt] \in blamed'
    PROVE  TriedOK(c)'
<1>1. PICK w, n : w = call[c].work /\ n = call[c].attempt
  OBVIOUS
<1>2. /\ Plain(w) /\ Before(blamed', w, n)
      /\ call[c].at = "backoff" => Before(blamed', w, n + 1)
  BY <1>1, BeforeGrows DEF Works, TriedOK
<1>3. call'[c].at = "backoff" => Before(blamed', w, n + 1)
  BY <1>1, <1>2, BeforeNext
<1> QED BY <1>1, <1>2, <1>3 DEF TriedOK, Plain, JobIds, Before

LEMMA BeginWorks ==
    ASSUME Shape, Calls, Works, NEW c \in Caller, NEW x, Begins(x), call[c].at = "idle",
           call' = [call EXCEPT ![c] = x], UNCHANGED <<tasks, landed, blamed, role>>,
           \A d \in Caller \ {c} : stamp'[d] = stamp[d], Plain(x.work), WorkOK(c)'
    PROVE  Works'
<1>1. call'[c] = x /\ \A d \in Caller \ {c} : call'[d] = call[d]
  BY DEF Shape
<1>2. ASSUME NEW d \in Caller PROVE WorkOK(d)'
  <2>1. CASE d = c
    BY <2>1
  <2>2. CASE d # c
    <3>1. \A u \in Caller : call[u].at = "ok" => call'[u].at = "ok" /\ stamp'[u] = stamp[u]
      BY <1>1
    <3>2. WorkOK(d) /\ call'[d] = call[d] /\ stamp'[d] = stamp[d]
      BY <1>1, <2>2 DEF Works
    <3> QED BY <3>1, <3>2 DEF WorkOK, Work, NoWork, Workers, JobIds
  <2> QED BY <2>1, <2>2
<1>3. ASSUME NEW d \in Caller PROVE TriedOK(d)'
  <2>1. CASE d = c
    <3>1. x.attempt \in {0, 1} /\ x.at # "backoff"
      BY DEF Begins, CallSet
    <3>2. Before(blamed, x.work, x.attempt)
      BY <3>1, BeforeFirst
    <3> QED BY <1>1, <2>1, <3>1, <3>2 DEF TriedOK, Plain, JobIds, Before
  <2>2. CASE d # c
    BY <1>1, <2>2, TriedKept
  <2> QED BY <2>1, <2>2
<1>4. ASSUME NEW t \in tasks PROVE TaskOK(t)'
  <2>1. TaskOK(t) /\ t.caller \in Caller
    BY TaskFields DEF Works
  <2>2. t.work.op = "upload" => t.caller # c
    <3>1. role[c] = "upload" => stamp[c] = 0
      <4>1. WorkOK(c) /\ call[c] = NoCall
        BY DEF Works, Calls, CallOK
      <4>2. \A k : call[c].work # Work("upload", k, 0)
        BY <4>1, NoCallFields DEF Work
      <4> QED BY <4>1, <4>2 DEF WorkOK, Workers
    <3> QED BY <2>1, <3>1, StorageAssumption DEF StorageAssumption, TaskOK
  <2>3. t.work.op = "delete" => t.caller # c
    BY <2>1 DEF TaskOK
  <2>4. t.work.op \in {"upload", "delete"} => stamp'[t.caller] = stamp[t.caller] /\ call'[t.caller] = call[t.caller]
    BY <1>1, <2>1, <2>2, <2>3
  <2> QED BY <2>1, <2>4 DEF TaskOK, Plain, JobIds, Attempt, Before
<1>5. \A a \in landed' : Plain(a.work)' /\ Before(blamed, a.work, a.attempt)'
  BY DEF Works, Plain, JobIds, Before
<1> QED BY <1>2, <1>3, <1>4, <1>5 DEF Works

LEMMA LeaveWorks ==
    ASSUME Shape, Calls, Works, NEW c \in Caller, role[c] \in Workers,
           call'[c] = NoCall, \A d \in Caller \ {c} : call'[d] = call[d],
           UNCHANGED <<tasks, landed, blamed, role, stamp>>
    PROVE  Works'
<1>1. role[c] # "upload" /\ role[c] # "delete"
  BY DEF Workers
<1>2. ASSUME NEW d \in Caller PROVE WorkOK(d)'
  <2>1. CASE d = c
    BY <1>1, <2>1, NoCallFields DEF WorkOK
  <2>2. CASE d # c
    <3>1. \A u \in Caller : role[u] = "upload" => call'[u] = call[u]
      BY <1>1
    <3>2. WorkOK(d) /\ call'[d] = call[d]
      BY <2>2 DEF Works
    <3> QED BY <3>1, <3>2 DEF WorkOK, Work, NoWork, Workers, JobIds
  <2> QED BY <2>1, <2>2
<1>3. ASSUME NEW d \in Caller PROVE TriedOK(d)'
  <2>1. CASE d = c
    <3>1. Plain(NoWork) /\ Before(blamed', NoWork, 0)
      BY NoCallFields, BeforeFirst DEF Plain
    <3>2. call'[c].work = NoWork /\ call'[c].attempt = 0 /\ call'[c].at = "idle"
      BY NoCallFields
    <3> QED BY <2>1, <3>1, <3>2 DEF TriedOK, Plain, JobIds, Before
  <2>2. CASE d # c
    <3>1. call'[d] = call[d] /\ blamed \subseteq blamed'
      BY <2>2
    <3> QED BY <3>1, TriedKept
  <2> QED BY <2>1, <2>2
<1>4. ASSUME NEW t \in tasks PROVE TaskOK(t)'
  <2>1. TaskOK(t) /\ t.caller \in Caller
    BY TaskFields DEF Works
  <2>2. t.work.op = "delete" => call'[t.caller] = call[t.caller]
    BY <1>1, <2>1 DEF TaskOK
  <2> QED BY <2>1, <2>2 DEF TaskOK, Plain, JobIds, Attempt, Before
<1>5. \A a \in landed' : Plain(a.work)' /\ Before(blamed, a.work, a.attempt)'
  BY DEF Works, Plain, JobIds, Before
<1> QED BY <1>2, <1>3, <1>4, <1>5 DEF Works

LEMMA FireSteady ==
    ASSUME Shape, Calls, NEW c \in Caller, Fire(c), UNCHANGED <<role, stamp>>
    PROVE  /\ Steady /\ \A d \in Caller \ {c} : call'[d] = call[d]
           /\ call[c].at = "ready" /\ call'[c].at \in {"waiting", "error"}
           /\ call'[c].attempt = call[c].attempt
<1>1. PICK at \in {"waiting", "error"} : call' = [call EXCEPT ![c] = Placed(call[c], at)]
  BY FireMoves
<1>2. call[c].at = "ready" /\ call[c] \in CallSet /\ at \in Places
  BY FireMoves, CallFields DEF Places
<1>3. /\ Placed(call[c], at).at = at /\ Placed(call[c], at).work = call[c].work
      /\ Placed(call[c], at).attempt = call[c].attempt
  BY <1>2, PlacedFields
<1>4. call'[c] = Placed(call[c], at) /\ \A d \in Caller \ {c} : call'[d] = call[d]
  BY <1>1 DEF Shape
<1>5. Steady
  BY <1>2, <1>3, <1>4 DEF Steady
<1> QED BY <1>2, <1>3, <1>4, <1>5

LEMMA FireWorks ==
    ASSUME Shape, Calls, Works, NEW c \in Caller, Fire(c), UNCHANGED <<role, stamp, landed, blamed>>
    PROVE  Works'
<1>1. /\ Steady /\ \A d \in Caller \ {c} : call'[d] = call[d]
      /\ call[c].at = "ready" /\ call'[c].at \in {"waiting", "error"}
      /\ call'[c].attempt = call[c].attempt
  BY FireSteady
<1>2. \A d \in Caller : TriedOK(d)'
  <2> SUFFICES ASSUME NEW d \in Caller PROVE TriedOK(d)'
    OBVIOUS
  <2>1. /\ call'[d].work = call[d].work /\ call'[d].attempt = call[d].attempt
        /\ call'[d].at = "backoff" => call[d].at = "backoff"
        /\ blamed \subseteq blamed'
    BY <1>1 DEF Steady
  <2> QED BY <2>1, TriedKept
<1>3. TaskOK(NewTask(c))'
  <2> DEFINE w == call[c].work
             n == call[c].attempt
  <2>1. TriedOK(c) /\ WorkOK(c)
    BY DEF Works
  <2>2. role' = role /\ stamp' = stamp /\ call'[c].work = w /\ call'[c].at # "idle" /\ blamed' = blamed
        /\ call'[c].attempt = n
    BY <1>1 DEF Steady
  <2>3. Plain(w) /\ Before(blamed', w, n)
    BY <2>1, <2>2 DEF TriedOK
  <2>4. /\ w.op = "upload" => role[c] = "upload" /\ stamp[c] \in Stamps /\ stamp[c] = w.on
        /\ w.op = "delete" => role[c] = "delete" /\ w.on \in Stamps
        /\ w.op = "enqueue" => role[c] = "enqueue"
    BY <1>1, <2>1 DEF WorkOK, Work, NoWork, Workers
  <2>5. /\ NewTask(c)'.caller = c /\ NewTask(c)'.work = w /\ NewTask(c)'.attempt = n
        /\ NewTask(c)'.awaited
    BY <2>2 DEF NewTask
  <2> HIDE DEF w, n
  <2> QED BY <2>2, <2>3, <2>4, <2>5 DEF TaskOK, Plain, JobIds, Before
<1>4. \A t \in tasks' : t \in tasks \/ TaskOK(t)'
  <2>1. NewTask(c)' = NewTask(c)
    BY <1>1 DEF NewTask, Steady
  <2> QED BY <1>3, <2>1, FireMoves
<1> QED BY <1>1, <1>2, <1>4, SteadyWorks

LEMMA WakeSteady ==
    ASSUME Shape, Calls, NEW c \in Caller, Wake(c), UNCHANGED <<role, stamp>>
    PROVE  /\ Steady /\ \A d \in Caller \ {c} : call'[d] = call[d]
           /\ call[c].at = "backoff" /\ call'[c].at = "ready" /\ call'[c].attempt = call[c].attempt + 1
<1>1. /\ call[c].at = "backoff" /\ call[c].attempt < call[c].attempts
      /\ call' = [call EXCEPT ![c] = Again(call[c])]
  BY WakeCalls
<1>2. /\ Again(call[c]).at = "ready" /\ Again(call[c]).work = call[c].work
      /\ Again(call[c]).attempt = call[c].attempt + 1
  BY <1>1, AgainFields, CallFields
<1>3. call'[c] = Again(call[c]) /\ \A d \in Caller \ {c} : call'[d] = call[d]
  BY <1>1 DEF Shape
<1> QED BY <1>1, <1>2, <1>3 DEF Steady

LEMMA WakeWorks ==
    ASSUME Shape, Calls, Works, NEW c \in Caller, Wake(c), UNCHANGED <<role, stamp, landed, blamed>>
    PROVE  Works'
<1>1. /\ Steady /\ \A d \in Caller \ {c} : call'[d] = call[d] /\ UNCHANGED tasks
      /\ call[c].at = "backoff" /\ call'[c].at = "ready" /\ call'[c].attempt = call[c].attempt + 1
      /\ UNCHANGED tasks
  BY WakeSteady DEF Wake
<1>2. ASSUME NEW d \in Caller PROVE TriedOK(d)'
  <2>1. CASE d = c
    <3>1. PICK w, n : w = call[c].work /\ n = call[c].attempt + 1
      OBVIOUS
    <3>2. Plain(w) /\ Before(blamed', w, n)
      BY <1>1, <3>1 DEF Works, TriedOK
    <3>3. call'[c].work = w /\ call'[c].attempt = n
      BY <1>1, <3>1 DEF Steady
    <3> QED BY <1>1, <2>1, <3>2, <3>3 DEF TriedOK, Plain, JobIds, Before
  <2>2. CASE d # c
    <3>1. call'[d] = call[d] /\ blamed \subseteq blamed'
      BY <1>1, <2>2
    <3> QED BY <3>1, TriedKept
  <2> QED BY <2>1, <2>2
<1>3. (\A t \in tasks' : t \in tasks) /\ (\A a \in landed' : a \in landed) /\ blamed \subseteq blamed'
  BY <1>1
<1> QED BY <1>1, <1>2, <1>3, SteadyWorks

\* The end of task t in the history: an effect at most of this attempt, and a
\* caller who does not hear of success leaves it among the blamed ones.
Records(t, at) ==
    /\ landed' \in {landed, landed \cup {Attempt(t)}}
    /\ blamed' \in {blamed, blamed \cup {Attempt(t)}}
    /\ at = "ok" => landed' = landed \cup {Attempt(t)}
    /\ at # "ok" => blamed' = blamed \cup {Attempt(t)}

LEMMA EndsSteady ==
    ASSUME Shape, Calls, NEW t, NEW at, NEW b, Ends(t, at, b), UNCHANGED <<role, stamp>>
    PROVE  Steady
<1>1. /\ \A d \in Caller : ~(t.awaited /\ d = t.caller) => call'[d] = call[d]
      /\ t.awaited => /\ call'[t.caller].at = at /\ call'[t.caller].work = call[t.caller].work
                      /\ call[t.caller].at = "waiting"
      /\ at \in {"ok", "backoff", "error"}
  BY EndsMoves, AwaitedCall DEF Ends
<1> QED BY <1>1 DEF Steady

LEMMA EndsWorks ==
    ASSUME Shape, Calls, Works, NEW t, NEW at, NEW b, Ends(t, at, b), Records(t, at),
           UNCHANGED <<role, stamp>>
    PROVE  Works' /\ Steady
<1>1. Steady /\ blamed \subseteq blamed' /\ t \in tasks
  BY EndsSteady DEF Records, Ends
<1>2. /\ \A d \in Caller : ~(t.awaited /\ d = t.caller) => call'[d] = call[d]
      /\ t.awaited => /\ call'[t.caller].at = at /\ call'[t.caller].work = call[t.caller].work
                      /\ call'[t.caller].attempt = call[t.caller].attempt
      /\ \A s \in tasks' : s \in tasks \ {t} \/ (t.awaited /\ at # "ok" /\ s = Overdue(t))
  BY EndsMoves
<1>3. t.caller \in Caller /\ t.attempt \in 1..3 /\ TaskOK(t)
      /\ Attempt(t) = [work |-> t.work, attempt |-> t.attempt]
  BY <1>1, TaskFields DEF Works, Attempt
<1>4. ASSUME NEW d \in Caller PROVE TriedOK(d)'
  <2>1. CASE t.awaited /\ d = t.caller
    <3>1. t.work = call[d].work /\ t.attempt = call[d].attempt
      BY <1>1, <2>1, AwaitedCall
    <3>2. at = "backoff" => [work |-> call[d].work, attempt |-> call[d].attempt] \in blamed'
      BY <1>3, <3>1 DEF Records
    <3>3. call'[d].work = call[d].work /\ call'[d].attempt = call[d].attempt /\ call'[d].at = at
      BY <1>2, <2>1
    <3> QED BY <1>1, <1>3, <3>1, <3>2, <3>3, TriedKept
  <2>2. CASE ~(t.awaited /\ d = t.caller)
    <3>1. call'[d] = call[d]
      BY <1>2, <2>2
    <3> QED BY <1>1, <3>1, TriedKept
  <2> QED BY <2>1, <2>2
<1>5. TaskOK(t)'
  BY <1>1, SteadyTaskOK
<1>6. \A s \in tasks' : s \in tasks \/ TaskOK(s)'
  <2> SUFFICES ASSUME NEW s \in tasks', t.awaited, at # "ok", s = Overdue(t) PROVE TaskOK(s)'
    BY <1>2
  <2>1. /\ s.caller = t.caller /\ s.attempt = t.attempt /\ s.work = t.work /\ ~s.awaited
        /\ Attempt(s) = Attempt(t)
    BY <1>1, OverdueFields
  <2>2. Attempt(s) \in blamed'
    BY <2>1 DEF Records
  <2> QED BY <1>5, <2>1, <2>2 DEF TaskOK, Plain, JobIds, Attempt, Before
<1>7. Plain(t.work) /\ Before(blamed', t.work, t.attempt)
  BY <1>1, <1>3, BeforeGrows DEF TaskOK
<1>8. \A a \in landed' : a \in landed \/ (Plain(a.work) /\ Before(blamed', a.work, a.attempt))
  <2>1. Plain(Attempt(t).work) /\ Before(blamed', Attempt(t).work, Attempt(t).attempt)
    BY <1>3, <1>7
  <2> QED BY <2>1 DEF Records
<1> QED BY <1>1, <1>4, <1>6, <1>8, SteadyWorks

-----------------------------------------------------------------------------
\* Jobs.

LEMMA JobFields ==
    ASSUME Shape, NEW j \in JobIds
    PROVE  /\ job[j].state \in {"none", "waiting", "active", "completed", "failed"}
           /\ job[j].left \in 0..MaxRuns /\ MaxRuns \in Nat \ {0} /\ job[j].left \in Nat
BY StorageAssumption DEF Shape, StorageAssumption

\* Job j with the same runs, and nothing new that landed well for it.
LEMMA JobKept ==
    ASSUME Jobs, NEW j \in JobIds, job'[j] = job[j], landed \subseteq landed', expired \subseteq expired',
           \A c \in Caller : Runs(c, j)' <=> Runs(c, j),
           \A c \in Caller : Runs(c, j) => /\ call'[c].work = call[c].work
                                           /\ call'[c].at = "ok" <=> call[c].at = "ok",
           \A a \in Clean' : a.work.op \in {"pin", "push"} /\ a.work.on = j => a \in Clean
    PROVE  JobOK(j)'
<1>1. JobOK(j)
  BY DEF Jobs
<1>2. \A c \in Caller : Runs(c, j)' =>
          /\ job'[j].state = "active"
          /\ \A d \in Caller : Runs(d, j)' => c = d
          /\ call'[c].at = "ok" => \E a \in landed' : a.work = call'[c].work
  BY <1>1 DEF JobOK
<1>3. job'[j].state = "completed" =>
            \/ \E a \in landed' : a.work.op \in {"pin", "push"} /\ a.work.on = j
            \/ \E w \in expired' : w.on = j
  BY <1>1 DEF JobOK
<1>4. \A a \in Clean' : a.work.op \in {"pin", "push"} /\ a.work.on = j =>
          job'[j].state = "completed" \/ \E c \in Caller : Runs(c, j)' /\ call'[c].at = "ok"
  BY <1>1 DEF JobOK
<1>5. job'[j].state = "waiting" => job'[j].left > 0
  BY <1>1 DEF JobOK
<1> QED BY <1>2, <1>3, <1>4, <1>5 DEF JobOK

\* A step of the callers that are at other jobs or at none.
LEMMA OthersJob ==
    ASSUME Jobs, NEW j \in JobIds, job'[j] = job[j], UNCHANGED <<role, landed, blamed>>,
           expired \subseteq expired',
           \A c \in Caller : call'[c] = call[c] \/ (~Runs(c, j) /\ ~Runs(c, j)')
    PROVE  JobOK(j)'
<1>1. \A c \in Caller : Runs(c, j)' <=> Runs(c, j)
  BY DEF Runs, Workers
<1>2. \A c \in Caller : Runs(c, j) => /\ call'[c].work = call[c].work
                                      /\ call'[c].at = "ok" <=> call[c].at = "ok"
  OBVIOUS
<1>3. Clean' = Clean /\ landed \subseteq landed'
  BY DEF Clean
<1> QED BY <1>1, <1>2, <1>3, JobKept

LEMMA OneCleanKept ==
    ASSUME Jobs, Clean' \subseteq Clean
    PROVE  OneClean'
BY DEF Jobs, OneClean

\* Somebody who runs no jobs begins.
LEMMA BeginJobs ==
    ASSUME Shape, Calls, Jobs, NEW c \in Caller, NEW x, Begins(x), call[c].at = "idle",
           call' = [call EXCEPT ![c] = x], role[c] \notin Workers,
           UNCHANGED <<job, tasks, landed, blamed, role, expired>>
    PROVE  Jobs'
<1>1. call'[c] = x /\ \A d \in Caller \ {c} : call'[d] = call[d]
  BY DEF Shape
<1>2. ASSUME NEW j \in JobIds PROVE JobOK(j)'
  <2>1. \A d \in Caller : call'[d] = call[d] \/ (~Runs(d, j) /\ ~Runs(d, j)')
    BY <1>1 DEF Runs, Workers
  <2> QED BY <2>1, OthersJob
<1>3. call[c].attempt = 0 /\ (x.attempt = 1 \/ (x.attempt = 0 /\ x.at # "ready"))
  BY NoCallFields DEF Calls, CallOK, Begins, CallSet
<1>4. EnqueueOK'
  <2>1. ASSUME NEW d \in Caller, role[d] = "enqueue", NEW j \in JobIds,
               j > call'[d].attempt \/ (j = call'[d].attempt /\ call'[d].at = "ready")
        PROVE  job[j].state = "none"
    <3>1. CASE d = c
      BY <1>1, <1>3, <2>1, <3>1 DEF Jobs, EnqueueOK, JobIds
    <3>2. CASE d # c
      BY <1>1, <2>1, <3>2 DEF Jobs, EnqueueOK
    <3> QED BY <3>1, <3>2
  <2>2. ASSUME NEW t \in tasks, t.work.op = "enqueue"
        PROVE  t.caller \in Caller \ {c}
    BY <1>3, <2>2, TaskFields DEF Jobs, EnqueueOK
  <2>3. \A t \in tasks : t.work.op = "enqueue" => call'[t.caller] = call[t.caller]
    BY <1>1, <2>2
  <2> QED BY <2>1, <2>3 DEF Jobs, EnqueueOK, JobIds
<1>5. OneClean'
  BY OneCleanKept DEF Clean
<1> QED BY <1>2, <1>4, <1>5 DEF Jobs

\* A worker takes a job.
LEMMA TakeJobs ==
    ASSUME Shape, Calls, Jobs, NEW c \in Caller, NEW x, Begins(x), x.at # "ok", call[c].at = "idle",
           call' = [call EXCEPT ![c] = x], role[c] \in Workers,
           NEW j \in JobIds, x.work.on = j, job[j].state = "waiting",
           job' = [job EXCEPT ![j] = [state |-> "active", left |-> @.left - 1]],
           UNCHANGED <<tasks, landed, blamed, role, expired>>
    PROVE  /\ Jobs'
           /\ job' \in [JobIds -> [state: {"none", "waiting", "active", "completed", "failed"}, left: 0..MaxRuns]]
<1>1. call'[c] = x /\ (\A d \in Caller \ {c} : call'[d] = call[d]) /\ x.at # "idle"
  BY DEF Shape, Begins
<1>2. job[j].left > 0 /\ JobOK(j)
  BY DEF Jobs, JobOK
<1>3. PICK n \in 0..MaxRuns : n = job[j].left - 1
  BY <1>2, JobFields
<1>4. job' = [job EXCEPT ![j] = [state |-> "active", left |-> n]]
  BY <1>3 DEF Shape
<1>5. /\ job' \in [JobIds -> [state: {"none", "waiting", "active", "completed", "failed"}, left: 0..MaxRuns]]
      /\ job'[j].state = "active" /\ \A i \in JobIds \ {j} : job'[i] = job[i]
  BY <1>4 DEF Shape
<1>6. \A d \in Caller : ~Runs(d, j)
  BY <1>2 DEF JobOK
<1>7. \A d \in Caller : Runs(d, j)' <=> d = c
  BY <1>1, <1>6 DEF Runs, Workers
<1>8. JobOK(j)'
  <2>1. \A a \in Clean' : ~(a.work.op \in {"pin", "push"} /\ a.work.on = j)
    <3>1. Clean' = Clean
      BY DEF Clean
    <3> QED BY <1>2, <1>6, <3>1 DEF JobOK
  <2> QED BY <1>1, <1>5, <1>7, <2>1 DEF JobOK
<1>9. ASSUME NEW i \in JobIds, i # j PROVE JobOK(i)'
  <2>1. \A d \in Caller : call'[d] = call[d] \/ (~Runs(d, i) /\ ~Runs(d, i)')
    BY <1>1, <1>9 DEF Runs
  <2> QED BY <1>5, <1>9, <2>1, OthersJob
<1>10. EnqueueOK'
  <2>1. \A i \in JobIds : job[i].state = "none" => job'[i].state = "none"
    BY <1>5
  <2>2. role[c] # "enqueue"
    BY DEF Workers
  <2>3. \A d \in Caller : role[d] = "enqueue" => call'[d] = call[d]
    BY <1>1, <2>2
  <2>4. \A t \in tasks : t.work.op = "enqueue" => t.caller \in Caller \ {c}
    <3>1. call[c].attempt = 0
      BY NoCallFields DEF Calls, CallOK
    <3> QED BY <3>1, TaskFields DEF Jobs, EnqueueOK
  <2>5. \A t \in tasks : t.work.op = "enqueue" => call'[t.caller] = call[t.caller]
    BY <1>1, <2>4
  <2> QED BY <2>1, <2>3, <2>5 DEF Jobs, EnqueueOK, JobIds
<1>11. OneClean'
  BY OneCleanKept DEF Clean
<1> QED BY <1>5, <1>8, <1>9, <1>10, <1>11 DEF Jobs

LEMMA WorkerRuns ==
    ASSUME Shape, Calls, Works, NEW c \in Caller, call[c].at # "idle"
    PROVE  /\ role[c] \in Workers => /\ call[c].work.on \in JobIds /\ Runs(c, call[c].work.on)
                                     /\ call[c].work.op \in {"pin", "push"}
           /\ call[c].work.op \in {"pin", "push"} /\ call[c].work.on \in JobIds => role[c] \in Workers
           /\ call[c].work.op = "enqueue" => role[c] = "enqueue"
<1>1. WorkOK(c)
  BY DEF Works
<1>2. role[c] \in Workers => call[c].work.on \in JobIds /\ call[c].work.op \in {"pin", "push"}
  BY <1>1 DEF WorkOK, Workers
<1>3. call[c].work.op \in {"pin", "push"} /\ call[c].work.on \in JobIds => role[c] \in Workers
  BY <1>1 DEF WorkOK, Work, NoWork, JobIds
<1>4. call[c].work.op = "enqueue" => role[c] = "enqueue"
  BY <1>1 DEF WorkOK, Work, NoWork
<1> QED BY <1>2, <1>3, <1>4 DEF Runs

LEMMA EndJobJobs ==
    ASSUME Shape, Calls, Works, Jobs, NEW c \in Caller, EndJob(c)
    PROVE  /\ Jobs'
           /\ job' \in [JobIds -> [state: {"none", "waiting", "active", "completed", "failed"}, left: 0..MaxRuns]]
<1>1. /\ role[c] \in Workers /\ call[c].at \in {"ok", "error"} /\ call' = [call EXCEPT ![c] = NoCall]
      /\ UNCHANGED <<tasks, landed, blamed, role, expired>>
  BY DEF EndJob
<1>2. PICK j \in JobIds : j = call[c].work.on /\ Runs(c, j)
  BY <1>1, WorkerRuns
<1>3. call'[c] = NoCall /\ (\A d \in Caller \ {c} : call'[d] = call[d]) /\ NoCall.at = "idle"
  BY <1>1, NoCallFields DEF Shape
<1>4. JobOK(j) /\ job[j].state = "active" /\ \A d \in Caller : Runs(d, j) => c = d
  BY <1>2 DEF Jobs, JobOK
<1>5. PICK s \in {"completed", "waiting", "failed"} :
         /\ job' = [job EXCEPT ![j].state = s]
         /\ s = "completed" <=> ~Throws(c)
         /\ s = "waiting" => job[j].left > 0
  BY <1>2 DEF EndJob, Shape
<1>6. /\ job' \in [JobIds -> [state: {"none", "waiting", "active", "completed", "failed"}, left: 0..MaxRuns]]
      /\ job'[j].state = s /\ job'[j].left = job[j].left /\ \A i \in JobIds \ {j} : job'[i] = job[i]
  BY <1>5 DEF Shape
<1>7. \A d \in Caller : ~Runs(d, j)'
  BY <1>1, <1>3, <1>4 DEF Runs, Workers
<1>8. JobOK(j)'
  <2>1. s = "completed" => \/ \E a \in landed : a.work.op \in {"pin", "push"} /\ a.work.on = j
                           \/ \E w \in expired : w.on = j
    <3>1. CASE call[c].at = "ok"
      <4>1. PICK a \in landed : a.work = call[c].work
        BY <1>2, <1>4, <3>1 DEF JobOK
      <4>2. a.work.op \in {"pin", "push"} /\ a.work.on = j
        BY <1>1, <1>2, <4>1, WorkerRuns
      <4> QED BY <4>2
    <3>2. CASE call[c].at = "error"
      BY <1>2, <1>5, <3>2 DEF Throws
    <3> QED BY <1>1, <3>1, <3>2
  <2>2. \A a \in Clean : a.work.op \in {"pin", "push"} /\ a.work.on = j => s = "completed"
    <3>1. s # "completed" => call[c].at = "error"
      BY <1>1, <1>5 DEF Throws
    <3>2. \A a \in Clean : a.work.op \in {"pin", "push"} /\ a.work.on = j =>
             \E d \in Caller : Runs(d, j) /\ call[d].at = "ok"
      BY <1>4 DEF JobOK
    <3> QED BY <1>4, <3>1, <3>2
  <2>3. Clean' = Clean
    BY <1>1 DEF Clean
  <2> QED BY <1>1, <1>5, <1>6, <1>7, <2>1, <2>2, <2>3 DEF JobOK
<1>9. ASSUME NEW i \in JobIds, i # j PROVE JobOK(i)'
  <2>1. \A d \in Caller : call'[d] = call[d] \/ (~Runs(d, i) /\ ~Runs(d, i)')
    BY <1>2, <1>3, <1>9 DEF Runs
  <2>2. job'[i] = job[i] /\ expired \subseteq expired'
    BY <1>1, <1>6, <1>9
  <2> QED BY <1>1, <2>1, <2>2, OthersJob
<1>10. EnqueueOK'
  <2>1. \A i \in JobIds : job[i].state = "none" => job'[i].state = "none"
    BY <1>4, <1>6
  <2>2. role[c] # "enqueue"
    BY <1>1 DEF Workers
  <2>3. \A d \in Caller : role[d] = "enqueue" => call'[d] = call[d]
    BY <1>3, <2>2
  <2>4. \A t \in tasks : t.work.op = "enqueue" => t.caller \in Caller /\ role[t.caller] = "enqueue"
    BY TaskFields DEF Works, TaskOK
  <2>5. \A t \in tasks : t.work.op = "enqueue" => call'[t.caller] = call[t.caller]
    BY <2>3, <2>4
  <2> QED BY <1>1, <2>1, <2>3, <2>5 DEF Jobs, EnqueueOK, JobIds
<1>11. OneClean'
  <2>1. Clean' \subseteq Clean
    BY <1>1 DEF Clean
  <2> QED BY <2>1, OneCleanKept
<1> QED BY <1>6, <1>8, <1>9, <1>10, <1>11 DEF Jobs

\* A caller goes on within his call.
LEMMA SteadyJob ==
    ASSUME Jobs, NEW j \in JobIds, job'[j] = job[j], Steady, landed \subseteq landed', expired \subseteq expired',
           \A c \in Caller : call'[c].at = "ok" => call[c].at = "ok",
           \A a \in Clean' : a.work.op \in {"pin", "push"} /\ a.work.on = j => a \in Clean
    PROVE  JobOK(j)'
<1>1. \A c \in Caller : Runs(c, j)' <=> Runs(c, j)
  BY DEF Runs, Workers, Steady
<1>2. \A c \in Caller : Runs(c, j) => /\ call'[c].work = call[c].work
                                      /\ call'[c].at = "ok" <=> call[c].at = "ok"
  BY DEF Steady
<1> QED BY <1>1, <1>2, JobKept

LEMMA FireJobs ==
    ASSUME Shape, Calls, Works, Jobs, NEW c \in Caller, Fire(c),
           UNCHANGED <<role, stamp, landed, blamed, job, expired>>
    PROVE  Jobs'
<1>1. /\ Steady /\ \A d \in Caller \ {c} : call'[d] = call[d]
      /\ call[c].at = "ready" /\ call'[c].at \in {"waiting", "error"}
      /\ call'[c].attempt = call[c].attempt
  BY FireSteady
<1>2. Clean' \subseteq Clean /\ landed \subseteq landed' /\ expired \subseteq expired'
  BY DEF Clean
<1>3. ASSUME NEW j \in JobIds PROVE JobOK(j)'
  <2>1. \A d \in Caller : call'[d].at = "ok" => call[d].at = "ok"
    BY <1>1
  <2>2. job'[j] = job[j] /\ \A a \in Clean' : a.work.op \in {"pin", "push"} /\ a.work.on = j => a \in Clean
    BY <1>2
  <2> QED BY <1>1, <1>2, <2>1, <2>2, SteadyJob
<1>4. EnqueueOK'
  <2>1. ASSUME NEW d \in Caller, role[d] = "enqueue", NEW j \in JobIds,
               j > call'[d].attempt \/ (j = call'[d].attempt /\ call'[d].at = "ready")
        PROVE  job[j].state = "none"
    <3>1. call'[d].attempt = call[d].attempt /\ (call'[d].at = "ready" => call[d].at = "ready")
      BY <1>1
    <3> QED BY <2>1, <3>1 DEF Jobs, EnqueueOK
  <2>2. ASSUME NEW t \in tasks', t.work.op = "enqueue"
        PROVE  /\ t.attempt \in JobIds /\ job[t.attempt].state = "none"
               /\ t.attempt <= call'[t.caller].attempt
               /\ t.attempt = call'[t.caller].attempt =>
                     call'[t.caller].at # "ready" /\ (call'[t.caller].at = "waiting" => t.awaited)
    <3>1. CASE t \in tasks
      <4>1. /\ t.attempt \in JobIds /\ job[t.attempt].state = "none" /\ t.caller \in Caller
            /\ t.attempt <= call[t.caller].attempt
            /\ t.attempt = call[t.caller].attempt =>
                  call[t.caller].at # "ready" /\ (call[t.caller].at = "waiting" => t.awaited)
        BY <2>2, <3>1, TaskFields DEF Jobs, EnqueueOK
      <4>2. CASE t.caller = c
        BY <1>1, <4>1, <4>2
      <4>3. CASE t.caller # c
        BY <1>1, <4>1, <4>3
      <4> QED BY <4>2, <4>3
    <3>2. CASE t = NewTask(c) /\ call'[c].at = "waiting"
      <4>1. t.caller = c /\ t.attempt = call[c].attempt /\ t.awaited /\ call[c].work.op = "enqueue"
        BY <2>2, <3>2 DEF NewTask
      <4>2. t.attempt \in JobIds
        <5>1. /\ call[c].attempts = 2 /\ call[c].attempt <= call[c].attempts /\ call[c].attempt >= 1
              /\ call[c].attempt \in 0..3
          BY <1>1, <4>1, CallFields DEF Calls, CallOK, InCall
        <5> QED BY <4>1, <5>1 DEF JobIds
      <4>3. role[c] = "enqueue"
        BY <1>1, <4>1, WorkerRuns
      <4>4. job[t.attempt].state = "none"
        BY <1>1, <4>1, <4>2, <4>3 DEF Jobs, EnqueueOK
      <4> QED BY <1>1, <3>2, <4>1, <4>2, <4>4 DEF JobIds
    <3>3. t \in tasks \/ (t = NewTask(c) /\ call'[c].at = "waiting")
      <4>1. call[c] \in CallSet /\ "waiting" \in Places
        BY CallFields DEF Places
      <4>2. call' = [call EXCEPT ![c] = Placed(call[c], "waiting")] => call'[c].at = "waiting"
        BY <4>1, PlacedFields DEF Shape
      <4> QED BY <2>2, <4>2, FireMoves
    <3> QED BY <3>1, <3>2, <3>3
  <2> QED BY <2>1, <2>2 DEF EnqueueOK, JobIds
<1>5. OneClean'
  BY <1>2, OneCleanKept
<1> QED BY <1>3, <1>4, <1>5 DEF Jobs

LEMMA WakeJobs ==
    ASSUME Shape, Calls, Works, Jobs, NEW c \in Caller, Wake(c),
           UNCHANGED <<role, stamp, landed, blamed, job, expired>>
    PROVE  Jobs'
<1>1. /\ Steady /\ \A d \in Caller \ {c} : call'[d] = call[d]
      /\ call[c].at = "backoff" /\ call'[c].at = "ready" /\ call'[c].attempt = call[c].attempt + 1
      /\ tasks' = tasks /\ call[c].attempt \in 0..3
  BY WakeSteady, CallFields DEF Wake
<1>2. Clean' \subseteq Clean /\ landed \subseteq landed' /\ expired \subseteq expired'
  BY DEF Clean
<1>3. ASSUME NEW j \in JobIds PROVE JobOK(j)'
  <2>1. \A d \in Caller : call'[d].at = "ok" => call[d].at = "ok"
    BY <1>1
  <2>2. job'[j] = job[j] /\ \A a \in Clean' : a.work.op \in {"pin", "push"} /\ a.work.on = j => a \in Clean
    BY <1>2
  <2> QED BY <1>1, <1>2, <2>1, <2>2, SteadyJob
<1>4. EnqueueOK'
  <2>1. ASSUME NEW d \in Caller, role[d] = "enqueue", NEW j \in JobIds,
               j > call'[d].attempt \/ (j = call'[d].attempt /\ call'[d].at = "ready")
        PROVE  job[j].state = "none"
    <3>1. CASE d = c
      <4>1. j > call[c].attempt
        BY <1>1, <2>1, <3>1 DEF JobIds
      <4> QED BY <2>1, <3>1, <4>1 DEF Jobs, EnqueueOK
    <3>2. CASE d # c
      BY <1>1, <2>1, <3>2 DEF Jobs, EnqueueOK
    <3> QED BY <3>1, <3>2
  <2>2. ASSUME NEW t \in tasks, t.work.op = "enqueue"
        PROVE  /\ t.attempt \in JobIds /\ job[t.attempt].state = "none"
               /\ t.attempt <= call'[t.caller].attempt
               /\ t.attempt = call'[t.caller].attempt =>
                     call'[t.caller].at # "ready" /\ (call'[t.caller].at = "waiting" => t.awaited)
    <3>1. /\ t.attempt \in JobIds /\ job[t.attempt].state = "none" /\ t.caller \in Caller
          /\ t.attempt <= call[t.caller].attempt /\ t.attempt \in 1..3
          /\ t.attempt = call[t.caller].attempt =>
                call[t.caller].at # "ready" /\ (call[t.caller].at = "waiting" => t.awaited)
      BY <2>2, TaskFields DEF Jobs, EnqueueOK
    <3>2. CASE t.caller = c
      <4>1. t.attempt < call'[c].attempt
        BY <1>1, <3>1, <3>2
      <4> QED BY <1>1, <3>1, <3>2, <4>1
    <3>3. CASE t.caller # c
      BY <1>1, <3>1, <3>3
    <3> QED BY <3>2, <3>3
  <2> QED BY <1>1, <2>1, <2>2 DEF EnqueueOK, JobIds
<1>5. OneClean'
  BY <1>2, OneCleanKept
<1> QED BY <1>3, <1>4, <1>5 DEF Jobs

\* The producer of the jobs.
LEMMA OneProducer ==
    ASSUME Shape, NEW c \in Caller, NEW d \in Caller, role[c] = "enqueue", role[d] = "enqueue"
    PROVE  c = d
BY StorageAssumption DEF StorageAssumption, Shape

LEMMA EnqueueTasks ==
    ASSUME Shape, Calls, Works, Jobs, NEW s \in tasks, NEW t \in tasks,
           s.work.op = "enqueue", t.work.op = "enqueue", s.attempt = t.attempt
    PROVE  s = t
<1>1. s.caller = t.caller
  BY TaskFields, OneProducer DEF Works, TaskOK
<1>2. s.work = t.work
  <2>1. /\ s.work.run = 0 /\ s.work.on = 0 /\ t.work.run = 0 /\ t.work.on = 0
    BY DEF Works, TaskOK, Plain
  <2>2. s.work \in WorkSet /\ t.work \in WorkSet
    BY TaskFields
  <2> QED BY <2>1, <2>2 DEF WorkSet
<1>3. s.awaited = t.awaited
  <2>1. s.awaited => t.awaited
    BY <1>1 DEF Calls, AwaitedOK, Jobs, EnqueueOK
  <2>2. t.awaited => s.awaited
    BY <1>1 DEF Calls, AwaitedOK, Jobs, EnqueueOK
  <2> QED BY <2>1, <2>2, TaskFields
<1> QED BY <1>1, <1>2, <1>3, TaskFields DEF TaskSet

\* What landed well is news only to a caller who was waiting for it.
LEMMA NewClean ==
    ASSUME Shape, Calls, Works, NEW t, NEW at, NEW b, Ends(t, at, b), Records(t, at)
    PROVE  /\ Clean' \subseteq Clean \cup {Attempt(t)}
           /\ ~(t.awaited /\ at = "ok") => Clean' \subseteq Clean
           /\ landed \subseteq landed' /\ blamed \subseteq blamed'
<1>1. landed \subseteq landed' /\ blamed \subseteq blamed' /\ landed' \subseteq landed \cup {Attempt(t)}
  BY DEF Records
<1>2. Clean' \subseteq Clean \cup {Attempt(t)}
  BY <1>1 DEF Clean
<1>3. ~(t.awaited /\ at = "ok") => Attempt(t) \in blamed'
  BY <1>1 DEF Records, Ends, Works, TaskOK
<1>4. ~(t.awaited /\ at = "ok") => Clean' \subseteq Clean
  BY <1>2, <1>3 DEF Clean
<1> QED BY <1>1, <1>2, <1>4

LEMMA EndsOneClean ==
    ASSUME Shape, Calls, Works, Jobs, NEW t, NEW at, NEW b, Ends(t, at, b), Records(t, at)
    PROVE  OneClean'
<1>1. /\ Clean' \subseteq Clean \cup {Attempt(t)} /\ t \in tasks
      /\ ~(t.awaited /\ at = "ok") => Clean' \subseteq Clean
      /\ landed \subseteq landed' /\ blamed \subseteq blamed'
  BY NewClean DEF Ends
<1>2. CASE Clean' \subseteq Clean
  BY <1>2, OneCleanKept
<1>3. CASE t.awaited /\ at = "ok" /\ Attempt(t) \in Clean'
  <2> DEFINE e == Attempt(t)
             c == t.caller
  <2>1. /\ c \in Caller /\ call[c].at = "waiting" /\ t.work = call[c].work /\ t.attempt = call[c].attempt
        /\ t.attempt \in 1..3 /\ t.work \in WorkSet
    BY <1>1, <1>3, AwaitedCall, TaskFields
  <2>2. e.work = t.work /\ e.attempt = t.attempt /\ e = [work |-> t.work, attempt |-> t.attempt]
    BY DEF Attempt
  <2>3. e \notin blamed /\ t.work.op \in {"pin", "push", "enqueue"}
    BY <1>1, <1>3, <2>2 DEF Clean
  <2>4. ASSUME NEW a \in Clean, a.work.op = t.work.op, a.work.on = t.work.on PROVE a = e
    <3>1. a \in AttemptSet /\ Plain(a.work) /\ Before(blamed, a.work, a.attempt) /\ a \notin blamed
      BY DEF Clean, Shape, Works
    <3>2. Plain(t.work) /\ Before(blamed, t.work, t.attempt)
      BY <1>1 DEF Works, TaskOK
    <3>3. CASE t.work.op \in {"pin", "push"} /\ t.work.on \in JobIds
      <4>1. role[c] \in Workers /\ Runs(c, t.work.on)
        BY <2>1, <3>3, WorkerRuns
      <4>2. JobOK(t.work.on)
        BY <3>3 DEF Jobs
      <4>3. job[t.work.on].state = "active"
        BY <2>1, <4>1, <4>2 DEF JobOK
      <4>4. PICK d \in Caller : Runs(d, t.work.on) /\ call[d].at = "ok"
        BY <2>4, <3>3, <4>2, <4>3 DEF JobOK
      <4>5. d = c
        BY <2>1, <4>1, <4>2, <4>4 DEF JobOK
      <4> QED BY <2>1, <4>4, <4>5
    <3>4. CASE ~(t.work.op \in {"pin", "push"} /\ t.work.on \in JobIds)
      <4>1. a.work.run = 0 /\ t.work.run = 0
        BY <2>4, <3>1, <3>2, <3>4 DEF Plain
      <4>2. a.work = t.work
        BY <2>1, <2>4, <3>1, <4>1 DEF AttemptSet, WorkSet
      <4>3. a.attempt \in 1..3 /\ a = [work |-> t.work, attempt |-> a.attempt]
        BY <3>1, <4>2 DEF AttemptSet
      <4>4. ~(a.attempt < t.attempt)
        BY <3>1, <3>2, <4>3 DEF Before
      <4>5. ~(t.attempt < a.attempt)
        BY <2>1, <2>2, <2>3, <3>1, <4>2 DEF Before
      <4>6. a.attempt = t.attempt
        BY <2>1, <4>3, <4>4, <4>5
      <4> QED BY <2>2, <4>3, <4>6
    <3> QED BY <3>3, <3>4
  <2> HIDE DEF e
  <2>5. \A a, f \in Clean \cup {e} : a.work.op = f.work.op /\ a.work.on = f.work.on => a = f
    BY <2>2, <2>4 DEF Jobs, OneClean
  <2> QED BY <1>1, <2>5 DEF OneClean, e
<1> QED BY <1>1, <1>2, <1>3

\* What the end of task t does to the jobs: an enqueued one is new.
JobsAfter(t) ==
    /\ expired \subseteq expired'
    /\ \/ job' = job
       \/ t.work.op = "enqueue" /\ tasks' = tasks \ {t} /\ job' = [job EXCEPT ![t.attempt] = NewJob]

LEMMA EndsJobs ==
    ASSUME Shape, Calls, Works, Jobs, NEW t, NEW at, NEW b, Ends(t, at, b), Records(t, at),
           JobsAfter(t), UNCHANGED <<role, stamp>>
    PROVE  /\ Jobs'
           /\ job' \in [JobIds -> [state: {"none", "waiting", "active", "completed", "failed"}, left: 0..MaxRuns]]
<1> DEFINE c == t.caller
<1>1. /\ Clean' \subseteq Clean \cup {Attempt(t)} /\ t \in tasks /\ c \in Caller
      /\ ~(t.awaited /\ at = "ok") => Clean' \subseteq Clean
      /\ landed \subseteq landed' /\ blamed \subseteq blamed' /\ Steady /\ expired \subseteq expired'
      /\ Attempt(t).work = t.work /\ at \in {"ok", "backoff", "error"}
  BY NewClean, EndsSteady, TaskFields DEF Ends, JobsAfter, Attempt
<1>2. /\ \A d \in Caller : ~(t.awaited /\ d = c) => call'[d] = call[d]
      /\ t.awaited => /\ call'[c].at = at /\ call'[c].work = call[c].work
                      /\ call'[c].attempt = call[c].attempt /\ call[c].at = "waiting"
                      /\ t.work = call[c].work
      /\ \A s \in tasks' : s \in tasks \ {t} \/ (t.awaited /\ at # "ok" /\ s = Overdue(t))
  BY <1>1, EndsMoves, AwaitedCall
<1>3. t.work.op = "enqueue" => t.attempt \in JobIds /\ job[t.attempt].state = "none"
  BY <1>1 DEF Jobs, EnqueueOK
<1>4. \A j \in JobIds : \/ job'[j] = job[j]
                        \/ j = t.attempt /\ t.work.op = "enqueue" /\ job[j].state = "none" /\ job'[j] = NewJob
  BY <1>3 DEF JobsAfter, Shape
<1>5. job' \in [JobIds -> [state: {"none", "waiting", "active", "completed", "failed"}, left: 0..MaxRuns]]
  BY <1>3, StorageAssumption DEF StorageAssumption, JobsAfter, Shape, NewJob
<1>6. ASSUME NEW j \in JobIds, job'[j] = job[j] PROVE JobOK(j)'
  <2>1. CASE ~(t.awaited /\ at = "ok")
    <3>1. \A d \in Caller : call'[d].at = "ok" => call[d].at = "ok"
      BY <1>1, <1>2, <2>1
    <3>2. \A a \in Clean' : a.work.op \in {"pin", "push"} /\ a.work.on = j => a \in Clean
      BY <1>1, <2>1
    <3> QED BY <1>1, <1>6, <3>1, <3>2, SteadyJob
  <2>2. CASE t.awaited /\ at = "ok" /\ ~Runs(c, j)
    <3>1. \A d \in Caller : Runs(d, j)' <=> Runs(d, j)
      BY <1>1 DEF Runs, Workers, Steady
    <3>2. \A d \in Caller : Runs(d, j) => call'[d] = call[d]
      BY <1>2, <2>2
    <3>3. ~(t.work.op \in {"pin", "push"} /\ t.work.on = j)
      BY <1>1, <1>2, <2>2, WorkerRuns DEF Runs
    <3>4. \A a \in Clean' : a.work.op \in {"pin", "push"} /\ a.work.on = j => a \in Clean
      BY <1>1, <3>3
    <3> QED BY <1>1, <1>6, <3>1, <3>2, <3>4, JobKept
  <2>3. CASE t.awaited /\ at = "ok" /\ Runs(c, j)
    <3>1. JobOK(j) /\ job[j].state = "active" /\ \A d \in Caller : Runs(d, j) => c = d
      BY <1>1, <2>3 DEF Jobs, JobOK
    <3>2. \A d \in Caller : Runs(d, j)' <=> Runs(d, j)
      BY <1>1 DEF Runs, Workers, Steady
    <3>3. Attempt(t) \in landed' /\ Attempt(t).work = call'[c].work /\ call'[c].at = "ok"
      BY <1>1, <1>2, <2>3 DEF Records
    <3>4. \A d \in Caller : Runs(d, j)' =>
             /\ job'[j].state = "active"
             /\ \A f \in Caller : Runs(f, j)' => d = f
             /\ call'[d].at = "ok" => \E a \in landed' : a.work = call'[d].work
      BY <1>6, <3>1, <3>2, <3>3
    <3>5. \E d \in Caller : Runs(d, j)' /\ call'[d].at = "ok"
      BY <1>1, <2>3, <3>2, <3>3
    <3> QED BY <1>6, <3>1, <3>4, <3>5 DEF JobOK
  <2> QED BY <2>1, <2>2, <2>3
<1>7. ASSUME NEW j \in JobIds, t.work.op = "enqueue", job[j].state = "none", job'[j] = NewJob PROVE JobOK(j)'
  <2>1. JobOK(j) /\ \A d \in Caller : ~Runs(d, j)
    BY <1>7 DEF Jobs, JobOK
  <2>2. \A d \in Caller : ~Runs(d, j)'
    BY <1>1, <2>1 DEF Runs, Workers, Steady
  <2>3. job'[j].state = "waiting" /\ job'[j].left > 0
    BY <1>7, StorageAssumption DEF StorageAssumption, NewJob
  <2>4. \A a \in Clean' : ~(a.work.op \in {"pin", "push"} /\ a.work.on = j)
    <3>1. \A a \in Clean : ~(a.work.op \in {"pin", "push"} /\ a.work.on = j)
      BY <1>7, <2>1 DEF JobOK
    <3> QED BY <1>1, <1>7, <3>1
  <2> QED BY <2>2, <2>3, <2>4 DEF JobOK
<1>8. EnqueueOK'
  <2>1. ASSUME NEW d \in Caller, role[d] = "enqueue", NEW j \in JobIds,
               j > call'[d].attempt \/ (j = call'[d].attempt /\ call'[d].at = "ready")
        PROVE  job'[j].state = "none"
    <3>1. call'[d].attempt = call[d].attempt /\ (call'[d].at = "ready" => call[d].at = "ready")
      BY <1>1, <1>2
    <3>2. job[j].state = "none"
      BY <2>1, <3>1 DEF Jobs, EnqueueOK
    <3>3. t.work.op = "enqueue" => j # t.attempt
      <4>1. t.work.op = "enqueue" => c = d
        BY <1>1, <2>1, OneProducer DEF Works, TaskOK
      <4>2. call[d].attempt \in 0..3
        BY CallFields
      <4> QED BY <1>1, <2>1, <3>1, <4>1, <4>2 DEF Jobs, EnqueueOK, JobIds
    <3> QED BY <1>4, <3>2, <3>3
  <2>2. ASSUME NEW s \in tasks', s.work.op = "enqueue"
        PROVE  /\ s.attempt \in JobIds /\ job'[s.attempt].state = "none"
               /\ s.attempt <= call'[s.caller].attempt
               /\ s.attempt = call'[s.caller].attempt =>
                     call'[s.caller].at # "ready" /\ (call'[s.caller].at = "waiting" => s.awaited)
    <3>1. CASE s \in tasks \ {t}
      <4>1. /\ s.attempt \in JobIds /\ job[s.attempt].state = "none" /\ s.caller \in Caller
            /\ s.attempt <= call[s.caller].attempt
            /\ s.attempt = call[s.caller].attempt =>
                  call[s.caller].at # "ready" /\ (call[s.caller].at = "waiting" => s.awaited)
        BY <2>2, <3>1, TaskFields DEF Jobs, EnqueueOK
      <4>2. t.work.op = "enqueue" => s.attempt # t.attempt
        BY <1>1, <2>2, <3>1, EnqueueTasks
      <4>3. job'[s.attempt] = job[s.attempt]
        BY <1>4, <4>1, <4>2
      <4>4. CASE t.awaited /\ s.caller = c
        BY <1>1, <1>2, <4>1, <4>3, <4>4
      <4>5. CASE ~(t.awaited /\ s.caller = c)
        BY <1>2, <4>1, <4>3, <4>5
      <4> QED BY <4>4, <4>5
    <3>2. CASE t.awaited /\ at # "ok" /\ s = Overdue(t) /\ s \notin tasks \ {t}
      <4>1. s.caller = c /\ s.attempt = t.attempt /\ s.work = t.work
        BY <1>1, <3>2, OverdueFields
      <4>2. job' = job
        BY <2>2, <3>2 DEF JobsAfter
      <4> QED BY <1>1, <1>2, <2>2, <3>2, <4>1, <4>2 DEF Jobs, EnqueueOK
    <3> QED BY <1>2, <3>1, <3>2
  <2> QED BY <2>1, <2>2 DEF EnqueueOK, JobIds
<1>9. OneClean'
  BY EndsOneClean
<1> QED BY <1>4, <1>5, <1>6, <1>7, <1>8, <1>9 DEF Jobs

-----------------------------------------------------------------------------
\* The bucket.

\* What BucketMatchesAnswers says of upload u.
UploadHolds(u) ==
    LET k == call[u].work.on IN
    /\ Deletes(k) = {} => object[k] = u \/ Signed(k)
    /\ \A d \in Deletes(k) :
          call[d].at = "ok" => object[k] = 0 \/ Signed(k) \/ (Late(k) /\ object[k] = u)

LEMMA BucketParts ==
    BucketMatchesAnswers <=>
        \A u \in Uploads : call[u].at = "ok" /\ ~SameMoment(u) => UploadHolds(u)
BY DEF BucketMatchesAnswers, UploadHolds

LEMMA BucketPartsNext ==
    ASSUME \A u \in Uploads' : call'[u].at = "ok" /\ ~SameMoment(u)' => UploadHolds(u)'
    PROVE  BucketMatchesAnswers'
BY DEF BucketMatchesAnswers, UploadHolds, Uploads, SameMoment, Deletes, Late, Signed, Signers

LEMMA UploadFacts ==
    ASSUME Works, NEW u \in Uploads
    PROVE  /\ u \in Caller /\ role[u] = "upload"
           /\ call[u].at = "ok" => /\ stamp[u] \in Stamps /\ call[u].work.on = stamp[u]
                                   /\ call[u].work.op = "upload"
<1>1. u \in Caller /\ role[u] = "upload" /\ call[u].at # "idle" /\ WorkOK(u)
  BY DEF Works, Uploads
<1> QED BY <1>1 DEF WorkOK, Work, Workers

\* A deletion that is on its way names the key of an upload that is done.
LEMMA DeleteFacts ==
    ASSUME Works, NEW k, NEW d \in Deletes(k)
    PROVE  /\ d \in Caller /\ role[d] = "delete" /\ call[d].work.op = "delete" /\ call[d].work.on = k
           /\ \E u \in Uploads : call[u].at = "ok" /\ stamp[u] = k
<1>1. d \in Caller /\ role[d] = "delete" /\ call[d].at # "idle" /\ call[d].work.on = k /\ WorkOK(d)
  BY DEF Works, Deletes
<1>2. /\ call[d].work.op = "delete"
      /\ \E u \in Caller : role[u] = "upload" /\ call[u].at = "ok" /\ stamp[u] = k
  BY <1>1 DEF WorkOK, Work, Workers
<1> QED BY <1>1, <1>2 DEF Uploads

LEMMA SteadySets ==
    ASSUME Steady
    PROVE  /\ Uploads' = Uploads /\ \A k : Deletes(k)' = Deletes(k)
           /\ \A u : SameMoment(u)' <=> SameMoment(u)
<1>1. Uploads' = Uploads /\ \A k : Deletes(k)' = Deletes(k)
  BY DEF Steady, Uploads, Deletes
<1> QED BY <1>1 DEF SameMoment, Steady

LEMMA LateGrows ==
    ASSUME blamed \subseteq blamed', NEW k, Late(k)
    PROVE  Late(k)'
BY DEF Late, Work

LEMMA SignedKept ==
    ASSUME NEW k, Signed(k), object'[k] = object[k], role' = role,
           \A c \in Caller : role[c] = "presign" /\ call[c].at = "ok" =>
               call'[c].at = "ok" /\ call'[c].work = call[c].work
    PROVE  Signed(k)'
BY DEF Signed, Signers

LEMMA SteadySigned ==
    ASSUME Steady, NEW k, Signed(k), object'[k] = object[k]
    PROVE  Signed(k)'
<1>1. \A c \in Caller : call[c].at = "ok" => call'[c].at = "ok" /\ call'[c].work = call[c].work
  BY DEF Steady
<1> QED BY <1>1, SignedKept DEF Steady

LEMMA SteadyBucket ==
    ASSUME Works, BucketMatchesAnswers, Steady, object' = object, blamed \subseteq blamed',
           \A c \in Caller : call'[c].at = "ok" /\ role[c] \in {"upload", "delete"} => call[c].at = "ok"
    PROVE  BucketMatchesAnswers'
<1> SUFFICES ASSUME NEW u \in Uploads', call'[u].at = "ok", ~SameMoment(u)' PROVE UploadHolds(u)'
  BY BucketPartsNext
<1>1. u \in Uploads /\ ~SameMoment(u)
  BY SteadySets
<1>2. u \in Caller /\ role[u] = "upload"
  BY <1>1 DEF Uploads
<1>3. call[u].at = "ok" /\ call'[u].work = call[u].work
  BY <1>2 DEF Steady
<1>4. PICK k : k = call[u].work.on
  OBVIOUS
<1>5. UploadHolds(u)
  BY <1>1, <1>3, BucketParts
<1>6. Deletes(k)' = {} => object'[k] = u \/ Signed(k)'
  BY <1>4, <1>5, SteadySets, SteadySigned DEF UploadHolds
<1>7. ASSUME NEW d \in Deletes(k)', call'[d].at = "ok"
      PROVE  object'[k] = 0 \/ Signed(k)' \/ (Late(k)' /\ object'[k] = u)
  <2>1. d \in Deletes(k)
    BY SteadySets
  <2>2. call[d].at = "ok"
    BY <1>7, <2>1, DeleteFacts
  <2> QED BY <1>4, <1>5, <2>1, <2>2, LateGrows, SteadySigned DEF UploadHolds
<1> QED BY <1>3, <1>4, <1>6, <1>7 DEF UploadHolds, Deletes, Late, Signed, Signers

LEMMA BeginBucket ==
    ASSUME Shape, Works, BucketMatchesAnswers, NEW c \in Caller, NEW x, call[c].at = "idle",
           call' = [call EXCEPT ![c] = x], role[c] \in {"upload", "delete"} => x.at # "ok", x.at # "idle",
           \A d \in Caller \ {c} : stamp'[d] = stamp[d], UNCHANGED <<object, blamed, role>>
    PROVE  BucketMatchesAnswers'
<1>1. call'[c] = x /\ \A d \in Caller \ {c} : call'[d] = call[d]
  BY DEF Shape
<1> SUFFICES ASSUME NEW u \in Uploads', call'[u].at = "ok", ~SameMoment(u)' PROVE UploadHolds(u)'
  BY BucketPartsNext
<1>2. u \in Caller \ {c} /\ role[u] = "upload" /\ call'[u] = call[u] /\ u \in Uploads /\ stamp'[u] = stamp[u]
  BY <1>1 DEF Uploads
<1>3. ~SameMoment(u)
  <2> SUFFICES ASSUME NEW v \in Uploads \ {u}, stamp[v] = stamp[u] PROVE FALSE
    BY DEF SameMoment
  <2>1. v \in Caller \ {c} /\ stamp'[v] = stamp[v] /\ v \in Uploads'
    BY <1>1 DEF Uploads
  <2> QED BY <1>2, <2>1 DEF SameMoment
<1>4. UploadHolds(u)
  BY <1>2, <1>3, BucketParts
<1>5. PICK k : k = call[u].work.on
  OBVIOUS
<1>6. Deletes(k)' = {} => object'[k] = u \/ Signed(k)'
  <2>1. Deletes(k) \subseteq Deletes(k)'
    BY <1>1 DEF Deletes
  <2>2. Signed(k) => Signed(k)'
    BY <1>1, SignedKept
  <2> QED BY <1>4, <1>5, <2>1, <2>2 DEF UploadHolds
<1>7. ASSUME NEW d \in Deletes(k)', call'[d].at = "ok"
      PROVE  object'[k] = 0 \/ Signed(k)' \/ (Late(k)' /\ object'[k] = u)
  <2>1. d \in Deletes(k) /\ call[d].at = "ok"
    BY <1>1, <1>7 DEF Deletes
  <2>2. Signed(k) => Signed(k)'
    BY <1>1, SignedKept
  <2> QED BY <1>4, <1>5, <2>1, <2>2, LateGrows DEF UploadHolds
<1> QED BY <1>2, <1>5, <1>6, <1>7 DEF UploadHolds, Deletes, Late, Signed, Signers

LEMMA LeaveBucket ==
    ASSUME Works, BucketMatchesAnswers, NEW c \in Caller, role[c] \in Workers,
           call'[c] = NoCall, \A d \in Caller \ {c} : call'[d] = call[d],
           UNCHANGED <<object, blamed, role, stamp>>
    PROVE  BucketMatchesAnswers'
<1>1. \A d \in Caller : role[d] \in {"upload", "delete", "presign"} => call'[d] = call[d]
  BY DEF Workers
<1>2. Uploads' = Uploads /\ \A k : Deletes(k)' = Deletes(k)
  BY <1>1 DEF Uploads, Deletes
<1> SUFFICES ASSUME NEW u \in Uploads', call'[u].at = "ok", ~SameMoment(u)' PROVE UploadHolds(u)'
  BY BucketPartsNext
<1>3. u \in Uploads /\ call'[u] = call[u] /\ ~SameMoment(u)
  BY <1>1, <1>2 DEF SameMoment, Uploads
<1>4. UploadHolds(u)
  BY <1>3, BucketParts
<1>5. PICK k : k = call[u].work.on
  OBVIOUS
<1>6. Deletes(k)' = {} => object'[k] = u \/ Signed(k)'
  <2>1. Signed(k) => Signed(k)'
    BY <1>1, SignedKept
  <2> QED BY <1>2, <1>4, <1>5, <2>1 DEF UploadHolds
<1>7. ASSUME NEW d \in Deletes(k)', call'[d].at = "ok"
      PROVE  object'[k] = 0 \/ Signed(k)' \/ (Late(k)' /\ object'[k] = u)
  <2>1. d \in Deletes(k) /\ call[d].at = "ok"
    BY <1>1, <1>2, <1>7 DEF Deletes
  <2>2. Signed(k) => Signed(k)'
    BY <1>1, SignedKept
  <2> QED BY <1>4, <1>5, <2>1, <2>2, LateGrows DEF UploadHolds
<1> QED BY <1>3, <1>5, <1>6, <1>7 DEF UploadHolds, Deletes, Late, Signed, Signers

\* What the end of task t does to the bucket.
BucketAfter(t, at) ==
    \/ object' = object /\ (at = "ok" => t.work.op \notin {"upload", "delete"})
    \/ t.work.op = "upload" /\ object' = [object EXCEPT ![t.work.on] = t.caller]
    \/ t.work.op = "delete" /\ object' = [object EXCEPT ![t.work.on] = 0]

LEMMA EndsBucket ==
    ASSUME Shape, Calls, Works, BucketMatchesAnswers, NEW t, NEW at, NEW b, Ends(t, at, b), Records(t, at),
           BucketAfter(t, at), UNCHANGED <<role, stamp>>
    PROVE  BucketMatchesAnswers' /\ object' \in [Stamps -> Caller \cup {0}]
<1> DEFINE c == t.caller
<1>1. /\ t \in tasks /\ c \in Caller /\ Steady /\ blamed \subseteq blamed' /\ TaskOK(t)
      /\ Attempt(t).work = t.work /\ at \in {"ok", "backoff", "error"} /\ t.work \in WorkSet
  BY EndsSteady, TaskFields, NewClean DEF Ends, Attempt, Works
<1>2. /\ \A d \in Caller : ~(t.awaited /\ d = c) => call'[d] = call[d]
      /\ t.awaited => /\ call'[c].at = at /\ call[c].at = "waiting" /\ t.work = call[c].work
  BY <1>1, EndsMoves, AwaitedCall
<1>3. object' \in [Stamps -> Caller \cup {0}]
  BY <1>1 DEF BucketAfter, Shape, TaskOK
<1>4. CASE object' = object /\ (at = "ok" => t.work.op \notin {"upload", "delete"})
  <2>1. ASSUME NEW d \in Caller, call'[d].at = "ok", role[d] \in {"upload", "delete"} PROVE call[d].at = "ok"
    <3>1. CASE t.awaited /\ d = c
      <4>1. at = "ok" /\ WorkOK(c)
        BY <1>1, <1>2, <2>1, <3>1 DEF Works
      <4>2. t.work.op \in {"upload", "delete"}
        BY <1>2, <2>1, <3>1, <4>1 DEF WorkOK, Work, Workers
      <4> QED BY <1>4, <4>1, <4>2
    <3>2. CASE ~(t.awaited /\ d = c)
      BY <1>2, <2>1, <3>2
    <3> QED BY <3>1, <3>2
  <2> QED BY <1>1, <1>3, <1>4, <2>1, SteadyBucket
<1>5. CASE t.work.op = "upload" /\ object' = [object EXCEPT ![t.work.on] = c]
  <2> SUFFICES ASSUME NEW u \in Uploads', call'[u].at = "ok", ~SameMoment(u)' PROVE UploadHolds(u)'
    BY <1>3, BucketPartsNext
  <2>1. u \in Uploads /\ ~SameMoment(u) /\ u \in Caller /\ role[u] = "upload" /\ call'[u].work = call[u].work
    BY <1>1, SteadySets DEF Uploads, Steady
  <2>2. /\ role[c] = "upload" /\ stamp[c] = t.work.on /\ stamp[c] \in Stamps /\ call[c].at # "idle"
        /\ c \in Uploads
    <3>1. role[c] = "upload" /\ stamp[c] = t.work.on /\ stamp[c] \in Stamps
      BY <1>1, <1>5 DEF TaskOK
    <3>2. stamp[c] # 0 /\ WorkOK(c)
      BY <1>1, <3>1, StorageAssumption DEF StorageAssumption, Works
    <3>3. call[c].at # "idle"
      <4> SUFFICES ASSUME call[c].at = "idle" PROVE FALSE
        OBVIOUS
      <4>1. call[c] = NoCall
        BY <1>1 DEF Calls, CallOK
      <4>2. \A k : call[c].work # Work("upload", k, 0)
        BY <4>1, NoCallFields DEF Work
      <4> QED BY <3>1, <3>2, <4>2 DEF WorkOK, Workers
    <3> QED BY <1>1, <3>1, <3>3 DEF Uploads
  <2>3. PICK k : k = call[u].work.on
    OBVIOUS
  <2>4. k = stamp[u] /\ k \in Stamps
    <3>1. WorkOK(u) /\ call[u].at \notin {"idle", "error"}
      BY <1>1, <1>2, <2>1 DEF Works, Steady, Uploads
    <3> QED BY <2>1, <2>3, <3>1 DEF WorkOK, Work, Workers
  <2>5. k = t.work.on => u = c
    BY <2>1, <2>2, <2>4 DEF SameMoment
  <2>6. \A d \in Deletes(k) : call'[d] = call[d]
    BY <1>1, <1>2, <2>2, DeleteFacts
  <2>7. CASE call[u].at = "ok"
    <3>1. UploadHolds(u)
      BY <2>1, <2>7, BucketParts
    <3>2. object'[k] = object[k] \/ (u = c /\ object'[k] = u /\ Late(k)')
      <4>1. CASE k # t.work.on
        BY <1>5, <2>4, <4>1 DEF Shape
      <4>2. CASE k = t.work.on
        <5>1. u = c /\ object'[k] = u
          BY <1>5, <2>4, <2>5, <4>2 DEF Shape
        <5>2. ~t.awaited
          BY <1>2, <2>7, <5>1
        <5>3. Attempt(t) \in blamed'
          BY <1>1, <5>2 DEF TaskOK
        <5>4. t.work = Work("upload", k, 0)
          <6>1. t.work.run = 0
            BY <1>1, <1>5 DEF TaskOK, Plain
          <6> QED BY <1>1, <1>5, <4>2, <6>1 DEF WorkSet, Work
        <5> QED BY <1>1, <5>1, <5>3, <5>4 DEF Late, Work
      <4> QED BY <4>1, <4>2
    <3>3. Deletes(k)' = {} => object'[k] = u \/ Signed(k)'
      BY <1>1, <2>3, <3>1, <3>2, SteadySets, SteadySigned DEF UploadHolds
    <3>4. ASSUME NEW d \in Deletes(k)', call'[d].at = "ok"
          PROVE  object'[k] = 0 \/ Signed(k)' \/ (Late(k)' /\ object'[k] = u)
      <4>1. d \in Deletes(k) /\ call[d].at = "ok"
        BY <1>1, <2>6, <3>4, SteadySets
      <4> QED BY <1>1, <2>3, <3>1, <3>2, <4>1, LateGrows, SteadySigned DEF UploadHolds
    <3> QED BY <2>1, <2>3, <3>3, <3>4 DEF UploadHolds, Deletes, Late, Signed, Signers
  <2>8. CASE call[u].at # "ok"
    <3>1. t.awaited /\ u = c
      BY <1>2, <2>1, <2>8
    <3>2. k = t.work.on
      BY <1>2, <2>3, <3>1
    <3>3. object'[k] = u
      BY <1>5, <2>4, <3>1, <3>2 DEF Shape
    <3>4. Deletes(k) = {}
      <4> SUFFICES ASSUME NEW d \in Deletes(k) PROVE FALSE
        OBVIOUS
      <4>1. PICK v \in Uploads : call[v].at = "ok" /\ stamp[v] = k
        BY DeleteFacts
      <4> QED BY <2>1, <2>4, <2>8, <4>1 DEF SameMoment
    <3>5. Deletes(k)' = {}
      BY <1>1, <3>4, SteadySets
    <3> QED BY <2>1, <2>3, <3>3, <3>5 DEF UploadHolds, Deletes, Late, Signed, Signers
  <2> QED BY <2>7, <2>8
<1>6. CASE t.work.op = "delete" /\ object' = [object EXCEPT ![t.work.on] = 0]
  <2> SUFFICES ASSUME NEW u \in Uploads', call'[u].at = "ok", ~SameMoment(u)' PROVE UploadHolds(u)'
    BY <1>3, BucketPartsNext
  <2>1. u \in Uploads /\ ~SameMoment(u) /\ u \in Caller /\ role[u] = "upload" /\ call'[u].work = call[u].work
    BY <1>1, SteadySets DEF Uploads, Steady
  <2>2. role[c] = "delete" /\ c \in Deletes(t.work.on) /\ t.work.on \in Stamps
    BY <1>1, <1>6 DEF TaskOK, Deletes
  <2>3. call'[u] = call[u] /\ UploadHolds(u)
    BY <1>2, <2>1, <2>2, BucketParts
  <2>4. PICK k : k = call[u].work.on
    OBVIOUS
  <2>5. CASE k = t.work.on
    <3>1. object'[k] = 0 /\ Deletes(k)' # {}
      BY <1>1, <1>6, <2>2, <2>5, SteadySets DEF Shape
    <3> QED BY <2>1, <2>4, <3>1 DEF UploadHolds, Deletes, Late, Signed, Signers
  <2>6. CASE k # t.work.on
    <3>1. object'[k] = object[k]
      <4>1. k \in Stamps
        BY <2>1, <2>3, <2>4, UploadFacts
      <4> QED BY <1>6, <2>6, <4>1 DEF Shape
    <3>2. Deletes(k)' = {} => object'[k] = u \/ Signed(k)'
      BY <1>1, <2>3, <2>4, <3>1, SteadySets, SteadySigned DEF UploadHolds
    <3>3. ASSUME NEW d \in Deletes(k)', call'[d].at = "ok"
          PROVE  object'[k] = 0 \/ Signed(k)' \/ (Late(k)' /\ object'[k] = u)
      <4>1. d \in Deletes(k) /\ d \in Caller /\ call[d].work.on = k
        BY <1>1, SteadySets DEF Deletes
      <4>2. ~(t.awaited /\ d = c)
        BY <1>2, <2>6, <4>1
      <4>3. call[d].at = "ok"
        BY <1>2, <3>3, <4>1, <4>2
      <4> QED BY <1>1, <2>3, <2>4, <3>1, <4>1, <4>3, LateGrows, SteadySigned DEF UploadHolds
    <3> QED BY <2>1, <2>4, <3>2, <3>3 DEF UploadHolds, Deletes, Late, Signed, Signers
  <2> QED BY <2>5, <2>6
<1> QED BY <1>3, <1>4, <1>5, <1>6 DEF BucketAfter

-----------------------------------------------------------------------------
\* The steps.

\* A step that moves no call, task or job.
LEMMA KeptRest ==
    ASSUME Shape, Works, Jobs, Calls', breaker' \in [Dependency -> Breaker], faults' \in 0..MaxFaults,
           client' \in {"none", "loading", "ready", "rejected"},
           object' \in [Stamps -> Caller \cup {0}],
           UNCHANGED <<call, tasks, role, stamp, job, expired, landed, blamed>>
    PROVE  Shape' /\ Works' /\ Jobs' /\ Steady /\ blamed \subseteq blamed'
<1>1. Shape'
  BY DEF Shape, Breaker, CallSet, TaskSet, WorkSet, AttemptSet, Places, JobIds
<1>2. Steady /\ Clean' \subseteq Clean /\ blamed \subseteq blamed' /\ landed \subseteq landed'
  BY DEF Steady, Clean
<1>3. Works'
  <2>1. \A c \in Caller : TriedOK(c)'
    <3> SUFFICES ASSUME NEW c \in Caller PROVE TriedOK(c)'
      OBVIOUS
    <3>1. call'[c] = call[c]
      OBVIOUS
    <3> QED BY <1>2, <3>1, TriedKept
  <2>2. (\A t \in tasks' : t \in tasks) /\ (\A a \in landed' : a \in landed)
    OBVIOUS
  <2> QED BY <1>2, <2>1, <2>2, SteadyWorks
<1>4. Jobs'
  <2>1. ASSUME NEW j \in JobIds PROVE JobOK(j)'
    <3>1. job'[j] = job[j] /\ \A c \in Caller : call'[c] = call[c]
      OBVIOUS
    <3> QED BY <3>1, OthersJob
  <2>2. EnqueueOK'
    BY DEF Jobs, EnqueueOK, JobIds
  <2>3. OneClean'
    BY <1>2, OneCleanKept
  <2> QED BY <2>1, <2>2, <2>3 DEF Jobs
<1> QED BY <1>1, <1>2, <1>3, <1>4

LEMMA QuietStep ==
    ASSUME IInv, Calls', breaker' \in [Dependency -> Breaker], faults' \in 0..MaxFaults,
           client' \in {"none", "loading", "ready", "rejected"},
           UNCHANGED <<call, tasks, role, object, stamp, job, expired, landed, blamed>>
    PROVE  IInv'
<1>1. Shape /\ Calls /\ Works /\ Jobs /\ BucketMatchesAnswers /\ object' \in [Stamps -> Caller \cup {0}]
  BY DEF IInv, Shape
<1>2. Shape' /\ Works' /\ Jobs' /\ Steady /\ blamed \subseteq blamed'
  BY <1>1, KeptRest
<1>3. BucketMatchesAnswers'
  BY <1>1, <1>2, SteadyBucket
<1> QED BY <1>2, <1>3 DEF IInv

LEMMA BeginStep ==
    ASSUME IInv, NEW c \in Caller, NEW x, Begins(x), call[c].at = "idle",
           call' = [call EXCEPT ![c] = x], role[c] \notin Workers,
           stamp' \in [Caller -> Stamps \cup {0}], \A d \in Caller \ {c} : stamp'[d] = stamp[d],
           UNCHANGED <<breaker, tasks, faults, role, object, client, job, expired, landed, blamed>>,
           Plain(x.work), WorkOK(c)', role[c] \in {"upload", "delete"} => x.at # "ok"
    PROVE  IInv'
<1>1. Shape /\ Calls /\ Works /\ Jobs /\ BucketMatchesAnswers
  BY DEF IInv
<1>2. Calls' /\ call' \in [Caller -> CallSet]
  BY <1>1, BeginCalls
<1>3. Works'
  BY <1>1, BeginWorks
<1>4. Jobs'
  BY <1>1, BeginJobs
<1>5. x.at # "idle"
  BY DEF Begins
<1>6. BucketMatchesAnswers'
  BY <1>1, <1>5, BeginBucket
<1>7. Shape'
  BY <1>1, <1>2 DEF Shape, Breaker, CallSet, TaskSet, WorkSet, AttemptSet, Places, JobIds
<1> QED BY <1>2, <1>3, <1>4, <1>6, <1>7 DEF IInv

LEMMA TakeStep ==
    ASSUME IInv, NEW c \in Caller, NEW x, Begins(x), x.at # "ok", call[c].at = "idle",
           call' = [call EXCEPT ![c] = x], role[c] \in Workers, NEW j \in JobIds, x.work.on = j,
           x.work.op = (IF role[c] = "push" THEN "push" ELSE "pin"), Take(c, j)
    PROVE  IInv'
<1>1. Shape /\ Calls /\ Works /\ Jobs /\ BucketMatchesAnswers
  BY DEF IInv
<1>2. /\ job[j].state = "waiting"
      /\ job' = [job EXCEPT ![j] = [state |-> "active", left |-> @.left - 1]]
      /\ UNCHANGED <<breaker, tasks, faults, role, object, stamp, client, expired, landed, blamed>>
  BY DEF Take
<1>3. Calls' /\ call' \in [Caller -> CallSet]
  BY <1>1, <1>2, BeginCalls
<1>4. Works'
  <2>1. Plain(x.work)
    BY DEF Plain
  <2>2. call'[c] = x
    BY <1>1 DEF Shape
  <2>3. WorkOK(c)'
    BY <1>2, <2>2 DEF WorkOK, Workers, JobIds
  <2>4. \A d \in Caller \ {c} : stamp'[d] = stamp[d]
    BY <1>2
  <2> QED BY <1>1, <1>2, <2>1, <2>3, <2>4, BeginWorks
<1>5. /\ Jobs'
      /\ job' \in [JobIds -> [state: {"none", "waiting", "active", "completed", "failed"}, left: 0..MaxRuns]]
  BY <1>1, <1>2, TakeJobs
<1>6. BucketMatchesAnswers'
  <2>1. x.at # "idle" /\ role[c] \notin {"upload", "delete"} /\ \A d \in Caller \ {c} : stamp'[d] = stamp[d]
    BY <1>2 DEF Begins, Workers
  <2> QED BY <1>1, <1>2, <2>1, BeginBucket
<1>7. Shape'
  BY <1>1, <1>2, <1>3, <1>5 DEF Shape, Breaker, CallSet, TaskSet, WorkSet, AttemptSet, Places, JobIds
<1> QED BY <1>3, <1>4, <1>5, <1>6, <1>7 DEF IInv

LEMMA EndJobStep ==
    ASSUME IInv, NEW c \in Caller, EndJob(c)
    PROVE  IInv'
<1>1. Shape /\ Calls /\ Works /\ Jobs /\ BucketMatchesAnswers
  BY DEF IInv
<1>2. /\ role[c] \in Workers /\ call[c].at \in {"ok", "error"} /\ call' = [call EXCEPT ![c] = NoCall]
      /\ UNCHANGED <<breaker, tasks, faults, role, object, stamp, client, expired, landed, blamed>>
  BY DEF EndJob
<1>3. /\ Calls' /\ call' \in [Caller -> CallSet]
      /\ call'[c] = NoCall /\ \A d \in Caller \ {c} : call'[d] = call[d]
  BY <1>1, <1>2, LeaveCalls
<1>4. Works'
  BY <1>1, <1>2, <1>3, LeaveWorks
<1>5. /\ Jobs'
      /\ job' \in [JobIds -> [state: {"none", "waiting", "active", "completed", "failed"}, left: 0..MaxRuns]]
  BY <1>1, EndJobJobs
<1>6. BucketMatchesAnswers'
  BY <1>1, <1>2, <1>3, LeaveBucket
<1>7. Shape'
  BY <1>1, <1>2, <1>3, <1>5 DEF Shape, Breaker, CallSet, TaskSet, WorkSet, AttemptSet, Places, JobIds
<1> QED BY <1>3, <1>4, <1>5, <1>6, <1>7 DEF IInv

LEMMA FireStep ==
    ASSUME IInv, NEW c \in Caller, Fire(c), UNCHANGED <<storageVars, landed, blamed>>
    PROVE  IInv'
<1>1. Shape /\ Calls /\ Works /\ Jobs /\ BucketMatchesAnswers
  BY DEF IInv
<1>2. UNCHANGED <<role, object, stamp, client, job, expired, landed, blamed, faults>>
  BY DEF storageVars, Fire
<1>3. Calls' /\ breaker' \in [Dependency -> Breaker] /\ call' \in [Caller -> CallSet] /\ tasks' \subseteq TaskSet
  BY <1>1, FireCalls
<1>4. Works' /\ Jobs'
  BY <1>1, <1>2, FireWorks, FireJobs
<1>5. BucketMatchesAnswers'
  <2>1. Steady /\ \A d \in Caller : call'[d].at = "ok" => call[d].at = "ok"
    BY <1>1, <1>2, FireSteady
  <2> QED BY <1>1, <1>2, <2>1, SteadyBucket
<1>6. Shape'
  BY <1>1, <1>2, <1>3 DEF Shape, Breaker, CallSet, TaskSet, WorkSet, AttemptSet, Places, JobIds
<1> QED BY <1>3, <1>4, <1>5, <1>6 DEF IInv

LEMMA WakeStep ==
    ASSUME IInv, NEW c \in Caller, Wake(c), UNCHANGED <<storageVars, landed, blamed>>
    PROVE  IInv'
<1>1. Shape /\ Calls /\ Works /\ Jobs /\ BucketMatchesAnswers
  BY DEF IInv
<1>2. UNCHANGED <<role, object, stamp, client, job, expired, landed, blamed, faults, breaker, tasks>>
  BY DEF storageVars, Wake
<1>3. Calls' /\ call' \in [Caller -> CallSet]
  BY <1>1, WakeCalls
<1>4. Works' /\ Jobs'
  BY <1>1, <1>2, WakeWorks, WakeJobs
<1>5. BucketMatchesAnswers'
  <2>1. Steady /\ \A d \in Caller : call'[d].at = "ok" => call[d].at = "ok"
    BY <1>1, <1>2, WakeSteady
  <2> QED BY <1>1, <1>2, <2>1, SteadyBucket
<1>6. Shape'
  BY <1>1, <1>2, <1>3 DEF Shape, Breaker, CallSet, TaskSet, WorkSet, AttemptSet, Places, JobIds
<1> QED BY <1>3, <1>4, <1>5, <1>6 DEF IInv

LEMMA EndsStep ==
    ASSUME IInv, NEW t, NEW at, NEW b, Ends(t, at, b), Records(t, at), JobsAfter(t), BucketAfter(t, at),
           faults' \in 0..MaxFaults, UNCHANGED <<role, stamp, client>>
    PROVE  IInv'
<1>1. Shape /\ Calls /\ Works /\ Jobs /\ BucketMatchesAnswers
  BY DEF IInv
<1>2. Calls' /\ Works'
  BY <1>1, EndsCalls, EndsWorks
<1>3. /\ Jobs'
      /\ job' \in [JobIds -> [state: {"none", "waiting", "active", "completed", "failed"}, left: 0..MaxRuns]]
  BY <1>1, EndsJobs
<1>4. BucketMatchesAnswers' /\ object' \in [Stamps -> Caller \cup {0}]
  BY <1>1, EndsBucket
<1>5. call' \in [Caller -> CallSet] /\ tasks' \subseteq TaskSet /\ breaker' \in [Dependency -> Breaker]
  BY <1>1, EndsMoves
<1>6. /\ landed' \subseteq AttemptSet /\ blamed' \subseteq AttemptSet
      /\ IsFiniteSet(landed') /\ IsFiniteSet(blamed')
  <2>1. Attempt(t) \in AttemptSet
    BY <1>1, TaskFields DEF Ends
  <2>2. IsFiniteSet(landed \cup {Attempt(t)}) /\ IsFiniteSet(blamed \cup {Attempt(t)})
    BY <1>1, FS_AddElement DEF Shape
  <2> QED BY <1>1, <2>1, <2>2 DEF Records, Shape
<1>7. Shape'
  BY <1>1, <1>3, <1>4, <1>5, <1>6 DEF Shape, Breaker, CallSet, TaskSet, WorkSet, AttemptSet, Places, JobIds
<1> QED BY <1>2, <1>3, <1>4, <1>7 DEF IInv

\* A call as withResilience begins it, and one that finds no IPFS client.
Fresh(op, on, run) == Entered(Deps[op], Attempts[Deps[op]], Work(op, on, run))
Refused(op, on, run) ==
    [Entered("ipfs", 1, Work(op, on, run)) EXCEPT !.at = IF op = "verify" THEN "ok" ELSE "error"]

LEMMA FreshBegins ==
    ASSUME NEW op \in {"upload", "delete", "presign", "enqueue", "pin", "verify", "push"},
           NEW on \in Nat, NEW run \in Nat
    PROVE  /\ Begins(Fresh(op, on, run)) /\ Fresh(op, on, run).at = "ready"
           /\ Fresh(op, on, run).work = Work(op, on, run)
<1> DEFINE d == Deps[op]
           n == Attempts[d]
           w == Work(op, on, run)
<1>1. w \in WorkSet /\ w.op = op
  BY DEF Work, WorkSet
<1>2. d \in {"s3", "ipfs", "queue", "webPush"} /\ (op = "enqueue" => d = "queue")
  BY DEF Deps
<1>3. n \in {2, 3} /\ (d = "queue" => n = 2)
  BY <1>2 DEF Attempts
<1>4. d \in Dependency
  BY <1>2, StorageAssumption DEF StorageAssumption
<1>5. Fresh(op, on, run) = Entered(d, n, w)
  BY DEF Fresh
<1> HIDE DEF d, n, w
<1>6. Entered(d, n, w) \in CallSet
  BY <1>1, <1>3, <1>4 DEF Entered, CallSet, Places
<1>7. /\ Entered(d, n, w).at = "ready" /\ Entered(d, n, w).work = w /\ Entered(d, n, w).dep = d
      /\ Entered(d, n, w).attempt = 1 /\ Entered(d, n, w).attempts = n
  BY DEF Entered
<1>8. Begins(Entered(d, n, w))
  BY <1>1, <1>2, <1>3, <1>4, <1>6, <1>7 DEF Begins
<1> QED BY <1>5, <1>7, <1>8 DEF w

LEMMA RefusedBegins ==
    ASSUME NEW op \in {"pin", "verify"}, NEW on \in Nat, NEW run \in Nat
    PROVE  /\ Begins(Refused(op, on, run)) /\ Refused(op, on, run).work = Work(op, on, run)
           /\ Refused(op, on, run).at = IF op = "verify" THEN "ok" ELSE "error"
<1> DEFINE w == Work(op, on, run)
           at == IF op = "verify" THEN "ok" ELSE "error"
           y == Entered("ipfs", 1, w)
<1>1. w \in WorkSet /\ w.op = op /\ at \in Places /\ at \in {"ok", "error"}
  BY DEF Work, WorkSet, Places
<1>2. "ipfs" \in Dependency
  BY StorageAssumption DEF StorageAssumption
<1>3. Refused(op, on, run) = Placed(y, at)
  BY DEF Refused, Placed
<1> HIDE DEF w, at
<1>4. y \in CallSet
  BY <1>1, <1>2 DEF Entered, CallSet, Places
<1>5. y.work = w /\ y.attempt = 1 /\ y.attempts = 1
  BY DEF Entered
<1> HIDE DEF y
<1>6. /\ Placed(y, at) \in CallSet /\ Placed(y, at).at = at /\ Placed(y, at).work = w
      /\ Placed(y, at).attempt = 1 /\ Placed(y, at).attempts = 1
  BY <1>1, <1>4, <1>5, PlacedFields
<1>7. Begins(Placed(y, at))
  BY <1>1, <1>6 DEF Begins
<1> QED BY <1>3, <1>6, <1>7 DEF w, at

\* An operation that is not about a key.
LEMMA RequestStep ==
    ASSUME IInv, NEW c \in Caller, NEW op \in {"enqueue", "verify", "pin"}, Idle(c, op),
           NEW x, x \in {Fresh(op, 0, 0), Refused(op, 0, 0)},
           x = Refused(op, 0, 0) => op \in {"verify", "pin"}, call' = [call EXCEPT ![c] = x],
           UNCHANGED <<breaker, tasks, faults, storageVars, landed, blamed>>
    PROVE  IInv'
<1>1. role[c] = op /\ call[c].at = "idle" /\ role[c] \notin Workers /\ role[c] \notin {"upload", "delete"}
  BY DEF Idle, Workers
<1>2. UNCHANGED <<breaker, tasks, faults, role, object, client, job, expired, landed, blamed>> /\ stamp' = stamp
  BY DEF storageVars
<1>3. Begins(x) /\ x.work = Work(op, 0, 0)
  <2>1. CASE x = Fresh(op, 0, 0)
    BY <2>1, FreshBegins
  <2>2. CASE x = Refused(op, 0, 0)
    BY <2>2, RefusedBegins
  <2> QED BY <2>1, <2>2
<1>4. Plain(x.work)
  BY <1>3 DEF Plain, Work
<1>5. call'[c] = x
  BY DEF IInv, Shape
<1>6. WorkOK(c)'
  <2>1. role'[c] \in {"enqueue", "verify", "pin"} /\ call'[c].work = Work(role'[c], 0, 0)
    BY <1>1, <1>2, <1>3, <1>5
  <2> QED BY <2>1 DEF WorkOK, Work
<1>7. stamp' \in [Caller -> Stamps \cup {0}] /\ \A d \in Caller \ {c} : stamp'[d] = stamp[d]
  BY <1>2 DEF IInv, Shape
<1> QED BY <1>1, <1>2, <1>3, <1>4, <1>6, <1>7, BeginStep

LEMMA UploadStep ==
    ASSUME IInv, NEW c \in Caller, NEW t \in Stamps, UploadFile(c, t)
    PROVE  IInv'
<1>1. /\ role[c] = "upload" /\ call[c].at = "idle" /\ role[c] \notin Workers
      /\ call' = [call EXCEPT ![c] = Fresh("upload", t, 0)] /\ stamp' = [stamp EXCEPT ![c] = t]
      /\ UNCHANGED <<breaker, tasks, faults, role, object, client, job, expired, landed, blamed>>
  BY DEF UploadFile, Idle, Workers, Begin, Fresh, UploadKey
<1> DEFINE x == Fresh("upload", t, 0)
<1>2. Begins(x) /\ x.at = "ready" /\ x.work = Work("upload", t, 0)
  <2>1. t \in Nat
    BY StorageAssumption DEF StorageAssumption
  <2> QED BY <2>1, FreshBegins
<1> HIDE DEF x
<1>3. Plain(x.work)
  BY <1>2 DEF Plain, Work
<1>4. call' = [call EXCEPT ![c] = x]
  BY <1>1 DEF x
<1>5. call'[c] = x
  BY <1>4 DEF IInv, Shape
<1>6. /\ stamp' \in [Caller -> Stamps \cup {0}] /\ \A d \in Caller \ {c} : stamp'[d] = stamp[d]
      /\ stamp'[c] = t
  BY <1>1 DEF IInv, Shape
<1>7. WorkOK(c)'
  <2>1. role'[c] = "upload" /\ stamp'[c] \in Stamps /\ call'[c].work = Work("upload", stamp'[c], 0)
    BY <1>1, <1>2, <1>5, <1>6
  <2> QED BY <2>1 DEF WorkOK, Work
<1> QED BY <1>1, <1>2, <1>3, <1>4, <1>6, <1>7, BeginStep

LEMMA RefuseStep ==
    ASSUME IInv, NEW c \in Caller, RefuseUpload(c)
    PROVE  IInv'
<1>1. /\ role[c] = "upload" /\ call[c].at = "idle" /\ role[c] \notin Workers
      /\ UNCHANGED <<breaker, tasks, faults, role, object, stamp, client, job, expired, landed, blamed>>
  BY DEF RefuseUpload, Idle, Workers, storageVars
<1>2. call[c] = NoCall
  BY <1>1 DEF IInv, Calls, CallOK
<1> DEFINE x == Placed(NoCall, "error")
<1>3. call' = [call EXCEPT ![c] = x]
  BY <1>2 DEF RefuseUpload, Answer, Placed, IInv, Shape
<1>4. NoCall.attempts = 1 /\ "error" \in Places
  BY DEF NoCall, Places
<1>5. /\ x \in CallSet /\ x.at = "error" /\ x.work = NoWork /\ x.attempt = 0 /\ x.attempts = 1
  BY <1>4, NoCallFields, PlacedFields
<1> HIDE DEF x
<1>6. Begins(x) /\ Plain(x.work)
  BY <1>5, NoCallFields DEF Begins, Plain
<1>7. call'[c] = x
  BY <1>3 DEF IInv, Shape
<1>8. stamp[c] = 0
  <2>1. WorkOK(c) /\ call[c].work = NoWork
    BY <1>2, NoCallFields DEF IInv, Works
  <2> QED BY <1>1, <2>1, NoCallFields DEF WorkOK, Work, Workers
<1>9. WorkOK(c)'
  <2>1. role'[c] = "upload" /\ stamp'[c] = 0 /\ call'[c].at = "error" /\ call'[c].work = NoWork
    BY <1>1, <1>5, <1>7, <1>8
  <2> QED BY <2>1 DEF WorkOK, NoWork, Work
<1>10. stamp' \in [Caller -> Stamps \cup {0}] /\ \A d \in Caller \ {c} : stamp'[d] = stamp[d]
  BY <1>1 DEF IInv, Shape
<1> QED BY <1>1, <1>3, <1>5, <1>6, <1>9, <1>10, BeginStep

LEMMA DeleteStep ==
    ASSUME IInv, NEW c \in Caller, NEW u \in Caller, DeleteObject(c, u)
    PROVE  IInv'
<1>1. /\ role[c] = "delete" /\ call[c].at = "idle" /\ role[c] \notin Workers
      /\ role[u] = "upload" /\ call[u].at = "ok"
      /\ call' = [call EXCEPT ![c] = Fresh("delete", call[u].work.on, 0)]
      /\ UNCHANGED <<breaker, tasks, faults, role, object, stamp, client, job, expired, landed, blamed>>
  BY DEF DeleteObject, Idle, Workers, Begin, Fresh, storageVars
<1>2. PICK k : k = call[u].work.on
  OBVIOUS
<1>3. k \in Stamps /\ stamp[u] = k /\ k \in Nat
  <2>1. u \in Uploads /\ Works
    BY <1>1 DEF Uploads, IInv
  <2> QED BY <1>1, <1>2, <2>1, UploadFacts, StorageAssumption DEF StorageAssumption
<1> DEFINE x == Fresh("delete", k, 0)
<1>4. Begins(x) /\ x.at = "ready" /\ x.work = Work("delete", k, 0)
  BY <1>3, FreshBegins
<1>5. call' = [call EXCEPT ![c] = x]
  BY <1>1, <1>2
<1> HIDE DEF x
<1>6. Plain(x.work)
  BY <1>4 DEF Plain, Work
<1>7. call'[c] = x /\ call'[u] = call[u]
  BY <1>1, <1>5 DEF IInv, Shape
<1>8. WorkOK(c)'
  <2>1. /\ role'[c] = "delete" /\ call'[c].work = Work("delete", k, 0)
        /\ role'[u] = "upload" /\ call'[u].at = "ok" /\ stamp'[u] = k
    BY <1>1, <1>3, <1>4, <1>7
  <2> QED BY <1>3, <2>1 DEF WorkOK, Work
<1>9. stamp' \in [Caller -> Stamps \cup {0}] /\ \A d \in Caller \ {c} : stamp'[d] = stamp[d]
  BY <1>1 DEF IInv, Shape
<1> QED BY <1>1, <1>4, <1>5, <1>6, <1>8, <1>9, BeginStep

LEMMA PresignStep ==
    ASSUME IInv, NEW c \in Caller, NEW k \in Stamps, GetPresignedUrl(c, k)
    PROVE  IInv'
<1>1. /\ role[c] = "presign" /\ call[c].at = "idle" /\ role[c] \notin Workers
      /\ call' = [call EXCEPT ![c] = Fresh("presign", k, 0)]
      /\ UNCHANGED <<breaker, tasks, faults, role, object, stamp, client, job, expired, landed, blamed>>
  BY DEF GetPresignedUrl, Idle, Workers, Begin, Fresh, storageVars
<1> DEFINE x == Fresh("presign", k, 0)
<1>2. Begins(x) /\ x.at = "ready" /\ x.work = Work("presign", k, 0)
  <2>1. k \in Nat
    BY StorageAssumption DEF StorageAssumption
  <2> QED BY <2>1, FreshBegins
<1>3. call' = [call EXCEPT ![c] = x]
  BY <1>1
<1> HIDE DEF x
<1>4. Plain(x.work)
  BY <1>2 DEF Plain, Work
<1>5. call'[c] = x
  BY <1>3 DEF IInv, Shape
<1>6. WorkOK(c)'
  <2>1. role'[c] = "presign" /\ call'[c].work = Work("presign", k, 0)
    BY <1>1, <1>2, <1>5
  <2> QED BY <2>1 DEF WorkOK, Work
<1>7. stamp' \in [Caller -> Stamps \cup {0}] /\ \A d \in Caller \ {c} : stamp'[d] = stamp[d]
  BY <1>1 DEF IInv, Shape
<1> QED BY <1>1, <1>2, <1>3, <1>4, <1>6, <1>7, BeginStep

\* A PUT with a presigned URL writes the key it is for, and nothing else changes.
LEMMA PutStep ==
    ASSUME IInv, NEW c \in Caller, PutPresigned(c)
    PROVE  IInv'
<1>1. /\ role[c] = "presign" /\ call[c].at = "ok"
      /\ UNCHANGED <<breaker, call, tasks, faults, role, stamp, client, job, expired, landed, blamed>>
  BY DEF PutPresigned, resilienceVars
<1>2. Shape /\ Calls /\ Works /\ Jobs /\ BucketMatchesAnswers
  BY DEF IInv
<1>3. PICK k \in Stamps : k = call[c].work.on
  <2>1. WorkOK(c)
    BY <1>2 DEF Works
  <2> QED BY <1>1, <2>1 DEF WorkOK, Workers
<1>4. /\ object' \in [Stamps -> Caller \cup {0}] /\ object'[k] = c
      /\ \A i \in Stamps \ {k} : object'[i] = object[i]
  BY <1>2, <1>3 DEF PutPresigned, Shape
<1>5. Steady
  BY <1>1 DEF Steady
<1>6. BucketMatchesAnswers'
  <2> SUFFICES ASSUME NEW u \in Uploads', call'[u].at = "ok", ~SameMoment(u)' PROVE UploadHolds(u)'
    BY BucketPartsNext
  <2>1. u \in Uploads /\ ~SameMoment(u) /\ call[u].at = "ok" /\ call'[u] = call[u]
    BY <1>1, <1>5, SteadySets
  <2>2. UploadHolds(u)
    BY <1>2, <2>1, BucketParts
  <2>3. PICK i \in Stamps : i = call[u].work.on
    BY <1>2, <2>1, UploadFacts
  <2>4. CASE i = k
    <3>1. Signed(i)'
      BY <1>1, <1>3, <1>4, <2>4 DEF Signed, Signers
    <3> QED BY <2>1, <2>3, <3>1 DEF UploadHolds, Deletes, Late, Signed, Signers
  <2>5. CASE i # k
    <3>1. object'[i] = object[i] /\ Deletes(i)' = Deletes(i) /\ (Late(i) => Late(i)')
      BY <1>1, <1>4, <1>5, <2>5, SteadySets, LateGrows
    <3>2. Signed(i) => Signed(i)'
      BY <1>5, <3>1, SteadySigned
    <3>3. Deletes(i)' = {} => object'[i] = u \/ Signed(i)'
      BY <2>2, <2>3, <3>1, <3>2 DEF UploadHolds
    <3>4. ASSUME NEW d \in Deletes(i)', call'[d].at = "ok"
          PROVE  object'[i] = 0 \/ Signed(i)' \/ (Late(i)' /\ object'[i] = u)
      BY <1>1, <2>2, <2>3, <3>1, <3>2, <3>4 DEF UploadHolds
    <3> QED BY <2>1, <2>3, <3>3, <3>4 DEF UploadHolds, Deletes, Late, Signed, Signers
  <2> QED BY <2>4, <2>5
<1>7. Shape' /\ Calls' /\ Works' /\ Jobs'
  <2>1. /\ Calls' /\ breaker' \in [Dependency -> Breaker] /\ faults' \in 0..MaxFaults
        /\ client' \in {"none", "loading", "ready", "rejected"}
    BY <1>1, <1>2, SameCalls DEF Shape
  <2> QED BY <1>1, <1>2, <1>4, <2>1, KeptRest
<1> QED BY <1>6, <1>7 DEF IInv

LEMMA CallerSteps ==
    ASSUME IInv, NEW c \in Caller, Request(c)
    PROVE  IInv'
<1>1. CASE \E t \in Stamps : UploadFile(c, t)
  BY <1>1, UploadStep
<1>2. CASE RefuseUpload(c)
  BY <1>2, RefuseStep
<1>3. CASE \E u \in Caller : DeleteObject(c, u)
  BY <1>3, DeleteStep
<1>4. CASE \E k \in Stamps : GetPresignedUrl(c, k)
  BY <1>4, PresignStep
<1>5. CASE LoadIpfs(c)
  <2>1. /\ client' = "loading"
        /\ UNCHANGED <<breaker, call, tasks, faults, role, object, stamp, job, expired, landed, blamed>>
    BY <1>5 DEF LoadIpfs, resilienceVars
  <2>2. Calls' /\ breaker' \in [Dependency -> Breaker] /\ faults' \in 0..MaxFaults
    BY <2>1, SameCalls DEF IInv, Shape
  <2> QED BY <2>1, <2>2, QuietStep
<1>6. CASE VerifyIPFSHash(c)
  <2>1. /\ Idle(c, "verify") /\ UNCHANGED <<breaker, tasks, faults, storageVars, landed, blamed>>
        /\ \E x \in {Fresh("verify", 0, 0), Refused("verify", 0, 0)} : call' = [call EXCEPT ![c] = x]
    BY <1>6 DEF VerifyIPFSHash, WithIpfs, Begin, Fresh, Refused
  <2> QED BY <2>1, RequestStep
<1>7. CASE PinProjectMetadata(c)
  <2>1. /\ Idle(c, "pin") /\ UNCHANGED <<breaker, tasks, faults, storageVars, landed, blamed>>
        /\ \E x \in {Fresh("pin", 0, 0), Refused("pin", 0, 0)} : call' = [call EXCEPT ![c] = x]
    BY <1>7 DEF PinProjectMetadata, WithIpfs, Begin, Fresh, Refused
  <2> QED BY <2>1, RequestStep
<1>8. CASE QueuePinProjectMetadata(c)
  <2>1. /\ Idle(c, "enqueue") /\ call' = [call EXCEPT ![c] = Fresh("enqueue", 0, 0)]
        /\ UNCHANGED <<breaker, tasks, faults, storageVars, landed, blamed>>
    BY <1>8 DEF QueuePinProjectMetadata, Begin, Fresh
  <2>2. PICK x : x = Fresh("enqueue", 0, 0)
    OBVIOUS
  <2>3. x # Refused("enqueue", 0, 0)
    BY <2>2 DEF Fresh, Refused, Entered
  <2> QED BY <2>1, <2>2, <2>3, RequestStep
<1>9. CASE PutPresigned(c)
  BY <1>9, PutStep
<1> QED BY <1>1, <1>2, <1>3, <1>4, <1>5, <1>6, <1>7, <1>8, <1>9 DEF Request

LEMMA WorkerSteps ==
    ASSUME IInv, NEW c \in Caller, NEW j \in JobIds, HandlePinJob(c, j) \/ HandlePushJob(c, j)
    PROVE  IInv'
<1>1. PICK run \in Nat : run = job[j].left
  BY JobFields DEF IInv
<1>2. j \in Nat
  BY DEF JobIds
<1>3. CASE HandlePinJob(c, j)
  <2>1. /\ role[c] = "pinJob" /\ call[c].at = "idle" /\ Take(c, j)
        /\ \E y \in {Fresh("pin", j, run), Refused("pin", j, run)} : call' = [call EXCEPT ![c] = y]
    BY <1>1, <1>3 DEF HandlePinJob, Idle, WithIpfs, Begin, Fresh, Refused
  <2>2. PICK x : x \in {Fresh("pin", j, run), Refused("pin", j, run)} /\ call' = [call EXCEPT ![c] = x]
    BY <2>1
  <2>3. Begins(x) /\ x.at # "ok" /\ x.work = Work("pin", j, run)
    <3>1. CASE x = Fresh("pin", j, run)
      BY <1>2, <3>1, FreshBegins
    <3>2. CASE x = Refused("pin", j, run)
      BY <1>2, <3>2, RefusedBegins
    <3> QED BY <2>2, <3>1, <3>2
  <2>4. role[c] \in Workers /\ x.work.on = j /\ x.work.op = (IF role[c] = "push" THEN "push" ELSE "pin")
    BY <2>1, <2>3 DEF Workers, Work
  <2> QED BY <2>1, <2>2, <2>3, <2>4, TakeStep
<1>4. CASE HandlePushJob(c, j)
  <2>1. PICK x : x = Fresh("push", j, run)
    OBVIOUS
  <2>2. role[c] = "push" /\ call[c].at = "idle" /\ Take(c, j) /\ call' = [call EXCEPT ![c] = x]
    BY <1>1, <1>4, <2>1 DEF HandlePushJob, Idle, Begin, Fresh
  <2>3. Begins(x) /\ x.at # "ok" /\ x.work = Work("push", j, run)
    BY <1>2, <2>1, FreshBegins
  <2>4. role[c] \in Workers /\ x.work.on = j /\ x.work.op = (IF role[c] = "push" THEN "push" ELSE "pin")
    BY <2>2, <2>3 DEF Workers, Work
  <2> QED BY <2>2, <2>3, <2>4, TakeStep
<1> QED BY <1>3, <1>4

\* What an attempt that had its effect leaves to be known.
LEMMA EffectAfter ==
    ASSUME NEW t, NEW at, Effect(t), tasks' = tasks \ {t}, expired' = expired
    PROVE  JobsAfter(t) /\ BucketAfter(t, at) /\ landed' = landed \cup {Attempt(t)}
<1>1. JobsAfter(t)
  BY DEF Effect, JobsAfter
<1>2. BucketAfter(t, at)
  <2>1. CASE t.work.op = "upload"
    BY <2>1 DEF Effect, BucketAfter
  <2>2. CASE t.work.op = "delete"
    BY <2>2 DEF Effect, BucketAfter
  <2>3. CASE t.work.op \notin {"upload", "delete"}
    BY <2>3 DEF Effect, BucketAfter
  <2> QED BY <2>1, <2>2, <2>3
<1> QED BY <1>1, <1>2 DEF Effect

LEMMA NoEffectAfter ==
    ASSUME NEW t, NEW at, at # "ok", NoEffect, expired \subseteq expired'
    PROVE  JobsAfter(t) /\ BucketAfter(t, at) /\ landed' = landed
BY DEF NoEffect, JobsAfter, BucketAfter

LEMMA TaskSteps ==
    ASSUME IInv, NEW t \in tasks, TaskEnds(t)
    PROVE  IInv'
<1>1. Shape /\ Calls
  BY DEF IInv
<1>2. CASE ServiceSucceeds(t)
  <2>1. Succeed(t) /\ Effect(t) /\ UNCHANGED <<role, stamp, client, expired, blamed>>
    BY <1>2 DEF ServiceSucceeds
  <2>2. PICK b : Ends(t, "ok", b)
    BY <1>1, <2>1, SucceedEnds
  <2>3. tasks' = tasks \ {t} /\ faults' \in 0..MaxFaults
    BY <1>1, <2>1, SucceedEnds DEF Shape
  <2>4. JobsAfter(t) /\ BucketAfter(t, "ok") /\ Records(t, "ok")
    BY <2>1, <2>3, EffectAfter DEF Records
  <2> QED BY <2>1, <2>2, <2>3, <2>4, EndsStep
<1>3. CASE ServiceFails(t)
  <2>1. /\ Fail(t, TRUE) /\ (Effect(t) \/ NoEffect)
        /\ blamed' = blamed \cup {Attempt(t)} /\ UNCHANGED <<role, stamp, client, expired>>
    BY <1>3 DEF ServiceFails
  <2>2. (\E at \in {"backoff", "error"} : \E b : Ends(t, at, b)) /\ tasks' = tasks \ {t} /\ faults' \in 0..MaxFaults
    BY <1>1, <2>1, FailEnds
  <2>3. PICK at, b : at \in {"backoff", "error"} /\ Ends(t, at, b)
    BY <2>2
  <2>4. JobsAfter(t) /\ BucketAfter(t, at) /\ landed' \in {landed, landed \cup {Attempt(t)}}
    <3>1. at # "ok" /\ expired \subseteq expired' /\ expired' = expired
      BY <2>1, <2>3
    <3>2. CASE Effect(t)
      BY <2>2, <3>1, <3>2, EffectAfter
    <3>3. CASE NoEffect
      BY <3>1, <3>3, NoEffectAfter
    <3> QED BY <2>1, <3>2, <3>3
  <2>5. Records(t, at)
    BY <2>1, <2>3, <2>4 DEF Records
  <2> QED BY <2>1, <2>2, <2>3, <2>4, <2>5, EndsStep
<1>4. CASE SubscriptionGone(t)
  <2>1. /\ Fail(t, FALSE) /\ NoEffect /\ blamed' = blamed \cup {Attempt(t)}
        /\ expired \subseteq expired' /\ UNCHANGED <<role, stamp, client>>
    BY <1>4 DEF SubscriptionGone
  <2>2. (\E at \in {"backoff", "error"} : \E b : Ends(t, at, b)) /\ faults' \in 0..MaxFaults
    BY <1>1, <2>1, FailEnds
  <2>3. PICK at, b : at \in {"backoff", "error"} /\ Ends(t, at, b)
    BY <2>2
  <2>4. JobsAfter(t) /\ BucketAfter(t, at) /\ landed' = landed
    <3>1. at # "ok"
      BY <2>3
    <3> QED BY <2>1, <3>1, NoEffectAfter
  <2>5. Records(t, at)
    BY <2>1, <2>3, <2>4 DEF Records
  <2> QED BY <2>1, <2>2, <2>3, <2>4, <2>5, EndsStep
<1>5. CASE ServiceTimesOut(t)
  <2>1. /\ TimeOut(t) /\ NoEffect /\ blamed' = blamed \cup {Attempt(t)}
        /\ expired \subseteq expired' /\ UNCHANGED <<role, stamp, client>>
    BY <1>5 DEF ServiceTimesOut, NoEffect, storageVars
  <2>2. (\E at \in {"backoff", "error"} : \E b : Ends(t, at, b)) /\ faults' \in 0..MaxFaults
    BY <1>1, <2>1, TimeOutEnds
  <2>3. PICK at, b : at \in {"backoff", "error"} /\ Ends(t, at, b)
    BY <2>2
  <2>4. JobsAfter(t) /\ BucketAfter(t, at) /\ landed' = landed
    <3>1. at # "ok"
      BY <2>3
    <3> QED BY <2>1, <3>1, NoEffectAfter
  <2>5. Records(t, at)
    BY <2>1, <2>3, <2>4 DEF Records
  <2> QED BY <2>1, <2>2, <2>3, <2>4, <2>5, EndsStep
<1> QED BY <1>2, <1>3, <1>4, <1>5 DEF TaskEnds

-----------------------------------------------------------------------------
\* The invariant.

LEMMA InitInv == Init => IInv
<1> SUFFICES ASSUME Init PROVE IInv
  OBVIOUS
<1>1. /\ breaker = [d \in Dependency |-> NewBreaker] /\ call = [c \in Caller |-> NoCall] /\ tasks = {}
      /\ faults = 0 /\ role \in Roles /\ object = [k \in Stamps |-> 0] /\ stamp = [c \in Caller |-> 0]
      /\ client = "none" /\ expired = {} /\ landed = {} /\ blamed = {}
      /\ job = [j \in JobIds |-> IF j = 1 /\ \E c \in Caller : role[c] = "push" THEN NewJob ELSE NoJob]
  BY DEF Init, ResilienceInit
<1>2. \A c \in Caller : call[c] = NoCall /\ call[c].at = "idle" /\ call[c].work = NoWork /\ call[c].attempt = 0
  BY <1>1, NoCallFields
<1>3. /\ NewBreaker \in Breaker /\ NewBreaker.state = "closed"
  BY DEF NewBreaker, Breaker
<1>4. /\ NewJob.state = "waiting" /\ NewJob.left = MaxRuns /\ MaxRuns \in Nat \ {0}
      /\ NoJob.state = "none" /\ NoJob.left = 0
  BY StorageAssumption DEF NewJob, NoJob, StorageAssumption
<1>5. {NewJob, NoJob} \subseteq [state: {"none", "waiting", "active", "completed", "failed"}, left: 0..MaxRuns]
  BY StorageAssumption DEF NewJob, NoJob, StorageAssumption
<1>6. Shape
  <2>1. breaker \in [Dependency -> Breaker] /\ faults \in 0..MaxFaults
    BY <1>1, <1>3, ResilienceAssumption DEF ResilienceAssumption
  <2>2. job \in [JobIds -> [state: {"none", "waiting", "active", "completed", "failed"}, left: 0..MaxRuns]]
    BY <1>1, <1>5
  <2>3. call \in [Caller -> CallSet]
    BY <1>1, NoCallFields
  <2> QED BY <1>1, <2>1, <2>2, <2>3, FS_EmptySet DEF Shape
<1>7. Calls
  <2>1. NoCall.attempt <= NoCall.attempts /\ NoCall.at = "idle" /\ NoCall.work.op = "none"
    BY DEF NoCall, NoWork, Work
  <2>2. \A c \in Caller : CallOK(c)
    BY <1>2, <2>1 DEF CallOK, InCall
  <2>3. \A d \in Dependency : breaker[d].state = "closed"
    BY <1>1, <1>3
  <2> QED BY <1>1, <2>2, <2>3 DEF Calls, AwaitedOK, HalfOpenIsProbing
<1>8. Works
  <2>1. \A c \in Caller : WorkOK(c)
    BY <1>1, <1>2 DEF WorkOK
  <2>2. \A c \in Caller : TriedOK(c)
    <3>1. Plain(NoWork)
      BY NoCallFields DEF Plain
    <3> QED BY <1>2, <3>1, BeforeFirst DEF TriedOK
  <2> QED BY <1>1, <2>1, <2>2 DEF Works
<1>9. Jobs
  <2>1. \A j \in JobIds : JobOK(j)
    <3>1. \A j \in JobIds : job[j] \in {NewJob, NoJob}
      BY <1>1
    <3>2. Clean = {} /\ \A c \in Caller : \A j : ~Runs(c, j)
      BY <1>1, <1>2 DEF Clean, Runs
    <3> QED BY <1>4, <3>1, <3>2 DEF JobOK
  <2>2. EnqueueOK
    <3> SUFFICES ASSUME NEW c \in Caller, role[c] = "enqueue", NEW j \in JobIds
                 PROVE  job[j].state = "none"
      BY <1>1 DEF EnqueueOK
    <3>1. \A d \in Caller : role[d] # "push"
      BY <1>1, StorageAssumption DEF StorageAssumption
    <3> QED BY <1>1, <1>4, <3>1
  <2>3. OneClean
    BY <1>1 DEF OneClean, Clean
  <2> QED BY <2>1, <2>2, <2>3 DEF Jobs
<1>10. BucketMatchesAnswers
  BY <1>2 DEF BucketMatchesAnswers, Uploads
<1> QED BY <1>6, <1>7, <1>8, <1>9, <1>10 DEF IInv

LEMMA NextInv == IInv /\ [Next]_vars => IInv'
<1> SUFFICES ASSUME IInv, [Next]_vars PROVE IInv'
  OBVIOUS
<1>1. Shape /\ Calls
  BY DEF IInv
<1>2. CASE UNCHANGED vars
  <2>1. UNCHANGED <<breaker, call, tasks, faults, role, object, stamp, client, job, expired, landed, blamed>>
    BY <1>2 DEF vars, resilienceVars, storageVars
  <2>2. /\ Calls' /\ breaker' \in [Dependency -> Breaker] /\ faults' \in 0..MaxFaults
        /\ client' \in {"none", "loading", "ready", "rejected"}
    BY <1>1, <2>1, SameCalls DEF Shape
  <2> QED BY <2>1, <2>2, QuietStep
<1>3. CASE \E c \in Caller : CallStep(c) \/ Request(c)
  <2>1. PICK c \in Caller : CallStep(c) \/ Request(c)
    BY <1>3
  <2>2. CASE CallStep(c)
    BY <2>2, FireStep, WakeStep, EndJobStep, WorkerSteps DEF CallStep
  <2>3. CASE Request(c)
    BY <2>3, CallerSteps
  <2> QED BY <2>1, <2>2, <2>3
<1>4. CASE SettleIpfs
  <2>1. /\ client' \in {"ready", "rejected"} /\ (UNCHANGED faults \/ Fault)
        /\ UNCHANGED <<breaker, call, tasks, role, object, stamp, job, expired, landed, blamed>>
    BY <1>4 DEF SettleIpfs
  <2>2. faults' \in 0..MaxFaults
    BY <1>1, <2>1, FaultType DEF Shape
  <2>3. Calls' /\ breaker' \in [Dependency -> Breaker] /\ client' \in {"none", "loading", "ready", "rejected"}
    BY <1>1, <2>1, SameCalls DEF Shape
  <2> QED BY <2>1, <2>2, <2>3, QuietStep
<1>5. CASE \E t \in tasks : TaskEnds(t)
  BY <1>5, TaskSteps
<1>6. CASE \E d \in Dependency : (HalfOpen(d) \/ RollWindow(d)) /\ UNCHANGED <<storageVars, landed, blamed>>
  <2>1. PICK d \in Dependency : (HalfOpen(d) \/ RollWindow(d)) /\ UNCHANGED <<storageVars, landed, blamed>>
    BY <1>6
  <2>2. UNCHANGED <<role, object, stamp, client, job, expired, landed, blamed>>
    BY <2>1 DEF storageVars
  <2>3. Calls' /\ breaker' \in [Dependency -> Breaker] /\ UNCHANGED <<call, tasks, faults>>
    BY <1>1, <2>1, BreakerCalls
  <2>4. faults' \in 0..MaxFaults /\ client' \in {"none", "loading", "ready", "rejected"}
    BY <1>1, <2>2, <2>3 DEF Shape
  <2> QED BY <2>2, <2>3, <2>4, QuietStep
<1> QED BY <1>2, <1>3, <1>4, <1>5, <1>6 DEF Next

LEMMA Invariance == Spec => []IInv
BY InitInv, NextInv, PTL DEF Spec

\* Every circuit, call, task, object and job has the shape that withResilience,
\* the bucket and Bull give it, and no call makes more attempts than its policy.
THEOREM TypeCorrect == Spec => []TypeOK
<1>1. IInv => TypeOK
  <2> SUFFICES ASSUME IInv PROVE TypeOK
    OBVIOUS
  <2>1. Shape /\ \A c \in Caller : CallOK(c)
    BY DEF IInv, Calls
  <2>2. ASSUME NEW c \in Caller PROVE call[c].at \in Places /\ call[c].attempt \in 0..call[c].attempts
    BY <2>1, CallFields DEF CallOK
  <2>3. \A t \in tasks : t.caller \in Caller /\ t.attempt >= 1
    BY <2>1, TaskFields
  <2>4. ResilienceTypeOK
    BY <2>1, <2>2, <2>3 DEF ResilienceTypeOK, Shape
  <2> QED BY <2>1, <2>4 DEF TypeOK, Shape
<1> QED BY <1>1, Invariance, PTL

\* A half-open circuit whose probe is out waits for a task whose end it will
\* hear of: opossum's breaker never waits for a task that timed out.
THEOREM HalfOpenProbes == Spec => []HalfOpenIsProbing
<1>1. IInv => HalfOpenIsProbing
  BY DEF IInv, Calls
<1> QED BY <1>1, Invariance, PTL

\* A job that Bull holds to be completed was pinned or pushed by some attempt of
\* some run, or its subscription is gone.
THEOREM CompletedJobs == Spec => []CompletedWasDone
<1>1. IInv => CompletedWasDone
  BY DEF IInv, Jobs, JobOK, CompletedWasDone
<1> QED BY <1>1, Invariance, PTL

\* However calls are retried and jobs are run again, there is one pin, push or
\* job more than attempts that failed or timed out, at most.
THEOREM Repeats == Spec => []RepeatsExplained
<1>1. IInv => RepeatsExplained
  <2> SUFFICES ASSUME IInv, NEW op \in {"pin", "push", "enqueue"}, NEW on
               PROVE  Cardinality({a \in landed : a.work.op = op /\ a.work.on = on})
                        <= 1 + Cardinality({a \in blamed : a.work.op = op /\ a.work.on = on})
    BY DEF RepeatsExplained
  <2> DEFINE Of(S) == {a \in S : a.work.op = op /\ a.work.on = on}
             L == Of(landed)
             B == Of(blamed)
             New == L \ B
  <2>1. IsFiniteSet(landed) /\ IsFiniteSet(blamed) /\ OneClean
    BY DEF IInv, Shape, Jobs
  <2>2. IsFiniteSet(L) /\ IsFiniteSet(B)
    BY <2>1, FS_Subset
  <2>3. New \subseteq Clean /\ \A a, b \in New : a = b
    BY <2>1 DEF Clean, OneClean
  <2>4. L \subseteq B \cup New
    OBVIOUS
  <2> HIDE DEF L, B
  <2>5. Cardinality(B) \in Nat
    BY <2>2, FS_CardinalityType
  <2>6. CASE New = {}
    <3>1. L \subseteq B
      BY <2>4, <2>6
    <3>2. Cardinality(L) <= Cardinality(B) /\ Cardinality(L) \in Nat
      BY <2>2, <3>1, FS_Subset, FS_CardinalityType
    <3>3. Cardinality(L) <= 1 + Cardinality(B)
      BY <2>5, <3>2
    <3> QED BY <3>3 DEF L, B
  <2>7. CASE New # {}
    <3>1. PICK a : a \in New
      BY <2>7
    <3>2. L \subseteq B \cup {a}
      BY <2>3, <2>4, <3>1
    <3>3. IsFiniteSet(B \cup {a}) /\ Cardinality(B \cup {a}) \in {Cardinality(B), Cardinality(B) + 1}
      BY <2>2, FS_AddElement
    <3>4. Cardinality(L) <= Cardinality(B \cup {a}) /\ Cardinality(L) \in Nat
      BY <2>2, <3>2, <3>3, FS_Subset, FS_CardinalityType
    <3>5. Cardinality(L) <= 1 + Cardinality(B)
      BY <2>5, <3>3, <3>4
    <3> QED BY <3>5 DEF L, B
  <2> QED BY <2>6, <2>7
<1> QED BY <1>1, Invariance, PTL

\* What uploadFile and deleteObject answered is what the bucket holds, but for
\* two files of one name in one millisecond, for what the holders of presigned
\* URLs put there, and for an upload that an attempt given up on brings back.
THEOREM Bucket == Spec => []BucketMatchesAnswers
<1>1. IInv => BucketMatchesAnswers
  BY DEF IInv
<1> QED BY <1>1, Invariance, PTL
=============================================================================
