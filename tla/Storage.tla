------------------------------ MODULE Storage -------------------------------
(***************************************************************************)
(* StorageService, the pin queue with its processor, and the push worker:  *)
(* what their calls through withResilience leave in the bucket, on IPFS,   *)
(* in the queue and with the push service.  Each caller has one role, so   *)
(* that TLC looks at one group of operations at a time.  The VAPID keys    *)
(* are configured; image optimisation is left out, its result is pinned.   *)
(***************************************************************************)
EXTENDS Resilience

CONSTANTS Roles,        \* the groups of roles, functions on Caller
          Stamps,       \* the milliseconds of Date.now()
          MaxRuns       \* bound on Bull's attempts of a job, 5 in the code

\* An enqueued job has the number of the attempt that added it as its id, so that
\* one caller of a group enqueues, and none when the push job is there from the start.
ASSUME StorageAssumption ==
    /\ MaxRuns \in Nat \ {0} /\ Stamps \subseteq Nat \ {0}
    /\ {"s3", "ipfs", "queue", "webPush"} \subseteq Dependency
    /\ \A group \in Roles : \A c, d \in Caller :
          group[c] = "enqueue" /\ group[d] \in {"enqueue", "push"} => c = d

VARIABLES role,
          object,       \* who wrote what a key holds, 0 for none
          stamp,        \* when an upload built its key
          client,       \* the IPFS client: none, loading, ready or rejected
          job,          \* Bull jobs: state and runs left
          expired,      \* work that was answered with 410
          \* history:
          landed,       \* attempts that had their effect
          blamed        \* attempts that failed or timed out

storageVars == <<role, object, stamp, client, job, expired>>
vars == <<resilienceVars, storageVars, landed, blamed>>

JobIds == 1..2
NoJob == [state |-> "none", left |-> 0]
NewJob == [state |-> "waiting", left |-> MaxRuns]
Deps == [upload |-> "s3", delete |-> "s3", presign |-> "s3", enqueue |-> "queue",
         pin |-> "ipfs", verify |-> "ipfs", push |-> "webPush"]
\* The retry policies of resilience.constants.ts.
Attempts == [s3 |-> 3, ipfs |-> 2, queue |-> 2, webPush |-> 2]
Workers == {"pinJob", "push"}

Begin(c, op, on, run) ==
    call' = [call EXCEPT ![c] = Entered(Deps[op], Attempts[Deps[op]], Work(op, on, run))]

Idle(c, r) == role[c] = r /\ call[c].at = "idle"
Answer(c, result) == call' = [call EXCEPT ![c].at = result]

-----------------------------------------------------------------------------
\* S3

\* Mutant: the key has no timestamp.
UploadKeyByName(c, t) == 1

\* The key of a name at a time; all files have the same name.
UploadKey(c, t) == t

UploadFile(c, t) ==
    /\ Idle(c, "upload")
    /\ Begin(c, "upload", UploadKey(c, t), 0)
    /\ stamp' = [stamp EXCEPT ![c] = t]
    /\ UNCHANGED <<breaker, tasks, faults, role, object, client, job, expired, landed, blamed>>

\* The type or the size of the file is not allowed.
RefuseUpload(c) ==
    /\ Idle(c, "upload")
    /\ Answer(c, "error")
    /\ UNCHANGED <<breaker, tasks, faults, storageVars, landed, blamed>>

\* A client deletes a key that an upload gave it.
DeleteObject(c, u) ==
    /\ Idle(c, "delete")
    /\ role[u] = "upload" /\ call[u].at = "ok"
    /\ Begin(c, "delete", call[u].work.on, 0)
    /\ UNCHANGED <<breaker, tasks, faults, storageVars, landed, blamed>>

\* For any key, whether it has an object or not.
GetPresignedUrl(c, k) ==
    /\ Idle(c, "presign")
    /\ Begin(c, "presign", k, 0)
    /\ UNCHANGED <<breaker, tasks, faults, storageVars, landed, blamed>>

\* The URL is one for a PUT: who got it writes the key as often as he likes.
PutPresigned(c) ==
    /\ role[c] = "presign" /\ call[c].at = "ok"
    /\ object' = [object EXCEPT ![call[c].work.on] = c]
    /\ UNCHANGED <<resilienceVars, role, stamp, client, job, expired, landed, blamed>>

-----------------------------------------------------------------------------
\* IPFS

\* getIpfs: the first caller starts to load the client, all share the promise.
LoadIpfs(c) ==
    /\ \/ Idle(c, "verify") \/ Idle(c, "pin")
       \/ Idle(c, "pinJob") /\ \E j \in JobIds : job[j].state = "waiting"
    /\ client = "none"
    /\ client' = "loading"
    /\ UNCHANGED <<resilienceVars, role, object, stamp, job, expired, landed, blamed>>

\* Loaded, or failed or timed out: the promise stays as it settles.
SettleIpfs ==
    /\ client = "loading"
    /\ \/ client' = "ready" /\ UNCHANGED faults
       \/ client' = "rejected" /\ Fault
    /\ UNCHANGED <<breaker, call, tasks, role, object, stamp, job, expired, landed, blamed>>

\* The start of a call once the promise has settled.
WithIpfs(c, op, on, run) ==
    \/ client = "ready" /\ Begin(c, op, on, run)
    \/ client = "rejected"
       /\ call' = [call EXCEPT ![c] = [Entered("ipfs", 1, Work(op, on, run)) EXCEPT
                                          !.at = IF op = "verify" THEN "ok" ELSE "error"]]

\* verifyIPFSHash answers false without a client; errors of cat escape.
VerifyIPFSHash(c) ==
    /\ Idle(c, "verify")
    /\ WithIpfs(c, "verify", 0, 0)
    /\ UNCHANGED <<breaker, tasks, faults, storageVars, landed, blamed>>

PinProjectMetadata(c) ==
    /\ Idle(c, "pin")
    /\ WithIpfs(c, "pin", 0, 0)
    /\ UNCHANGED <<breaker, tasks, faults, storageVars, landed, blamed>>

QueuePinProjectMetadata(c) ==
    /\ Idle(c, "enqueue")
    /\ Begin(c, "enqueue", 0, 0)
    /\ UNCHANGED <<breaker, tasks, faults, storageVars, landed, blamed>>

-----------------------------------------------------------------------------
\* Jobs

\* Bull hands a waiting job to an idle worker.
Take(c, j) ==
    /\ job[j].state = "waiting"
    /\ job' = [job EXCEPT ![j] = [state |-> "active", left |-> @.left - 1]]
    /\ UNCHANGED <<breaker, tasks, faults, role, object, stamp, client, expired, landed, blamed>>

HandlePinJob(c, j) ==
    /\ Idle(c, "pinJob")
    /\ WithIpfs(c, "pin", j, job[j].left)
    /\ Take(c, j)

HandlePushJob(c, j) ==
    /\ Idle(c, "push")
    /\ Begin(c, "push", j, job[j].left)
    /\ Take(c, j)

\* Mutant: the processor logs the error and returns.
ThrowsNever(c) == FALSE

\* The processor throws; the push worker returns after a 410.
Throws(c) == call[c].at = "error" /\ call[c].work \notin expired

\* Bull learns how the run of a job ended.
EndJob(c) ==
    LET j == call[c].work.on IN
    /\ role[c] \in Workers /\ call[c].at \in {"ok", "error"}
    /\ job' = [job EXCEPT ![j].state = IF ~Throws(c) THEN "completed"
                                       ELSE IF @ = "active" /\ job[j].left > 0 THEN "waiting"
                                       ELSE "failed"]
    /\ call' = [call EXCEPT ![c] = NoCall]
    /\ UNCHANGED <<breaker, tasks, faults, role, object, stamp, client, expired, landed, blamed>>

-----------------------------------------------------------------------------
\* The services

Attempt(t) == [work |-> t.work, attempt |-> t.attempt]

\* A task has its effect: the object, the job, the pin or the push.
Effect(t) ==
    /\ landed' = landed \cup {Attempt(t)}
    /\ object' = CASE t.work.op = "upload" -> [object EXCEPT ![t.work.on] = t.caller]
                   [] t.work.op = "delete" -> [object EXCEPT ![t.work.on] = 0]
                   [] OTHER -> object
    /\ job' = IF t.work.op = "enqueue" THEN [job EXCEPT ![t.attempt] = NewJob] ELSE job

NoEffect == UNCHANGED <<landed, object, job>>

ServiceSucceeds(t) ==
    /\ Succeed(t)
    /\ Effect(t)
    /\ UNCHANGED <<role, stamp, client, expired, blamed>>

\* With a lost answer, or with no effect.
ServiceFails(t) ==
    /\ Fail(t, TRUE)
    /\ Effect(t) \/ NoEffect
    /\ blamed' = blamed \cup {Attempt(t)}
    /\ UNCHANGED <<role, stamp, client, expired>>

\* HTTP 410: retryIf refuses to retry.
SubscriptionGone(t) ==
    /\ t.work.op = "push"
    /\ Fail(t, FALSE)
    /\ NoEffect
    /\ blamed' = blamed \cup {Attempt(t)}
    /\ expired' = IF t.awaited THEN expired \cup {t.work} ELSE expired
    /\ UNCHANGED <<role, stamp, client>>

ServiceTimesOut(t) ==
    /\ TimeOut(t)
    /\ blamed' = blamed \cup {Attempt(t)}
    /\ UNCHANGED <<storageVars, landed>>

-----------------------------------------------------------------------------
Init ==
    /\ ResilienceInit
    /\ role \in Roles
    /\ object = [k \in Stamps |-> 0]
    /\ stamp = [c \in Caller |-> 0]
    /\ client = "none"
    /\ job = [j \in JobIds |-> IF j = 1 /\ \E c \in Caller : role[c] = "push" THEN NewJob ELSE NoJob]
    /\ expired = {}
    /\ landed = {} /\ blamed = {}

\* What a caller does of itself.
CallStep(c) ==
    \/ (Fire(c) \/ Wake(c)) /\ UNCHANGED <<storageVars, landed, blamed>>
    \/ EndJob(c)
    \/ \E j \in JobIds : HandlePinJob(c, j) \/ HandlePushJob(c, j)

Request(c) ==
    \/ \E t \in Stamps : UploadFile(c, t) \/ GetPresignedUrl(c, t)
    \/ RefuseUpload(c)
    \/ \E u \in Caller : DeleteObject(c, u)
    \/ PutPresigned(c)
    \/ LoadIpfs(c) \/ VerifyIPFSHash(c) \/ PinProjectMetadata(c)
    \/ QueuePinProjectMetadata(c)

\* A task that is awaited ends, at the latest with its timeout.
TaskEnds(t) == ServiceSucceeds(t) \/ ServiceFails(t) \/ SubscriptionGone(t) \/ ServiceTimesOut(t)

Next ==
    \/ \E c \in Caller : CallStep(c) \/ Request(c)
    \/ SettleIpfs
    \/ \E t \in tasks : TaskEnds(t)
    \/ \E d \in Dependency :
          (HalfOpen(d) \/ RollWindow(d)) /\ UNCHANGED <<storageVars, landed, blamed>>

Spec == Init /\ [][Next]_vars

\* Timers fire, promises settle, Bull runs its jobs, an awaited call ends by its
\* timeout.  Nothing makes a task end that timed out, and nobody has to call.
Fairness ==
    /\ WF_vars(SettleIpfs)
    /\ \A c \in Caller :
          /\ WF_vars(CallStep(c))
          /\ WF_vars(role[c] = "pinJob" /\ LoadIpfs(c))
          /\ WF_vars(\E t \in tasks : t.awaited /\ t.caller = c /\ TaskEnds(t))

FairSpec == Spec /\ Fairness

-----------------------------------------------------------------------------
\* Properties

TypeOK ==
    /\ ResilienceTypeOK
    /\ role \in Roles
    /\ object \in [Stamps -> Caller \cup {0}]
    /\ client \in {"none", "loading", "ready", "rejected"}
    /\ job \in [JobIds -> [state: {"none", "waiting", "active", "completed", "failed"}, left: 0..MaxRuns]]

Uploads == {c \in Caller : role[c] = "upload" /\ call[c].at # "idle"}
Deletes(k) == {c \in Caller : role[c] = "delete" /\ call[c].at # "idle" /\ call[c].work.on = k}
SameMoment(u) == \E v \in Uploads \ {u} : stamp[v] = stamp[u]
Late(k) == \E a \in blamed : a.work = Work("upload", k, 0)

\* What key k holds is from someone with a presigned URL for it.
Signers(k) == {c \in Caller : role[c] = "presign" /\ call[c].at = "ok" /\ call[c].work.on = k}
Signed(k) == object[k] \in Signers(k)

\* The bucket agrees with the answers: an upload that was confirmed and that
\* nobody deletes is there with its own content, unless two files of one name
\* came in the same millisecond or a presigned URL for its key was used; and what
\* was deleted is gone, unless such a URL was used, or the upload is back with
\* its content because an attempt at it that timed out or failed landed late.
BucketMatchesAnswers ==
    \A u \in {c \in Uploads : call[c].at = "ok" /\ ~SameMoment(c)} :
        LET k == call[u].work.on IN
        /\ Deletes(k) = {} => object[k] = u \/ Signed(k)
        /\ \A d \in Deletes(k) :
              call[d].at = "ok" => object[k] = 0 \/ Signed(k) \/ (Late(k) /\ object[k] = u)

\* A pin job that completed has its metadata on IPFS, and a push job that
\* completed was pushed or its subscription is gone, however often it was run,
\* timed out or met an open circuit.
CompletedWasDone ==
    \A j \in JobIds :
        job[j].state = "completed" =>
            \/ \E a \in landed : a.work.op \in {"pin", "push"} /\ a.work.on = j
            \/ \E w \in expired : w.on = j

\* An effect is repeated only when an earlier attempt failed or timed out: the
\* jobs of one request, the pins and the pushes of one job are at most one more
\* than the attempts that could have landed unnoticed.
RepeatsExplained ==
    \A w \in {[op |-> a.work.op, on |-> a.work.on] : a \in landed} :
        LET Of(S) == {a \in S : a.work.op = w.op /\ a.work.on = w.on}
        IN w.op \in {"pin", "push", "enqueue"} => Cardinality(Of(landed)) <= 1 + Cardinality(Of(blamed))

\* Every call that was begun is answered and every job ends, completed or
\* failed: neither an open circuit nor a task that hangs holds one up.
EverythingSettles ==
    /\ \A c \in Caller :
          (call[c].at \in {"ready", "waiting", "backoff"}) ~> (call[c].at \in {"idle", "ok", "error"})
    /\ \A j \in JobIds :
          (job[j].state \in {"waiting", "active"}) ~>
              (job[j].state \in {"completed", "failed"} \/ \A c \in Caller : role[c] \notin Workers)

-----------------------------------------------------------------------------
\* What the repository says and the code does not do

\* "Generate a presigned GET URL for an S3 object": who asks for a URL reads, and
\* nothing in the bucket comes from him.
PresignedUrlIsGet == \A k \in Stamps : object[k] # 0 => role[object[k]] # "presign"
=============================================================================
