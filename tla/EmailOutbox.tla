---------------------------- MODULE EmailOutbox ----------------------------
(***************************************************************************)
(* The delivery of notification mail (src/src/notification/): the durable  *)
(* EmailOutbox row, written in the transaction of the entity it is about,  *)
(* the Bull job queued after the commit, the worker that sends the mail,   *)
(* and the sweep that queues PENDING rows again every five minutes.        *)
(*                                                                         *)
(* Bull is external: a job is run until it succeeds or has failed as often *)
(* as its attempts option says; a job whose worker died runs once more and *)
(* is given up when that happens again.  Several workers may run jobs at   *)
(* the same time.  A fault is a crash, a failed or an unconfirmed call.    *)
(***************************************************************************)
EXTENDS Integers, FiniteSets

CONSTANTS
    Emails,         \* notifications with mail enabled
    Invalid,        \* those whose address does not pass isValidEmail
    Jobs,           \* bound: jobs in the queue at the same time
    MaxAttempts,    \* EMAIL_MAX_ATTEMPTS
    MaxQueued,      \* bound: jobs ever queued for an email
    MaxFaults       \* bound: faults

ASSUME EmailAssumption ==
    /\ Invalid \subseteq Emails
    /\ IsFiniteSet(Jobs)
    /\ MaxAttempts \in Nat \ {0}
    /\ MaxQueued \in Nat
    /\ MaxFaults \in Nat

VARIABLES
    outbox,     \* EmailOutbox rows
    prepared,   \* committed, and not handed to the queue yet (in memory)
    job,        \* the queue
    sweep,      \* rows that the running sweep has read (in memory)
    sends,      \* how often SendGrid delivered an email
    unrecorded, \* how often the delivery could not be recorded in the row
    tries,      \* failed attempts of an email's jobs
    queued,     \* jobs ever queued for an email
    apiKey,     \* whether the running server found SENDGRID_API_KEY when it started
    keyless,    \* emails with a good address that were tried without the key
    faults      \* faults so far

key == <<apiKey, keyless>>
vars == <<outbox, prepared, job, sweep, sends, unrecorded, tries, queued, key, faults>>

NoRow == [status |-> "NONE", attempts |-> 0]
Row == [status: {"PENDING", "SENT", "FAILED"}, attempts: 0..MaxAttempts]

NoJob == [pc |-> "none"]
Job == [pc: {"waiting", "running", "sent", "error"}, email: Emails,
        limit: 1..MaxAttempts, made: Nat, stalled: BOOLEAN]

NewJob(e, limit) ==
    [pc |-> "waiting", email |-> e, limit |-> limit, made |-> 0, stalled |-> FALSE]

At(j, pc) == job[j].pc = pc
Goto(j, pc) == job' = [job EXCEPT ![j].pc = pc]
Fault == faults < MaxFaults /\ faults' = faults + 1

\* queue.add of n jobs: more than one when the breaker times out an add that
\* Redis carried out, and the retry adds the job again.
Add(e, limit, n) ==
    /\ queued[e] + n <= MaxQueued
    /\ \E free \in SUBSET {j \in Jobs : job[j] = NoJob} :
          /\ Cardinality(free) = n
          /\ job' = [j \in Jobs |-> IF j \in free THEN NewJob(e, limit) ELSE job[j]]
    /\ queued' = [queued EXCEPT ![e] = @ + n]

-----------------------------------------------------------------------------
\* NotificationService

\* prepareNotification, with the commit of the surrounding transaction.
PrepareNotification(e) ==
    /\ outbox[e] = NoRow
    /\ outbox' = [outbox EXCEPT ![e] = [status |-> "PENDING", attempts |-> 0]]
    /\ prepared' = prepared \cup {e}
    /\ UNCHANGED <<job, sweep, sends, unrecorded, tries, queued, faults, key>>

\* dispatchPrepared: best effort.
DispatchPrepared(e) ==
    /\ e \in prepared
    /\ prepared' = prepared \ {e}
    /\ \/ Add(e, MaxAttempts, 1) /\ UNCHANGED faults
       \/ Add(e, MaxAttempts, 2) /\ Fault
       \/ Fault /\ UNCHANGED <<job, queued>>
    /\ UNCHANGED <<outbox, sweep, sends, unrecorded, tries, key>>

-----------------------------------------------------------------------------
\* EmailService.processEmailJob

\* The attempt of job j throws: Bull runs it again or gives it up.
AttemptFails(j) ==
    job' = [job EXCEPT ![j] =
               IF job[j].made + 1 < job[j].limit
               THEN [job[j] EXCEPT !.pc = "waiting", !.made = @ + 1]
               ELSE NoJob]

StartJob(j) ==
    /\ At(j, "waiting")
    /\ job[j].email \notin Invalid /\ apiKey
    /\ Goto(j, "running")
    /\ UNCHANGED <<outbox, prepared, sweep, sends, unrecorded, tries, queued, faults, key>>

\* markFailed for an address that is not one or for want of the key, whatever
\* attempts are left; the update may fail too.
RejectJob(j) ==
    /\ At(j, "waiting")
    /\ job[j].email \in Invalid \/ ~apiKey
    /\ \/ outbox' = [outbox EXCEPT ![job[j].email].status = "FAILED"] /\ UNCHANGED faults
       \/ Fault /\ UNCHANGED outbox
    /\ tries' = [tries EXCEPT ![job[j].email] = @ + 1]
    /\ keyless' = keyless \cup ({job[j].email} \ Invalid)
    /\ AttemptFails(j)
    /\ UNCHANGED <<prepared, sweep, sends, unrecorded, queued, apiKey>>

SendMail(j) ==
    /\ At(j, "running")
    /\ sends' = [sends EXCEPT ![job[j].email] = @ + 1]
    /\ Goto(j, "sent")
    /\ UNCHANGED <<outbox, prepared, sweep, unrecorded, tries, queued, faults, key>>

\* SendGrid did not answer, having delivered the mail or not; withResilience
\* calls it again or gives up.
SendFails(j) ==
    /\ At(j, "running")
    /\ Fault
    /\ \/ UNCHANGED <<sends, unrecorded>>
       \/ /\ sends' = [sends EXCEPT ![job[j].email] = @ + 1]
          /\ unrecorded' = [unrecorded EXCEPT ![job[j].email] = @ + 1]
    /\ Goto(j, "running") \/ Goto(j, "error")
    /\ UNCHANGED <<outbox, prepared, sweep, tries, queued, key>>

\* Mutant: the job throws after the update, and Bull runs it again.
RecordSentThrows(j) ==
    /\ At(j, "sent")
    /\ outbox' = [outbox EXCEPT ![job[j].email] =
                     [status |-> "SENT", attempts |-> job[j].made + 1]]
    /\ AttemptFails(j)
    /\ UNCHANGED <<prepared, sweep, sends, unrecorded, tries, queued, faults, key>>

RecordSent(j) ==
    /\ At(j, "sent")
    /\ outbox' = [outbox EXCEPT ![job[j].email] =
                     [status |-> "SENT", attempts |-> job[j].made + 1]]
    /\ job' = [job EXCEPT ![j] = NoJob]
    /\ UNCHANGED <<prepared, sweep, sends, unrecorded, tries, queued, faults, key>>

\* The update of a mail that was sent fails: it counts as not sent.
RecordSentFails(j) ==
    /\ At(j, "sent")
    /\ Fault
    /\ unrecorded' = [unrecorded EXCEPT ![job[j].email] = @ + 1]
    /\ Goto(j, "error")
    /\ UNCHANGED <<outbox, prepared, sweep, sends, tries, queued, key>>

\* Mutant: the last attempt is one too early.
FinalEarly(attempts) == attempts + 1 >= MaxAttempts

IsFinal(attempts) == attempts >= MaxAttempts

\* The number of attempts is that of this job, whatever the row says.
RecordError(j) ==
    /\ At(j, "error")
    /\ LET attempts == job[j].made + 1 IN
          outbox' = [outbox EXCEPT ![job[j].email] =
                        [status |-> IF IsFinal(attempts) THEN "FAILED" ELSE "PENDING",
                         attempts |-> attempts]]
    /\ tries' = [tries EXCEPT ![job[j].email] = @ + 1]
    /\ AttemptFails(j)
    /\ UNCHANGED <<prepared, sweep, sends, unrecorded, queued, faults, key>>

RecordErrorFails(j) ==
    /\ At(j, "error")
    /\ Fault
    /\ tries' = [tries EXCEPT ![job[j].email] = @ + 1]
    /\ AttemptFails(j)
    /\ UNCHANGED <<outbox, prepared, sweep, sends, unrecorded, queued, key>>

-----------------------------------------------------------------------------
\* EmailRetryTask.handleCron

\* Mutant: only rows that were tried already.
FindPendingBatchTried ==
    {e \in Emails : outbox[e].status = "PENDING" /\ outbox[e].attempts \in 1..(MaxAttempts - 1)}

FindPendingBatch ==
    {e \in Emails : outbox[e].status = "PENDING" /\ outbox[e].attempts < MaxAttempts}

BeginSweep ==
    /\ sweep = {}
    /\ FindPendingBatch # {}
    /\ sweep' = {<<e, outbox[e].attempts>> : e \in FindPendingBatch}
    /\ UNCHANGED <<outbox, prepared, job, sends, unrecorded, tries, queued, faults, key>>

\* Mutant: one attempt more than the budget has left.
RequeueOneMore(e, attempts) ==
    /\ <<e, attempts>> \in sweep
    /\ sweep' = sweep \ {<<e, attempts>>}
    /\ Add(e, MaxAttempts - attempts + 1, 1)
    /\ UNCHANGED <<outbox, prepared, sends, unrecorded, tries, faults, key>>

\* One turn of the loop, with the attempts that the sweep has read.
Requeue(e, attempts) ==
    /\ <<e, attempts>> \in sweep
    /\ sweep' = sweep \ {<<e, attempts>>}
    /\ Add(e, MaxAttempts - attempts, 1)
    /\ UNCHANGED <<outbox, prepared, sends, unrecorded, tries, faults, key>>

\* A failing add ends the loop.
SweepFails ==
    /\ sweep # {}
    /\ Fault
    /\ sweep' = {}
    /\ UNCHANGED <<outbox, prepared, job, sends, unrecorded, tries, queued, key>>

-----------------------------------------------------------------------------
\* What is in memory is lost; Bull finds the jobs that ran stalled.  The server
\* that starts instead reads its configuration, where the key may have come or gone.
Crash ==
    /\ Fault
    /\ prepared' = {}
    /\ sweep' = {}
    /\ job' = [j \in Jobs |->
                 IF job[j].pc \notin {"running", "sent", "error"} THEN job[j]
                 ELSE IF job[j].stalled THEN NoJob
                 ELSE [job[j] EXCEPT !.pc = "waiting", !.stalled = TRUE]]
    /\ unrecorded' = [e \in Emails |->
                        unrecorded[e] + Cardinality({j \in Jobs : At(j, "sent") /\ job[j].email = e})]
    /\ apiKey' \in BOOLEAN
    /\ UNCHANGED <<outbox, sends, tries, queued, keyless>>

Init ==
    /\ outbox = [e \in Emails |-> NoRow]
    /\ prepared = {}
    /\ job = [j \in Jobs |-> NoJob]
    /\ sweep = {}
    /\ sends = [e \in Emails |-> 0]
    /\ unrecorded = [e \in Emails |-> 0]
    /\ tries = [e \in Emails |-> 0]
    /\ queued = [e \in Emails |-> 0]
    /\ apiKey \in BOOLEAN
    /\ keyless = {}
    /\ faults = 0

Work(j) ==
    \/ StartJob(j)
    \/ RejectJob(j)
    \/ SendMail(j)
    \/ RecordSent(j)
    \/ RecordError(j)

Sweep == BeginSweep \/ \E e \in Emails, attempts \in 0..(MaxAttempts - 1) : Requeue(e, attempts)

Next ==
    \/ \E e \in Emails : PrepareNotification(e) \/ DispatchPrepared(e)
    \/ \E j \in Jobs : Work(j) \/ SendFails(j) \/ RecordSentFails(j) \/ RecordErrorFails(j)
    \/ Sweep
    \/ SweepFails
    \/ Crash

Spec == Init /\ [][Next]_vars

\* Bull runs every waiting job, the scheduler runs the sweep, the server goes on
\* after a crash.
Fairness == WF_vars(Sweep) /\ \A j \in Jobs : WF_vars(Work(j))

FairSpec == Spec /\ Fairness

-----------------------------------------------------------------------------
\* Properties

\* The rows, the queue and the counts have their types.
TypeOK ==
    /\ outbox \in [Emails -> Row \cup {NoRow}]
    /\ prepared \subseteq Emails
    /\ job \in [Jobs -> Job \cup {NoJob}]
    /\ sweep \subseteq Emails \X (0..(MaxAttempts - 1))
    /\ sends \in [Emails -> Nat]
    /\ unrecorded \in [Emails -> Nat]
    /\ tries \in [Emails -> Nat]
    /\ queued \in [Emails -> Nat]
    /\ apiKey \in BOOLEAN /\ keyless \subseteq Emails
    /\ faults \in 0..MaxFaults

\* An email is delivered at most once for every job queued for it and once more
\* for every delivery that could not be recorded: a job whose mail was recorded
\* never sends again, whatever else fails, stalls or is queued.
DeliveriesExplained ==
    \A e \in Emails : sends[e] <= queued[e] + unrecorded[e]

\* A row never claims a delivery that was not made.  It is given up only for its
\* address, for an attempt that found no API key (then at once, with attempts
\* left) or after as many failed attempts, of all its jobs together, as the
\* budget has.
OutboxIsHonest ==
    \A e \in Emails :
        /\ outbox[e].status = "SENT" => sends[e] > 0
        /\ outbox[e].status = "FAILED" => e \in Invalid \cup keyless \/ tries[e] >= MaxAttempts

\* Every row that was committed is in the end sent or given up, though its
\* dispatch, its job or the sweep was lost to a crash or to a failing call.
EventuallySettled ==
    \A e \in Emails : outbox[e].status = "PENDING" ~> outbox[e].status \in {"SENT", "FAILED"}

-----------------------------------------------------------------------------
\* What the repository says and the code does not do

\* "Sweep the durable outbox for rows that are still PENDING (or previously
\* FAILED) but have not exhausted the attempt budget, and re-enqueue them."
SweepTakesFailed ==
    [][sweep = {} /\ sweep' # {} =>
          \A e \in Emails :
              outbox[e].status \in {"PENDING", "FAILED"} /\ outbox[e].attempts < MaxAttempts =>
                  <<e, outbox[e].attempts>> \in sweep']_vars
=============================================================================
