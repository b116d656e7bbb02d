------------------------- MODULE EmailOutboxProofs -------------------------
(***************************************************************************)
(* Proofs about EmailOutbox, for any emails, workers, attempts and faults: *)
(* types, how often an email is delivered, and what its row may claim.     *)
(***************************************************************************)
EXTENDS EmailOutbox, FiniteSetTheorems, TLAPS

\* Jobs of email e that may still deliver it: once the mail is sent, a job only
\* comes back to this set when the delivery was not recorded.
IsOpen(x, e) == x.pc \in {"waiting", "running", "error"} /\ x.email = e
Open(e) == {j \in Jobs : IsOpen(job[j], e)}
Sent(e) == {j \in Jobs : At(j, "sent") /\ job[j].email = e}

\* The deliveries that open jobs may still make are explained, too.
Explained(e) == sends[e] + Cardinality(Open(e)) <= queued[e] + unrecorded[e]

Honest(e) ==
    /\ outbox[e].status = "SENT" => sends[e] > 0
    /\ outbox[e].status = "FAILED" => e \in Invalid \cup keyless \/ tries[e] >= MaxAttempts

\* What a job has behind it: failed attempts within its budget, each counted for
\* its email, and a delivery when it is to record one.
Behind(x, s, t) ==
    x # NoJob => /\ x.made < x.limit
                 /\ x.made <= t[x.email]
                 /\ x.pc = "sent" => s[x.email] > 0

JobsInv == \A j \in Jobs : Behind(job[j], sends, tries)

IInv ==
    /\ TypeOK
    /\ JobsInv
    /\ \A e \in Emails : Explained(e) /\ Honest(e)

-----------------------------------------------------------------------------
\* Sets of jobs are finite.
LEMMA JobSets ==
    /\ \A S \in SUBSET Jobs : IsFiniteSet(S) /\ Cardinality(S) \in Nat
    /\ \A S, T \in SUBSET Jobs : S \subseteq T => Cardinality(S) <= Cardinality(T)
    /\ \A S, T \in SUBSET Jobs : Cardinality(S \cup T) <= Cardinality(S) + Cardinality(T)
    /\ \A S \in SUBSET Jobs : \A j \in S : Cardinality(S \ {j}) = Cardinality(S) - 1
    /\ \A S \in SUBSET Jobs : \A j \in Jobs : Cardinality(S \cup {j}) <= Cardinality(S) + 1
<1>1. \A S \in SUBSET Jobs : IsFiniteSet(S) /\ Cardinality(S) \in Nat
  BY EmailAssumption, FS_Subset, FS_CardinalityType DEF EmailAssumption
<1>2. \A S, T \in SUBSET Jobs : S \subseteq T => Cardinality(S) <= Cardinality(T)
  BY <1>1, FS_Subset
<1>3. \A S, T \in SUBSET Jobs : Cardinality(S \cup T) <= Cardinality(S) + Cardinality(T)
  <2> SUFFICES ASSUME NEW S \in SUBSET Jobs, NEW T \in SUBSET Jobs
               PROVE  Cardinality(S \cup T) <= Cardinality(S) + Cardinality(T)
    OBVIOUS
  <2>1. S \cap T \in SUBSET Jobs /\ S \cup T \in SUBSET Jobs
    OBVIOUS
  <2>2. Cardinality(S \cup T) = Cardinality(S) + Cardinality(T) - Cardinality(S \cap T)
    BY <1>1, FS_Union
  <2>3. /\ Cardinality(S) \in Nat /\ Cardinality(T) \in Nat
        /\ Cardinality(S \cap T) \in Nat /\ Cardinality(S \cup T) \in Nat
    BY <1>1, <2>1
  <2> QED BY <2>2, <2>3
<1>4. \A S \in SUBSET Jobs : \A j \in S : Cardinality(S \ {j}) = Cardinality(S) - 1
  BY <1>1, FS_RemoveElement
<1>5. \A S \in SUBSET Jobs : \A j \in Jobs : Cardinality(S \cup {j}) <= Cardinality(S) + 1
  <2> SUFFICES ASSUME NEW S \in SUBSET Jobs, NEW j \in Jobs
               PROVE  Cardinality(S \cup {j}) <= Cardinality(S) + 1
    OBVIOUS
  <2>1. {j} \in SUBSET Jobs /\ Cardinality({j}) = 1
    BY FS_Singleton
  <2> QED BY <1>3, <2>1
<1> QED BY <1>1, <1>2, <1>3, <1>4, <1>5

LEMMA OpenCounts ==
    \A e : /\ Open(e) \in SUBSET Jobs /\ Sent(e) \in SUBSET Jobs
           /\ Cardinality(Open(e)) \in Nat /\ Cardinality(Sent(e)) \in Nat
<1>1. \A e : Open(e) \in SUBSET Jobs /\ Sent(e) \in SUBSET Jobs
  BY DEF Open, Sent
<1> QED BY <1>1, JobSets

LEMMA OpenCountsNext ==
    \A e : Open(e)' \in SUBSET Jobs /\ Cardinality(Open(e)') \in Nat
<1>1. \A e : Open(e)' \in SUBSET Jobs
  BY DEF Open
<1> QED BY <1>1, JobSets

\* A job in the queue and the counts of its email.
LEMMA JobFields ==
    ASSUME TypeOK, NEW j \in Jobs, ~At(j, "none")
    PROVE  /\ job[j] # NoJob /\ job[j] \in Job /\ job[j].email \in Emails
           /\ job[j].made \in Nat /\ job[j].limit \in 1..MaxAttempts
           /\ job[j].stalled \in BOOLEAN
<1>1. job[j] \in Job \cup {NoJob}
  BY DEF TypeOK
<1>2. job[j] # NoJob
  BY DEF NoJob, At
<1> QED BY <1>1, <1>2 DEF Job

LEMMA Counts ==
    ASSUME TypeOK, NEW e \in Emails
    PROVE  /\ sends[e] \in Nat /\ unrecorded[e] \in Nat /\ tries[e] \in Nat /\ queued[e] \in Nat
           /\ outbox[e] \in Row \cup {NoRow} /\ MaxAttempts \in Nat \ {0}
BY EmailAssumption DEF TypeOK, EmailAssumption

\* Job j becomes x, the others stay as they are.
Becomes(j, x) ==
    /\ job' \in [Jobs -> Job \cup {NoJob}]
    /\ job'[j] = x
    /\ \A i \in Jobs \ {j} : job'[i] = job[i]

LEMMA JobBecomes ==
    ASSUME TypeOK, NEW j \in Jobs, NEW x \in Job \cup {NoJob}, job' = [job EXCEPT ![j] = x]
    PROVE  Becomes(j, x)
BY DEF TypeOK, Becomes

LEMMA GotoBecomes ==
    ASSUME TypeOK, NEW j \in Jobs, ~At(j, "none"),
           NEW pc \in {"waiting", "running", "sent", "error"}, Goto(j, pc)
    PROVE  /\ Becomes(j, [job[j] EXCEPT !.pc = pc])
           /\ [job[j] EXCEPT !.pc = pc] \in Job
<1> DEFINE x == [job[j] EXCEPT !.pc = pc]
<1>1. x \in Job
  BY JobFields DEF Job
<1>2. job' = [job EXCEPT ![j] = x]
  BY DEF Goto
<1> HIDE DEF x
<1>3. Becomes(j, x)
  BY <1>1, <1>2, JobBecomes
<1> QED BY <1>1, <1>3 DEF x

\* What the move of one job does to the open jobs.
LEMMA BecomesOpen ==
    ASSUME NEW j \in Jobs, NEW x, Becomes(j, x), NEW e
    PROVE  Open(e)' = IF IsOpen(x, e) THEN Open(e) \cup {j} ELSE Open(e) \ {j}
<1>1. \A i \in Jobs : job'[i] = IF i = j THEN x ELSE job[i]
  BY DEF Becomes
<1> QED BY <1>1 DEF Open, IsOpen

\* Bull gives the job up, or keeps it with one failed attempt more.
LEMMA AttemptFailsBecomes ==
    ASSUME TypeOK, NEW j \in Jobs, ~At(j, "none"), job[j].made < job[j].limit, AttemptFails(j)
    PROVE  \E x \in Job \cup {NoJob} :
              /\ Becomes(j, x)
              /\ x # NoJob => /\ x.email = job[j].email /\ x.pc = "waiting"
                              /\ x.made = job[j].made + 1 /\ x.made < x.limit
<1>1. job[j] \in Job /\ job[j].made \in Nat
  BY JobFields
<1>2. CASE job[j].made + 1 < job[j].limit
  <2> DEFINE x == [job[j] EXCEPT !.pc = "waiting", !.made = @ + 1]
  <2>1. /\ x \in Job /\ x.email = job[j].email /\ x.pc = "waiting"
        /\ x.made = job[j].made + 1 /\ x.made < x.limit
    <3> DEFINE n == job[j].made + 1
               y == [job[j] EXCEPT !.pc = "waiting"]
    <3>1. n \in Nat /\ n < job[j].limit /\ job[j].made + 1 = n
      BY <1>1, <1>2
    <3>2. y \in Job /\ y.email = job[j].email /\ y.pc = "waiting" /\ y.limit = job[j].limit
      BY <1>1 DEF Job
    <3>3. x = [y EXCEPT !.made = n]
      BY <1>1 DEF Job
    <3> HIDE DEF n, y
    <3>4. [y EXCEPT !.made = n] \in Job
      BY <3>1, <3>2 DEF Job
    <3> QED BY <3>1, <3>2, <3>3, <3>4 DEF Job
  <2>2. job' = [job EXCEPT ![j] = x]
    BY <1>2 DEF AttemptFails
  <2> HIDE DEF x
  <2>3. Becomes(j, x)
    BY <2>1, <2>2, JobBecomes
  <2> QED BY <2>1, <2>3
<1>3. CASE ~(job[j].made + 1 < job[j].limit)
  <2>1. job' = [job EXCEPT ![j] = NoJob]
    BY <1>3 DEF AttemptFails
  <2>2. Becomes(j, NoJob)
    BY <2>1, JobBecomes
  <2> QED BY <2>2
<1> QED BY <1>2, <1>3

\* One more for email e.
LEMMA CountUp ==
    ASSUME NEW f \in [Emails -> Nat], NEW e \in Emails, NEW n \in Nat
    PROVE  /\ [f EXCEPT ![e] = @ + n] \in [Emails -> Nat]
           /\ [f EXCEPT ![e] = @ + n][e] = f[e] + n
           /\ \A d \in Emails \ {e} : [f EXCEPT ![e] = @ + n][d] = f[d]
OBVIOUS

\* A step of the worker of job j disturbs the counts and the row of its email only.
LEMMA WorkerKeeps ==
    ASSUME IInv, NEW j \in Jobs, NEW e \in Emails, job[j].email = e,
           NEW x, Becomes(j, x), x # NoJob => x.email = e,
           \A d \in Emails \ {e} : /\ outbox'[d] = outbox[d] /\ sends'[d] = sends[d]
                                   /\ unrecorded'[d] = unrecorded[d] /\ tries'[d] = tries[d]
                                   /\ queued'[d] = queued[d],
           sends'[e] \in Nat, tries'[e] \in Nat, sends'[e] >= sends[e], tries'[e] >= tries[e],
           keyless \subseteq keyless', Behind(x, sends', tries'), Explained(e)', Honest(e)'
    PROVE  JobsInv' /\ \A d \in Emails : Explained(d)' /\ Honest(d)'
<1>1. ASSUME NEW d \in Emails, d # e PROVE Explained(d)' /\ Honest(d)'
  <2>1. Open(d)' = Open(d)
    <3>1. ~IsOpen(job[j], d) /\ ~IsOpen(x, d)
      BY <1>1 DEF IsOpen, NoJob
    <3> QED BY <3>1, BecomesOpen DEF Open
  <2>2. Explained(d) /\ Honest(d)
    BY DEF IInv
  <2> QED BY <1>1, <2>1, <2>2 DEF Explained, Honest
<1>2. ASSUME NEW i \in Jobs PROVE Behind(job'[i], sends', tries')
  <2>1. CASE i = j
    BY <2>1 DEF Becomes
  <2>2. CASE i # j /\ job[i] # NoJob
    <3>1. job'[i] = job[i] /\ Behind(job[i], sends, tries) /\ ~At(i, "none")
      <4>1. job[i] \in Job
        BY <2>2 DEF IInv, TypeOK
      <4> QED BY <2>2, <4>1 DEF Becomes, IInv, JobsInv, At, Job
    <3>2. job[i].email \in Emails /\ job[i].made \in Nat
      BY <3>1, JobFields DEF IInv
    <3>3. /\ sends[job[i].email] \in Nat /\ tries[job[i].email] \in Nat
          /\ sends'[job[i].email] >= sends[job[i].email] /\ sends'[job[i].email] \in Nat
          /\ tries'[job[i].email] >= tries[job[i].email] /\ tries'[job[i].email] \in Nat
      BY <3>2, Counts DEF IInv
    <3> QED BY <2>2, <3>1, <3>2, <3>3 DEF Behind
  <2>3. CASE i # j /\ job[i] = NoJob
    BY <2>3 DEF Becomes, Behind
  <2> QED BY <2>1, <2>2, <2>3
<1> QED BY <1>1, <1>2 DEF JobsInv

\* Where the worker of job j stands.
LEMMA WorkerFacts ==
    ASSUME IInv, NEW j \in Jobs, ~At(j, "none")
    PROVE  /\ job[j] \in Job /\ job[j].email \in Emails
           /\ job[j].made \in Nat /\ job[j].limit \in 1..MaxAttempts
           /\ job[j].made < job[j].limit /\ job[j].made <= tries[job[j].email]
           /\ At(j, "sent") => sends[job[j].email] > 0
           /\ Explained(job[j].email) /\ Honest(job[j].email)
BY JobFields DEF IInv, JobsInv, Behind, At

\* While job j is open, or its mail was sent, and stops to be.
LEMMA OpenChange ==
    ASSUME TypeOK, NEW j \in Jobs, NEW e \in Emails, ~At(j, "none"), job[j].email = e,
           NEW x, Becomes(j, x), x # NoJob => x.email = e
    PROVE  /\ Cardinality(Open(e)) \in Nat /\ Cardinality(Open(e)') \in Nat
           /\ ~At(j, "sent") => Cardinality(Open(e)') <= Cardinality(Open(e))
           /\ ~At(j, "sent") /\ x.pc = "sent" => Cardinality(Open(e)') = Cardinality(Open(e)) - 1
           /\ At(j, "sent") => Cardinality(Open(e)') <= Cardinality(Open(e)) + 1
           /\ At(j, "sent") /\ x = NoJob => Open(e)' = Open(e)
<1>1. Open(e) \in SUBSET Jobs /\ Open(e)' = IF IsOpen(x, e) THEN Open(e) \cup {j} ELSE Open(e) \ {j}
  BY OpenCounts, BecomesOpen
<1>2. j \in Open(e) <=> ~At(j, "sent")
  BY JobFields DEF Open, IsOpen, At, Job
<1>3. /\ Cardinality(Open(e)) \in Nat /\ Cardinality(Open(e)') \in Nat
      /\ Cardinality(Open(e) \cup {j}) <= Cardinality(Open(e)) + 1
      /\ j \in Open(e) => Cardinality(Open(e) \ {j}) = Cardinality(Open(e)) - 1
  BY <1>1, OpenCounts, OpenCountsNext, JobSets
<1>4. ~At(j, "sent") => Open(e) \cup {j} = Open(e)
  BY <1>2
<1>5. At(j, "sent") => Open(e) \ {j} = Open(e)
  BY <1>2
<1>6. /\ x.pc = "sent" => ~IsOpen(x, e)
      /\ x = NoJob => ~IsOpen(x, e)
  BY DEF IsOpen, NoJob
<1>7. CASE ~At(j, "sent")
  <2>1. CASE IsOpen(x, e)
    <3>1. Open(e)' = Open(e) /\ x.pc # "sent"
      BY <1>1, <1>4, <1>6, <1>7, <2>1
    <3>2. Cardinality(Open(e)') = Cardinality(Open(e))
      BY <3>1
    <3> QED BY <1>3, <1>7, <3>1, <3>2
  <2>2. CASE ~IsOpen(x, e)
    <3>1. Open(e)' = Open(e) \ {j} /\ j \in Open(e)
      BY <1>1, <1>2, <1>7, <2>2
    <3>2. Cardinality(Open(e)') = Cardinality(Open(e)) - 1
      BY <1>3, <3>1
    <3> QED BY <1>3, <1>7, <3>2
  <2> QED BY <2>1, <2>2
<1>8. CASE At(j, "sent")
  <2>1. CASE IsOpen(x, e)
    <3>1. Open(e)' = Open(e) \cup {j} /\ x # NoJob
      BY <1>1, <1>6, <2>1
    <3>2. Cardinality(Open(e)') <= Cardinality(Open(e)) + 1
      BY <1>3, <3>1
    <3> QED BY <1>3, <1>8, <3>1, <3>2
  <2>2. CASE ~IsOpen(x, e)
    <3>1. Open(e)' = Open(e)
      BY <1>1, <1>5, <1>8, <2>2
    <3>2. Cardinality(Open(e)') = Cardinality(Open(e))
      BY <3>1
    <3> QED BY <1>3, <1>8, <3>1, <3>2
  <2> QED BY <2>1, <2>2
<1> QED BY <1>7, <1>8

-----------------------------------------------------------------------------
\* Steps that leave the queue and the counts alone.
LEMMA QueueKept ==
    ASSUME IInv, UNCHANGED <<job, sends, unrecorded, tries, queued>>
    PROVE  JobsInv' /\ \A e \in Emails : Explained(e)'
<1>1. \A e \in Emails : Open(e)' = Open(e)
  BY DEF Open, IsOpen
<1>2. \A e \in Emails : Explained(e)'
  BY <1>1 DEF IInv, Explained
<1>3. JobsInv'
  BY DEF IInv, JobsInv, Behind, NoJob
<1> QED BY <1>2, <1>3

LEMMA RowsKept ==
    ASSUME IInv, UNCHANGED <<outbox, sends, tries>>, keyless \subseteq keyless'
    PROVE  \A e \in Emails : Honest(e)'
BY DEF IInv, Honest

LEMMA FaultTypes ==
    ASSUME TypeOK, Fault
    PROVE  faults' \in 0..MaxFaults
BY EmailAssumption DEF Fault, TypeOK, EmailAssumption

LEMMA PrepareStep ==
    ASSUME IInv, NEW e \in Emails, PrepareNotification(e)
    PROVE  IInv'
<1>1. /\ UNCHANGED <<job, sweep, sends, unrecorded, tries, queued, faults, apiKey, keyless>>
      /\ outbox' = [outbox EXCEPT ![e] = [status |-> "PENDING", attempts |-> 0]]
      /\ prepared' = prepared \cup {e}
  BY DEF key, PrepareNotification
<1>2. [status |-> "PENDING", attempts |-> 0] \in Row
  BY EmailAssumption DEF EmailAssumption, Row
<1>3. TypeOK'
  BY <1>1, <1>2 DEF IInv, TypeOK
<1>4. \A d \in Emails : Honest(d)'
  <2>1. outbox \in [Emails -> Row \cup {NoRow}]
    BY DEF IInv, TypeOK
  <2> QED BY <1>1, <2>1 DEF IInv, Honest
<1> QED BY <1>1, <1>3, <1>4, QueueKept DEF IInv

\* New jobs come with what they may deliver.
LEMMA AddKeeps ==
    ASSUME IInv, NEW e \in Emails, NEW limit \in 1..MaxAttempts, NEW n \in Nat,
           Add(e, limit, n), UNCHANGED <<outbox, sends, unrecorded, tries, keyless>>
    PROVE  /\ job' \in [Jobs -> Job \cup {NoJob}] /\ queued' \in [Emails -> Nat]
           /\ JobsInv' /\ \A d \in Emails : Explained(d)' /\ Honest(d)'
<1>1. PICK free \in SUBSET {j \in Jobs : job[j] = NoJob} :
         /\ Cardinality(free) = n
         /\ job' = [j \in Jobs |-> IF j \in free THEN NewJob(e, limit) ELSE job[j]]
  BY DEF Add
<1>2. queued' = [queued EXCEPT ![e] = @ + n] /\ TypeOK
  BY DEF Add, IInv
<1>3. NewJob(e, limit) \in Job /\ NewJob(e, limit) # NoJob
  <2>1. NewJob(e, limit) \in Job
    BY DEF NewJob, Job
  <2> QED BY <2>1 DEF NewJob, NoJob
<1>4. job' \in [Jobs -> Job \cup {NoJob}]
  BY <1>1, <1>2, <1>3 DEF TypeOK
<1>5. /\ queued' \in [Emails -> Nat] /\ queued'[e] = queued[e] + n
      /\ \A d \in Emails \ {e} : queued'[d] = queued[d]
  <2>1. queued \in [Emails -> Nat]
    BY <1>2 DEF TypeOK
  <2> QED BY <1>2, <2>1, CountUp
<1>6. JobsInv'
  <2> SUFFICES ASSUME NEW j \in Jobs PROVE Behind(job'[j], sends, tries)
    BY DEF JobsInv, Behind, NoJob
  <2>1. CASE j \in free
    <3>1. job'[j] = NewJob(e, limit) /\ tries[e] \in Nat /\ limit \in Nat /\ limit >= 1
      BY <1>1, <1>2, <2>1, Counts
    <3> QED BY <3>1 DEF Behind, NewJob
  <2>2. CASE j \notin free
    BY <1>1, <2>2 DEF IInv, JobsInv
  <2> QED BY <2>1, <2>2
<1>7. free \in SUBSET Jobs
  OBVIOUS
<1>8. Open(e)' \subseteq Open(e) \cup free
  BY <1>1 DEF Open
<1>9. Explained(e)'
  <2>1. /\ Cardinality(Open(e)') <= Cardinality(Open(e) \cup free)
        /\ Cardinality(Open(e) \cup free) <= Cardinality(Open(e)) + n
        /\ Cardinality(Open(e)') \in Nat /\ Cardinality(Open(e) \cup free) \in Nat
        /\ Cardinality(Open(e)) \in Nat
    <3>1. Open(e) \cup free \in SUBSET Jobs
      BY OpenCounts
    <3> QED BY <1>1, <1>7, <1>8, <3>1, JobSets, OpenCounts, OpenCountsNext
  <2>2. /\ sends[e] \in Nat /\ unrecorded[e] \in Nat /\ queued[e] \in Nat
        /\ sends[e] + Cardinality(Open(e)) <= queued[e] + unrecorded[e]
    BY <1>2, Counts DEF IInv, Explained
  <2> QED BY <1>5, <2>1, <2>2 DEF Explained
<1>10. ASSUME NEW d \in Emails, d # e PROVE Explained(d)'
  <2>1. \A j \in Jobs : IsOpen(job'[j], d) <=> IsOpen(job[j], d)
    <3> SUFFICES ASSUME NEW j \in Jobs PROVE IsOpen(job'[j], d) <=> IsOpen(job[j], d)
      OBVIOUS
    <3>1. CASE j \in free
      <4>1. job[j] = NoJob /\ job'[j] = NewJob(e, limit)
        BY <1>1, <3>1
      <4> QED BY <1>10, <4>1 DEF IsOpen, NoJob, NewJob
    <3>2. CASE j \notin free
      BY <1>1, <3>2
    <3> QED BY <3>1, <3>2
  <2>2. Open(d)' = Open(d)
    BY <2>1 DEF Open, IsOpen
  <2> QED BY <1>5, <1>10, <2>2 DEF IInv, Explained
<1> QED BY <1>4, <1>5, <1>6, <1>9, <1>10, RowsKept

LEMMA DispatchStep ==
    ASSUME IInv, NEW e \in Emails, DispatchPrepared(e)
    PROVE  IInv'
<1>1. /\ UNCHANGED <<outbox, sweep, sends, unrecorded, tries, apiKey, keyless>>
      /\ prepared' \subseteq Emails
      /\ TypeOK
  BY DEF key, DispatchPrepared, IInv, TypeOK
<1>2. faults' \in 0..MaxFaults
  BY <1>1, FaultTypes DEF DispatchPrepared, TypeOK
<1>3. /\ job' \in [Jobs -> Job \cup {NoJob}] /\ queued' \in [Emails -> Nat]
      /\ JobsInv' /\ \A d \in Emails : Explained(d)' /\ Honest(d)'
  <2>1. MaxAttempts \in 1..MaxAttempts
    BY EmailAssumption DEF EmailAssumption
  <2>2. CASE \E n \in {1, 2} : Add(e, MaxAttempts, n)
    <3>1. PICK n \in {1, 2} : Add(e, MaxAttempts, n)
      BY <2>2
    <3> QED BY <1>1, <2>1, <3>1, AddKeeps
  <2>3. CASE UNCHANGED <<job, queued>>
    BY <1>1, <2>3, QueueKept, RowsKept DEF TypeOK
  <2> QED BY <2>2, <2>3 DEF DispatchPrepared
<1> QED BY <1>1, <1>2, <1>3 DEF IInv, TypeOK

LEMMA RequeueStep ==
    ASSUME IInv, NEW e \in Emails, NEW attempts \in 0..(MaxAttempts - 1), Requeue(e, attempts)
    PROVE  IInv'
<1>1. /\ UNCHANGED <<outbox, prepared, sends, unrecorded, tries, faults, apiKey, keyless>>
      /\ sweep' \subseteq Emails \X (0..(MaxAttempts - 1))
      /\ Add(e, MaxAttempts - attempts, 1) /\ TypeOK
  BY DEF key, Requeue, IInv, TypeOK
<1>2. MaxAttempts - attempts \in 1..MaxAttempts
  BY EmailAssumption DEF EmailAssumption
<1>3. /\ job' \in [Jobs -> Job \cup {NoJob}] /\ queued' \in [Emails -> Nat]
      /\ JobsInv' /\ \A d \in Emails : Explained(d)' /\ Honest(d)'
  BY <1>1, <1>2, AddKeeps
<1> QED BY <1>1, <1>3 DEF IInv, TypeOK

LEMMA SweepStep ==
    ASSUME IInv, BeginSweep \/ SweepFails
    PROVE  IInv'
<1>1. UNCHANGED <<outbox, prepared, job, sends, unrecorded, tries, queued, apiKey, keyless>> /\ TypeOK
  BY DEF key, BeginSweep, SweepFails, IInv
<1>2. faults' \in 0..MaxFaults
  BY <1>1, FaultTypes DEF BeginSweep, SweepFails, TypeOK
<1>3. sweep' \subseteq Emails \X (0..(MaxAttempts - 1))
  <2>1. CASE BeginSweep
    <3>1. ASSUME NEW e \in FindPendingBatch PROVE <<e, outbox[e].attempts>> \in Emails \X (0..(MaxAttempts - 1))
      <4>1. e \in Emails /\ outbox[e].status = "PENDING" /\ outbox[e].attempts < MaxAttempts
        BY DEF FindPendingBatch
      <4>2. outbox[e] \in Row
        BY <1>1, <4>1, Counts DEF NoRow
      <4>3. outbox[e].attempts \in 0..(MaxAttempts - 1)
        BY <4>1, <4>2, EmailAssumption DEF Row, EmailAssumption
      <4> QED BY <4>1, <4>3
    <3> QED BY <2>1, <3>1 DEF BeginSweep
  <2>2. CASE SweepFails
    BY <2>2 DEF SweepFails
  <2> QED BY <2>1, <2>2
<1>4. JobsInv' /\ \A e \in Emails : Explained(e)' /\ Honest(e)'
  BY <1>1, QueueKept, RowsKept
<1> QED BY <1>1, <1>2, <1>3, <1>4 DEF IInv, TypeOK

-----------------------------------------------------------------------------
\* The worker.

LEMMA StartStep ==
    ASSUME IInv, NEW j \in Jobs, StartJob(j)
    PROVE  IInv'
<1>1. /\ UNCHANGED <<outbox, prepared, sweep, sends, unrecorded, tries, queued, faults, apiKey, keyless>>
      /\ At(j, "waiting") /\ ~At(j, "none") /\ ~At(j, "sent") /\ Goto(j, "running") /\ TypeOK
  BY DEF key, StartJob, At, IInv
<1>2. PICK e \in Emails : job[j].email = e
  BY <1>1, JobFields
<1>3. PICK x \in Job : /\ Becomes(j, x) /\ x.email = e /\ x.pc = "running"
                       /\ x.made = job[j].made /\ x.limit = job[j].limit
  BY <1>1, <1>2, GotoBecomes, JobFields DEF Job
<1>4. Behind(x, sends', tries')
  BY <1>1, <1>2, <1>3, WorkerFacts DEF Behind
<1>5. Explained(e)' /\ Honest(e)'
  <2>1. Cardinality(Open(e)') <= Cardinality(Open(e))
        /\ Cardinality(Open(e)') \in Nat /\ Cardinality(Open(e)) \in Nat
    BY <1>1, <1>2, <1>3, OpenChange
  <2>2. Explained(e) /\ Honest(e)
    BY DEF IInv
  <2> QED BY <1>1, <2>1, <2>2, Counts DEF Explained, Honest
<1>6. JobsInv' /\ \A d \in Emails : Explained(d)' /\ Honest(d)'
  <2>1. sends[e] \in Nat /\ tries[e] \in Nat
    BY <1>1, Counts
  <2> QED BY <1>1, <1>2, <1>3, <1>4, <1>5, <2>1, WorkerKeeps
<1> QED BY <1>1, <1>3, <1>6 DEF IInv, TypeOK, Becomes

\* A failed attempt counts, and may mark the row.
LEMMA FailedAttempt ==
    ASSUME IInv, NEW j \in Jobs, ~At(j, "none"), ~At(j, "sent"), NEW e \in Emails,
           job[j].email = e, AttemptFails(j), tries' = [tries EXCEPT ![e] = @ + 1],
           UNCHANGED <<sends, unrecorded, queued>>,
           \A d \in Emails \ {e} : outbox'[d] = outbox[d],
           keyless \subseteq keyless', Honest(e)'
    PROVE  /\ job' \in [Jobs -> Job \cup {NoJob}] /\ tries' \in [Emails -> Nat]
           /\ JobsInv' /\ \A d \in Emails : Explained(d)' /\ Honest(d)'
<1>1. TypeOK /\ tries \in [Emails -> Nat]
  BY DEF IInv, TypeOK
<1>2. PICK x \in Job \cup {NoJob} :
         /\ Becomes(j, x)
         /\ x # NoJob => /\ x.email = e /\ x.pc = "waiting"
                         /\ x.made = job[j].made + 1 /\ x.made < x.limit
  BY <1>1, WorkerFacts, AttemptFailsBecomes
<1>3. /\ tries' \in [Emails -> Nat] /\ tries'[e] = tries[e] + 1
      /\ \A d \in Emails \ {e} : tries'[d] = tries[d]
  BY <1>1, CountUp
<1>4. tries[e] \in Nat /\ tries'[e] \in Nat /\ sends[e] \in Nat /\ queued[e] \in Nat /\ unrecorded[e] \in Nat
      /\ tries'[e] >= tries[e] /\ sends'[e] = sends[e]
  BY <1>1, <1>3, Counts
<1>5. Behind(x, sends', tries')
  <2>1. job[j].made \in Nat /\ job[j].made <= tries[e]
    BY WorkerFacts
  <2> QED BY <1>2, <1>3, <1>4, <2>1 DEF Behind
<1>6. Explained(e)'
  <2>1. Cardinality(Open(e)') <= Cardinality(Open(e))
        /\ Cardinality(Open(e)') \in Nat /\ Cardinality(Open(e)) \in Nat
    BY <1>1, <1>2, OpenChange
  <2>2. Explained(e)
    BY DEF IInv
  <2> QED BY <1>4, <2>1, <2>2 DEF Explained
<1>7. JobsInv' /\ \A d \in Emails : Explained(d)' /\ Honest(d)'
  <2>1. \A d \in Emails \ {e} : /\ outbox'[d] = outbox[d] /\ sends'[d] = sends[d]
                                /\ unrecorded'[d] = unrecorded[d] /\ tries'[d] = tries[d]
                                /\ queued'[d] = queued[d]
    BY <1>3
  <2>2. sends'[e] \in Nat /\ tries'[e] \in Nat /\ sends'[e] >= sends[e] /\ tries'[e] >= tries[e]
    BY <1>3, <1>4
  <2>3. Becomes(j, x) /\ (x # NoJob => x.email = e)
    BY <1>2
  <2> QED BY <1>5, <1>6, <2>1, <2>2, <2>3, WorkerKeeps
<1> QED BY <1>2, <1>3, <1>7 DEF Becomes

LEMMA RejectStep ==
    ASSUME IInv, NEW j \in Jobs, RejectJob(j)
    PROVE  IInv'
<1>1. /\ UNCHANGED <<prepared, sweep, sends, unrecorded, queued, apiKey>> /\ AttemptFails(j)
      /\ At(j, "waiting") /\ ~At(j, "none") /\ ~At(j, "sent") /\ TypeOK
  BY DEF key, RejectJob, At, IInv
<1>2. PICK e \in Emails : job[j].email = e
  BY <1>1, JobFields
<1>3. /\ tries' = [tries EXCEPT ![e] = @ + 1]
      /\ keyless \subseteq keyless' /\ keyless' \subseteq Emails /\ e \in Invalid \cup keyless'
  BY <1>1, <1>2 DEF RejectJob, TypeOK
<1>4. faults' \in 0..MaxFaults
  BY <1>1, FaultTypes DEF RejectJob, TypeOK
<1>5. /\ outbox' \in [Emails -> Row \cup {NoRow}]
      /\ \A d \in Emails \ {e} : outbox'[d] = outbox[d]
      /\ outbox'[e].status = "FAILED" \/ outbox'[e] = outbox[e]
  <2>1. outbox \in [Emails -> Row \cup {NoRow}]
    BY <1>1 DEF TypeOK
  <2>2. CASE UNCHANGED outbox
    BY <2>1, <2>2
  <2>3. CASE outbox' = [outbox EXCEPT ![e].status = "FAILED"]
    <3> DEFINE w == [outbox[e] EXCEPT !.status = "FAILED"]
    <3>1. w \in Row /\ w.status = "FAILED"
      <4>1. CASE outbox[e] \in Row
        BY <4>1 DEF Row
      <4>2. CASE outbox[e] = NoRow
        BY <4>2, EmailAssumption DEF NoRow, Row, EmailAssumption
      <4> QED BY <2>1, <4>1, <4>2
    <3>2. outbox' = [outbox EXCEPT ![e] = w]
      BY <2>3
    <3> HIDE DEF w
    <3> QED BY <2>1, <3>1, <3>2
  <2> QED BY <1>2, <2>2, <2>3 DEF RejectJob
<1>6. Honest(e)'
  <2>1. Honest(e)
    BY DEF IInv
  <2> QED BY <1>1, <1>3, <1>5, <2>1 DEF Honest
<1>7. /\ job' \in [Jobs -> Job \cup {NoJob}] /\ tries' \in [Emails -> Nat]
      /\ JobsInv' /\ \A d \in Emails : Explained(d)' /\ Honest(d)'
  BY <1>1, <1>2, <1>3, <1>5, <1>6, FailedAttempt
<1> QED BY <1>1, <1>3, <1>4, <1>5, <1>7 DEF IInv, TypeOK

LEMMA RecordErrorStep ==
    ASSUME IInv, NEW j \in Jobs, RecordError(j)
    PROVE  IInv'
<1>1. /\ UNCHANGED <<prepared, sweep, sends, unrecorded, queued, faults, apiKey, keyless>> /\ AttemptFails(j)
      /\ At(j, "error") /\ ~At(j, "none") /\ ~At(j, "sent") /\ TypeOK
  BY DEF key, RecordError, At, IInv
<1>2. PICK e \in Emails : job[j].email = e
  BY <1>1, JobFields
<1> DEFINE n == job[j].made + 1
           w == [status |-> IF IsFinal(n) THEN "FAILED" ELSE "PENDING", attempts |-> n]
<1>3. outbox' = [outbox EXCEPT ![e] = w] /\ tries' = [tries EXCEPT ![e] = @ + 1]
  BY <1>2 DEF RecordError
<1>4. /\ n \in 0..MaxAttempts /\ tries[e] \in Nat /\ n <= tries[e] + 1
      /\ outbox \in [Emails -> Row \cup {NoRow}] /\ tries \in [Emails -> Nat]
  <2>1. /\ job[j].made \in Nat /\ job[j].limit \in 1..MaxAttempts /\ job[j].made < job[j].limit
        /\ job[j].made <= tries[e]
    BY <1>1, <1>2, WorkerFacts
  <2>2. MaxAttempts \in Nat
    BY EmailAssumption DEF EmailAssumption
  <2> QED BY <1>1, <2>1, <2>2, Counts DEF TypeOK
<1>5. w \in Row /\ (w.status = "FAILED" => n >= MaxAttempts) /\ w.status # "SENT"
  BY <1>4 DEF Row, IsFinal
<1> HIDE DEF n, w
<1>6. /\ outbox' \in [Emails -> Row \cup {NoRow}] /\ outbox'[e] = w
      /\ \A d \in Emails \ {e} : outbox'[d] = outbox[d]
  BY <1>3, <1>4, <1>5
<1>7. tries'[e] = tries[e] + 1
  BY <1>3, <1>4
<1>8. Honest(e)'
  <2>1. MaxAttempts \in Nat /\ n \in Nat
    BY <1>4, EmailAssumption DEF EmailAssumption
  <2> QED BY <1>4, <1>5, <1>6, <1>7, <2>1 DEF Honest
<1>9. /\ job' \in [Jobs -> Job \cup {NoJob}] /\ tries' \in [Emails -> Nat]
      /\ JobsInv' /\ \A d \in Emails : Explained(d)' /\ Honest(d)'
  BY <1>1, <1>2, <1>3, <1>6, <1>8, FailedAttempt
<1> QED BY <1>1, <1>6, <1>9 DEF IInv, TypeOK

LEMMA RecordErrorFailsStep ==
    ASSUME IInv, NEW j \in Jobs, RecordErrorFails(j)
    PROVE  IInv'
<1>1. /\ UNCHANGED <<outbox, prepared, sweep, sends, unrecorded, queued, apiKey, keyless>> /\ AttemptFails(j)
      /\ At(j, "error") /\ ~At(j, "none") /\ ~At(j, "sent") /\ TypeOK
  BY DEF key, RecordErrorFails, At, IInv
<1>2. PICK e \in Emails : job[j].email = e
  BY <1>1, JobFields
<1>3. tries' = [tries EXCEPT ![e] = @ + 1] /\ faults' \in 0..MaxFaults
  BY <1>1, <1>2, FaultTypes DEF RecordErrorFails
<1>4. Honest(e)'
  <2>1. tries'[e] = tries[e] + 1 /\ tries[e] \in Nat /\ MaxAttempts \in Nat
    BY <1>1, <1>3, Counts DEF TypeOK
  <2>2. Honest(e)
    BY DEF IInv
  <2> QED BY <1>1, <2>1, <2>2 DEF Honest
<1>5. /\ job' \in [Jobs -> Job \cup {NoJob}] /\ tries' \in [Emails -> Nat]
      /\ JobsInv' /\ \A d \in Emails : Explained(d)' /\ Honest(d)'
  BY <1>1, <1>2, <1>3, <1>4, FailedAttempt
<1> QED BY <1>1, <1>3, <1>5 DEF IInv, TypeOK

LEMMA SendStep ==
    ASSUME IInv, NEW j \in Jobs, SendMail(j)
    PROVE  IInv'
<1>1. /\ UNCHANGED <<outbox, prepared, sweep, unrecorded, tries, queued, faults, apiKey, keyless>>
      /\ At(j, "running") /\ ~At(j, "none") /\ ~At(j, "sent") /\ Goto(j, "sent") /\ TypeOK
      /\ sends \in [Emails -> Nat]
  BY DEF key, SendMail, At, IInv, TypeOK
<1>2. PICK e \in Emails : job[j].email = e
  BY <1>1, JobFields
<1>3. PICK x \in Job : /\ Becomes(j, x) /\ x.email = e /\ x.pc = "sent"
                       /\ x.made = job[j].made /\ x.limit = job[j].limit
  BY <1>1, <1>2, GotoBecomes, JobFields DEF Job
<1>4. /\ sends' \in [Emails -> Nat] /\ sends'[e] = sends[e] + 1
      /\ \A d \in Emails \ {e} : sends'[d] = sends[d]
  <2>1. sends' = [sends EXCEPT ![e] = @ + 1]
    BY <1>2 DEF SendMail
  <2> QED BY <1>1, <2>1, CountUp
<1>5. /\ sends[e] \in Nat /\ tries[e] \in Nat /\ queued[e] \in Nat /\ unrecorded[e] \in Nat
      /\ sends'[e] \in Nat /\ sends'[e] >= sends[e] /\ sends'[e] > 0
  BY <1>1, <1>4, Counts
<1>6. Behind(x, sends', tries')
  BY <1>1, <1>2, <1>3, <1>5, WorkerFacts DEF Behind
<1>7. Explained(e)' /\ Honest(e)'
  <2>1. Cardinality(Open(e)') = Cardinality(Open(e)) - 1
        /\ Cardinality(Open(e)') \in Nat /\ Cardinality(Open(e)) \in Nat
    BY <1>1, <1>2, <1>3, OpenChange
  <2>2. Explained(e) /\ Honest(e)
    BY DEF IInv
  <2> QED BY <1>1, <1>4, <1>5, <2>1, <2>2 DEF Explained, Honest
<1>8. JobsInv' /\ \A d \in Emails : Explained(d)' /\ Honest(d)'
  BY <1>1, <1>2, <1>3, <1>4, <1>5, <1>6, <1>7, WorkerKeeps
<1> QED BY <1>1, <1>3, <1>4, <1>8 DEF IInv, TypeOK, Becomes

LEMMA SendFailsStep ==
    ASSUME IInv, NEW j \in Jobs, SendFails(j)
    PROVE  IInv'
<1>1. /\ UNCHANGED <<outbox, prepared, sweep, tries, queued, apiKey, keyless>>
      /\ At(j, "running") /\ ~At(j, "none") /\ ~At(j, "sent") /\ TypeOK
      /\ sends \in [Emails -> Nat] /\ unrecorded \in [Emails -> Nat]
  BY DEF key, SendFails, At, IInv, TypeOK
<1>2. PICK e \in Emails : job[j].email = e
  BY <1>1, JobFields
<1>3. PICK x \in Job : /\ Becomes(j, x) /\ x.email = e /\ x.pc \in {"running", "error"}
                       /\ x.made = job[j].made /\ x.limit = job[j].limit
  <2>1. PICK pc \in {"running", "error"} : Goto(j, pc)
    BY DEF SendFails
  <2>2. /\ Becomes(j, [job[j] EXCEPT !.pc = pc])
        /\ [job[j] EXCEPT !.pc = pc] \in Job
    BY <1>1, <2>1, GotoBecomes
  <2>3. job[j] \in Job
    BY <1>1, JobFields
  <2>4. PICK x \in Job : x = [job[j] EXCEPT !.pc = pc]
    BY <2>2
  <2>5. /\ x.email = job[j].email /\ x.pc = pc
        /\ x.made = job[j].made /\ x.limit = job[j].limit
    BY <2>3, <2>4 DEF Job
  <2> QED BY <1>2, <2>2, <2>4, <2>5
<1>4. PICK n \in {0, 1} :
         /\ sends' \in [Emails -> Nat] /\ sends'[e] = sends[e] + n
         /\ unrecorded' \in [Emails -> Nat] /\ unrecorded'[e] = unrecorded[e] + n
         /\ \A d \in Emails \ {e} : sends'[d] = sends[d] /\ unrecorded'[d] = unrecorded[d]
  <2>1. CASE UNCHANGED <<sends, unrecorded>>
    <3>1. sends'[e] = sends[e] + 0 /\ unrecorded'[e] = unrecorded[e] + 0
      BY <1>1, <2>1
    <3> QED BY <1>1, <2>1, <3>1
  <2>2. CASE /\ sends' = [sends EXCEPT ![e] = @ + 1]
             /\ unrecorded' = [unrecorded EXCEPT ![e] = @ + 1]
    BY <1>1, <2>2, CountUp
  <2> QED BY <1>2, <2>1, <2>2 DEF SendFails
<1>5. /\ sends[e] \in Nat /\ tries[e] \in Nat /\ queued[e] \in Nat /\ unrecorded[e] \in Nat
      /\ sends'[e] \in Nat /\ sends'[e] >= sends[e] /\ n \in Nat
  BY <1>1, <1>4, Counts
<1>6. Behind(x, sends', tries')
  BY <1>1, <1>2, <1>3, WorkerFacts DEF Behind
<1>7. Explained(e)' /\ Honest(e)'
  <2>1. Cardinality(Open(e)') <= Cardinality(Open(e))
        /\ Cardinality(Open(e)') \in Nat /\ Cardinality(Open(e)) \in Nat
    BY <1>1, <1>2, <1>3, OpenChange
  <2>2. Explained(e) /\ Honest(e)
    BY DEF IInv
  <2> QED BY <1>1, <1>4, <1>5, <2>1, <2>2 DEF Explained, Honest
<1>8. JobsInv' /\ \A d \in Emails : Explained(d)' /\ Honest(d)'
  BY <1>1, <1>2, <1>3, <1>4, <1>5, <1>6, <1>7, WorkerKeeps
<1>9. faults' \in 0..MaxFaults
  BY <1>1, FaultTypes DEF SendFails
<1> QED BY <1>1, <1>3, <1>4, <1>8, <1>9 DEF IInv, TypeOK, Becomes

LEMMA RecordSentStep ==
    ASSUME IInv, NEW j \in Jobs, RecordSent(j)
    PROVE  IInv'
<1>1. /\ UNCHANGED <<prepared, sweep, sends, unrecorded, tries, queued, faults, apiKey, keyless>>
      /\ At(j, "sent") /\ ~At(j, "none") /\ TypeOK /\ job' = [job EXCEPT ![j] = NoJob]
      /\ outbox \in [Emails -> Row \cup {NoRow}]
  BY DEF key, RecordSent, At, IInv, TypeOK
<1>2. PICK e \in Emails : job[j].email = e
  BY <1>1, JobFields
<1>3. Becomes(j, NoJob)
  BY <1>1, JobBecomes
<1> DEFINE w == [status |-> "SENT", attempts |-> job[j].made + 1]
<1>4. w \in Row /\ w.status = "SENT" /\ sends[e] > 0
  <2>1. /\ job[j].made \in Nat /\ job[j].limit \in 1..MaxAttempts /\ job[j].made < job[j].limit
        /\ MaxAttempts \in Nat /\ sends[e] > 0
    BY <1>1, <1>2, WorkerFacts, EmailAssumption DEF EmailAssumption
  <2>2. job[j].made + 1 \in 0..MaxAttempts
    BY <2>1
  <2> QED BY <2>1, <2>2 DEF Row
<1>5. outbox' = [outbox EXCEPT ![e] = w]
  BY <1>2 DEF RecordSent
<1> HIDE DEF w
<1>6. /\ outbox' \in [Emails -> Row \cup {NoRow}] /\ outbox'[e] = w
      /\ \A d \in Emails \ {e} : outbox'[d] = outbox[d]
  BY <1>1, <1>4, <1>5
<1>7. Explained(e)' /\ Honest(e)'
  <2>1. Open(e)' = Open(e)
    BY <1>1, <1>2, <1>3, OpenChange
  <2>2. Explained(e)
    BY DEF IInv
  <2> QED BY <1>1, <1>4, <1>6, <2>1, <2>2 DEF Explained, Honest
<1>8. JobsInv' /\ \A d \in Emails : Explained(d)' /\ Honest(d)'
  <2>1. Behind(NoJob, sends', tries')
    BY DEF Behind
  <2>2. /\ sends'[e] \in Nat /\ tries'[e] \in Nat /\ sends'[e] >= sends[e] /\ tries'[e] >= tries[e]
    BY <1>1, Counts
  <2>3. \A d \in Emails \ {e} : /\ outbox'[d] = outbox[d] /\ sends'[d] = sends[d]
                                /\ unrecorded'[d] = unrecorded[d] /\ tries'[d] = tries[d]
                                /\ queued'[d] = queued[d]
    BY <1>1, <1>6
  <2>4. keyless \subseteq keyless'
    BY <1>1
  <2> QED BY <1>2, <1>3, <1>7, <2>1, <2>2, <2>3, <2>4, WorkerKeeps
<1> QED BY <1>1, <1>3, <1>6, <1>8 DEF IInv, TypeOK, Becomes

LEMMA RecordSentFailsStep ==
    ASSUME IInv, NEW j \in Jobs, RecordSentFails(j)
    PROVE  IInv'
<1>1. /\ UNCHANGED <<outbox, prepared, sweep, sends, tries, queued, apiKey, keyless>>
      /\ At(j, "sent") /\ ~At(j, "none") /\ Goto(j, "error") /\ TypeOK
      /\ unrecorded \in [Emails -> Nat]
  BY DEF key, RecordSentFails, At, IInv, TypeOK
<1>2. PICK e \in Emails : job[j].email = e
  BY <1>1, JobFields
<1>3. PICK x \in Job : /\ Becomes(j, x) /\ x.email = e /\ x.pc = "error"
                       /\ x.made = job[j].made /\ x.limit = job[j].limit
  BY <1>1, <1>2, GotoBecomes, JobFields DEF Job
<1>4. /\ unrecorded' \in [Emails -> Nat] /\ unrecorded'[e] = unrecorded[e] + 1
      /\ \A d \in Emails \ {e} : unrecorded'[d] = unrecorded[d]
  <2>1. unrecorded' = [unrecorded EXCEPT ![e] = @ + 1]
    BY <1>2 DEF RecordSentFails
  <2> QED BY <1>1, <2>1, CountUp
<1>5. /\ sends[e] \in Nat /\ tries[e] \in Nat /\ queued[e] \in Nat /\ unrecorded[e] \in Nat
  BY <1>1, Counts
<1>6. Behind(x, sends', tries')
  BY <1>1, <1>2, <1>3, WorkerFacts DEF Behind
<1>7. Explained(e)' /\ Honest(e)'
  <2>1. Cardinality(Open(e)') <= Cardinality(Open(e)) + 1
        /\ Cardinality(Open(e)') \in Nat /\ Cardinality(Open(e)) \in Nat
    BY <1>1, <1>2, <1>3, OpenChange
  <2>2. Explained(e) /\ Honest(e)
    BY DEF IInv
  <2> QED BY <1>1, <1>4, <1>5, <2>1, <2>2 DEF Explained, Honest
<1>8. JobsInv' /\ \A d \in Emails : Explained(d)' /\ Honest(d)'
  BY <1>1, <1>2, <1>3, <1>4, <1>5, <1>6, <1>7, WorkerKeeps
<1>9. faults' \in 0..MaxFaults
  BY <1>1, FaultTypes DEF RecordSentFails
<1> QED BY <1>1, <1>3, <1>4, <1>8, <1>9 DEF IInv, TypeOK, Becomes

-----------------------------------------------------------------------------
\* A crash opens the jobs again whose mail was sent and not recorded.
LEMMA CrashStep ==
    ASSUME IInv, Crash
    PROVE  IInv'
<1>1. /\ UNCHANGED <<outbox, sends, tries, queued, keyless>> /\ prepared' = {} /\ sweep' = {}
      /\ apiKey' \in BOOLEAN
      /\ TypeOK /\ faults' \in 0..MaxFaults
  BY FaultTypes DEF Crash, IInv
<1>2. ASSUME NEW j \in Jobs
      PROVE  /\ job'[j] \in Job \cup {NoJob} /\ job'[j].pc # "sent"
             /\ job'[j] # NoJob => /\ job[j] # NoJob /\ job'[j].email = job[j].email
                                   /\ job'[j].made = job[j].made /\ job'[j].limit = job[j].limit
  <2>1. job[j] \in Job \cup {NoJob}
    BY <1>1 DEF TypeOK
  <2>2. CASE job[j].pc \notin {"running", "sent", "error"}
    BY <2>1, <2>2 DEF Crash
  <2>3. CASE job[j].pc \in {"running", "sent", "error"} /\ job[j].stalled
    BY <2>1, <2>3 DEF Crash, NoJob
  <2>4. CASE job[j].pc \in {"running", "sent", "error"} /\ ~job[j].stalled
    <3>1. job[j] \in Job /\ job[j] # NoJob
      BY <2>1, <2>4 DEF NoJob
    <3>2. job'[j] = [job[j] EXCEPT !.pc = "waiting", !.stalled = TRUE]
      BY <2>4 DEF Crash
    <3> QED BY <3>1, <3>2 DEF Job
  <2> QED BY <2>2, <2>3, <2>4
<1>3. job' \in [Jobs -> Job \cup {NoJob}]
  BY <1>2 DEF Crash
<1>4. JobsInv'
  BY <1>1, <1>2 DEF IInv, JobsInv, Behind
<1>5. \A e \in Emails : unrecorded'[e] = unrecorded[e] + Cardinality(Sent(e))
  BY DEF Crash, Sent
<1>6. unrecorded' \in [Emails -> Nat]
  <2>1. \A e \in Emails : unrecorded[e] + Cardinality(Sent(e)) \in Nat
    BY <1>1, Counts, OpenCounts
  <2>2. unrecorded' = [e \in Emails |-> unrecorded[e] + Cardinality(Sent(e))]
    BY DEF Crash, Sent
  <2> QED BY <2>1, <2>2
<1>7. ASSUME NEW e \in Emails PROVE Explained(e)'
  <2>1. Open(e)' \subseteq Open(e) \cup Sent(e)
    <3> SUFFICES ASSUME NEW j \in Open(e)' PROVE j \in Open(e) \cup Sent(e)
      OBVIOUS
    <3>1. j \in Jobs /\ IsOpen(job'[j], e)
      BY DEF Open, IsOpen
    <3>2. job[j] # NoJob /\ job[j].email = e
      BY <1>2, <3>1 DEF IsOpen, NoJob
    <3>3. job[j] \in Job
      BY <1>1, <3>1, <3>2 DEF TypeOK
    <3> QED BY <3>1, <3>2, <3>3 DEF Open, IsOpen, Sent, At, Job
  <2>2. /\ Cardinality(Open(e)') <= Cardinality(Open(e) \cup Sent(e))
        /\ Cardinality(Open(e) \cup Sent(e)) <= Cardinality(Open(e)) + Cardinality(Sent(e))
        /\ Cardinality(Open(e)') \in Nat /\ Cardinality(Open(e) \cup Sent(e)) \in Nat
        /\ Cardinality(Open(e)) \in Nat /\ Cardinality(Sent(e)) \in Nat
    <3>1. Open(e) \cup Sent(e) \in SUBSET Jobs
      BY OpenCounts
    <3> QED BY <2>1, <3>1, JobSets, OpenCounts, OpenCountsNext
  <2>3. sends[e] \in Nat /\ queued[e] \in Nat /\ unrecorded[e] \in Nat
    BY <1>1, Counts
  <2>4. sends[e] + Cardinality(Open(e)) <= queued[e] + unrecorded[e]
    BY DEF IInv, Explained
  <2> QED BY <1>1, <1>5, <2>2, <2>3, <2>4 DEF Explained
<1> QED BY <1>1, <1>3, <1>4, <1>6, <1>7, RowsKept DEF IInv, TypeOK

-----------------------------------------------------------------------------
LEMMA InitInv == Init => IInv
<1> SUFFICES ASSUME Init PROVE IInv
  OBVIOUS
<1>1. TypeOK
  BY EmailAssumption DEF Init, TypeOK, EmailAssumption
<1>2. JobsInv
  BY DEF Init, JobsInv, Behind
<1>3. \A e \in Emails : Open(e) = {} /\ Honest(e)
  BY DEF Init, Open, IsOpen, NoJob, Honest, NoRow
<1>4. \A e \in Emails : Explained(e)
  BY <1>3, FS_EmptySet DEF Init, Explained
<1> QED BY <1>1, <1>2, <1>3, <1>4 DEF IInv

LEMMA NextInv == IInv /\ [Next]_vars => IInv'
<1> SUFFICES ASSUME IInv, [Next]_vars PROVE IInv'
  OBVIOUS
<1>1. CASE UNCHANGED vars
  <2>1. UNCHANGED <<outbox, prepared, job, sweep, sends, unrecorded, tries, queued, apiKey, keyless, faults>>
    BY <1>1 DEF vars, key
  <2>2. TypeOK'
    BY <2>1 DEF IInv, TypeOK
  <2> QED BY <2>1, <2>2, QueueKept, RowsKept DEF IInv
<1>2. CASE \E e \in Emails : PrepareNotification(e) \/ DispatchPrepared(e)
  BY <1>2, PrepareStep, DispatchStep
<1>3. CASE \E j \in Jobs : Work(j) \/ SendFails(j) \/ RecordSentFails(j) \/ RecordErrorFails(j)
  BY <1>3, StartStep, RejectStep, SendStep, RecordSentStep, RecordErrorStep, SendFailsStep,
     RecordSentFailsStep, RecordErrorFailsStep DEF Work
<1>4. CASE Sweep
  BY <1>4, SweepStep, RequeueStep DEF Sweep
<1>5. CASE SweepFails
  BY <1>5, SweepStep
<1>6. CASE Crash
  BY <1>6, CrashStep
<1> QED BY <1>1, <1>2, <1>3, <1>4, <1>5, <1>6 DEF Next

LEMMA Invariance == Spec => []IInv
BY InitInv, NextInv, PTL DEF Spec

\* The rows, the queue and the counts always have their types; in particular no
\* job makes more attempts than the row's attempts column may hold.
THEOREM TypeCorrect == Spec => []TypeOK
<1>1. IInv => TypeOK
  BY DEF IInv
<1> QED BY <1>1, Invariance, PTL

\* However many workers run, jobs stall, calls fail and sweeps queue again, an
\* email is delivered at most once per queued job and unrecorded delivery.
THEOREM Deliveries == Spec => []DeliveriesExplained
<1>1. IInv => DeliveriesExplained
  <2> SUFFICES ASSUME IInv, NEW e \in Emails PROVE sends[e] <= queued[e] + unrecorded[e]
    BY DEF DeliveriesExplained
  <2>1. Cardinality(Open(e)) \in Nat /\ Explained(e)
    BY OpenCounts DEF IInv
  <2> QED BY <2>1, Counts DEF IInv, Explained
<1> QED BY <1>1, Invariance, PTL

\* A row says SENT only of a delivered mail, and FAILED only of a bad address,
\* after an attempt without the API key or after a whole budget of failed attempts.
THEOREM HonestRows == Spec => []OutboxIsHonest
<1>1. IInv => OutboxIsHonest
  BY DEF IInv, Honest, OutboxIsHonest
<1> QED BY <1>1, Invariance, PTL
=============================================================================
