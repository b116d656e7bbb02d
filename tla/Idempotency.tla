---------------------------- MODULE Idempotency ----------------------------
(***************************************************************************)
(* The idempotency interceptor of the insurance routes                     *)
(* (src/src/interceptors/): requests that carry the same key, the key's    *)
(* row in PostgreSQL and the daily cleanup.                                *)
(*                                                                         *)
(* Keys do not interact, so the model has one.  Every query of the         *)
(* interceptor is a step of its own; the handler of the route is one step  *)
(* whose transaction commits (it is counted) or fails.  Time is counted in *)
(* days: a key expires one day after it was armed and is stale two days    *)
(* after it was created; a request does not last over the end of a day.    *)
(***************************************************************************)
EXTENDS Integers, FiniteSets

CONSTANTS
    Reqs,           \* requests the server works on at the same time
    Objects,        \* request bodies, as JSON objects
    Orders,         \* orders in which a client may write the keys of an object
    Jsonb,          \* the order jsonb keeps the keys in
    Faults,         \* which faults happen: "crash", "read", "mark", "handler"
    MaxSends,       \* bound: requests sent
    MaxFaults,      \* bound: faults
    MaxDays         \* bound: days that pass

ASSUME KeyAssumption ==
    /\ IsFiniteSet(Reqs)
    /\ Jsonb \in Orders
    /\ Faults \subseteq {"crash", "read", "mark", "handler"}
    /\ MaxSends \in Nat /\ MaxFaults \in Nat /\ MaxDays \in Nat

VARIABLES
    row,        \* the IdempotencyKey row
    req,        \* where every request stands in intercept
    answer,     \* the last answer a request got from the interceptor
    done,       \* handler transactions committed since the key was claimed,
                \* or re-armed after it expired
    undone,     \* how often, since then, the key was marked FAILED after such a
                \* commit or while another request was being processed
    day,        \* the current day
    sends,      \* requests sent
    faults      \* faults so far

vars == <<row, req, answer, done, undone, day, sends, faults>>

Bodies == [obj: Objects, order: Orders]

\* JSON.stringify of what a jsonb column gives back.
JsonbRoundTrip(body) == [body EXCEPT !.order = Jsonb]

NoRow == [status |-> "NONE"]
NoResponse == "none"
Row == [status: {"PENDING", "COMPLETED", "FAILED"}, body: Bodies,
        response: Objects \cup {NoResponse}, created: Nat, expires: Nat,
        deleted: BOOLEAN]

Steps == {"read", "claim", "conflict", "rearm", "run", "complete", "fail", "error"}
IdleReq == [pc |-> "idle"]
Req == {IdleReq} \cup [pc: Steps, body: Bodies]

\* Nothing yet, replayed response, 400, 409, error, result of the handler.
Answer == [kind: {"none", "replay", "mismatch", "conflict", "error", "result"},
           of: Objects \cup {NoResponse}]

Exists == row # NoRow
Live == Exists /\ ~row.deleted
Expired == day >= row.expires
InProgress == {r \in Reqs : req[r].pc \in {"run", "complete", "fail"}}

At(r, pc) == req[r].pc = pc
Goto(r, pc) == req' = [req EXCEPT ![r].pc = pc]
Reply(r, kind, of) ==
    /\ answer' = [answer EXCEPT ![r] = [kind |-> kind, of |-> of]]
    /\ req' = [req EXCEPT ![r] = IdleReq]
Fault(kind) == kind \in Faults /\ faults < MaxFaults /\ faults' = faults + 1

-----------------------------------------------------------------------------
\* intercept

Send(r, body) ==
    /\ At(r, "idle")
    /\ sends < MaxSends
    /\ sends' = sends + 1
    /\ req' = [req EXCEPT ![r] = [pc |-> "read", body |-> body]]
    /\ answer' = [answer EXCEPT ![r] = [kind |-> "none", of |-> NoResponse]]
    /\ UNCHANGED <<row, done, undone, day, faults>>

\* Mutant: a PENDING key is taken over.
FindExistingTakeOver(r) ==
    /\ At(r, "read")
    /\ CASE ~Live -> Goto(r, "claim") /\ UNCHANGED answer
         [] Live /\ row.status = "COMPLETED" /\ ~Expired -> Reply(r, "replay", row.response)
         [] OTHER -> Goto(r, "rearm") /\ UNCHANGED answer
    /\ UNCHANGED <<row, done, undone, day, sends, faults>>

\* findExisting sees live rows only; FAILED and expired keys are re-armed.
FindExisting(r) ==
    /\ At(r, "read")
    /\ IF ~Live
       THEN Goto(r, "claim") /\ UNCHANGED answer
       ELSE \/ /\ Expired
               /\ Goto(r, "rearm") /\ UNCHANGED answer
            \/ /\ ~Expired /\ row.body # req[r].body
               /\ Reply(r, "mismatch", NoResponse)
            \/ /\ ~Expired /\ row.body = req[r].body /\ row.status = "COMPLETED"
               /\ Reply(r, "replay", row.response)
            \/ /\ ~Expired /\ row.body = req[r].body /\ row.status = "PENDING"
               /\ Reply(r, "conflict", NoResponse)
            \/ /\ ~Expired /\ row.body = req[r].body /\ row.status = "FAILED"
               /\ Goto(r, "rearm") /\ UNCHANGED answer
    /\ UNCHANGED <<row, done, undone, day, sends, faults>>

Armed(r) == [status |-> "PENDING", body |-> JsonbRoundTrip(req[r].body),
             response |-> NoResponse, created |-> day, expires |-> day + 1,
             deleted |-> FALSE]

\* The key is unique over live and soft-deleted rows.
Claim(r) ==
    /\ At(r, "claim")
    /\ IF Exists
       THEN Goto(r, "conflict") /\ UNCHANGED row
       ELSE row' = Armed(r) /\ Goto(r, "run")
    /\ UNCHANGED <<answer, done, undone, day, sends, faults>>

\* The second read, after the insert met the key: no look at the body.
ReadWinner(r) ==
    /\ At(r, "conflict")
    /\ IF Live /\ row.status = "COMPLETED" /\ ~Expired
       THEN Reply(r, "replay", row.response)
       ELSE Reply(r, "conflict", NoResponse)
    /\ UNCHANGED <<row, done, undone, day, sends, faults>>

\* The update sets deletedAt to null, so it finds a soft-deleted row too; it
\* does not look at the status it replaces.
ResetToPending(r) ==
    /\ At(r, "rearm")
    /\ row' = [Armed(r) EXCEPT !.created = row.created]
    /\ done' = IF Expired THEN 0 ELSE done
    /\ undone' = IF Expired THEN 0 ELSE undone
    /\ Goto(r, "run")
    /\ UNCHANGED <<answer, day, sends, faults>>

\* next.handle(): the result goes to the client, markCompleted is not awaited.
RunHandler(r) ==
    /\ At(r, "run")
    /\ done' = done + 1
    /\ answer' = [answer EXCEPT ![r] = [kind |-> "result", of |-> req[r].body.obj]]
    /\ Goto(r, "complete")
    /\ UNCHANGED <<row, undone, day, sends, faults>>

HandlerFails(r) ==
    /\ At(r, "run")
    /\ Fault("handler")
    /\ Goto(r, "fail")
    /\ UNCHANGED <<row, answer, done, undone, day, sends>>

Finish(r) == req' = [req EXCEPT ![r] = IdleReq]

\* Mutant: a status no other code knows.
MarkCompletedDone(r) ==
    /\ At(r, "complete")
    /\ row' = IF Live THEN [row EXCEPT !.status = "DONE", !.response = req[r].body.obj] ELSE row
    /\ Finish(r)
    /\ UNCHANGED <<answer, done, undone, day, sends, faults>>

\* An update of a soft-deleted row finds nothing and throws; both callers only
\* log it.
MarkCompleted(r) ==
    /\ At(r, "complete")
    /\ row' = IF Live THEN [row EXCEPT !.status = "COMPLETED", !.response = req[r].body.obj]
              ELSE row
    /\ Finish(r)
    /\ UNCHANGED <<answer, done, undone, day, sends, faults>>

\* Mutant: a failed handler leaves a response to replay.
MarkFailedCompleted(r) ==
    /\ At(r, "fail") \/ At(r, "error")
    /\ row' = IF Live THEN [row EXCEPT !.status = "COMPLETED", !.response = req[r].body.obj]
              ELSE row
    /\ Reply(r, "error", NoResponse)
    /\ UNCHANGED <<done, undone, day, sends, faults>>

\* After a failed handler, and from the outer catch after a failed query.
MarkFailed(r) ==
    /\ At(r, "fail") \/ At(r, "error")
    /\ row' = IF Live THEN [row EXCEPT !.status = "FAILED", !.response = NoResponse] ELSE row
    /\ Reply(r, "error", NoResponse)
    /\ undone' = IF Live /\ (done > 0 \/ InProgress \ {r} # {}) THEN undone + 1 ELSE undone
    /\ UNCHANGED <<done, day, sends, faults>>

\* markCompleted or markFailed does not reach the database.
MarkLost(r) ==
    /\ Fault("mark")
    /\ \/ At(r, "complete") /\ Finish(r) /\ UNCHANGED answer
       \/ (At(r, "fail") \/ At(r, "error")) /\ Reply(r, "error", NoResponse)
    /\ UNCHANGED <<row, done, undone, day, sends>>

\* findExisting, claim or resetToPending throws: the outer catch.
QueryFails(r) ==
    /\ At(r, "read") \/ At(r, "claim") \/ At(r, "conflict") \/ At(r, "rearm")
    /\ Fault("read")
    /\ Goto(r, "error")
    /\ UNCHANGED <<row, answer, done, undone, day, sends>>

-----------------------------------------------------------------------------
\* Around the interceptor

Crash ==
    /\ \E r \in Reqs : ~At(r, "idle")
    /\ Fault("crash")
    /\ req' = [r \in Reqs |-> IdleReq]
    /\ UNCHANGED <<row, answer, done, undone, day, sends>>

DayPasses ==
    /\ \A r \in Reqs : At(r, "idle")
    /\ day < MaxDays
    /\ day' = day + 1
    /\ UNCHANGED <<row, req, answer, done, undone, sends, faults>>

\* handleCron: deleteMany, which the soft-delete middleware turns into an update.
Cleanup ==
    /\ Live
    /\ day - row.created >= 2
    /\ row' = [row EXCEPT !.deleted = TRUE]
    /\ UNCHANGED <<req, answer, done, undone, day, sends, faults>>

-----------------------------------------------------------------------------
Init ==
    /\ row = NoRow
    /\ req = [r \in Reqs |-> IdleReq]
    /\ answer = [r \in Reqs |-> [kind |-> "none", of |-> NoResponse]]
    /\ done = 0
    /\ undone = 0
    /\ day = 0
    /\ sends = 0
    /\ faults = 0

Step(r) ==
    \/ FindExisting(r)
    \/ Claim(r)
    \/ ReadWinner(r)
    \/ ResetToPending(r)
    \/ RunHandler(r)
    \/ MarkCompleted(r)
    \/ MarkFailed(r)

Next ==
    \/ \E r \in Reqs : Step(r) \/ HandlerFails(r) \/ MarkLost(r) \/ QueryFails(r)
    \/ \E r \in Reqs, body \in Bodies : Send(r, body)
    \/ Crash
    \/ DayPasses
    \/ Cleanup

Spec == Init /\ [][Next]_vars

-----------------------------------------------------------------------------
\* Properties

\* The row, the requests and their answers have their types.
TypeOK ==
    /\ row \in Row \cup {NoRow}
    /\ req \in [Reqs -> Req]
    /\ answer \in [Reqs -> Answer]
    /\ done \in Nat /\ undone \in Nat /\ day \in Nat /\ sends \in Nat /\ faults \in Nat

\* The commits of a key before it expires are bounded by the requests that
\* overlap, so that one request at a time commits once, and are bounded by that
\* again only when the key was marked FAILED though an operation had committed
\* or was still running.  Crashes, lost marks and cleanups add nothing to it.
CommitBound == done <= Cardinality(Reqs) * (1 + undone)

\* A request is only ever answered with a stored response after a handler of the
\* same window committed, whatever crashed, failed or was cleaned up in between.
ReplayIsOfCommitted ==
    [][\A r \in Reqs : answer'[r].kind = "replay" /\ answer[r].kind # "replay" => done > 0]_vars

\* The answer "Idempotency key already used with a different request body" is
\* given to a different body.
MismatchMeansDifferent ==
    [][\A r \in Reqs : answer'[r].kind = "mismatch" /\ answer[r].kind # "mismatch"
          => req[r].body.obj # row.body.obj]_vars
=============================================================================
