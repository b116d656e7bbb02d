------------------------- MODULE IdempotencyProofs -------------------------
(***************************************************************************)
(* Proofs about Idempotency, for any requests, bodies and faults: types,   *)
(* how often the handler of a key commits, and that a replayed response is *)
(* that of a committed handler.                                            *)
(***************************************************************************)
EXTENDS Idempotency, FiniteSetTheorems, TLAPS

\* Requests that run the handler, and those that will once they re-armed the key.
Running == {r \in Reqs : At(r, "run")}
Due == {r \in Reqs : At(r, "run") \/ At(r, "rearm")}

Fresh == Exists /\ ~Expired

\* Before the key is claimed and after it has expired nobody works under it.
NobodyWorks ==
    /\ ~Exists => done = 0 /\ Due = {}
    /\ ~Fresh => InProgress = {}

\* A response is stored only after a commit.
StoredAfterCommit ==
    /\ \A r \in Reqs : At(r, "complete") => done > 0
    /\ Fresh /\ row.status = "COMPLETED" => done > 0

\* The requests that will still commit are within the bound, too.
DueBound == Fresh => done + Cardinality(Due) <= Cardinality(Reqs) * (1 + undone)

\* While the key is FAILED, every commit so far and under way is paid for by
\* the marks that undone counts: any request may re-arm it.
FailedPaid ==
    Fresh /\ ~row.deleted /\ row.status = "FAILED" =>
        done + Cardinality(Running) <= Cardinality(Reqs) * undone

KeyInv == NobodyWorks /\ StoredAfterCommit /\ CommitBound /\ DueBound /\ FailedPaid

IInv == TypeOK /\ KeyInv

-----------------------------------------------------------------------------
\* Sets of requests are finite.
LEMMA RequestSets ==
    /\ Cardinality(Reqs) \in Nat
    /\ \A S \in SUBSET Reqs : Cardinality(S) \in Nat /\ Cardinality(S) <= Cardinality(Reqs)
    /\ \A S, T \in SUBSET Reqs : S \subseteq T => Cardinality(S) <= Cardinality(T)
    /\ \A S \in SUBSET Reqs : \A r \in S : Cardinality(S \ {r}) = Cardinality(S) - 1
    /\ \A r \in Reqs : Cardinality(Reqs) >= 1
    /\ Cardinality({}) = 0
<1>1. IsFiniteSet(Reqs) /\ Cardinality({}) = 0
  BY KeyAssumption, FS_EmptySet DEF KeyAssumption
<1>2. \A S \in SUBSET Reqs : IsFiniteSet(S) /\ Cardinality(S) \in Nat
                             /\ Cardinality(S) <= Cardinality(Reqs)
  BY <1>1, FS_Subset, FS_CardinalityType
<1>3. \A S, T \in SUBSET Reqs : S \subseteq T => Cardinality(S) <= Cardinality(T)
  BY <1>2, FS_Subset
<1>4. \A S \in SUBSET Reqs : \A r \in S : Cardinality(S \ {r}) = Cardinality(S) - 1
  BY <1>2, FS_RemoveElement
<1>5. ASSUME NEW r \in Reqs PROVE Cardinality(Reqs) >= 1
  <2>1. Cardinality({r}) = 1 /\ {r} \in SUBSET Reqs
    BY FS_Singleton
  <2> QED BY <1>2, <2>1
<1> QED BY <1>1, <1>2, <1>3, <1>4, <1>5, FS_CardinalityType

LEMMA Product ==
    \A n, u \in Nat : /\ n * u \in Nat /\ n * (1 + u) \in Nat
                      /\ n * (1 + u) = n * u + n
                      /\ n * (1 + (u + 1)) = n * (1 + u) + n
OBVIOUS

\* Where a request stands.
LEMMA ReqFields ==
    ASSUME TypeOK, NEW r \in Reqs
    PROVE  /\ At(r, "idle") <=> req[r] = IdleReq
           /\ ~At(r, "idle") => req[r] \in [pc: Steps, body: Bodies]
<1>1. req[r] = IdleReq \/ req[r] \in [pc: Steps, body: Bodies]
  BY DEF TypeOK, Req
<1>2. CASE req[r] = IdleReq
  BY <1>2 DEF IdleReq, At
<1>3. CASE req[r] \in [pc: Steps, body: Bodies]
  <2>1. req[r].pc # "idle"
    BY <1>3 DEF Steps
  <2> QED BY <1>3, <2>1 DEF At, IdleReq
<1> QED BY <1>1, <1>2, <1>3

\* Request r goes on to pc, the others stay where they are.
Moves(r, pc) ==
    /\ req' \in [Reqs -> Req]
    /\ req'[r].pc = pc
    /\ \A q \in Reqs \ {r} : req'[q] = req[q]

LEMMA BecomesMoves ==
    ASSUME TypeOK, NEW r \in Reqs, NEW v \in Req, req' = [req EXCEPT ![r] = v]
    PROVE  Moves(r, v.pc)
<1>1. req \in [Reqs -> Req]
  BY DEF TypeOK
<1> QED BY <1>1 DEF Moves

LEMMA GotoMoves ==
    ASSUME TypeOK, NEW r \in Reqs, NEW pc \in Steps, ~At(r, "idle"), Goto(r, pc)
    PROVE  Moves(r, pc)
<1>1. req[r] \in [pc: Steps, body: Bodies]
  BY ReqFields
<1> DEFINE v == [req[r] EXCEPT !.pc = pc]
<1>2. v \in [pc: Steps, body: Bodies] /\ v.pc = pc
  BY <1>1
<1>3. req' = [req EXCEPT ![r] = v]
  BY DEF Goto
<1> HIDE DEF v
<1>4. v \in Req
  BY <1>2 DEF Req
<1> QED BY <1>2, <1>3, <1>4, BecomesMoves

LEMMA FinishMoves ==
    ASSUME TypeOK, NEW r \in Reqs, req' = [req EXCEPT ![r] = IdleReq]
    PROVE  Moves(r, "idle")
<1>1. IdleReq \in Req /\ IdleReq.pc = "idle"
  BY DEF Req, IdleReq
<1> QED BY <1>1, BecomesMoves

\* How the sets of requests change with it.
LEMMA MovesSets ==
    ASSUME NEW r \in Reqs, NEW pc, Moves(r, pc)
    PROVE  /\ Due' = IF pc \in {"run", "rearm"} THEN Due \cup {r} ELSE Due \ {r}
           /\ Running' = IF pc = "run" THEN Running \cup {r} ELSE Running \ {r}
           /\ InProgress' = IF pc \in {"run", "complete", "fail"} THEN InProgress \cup {r}
                            ELSE InProgress \ {r}
<1>1. \A q \in Reqs : req'[q].pc = IF q = r THEN pc ELSE req[q].pc
  BY DEF Moves
<1>2. Due' = IF pc \in {"run", "rearm"} THEN Due \cup {r} ELSE Due \ {r}
  BY <1>1 DEF Due, At
<1>3. Running' = IF pc = "run" THEN Running \cup {r} ELSE Running \ {r}
  BY <1>1 DEF Running, At
<1>4. InProgress' = IF pc \in {"run", "complete", "fail"} THEN InProgress \cup {r}
                    ELSE InProgress \ {r}
  BY <1>1 DEF InProgress
<1> QED BY <1>2, <1>3, <1>4

\* A step that leaves the row and the counts alone and lets nobody start.
LEMMA QuietKeeps ==
    ASSUME TypeOK, KeyInv, UNCHANGED <<row, done, undone, day>>,
           Due' \subseteq Due, Running' \subseteq Running, InProgress' \subseteq InProgress,
           \A q \in Reqs : req'[q].pc = "complete" => At(q, "complete")
    PROVE  KeyInv'
<1>1. /\ Fresh' = Fresh /\ Exists' = Exists
      /\ NobodyWorks /\ StoredAfterCommit /\ CommitBound /\ DueBound /\ FailedPaid
  BY DEF KeyInv, Fresh, Exists, Expired
<1>2. NobodyWorks' /\ StoredAfterCommit' /\ CommitBound'
  BY <1>1 DEF NobodyWorks, StoredAfterCommit, CommitBound, At
<1>3. /\ Due \in SUBSET Reqs /\ Due' \in SUBSET Reqs
      /\ Running \in SUBSET Reqs /\ Running' \in SUBSET Reqs
  BY DEF Due, Running
<1>4. /\ Cardinality(Due) \in Nat /\ Cardinality(Due') \in Nat
      /\ Cardinality(Due') <= Cardinality(Due)
      /\ Cardinality(Running) \in Nat /\ Cardinality(Running') \in Nat
      /\ Cardinality(Running') <= Cardinality(Running)
  BY <1>3, RequestSets
<1>5. done \in Nat /\ undone \in Nat /\ Cardinality(Reqs) * (1 + undone) \in Nat
      /\ Cardinality(Reqs) * undone \in Nat
  BY RequestSets, Product DEF TypeOK
<1>6. DueBound' /\ FailedPaid'
  BY <1>1, <1>4, <1>5 DEF DueBound, FailedPaid
<1> QED BY <1>2, <1>6 DEF KeyInv

LEMMA QuietMove ==
    ASSUME TypeOK, KeyInv, UNCHANGED <<row, done, undone, day>>, NEW r \in Reqs, NEW pc,
           Moves(r, pc), pc \notin {"run", "rearm", "complete"},
           pc = "fail" => At(r, "run")
    PROVE  KeyInv'
<1>1. Due' \subseteq Due /\ Running' \subseteq Running
  BY MovesSets
<1>2. InProgress' \subseteq InProgress
  BY MovesSets DEF InProgress, At
<1>3. \A q \in Reqs : req'[q].pc = "complete" => At(q, "complete")
  BY DEF Moves, At
<1> QED BY <1>1, <1>2, <1>3, QuietKeeps

-----------------------------------------------------------------------------
\* The other variables.

LEMMA RowFields ==
    ASSUME TypeOK, Exists
    PROVE  /\ row \in Row
           /\ row.response \in Objects \cup {NoResponse}
           /\ row.created \in Nat /\ row.expires \in Nat
BY DEF TypeOK, Exists, Row

LEMMA ReplyTypes ==
    ASSUME TypeOK, NEW r \in Reqs, NEW kind, NEW of,
           kind \in {"replay", "mismatch", "conflict", "error"},
           of \in Objects \cup {NoResponse}, Reply(r, kind, of)
    PROVE  answer' \in [Reqs -> Answer] /\ Moves(r, "idle")
<1>1. [kind |-> kind, of |-> of] \in Answer
  BY DEF Answer
<1>2. answer \in [Reqs -> Answer]
  BY DEF TypeOK
<1>3. answer' = [answer EXCEPT ![r] = [kind |-> kind, of |-> of]]
      /\ req' = [req EXCEPT ![r] = IdleReq]
  BY DEF Reply
<1>4. answer' \in [Reqs -> Answer]
  BY <1>1, <1>2, <1>3
<1> QED BY <1>3, <1>4, FinishMoves

LEMMA ArmedTypes ==
    ASSUME TypeOK, NEW r \in Reqs, ~At(r, "idle")
    PROVE  /\ Armed(r) \in Row
           /\ Armed(r).status = "PENDING" /\ Armed(r).expires = day + 1 /\ ~Armed(r).deleted
           /\ req[r].body.obj \in Objects
<1>1. req[r].body \in Bodies /\ day \in Nat
  BY ReqFields DEF TypeOK
<1>2. JsonbRoundTrip(req[r].body) \in Bodies /\ req[r].body.obj \in Objects
  BY <1>1, KeyAssumption DEF KeyAssumption, Bodies, JsonbRoundTrip
<1> QED BY <1>1, <1>2 DEF Armed, Row

\* A row is not taken for no row.
LEMMA RowExists ==
    ASSUME NEW x \in Row PROVE x # NoRow
BY DEF Row, NoRow

-----------------------------------------------------------------------------
\* The steps of intercept.

LEMMA SendStep ==
    ASSUME IInv, NEW r \in Reqs, NEW body \in Bodies, Send(r, body)
    PROVE  IInv'
<1> USE DEF IInv
<1> DEFINE v == [pc |-> "read", body |-> body]
<1>1. v \in Req /\ v.pc = "read" /\ req' = [req EXCEPT ![r] = v]
  BY DEF Req, Steps, Send
<1> HIDE DEF v
<1>2. Moves(r, "read")
  BY <1>1, BecomesMoves
<1>3. UNCHANGED <<row, done, undone, day>>
  BY DEF Send
<1>4. KeyInv'
  BY <1>2, <1>3, QuietMove
<1>5. answer' \in [Reqs -> Answer]
  <2>1. [kind |-> "none", of |-> NoResponse] \in Answer
    BY DEF Answer
  <2>2. answer \in [Reqs -> Answer]
    BY DEF TypeOK
  <2> QED BY <2>1, <2>2 DEF Send
<1>6. sends' \in Nat /\ faults' \in Nat
  BY DEF Send, TypeOK
<1>7. TypeOK'
  BY <1>2, <1>3, <1>5, <1>6 DEF TypeOK, Moves
<1> QED BY <1>4, <1>7

\* Request r goes to re-arm a key that is FAILED or expired.
LEMMA ToRearm ==
    ASSUME IInv, NEW r \in Reqs, Moves(r, "rearm"), At(r, "read"),
           UNCHANGED <<row, done, undone, day>>,
           Live, Expired \/ row.status = "FAILED"
    PROVE  KeyInv'
<1>1. /\ Fresh' = Fresh /\ Exists' = Exists /\ Exists
      /\ NobodyWorks /\ StoredAfterCommit /\ CommitBound /\ DueBound /\ FailedPaid
  BY DEF IInv, KeyInv, Fresh, Exists, Expired, Live
<1>2. /\ Due' \in SUBSET Reqs /\ Running' = Running \ {r} /\ InProgress' = InProgress \ {r}
      /\ r \notin Running
  BY MovesSets DEF Due, Running, At
<1>3. NobodyWorks'
  BY <1>1, <1>2 DEF NobodyWorks
<1>4. \A q \in Reqs : req'[q].pc = "complete" => At(q, "complete")
  BY DEF Moves, At
<1>5. StoredAfterCommit' /\ CommitBound'
  BY <1>1, <1>4 DEF StoredAfterCommit, CommitBound, At
<1>6. /\ done \in Nat /\ undone \in Nat /\ Cardinality(Reqs) \in Nat
      /\ Cardinality(Reqs) * (1 + undone) \in Nat /\ Cardinality(Reqs) * undone \in Nat
      /\ Cardinality(Reqs) * (1 + undone) = Cardinality(Reqs) * undone + Cardinality(Reqs)
  BY RequestSets, Product DEF IInv, TypeOK
<1>7. DueBound'
  <2>1. CASE Fresh
    <3>1. ~row.deleted /\ row.status = "FAILED"
      BY <2>1 DEF Live, Fresh
    <3>2. done + Cardinality(Running) <= Cardinality(Reqs) * undone
      BY <1>1, <2>1, <3>1 DEF FailedPaid
    <3>3. Cardinality(Running) \in Nat /\ Cardinality(Due') \in Nat
          /\ Cardinality(Due') <= Cardinality(Reqs)
      BY <1>2, RequestSets DEF Running
    <3>4. done + Cardinality(Due') <= Cardinality(Reqs) * (1 + undone)
      BY <1>6, <3>2, <3>3
    <3> QED BY <3>4 DEF DueBound
  <2>2. CASE ~Fresh
    BY <1>1, <2>2 DEF DueBound
  <2> QED BY <2>1, <2>2
<1>8. FailedPaid'
  <2>1. Running' = Running
    BY <1>2
  <2> QED BY <1>1, <2>1 DEF FailedPaid
<1> QED BY <1>3, <1>5, <1>7, <1>8 DEF KeyInv

LEMMA FindExistingStep ==
    ASSUME IInv, NEW r \in Reqs, FindExisting(r)
    PROVE  IInv'
<1> USE DEF IInv
<1>1. At(r, "read") /\ ~At(r, "idle") /\ UNCHANGED <<row, done, undone, day>>
      /\ UNCHANGED <<sends, faults>>
  BY DEF FindExisting, At
<1> SUFFICES KeyInv' /\ req' \in [Reqs -> Req] /\ answer' \in [Reqs -> Answer]
  BY <1>1 DEF TypeOK
<1>2. answer \in [Reqs -> Answer]
  BY DEF TypeOK
<1>3. CASE ~Live
  <2>1. Goto(r, "claim") /\ UNCHANGED answer
    BY <1>3 DEF FindExisting
  <2>2. Moves(r, "claim")
    BY <1>1, <2>1, GotoMoves DEF Steps
  <2>3. KeyInv'
    BY <1>1, <2>2, QuietMove
  <2> QED BY <1>2, <2>1, <2>2, <2>3 DEF Moves
<1>4. CASE /\ Live
           /\ Expired \/ row.status = "FAILED"
           /\ Goto(r, "rearm") /\ UNCHANGED answer
  <2>1. Moves(r, "rearm")
    BY <1>1, <1>4, GotoMoves DEF Steps
  <2>2. KeyInv'
    BY <1>1, <1>4, <2>1, ToRearm
  <2> QED BY <1>2, <1>4, <2>1, <2>2 DEF Moves
<1>5. CASE /\ Live
           /\ \/ Reply(r, "mismatch", NoResponse)
              \/ Reply(r, "replay", row.response)
              \/ Reply(r, "conflict", NoResponse)
  <2>1. row.response \in Objects \cup {NoResponse}
    BY <1>5, RowFields DEF Live
  <2>2. answer' \in [Reqs -> Answer] /\ Moves(r, "idle")
    BY <1>5, <2>1, ReplyTypes
  <2>3. KeyInv'
    BY <1>1, <2>2, QuietMove
  <2> QED BY <2>2, <2>3 DEF Moves
<1> QED BY <1>3, <1>4, <1>5 DEF FindExisting

LEMMA ReadWinnerStep ==
    ASSUME IInv, NEW r \in Reqs, ReadWinner(r)
    PROVE  IInv'
<1> USE DEF IInv
<1>1. UNCHANGED <<row, done, undone, day>> /\ UNCHANGED <<sends, faults>>
  BY DEF ReadWinner
<1>2. answer' \in [Reqs -> Answer] /\ Moves(r, "idle")
  <2>1. CASE Live /\ Reply(r, "replay", row.response)
    <3>1. row.response \in Objects \cup {NoResponse}
      BY <2>1, RowFields DEF Live
    <3> QED BY <2>1, <3>1, ReplyTypes
  <2>2. CASE Reply(r, "conflict", NoResponse)
    BY <2>2, ReplyTypes
  <2> QED BY <2>1, <2>2 DEF ReadWinner
<1>3. KeyInv'
  BY <1>1, <1>2, QuietMove
<1> QED BY <1>1, <1>2, <1>3 DEF TypeOK, Moves

\* Request r arms the key: it is PENDING and does not expire today.
LEMMA ArmsRow ==
    ASSUME TypeOK, NEW x \in Row, row' = x, UNCHANGED day,
           x.status = "PENDING", x.expires = day + 1
    PROVE  Exists' /\ Fresh' /\ row'.status = "PENDING"
<1>1. day \in Nat /\ x # NoRow
  BY RowExists DEF TypeOK
<1> QED BY <1>1 DEF Fresh, Exists, Expired

LEMMA ClaimStep ==
    ASSUME IInv, NEW r \in Reqs, Claim(r)
    PROVE  IInv'
<1> USE DEF IInv
<1>1. At(r, "claim") /\ ~At(r, "idle") /\ UNCHANGED <<answer, done, undone, day, sends, faults>>
  BY DEF Claim, At
<1>2. CASE Exists
  <2>1. Moves(r, "conflict") /\ UNCHANGED row
    BY <1>1, <1>2, GotoMoves DEF Claim, Steps
  <2>2. KeyInv'
    BY <1>1, <2>1, QuietMove
  <2> QED BY <1>1, <2>1, <2>2 DEF TypeOK, Moves
<1>3. CASE ~Exists
  <2>1. Moves(r, "run") /\ row' = Armed(r)
    BY <1>1, <1>3, GotoMoves DEF Claim, Steps
  <2>2. row' \in Row /\ Exists' /\ Fresh' /\ row'.status = "PENDING"
    BY <1>1, <2>1, ArmedTypes, ArmsRow
  <2>3. TypeOK'
    BY <1>1, <2>1, <2>2 DEF TypeOK, Moves
  <2>4. done = 0 /\ Due = {} /\ InProgress = {}
    BY <1>3 DEF KeyInv, NobodyWorks, Fresh
  <2>5. Due' = {r}
    BY <2>1, <2>4, MovesSets
  <2>6. StoredAfterCommit'
    <3>1. \A q \in Reqs : req'[q].pc # "complete"
      BY <2>1, <2>4 DEF Moves, InProgress
    <3> QED BY <2>2, <3>1 DEF StoredAfterCommit, At
  <2>7. Cardinality(Due') = 1 /\ 1 <= Cardinality(Reqs) /\ Cardinality(Reqs) \in Nat
    BY <2>5, RequestSets, FS_Singleton
  <2>8. 1 <= Cardinality(Reqs) * (1 + undone)
    BY <2>7, Product DEF TypeOK
  <2>9. NobodyWorks' /\ CommitBound' /\ DueBound' /\ FailedPaid'
    BY <1>1, <2>2, <2>4, <2>7, <2>8 DEF NobodyWorks, CommitBound, DueBound, FailedPaid, TypeOK
  <2> QED BY <2>3, <2>6, <2>9 DEF KeyInv
<1> QED BY <1>2, <1>3

LEMMA ResetToPendingStep ==
    ASSUME IInv, NEW r \in Reqs, ResetToPending(r)
    PROVE  IInv'
<1> USE DEF IInv
<1>1. At(r, "rearm") /\ ~At(r, "idle") /\ UNCHANGED <<answer, day, sends, faults>>
  BY DEF ResetToPending, At
<1>2. r \in Due /\ Exists
  BY <1>1 DEF Due, KeyInv, NobodyWorks
<1> DEFINE x == [Armed(r) EXCEPT !.created = row.created]
<1>3. x \in Row /\ x.status = "PENDING" /\ x.expires = day + 1
  <2>1. Armed(r) \in Row /\ Armed(r).status = "PENDING" /\ Armed(r).expires = day + 1
    BY <1>1, ArmedTypes
  <2>2. row.created \in Nat
    BY <1>2, RowFields
  <2> QED BY <2>1, <2>2 DEF Row
<1>4. row' = x /\ Moves(r, "run")
  BY <1>1, GotoMoves DEF ResetToPending, Steps
<1> HIDE DEF x
<1>5. row' \in Row /\ Exists' /\ Fresh' /\ row'.status = "PENDING"
  BY <1>1, <1>3, <1>4, ArmsRow
<1>6. /\ done' = IF Expired THEN 0 ELSE done
      /\ undone' = IF Expired THEN 0 ELSE undone
      /\ done \in Nat /\ undone \in Nat
  BY DEF ResetToPending, TypeOK
<1>7. TypeOK'
  BY <1>1, <1>4, <1>5, <1>6 DEF TypeOK, Moves
<1>8. Due' = Due
  BY <1>2, <1>4, MovesSets
<1>9. Cardinality(Due) \in Nat /\ Cardinality(Due) <= Cardinality(Reqs)
      /\ Cardinality(Reqs) \in Nat
  BY RequestSets DEF Due
<1>10. StoredAfterCommit'
  <2>1. \A q \in Reqs : req'[q].pc = "complete" => At(q, "complete") /\ q \in InProgress
    BY <1>4 DEF Moves, At, InProgress
  <2>2. Expired => InProgress = {}
    BY DEF KeyInv, NobodyWorks, Fresh
  <2>3. \A q \in Reqs : req'[q].pc = "complete" => done' > 0
    BY <1>6, <2>1, <2>2 DEF KeyInv, StoredAfterCommit
  <2> QED BY <1>5, <2>3 DEF StoredAfterCommit, At
<1>11. DueBound' /\ CommitBound'
  <2>1. CASE Expired
    <3>1. Cardinality(Reqs) * (1 + undone') = Cardinality(Reqs)
      BY <1>6, <1>9, <2>1
    <3> QED BY <1>6, <1>8, <1>9, <2>1, <3>1 DEF DueBound, CommitBound
  <2>2. CASE ~Expired
    <3>1. done' = done /\ undone' = undone /\ Fresh
      BY <1>2, <1>6, <2>2 DEF Fresh
    <3> QED BY <1>8, <3>1 DEF KeyInv, DueBound, CommitBound
  <2> QED BY <2>1, <2>2
<1>12. NobodyWorks' /\ FailedPaid'
  BY <1>5 DEF NobodyWorks, FailedPaid
<1> QED BY <1>7, <1>10, <1>11, <1>12 DEF KeyInv

LEMMA RunHandlerStep ==
    ASSUME IInv, NEW r \in Reqs, RunHandler(r)
    PROVE  IInv'
<1> USE DEF IInv
<1>1. /\ At(r, "run") /\ ~At(r, "idle") /\ UNCHANGED <<row, undone, day, sends, faults>>
      /\ done' = done + 1 /\ done \in Nat /\ undone \in Nat
  BY DEF RunHandler, At, TypeOK
<1>2. Moves(r, "complete")
  BY <1>1, GotoMoves DEF RunHandler, Steps
<1>3. r \in Running /\ r \in Due /\ r \in InProgress
  BY <1>1 DEF Running, Due, InProgress, At
<1>4. Fresh /\ Fresh' /\ Exists'
  BY <1>1, <1>3 DEF KeyInv, NobodyWorks, Fresh, Exists, Expired
<1>5. Due' = Due \ {r} /\ Running' = Running \ {r}
  BY <1>2, MovesSets
<1>6. /\ Cardinality(Due') = Cardinality(Due) - 1
      /\ Cardinality(Running') = Cardinality(Running) - 1
      /\ Cardinality(Due) \in Nat /\ Cardinality(Running) \in Nat
      /\ Cardinality(Due') \in Nat /\ Cardinality(Reqs) \in Nat
  <2>1. Due \in SUBSET Reqs /\ Running \in SUBSET Reqs /\ Due' \in SUBSET Reqs
    BY DEF Due, Running
  <2> QED BY <1>3, <1>5, <2>1, RequestSets
<1>7. /\ Cardinality(Reqs) * (1 + undone) \in Nat /\ Cardinality(Reqs) * undone \in Nat
  BY <1>1, <1>6, Product
<1>8. DueBound' /\ FailedPaid' /\ CommitBound'
  BY <1>1, <1>4, <1>6, <1>7 DEF KeyInv, DueBound, FailedPaid, CommitBound
<1>9. NobodyWorks' /\ StoredAfterCommit'
  BY <1>1, <1>4 DEF NobodyWorks, StoredAfterCommit
<1>10. TypeOK'
  <2>1. [kind |-> "result", of |-> req[r].body.obj] \in Answer
    BY <1>1, ArmedTypes DEF Answer
  <2>2. answer' \in [Reqs -> Answer]
    BY <2>1 DEF RunHandler, TypeOK
  <2> QED BY <1>1, <1>2, <2>2 DEF TypeOK, Moves
<1> QED BY <1>8, <1>9, <1>10 DEF KeyInv

\* A fault leaves the row and the counts alone.
LEMMA FaultTypes ==
    ASSUME TypeOK, NEW kind, Fault(kind)
    PROVE  faults' \in Nat
BY DEF Fault, TypeOK

LEMMA HandlerFailsStep ==
    ASSUME IInv, NEW r \in Reqs, HandlerFails(r)
    PROVE  IInv'
<1> USE DEF IInv
<1>1. /\ At(r, "run") /\ ~At(r, "idle") /\ UNCHANGED <<row, answer, done, undone, day, sends>>
      /\ faults' \in Nat
  BY FaultTypes DEF HandlerFails, At
<1>2. Moves(r, "fail")
  BY <1>1, GotoMoves DEF HandlerFails, Steps
<1>3. KeyInv'
  BY <1>1, <1>2, QuietMove
<1> QED BY <1>1, <1>2, <1>3 DEF TypeOK, Moves

LEMMA QueryFailsStep ==
    ASSUME IInv, NEW r \in Reqs, QueryFails(r)
    PROVE  IInv'
<1> USE DEF IInv
<1>1. ~At(r, "idle") /\ UNCHANGED <<row, answer, done, undone, day, sends>> /\ faults' \in Nat
  BY FaultTypes DEF QueryFails, At
<1>2. Moves(r, "error")
  BY <1>1, GotoMoves DEF QueryFails, Steps
<1>3. KeyInv'
  BY <1>1, <1>2, QuietMove
<1> QED BY <1>1, <1>2, <1>3 DEF TypeOK, Moves

LEMMA MarkLostStep ==
    ASSUME IInv, NEW r \in Reqs, MarkLost(r)
    PROVE  IInv'
<1> USE DEF IInv
<1>1. UNCHANGED <<row, done, undone, day, sends>> /\ faults' \in Nat
  BY FaultTypes DEF MarkLost
<1>2. Moves(r, "idle") /\ answer' \in [Reqs -> Answer]
  <2>1. CASE Finish(r) /\ UNCHANGED answer
    BY <2>1, FinishMoves DEF Finish, TypeOK
  <2>2. CASE Reply(r, "error", NoResponse)
    BY <2>2, ReplyTypes
  <2> QED BY <2>1, <2>2 DEF MarkLost
<1>3. KeyInv'
  BY <1>1, <1>2, QuietMove
<1> QED BY <1>1, <1>2, <1>3 DEF TypeOK, Moves

\* Marking a live row changes its status and its response only.
LEMMA MarkTypes ==
    ASSUME TypeOK, Live, NEW status \in {"COMPLETED", "FAILED"},
           NEW response \in Objects \cup {NoResponse},
           row' = [row EXCEPT !.status = status, !.response = response], UNCHANGED day
    PROVE  /\ row' \in Row /\ row'.status = status
           /\ Exists /\ Exists' /\ Fresh' = Fresh /\ ~row'.deleted
<1>1. row \in Row /\ Exists /\ ~row.deleted
  BY RowFields DEF Live
<1>2. row' \in Row /\ row'.status = status /\ row'.expires = row.expires /\ ~row'.deleted
  BY <1>1 DEF Row
<1>3. Exists'
  BY <1>2, RowExists DEF Exists
<1> QED BY <1>1, <1>2, <1>3 DEF Fresh, Expired

LEMMA MarkCompletedStep ==
    ASSUME IInv, NEW r \in Reqs, MarkCompleted(r)
    PROVE  IInv'
<1> USE DEF IInv
<1>1. /\ At(r, "complete") /\ ~At(r, "idle")
      /\ UNCHANGED <<answer, done, undone, day, sends, faults>>
  BY DEF MarkCompleted, At
<1>2. Moves(r, "idle")
  BY FinishMoves DEF MarkCompleted, Finish
<1>3. CASE ~Live
  <2>1. UNCHANGED row
    BY <1>3 DEF MarkCompleted
  <2>2. KeyInv'
    BY <1>1, <1>2, <2>1, QuietMove
  <2> QED BY <1>1, <1>2, <2>1, <2>2 DEF TypeOK, Moves
<1>4. CASE Live
  <2>1. row' = [row EXCEPT !.status = "COMPLETED", !.response = req[r].body.obj]
    BY <1>4 DEF MarkCompleted
  <2>2. req[r].body.obj \in Objects
    BY <1>1, ArmedTypes
  <2>3. row' \in Row /\ row'.status = "COMPLETED" /\ Exists /\ Exists' /\ Fresh' = Fresh
    BY <1>1, <1>4, <2>1, <2>2, MarkTypes
  <2>4. /\ Due' = Due /\ InProgress' = InProgress \ {r} /\ done > 0
    <3>1. r \notin Due
      BY <1>1 DEF Due, At
    <3> QED BY <1>1, <1>2, <3>1, MovesSets DEF KeyInv, StoredAfterCommit
  <2>5. KeyInv'
    BY <1>1, <2>3, <2>4 DEF KeyInv, NobodyWorks, StoredAfterCommit, CommitBound, DueBound, FailedPaid
  <2> QED BY <1>1, <1>2, <2>3, <2>5 DEF TypeOK, Moves
<1> QED BY <1>3, <1>4

LEMMA MarkFailedStep ==
    ASSUME IInv, NEW r \in Reqs, MarkFailed(r)
    PROVE  IInv'
<1> USE DEF IInv
<1>1. /\ At(r, "fail") \/ At(r, "error")
      /\ UNCHANGED <<done, day, sends, faults>> /\ Reply(r, "error", NoResponse)
      /\ undone' = IF Live /\ (done > 0 \/ InProgress \ {r} # {}) THEN undone + 1 ELSE undone
      /\ done \in Nat /\ undone \in Nat
  BY DEF MarkFailed, TypeOK
<1>2. Moves(r, "idle") /\ answer' \in [Reqs -> Answer]
  BY <1>1, ReplyTypes
<1>3. CASE ~Live
  <2>1. UNCHANGED <<row, undone>>
    BY <1>1, <1>3 DEF MarkFailed
  <2>2. KeyInv'
    BY <1>1, <1>2, <2>1, QuietMove
  <2> QED BY <1>1, <1>2, <2>1, <2>2 DEF TypeOK, Moves
<1>4. CASE Live
  <2>1. row' = [row EXCEPT !.status = "FAILED", !.response = NoResponse]
    BY <1>4 DEF MarkFailed
  <2>2. row' \in Row /\ row'.status = "FAILED" /\ Exists /\ Exists' /\ Fresh' = Fresh
    BY <1>1, <1>4, <2>1, MarkTypes
  <2>3. /\ Due' = Due /\ InProgress' = InProgress \ {r} /\ Running' = Running
        /\ Running \subseteq InProgress \ {r} /\ Running \subseteq Due
    <3>1. r \notin Due /\ r \notin Running
      BY <1>1 DEF Due, Running, At
    <3>2. Running \subseteq InProgress /\ Running \subseteq Due
      BY DEF Running, InProgress, Due, At
    <3> QED BY <1>2, <3>1, <3>2, MovesSets
  <2>4. /\ Cardinality(Due) \in Nat /\ Cardinality(Running) \in Nat
        /\ Cardinality(Running) <= Cardinality(Due) /\ Cardinality(Reqs) \in Nat
        /\ Cardinality({}) = 0
    <3>1. Due \in SUBSET Reqs /\ Running \in SUBSET Reqs
      BY DEF Due, Running
    <3> QED BY <2>3, <3>1, RequestSets
  <2>5. /\ Cardinality(Reqs) * (1 + undone) \in Nat /\ Cardinality(Reqs) * undone \in Nat
        /\ Cardinality(Reqs) * (1 + (undone + 1)) = Cardinality(Reqs) * (1 + undone) + Cardinality(Reqs)
        /\ Cardinality(Reqs) * (1 + undone) = Cardinality(Reqs) * undone + Cardinality(Reqs)
    BY <1>1, <2>4, Product
  <2>6. NobodyWorks' /\ StoredAfterCommit'
    <3>1. \A q \in Reqs : req'[q].pc = "complete" => At(q, "complete")
      BY <1>2 DEF Moves, At
    <3> QED BY <1>1, <2>2, <2>3, <3>1 DEF KeyInv, NobodyWorks, StoredAfterCommit, At
  <2>7. TypeOK'
    BY <1>1, <1>2, <2>2 DEF TypeOK, Moves
  <2>8. CASE done > 0 \/ InProgress \ {r} # {}
    <3>1. undone' = undone + 1 /\ 1 + undone = undone + 1
      BY <1>1, <1>4, <2>8
    <3>2. Cardinality(Reqs) * undone' = Cardinality(Reqs) * (1 + undone)
      BY <3>1
    <3>3. CommitBound' /\ DueBound'
      BY <1>1, <2>2, <2>3, <2>4, <2>5, <3>1 DEF KeyInv, CommitBound, DueBound
    <3>4. FailedPaid'
      BY <1>1, <2>2, <2>3, <2>4, <2>5, <3>2 DEF KeyInv, DueBound, FailedPaid
    <3> QED BY <2>6, <2>7, <3>3, <3>4 DEF KeyInv
  <2>9. CASE ~(done > 0 \/ InProgress \ {r} # {})
    <3>1. undone' = undone /\ done = 0 /\ Running' = {}
      BY <1>1, <2>3, <2>9
    <3>2. CommitBound' /\ DueBound'
      BY <1>1, <2>2, <2>3, <3>1 DEF KeyInv, CommitBound, DueBound
    <3>3. FailedPaid'
      BY <1>1, <2>4, <2>5, <3>1 DEF FailedPaid
    <3> QED BY <2>6, <2>7, <3>2, <3>3 DEF KeyInv
  <2> QED BY <2>8, <2>9
<1> QED BY <1>3, <1>4

-----------------------------------------------------------------------------
\* Around the interceptor.

LEMMA CrashStep ==
    ASSUME IInv, Crash
    PROVE  IInv'
<1> USE DEF IInv
<1>1. UNCHANGED <<row, answer, done, undone, day, sends>> /\ faults' \in Nat
      /\ req' = [r \in Reqs |-> IdleReq]
  BY FaultTypes DEF Crash
<1>2. req' \in [Reqs -> Req] /\ \A q \in Reqs : req'[q].pc = "idle"
  BY <1>1 DEF Req, IdleReq
<1>3. Due' = {} /\ Running' = {} /\ InProgress' = {}
  BY <1>2 DEF Due, Running, InProgress, At
<1>4. KeyInv'
  BY <1>1, <1>2, <1>3, QuietKeeps
<1> QED BY <1>1, <1>2, <1>4 DEF TypeOK

\* The key can only become less fresh.
LEMMA LessFresh ==
    ASSUME TypeOK, KeyInv, UNCHANGED <<req, done, undone>>, Exists' = Exists, Fresh' => Fresh,
           Exists => row'.status = row.status /\ (~row'.deleted => ~row.deleted),
           Fresh => Fresh' \/ InProgress = {}
    PROVE  KeyInv'
<1>1. Due' = Due /\ Running' = Running /\ InProgress' = InProgress
  BY DEF Due, Running, InProgress, At
<1>2. Fresh => Exists
  BY DEF Fresh
<1>3. NobodyWorks'
  BY <1>1 DEF KeyInv, NobodyWorks
<1>4. StoredAfterCommit'
  BY <1>2 DEF KeyInv, StoredAfterCommit, At
<1>5. CommitBound' /\ DueBound' /\ FailedPaid'
  BY <1>1, <1>2 DEF KeyInv, CommitBound, DueBound, FailedPaid
<1> QED BY <1>3, <1>4, <1>5 DEF KeyInv

LEMMA DayPassesStep ==
    ASSUME IInv, DayPasses
    PROVE  IInv'
<1> USE DEF IInv
<1>1. UNCHANGED <<row, req, answer, done, undone, sends, faults>> /\ day' = day + 1 /\ day \in Nat
  BY DEF DayPasses, TypeOK
<1>2. InProgress = {}
  BY DEF DayPasses, InProgress, At
<1>3. Fresh' => Fresh
  <2> SUFFICES ASSUME Fresh' PROVE Fresh
    OBVIOUS
  <2>1. Exists
    BY <1>1 DEF Fresh, Exists
  <2>2. row.expires \in Nat
    BY <2>1, RowFields
  <2> QED BY <1>1, <2>1, <2>2 DEF Fresh, Expired
<1>4. KeyInv'
  BY <1>1, <1>2, <1>3, LessFresh DEF Exists
<1> QED BY <1>1, <1>4 DEF TypeOK

LEMMA CleanupStep ==
    ASSUME IInv, Cleanup
    PROVE  IInv'
<1> USE DEF IInv
<1>1. UNCHANGED <<req, answer, done, undone, day, sends, faults>>
      /\ row' = [row EXCEPT !.deleted = TRUE] /\ Live
  BY DEF Cleanup
<1>2. row \in Row /\ Exists
  BY <1>1, RowFields DEF Live
<1>3. row' \in Row /\ row'.status = row.status /\ row'.expires = row.expires /\ row'.deleted
  BY <1>1, <1>2 DEF Row
<1>4. Exists' /\ Fresh' = Fresh
  BY <1>1, <1>2, <1>3, RowExists DEF Fresh, Exists, Expired
<1>5. KeyInv'
  BY <1>1, <1>2, <1>3, <1>4, LessFresh
<1> QED BY <1>1, <1>3, <1>5 DEF TypeOK

-----------------------------------------------------------------------------
LEMMA InitInv == Init => IInv
<1> SUFFICES ASSUME Init PROVE IInv
  OBVIOUS
<1>1. TypeOK
  <2>1. IdleReq \in Req /\ [kind |-> "none", of |-> NoResponse] \in Answer
    BY DEF Req, Answer
  <2> QED BY <2>1 DEF Init, TypeOK
<1>2. \A r \in Reqs : req[r].pc = "idle"
  BY DEF Init, IdleReq
<1>3. Due = {} /\ InProgress = {} /\ ~Exists /\ ~Fresh /\ done = 0
  BY <1>2 DEF Due, InProgress, At, Init, Exists, Fresh
<1>4. CommitBound
  BY <1>3, RequestSets, Product DEF CommitBound, Init
<1>5. KeyInv
  BY <1>2, <1>3, <1>4 DEF KeyInv, NobodyWorks, StoredAfterCommit, DueBound, FailedPaid, At
<1> QED BY <1>1, <1>5 DEF IInv

LEMMA NextInv == IInv /\ [Next]_vars => IInv'
<1> SUFFICES ASSUME IInv, [Next]_vars PROVE IInv'
  OBVIOUS
<1>1. CASE UNCHANGED vars
  <2>1. UNCHANGED <<row, req, answer, done, undone, day, sends, faults>>
    BY <1>1 DEF vars
  <2>2. TypeOK'
    BY <2>1 DEF IInv, TypeOK
  <2>3. Due' = Due /\ Running' = Running /\ InProgress' = InProgress
    BY <2>1 DEF Due, Running, InProgress, At
  <2>4. KeyInv'
    BY <2>1, <2>3, QuietKeeps DEF IInv, At
  <2> QED BY <2>2, <2>4 DEF IInv
<1>2. CASE \E r \in Reqs : Step(r) \/ HandlerFails(r) \/ MarkLost(r) \/ QueryFails(r)
  <2>1. PICK r \in Reqs : Step(r) \/ HandlerFails(r) \/ MarkLost(r) \/ QueryFails(r)
    BY <1>2
  <2> QED BY <2>1, FindExistingStep, ClaimStep, ReadWinnerStep, ResetToPendingStep, RunHandlerStep,
             MarkCompletedStep, MarkFailedStep, HandlerFailsStep, MarkLostStep, QueryFailsStep
          DEF Step
<1>3. CASE \E r \in Reqs, body \in Bodies : Send(r, body)
  BY <1>3, SendStep
<1>4. CASE Crash
  BY <1>4, CrashStep
<1>5. CASE DayPasses
  BY <1>5, DayPassesStep
<1>6. CASE Cleanup
  BY <1>6, CleanupStep
<1> QED BY <1>1, <1>2, <1>3, <1>4, <1>5, <1>6 DEF Next

LEMMA Invariance == Spec => []IInv
BY InitInv, NextInv, PTL DEF Spec

\* The row, the requests and their answers always have their types.
THEOREM TypeCorrect == Spec => []TypeOK
<1>1. IInv => TypeOK
  BY DEF IInv
<1> QED BY <1>1, Invariance, PTL

\* The commits under one key, until it expires, are bounded by the requests that
\* overlap and by the times markFailed took back a key that others worked under,
\* for any number of requests, crashes, lost marks, days and cleanups.
THEOREM CommitsBounded == Spec => []CommitBound
<1>1. IInv => CommitBound
  BY DEF IInv, KeyInv
<1> QED BY <1>1, Invariance, PTL

\* Only a FindExisting or a ReadWinner that finds a live, completed and unexpired
\* key starts a replay.
LEMMA ReplayStep ==
    ASSUME IInv, [Next]_vars, NEW r \in Reqs,
           answer'[r].kind = "replay", answer[r].kind # "replay"
    PROVE  Fresh /\ row.status = "COMPLETED"
<1>1. answer \in [Reqs -> Answer]
  BY DEF IInv, TypeOK
<1>2. PICK q \in Reqs :
         /\ \A p \in Reqs \ {q} : answer'[p] = answer[p]
         /\ answer'[q].kind = "replay" => Live /\ row.status = "COMPLETED" /\ ~Expired
  <2>1. answer' # answer
    OBVIOUS
  <2>2. CASE \E q \in Reqs : FindExisting(q) \/ ReadWinner(q)
    BY <1>1, <2>1, <2>2 DEF FindExisting, ReadWinner, Reply
  <2>3. CASE \E q \in Reqs : RunHandler(q) \/ MarkFailed(q) \/ MarkLost(q)
    BY <1>1, <2>1, <2>3 DEF RunHandler, MarkFailed, MarkLost, Reply
  <2>4. CASE \E q \in Reqs, body \in Bodies : Send(q, body)
    BY <1>1, <2>1, <2>4 DEF Send
  <2>5. \A q \in Reqs : ~Claim(q) /\ ~ResetToPending(q) /\ ~MarkCompleted(q)
                        /\ ~HandlerFails(q) /\ ~QueryFails(q)
    BY <2>1 DEF Claim, ResetToPending, MarkCompleted, HandlerFails, QueryFails
  <2>6. ~Crash /\ ~DayPasses /\ ~Cleanup /\ ~UNCHANGED vars
    BY <2>1 DEF Crash, DayPasses, Cleanup, vars
  <2> QED BY <2>2, <2>3, <2>4, <2>5, <2>6 DEF Next, Step
<1>3. q = r
  BY <1>2
<1> QED BY <1>2, <1>3 DEF Live, Fresh

\* A stored response is only ever replayed after a handler of the same window
\* committed, whatever crashed, failed or was cleaned up in between.
THEOREM Replay == Spec => ReplayIsOfCommitted
<1>1. IInv /\ [Next]_vars =>
         [\A r \in Reqs : answer'[r].kind = "replay" /\ answer[r].kind # "replay" => done > 0]_vars
  <2> SUFFICES ASSUME IInv, [Next]_vars, NEW r \in Reqs,
                      answer'[r].kind = "replay", answer[r].kind # "replay"
               PROVE  done > 0
    OBVIOUS
  <2>1. Fresh /\ row.status = "COMPLETED"
    BY ReplayStep
  <2> QED BY <2>1 DEF IInv, KeyInv, StoredAfterCommit
<1> QED BY <1>1, Invariance, PTL DEF Spec, ReplayIsOfCommitted
=============================================================================
