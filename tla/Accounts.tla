------------------------------ MODULE Accounts ------------------------------
(***************************************************************************)
(* Users with what they own, and reinsurance contracts, as requests of     *)
(* UserService, NotificationController, NotificationService,               *)
(* InsuranceService, ClaimService, ReinsuranceService and                  *)
(* SoftDeleteService interleave over the tables of module SoftDelete.      *)
(*                                                                         *)
(* A user is keyed by wallet, what he owns by wallet and number; a claim   *)
(* has the key of its policy.  Every await on the database is a step: the  *)
(* check of a request and its write are two, and the transaction of a      *)
(* deletion is a step for each of its statements.  What a transaction      *)
(* writes shows when it commits.  One that fails as a whole leaves no      *)
(* trace and is left out.  The value column of a user is the profile or    *)
(* the push subscription, that of settings is 0 for the defaults and 1     *)
(* when the user opted out of the notification.                            *)
(***************************************************************************)
EXTENDS SoftDelete

CONSTANTS Wallet,       \* wallet addresses
          Contract,     \* reinsurance contract ids
          Request,      \* requests, each sent at most once
          MaxRows,      \* notifications, policies and claims per user
          MaxTime,      \* bound on the clock
          MaxAdmin      \* bound on the calls of SoftDeleteService

VARIABLES user, setting, note, policy, claim,  \* tables of a user
          contract,     \* table of reinsurance contracts
          taken,        \* rows that the statements of a deletion have locked so far
          now,          \* the clock
          req,          \* requests in flight
          audits,       \* DELETE entries in the audit log, per entity; "purge" for hard deletes
          admin,        \* calls of SoftDeleteService so far
          \* history:
          created,      \* contracts that were created
          erased,       \* contracts that hardDelete was asked to remove
          revived,      \* how often a deleted row became live again
          lost,         \* DELETE entries whose write failed
          late,         \* users whose deletion overlapped a request that gave them something
          bought        \* policies that a deleted user bought

db == <<user, setting, note, policy, claim, contract, taken>>
history == <<created, erased, revived, lost, late, bought>>
vars == <<db, now, req, audits, admin, history>>

ASSUME AccountsAssumption ==
    /\ MaxRows \in Nat \ {0} /\ MaxTime \in Nat \ {0} /\ MaxAdmin \in Nat
    /\ IsFiniteSet(Request)
    /\ Wallet \cap Contract = {} /\ "purge" \notin Wallet \cup Contract

OwnedKeys == Wallet \X (1..MaxRows)
OwnedBy(w) == {w} \X (1..MaxRows)
Time == 1..MaxTime
Audited == Wallet \cup Contract \cup {"purge"}
NoRequest == [op |-> "none", pc |-> "new", key |-> "none", row |-> 0, at |-> 0]
Answered == [NoRequest EXCEPT !.pc = "done"]
Ops == {"create", "update", "delete", "getSettings", "updateSettings", "subscribe",
        "notify", "purchase", "claim", "release"}

\* The tables of a deletion's updateMany statements, in their order.
Cascaded == {"note", "setting", "policy", "claim"}
AfterStatement == [note |-> "setting", setting |-> "policy", policy |-> "claim", claim |-> "commit"]
NothingTaken == [t \in Cascaded |-> {}]

\* Part of the type invariant of every table.
Tables(values) ==
    /\ user \in [Wallet -> Rows(Time, values)]
    /\ setting \in [Wallet -> Rows(Time, values)]
    /\ note \in [OwnedKeys -> Rows(Time, values)]
    /\ policy \in [OwnedKeys -> Rows(Time, values)]
    /\ claim \in [OwnedKeys -> Rows(Time, values)]
    /\ contract \in [Contract -> Rows(Time, values)]

Init ==
    /\ \E known \in SUBSET Wallet :
          /\ user = [w \in Wallet |-> IF w \in known THEN NewRow(0) ELSE NoRow]
          /\ policy = [k \in OwnedKeys |-> IF k \in known \X {1} THEN NewRow(0) ELSE NoRow]
    /\ setting = [w \in Wallet |-> NoRow]
    /\ note = [k \in OwnedKeys |-> NoRow]
    /\ claim = [k \in OwnedKeys |-> NoRow]
    /\ contract = [c \in Contract |-> NoRow]
    /\ taken = [w \in Wallet |-> NothingTaken]
    /\ now = 1
    /\ req = [r \in Request |-> NoRequest]
    /\ audits = [k \in Audited |-> 0]
    /\ admin = 0
    /\ created = {} /\ erased = {} /\ late = {} /\ bought = {}
    /\ revived = [k \in Wallet \cup Contract |-> 0]
    /\ lost = [w \in Wallet |-> 0]

-----------------------------------------------------------------------------
\* Requests

At(r, op, pc) == req[r].op = op /\ req[r].pc = pc
Goto(r, pc) == req' = [req EXCEPT ![r].pc = pc]
Done(r) == req' = [req EXCEPT ![r] = Answered]
\* Only a deletion takes the time before it writes.
Open(r, op, pc, key, row) ==
    /\ req[r] = NoRequest
    /\ req' = [req EXCEPT ![r] = [op |-> op, pc |-> pc, key |-> key, row |-> row,
                                  at |-> IF op = "delete" THEN now ELSE 0]]
Refuse(r) == req[r] = NoRequest /\ Done(r)

Exists(table, k) == Found(table, FindById(k), now) # {}

FindByIdActive(w) == Exists(user, w)
FindByWalletUnique(w) == Exists(user, w)

\* UserService.findById: 404 for a user who is missing or deleted.
FindUser(w) == FindByIdActive(w)

\* Mutant: the check is gone.
EnsureNobody(w) == TRUE

EnsureActiveUser(w) == Exists(user, w)

\* The first query of a request and what it decides.
Start(r, op, w, found) ==
    /\ IF found THEN Open(r, op, "write", w, 0) ELSE Refuse(r)
    /\ UNCHANGED <<db, now, audits, admin, history>>

\* Row locks: the transaction of a deletion holds the user, and the settings when
\* its statement found them.  Another write of such a row waits.
InCascade(r, w) ==
    req[r].op = "delete" /\ req[r].key = w /\ req[r].pc \in Cascaded \cup {"commit"}
UserLocked(w) == \E r \in Request : InCascade(r, w)
SettingLocked(w) == taken[w]["setting"] # {}

\* A single-row write that throws leaves the table as it is.
TryWrite(table, q) == IF Throws(table, q, now) THEN table ELSE Execute(table, q, now)

-----------------------------------------------------------------------------
\* UserService

StartCreate(r, w) == Start(r, "create", w, ~FindByWalletUnique(w))

\* A deleted row still holds the wallet, and the insert throws.
CreateWithSettings(w) ==
    /\ user' = TryWrite(user, Create(w, 0))
    /\ setting' = IF user' = user THEN setting ELSE [setting EXCEPT ![w] = NewRow(0)]

CreateUser(r) ==
    /\ At(r, "create", "write")
    /\ CreateWithSettings(req[r].key)
    /\ Done(r)
    /\ UNCHANGED <<note, policy, claim, contract, taken, now, audits, admin, history>>

StartUpdate(r, w) == Start(r, "update", w, FindUser(w))

\* UserRepository.updateUser throws for a user who was deleted since the check.
UpdateUserRow(w, value) == user' = TryWrite(user, Update(w, value))

UpdateUser(r) ==
    /\ At(r, "update", "write")
    /\ ~UserLocked(req[r].key)
    /\ UpdateUserRow(req[r].key, 1)
    /\ Done(r)
    /\ UNCHANGED <<setting, note, policy, claim, contract, taken, now, audits, admin, history>>

StartDelete(r, w) == Start(r, "delete", w, FindUser(w))

\* A request that gives user w something is between its check and its write;
\* a claim on one of the policies S does not count.
Overtaken(w, S) ==
    \E r \in Request :
        /\ req[r].key = w
        /\ req[r].pc \in {"write", "setting"}
        /\ \/ req[r].op \in {"getSettings", "updateSettings", "notify"}
           \/ req[r].op = "claim" /\ <<w, req[r].row>> \notin S

\* Mutant: updateMany on the user, which matches nothing and does not throw.
CascadeProceeds(w, at) == FALSE

CascadeRollsBack(w, at) == Throws(user, SoftDelete(w, at), now)

\* cascadeSoftDelete, five statements in one transaction.  The first locks the
\* user, and throws when he is not live any more, which rolls back.
BeginCascade(r) ==
    /\ At(r, "delete", "write")
    /\ ~UserLocked(req[r].key)
    /\ IF CascadeRollsBack(req[r].key, req[r].at) THEN Done(r) ELSE Goto(r, "note")
    /\ UNCHANGED <<db, now, audits, admin, history>>

\* An updateMany takes the rows that are committed and live when it starts.
Taken(w, table, at) ==
    CASE table = "note"    -> Matching(note, Rewrite(SoftDeleteMany(OwnedBy(w), at), now))
      [] table = "setting" -> Matching(setting, Rewrite(SoftDeleteMany({w}, at), now))
      [] table = "policy"  -> Matching(policy, Rewrite(SoftDeleteMany(OwnedBy(w), at), now))
      [] table = "claim"   -> Matching(claim, Rewrite(SoftDeleteMany(OwnedBy(w), at), now))

CascadeStatement(r) ==
    LET w == req[r].key
        table == req[r].pc
    IN
    /\ InCascade(r, w) /\ table \in Cascaded
    /\ taken' = [taken EXCEPT ![w][table] = Taken(w, table, req[r].at)]
    /\ Goto(r, AfterStatement[table])
    /\ UNCHANGED <<user, setting, note, policy, claim, contract, now, audits, admin, history>>

\* A live row of user w that no statement took.
Missed(w) ==
    \/ IsLive(setting[w]) /\ w \notin taken[w]["setting"]
    \/ \E k \in OwnedBy(w) : \/ IsLive(note[k]) /\ k \notin taken[w]["note"]
                             \/ IsLive(policy[k]) /\ k \notin taken[w]["policy"]
                             \/ IsLive(claim[k]) /\ k \notin taken[w]["claim"]

CommitCascade(r) ==
    LET w == req[r].key
        Stamp(table) == SoftDeleteMany(taken[w][table], req[r].at)
    IN
    /\ At(r, "delete", "commit")
    /\ user' = Execute(user, SoftDelete(w, req[r].at), now)
    /\ note' = Execute(note, Stamp("note"), now)
    /\ setting' = Execute(setting, Stamp("setting"), now)
    /\ policy' = Execute(policy, Stamp("policy"), now)
    /\ claim' = Execute(claim, Stamp("claim"), now)
    /\ taken' = [taken EXCEPT ![w] = NothingTaken]
    /\ late' = IF Overtaken(w, {}) \/ Missed(w) THEN late \cup {w} ELSE late \ {w}
    /\ bought' = bought \ OwnedBy(w)
    /\ Goto(r, "audit")
    /\ UNCHANGED <<contract, now, audits, admin, created, erased, revived, lost>>

\* The audit entry is a write of its own after the commit, and it may fail.
AuditDelete(r) ==
    LET w == req[r].key IN
    /\ At(r, "delete", "audit")
    /\ \/ audits' = [audits EXCEPT ![w] = @ + 1] /\ UNCHANGED lost
       \/ lost' = [lost EXCEPT ![w] = @ + 1] /\ UNCHANGED audits
    /\ Done(r)
    /\ UNCHANGED <<db, now, admin, created, erased, revived, late, bought>>

\* The indexer's handlers: upsertByWallet makes a deleted user live again.
UpsertByWallet(w) ==
    /\ ~UserLocked(w)
    /\ user' = Execute(user, Upsert(w, Untouched), now)
    /\ user' # user
    /\ revived' = IF user[w].present THEN [revived EXCEPT ![w] = @ + 1] ELSE revived
    /\ UNCHANGED <<setting, note, policy, claim, contract, taken, now, req, audits, admin,
                   created, erased, lost, late, bought>>

-----------------------------------------------------------------------------
\* NotificationController and NotificationService

StartSettings(r, w, op) ==
    op \in {"getSettings", "updateSettings"} /\ Start(r, op, w, EnsureActiveUser(w))

\* deletedAt: null in the update branch.  getSettings writes no preference.
UpsertSettings(r) ==
    /\ \/ At(r, "getSettings", "write")
       \/ At(r, "updateSettings", "write")
    /\ ~SettingLocked(req[r].key)
    /\ \E value \in IF req[r].op = "updateSettings" THEN {0, 1} ELSE {Untouched} :
          setting' = Execute(setting, [Upsert(req[r].key, value) EXCEPT !.deletedAt = Live], now)
    /\ Done(r)
    /\ UNCHANGED <<user, note, policy, claim, contract, taken, now, audits, admin, history>>

StartSubscribe(r, w) == Start(r, "subscribe", w, EnsureActiveUser(w))

SubscribeToPush(r) ==
    /\ At(r, "subscribe", "write")
    /\ ~UserLocked(req[r].key)
    /\ UpdateUserRow(req[r].key, 1)
    /\ Done(r)
    /\ UNCHANGED <<setting, note, policy, claim, contract, taken, now, audits, admin, history>>

\* getDecryptedContact: the settings come with include, so deleted ones count.
StartNotify(r, w) ==
    /\ \/ ~Exists(user, w) /\ Refuse(r)
       \/ Exists(user, w) /\ ~setting[w].present /\ Open(r, "notify", "setting", w, 0)
       \/ /\ Exists(user, w) /\ setting[w].present
          /\ IF setting[w].value = 1 THEN Refuse(r) ELSE Open(r, "notify", "write", w, 0)
    /\ UNCHANGED <<db, now, audits, admin, history>>

\* upsertForUser with an empty update.
UpsertForUser(r) ==
    LET w == req[r].key IN
    /\ At(r, "notify", "setting")
    /\ ~SettingLocked(w)
    /\ setting' = Execute(setting, Upsert(w, Untouched), now)
    /\ IF setting'[w].value = 1 THEN Done(r) ELSE Goto(r, "write")
    /\ UNCHANGED <<user, note, policy, claim, contract, taken, now, audits, admin, history>>

\* MaxRows bounds the notifications of a user.
CreateNotification(r) ==
    /\ At(r, "notify", "write")
    /\ \E k \in OwnedBy(req[r].key) :
          ~note[k].present /\ note' = Execute(note, Create(k, 0), now)
    /\ Done(r)
    /\ UNCHANGED <<user, setting, policy, claim, contract, taken, now, audits, admin, history>>

-----------------------------------------------------------------------------
\* InsuranceService and ClaimService, as far as a user's rows go.  The
\* notification they prepare is a request "notify" of its own: a user it does not
\* find makes no difference to them.

\* purchasePolicy: a live policy of the same pool is returned; the user is not read.
StartPurchase(r, w) ==
    /\ \/ (\E k \in OwnedBy(w) : Exists(policy, k)) /\ Refuse(r)
       \/ Open(r, "purchase", "write", w, 0)
    /\ UNCHANGED <<db, now, audits, admin, history>>

\* The foreign key wants a row of the user, live or not.
CreatePolicy(r) ==
    LET w == req[r].key IN
    /\ At(r, "purchase", "write")
    /\ \/ ~user[w].present /\ UNCHANGED <<policy, bought>>
       \/ /\ user[w].present
          /\ \E k \in OwnedBy(w) :
                /\ ~policy[k].present
                /\ policy' = Execute(policy, Create(k, 0), now)
                /\ bought' = IF IsGone(user[w]) THEN bought \cup {k} ELSE bought
    /\ Done(r)
    /\ UNCHANGED <<user, setting, note, claim, contract, taken, now, audits, admin,
                   created, erased, revived, lost, late>>

StartClaim(r, w, n) ==
    /\ IF Exists(policy, <<w, n>>) THEN Open(r, "claim", "write", w, n) ELSE Refuse(r)
    /\ UNCHANGED <<db, now, audits, admin, history>>

\* One claim for each policy.
CreateClaim(r) ==
    LET k == <<req[r].key, req[r].row>> IN
    /\ At(r, "claim", "write")
    /\ ~claim[k].present
    /\ claim' = Execute(claim, Create(k, 0), now)
    /\ Done(r)
    /\ UNCHANGED <<user, setting, note, policy, contract, taken, now, audits, admin, history>>

-----------------------------------------------------------------------------
\* ReinsuranceService

CreateContract(c) ==
    /\ c \notin created
    /\ contract' = Execute(contract, Create(c, 0), now)
    /\ created' = created \cup {c}
    /\ UNCHANGED <<user, setting, note, policy, claim, taken, now, req, audits, admin,
                   erased, revived, lost, late, bought>>

StartRelease(r, c) == Start(r, "release", c, Exists(contract, c))

\* deleteContract and logDelete in the transaction of the read.
ReleaseContract(r) ==
    LET c == req[r].key IN
    /\ At(r, "release", "write")
    /\ IF Throws(contract, Delete(c), now)
       THEN UNCHANGED <<contract, audits>>
       ELSE /\ contract' = Execute(contract, Delete(c), now)
            /\ audits' = [audits EXCEPT ![c] = @ + 1]
    /\ Done(r)
    /\ UNCHANGED <<user, setting, note, policy, claim, taken, now, admin, history>>

-----------------------------------------------------------------------------
\* SoftDeleteService and SoftDeleteRepository, on the contracts

RunAdmin(q) ==
    /\ admin < MaxAdmin
    /\ admin' = admin + 1
    /\ contract' = TryWrite(contract, q)
    /\ revived' = [k \in DOMAIN revived |->
                      IF k \in Contract /\ IsGone(contract[k]) /\ IsLive(contract'[k])
                      THEN revived[k] + 1 ELSE revived[k]]
    /\ UNCHANGED <<user, setting, note, policy, claim, taken, now, req, created, lost, late, bought>>

\* After a purge that did not throw.  Best effort: a failed write is only logged.
RecordPurgeAudit(q) ==
    \/ UNCHANGED audits
    \/ ~Throws(contract, q, now) /\ audits' = [audits EXCEPT !["purge"] = @ + 1]

AdminErase(S) ==
    /\ \E q \in {HardDelete(c) : c \in S} \cup {HardDeleteMany(S)} :
          RunAdmin(q) /\ RecordPurgeAudit(q)
    /\ erased' = erased \cup S

AdminRestore ==
    /\ \E c \in Contract, S \in SUBSET Contract :
          \E q \in {Restore(c), RestoreMany(S), RepositoryRestore(c)} : RunAdmin(q)
    /\ UNCHANGED <<audits, erased>>

AdminSoftDelete ==
    /\ \E c \in Contract, S \in SUBSET Contract :
          \E q \in {SoftDelete(c, now), SoftDeleteMany(S, now)} : RunAdmin(q)
    /\ UNCHANGED <<audits, erased>>

RetentionCleanup ==
    /\ \E t \in 1..now :
          LET q == PermanentlyDeleteExpired(Contract, t) IN RunAdmin(q) /\ RecordPurgeAudit(q)
    /\ UNCHANGED erased

Tick ==
    /\ now < MaxTime
    /\ now' = now + 1
    /\ UNCHANGED <<db, req, audits, admin, history>>

-----------------------------------------------------------------------------
Next ==
    \/ \E r \in Request :
          \/ \E w \in Wallet :
                \/ StartCreate(r, w) \/ StartUpdate(r, w) \/ StartDelete(r, w)
                \/ StartSubscribe(r, w) \/ StartNotify(r, w)
                \/ \E op \in Ops : StartSettings(r, w, op)
                \/ StartPurchase(r, w)
                \/ \E n \in 1..MaxRows : StartClaim(r, w, n)
          \/ \E c \in Contract : StartRelease(r, c)
          \/ CreateUser(r) \/ UpdateUser(r)
          \/ BeginCascade(r) \/ CascadeStatement(r) \/ CommitCascade(r) \/ AuditDelete(r)
          \/ CreatePolicy(r) \/ CreateClaim(r)
          \/ UpsertSettings(r) \/ SubscribeToPush(r)
          \/ UpsertForUser(r) \/ CreateNotification(r) \/ ReleaseContract(r)
    \/ \E w \in Wallet : UpsertByWallet(w)
    \/ \E c \in Contract : CreateContract(c)
    \/ \E S \in SUBSET Contract : AdminErase(S)
    \/ AdminRestore \/ AdminSoftDelete \/ RetentionCleanup
    \/ Tick

Spec == Init /\ [][Next]_vars

-----------------------------------------------------------------------------
\* Properties

TypeOK ==
    /\ Tables(0..1)
    /\ now \in Time /\ admin \in 0..MaxAdmin
    /\ req \in [Request -> [op: Ops \cup {"none"},
                            pc: {"new", "write", "commit", "audit", "done"} \cup Cascaded,
                            key: Wallet \cup Contract \cup {"none"},
                            row: 0..MaxRows, at: 0..MaxTime]]
    /\ taken \in [Wallet -> [Cascaded -> SUBSET (Wallet \cup OwnedKeys)]]
    /\ audits \in [Audited -> Nat]
    /\ revived \in [Wallet \cup Contract -> Nat]
    /\ lost \in [Wallet -> Nat]
    /\ created \subseteq Contract /\ erased \subseteq Contract
    /\ late \subseteq Wallet /\ bought \subseteq OwnedKeys

\* The deleted rows of a table are as they were; or some became live.
SameDeleted(before, after) ==
    \A k \in DOMAIN before : IsGone(before[k]) => after[k] = before[k]
SameOrLive(before, after) ==
    \A k \in DOMAIN before : IsGone(before[k]) => after[k] = before[k] \/ IsLive(after[k])

\* Notifications, policies and claims that are deleted stay as they are, and no
\* step writes a deleted user or deleted settings and leaves them deleted:
\* overlapping deletions and late updates of requests that checked before do not
\* touch such a row, and its deletion time is the first one.  (That an upsert
\* makes users and settings live again is the subject of OnlyRestoreRevives.)  A
\* contract that nobody asked to hard-delete vanishes only after it was
\* soft-deleted at an earlier time: the retention cleanup spares live rows, also
\* restored ones, and recent deletions.
DeletedRowsStay ==
    [][/\ SameOrLive(user, user') /\ SameOrLive(setting, setting')
       /\ SameDeleted(note, note') /\ SameDeleted(policy, policy') /\ SameDeleted(claim, claim')
       /\ \A c \in Contract :
             IsGone(contract[c]) /\ contract'[c].present =>
                 contract'[c] = contract[c] \/ IsLive(contract'[c])
       /\ \A c \in Contract \ erased' :
             contract[c].present /\ ~contract'[c].present =>
                 IsGone(contract[c]) /\ contract[c].deletedAt < now]_vars

\* Each deletion of a user leaves one DELETE entry, is about to, or lost it to a
\* failed write after the commit; overlapping deletions of one user do not
\* leave two.  Overlapping releases of a contract leave at most one entry for
\* each time that it was live, and none while it still is.
DeletionsAudited ==
    /\ \A w \in Wallet :
          audits[w] + lost[w]
            + Cardinality({r \in Request : At(r, "delete", "audit") /\ req[r].key = w})
          = revived[w] + (IF IsGone(user[w]) THEN 1 ELSE 0)
    /\ \A c \in Contract :
          audits[c] <= revived[c] + (IF IsLive(contract[c]) THEN 0 ELSE 1)

OrdinaryReads(keys) == {FindMany(keys), Count(keys)}

\* A deleted user is on record for the reads that include deleted rows, and no
\* ordinary read finds him.  Nor does one find his settings or a notification,
\* a policy that he did not buy after his deletion, or a claim on another than
\* such a policy; unless a request that gave him one of these was between its
\* check and its write, or wrote behind a statement of the deletion, when the
\* deletion committed.
NothingOutlivesOwner ==
    \A w \in Wallet :
        IsDeleted(user, w, now) =>
            /\ w \in Found(user, FindManyIncludingDeleted({w}), now)
            /\ \A q \in OrdinaryReads({w}) :
                  Found(user, q, now) = {} /\ (w \notin late => Found(setting, q, now) = {})
            /\ w \notin late =>
                  \A q \in OrdinaryReads(OwnedBy(w)) :
                      /\ Found(note, q, now) = {}
                      /\ Found(policy, q, now) \cup Found(claim, q, now) \subseteq bought

-----------------------------------------------------------------------------
\* What the repository says and the code does not do

\* "Cascade soft-delete of a user and all their related records": when the
\* deletion commits, no notification, setting, policy or claim of his is live.
CascadeTakesAll ==
    [][\A w \in Wallet :
          IsLive(user[w]) /\ IsGone(user'[w]) =>
              /\ ~IsLive(setting'[w])
              /\ \A k \in OwnedBy(w) : ~IsLive(note'[k]) /\ ~IsLive(policy'[k]) /\ ~IsLive(claim'[k])]_vars

\* An upsert must not touch the deletedAt of an existing row; only a restore makes a
\* deleted row live, and users have none.
OnlyRestoreRevives ==
    [][\A w \in Wallet : IsGone(user[w]) => ~IsLive(user'[w])]_vars

\* The reads for records that have been soft-deleted find a deleted user.
DeletedReadsFindDeleted ==
    \A w \in Wallet :
        IsGone(user[w]) => \A q \in {FindManyDeleted({w}), CountDeleted({w})} : w \in Found(user, q, now)
=============================================================================
