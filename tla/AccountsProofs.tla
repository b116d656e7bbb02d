--------------------------- MODULE AccountsProofs ---------------------------
(***************************************************************************)
(* Proofs about SoftDelete and Accounts, for any users, contracts,         *)
(* requests and times: what each query does to a table, that deleted rows  *)
(* stay as they are, that every deletion is audited once, and what of a    *)
(* deleted user can still be found.                                        *)
(***************************************************************************)
EXTENDS Accounts, FiniteSetTheorems, TLAPS

\* What a request knows: whom it is about and, for a deletion, its time.
ReqOK(x) ==
    \/ x = NoRequest \/ x = Answered
    \/ /\ x.op \in Ops \ {"release"} /\ x.key \in Wallet
       /\ x.op = "delete" => x.at \in Time
       /\ x.op = "claim" => x.row \in 1..MaxRows
       /\ x.pc = "audit" => x.op = "delete"
    \/ x.op = "release" /\ x.key \in Contract /\ x.pc = "write"

Requests == \A r \in Request : ReqOK(req[r])

\* A contract that was not created yet has neither a row nor an entry.
Uncreated == \A c \in Contract \ created : contract[c] = NoRow /\ audits[c] = 0

\* Request x has deleted user w and is to write the entry; it is in the
\* transaction that deletes him; it is past its check and will give him
\* something, a claim on one of the policies S apart.
IsPending(x, w) == x.op = "delete" /\ x.pc = "audit" /\ x.key = w
IsCascading(x, w) == x.op = "delete" /\ x.key = w /\ x.pc \in Cascaded \cup {"commit"}
IsPastCheck(x, w, S) ==
    /\ x.key = w
    /\ x.pc \in {"write", "setting"}
    /\ \/ x.op \in {"getSettings", "updateSettings", "notify"}
       \/ x.op = "claim" /\ <<w, x.row>> \notin S

\* The transaction that deletes a user has him for itself, and he is live.
Cascades ==
    \A r \in Request, w \in Wallet :
        IsCascading(req[r], w) =>
            IsLive(user[w]) /\ \A s \in Request : IsCascading(req[s], w) => s = r

\* What a user owned is gone with him, but for what he bought since, and no
\* request that passed its check before will bring any of it back.
OwnedGone(w) ==
    /\ ~IsLive(setting[w])
    /\ \A k \in OwnedBy(w) : /\ ~IsLive(note[k])
                             /\ IsLive(policy[k]) => k \in bought
                             /\ IsLive(claim[k]) => k \in bought

Owned ==
    \A w \in Wallet :
        IsGone(user[w]) /\ w \notin late =>
            OwnedGone(w) /\ \A s \in Request : ~IsPastCheck(req[s], w, bought)

IInv == TypeOK /\ Requests /\ Uncreated /\ DeletionsAudited /\ Cascades /\ Owned

-----------------------------------------------------------------------------
\* What the middleware makes of a query, and what the query does to a table.

Table(K) == [K -> Rows(Time, 0..1)]

\* The row with another time of deletion, and with another value.
Stamped(row, at) == [row EXCEPT !.deletedAt = at]
Valued(row, value) == [row EXCEPT !.value = value]

\* An upsert makes the row live, with the caller's value if there is one.
Upserted(row, value) ==
    IF row.present THEN [row EXCEPT !.deletedAt = 0, !.value = IF value = -1 THEN @ ELSE value]
    ELSE NewRow(IF value = -1 THEN 0 ELSE value)

\* Table t after a soft delete of the keys S, a write of a value, an insert and an
\* upsert of key k.
StampedRows(K, t, S, at) ==
    [i \in K |-> IF i \in S /\ IsLive(t[i]) THEN Stamped(t[i], at) ELSE t[i]]
ValuedRows(K, t, k, value) ==
    [i \in K |-> IF i = k /\ IsLive(t[i]) THEN Valued(t[i], value) ELSE t[i]]
CreatedRows(K, t, k) ==
    [i \in K |-> IF i = k /\ ~t[i].present THEN NewRow(0) ELSE t[i]]
UpsertedRows(K, t, k, value) ==
    [i \in K |-> IF i = k THEN Upserted(t[i], value) ELSE t[i]]

LEMMA RowFields ==
    ASSUME NEW K, NEW t \in Table(K), NEW k \in K
    PROVE  /\ t[k] \in Rows(Time, 0..1) /\ t[k].present \in BOOLEAN
           /\ t[k].deletedAt \in Time \cup {0} /\ t[k].value \in 0..1
BY DEF Table, Rows, Live

\* update and updateMany.
LEMMA Updates ==
    ASSUME NEW K, NEW t \in Table(K), NEW q, NEW r, Rewrite(q, now) = r,
           r.action \in {"update", "updateMany"}
    PROVE  Execute(t, q, now) =
              [k \in K |-> IF k \in r.keys /\ Satisfies(t[k], r.filter) THEN Write(t[k], r) ELSE t[k]]
<1>1. DOMAIN t = K
  BY DEF Table
<1>2. \A k \in K : k \in Matching(t, r) <=> k \in r.keys /\ Satisfies(t[k], r.filter)
  BY DEF Matching
<1> QED BY <1>1, <1>2 DEF Execute

\* A soft delete by hand, of one row and of many.
LEMMA SoftDeletes ==
    ASSUME NEW K, NEW t \in Table(K), NEW k \in K, NEW S, NEW at \in Time
    PROVE  /\ Throws(t, SoftDelete(k, at), now) <=> ~IsLive(t[k])
           /\ Execute(t, SoftDelete(k, at), now) = StampedRows(K, t, {k}, at)
           /\ Execute(t, SoftDeleteMany(S, at), now) = StampedRows(K, t, S, at)
<1>1. at \in Nat /\ at # 0 /\ at # -1
  BY AccountsAssumption DEF Time, AccountsAssumption
<1> DEFINE q == SoftDelete(k, at)
           m == SoftDeleteMany(S, at)
           r == Rewrite(q, now)
           n == Rewrite(m, now)
<1>2. /\ r.action = "update" /\ r.keys = {k} /\ r.filter = DeletedAtNull
      /\ r.deletedAt = at /\ r.value = Untouched
  BY <1>1 DEF SoftDelete, Query, Rewrite, RewriteUpdate, Reads, Live
<1>3. /\ n.action = "updateMany" /\ n.keys = S /\ n.filter = DeletedAtNull
      /\ n.deletedAt = at /\ n.value = Untouched
  BY <1>1 DEF SoftDeleteMany, Query, Rewrite, RewriteUpdate, Reads, Live
<1>4. \A i \in K : Satisfies(t[i], DeletedAtNull) <=> IsLive(t[i])
  BY DEF Satisfies, DeletedAtNull, IsLive
<1>5. \A i \in K : Write(t[i], r) = Stamped(t[i], at) /\ Write(t[i], n) = Stamped(t[i], at)
  <2> SUFFICES ASSUME NEW i \in K
               PROVE  Write(t[i], r) = Stamped(t[i], at) /\ Write(t[i], n) = Stamped(t[i], at)
    OBVIOUS
  <2>1. t[i] \in Rows(Time, 0..1)
    BY RowFields
  <2> HIDE DEF r, n
  <2> QED BY <1>1, <1>2, <1>3, <2>1 DEF Write, Stamped, Untouched, Rows
<1> HIDE DEF q, m
<1>6. Execute(t, q, now) = StampedRows(K, t, {k}, at)
  BY <1>2, <1>4, <1>5, Updates DEF StampedRows
<1>7. Execute(t, m, now) = StampedRows(K, t, S, at)
  BY <1>3, <1>4, <1>5, Updates DEF StampedRows
<1>8. Throws(t, q, now) <=> ~IsLive(t[k])
  BY <1>2, <1>4 DEF Throws, Matching
<1> QED BY <1>6, <1>7, <1>8 DEF q, m

\* The delete of Prisma, which the middleware turns into an update.
LEMMA Deletes ==
    ASSUME NEW K, NEW t \in Table(K), NEW k \in K, now \in Time
    PROVE  /\ Throws(t, Delete(k), now) <=> ~IsLive(t[k])
           /\ Execute(t, Delete(k), now) = StampedRows(K, t, {k}, now)
<1>1. now \in Nat /\ now # 0 /\ now # -1
  BY AccountsAssumption DEF Time, AccountsAssumption
<1> DEFINE q == Delete(k)
           r == Rewrite(q, now)
<1>2. /\ r.action = "update" /\ r.keys = {k} /\ r.filter = DeletedAtNull
      /\ r.deletedAt = now /\ r.value = Untouched
  BY <1>1 DEF Delete, Query, Rewrite, RewriteDelete, Reads
<1>3. \A i \in K : Satisfies(t[i], DeletedAtNull) <=> IsLive(t[i])
  BY DEF Satisfies, DeletedAtNull, IsLive
<1>4. ASSUME NEW i \in K PROVE Write(t[i], r) = Stamped(t[i], now)
  <2>1. t[i] \in Rows(Time, 0..1)
    BY RowFields
  <2> HIDE DEF r
  <2> QED BY <1>1, <1>2, <2>1 DEF Write, Stamped, Untouched, Rows
<1> HIDE DEF q
<1>5. Execute(t, q, now) = StampedRows(K, t, {k}, now)
  BY <1>2, <1>3, <1>4, Updates DEF StampedRows
<1>6. Throws(t, q, now) <=> ~IsLive(t[k])
  BY <1>2, <1>3 DEF Throws, Matching
<1> QED BY <1>5, <1>6 DEF q

\* A write of the value, which a deleted row does not get.
LEMMA ValueUpdates ==
    ASSUME NEW K, NEW t \in Table(K), NEW k \in K, NEW value \in 0..1
    PROVE  /\ Throws(t, Update(k, value), now) <=> ~IsLive(t[k])
           /\ Execute(t, Update(k, value), now) = ValuedRows(K, t, k, value)
<1>1. value # -1
  OBVIOUS
<1> DEFINE q == Update(k, value)
           r == Rewrite(q, now)
<1>2. /\ r.action = "update" /\ r.keys = {k} /\ r.filter = DeletedAtNull
      /\ r.deletedAt = Untouched /\ r.value = value
  <2>1. Untouched # Live
    BY DEF Untouched, Live
  <2> QED BY <2>1 DEF Update, Query, Rewrite, RewriteUpdate, Reads
<1>3. \A i \in K : Satisfies(t[i], DeletedAtNull) <=> IsLive(t[i])
  BY DEF Satisfies, DeletedAtNull, IsLive
<1>4. ASSUME NEW i \in K PROVE Write(t[i], r) = Valued(t[i], value)
  <2>1. t[i] \in Rows(Time, 0..1)
    BY RowFields
  <2> HIDE DEF r
  <2> QED BY <1>1, <1>2, <2>1 DEF Write, Valued, Untouched, Rows
<1> HIDE DEF q
<1>5. Execute(t, q, now) = ValuedRows(K, t, k, value)
  BY <1>2, <1>3, <1>4, Updates DEF ValuedRows
<1>6. Throws(t, q, now) <=> ~IsLive(t[k])
  BY <1>2, <1>3 DEF Throws, Matching
<1> QED BY <1>5, <1>6 DEF q

\* An insert; a deleted row still holds its key.
LEMMA Creates ==
    ASSUME NEW K, NEW t \in Table(K), NEW k \in K
    PROVE  /\ Throws(t, Create(k, 0), now) <=> t[k].present
           /\ Execute(t, Create(k, 0), now) = CreatedRows(K, t, k)
<1> DEFINE q == Create(k, 0)
           r == Rewrite(q, now)
<1>1. r.action = "create" /\ r.keys = {k} /\ r.value = 0
  BY DEF Create, Query, Rewrite, Reads
<1>2. Inserted(r) = NewRow(0)
  BY <1>1 DEF Inserted, Untouched
<1>3. DOMAIN t = K
  BY DEF Table
<1> HIDE DEF q
<1>4. Execute(t, q, now) = CreatedRows(K, t, k)
  BY <1>1, <1>2, <1>3 DEF Execute, CreatedRows
<1>5. Throws(t, q, now) <=> t[k].present
  BY <1>1 DEF Throws
<1> QED BY <1>4, <1>5 DEF q

LEMMA Upserts ==
    ASSUME NEW K, NEW t \in Table(K), NEW k \in K, NEW value \in {-1, 0, 1}
    PROVE  /\ Execute(t, Upsert(k, value), now) = UpsertedRows(K, t, k, value)
           /\ Execute(t, [Upsert(k, value) EXCEPT !.deletedAt = Live], now) = UpsertedRows(K, t, k, value)
<1>1. ASSUME NEW q, q \in {Upsert(k, value), [Upsert(k, value) EXCEPT !.deletedAt = Live]}
      PROVE  Execute(t, q, now) = UpsertedRows(K, t, k, value)
  <2> DEFINE r == Rewrite(q, now)
  <2>1. r.action = "upsert" /\ r.keys = {k} /\ r.value = value /\ r.deletedAt = 0
    BY <1>1 DEF Upsert, Query, Rewrite, RewriteUpsert, Reads, Live, Untouched
  <2> HIDE DEF r
  <2>2. ASSUME NEW i \in K, t[i].present PROVE Write(t[i], r) = Upserted(t[i], value)
    <3>1. t[i] \in Rows(Time, 0..1)
      BY RowFields
    <3> QED BY <2>1, <2>2, <3>1 DEF Write, Upserted, Untouched, Rows
  <2>3. ASSUME NEW i \in K, ~t[i].present PROVE Inserted(r) = Upserted(t[i], value)
    BY <2>1, <2>3 DEF Inserted, Upserted, Untouched
  <2>4. DOMAIN t = K
    BY DEF Table
  <2> USE DEF r
  <2> QED BY <2>1, <2>2, <2>3, <2>4 DEF Execute, UpsertedRows
<1> QED BY <1>1

\* Restores, of SoftDeleteService and of the repository.
LEMMA Restores ==
    ASSUME NEW K, NEW t \in Table(K), NEW k \in K, NEW S \in SUBSET K,
           NEW q \in {Restore(k), RestoreMany(S), RepositoryRestore(k)}
    PROVE  \A i \in K : \/ Execute(t, q, now)[i] = t[i]
                        \/ t[i].present /\ Execute(t, q, now)[i] = Stamped(t[i], 0)
<1> DEFINE r == Rewrite(q, now)
<1>1. r.action \in {"update", "updateMany"} /\ r.deletedAt = 0 /\ r.value = Untouched
  BY DEF Restore, RestoreMany, RepositoryRestore, Query, Rewrite, RewriteUpdate, Reads, Live
<1>2. ASSUME NEW i \in K PROVE Write(t[i], r) = Stamped(t[i], 0)
  <2>1. t[i] \in Rows(Time, 0..1)
    BY RowFields
  <2> HIDE DEF r
  <2>2. 0 # Untouched
    BY DEF Untouched
  <2> QED BY <1>1, <2>1, <2>2 DEF Write, Stamped, Rows
<1>3. Execute(t, q, now) =
         [i \in K |-> IF i \in r.keys /\ Satisfies(t[i], r.filter) THEN Write(t[i], r) ELSE t[i]]
  BY <1>1, Updates
<1> HIDE DEF r
<1>4. ASSUME NEW i \in K
      PROVE  \/ Execute(t, q, now)[i] = t[i]
             \/ Satisfies(t[i], r.filter) /\ Execute(t, q, now)[i] = Stamped(t[i], 0)
  BY <1>2, <1>3
<1> QED BY <1>4 DEF Satisfies

\* Hard deletes, by request and by age.
LEMMA HardDeletes ==
    ASSUME NEW K, NEW t \in Table(K), NEW S \in SUBSET K,
           NEW q \in {HardDelete(k) : k \in S} \cup {HardDeleteMany(S)}
    PROVE  \A i \in K : \/ Execute(t, q, now)[i] = t[i]
                        \/ i \in S /\ Execute(t, q, now)[i] = NoRow
<1> DEFINE r == Rewrite(q, now)
<1>1. r.action \in {"delete", "deleteMany"} /\ r.keys \subseteq S
  <2>1. CASE q = HardDeleteMany(S)
    BY <2>1 DEF HardDeleteMany, Query, Rewrite, RewriteDelete, Reads
  <2>2. CASE \E k \in S : q = HardDelete(k)
    BY <2>2 DEF HardDelete, Query, Rewrite, RewriteDelete, Reads
  <2> QED BY <2>1, <2>2
<1>2. Matching(t, r) \subseteq S /\ DOMAIN t = K
  BY <1>1 DEF Matching, Table
<1>3. ASSUME NEW i \in K
      PROVE  Execute(t, q, now)[i] = IF i \in Matching(t, r) THEN NoRow ELSE t[i]
  BY <1>1, <1>2 DEF Execute
<1> QED BY <1>2, <1>3

LEMMA ExpiredDeletes ==
    ASSUME NEW K, NEW t \in Table(K), NEW at \in 1..now, now \in Time
    PROVE  \A i \in K : LET after == Execute(t, PermanentlyDeleteExpired(K, at), now)[i] IN
              \/ after = t[i]
              \/ IsGone(t[i]) /\ t[i].deletedAt < now /\ after = NoRow
<1> DEFINE q == PermanentlyDeleteExpired(K, at)
           r == Rewrite(q, now)
<1>1. r.action = "deleteMany" /\ r.keys = K /\ r.filter = DeletedBefore(at)
  BY DEF PermanentlyDeleteExpired, Query, Rewrite, RewriteDelete, Reads
<1>2. ASSUME NEW i \in K, Satisfies(t[i], DeletedBefore(at))
      PROVE  IsGone(t[i]) /\ t[i].deletedAt < now
  <2>1. at \in Nat /\ at # 0 /\ now \in Nat /\ at <= now
    BY DEF Time
  <2>2. t[i].deletedAt \in Nat
    BY RowFields DEF Time
  <2> QED BY <1>2, <2>1, <2>2 DEF Satisfies, DeletedBefore, IsGone
<1>3. DOMAIN t = K
  BY DEF Table
<1> HIDE DEF q
<1>4. ASSUME NEW i \in K
      PROVE  \/ Execute(t, q, now)[i] = t[i]
             \/ Satisfies(t[i], DeletedBefore(at)) /\ Execute(t, q, now)[i] = NoRow
  <2>1. i \in Matching(t, r) => Satisfies(t[i], DeletedBefore(at))
    BY <1>1 DEF Matching
  <2>2. Execute(t, q, now)[i] = IF i \in Matching(t, r) THEN NoRow ELSE t[i]
    BY <1>1, <1>3 DEF Execute
  <2> QED BY <2>1, <2>2
<1> QED BY <1>2, <1>4 DEF q

\* Reads: only with the middleware's flag do they find a deleted row.
LEMMA ReadsFind ==
    ASSUME NEW K, NEW t \in Table(K), NEW S \in SUBSET K, NEW k \in K
    PROVE  /\ \A q \in OrdinaryReads(S) : Found(t, q, now) = {i \in S : IsLive(t[i])}
           /\ Exists(t, k) <=> IsLive(t[k])
           /\ Found(t, FindManyIncludingDeleted(S), now) = {i \in S : t[i].present}
           /\ IsDeleted(t, k, now) <=> IsGone(t[k])
<1>1. ASSUME NEW q \in OrdinaryReads(S) PROVE Found(t, q, now) = {i \in S : IsLive(t[i])}
  <2>1. Rewrite(q, now).keys = S /\ Rewrite(q, now).filter = DeletedAtNull
    BY DEF OrdinaryReads, FindMany, Count, Query, Rewrite, RewriteRead, Reads
  <2> QED BY <2>1 DEF Found, Matching, Satisfies, DeletedAtNull, IsLive
<1>2. Exists(t, k) <=> IsLive(t[k])
  <2>1. Rewrite(FindById(k), now).keys = {k} /\ Rewrite(FindById(k), now).filter = DeletedAtNull
    BY DEF FindById, Query, Rewrite, RewriteRead, Reads
  <2> QED BY <2>1 DEF Exists, Found, Matching, Satisfies, DeletedAtNull, IsLive
<1>3. Found(t, FindManyIncludingDeleted(S), now) = {i \in S : t[i].present}
  <2>1. /\ Rewrite(FindManyIncludingDeleted(S), now).keys = S
        /\ Rewrite(FindManyIncludingDeleted(S), now).filter = AnyRow
    BY DEF FindManyIncludingDeleted, Query, Rewrite, RewriteRead, Reads
  <2> QED BY <2>1 DEF Found, Matching, Satisfies, AnyRow
<1>4. IsDeleted(t, k, now) <=> IsGone(t[k])
  <2>1. /\ Rewrite(FindIncludingDeleted(k), now).keys = {k}
        /\ Rewrite(FindIncludingDeleted(k), now).filter = AnyRow
    BY DEF FindIncludingDeleted, Query, Rewrite, RewriteRead, Reads
  <2> QED BY <2>1 DEF IsDeleted, Found, Matching, Satisfies, AnyRow, IsGone
<1> QED BY <1>1, <1>2, <1>3, <1>4

-----------------------------------------------------------------------------
\* Rows after a write.

LEMMA RowTypes ==
    ASSUME NEW row \in Rows(Time, 0..1)
    PROVE  /\ \A at \in Time : /\ Stamped(row, at) \in Rows(Time, 0..1)
                               /\ IsLive(row) => IsGone(Stamped(row, at))
           /\ Stamped(row, 0) \in Rows(Time, 0..1) /\ (row.present => IsLive(Stamped(row, 0)))
           /\ \A value \in 0..1 : /\ Valued(row, value) \in Rows(Time, 0..1)
                                  /\ IsLive(row) => IsLive(Valued(row, value))
           /\ \A value \in {-1, 0, 1} : /\ Upserted(row, value) \in Rows(Time, 0..1)
                                        /\ IsLive(Upserted(row, value))
           /\ NewRow(0) \in Rows(Time, 0..1) /\ IsLive(NewRow(0))
           /\ NoRow \in Rows(Time, 0..1) /\ ~NoRow.present
<1>1. 0 \notin Time
  BY DEF Time
<1>2. ASSUME NEW at \in Time
      PROVE  Stamped(row, at) \in Rows(Time, 0..1) /\ (IsLive(row) => IsGone(Stamped(row, at)))
  BY <1>1 DEF Stamped, Rows, IsLive, IsGone, Live
<1>3. Stamped(row, 0) \in Rows(Time, 0..1) /\ (row.present => IsLive(Stamped(row, 0)))
  BY DEF Stamped, Rows, IsLive, Live
<1>4. ASSUME NEW value \in 0..1
      PROVE  Valued(row, value) \in Rows(Time, 0..1) /\ (IsLive(row) => IsLive(Valued(row, value)))
  BY DEF Valued, Rows, IsLive, Live
<1>5. ASSUME NEW value \in {-1, 0, 1}
      PROVE  Upserted(row, value) \in Rows(Time, 0..1) /\ IsLive(Upserted(row, value))
  <2>1. (IF value = -1 THEN row.value ELSE value) \in 0..1 /\ (IF value = -1 THEN 0 ELSE value) \in 0..1
    BY DEF Rows
  <2>2. CASE row.present
    <3> DEFINE v == IF value = -1 THEN row.value ELSE value
    <3>1. Upserted(row, value) = [[row EXCEPT !.deletedAt = 0] EXCEPT !.value = v]
      BY <2>2 DEF Upserted, Rows
    <3>2. v \in 0..1
      BY <2>1
    <3> HIDE DEF v
    <3> QED BY <2>2, <3>1, <3>2 DEF Rows, IsLive, Live
  <2>3. CASE ~row.present
    BY <2>1, <2>3 DEF Upserted, NewRow, Rows, IsLive, Live
  <2> QED BY <2>2, <2>3
<1>6. /\ NewRow(0) \in Rows(Time, 0..1) /\ IsLive(NewRow(0))
      /\ NoRow \in Rows(Time, 0..1) /\ ~NoRow.present
  BY DEF NewRow, NoRow, Rows, IsLive, Live
<1> QED BY <1>2, <1>3, <1>4, <1>5, <1>6

LEMMA TableTypes ==
    ASSUME TypeOK
    PROVE  /\ user \in Table(Wallet) /\ setting \in Table(Wallet) /\ note \in Table(OwnedKeys)
           /\ policy \in Table(OwnedKeys) /\ claim \in Table(OwnedKeys) /\ contract \in Table(Contract)
           /\ now \in Time
BY DEF TypeOK, Tables, Table

\* A table after each of the writes is a table; which rows are live or gone.
LEMMA StampedTable ==
    ASSUME NEW K, NEW t \in Table(K), NEW u, NEW S, NEW at \in Time,
           u = StampedRows(K, t, S, at)
    PROVE  /\ u \in Table(K) /\ \A i \in K : i \in S => ~IsLive(u[i])
           /\ \A i \in K : u[i] = t[i] \/ (i \in S /\ IsLive(t[i]) /\ IsGone(u[i]))
<1>1. ASSUME NEW i \in K
      PROVE  /\ u[i] \in Rows(Time, 0..1) /\ (i \in S => ~IsLive(u[i]))
             /\ u[i] = t[i] \/ (i \in S /\ IsLive(t[i]) /\ IsGone(u[i]))
  <2>1. IsGone(Stamped(t[i], at)) => ~IsLive(Stamped(t[i], at))
    BY DEF IsGone, IsLive
  <2>2. t[i] \in Rows(Time, 0..1)
    BY RowFields
  <2> QED BY <2>1, <2>2, RowTypes DEF StampedRows
<1> QED BY <1>1 DEF Table, StampedRows

LEMMA CreatedTable ==
    ASSUME NEW K, NEW t \in Table(K), NEW u, NEW k \in K,
           u = CreatedRows(K, t, k)
    PROVE  /\ u \in Table(K)
           /\ \A i \in K : u[i] = t[i] \/ (i = k /\ ~t[i].present /\ IsLive(u[i]))
<1>1. \A i \in K : t[i] \in Rows(Time, 0..1)
  BY RowFields
<1>2. \A i \in K : /\ u[i] \in Rows(Time, 0..1)
                   /\ u[i] = t[i] \/ (i = k /\ ~t[i].present /\ IsLive(u[i]))
  BY <1>1, RowTypes DEF CreatedRows
<1> QED BY <1>2 DEF Table, CreatedRows

LEMMA ValuedTable ==
    ASSUME NEW K, NEW t \in Table(K), NEW u, NEW k \in K, NEW value \in 0..1,
           u = ValuedRows(K, t, k, value)
    PROVE  u \in Table(K) /\ \A i \in K : u[i] = t[i] \/ (IsLive(t[i]) /\ IsLive(u[i]))
<1>1. \A i \in K : t[i] \in Rows(Time, 0..1)
  BY RowFields
<1>2. \A i \in K : u[i] \in Rows(Time, 0..1) /\ (u[i] = t[i] \/ (IsLive(t[i]) /\ IsLive(u[i])))
  BY <1>1, RowTypes DEF ValuedRows
<1> QED BY <1>2 DEF Table, ValuedRows

LEMMA UpsertedTable ==
    ASSUME NEW K, NEW t \in Table(K), NEW u, NEW k \in K, NEW value \in {-1, 0, 1},
           u = UpsertedRows(K, t, k, value)
    PROVE  u \in Table(K) /\ IsLive(u[k]) /\ \A i \in K : u[i] = t[i] \/ i = k
<1>1. \A i \in K : t[i] \in Rows(Time, 0..1)
  BY RowFields
<1>2. \A i \in K : u[i] \in Rows(Time, 0..1) /\ IsLive(u[k]) /\ (u[i] = t[i] \/ i = k)
  BY <1>1, RowTypes DEF UpsertedRows
<1> QED BY <1>2 DEF Table, UpsertedRows

-----------------------------------------------------------------------------
\* Requests.

RequestType == [op: Ops \cup {"none"},
                pc: {"new", "write", "commit", "audit", "done"} \cup Cascaded,
                key: Wallet \cup Contract \cup {"none"},
                row: 0..MaxRows, at: 0..MaxTime]
TakenType == [Wallet -> [Cascaded -> SUBSET (Wallet \cup OwnedKeys)]]

Pending(w) == {r \in Request : At(r, "delete", "audit") /\ req[r].key = w}

\* Request r becomes x, the others stay as they are.
Becomes(r, x) ==
    /\ req' \in [Request -> RequestType]
    /\ req'[r] = x
    /\ \A i \in Request \ {r} : req'[i] = req[i]

LEMMA SetBecomes ==
    ASSUME TypeOK, NEW r \in Request, NEW x \in RequestType, req' = [req EXCEPT ![r] = x]
    PROVE  Becomes(r, x)
BY DEF TypeOK, RequestType, Becomes

\* A request that is answered is none of these.
Idle(x) == \A w, S : ~IsPending(x, w) /\ ~IsCascading(x, w) /\ ~IsPastCheck(x, w, S)

LEMMA DoneBecomes ==
    ASSUME TypeOK, NEW r \in Request, Done(r)
    PROVE  Becomes(r, Answered) /\ ReqOK(Answered) /\ Idle(Answered)
<1>1. Answered \in RequestType
  BY AccountsAssumption DEF AccountsAssumption, Answered, NoRequest, RequestType
<1>2. Becomes(r, Answered)
  BY <1>1, SetBecomes DEF Done
<1>3. Answered.op = "none"
  BY DEF Answered, NoRequest
<1> QED BY <1>2, <1>3 DEF ReqOK, Idle, IsPending, IsCascading, IsPastCheck

LEMMA RequestsAfter ==
    ASSUME Requests, NEW r \in Request, NEW x, Becomes(r, x), ReqOK(x)
    PROVE  /\ Requests'
           /\ \A i \in Request : req'[i] = IF i = r THEN x ELSE req[i]
           /\ \A w : Pending(w)' = IF IsPending(x, w) THEN Pending(w) \cup {r} ELSE Pending(w) \ {r}
<1>1. \A i \in Request : req'[i] = IF i = r THEN x ELSE req[i]
  BY DEF Becomes
<1>2. Requests'
  <2>1. \A i \in Request : ReqOK(req'[i])
    BY <1>1 DEF Requests
  <2> QED BY <2>1 DEF Requests, ReqOK, NoRequest, Answered, Ops, Time
<1>3. \A w : Pending(w)' = IF IsPending(x, w) THEN Pending(w) \cup {r} ELSE Pending(w) \ {r}
  BY <1>1 DEF Pending, At, IsPending
<1> QED BY <1>1, <1>2, <1>3

LEMMA PendingCount ==
    /\ \A w : IsFiniteSet(Pending(w)) /\ Cardinality(Pending(w)) \in Nat
    /\ \A w, r : r \in Request \ Pending(w) => Cardinality(Pending(w) \cup {r}) = Cardinality(Pending(w)) + 1
    /\ \A w, r : r \in Pending(w) => Cardinality(Pending(w) \ {r}) = Cardinality(Pending(w)) - 1
<1>1. \A w : IsFiniteSet(Pending(w)) /\ Cardinality(Pending(w)) \in Nat
  <2>1. \A w : Pending(w) \subseteq Request
    BY DEF Pending
  <2> QED BY <2>1, AccountsAssumption, FS_Subset, FS_CardinalityType DEF AccountsAssumption
<1> QED BY <1>1, FS_AddElement, FS_RemoveElement

-----------------------------------------------------------------------------
\* The parts of the invariant, and what keeps them.

WalletAudit(w) ==
    audits[w] + lost[w] + Cardinality(Pending(w)) = revived[w] + (IF IsGone(user[w]) THEN 1 ELSE 0)

ContractAudit(c) == audits[c] <= revived[c] + (IF IsLive(contract[c]) THEN 0 ELSE 1)

\* The step that DeletedRowsStay allows, for users, for what they own and for
\* contracts.
ContractsStay ==
    /\ \A c \in Contract :
          IsGone(contract[c]) /\ contract'[c].present =>
              contract'[c] = contract[c] \/ IsLive(contract'[c])
    /\ \A c \in Contract \ erased' :
          contract[c].present /\ ~contract'[c].present =>
              IsGone(contract[c]) /\ contract[c].deletedAt < now

UsersStay ==
    /\ SameOrLive(user, user') /\ SameOrLive(setting, setting')
    /\ SameDeleted(note, note') /\ SameDeleted(policy, policy') /\ SameDeleted(claim, claim')

RowsStay == UsersStay /\ ContractsStay

LEMMA AuditParts ==
    DeletionsAudited <=> /\ \A w \in Wallet : WalletAudit(w)
                         /\ \A c \in Contract : ContractAudit(c)
BY DEF DeletionsAudited, WalletAudit, ContractAudit, Pending

LEMMA AuditPartsNext ==
    DeletionsAudited' <=> /\ \A w \in Wallet : WalletAudit(w)'
                          /\ \A c \in Contract : ContractAudit(c)'
BY DEF DeletionsAudited, WalletAudit, ContractAudit, Pending, At

LEMMA Keys ==
    /\ \A w \in Wallet : w \in Audited /\ w # "purge" /\ w \notin Contract
    /\ \A c \in Contract : c \in Audited /\ c # "purge" /\ c \notin Wallet
    /\ \A w \in Wallet : OwnedBy(w) \in SUBSET OwnedKeys
    /\ \A v, w \in Wallet : v # w => OwnedBy(v) \cap OwnedBy(w) = {}
BY AccountsAssumption DEF AccountsAssumption, Audited, OwnedBy, OwnedKeys

LEMMA Counts ==
    ASSUME TypeOK
    PROVE  /\ \A w \in Wallet : audits[w] \in Nat /\ lost[w] \in Nat /\ revived[w] \in Nat
           /\ \A c \in Contract : audits[c] \in Nat /\ revived[c] \in Nat
           /\ audits \in [Audited -> Nat] /\ lost \in [Wallet -> Nat]
           /\ revived \in [Wallet \cup Contract -> Nat]
BY Keys DEF TypeOK

LEMMA WalletsKept ==
    ASSUME IInv,
           \A w \in Wallet : /\ audits'[w] = audits[w] /\ lost'[w] = lost[w] /\ revived'[w] = revived[w]
                             /\ Pending(w)' = Pending(w)
                             /\ IsGone(user'[w]) <=> IsGone(user[w])
    PROVE  \A w \in Wallet : WalletAudit(w)'
<1> SUFFICES ASSUME NEW w \in Wallet PROVE WalletAudit(w)'
  OBVIOUS
<1>1. WalletAudit(w)
  BY AuditParts DEF IInv
<1>2. Cardinality(Pending(w)') = Cardinality(Pending(w))
  OBVIOUS
<1>3. IsGone(user[w])' <=> IsGone(user[w])
  BY DEF IsGone, Live
<1> QED BY <1>1, <1>2, <1>3 DEF WalletAudit

LEMMA ContractsKept ==
    ASSUME IInv, UNCHANGED <<contract, created>>,
           \A c \in Contract : audits'[c] = audits[c] /\ revived'[c] = revived[c]
    PROVE  /\ \A c \in Contract : ContractAudit(c)'
           /\ Uncreated' /\ ContractsStay
<1>1. \A c \in Contract : ContractAudit(c)
  BY AuditParts DEF IInv
<1>2. \A c \in Contract : ContractAudit(c)'
  BY <1>1 DEF ContractAudit, IsLive, Live
<1>3. Uncreated'
  BY DEF IInv, Uncreated, NoRow
<1> QED BY <1>2, <1>3 DEF ContractsStay

LEMMA CascadesKept ==
    ASSUME IInv,
           \A s \in Request, w \in Wallet : IsCascading(req'[s], w) => IsCascading(req[s], w),
           \A w \in Wallet : IsLive(user[w]) => IsLive(user'[w])
    PROVE  Cascades'
<1>1. \A r \in Request, w \in Wallet :
         IsCascading(req'[r], w) =>
             IsLive(user'[w]) /\ \A s \in Request : IsCascading(req'[s], w) => s = r
  BY DEF IInv, Cascades
<1> QED BY <1>1 DEF Cascades, IsCascading, Cascaded, IsLive, Live

\* A deleted user whose deletion overlapped nothing.
Clean(w) == IsGone(user[w]) /\ w \notin late

LEMMA CleanFacts ==
    ASSUME IInv, NEW w \in Wallet, Clean(w)
    PROVE  OwnedGone(w) /\ \A s \in Request : ~IsPastCheck(req[s], w, bought)
BY DEF IInv, Owned, Clean

\* What he owns after the step, and the requests.
LEMMA OwnedKept ==
    ASSUME IInv,
           \A w \in Wallet :
              IsGone(user'[w]) /\ w \notin late' =>
                 /\ ~IsLive(setting'[w])
                 /\ \A k \in OwnedBy(w) : /\ ~IsLive(note'[k])
                                          /\ IsLive(policy'[k]) => k \in bought'
                                          /\ IsLive(claim'[k]) => k \in bought'
                 /\ \A s \in Request : ~IsPastCheck(req'[s], w, bought')
    PROVE  Owned'
<1> SUFFICES ASSUME NEW w \in Wallet, IsGone(user'[w]), w \notin late'
             PROVE  OwnedGone(w)' /\ \A s \in Request : ~IsPastCheck(req'[s], w, bought')
  BY DEF Owned, IsGone, Live, IsPastCheck
<1>1. OwnedGone(w)'
  BY DEF OwnedGone, IsLive, Live, OwnedBy
<1> QED BY <1>1

\* A step of request r that writes what a user owns, and no contract: it neither
\* deletes nor revives a user.
LEMMA WriteStep ==
    ASSUME IInv, NEW r \in Request, NEW x, Becomes(r, x), ReqOK(x),
           \A w \in Wallet : ~IsPending(req[r], w) /\ ~IsPending(x, w),
           \A w \in Wallet : IsCascading(x, w) =>
              IsCascading(req[r], w) \/ (IsLive(user[w]) /\ \A s \in Request : ~IsCascading(req[s], w)),
           UNCHANGED <<contract, now, audits, admin, created, erased, revived, lost, late>>,
           taken' \in TakenType, bought' \in SUBSET OwnedKeys, bought \subseteq bought',
           user' \in Table(Wallet), setting' \in Table(Wallet), note' \in Table(OwnedKeys),
           policy' \in Table(OwnedKeys), claim' \in Table(OwnedKeys), UsersStay,
           \A w \in Wallet : IsGone(user'[w]) <=> IsGone(user[w]),
           \A w \in Wallet : IsLive(user[w]) => IsLive(user'[w]),
           \A w \in Wallet : Clean(w) =>
              /\ ~IsPastCheck(x, w, bought')
              /\ setting'[w] = setting[w]
              /\ \A k \in OwnedBy(w) : /\ note'[k] = note[k]
                                       /\ policy'[k] = policy[k] \/ k \in bought'
                                       /\ claim'[k] = claim[k] \/ k \in bought'
    PROVE  IInv' /\ RowsStay
<1>1. TypeOK /\ Requests
  BY DEF IInv
<1>2. /\ Requests'
      /\ \A i \in Request : req'[i] = IF i = r THEN x ELSE req[i]
      /\ \A w : Pending(w)' = IF IsPending(x, w) THEN Pending(w) \cup {r} ELSE Pending(w) \ {r}
  BY <1>1, RequestsAfter
<1>3. TypeOK'
  <2>1. Tables(0..1)'
    BY <1>1, TableTypes DEF Tables, Table, Rows, Time, OwnedKeys, Live
  <2>2. req' \in [Request -> RequestType]
    BY DEF Becomes
  <2> QED BY <1>1, <2>1, <2>2 DEF TypeOK, RequestType, TakenType, Time, OwnedKeys, Cascaded
<1>4. \A w \in Wallet : WalletAudit(w)'
  <2>1. \A w \in Wallet : Pending(w)' = Pending(w)
    <3> SUFFICES ASSUME NEW w \in Wallet PROVE Pending(w)' = Pending(w)
      OBVIOUS
    <3>1. r \notin Pending(w)
      BY DEF Pending, At, IsPending
    <3> QED BY <1>2, <3>1
  <2> QED BY <2>1, WalletsKept
<1>5. /\ \A c \in Contract : ContractAudit(c)'
      /\ Uncreated' /\ ContractsStay
  BY ContractsKept
<1>6. Cascades'
  <2>1. ASSUME NEW s \in Request, NEW w \in Wallet, IsCascading(req'[s], w)
        PROVE  IsLive(user'[w]) /\ \A i \in Request : IsCascading(req'[i], w) => i = s
    <3>1. CASE IsCascading(x, w) /\ ~IsCascading(req[r], w)
      BY <1>2, <2>1, <3>1
    <3>2. CASE ~IsCascading(x, w) \/ IsCascading(req[r], w)
      <4>1. \A i \in Request : IsCascading(req'[i], w) => IsCascading(req[i], w)
        BY <1>2, <3>2
      <4> QED BY <2>1, <4>1 DEF IInv, Cascades
    <3> QED BY <3>1, <3>2
  <2> QED BY <2>1 DEF Cascades, IsCascading, Cascaded, IsLive, Live
<1>7. Owned'
  <2>1. ASSUME NEW w \in Wallet, IsGone(user'[w]), w \notin late'
        PROVE  /\ ~IsLive(setting'[w])
               /\ \A k \in OwnedBy(w) : /\ ~IsLive(note'[k])
                                        /\ IsLive(policy'[k]) => k \in bought'
                                        /\ IsLive(claim'[k]) => k \in bought'
               /\ \A s \in Request : ~IsPastCheck(req'[s], w, bought')
    <3>1. Clean(w)
      BY <2>1 DEF Clean
    <3>2. OwnedGone(w) /\ \A s \in Request : ~IsPastCheck(req[s], w, bought)
      BY <3>1, CleanFacts
    <3>3. \A s \in Request : ~IsPastCheck(req[s], w, bought')
      BY <3>2 DEF IsPastCheck
    <3>4. \A s \in Request : ~IsPastCheck(req'[s], w, bought')
      BY <1>2, <3>1, <3>3
    <3>5. /\ ~IsLive(setting'[w])
          /\ \A k \in OwnedBy(w) : /\ ~IsLive(note'[k])
                                   /\ IsLive(policy'[k]) => k \in bought'
                                   /\ IsLive(claim'[k]) => k \in bought'
      BY <3>1, <3>2 DEF OwnedGone
    <3> QED BY <3>4, <3>5
  <2> QED BY <2>1, OwnedKept
<1>8. RowsStay
  BY <1>5 DEF RowsStay
<1> QED BY <1>2, <1>3, <1>4, <1>5, <1>6, <1>7, <1>8, AuditPartsNext DEF IInv

\* The tables of a step that leaves them alone.
LEMMA SameTable ==
    ASSUME IInv
    PROVE  /\ UNCHANGED user => /\ user' \in Table(Wallet) /\ SameOrLive(user, user')
                                /\ \A w \in Wallet : IsGone(user'[w]) <=> IsGone(user[w])
                                /\ \A w \in Wallet : IsLive(user[w]) => IsLive(user'[w])
           /\ UNCHANGED setting => setting' \in Table(Wallet) /\ SameOrLive(setting, setting')
           /\ UNCHANGED note => note' \in Table(OwnedKeys) /\ SameDeleted(note, note')
           /\ UNCHANGED policy => policy' \in Table(OwnedKeys) /\ SameDeleted(policy, policy')
           /\ UNCHANGED claim => claim' \in Table(OwnedKeys) /\ SameDeleted(claim, claim')
           /\ UNCHANGED taken => taken' \in TakenType
           /\ UNCHANGED bought => bought' \in SUBSET OwnedKeys /\ bought \subseteq bought'
           /\ UNCHANGED <<user, setting, note, policy, claim>> => UsersStay
<1>1. TypeOK
  BY DEF IInv
<1>2. taken \in TakenType /\ bought \in SUBSET OwnedKeys
  BY <1>1 DEF TypeOK, TakenType
<1> QED BY <1>1, <1>2, TableTypes DEF SameOrLive, SameDeleted, UsersStay

-----------------------------------------------------------------------------
\* Steps that check, and write nothing.

\* Request r changes only itself, to x.
LEMMA CheckStep ==
    ASSUME IInv, NEW r \in Request, NEW x, Becomes(r, x), ReqOK(x),
           \A w \in Wallet : ~IsPending(req[r], w) /\ ~IsPending(x, w),
           \A w \in Wallet : IsCascading(x, w) =>
              IsCascading(req[r], w) \/ (IsLive(user[w]) /\ \A s \in Request : ~IsCascading(req[s], w)),
           \A w \in Wallet : Clean(w) => ~IsPastCheck(x, w, bought),
           UNCHANGED <<db, now, audits, admin, history>>
    PROVE  IInv' /\ RowsStay
<1>1. /\ UNCHANGED <<user, setting, note, policy, claim, contract, taken>>
      /\ UNCHANGED <<created, erased, revived, lost, late, bought>>
  BY DEF db, history
<1>2. \A w \in Wallet : Clean(w) =>
         /\ ~IsPastCheck(x, w, bought')
         /\ setting'[w] = setting[w]
         /\ \A k \in OwnedBy(w) : /\ note'[k] = note[k]
                                  /\ policy'[k] = policy[k] \/ k \in bought'
                                  /\ claim'[k] = claim[k] \/ k \in bought'
  BY <1>1
<1>3. /\ user' \in Table(Wallet) /\ setting' \in Table(Wallet) /\ note' \in Table(OwnedKeys)
      /\ policy' \in Table(OwnedKeys) /\ claim' \in Table(OwnedKeys)
      /\ taken' \in TakenType /\ bought' \in SUBSET OwnedKeys /\ bought \subseteq bought'
      /\ UsersStay
      /\ \A w \in Wallet : IsGone(user'[w]) <=> IsGone(user[w])
      /\ \A w \in Wallet : IsLive(user[w]) => IsLive(user'[w])
  BY <1>1, SameTable
<1> QED BY <1>1, <1>2, <1>3, WriteStep

LEMMA OpenBecomes ==
    ASSUME IInv, NEW r \in Request, NEW op \in Ops, NEW pc \in {"write", "setting"}, NEW key,
           NEW row \in 0..MaxRows,
           \/ op # "release" /\ key \in Wallet /\ (op = "claim" => row \in 1..MaxRows)
           \/ op = "release" /\ key \in Contract /\ pc = "write",
           Open(r, op, pc, key, row), pc = "setting" => op = "notify"
    PROVE  \E x : /\ Becomes(r, x) /\ ReqOK(x)
                  /\ \A w : /\ ~IsPending(x, w) /\ ~IsCascading(x, w)
                            /\ ~IsPending(req[r], w)
                  /\ \A w, S : IsPastCheck(x, w, S) =>
                        /\ w = key
                        /\ \/ op \in {"getSettings", "updateSettings", "notify"}
                           \/ op = "claim" /\ <<w, row>> \notin S
<1> DEFINE x == [op |-> op, pc |-> pc, key |-> key, row |-> row,
                 at |-> IF op = "delete" THEN now ELSE 0]
<1>1. now \in Time /\ MaxTime \in Nat /\ TypeOK
  BY AccountsAssumption DEF IInv, TypeOK, AccountsAssumption
<1>2. x.at \in 0..MaxTime /\ (op = "delete" => x.at \in Time)
  BY <1>1 DEF Time
<1>3. x \in RequestType
  BY <1>2 DEF RequestType, Cascaded
<1>4. ReqOK(x)
  BY <1>2 DEF ReqOK
<1>5. req' = [req EXCEPT ![r] = x] /\ req[r] = NoRequest
  BY DEF Open
<1>6. \A w : ~IsPending(x, w) /\ ~IsPending(req[r], w)
  BY <1>5 DEF IsPending, NoRequest
<1>7. \A w : ~IsCascading(x, w)
  BY DEF IsCascading, Cascaded
<1>8. \A w, S : IsPastCheck(x, w, S) =>
         /\ w = key
         /\ \/ op \in {"getSettings", "updateSettings", "notify"}
            \/ op = "claim" /\ <<w, row>> \notin S
  BY DEF IsPastCheck
<1> HIDE DEF x
<1>9. Becomes(r, x)
  BY <1>1, <1>3, <1>5, SetBecomes
<1> QED BY <1>4, <1>6, <1>7, <1>8, <1>9

LEMMA RefuseStep ==
    ASSUME IInv, NEW r \in Request, Refuse(r), UNCHANGED <<db, now, audits, admin, history>>
    PROVE  IInv' /\ RowsStay
<1>1. Done(r) /\ req[r] = NoRequest /\ TypeOK
  BY DEF Refuse, IInv
<1>2. Becomes(r, Answered) /\ ReqOK(Answered) /\ Idle(Answered)
  BY <1>1, DoneBecomes
<1>3. \A w \in Wallet : ~IsPending(req[r], w)
  BY <1>1 DEF IsPending, NoRequest
<1> QED BY <1>2, <1>3, CheckStep DEF Idle

LEMMA OpenStep ==
    ASSUME IInv, NEW r \in Request, NEW op \in Ops, NEW pc \in {"write", "setting"}, NEW key,
           NEW row \in 0..MaxRows,
           \/ /\ op # "release" /\ key \in Wallet /\ (op = "claim" => row \in 1..MaxRows)
              /\ op \in {"getSettings", "updateSettings", "notify"} => IsLive(user[key])
              /\ op = "claim" => IsLive(policy[<<key, row>>])
           \/ op = "release" /\ key \in Contract /\ pc = "write",
           Open(r, op, pc, key, row), pc = "setting" => op = "notify",
           UNCHANGED <<db, now, audits, admin, history>>
    PROVE  IInv' /\ RowsStay
<1>1. PICK x : /\ Becomes(r, x) /\ ReqOK(x)
               /\ \A w : /\ ~IsPending(x, w) /\ ~IsCascading(x, w)
                         /\ ~IsPending(req[r], w)
               /\ \A w, S : IsPastCheck(x, w, S) =>
                     /\ w = key
                     /\ \/ op \in {"getSettings", "updateSettings", "notify"}
                        \/ op = "claim" /\ <<w, row>> \notin S
  BY OpenBecomes
<1>2. ASSUME NEW w \in Wallet, Clean(w), IsPastCheck(x, w, bought) PROVE FALSE
  <2>1. /\ w = key
        /\ \/ op \in {"getSettings", "updateSettings", "notify"}
           \/ op = "claim" /\ <<w, row>> \notin bought
    BY <1>1, <1>2
  <2>2. ~IsLive(user[w])
    BY <1>2 DEF Clean, IsGone, IsLive
  <2>3. op = "claim" /\ <<w, row>> \notin bought /\ IsLive(policy[<<w, row>>]) /\ row \in 1..MaxRows
    BY <2>1, <2>2
  <2>4. <<w, row>> \in OwnedBy(w)
    BY <2>3 DEF OwnedBy
  <2> QED BY <1>2, <2>3, <2>4, CleanFacts DEF OwnedGone
<1> QED BY <1>1, <1>2, CheckStep

LEMMA StartStep ==
    ASSUME IInv, NEW r \in Request, NEW op \in Ops \ {"claim"}, NEW key, NEW found \in BOOLEAN,
           Start(r, op, key, found),
           \/ /\ op # "release" /\ key \in Wallet
              /\ op # "create" /\ found => IsLive(user[key])
           \/ op = "release" /\ key \in Contract
    PROVE  IInv' /\ RowsStay
<1>1. UNCHANGED <<db, now, audits, admin, history>> /\ 0 \in 0..MaxRows
  BY AccountsAssumption DEF Start, AccountsAssumption
<1>2. CASE found
  <2>1. Open(r, op, "write", key, 0)
    BY <1>2 DEF Start
  <2> QED BY <1>1, <1>2, <2>1, OpenStep
<1>3. CASE ~found
  BY <1>1, <1>3, RefuseStep DEF Start
<1> QED BY <1>2, <1>3

LEMMA StartUserStep ==
    ASSUME IInv, NEW r \in Request, NEW w \in Wallet,
           \/ StartCreate(r, w) \/ StartUpdate(r, w) \/ StartDelete(r, w)
           \/ StartSubscribe(r, w) \/ StartNotify(r, w)
           \/ \E op \in Ops : StartSettings(r, w, op)
    PROVE  IInv' /\ RowsStay
<1>1. user \in Table(Wallet)
  BY TableTypes DEF IInv
<1>2. Exists(user, w) \in BOOLEAN /\ (Exists(user, w) <=> IsLive(user[w]))
  BY <1>1, ReadsFind DEF Exists
<1>3. CASE StartCreate(r, w)
  <2>1. Start(r, "create", w, ~Exists(user, w))
    BY <1>3 DEF StartCreate, FindByWalletUnique
  <2> QED BY <1>2, <2>1, StartStep DEF Ops
<1>4. CASE StartUpdate(r, w) \/ StartDelete(r, w) \/ StartSubscribe(r, w)
  <2>1. PICK op \in {"update", "delete", "subscribe"} : Start(r, op, w, Exists(user, w))
    BY <1>4 DEF StartUpdate, StartDelete, StartSubscribe, FindUser, FindByIdActive, EnsureActiveUser
  <2>2. op \in Ops \ {"claim"} /\ op # "release"
    BY DEF Ops
  <2> QED BY <1>2, <2>1, <2>2, StartStep
<1>5. CASE \E op \in Ops : StartSettings(r, w, op)
  <2>1. PICK op \in {"getSettings", "updateSettings"} : Start(r, op, w, Exists(user, w))
    BY <1>5 DEF StartSettings, EnsureActiveUser, Ops
  <2>2. op \in Ops \ {"claim"} /\ op # "release"
    BY DEF Ops
  <2> QED BY <1>2, <2>1, <2>2, StartStep
<1>6. CASE StartNotify(r, w)
  <2>1. UNCHANGED <<db, now, audits, admin, history>> /\ 0 \in 0..MaxRows
    BY <1>6, AccountsAssumption DEF StartNotify, AccountsAssumption
  <2>2. CASE Refuse(r)
    BY <2>1, <2>2, RefuseStep
  <2>3. CASE Exists(user, w) /\ \E pc \in {"write", "setting"} : Open(r, "notify", pc, w, 0)
    BY <1>2, <2>1, <2>3, OpenStep DEF Ops
  <2> QED BY <1>6, <2>2, <2>3 DEF StartNotify
<1> QED BY <1>3, <1>4, <1>5, <1>6

\* A purchase and a claim look at the policies only.
LEMMA StartInsuranceStep ==
    ASSUME IInv, NEW r \in Request, NEW w \in Wallet,
           StartPurchase(r, w) \/ \E n \in 1..MaxRows : StartClaim(r, w, n)
    PROVE  IInv' /\ RowsStay
<1>1. UNCHANGED <<db, now, audits, admin, history>> /\ 0 \in 0..MaxRows
  <2>1. 0 \in 0..MaxRows
    BY AccountsAssumption DEF AccountsAssumption
  <2>2. CASE StartPurchase(r, w)
    BY <2>1, <2>2 DEF StartPurchase
  <2>3. CASE \E n \in 1..MaxRows : StartClaim(r, w, n)
    BY <2>1, <2>3 DEF StartClaim
  <2> QED BY <2>2, <2>3
<1>2. CASE Refuse(r)
  BY <1>1, <1>2, RefuseStep
<1>3. CASE Open(r, "purchase", "write", w, 0)
  BY <1>1, <1>3, OpenStep DEF Ops
<1>4. CASE \E n \in 1..MaxRows : Exists(policy, <<w, n>>) /\ Open(r, "claim", "write", w, n)
  <2>1. PICK n \in 1..MaxRows : Exists(policy, <<w, n>>) /\ Open(r, "claim", "write", w, n)
    BY <1>4
  <2>2. policy \in Table(OwnedKeys) /\ <<w, n>> \in OwnedKeys /\ n \in 0..MaxRows
    BY TableTypes DEF IInv, OwnedKeys
  <2>3. IsLive(policy[<<w, n>>])
    BY <2>1, <2>2, ReadsFind
  <2> QED BY <1>1, <2>1, <2>2, <2>3, OpenStep DEF Ops
<1> QED BY <1>2, <1>3, <1>4 DEF StartPurchase, StartClaim

LEMMA StartReleaseStep ==
    ASSUME IInv, NEW r \in Request, NEW c \in Contract, StartRelease(r, c)
    PROVE  IInv' /\ RowsStay
<1>1. Exists(contract, c) \in BOOLEAN /\ Start(r, "release", c, Exists(contract, c))
  BY DEF StartRelease, Exists
<1> QED BY <1>1, StartStep DEF Ops

-----------------------------------------------------------------------------
\* Steps that write.

\* Whom the request is about.
LEMMA RequestFacts ==
    ASSUME IInv, NEW r \in Request
    PROVE  /\ req[r].op \in Ops \ {"release"} => req[r].key \in Wallet
           /\ req[r].op = "delete" => req[r].at \in Time
           /\ req[r].op = "claim" => req[r].row \in 1..MaxRows
           /\ req[r].op = "release" => req[r].key \in Contract
           /\ req[r].pc # "audit" => \A w : ~IsPending(req[r], w)
           /\ req[r] \in RequestType /\ TypeOK
<1>1. ReqOK(req[r]) /\ req[r] \in RequestType /\ TypeOK
  BY DEF IInv, Requests, TypeOK, RequestType
<1>2. NoRequest.op = "none" /\ Answered.op = "none"
  BY DEF NoRequest, Answered
<1>3. \A w : IsPending(req[r], w) => req[r].pc = "audit"
  BY DEF IsPending
<1> QED BY <1>1, <1>2, <1>3 DEF ReqOK, Ops

\* A request that writes what user w owns, and is answered or goes on to x.
LEMMA OwnerStep ==
    ASSUME IInv, NEW r \in Request, NEW x, Becomes(r, x), ReqOK(x),
           req[r].pc \in {"write", "setting"},
           \A w \in Wallet : ~IsPending(x, w) /\ ~IsCascading(x, w),
           NEW w \in Wallet,
           \A v \in Wallet \ {w} : ~IsPastCheck(x, v, bought'),
           UNCHANGED <<user, contract, taken, now, audits, admin, created, erased, revived, lost, late>>,
           bought' \in SUBSET OwnedKeys, bought \subseteq bought',
           setting' \in Table(Wallet), note' \in Table(OwnedKeys),
           policy' \in Table(OwnedKeys), claim' \in Table(OwnedKeys), UsersStay,
           \A v \in Wallet \ {w} : setting'[v] = setting[v],
           \A k \in OwnedKeys : k \notin OwnedBy(w) =>
              note'[k] = note[k] /\ policy'[k] = policy[k] /\ claim'[k] = claim[k],
           Clean(w) =>
              /\ ~IsPastCheck(x, w, bought') /\ setting'[w] = setting[w]
              /\ \A k \in OwnedBy(w) : /\ note'[k] = note[k]
                                       /\ policy'[k] = policy[k] \/ k \in bought'
                                       /\ claim'[k] = claim[k] \/ k \in bought'
    PROVE  IInv' /\ RowsStay
<1>1. \A v \in Wallet : ~IsPending(req[r], v)
  BY DEF IsPending
<1>2. /\ user' \in Table(Wallet) /\ taken' \in TakenType
      /\ \A v \in Wallet : IsGone(user'[v]) <=> IsGone(user[v])
      /\ \A v \in Wallet : IsLive(user[v]) => IsLive(user'[v])
  BY SameTable
<1>3. ASSUME NEW v \in Wallet, Clean(v)
      PROVE  /\ ~IsPastCheck(x, v, bought')
             /\ setting'[v] = setting[v]
             /\ \A k \in OwnedBy(v) : /\ note'[k] = note[k]
                                      /\ policy'[k] = policy[k] \/ k \in bought'
                                      /\ claim'[k] = claim[k] \/ k \in bought'
  <2>1. CASE v = w
    BY <1>3, <2>1
  <2>2. CASE v # w
    <3>1. \A k \in OwnedBy(v) : k \in OwnedKeys /\ k \notin OwnedBy(w)
      BY <2>2, Keys
    <3> QED BY <2>2, <3>1
  <2> QED BY <2>1, <2>2
<1> QED BY <1>1, <1>2, <1>3, WriteStep

\* Every other row is the same, and no deleted row is written.
LEMMA UpdatedUser ==
    ASSUME IInv, NEW w \in Wallet, UpdateUserRow(w, 1)
    PROVE  /\ user' \in Table(Wallet) /\ SameOrLive(user, user')
           /\ \A v \in Wallet : IsGone(user'[v]) <=> IsGone(user[v])
           /\ \A v \in Wallet : IsLive(user[v]) => IsLive(user'[v])
<1>1. user \in Table(Wallet) /\ user' = TryWrite(user, Update(w, 1))
  BY TableTypes DEF IInv, UpdateUserRow
<1>2. user' \in Table(Wallet) /\ \A i \in Wallet : user'[i] = user[i] \/ (IsLive(user[i]) /\ IsLive(user'[i]))
  <2>1. CASE Throws(user, Update(w, 1), now)
    BY <1>1, <2>1 DEF TryWrite
  <2>2. CASE ~Throws(user, Update(w, 1), now)
    <3>1. user' = ValuedRows(Wallet, user, w, 1)
      BY <1>1, <2>2, ValueUpdates DEF TryWrite
    <3> QED BY <1>1, <3>1, ValuedTable
  <2> QED BY <2>1, <2>2
<1>3. DOMAIN user = Wallet
  BY <1>1 DEF Table
<1> QED BY <1>2, <1>3 DEF SameOrLive, IsLive, IsGone

LEMMA UpdateStep ==
    ASSUME IInv, NEW r \in Request, UpdateUser(r) \/ SubscribeToPush(r)
    PROVE  IInv' /\ RowsStay
<1>1. /\ req[r].op \in Ops \ {"release"} /\ req[r].pc = "write" /\ Done(r) /\ UpdateUserRow(req[r].key, 1)
      /\ UNCHANGED <<setting, note, policy, claim, contract, taken, now, audits, admin, history>>
  BY DEF UpdateUser, SubscribeToPush, At, Ops
<1>2. req[r].key \in Wallet /\ (\A w : ~IsPending(req[r], w)) /\ TypeOK
  BY <1>1, RequestFacts
<1>3. Becomes(r, Answered) /\ ReqOK(Answered) /\ Idle(Answered)
  BY <1>1, <1>2, DoneBecomes
<1>4. /\ user' \in Table(Wallet) /\ SameOrLive(user, user')
      /\ \A v \in Wallet : IsGone(user'[v]) <=> IsGone(user[v])
      /\ \A v \in Wallet : IsLive(user[v]) => IsLive(user'[v])
  BY <1>1, <1>2, UpdatedUser
<1>5. /\ UNCHANGED <<setting, note, policy, claim, contract, taken>>
      /\ UNCHANGED <<created, erased, revived, lost, late, bought>>
  BY <1>1 DEF history
<1>6. /\ setting' \in Table(Wallet) /\ note' \in Table(OwnedKeys)
      /\ policy' \in Table(OwnedKeys) /\ claim' \in Table(OwnedKeys)
      /\ taken' \in TakenType /\ bought' \in SUBSET OwnedKeys /\ bought \subseteq bought'
  BY <1>5, SameTable
<1>7. UsersStay
  BY <1>4, <1>5, SameTable DEF UsersStay
<1>8. \A w \in Wallet : /\ ~IsPending(Answered, w) /\ ~IsCascading(Answered, w)
                        /\ ~IsPastCheck(Answered, w, bought')
  BY <1>3 DEF Idle
<1> QED BY <1>1, <1>2, <1>3, <1>4, <1>5, <1>6, <1>7, <1>8, WriteStep

LEMMA CreateUserStep ==
    ASSUME IInv, NEW r \in Request, CreateUser(r)
    PROVE  IInv' /\ RowsStay
<1>1. /\ req[r].op \in Ops \ {"release"} /\ req[r].pc = "write" /\ Done(r)
      /\ UNCHANGED <<note, policy, claim, contract, taken, now, audits, admin, history>>
  BY DEF CreateUser, At, Ops
<1>2. req[r].key \in Wallet /\ (\A w : ~IsPending(req[r], w)) /\ TypeOK
  BY <1>1, RequestFacts
<1>3. Becomes(r, Answered) /\ ReqOK(Answered) /\ Idle(Answered)
  BY <1>1, <1>2, DoneBecomes
<1>4. PICK w \in Wallet : req[r].key = w
  BY <1>2
<1>5. user \in Table(Wallet) /\ setting \in Table(Wallet) /\ DOMAIN user = Wallet /\ DOMAIN setting = Wallet
  BY <1>2, TableTypes DEF Table
<1>6. /\ user' = TryWrite(user, Create(w, 0))
      /\ setting' = IF user' = user THEN setting ELSE [setting EXCEPT ![w] = NewRow(0)]
  BY <1>4 DEF CreateUser, CreateWithSettings
<1>7. /\ UNCHANGED <<note, policy, claim, contract, taken>>
      /\ UNCHANGED <<created, erased, revived, lost, late, bought>>
  BY <1>1 DEF history
<1>8. /\ user' \in Table(Wallet)
      /\ \A v \in Wallet : user'[v] = user[v] \/ (~user[v].present /\ IsLive(user'[v]))
      /\ setting' \in Table(Wallet)
      /\ \A v \in Wallet : \/ setting'[v] = setting[v]
                           \/ v = w /\ ~user[w].present /\ IsLive(setting'[v])
  <2>1. CASE user[w].present
    <3>1. user' = user /\ setting' = setting
      BY <1>5, <1>6, <2>1, Creates DEF TryWrite
    <3> QED BY <1>5, <3>1
  <2>2. CASE ~user[w].present
    <3>1. user' = CreatedRows(Wallet, user, w)
      BY <1>5, <1>6, <2>2, Creates DEF TryWrite
    <3>2. user' \in Table(Wallet) /\ \A i \in Wallet : user'[i] = user[i] \/ (~user[i].present /\ IsLive(user'[i]))
      BY <1>5, <3>1, CreatedTable
    <3>3. NewRow(0) \in Rows(Time, 0..1) /\ IsLive(NewRow(0))
      BY <1>5, RowFields, RowTypes
    <3>4. /\ setting' \in Table(Wallet)
          /\ \A v \in Wallet : setting'[v] = setting[v] \/ (v = w /\ IsLive(setting'[v]))
      BY <1>5, <1>6, <3>3 DEF Table
    <3> QED BY <2>2, <3>2, <3>4
  <2> QED BY <2>1, <2>2
<1>9. /\ SameOrLive(user, user') /\ SameOrLive(setting, setting')
      /\ \A v \in Wallet : IsGone(user'[v]) <=> IsGone(user[v])
      /\ \A v \in Wallet : IsLive(user[v]) => IsLive(user'[v])
      /\ \A v \in Wallet : IsGone(user[v]) => setting'[v] = setting[v]
  BY <1>5, <1>8 DEF SameOrLive, IsGone, IsLive
<1>10. /\ note' \in Table(OwnedKeys) /\ policy' \in Table(OwnedKeys) /\ claim' \in Table(OwnedKeys)
       /\ taken' \in TakenType /\ bought' \in SUBSET OwnedKeys /\ bought \subseteq bought'
       /\ UsersStay
  BY <1>7, <1>9, SameTable DEF UsersStay
<1>11. \A v \in Wallet : /\ ~IsPending(Answered, v) /\ ~IsCascading(Answered, v)
                         /\ ~IsPastCheck(Answered, v, bought')
  BY <1>3 DEF Idle
<1>12. \A v \in Wallet : Clean(v) => setting'[v] = setting[v]
  BY <1>9 DEF Clean
<1> QED BY <1>1, <1>2, <1>3, <1>7, <1>8, <1>9, <1>10, <1>11, <1>12, WriteStep

\* An upsert of the settings of w.
LEMMA UpsertedSettings ==
    ASSUME IInv, NEW w \in Wallet, NEW value \in {-1, 0, 1},
           \/ setting' = Execute(setting, Upsert(w, value), now)
           \/ setting' = Execute(setting, [Upsert(w, value) EXCEPT !.deletedAt = Live], now)
    PROVE  /\ setting' \in Table(Wallet) /\ SameOrLive(setting, setting')
           /\ \A v \in Wallet \ {w} : setting'[v] = setting[v]
<1>1. setting \in Table(Wallet)
  BY TableTypes DEF IInv
<1>2. setting' = UpsertedRows(Wallet, setting, w, value)
  <2>1. CASE setting' = Execute(setting, Upsert(w, value), now)
    BY <1>1, <2>1, Upserts
  <2>2. CASE setting' = Execute(setting, [Upsert(w, value) EXCEPT !.deletedAt = Live], now)
    BY <1>1, <2>2, Upserts
  <2> QED BY <2>1, <2>2
<1>3. setting' \in Table(Wallet) /\ IsLive(setting'[w]) /\ \A i \in Wallet : setting'[i] = setting[i] \/ i = w
  BY <1>1, <1>2, UpsertedTable
<1>4. DOMAIN setting = Wallet
  BY <1>1 DEF Table
<1> QED BY <1>3, <1>4 DEF SameOrLive

\* A request that is past its check overtakes the deletion of its user.
LEMMA PastCheckFacts ==
    ASSUME IInv, NEW r \in Request, NEW w \in Wallet, req[r].key = w,
           req[r].op \in {"getSettings", "updateSettings", "notify"},
           req[r].pc \in {"write", "setting"}
    PROVE  ~Clean(w)
<1>1. IsPastCheck(req[r], w, bought)
  BY DEF IsPastCheck
<1> QED BY <1>1, CleanFacts

LEMMA UpsertSettingsStep ==
    ASSUME IInv, NEW r \in Request, UpsertSettings(r)
    PROVE  IInv' /\ RowsStay
<1>1. /\ req[r].op \in {"getSettings", "updateSettings"} /\ req[r].pc = "write" /\ Done(r)
      /\ UNCHANGED <<user, note, policy, claim, contract, taken, now, audits, admin>>
      /\ UNCHANGED <<created, erased, revived, lost, late, bought>>
  BY DEF UpsertSettings, At, history
<1>2. req[r].key \in Wallet /\ TypeOK
  BY <1>1, RequestFacts DEF Ops
<1>3. Becomes(r, Answered) /\ ReqOK(Answered) /\ Idle(Answered)
  BY <1>1, <1>2, DoneBecomes
<1>4. PICK w \in Wallet : req[r].key = w
  BY <1>2
<1>5. PICK value \in {-1, 0, 1} :
         setting' = Execute(setting, [Upsert(w, value) EXCEPT !.deletedAt = Live], now)
  BY <1>4 DEF UpsertSettings, Untouched
<1>6. /\ setting' \in Table(Wallet) /\ SameOrLive(setting, setting')
      /\ \A v \in Wallet \ {w} : setting'[v] = setting[v]
  BY <1>5, UpsertedSettings
<1>7. ~Clean(w)
  BY <1>1, <1>4, PastCheckFacts
<1>8. /\ note' \in Table(OwnedKeys) /\ policy' \in Table(OwnedKeys) /\ claim' \in Table(OwnedKeys)
      /\ bought' \in SUBSET OwnedKeys /\ bought \subseteq bought' /\ UsersStay
  BY <1>1, <1>6, SameTable DEF UsersStay
<1>9. \A v : /\ ~IsPending(Answered, v) /\ ~IsCascading(Answered, v)
             /\ ~IsPastCheck(Answered, v, bought')
  BY <1>3 DEF Idle
<1> QED BY <1>1, <1>3, <1>6, <1>7, <1>8, <1>9, OwnerStep

LEMMA UpsertForUserStep ==
    ASSUME IInv, NEW r \in Request, UpsertForUser(r)
    PROVE  IInv' /\ RowsStay
<1>1. /\ req[r].op = "notify" /\ req[r].pc = "setting" /\ (Done(r) \/ Goto(r, "write"))
      /\ UNCHANGED <<user, note, policy, claim, contract, taken, now, audits, admin>>
      /\ UNCHANGED <<created, erased, revived, lost, late, bought>>
  BY DEF UpsertForUser, At, history
<1>2. req[r].key \in Wallet /\ TypeOK /\ req[r] \in RequestType
  BY <1>1, RequestFacts DEF Ops
<1>3. PICK w \in Wallet : req[r].key = w
  BY <1>2
<1>4. ~Clean(w)
  BY <1>1, <1>3, PastCheckFacts
<1>5. PICK x : /\ Becomes(r, x) /\ ReqOK(x)
               /\ \A v : ~IsPending(x, v) /\ ~IsCascading(x, v)
               /\ \A v, S : IsPastCheck(x, v, S) => v = w
  <2>1. CASE Done(r)
    BY <1>2, <2>1, DoneBecomes DEF Idle
  <2>2. CASE Goto(r, "write")
    <3> DEFINE x == [req[r] EXCEPT !.pc = "write"]
    <3>1. x \in RequestType /\ x.op = "notify" /\ x.key = w /\ x.pc = "write"
      BY <1>1, <1>2, <1>3 DEF RequestType
    <3>2. req' = [req EXCEPT ![r] = x]
      BY <2>2 DEF Goto
    <3> HIDE DEF x
    <3>3. Becomes(r, x)
      BY <1>2, <3>1, <3>2, SetBecomes
    <3> QED BY <3>1, <3>3 DEF ReqOK, IsPending, IsCascading, IsPastCheck, Ops
  <2> QED BY <1>1, <2>1, <2>2
<1>6. setting' = Execute(setting, Upsert(w, -1), now)
  BY <1>3 DEF UpsertForUser, Untouched
<1>7. /\ setting' \in Table(Wallet) /\ SameOrLive(setting, setting')
      /\ \A v \in Wallet \ {w} : setting'[v] = setting[v]
  BY <1>6, UpsertedSettings
<1>8. /\ note' \in Table(OwnedKeys) /\ policy' \in Table(OwnedKeys) /\ claim' \in Table(OwnedKeys)
      /\ bought' \in SUBSET OwnedKeys /\ bought \subseteq bought' /\ UsersStay
  BY <1>1, <1>7, SameTable DEF UsersStay
<1> QED BY <1>1, <1>4, <1>5, <1>7, <1>8, OwnerStep

\* An insert into one of the tables of what user w owns.
LEMMA InsertedOwned ==
    ASSUME NEW t \in Table(OwnedKeys), NEW w \in Wallet, NEW k \in OwnedBy(w), NEW u,
           u = Execute(t, Create(k, 0), now)
    PROVE  /\ u \in Table(OwnedKeys) /\ SameDeleted(t, u)
           /\ \A i \in OwnedKeys : i # k => u[i] = t[i]
           /\ \A i \in OwnedKeys : i \notin OwnedBy(w) => u[i] = t[i]
<1>1. k \in OwnedKeys /\ DOMAIN t = OwnedKeys
  BY Keys DEF Table
<1>2. u = CreatedRows(OwnedKeys, t, k)
  BY <1>1, Creates
<1>3. u \in Table(OwnedKeys) /\ \A i \in OwnedKeys : u[i] = t[i] \/ (i = k /\ ~t[i].present /\ IsLive(u[i]))
  BY <1>1, <1>2, CreatedTable
<1>4. SameDeleted(t, u)
  BY <1>1, <1>3 DEF SameDeleted, IsGone
<1> QED BY <1>3, <1>4

LEMMA CreateNotificationStep ==
    ASSUME IInv, NEW r \in Request, CreateNotification(r)
    PROVE  IInv' /\ RowsStay
<1>1. /\ req[r].op = "notify" /\ req[r].pc = "write" /\ Done(r)
      /\ UNCHANGED <<user, setting, policy, claim, contract, taken, now, audits, admin>>
      /\ UNCHANGED <<created, erased, revived, lost, late, bought>>
  BY DEF CreateNotification, At, history
<1>2. req[r].key \in Wallet /\ TypeOK
  BY <1>1, RequestFacts DEF Ops
<1>3. Becomes(r, Answered) /\ ReqOK(Answered) /\ Idle(Answered)
  BY <1>1, <1>2, DoneBecomes
<1>4. PICK w \in Wallet : req[r].key = w
  BY <1>2
<1>5. PICK k \in OwnedBy(w) : note' = Execute(note, Create(k, 0), now)
  BY <1>4 DEF CreateNotification
<1>6. note \in Table(OwnedKeys)
  BY <1>2, TableTypes
<1>7. /\ note' \in Table(OwnedKeys) /\ SameDeleted(note, note')
      /\ \A i \in OwnedKeys : i \notin OwnedBy(w) => note'[i] = note[i]
  BY <1>5, <1>6, InsertedOwned
<1>8. ~Clean(w)
  BY <1>1, <1>4, PastCheckFacts
<1>9. /\ setting' \in Table(Wallet) /\ policy' \in Table(OwnedKeys) /\ claim' \in Table(OwnedKeys)
      /\ bought' \in SUBSET OwnedKeys /\ bought \subseteq bought' /\ UsersStay
  BY <1>1, <1>7, SameTable DEF UsersStay
<1>10. \A v : /\ ~IsPending(Answered, v) /\ ~IsCascading(Answered, v)
              /\ ~IsPastCheck(Answered, v, bought')
  BY <1>3 DEF Idle
<1> QED BY <1>1, <1>3, <1>7, <1>8, <1>9, <1>10, OwnerStep

\* A policy that is inserted for a deleted user is one that he bought.
LEMMA CreatePolicyStep ==
    ASSUME IInv, NEW r \in Request, CreatePolicy(r)
    PROVE  IInv' /\ RowsStay
<1>1. /\ req[r].op = "purchase" /\ req[r].pc = "write" /\ Done(r)
      /\ UNCHANGED <<user, setting, note, claim, contract, taken, now, audits, admin>>
      /\ UNCHANGED <<created, erased, revived, lost, late>>
  BY DEF CreatePolicy, At
<1>2. req[r].key \in Wallet /\ TypeOK
  BY <1>1, RequestFacts DEF Ops
<1>3. Becomes(r, Answered) /\ ReqOK(Answered) /\ Idle(Answered)
  BY <1>1, <1>2, DoneBecomes
<1>4. PICK w \in Wallet : req[r].key = w
  BY <1>2
<1>5. \A v : /\ ~IsPending(Answered, v) /\ ~IsCascading(Answered, v)
             /\ ~IsPastCheck(Answered, v, bought')
  BY <1>3 DEF Idle
<1>6. policy \in Table(OwnedKeys) /\ bought \in SUBSET OwnedKeys
  BY <1>2, TableTypes DEF TypeOK
<1>7. /\ policy' \in Table(OwnedKeys) /\ SameDeleted(policy, policy')
      /\ \A i \in OwnedKeys : i \notin OwnedBy(w) => policy'[i] = policy[i]
      /\ bought' \in SUBSET OwnedKeys /\ bought \subseteq bought'
      /\ IsGone(user[w]) => \A i \in OwnedBy(w) : policy'[i] = policy[i] \/ i \in bought'
  <2>1. CASE UNCHANGED <<policy, bought>>
    BY <1>6, <2>1, SameTable
  <2>2. CASE \E k \in OwnedBy(w) : /\ policy' = Execute(policy, Create(k, 0), now)
                                   /\ bought' = IF IsGone(user[w]) THEN bought \cup {k} ELSE bought
    <3>1. PICK k \in OwnedBy(w) : /\ policy' = Execute(policy, Create(k, 0), now)
                                  /\ bought' = IF IsGone(user[w]) THEN bought \cup {k} ELSE bought
      BY <2>2
    <3>2. /\ policy' \in Table(OwnedKeys) /\ SameDeleted(policy, policy')
          /\ \A i \in OwnedKeys : i # k => policy'[i] = policy[i]
          /\ \A i \in OwnedKeys : i \notin OwnedBy(w) => policy'[i] = policy[i]
      BY <1>6, <3>1, InsertedOwned
    <3>3. OwnedBy(w) \subseteq OwnedKeys
      BY Keys
    <3> QED BY <1>6, <3>1, <3>2, <3>3
  <2> QED BY <1>4, <2>1, <2>2 DEF CreatePolicy
<1>8. /\ setting' \in Table(Wallet) /\ note' \in Table(OwnedKeys) /\ claim' \in Table(OwnedKeys)
      /\ UsersStay
  BY <1>1, <1>7, SameTable DEF UsersStay
<1>9. Clean(w) => \A i \in OwnedBy(w) : policy'[i] = policy[i] \/ i \in bought'
  BY <1>7 DEF Clean
<1> QED BY <1>1, <1>3, <1>5, <1>7, <1>8, <1>9, OwnerStep

LEMMA CreateClaimStep ==
    ASSUME IInv, NEW r \in Request, CreateClaim(r)
    PROVE  IInv' /\ RowsStay
<1>1. /\ req[r].op = "claim" /\ req[r].pc = "write" /\ Done(r)
      /\ UNCHANGED <<user, setting, note, policy, contract, taken, now, audits, admin>>
      /\ UNCHANGED <<created, erased, revived, lost, late, bought>>
  BY DEF CreateClaim, At, history
<1>2. req[r].key \in Wallet /\ TypeOK /\ req[r].row \in 1..MaxRows
  BY <1>1, RequestFacts DEF Ops
<1>3. Becomes(r, Answered) /\ ReqOK(Answered) /\ Idle(Answered)
  BY <1>1, <1>2, DoneBecomes
<1>4. PICK w \in Wallet, n \in 1..MaxRows : req[r].key = w /\ req[r].row = n
  BY <1>2
<1>5. <<w, n>> \in OwnedBy(w) /\ claim \in Table(OwnedKeys)
  BY <1>2, TableTypes DEF OwnedBy
<1>6. claim' = Execute(claim, Create(<<w, n>>, 0), now)
  BY <1>4 DEF CreateClaim
<1>7. /\ claim' \in Table(OwnedKeys) /\ SameDeleted(claim, claim')
      /\ \A i \in OwnedKeys : i # <<w, n>> => claim'[i] = claim[i]
      /\ \A i \in OwnedKeys : i \notin OwnedBy(w) => claim'[i] = claim[i]
  BY <1>5, <1>6, InsertedOwned
<1>8. Clean(w) => <<w, n>> \in bought
  <2> SUFFICES ASSUME Clean(w), <<w, n>> \notin bought PROVE FALSE
    OBVIOUS
  <2>1. IsPastCheck(req[r], w, bought)
    BY <1>1, <1>4 DEF IsPastCheck
  <2> QED BY <2>1, CleanFacts
<1>9. Clean(w) => \A i \in OwnedBy(w) : claim'[i] = claim[i] \/ i \in bought'
  BY <1>1, <1>7, <1>8, Keys
<1>10. /\ setting' \in Table(Wallet) /\ note' \in Table(OwnedKeys) /\ policy' \in Table(OwnedKeys)
       /\ bought' \in SUBSET OwnedKeys /\ bought \subseteq bought' /\ UsersStay
  BY <1>1, <1>7, SameTable DEF UsersStay
<1>11. \A v : /\ ~IsPending(Answered, v) /\ ~IsCascading(Answered, v)
              /\ ~IsPastCheck(Answered, v, bought')
  BY <1>3 DEF Idle
<1> QED BY <1>1, <1>3, <1>7, <1>9, <1>10, <1>11, OwnerStep

-----------------------------------------------------------------------------
\* Deletions.

\* The first statement locks the user, who is live, or rolls back.
LEMMA BeginCascadeStep ==
    ASSUME IInv, NEW r \in Request, BeginCascade(r)
    PROVE  IInv' /\ RowsStay
<1>1. /\ req[r].op = "delete" /\ req[r].pc = "write" /\ ~UserLocked(req[r].key)
      /\ UNCHANGED <<db, now, audits, admin, history>>
  BY DEF BeginCascade, At
<1>2. /\ req[r].key \in Wallet /\ req[r].at \in Time /\ TypeOK /\ req[r] \in RequestType
      /\ \A v : ~IsPending(req[r], v)
  BY <1>1, RequestFacts DEF Ops
<1>3. CASE Done(r)
  <2>1. Becomes(r, Answered) /\ ReqOK(Answered) /\ Idle(Answered)
    BY <1>2, <1>3, DoneBecomes
  <2> QED BY <1>1, <1>2, <2>1, CheckStep DEF Idle
<1>4. CASE ~CascadeRollsBack(req[r].key, req[r].at) /\ Goto(r, "note")
  <2>1. PICK w \in Wallet, at \in Time : req[r].key = w /\ req[r].at = at
    BY <1>2
  <2>2. user \in Table(Wallet) /\ ~Throws(user, SoftDelete(w, at), now)
    BY <1>2, <1>4, <2>1, TableTypes DEF CascadeRollsBack
  <2>3. IsLive(user[w])
    BY <2>2, SoftDeletes
  <2>4. \A s \in Request : ~IsCascading(req[s], w)
    BY <1>1, <2>1 DEF UserLocked, InCascade, IsCascading
  <2> DEFINE x == [req[r] EXCEPT !.pc = "note"]
  <2>5. x \in RequestType /\ x.op = "delete" /\ x.key = w /\ x.pc = "note" /\ x.at = at
    BY <1>1, <1>2, <2>1 DEF RequestType, Cascaded
  <2>6. req' = [req EXCEPT ![r] = x]
    BY <1>4 DEF Goto
  <2> HIDE DEF x
  <2>7. Becomes(r, x)
    BY <1>2, <2>5, <2>6, SetBecomes
  <2>8. ReqOK(x) /\ \A v, S : ~IsPending(x, v) /\ ~IsPastCheck(x, v, S) /\ (IsCascading(x, v) => v = w)
    BY <2>5 DEF ReqOK, IsPending, IsPastCheck, IsCascading, Ops
  <2> QED BY <1>1, <1>2, <2>3, <2>4, <2>7, <2>8, CheckStep
<1> QED BY <1>3, <1>4 DEF BeginCascade

LEMMA TakenRows ==
    ASSUME NEW t, NEW S, NEW at \in Time
    PROVE  Matching(t, Rewrite(SoftDeleteMany(S, at), now)) \in SUBSET S
<1>1. at # 0
  BY DEF Time
<1>2. Rewrite(SoftDeleteMany(S, at), now).keys = S
  BY <1>1 DEF SoftDeleteMany, Query, Rewrite, RewriteUpdate, Reads, Live
<1> QED BY <1>2 DEF Matching

\* The other statements write nothing that others see.
LEMMA StatementStep ==
    ASSUME IInv, NEW r \in Request, CascadeStatement(r)
    PROVE  IInv' /\ RowsStay
<1>1. /\ InCascade(r, req[r].key) /\ req[r].pc \in Cascaded /\ req[r].op = "delete"
      /\ UNCHANGED <<user, setting, note, policy, claim, contract, now, audits, admin>>
      /\ UNCHANGED <<created, erased, revived, lost, late, bought>>
  BY DEF CascadeStatement, InCascade, history
<1>2. /\ req[r].key \in Wallet /\ req[r].at \in Time /\ TypeOK /\ req[r] \in RequestType
      /\ \A v : ~IsPending(req[r], v)
  BY <1>1, RequestFacts DEF Ops, Cascaded
<1>3. PICK w \in Wallet, at \in Time, table \in Cascaded :
         req[r].key = w /\ req[r].at = at /\ req[r].pc = table
  BY <1>1, <1>2
<1>4. /\ taken' = [taken EXCEPT ![w][table] = Taken(w, table, at)]
      /\ Goto(r, AfterStatement[table])
  BY <1>3 DEF CascadeStatement
<1>5. Taken(w, table, at) \in SUBSET (Wallet \cup OwnedKeys)
  <2>1. OwnedBy(w) \in SUBSET OwnedKeys /\ {w} \in SUBSET Wallet
    BY Keys
  <2>2. \A t : /\ Matching(t, Rewrite(SoftDeleteMany(OwnedBy(w), at), now)) \in SUBSET OwnedBy(w)
               /\ Matching(t, Rewrite(SoftDeleteMany({w}, at), now)) \in SUBSET {w}
    BY TakenRows
  <2> QED BY <2>1, <2>2 DEF Taken, Cascaded
<1>6. taken' \in TakenType
  BY <1>2, <1>4, <1>5 DEF TypeOK, TakenType
<1>7. PICK pc \in {"setting", "policy", "claim", "commit"} : AfterStatement[table] = pc
  BY DEF AfterStatement, Cascaded
<1> DEFINE x == [req[r] EXCEPT !.pc = pc]
<1>8. x \in RequestType /\ x.op = "delete" /\ x.key = w /\ x.pc = pc /\ x.at = at
  BY <1>1, <1>2, <1>3, <1>7 DEF RequestType, Cascaded
<1>9. req' = [req EXCEPT ![r] = x]
  BY <1>4, <1>7 DEF Goto
<1> HIDE DEF x
<1>10. Becomes(r, x)
  BY <1>2, <1>8, <1>9, SetBecomes
<1>11. ReqOK(x) /\ \A v, S : ~IsPending(x, v) /\ ~IsPastCheck(x, v, S) /\ (IsCascading(x, v) => v = w)
  BY <1>7, <1>8 DEF ReqOK, IsPending, IsPastCheck, IsCascading, Ops
<1>12. IsCascading(req[r], w)
  BY <1>1, <1>3 DEF InCascade, IsCascading
<1>13. /\ user' \in Table(Wallet) /\ setting' \in Table(Wallet) /\ note' \in Table(OwnedKeys)
       /\ policy' \in Table(OwnedKeys) /\ claim' \in Table(OwnedKeys)
       /\ bought' \in SUBSET OwnedKeys /\ bought \subseteq bought' /\ UsersStay
       /\ \A v \in Wallet : IsGone(user'[v]) <=> IsGone(user[v])
       /\ \A v \in Wallet : IsLive(user[v]) => IsLive(user'[v])
  BY <1>1, SameTable
<1> QED BY <1>1, <1>2, <1>6, <1>10, <1>11, <1>12, <1>13, WriteStep

\* One of the five tables that the transaction writes.
LEMMA StampedBy ==
    ASSUME NEW K, NEW t \in Table(K), NEW S, NEW at \in Time, NEW u,
           u = StampedRows(K, t, S, at)
    PROVE  /\ u \in Table(K) /\ SameOrLive(t, u) /\ SameDeleted(t, u)
           /\ \A i \in K : i \in S => ~IsLive(u[i])
           /\ \A i \in K : u[i] = t[i] \/ (i \in S /\ IsLive(t[i]) /\ IsGone(u[i]))
<1>1. /\ u \in Table(K) /\ \A i \in K : i \in S => ~IsLive(u[i])
      /\ \A i \in K : u[i] = t[i] \/ (i \in S /\ IsLive(t[i]) /\ IsGone(u[i]))
  BY StampedTable
<1>2. DOMAIN t = K
  BY DEF Table
<1>3. SameOrLive(t, u) /\ SameDeleted(t, u)
  BY <1>1, <1>2 DEF SameOrLive, SameDeleted, IsLive, IsGone
<1> QED BY <1>1, <1>3

\* A table of what users own: the rows that the statement took are deleted.
LEMMA StampedOwned ==
    ASSUME NEW K, K # {}, NEW t \in Table(K), NEW S, NEW at \in Time, NEW u,
           u = Execute(t, SoftDeleteMany(S, at), now)
    PROVE  /\ u \in Table(K) /\ SameOrLive(t, u) /\ SameDeleted(t, u)
           /\ \A i \in K : IsLive(u[i]) => IsLive(t[i]) /\ i \notin S
<1>1. PICK n \in K : TRUE
  OBVIOUS
<1>2. u = StampedRows(K, t, S, at)
  BY <1>1, SoftDeletes
<1>3. /\ u \in Table(K) /\ SameOrLive(t, u) /\ SameDeleted(t, u)
      /\ \A i \in K : i \in S => ~IsLive(u[i])
      /\ \A i \in K : u[i] = t[i] \/ (i \in S /\ IsLive(t[i]) /\ IsGone(u[i]))
  BY <1>2, StampedBy
<1>4. \A i \in K : IsLive(u[i]) => IsLive(t[i]) /\ i \notin S
  BY <1>3 DEF IsLive, IsGone
<1> QED BY <1>3, <1>4

LEMMA CommitStep ==
    ASSUME IInv, NEW r \in Request, CommitCascade(r)
    PROVE  IInv' /\ RowsStay
<1>1. /\ req[r].op = "delete" /\ req[r].pc = "commit"
      /\ UNCHANGED <<contract, now, audits, admin, created, erased, revived, lost>>
  BY DEF CommitCascade, At
<1>2. /\ req[r].key \in Wallet /\ req[r].at \in Time /\ TypeOK /\ req[r] \in RequestType
      /\ Requests
  BY <1>1, RequestFacts DEF Ops, IInv
<1>3. PICK w \in Wallet, at \in Time : req[r].key = w /\ req[r].at = at
  BY <1>2
<1>4. /\ user \in Table(Wallet) /\ setting \in Table(Wallet) /\ note \in Table(OwnedKeys)
      /\ policy \in Table(OwnedKeys) /\ claim \in Table(OwnedKeys)
      /\ OwnedBy(w) \in SUBSET OwnedKeys /\ OwnedKeys # {}
  <2>1. <<w, 1>> \in OwnedKeys
    BY AccountsAssumption DEF AccountsAssumption, OwnedKeys
  <2> QED BY <1>2, <2>1, TableTypes, Keys
<1>5. IsLive(user[w]) /\ \A s \in Request : IsCascading(req[s], w) => s = r
  <2>1. IsCascading(req[r], w)
    BY <1>1, <1>3 DEF IsCascading
  <2> QED BY <2>1 DEF IInv, Cascades
<1>6. /\ user' = Execute(user, SoftDelete(w, at), now)
      /\ note' = Execute(note, SoftDeleteMany(taken[w]["note"], at), now)
      /\ setting' = Execute(setting, SoftDeleteMany(taken[w]["setting"], at), now)
      /\ policy' = Execute(policy, SoftDeleteMany(taken[w]["policy"], at), now)
      /\ claim' = Execute(claim, SoftDeleteMany(taken[w]["claim"], at), now)
      /\ taken' = [taken EXCEPT ![w] = NothingTaken]
      /\ late' = IF Overtaken(w, {}) \/ Missed(w) THEN late \cup {w} ELSE late \ {w}
      /\ bought' = bought \ OwnedBy(w)
      /\ Goto(r, "audit")
  BY <1>3 DEF CommitCascade
<1>7. /\ user' \in Table(Wallet) /\ SameOrLive(user, user')
      /\ IsGone(user'[w]) /\ ~IsGone(user[w])
      /\ \A i \in Wallet : i # w => user'[i] = user[i]
  <2>1. user' = StampedRows(Wallet, user, {w}, at)
    BY <1>4, <1>6, SoftDeletes
  <2>2. /\ user' \in Table(Wallet) /\ SameOrLive(user, user')
        /\ \A i \in Wallet : i \in {w} => ~IsLive(user'[i])
        /\ \A i \in Wallet : user'[i] = user[i] \/ (i \in {w} /\ IsLive(user[i]) /\ IsGone(user'[i]))
    BY <1>4, <2>1, StampedBy
  <2>3. user'[w] # user[w]
    BY <1>5, <2>2
  <2> QED BY <1>5, <2>2, <2>3 DEF IsLive, IsGone
<1>8. /\ setting' \in Table(Wallet) /\ SameOrLive(setting, setting')
      /\ \A i \in Wallet : IsLive(setting'[i]) => IsLive(setting[i]) /\ i \notin taken[w]["setting"]
  <2>1. setting' = Execute(setting, SoftDeleteMany(taken[w]["setting"], at), now)
    BY <1>6
  <2>2. Wallet # {} /\ setting \in Table(Wallet)
    BY <1>4
  <2> QED BY <2>1, <2>2, StampedOwned
<1>9. /\ note' \in Table(OwnedKeys) /\ SameDeleted(note, note')
      /\ \A i \in OwnedKeys : IsLive(note'[i]) => IsLive(note[i]) /\ i \notin taken[w]["note"]
  <2>1. note' = Execute(note, SoftDeleteMany(taken[w]["note"], at), now)
    BY <1>6
  <2>2. OwnedKeys # {} /\ note \in Table(OwnedKeys)
    BY <1>4
  <2> QED BY <2>1, <2>2, StampedOwned
<1>10. /\ policy' \in Table(OwnedKeys) /\ SameDeleted(policy, policy')
       /\ \A i \in OwnedKeys : IsLive(policy'[i]) => IsLive(policy[i]) /\ i \notin taken[w]["policy"]
  <2>1. policy' = Execute(policy, SoftDeleteMany(taken[w]["policy"], at), now)
    BY <1>6
  <2>2. OwnedKeys # {} /\ policy \in Table(OwnedKeys)
    BY <1>4
  <2> QED BY <2>1, <2>2, StampedOwned
<1>11. /\ claim' \in Table(OwnedKeys) /\ SameDeleted(claim, claim')
       /\ \A i \in OwnedKeys : IsLive(claim'[i]) => IsLive(claim[i]) /\ i \notin taken[w]["claim"]
  <2>1. claim' = Execute(claim, SoftDeleteMany(taken[w]["claim"], at), now)
    BY <1>6
  <2>2. OwnedKeys # {} /\ claim \in Table(OwnedKeys)
    BY <1>4
  <2> QED BY <2>1, <2>2, StampedOwned
<1> DEFINE x == [req[r] EXCEPT !.pc = "audit"]
<1>12. x \in RequestType /\ x.op = "delete" /\ x.key = w /\ x.pc = "audit" /\ x.at = at
  BY <1>1, <1>2, <1>3 DEF RequestType
<1>13. req' = [req EXCEPT ![r] = x]
  BY <1>6 DEF Goto
<1> HIDE DEF x
<1>14. /\ ReqOK(x) /\ IsPending(x, w) /\ \A v : (IsPending(x, v) => v = w) /\ ~IsCascading(x, v)
       /\ \A v, S : ~IsPastCheck(x, v, S)
  BY <1>12 DEF ReqOK, IsPending, IsPastCheck, IsCascading, Cascaded, Ops
<1>15. Becomes(r, x)
  BY <1>2, <1>12, <1>13, SetBecomes
<1>16. /\ Requests'
       /\ \A i \in Request : req'[i] = IF i = r THEN x ELSE req[i]
       /\ \A v : Pending(v)' = IF IsPending(x, v) THEN Pending(v) \cup {r} ELSE Pending(v) \ {r}
  BY <1>2, <1>14, <1>15, RequestsAfter
<1>17. TypeOK'
  <2>1. Tables(0..1)'
    BY <1>1, <1>2, <1>7, <1>8, <1>9, <1>10, <1>11, TableTypes
    DEF Tables, Table, Rows, Time, OwnedKeys, Live
  <2>2. late' \subseteq Wallet /\ bought' \subseteq OwnedKeys
    BY <1>2, <1>6 DEF TypeOK
  <2>3. req' \in [Request -> RequestType]
    BY <1>15 DEF Becomes
  <2>4. taken' \in TakenType
    BY <1>2, <1>6 DEF TypeOK, TakenType, NothingTaken
  <2> QED BY <1>1, <1>2, <2>1, <2>2, <2>3, <2>4 DEF TypeOK, RequestType, TakenType, Time, OwnedKeys, Cascaded
<1>18. \A v : r \notin Pending(v)
  BY <1>1 DEF Pending, At
<1>19. ASSUME NEW v \in Wallet PROVE WalletAudit(v)'
  <2>1. WalletAudit(v) /\ audits[v] \in Nat /\ lost[v] \in Nat /\ revived[v] \in Nat
        /\ Cardinality(Pending(v)) \in Nat
    BY <1>2, AuditParts, Counts, PendingCount DEF IInv
  <2>2. CASE v = w
    <3>1. Cardinality(Pending(w)') = Cardinality(Pending(w)) + 1
      <4>1. Pending(w)' = Pending(w) \cup {r}
        BY <1>14, <1>16
      <4>2. Cardinality(Pending(w) \cup {r}) = Cardinality(Pending(w)) + 1
        BY <1>18, PendingCount
      <4> QED BY <4>1, <4>2
    <3>2. IsGone(user[w])' /\ ~IsGone(user[w])
      BY <1>7 DEF IsGone, Live
    <3> QED BY <1>1, <2>1, <2>2, <3>1, <3>2 DEF WalletAudit
  <2>3. CASE v # w
    <3>1. Pending(v)' = Pending(v)
      BY <1>14, <1>16, <1>18, <2>3
    <3>2. IsGone(user[v])' <=> IsGone(user[v])
      BY <1>7, <2>3 DEF IsGone, Live
    <3>3. Cardinality(Pending(v)') = Cardinality(Pending(v))
      BY <3>1
    <3> QED BY <1>1, <2>1, <3>2, <3>3 DEF WalletAudit
  <2> QED BY <2>2, <2>3
<1>20. /\ \A c \in Contract : ContractAudit(c)'
       /\ Uncreated' /\ ContractsStay
  BY <1>1, ContractsKept
<1>21. Cascades'
  <2>1. ASSUME NEW s \in Request, NEW v \in Wallet, IsCascading(req'[s], v)
        PROVE  IsLive(user'[v]) /\ \A i \in Request : IsCascading(req'[i], v) => i = s
    <3>1. s # r /\ IsCascading(req[s], v)
      BY <1>14, <1>16, <2>1
    <3>2. v # w
      BY <1>5, <3>1
    <3>3. IsLive(user[v]) /\ \A i \in Request : IsCascading(req[i], v) => i = s
      BY <3>1 DEF IInv, Cascades
    <3> QED BY <1>7, <1>14, <1>16, <3>2, <3>3
  <2> QED BY <2>1 DEF Cascades, IsCascading, Cascaded, IsLive, Live
<1>22. Owned'
  <2>1. ASSUME NEW v \in Wallet, IsGone(user'[v]), v \notin late'
        PROVE  /\ ~IsLive(setting'[v])
               /\ \A k \in OwnedBy(v) : /\ ~IsLive(note'[k])
                                        /\ IsLive(policy'[k]) => k \in bought'
                                        /\ IsLive(claim'[k]) => k \in bought'
               /\ \A s \in Request : ~IsPastCheck(req'[s], v, bought')
    <3>1. CASE v = w
      <4>1. ~Overtaken(w, {}) /\ ~Missed(w)
        BY <1>6, <2>1, <3>1
      <4>2. \A s \in Request : ~IsPastCheck(req[s], w, {})
        BY <4>1 DEF Overtaken, IsPastCheck
      <4>3. \A s \in Request : ~IsPastCheck(req[s], w, bought')
        BY <4>2 DEF IsPastCheck
      <4>4. \A s \in Request : ~IsPastCheck(req'[s], w, bought')
        BY <1>14, <1>16, <4>3
      <4>5. /\ ~IsLive(setting'[w])
            /\ \A k \in OwnedBy(w) : ~IsLive(note'[k]) /\ ~IsLive(policy'[k]) /\ ~IsLive(claim'[k])
        BY <1>4, <1>8, <1>9, <1>10, <1>11, <4>1 DEF Missed
      <4> QED BY <3>1, <4>4, <4>5
    <3>2. CASE v # w
      <4>1. user'[v] = user[v] /\ v \notin late
        BY <1>6, <1>7, <2>1, <3>2
      <4>2. Clean(v)
        BY <2>1, <4>1 DEF Clean
      <4>3. OwnedGone(v) /\ \A s \in Request : ~IsPastCheck(req[s], v, bought)
        BY <4>2, CleanFacts
      <4>4. \A k \in OwnedBy(v) : k \in OwnedKeys /\ (k \in bought => k \in bought')
        BY <1>6, <3>2, Keys
      <4>5. \A s \in Request : ~IsPastCheck(req[s], v, bought')
        <5> SUFFICES ASSUME NEW s \in Request, IsPastCheck(req[s], v, bought') PROVE FALSE
          OBVIOUS
        <5>1. /\ req[s].op = "claim" /\ <<v, req[s].row>> \notin bought'
              /\ <<v, req[s].row>> \in bought
          BY <4>3 DEF IsPastCheck
        <5>2. <<v, req[s].row>> \in OwnedBy(w)
          BY <1>6, <5>1
        <5> QED BY <3>2, <5>2 DEF OwnedBy
      <4>6. \A s \in Request : ~IsPastCheck(req'[s], v, bought')
        BY <1>14, <1>16, <4>5
      <4>7. /\ ~IsLive(setting'[v])
            /\ \A k \in OwnedBy(v) : /\ ~IsLive(note'[k])
                                     /\ IsLive(policy'[k]) => k \in bought'
                                     /\ IsLive(claim'[k]) => k \in bought'
        BY <1>8, <1>9, <1>10, <1>11, <4>3, <4>4 DEF OwnedGone
      <4> QED BY <4>6, <4>7
    <3> QED BY <3>1, <3>2
  <2> QED BY <2>1, OwnedKept
<1>23. RowsStay
  BY <1>7, <1>8, <1>9, <1>10, <1>11, <1>20 DEF RowsStay, UsersStay
<1> QED BY <1>16, <1>17, <1>19, <1>20, <1>21, <1>22, <1>23, AuditPartsNext DEF IInv

\* Steps that leave the users and what they own alone, and start no deletion.
LEMMA OwnersKept ==
    ASSUME IInv, UNCHANGED <<user, setting, note, policy, claim, late, bought>>,
           \A s \in Request : req'[s] = req[s] \/ req'[s] = Answered
    PROVE  Owned' /\ Cascades' /\ UsersStay
<1>1. \A w, S : ~IsCascading(Answered, w) /\ ~IsPastCheck(Answered, w, S)
  BY DEF IsCascading, IsPastCheck, Answered, NoRequest
<1>2. Cascades'
  BY <1>1, CascadesKept
<1>3. \A w \in Wallet :
         IsGone(user'[w]) /\ w \notin late' =>
            /\ ~IsLive(setting'[w])
            /\ \A k \in OwnedBy(w) : /\ ~IsLive(note'[k])
                                     /\ IsLive(policy'[k]) => k \in bought'
                                     /\ IsLive(claim'[k]) => k \in bought'
            /\ \A s \in Request : ~IsPastCheck(req'[s], w, bought')
  BY <1>1, CleanFacts DEF Clean, OwnedGone
<1>4. Owned'
  BY <1>3, OwnedKept
<1> QED BY <1>2, <1>4, SameTable

LEMMA AuditDeleteStep ==
    ASSUME IInv, NEW r \in Request, AuditDelete(r)
    PROVE  IInv' /\ RowsStay
<1>1. /\ req[r].op = "delete" /\ req[r].pc = "audit" /\ Done(r)
      /\ UNCHANGED <<user, setting, note, policy, claim, contract, taken, now, admin>>
      /\ UNCHANGED <<created, erased, revived, late, bought>>
  BY DEF AuditDelete, At, db
<1>2. req[r].key \in Wallet /\ TypeOK /\ Requests
  BY <1>1, RequestFacts DEF Ops, IInv
<1>3. PICK w \in Wallet : req[r].key = w
  BY <1>2
<1>4. Becomes(r, Answered) /\ ReqOK(Answered) /\ Idle(Answered)
  BY <1>1, <1>2, DoneBecomes
<1>5. /\ Requests' /\ \A i \in Request : req'[i] = req[i] \/ req'[i] = Answered
      /\ \A v : Pending(v)' = Pending(v) \ {r}
  BY <1>2, <1>4, RequestsAfter DEF Idle
<1>6. /\ audits' \in [Audited -> Nat] /\ lost' \in [Wallet -> Nat]
      /\ audits'[w] + lost'[w] = audits[w] + lost[w] + 1
      /\ audits'[w] \in Nat /\ lost'[w] \in Nat
      /\ \A k \in Audited \ {w} : audits'[k] = audits[k]
      /\ \A v \in Wallet \ {w} : lost'[v] = lost[v]
  <2>1. audits \in [Audited -> Nat] /\ lost \in [Wallet -> Nat] /\ w \in Audited
    BY <1>2, Counts, Keys
  <2>2. CASE audits' = [audits EXCEPT ![w] = @ + 1] /\ UNCHANGED lost
    BY <2>1, <2>2
  <2>3. CASE lost' = [lost EXCEPT ![w] = @ + 1] /\ UNCHANGED audits
    BY <2>1, <2>3
  <2> QED BY <1>3, <2>2, <2>3 DEF AuditDelete
<1>7. Tables(0..1)' /\ Owned' /\ Cascades' /\ UsersStay
  <2>1. Tables(0..1)'
    BY <1>1, <1>2 DEF TypeOK, Tables, Rows, Time, OwnedKeys, Live
  <2> QED BY <1>1, <1>5, <2>1, OwnersKept
<1>8. TypeOK'
  <2>1. req' \in [Request -> RequestType]
    BY <1>4 DEF Becomes
  <2> QED BY <1>1, <1>2, <1>6, <1>7, <2>1 DEF TypeOK, RequestType, Time, Audited, OwnedKeys, Cascaded
<1>9. UNCHANGED <<user, contract>>
  BY <1>1
<1>10. ASSUME NEW v \in Wallet PROVE WalletAudit(v)'
  <2>1. WalletAudit(v) /\ audits[v] \in Nat /\ lost[v] \in Nat /\ revived[v] \in Nat
        /\ Cardinality(Pending(v)) \in Nat
    BY <1>2, AuditParts, Counts, PendingCount DEF IInv
  <2>2. IsGone(user[v])' <=> IsGone(user[v])
    BY <1>9 DEF IsGone, Live
  <2>3. CASE v = w
    <3>1. r \in Pending(w)
      BY <1>1, <1>3 DEF Pending, At
    <3>2. Cardinality(Pending(w)') = Cardinality(Pending(w)) - 1
      <4>1. Cardinality(Pending(w) \ {r}) = Cardinality(Pending(w)) - 1
        BY <3>1, PendingCount
      <4>2. Pending(w)' = Pending(w) \ {r}
        BY <1>5
      <4> QED BY <4>1, <4>2
    <3> QED BY <1>1, <1>6, <2>1, <2>2, <2>3, <3>2 DEF WalletAudit
  <2>4. CASE v # w
    <3>1. Pending(v)' = Pending(v)
      <4>1. r \notin Pending(v)
        BY <1>3, <2>4 DEF Pending
      <4> QED BY <1>5, <4>1
    <3>2. Cardinality(Pending(v)') = Cardinality(Pending(v))
      BY <3>1
    <3>3. audits'[v] = audits[v] /\ lost'[v] = lost[v]
      BY <1>6, <2>4, Keys
    <3> QED BY <1>1, <2>1, <2>2, <3>2, <3>3 DEF WalletAudit
  <2> QED BY <2>3, <2>4
<1>11. \A c \in Contract : audits'[c] = audits[c] /\ revived'[c] = revived[c]
  BY <1>1, <1>6, Keys
<1>12. (\A c \in Contract : ContractAudit(c)') /\ Uncreated' /\ ContractsStay
  BY <1>1, <1>9, <1>11, ContractsKept
<1> QED BY <1>5, <1>7, <1>8, <1>10, <1>12, AuditPartsNext DEF IInv, RowsStay

\* The indexer makes a deleted user live again.
LEMMA UpsertByWalletStep ==
    ASSUME IInv, NEW w \in Wallet, UpsertByWallet(w)
    PROVE  IInv' /\ RowsStay
<1>1. /\ UNCHANGED <<setting, note, policy, claim, contract, taken, now, req, audits, admin,
                     created, erased, lost, late, bought>>
      /\ user' = Execute(user, Upsert(w, -1), now) /\ user' # user
      /\ revived' = IF user[w].present THEN [revived EXCEPT ![w] = @ + 1] ELSE revived
      /\ TypeOK
  BY DEF UpsertByWallet, Untouched, IInv
<1>2. user \in Table(Wallet) /\ DOMAIN user = Wallet
  BY <1>1, TableTypes DEF Table
<1>3. user' = UpsertedRows(Wallet, user, w, -1)
  BY <1>1, <1>2, Upserts
<1>4. user' \in Table(Wallet) /\ IsLive(user'[w]) /\ \A i \in Wallet : user'[i] = user[i] \/ i = w
  BY <1>2, <1>3, UpsertedTable
<1>5. ~IsLive(user[w])
  <2> SUFFICES ASSUME IsLive(user[w]) PROVE user' = user
    BY <1>1
  <2>1. user[w] \in Rows(Time, 0..1)
    BY <1>2, RowFields
  <2>2. Upserted(user[w], -1) = user[w]
    BY <2>1 DEF Upserted, IsLive, Rows, Live
  <2>3. \A i \in Wallet : user'[i] = user[i]
    BY <1>3, <2>2 DEF UpsertedRows
  <2>4. user' = [i \in Wallet |-> user'[i]] /\ user = [i \in Wallet |-> user[i]]
    BY <1>2, <1>4 DEF Table
  <2> QED BY <2>3, <2>4
<1>6. user[w].present <=> IsGone(user[w])
  BY <1>5 DEF IsGone, IsLive
<1>7. /\ revived' \in [Wallet \cup Contract -> Nat]
      /\ revived'[w] = revived[w] + (IF IsGone(user[w]) THEN 1 ELSE 0)
      /\ \A k \in (Wallet \cup Contract) \ {w} : revived'[k] = revived[k]
  <2>1. revived \in [Wallet \cup Contract -> Nat] /\ revived[w] \in Nat
    BY <1>1, Counts
  <2>2. CASE user[w].present
    BY <1>1, <1>6, <2>1, <2>2
  <2>3. CASE ~user[w].present
    BY <1>1, <1>6, <2>1, <2>3
  <2> QED BY <2>2, <2>3
<1>8. (\A v \in Wallet : Pending(v)' = Pending(v)) /\ Requests'
  BY <1>1 DEF Pending, At, Requests, IInv, ReqOK, NoRequest, Answered, Ops, Time
<1>9. ASSUME NEW v \in Wallet PROVE WalletAudit(v)'
  <2>1. WalletAudit(v) /\ audits[v] \in Nat /\ lost[v] \in Nat /\ revived[v] \in Nat
        /\ Cardinality(Pending(v)) \in Nat /\ Cardinality(Pending(v)') = Cardinality(Pending(v))
    BY <1>1, <1>8, AuditParts, Counts, PendingCount DEF IInv
  <2>2. CASE v = w
    <3>1. ~IsGone(user[w])'
      BY <1>4 DEF IsGone, IsLive, Live
    <3> QED BY <1>1, <1>7, <2>1, <2>2, <3>1 DEF WalletAudit
  <2>3. CASE v # w
    <3>1. user'[v] = user[v] /\ revived'[v] = revived[v]
      BY <1>4, <1>7, <2>3
    <3>2. IsGone(user[v])' <=> IsGone(user[v])
      BY <3>1 DEF IsGone, Live
    <3> QED BY <1>1, <2>1, <3>1, <3>2 DEF WalletAudit
  <2> QED BY <2>2, <2>3
<1>10. /\ \A c \in Contract : ContractAudit(c)'
       /\ Uncreated' /\ ContractsStay
  <2>1. \A c \in Contract : revived'[c] = revived[c]
    BY <1>7, Keys
  <2> QED BY <1>1, <2>1, ContractsKept
<1>11. Owned'
  <2>1. ASSUME NEW v \in Wallet, IsGone(user'[v]), v \notin late'
        PROVE  /\ ~IsLive(setting'[v])
               /\ \A k \in OwnedBy(v) : /\ ~IsLive(note'[k])
                                        /\ IsLive(policy'[k]) => k \in bought'
                                        /\ IsLive(claim'[k]) => k \in bought'
               /\ \A s \in Request : ~IsPastCheck(req'[s], v, bought')
    <3>1. v # w
      BY <1>4, <2>1 DEF IsGone, IsLive
    <3>2. Clean(v)
      BY <1>1, <1>4, <2>1, <3>1 DEF Clean
    <3> QED BY <1>1, <3>2, CleanFacts DEF OwnedGone
  <2> QED BY <2>1, OwnedKept
<1>12. SameOrLive(user, user') /\ \A v \in Wallet : IsLive(user[v]) => IsLive(user'[v])
  BY <1>2, <1>4 DEF SameOrLive
<1>13. RowsStay /\ Cascades'
  <2>1. Cascades'
    BY <1>1, <1>12, CascadesKept
  <2> QED BY <1>1, <1>10, <1>12, <2>1, SameTable DEF RowsStay, UsersStay
<1>14. TypeOK'
  <2>1. Tables(0..1)'
    BY <1>1, <1>4, TableTypes DEF Tables, Table, Rows, Time, OwnedKeys, Live
  <2> QED BY <1>1, <1>7, <2>1 DEF TypeOK, Time, OwnedKeys, Cascaded
<1> QED BY <1>8, <1>9, <1>10, <1>11, <1>13, <1>14, AuditPartsNext DEF IInv

-----------------------------------------------------------------------------
\* Contracts.

\* Steps that leave the users alone.
LEMMA UsersKept ==
    ASSUME IInv, UNCHANGED <<user, setting, note, policy, claim, late, lost, bought>>,
           \A s \in Request : req'[s] = req[s] \/ req'[s] = Answered,
           \A w \in Wallet : /\ audits'[w] = audits[w] /\ revived'[w] = revived[w]
                             /\ Pending(w)' = Pending(w)
    PROVE  Owned' /\ Cascades' /\ UsersStay /\ \A w \in Wallet : WalletAudit(w)'
<1>1. Owned' /\ Cascades' /\ UsersStay
  BY OwnersKept
<1>2. \A w \in Wallet : WalletAudit(w)'
  BY WalletsKept
<1> QED BY <1>1, <1>2

LEMMA SameRequests ==
    ASSUME IInv, UNCHANGED req
    PROVE  /\ Requests' /\ \A w \in Wallet : Pending(w)' = Pending(w)
           /\ \A s \in Request : req'[s] = req[s]
BY DEF Pending, At, Requests, IInv, ReqOK, NoRequest, Answered, Ops, Time

LEMMA CreateContractStep ==
    ASSUME IInv, NEW c \in Contract, CreateContract(c)
    PROVE  IInv' /\ RowsStay
<1>1. /\ UNCHANGED <<user, setting, note, policy, claim, taken, now, req, audits, admin,
                     erased, revived, lost, late, bought>>
      /\ contract' = Execute(contract, Create(c, 0), now) /\ created' = created \cup {c}
      /\ c \notin created /\ TypeOK
  BY DEF CreateContract, IInv
<1>2. contract \in Table(Contract) /\ DOMAIN contract = Contract
  BY <1>1, TableTypes DEF Table
<1>3. contract' = CreatedRows(Contract, contract, c)
  BY <1>1, <1>2, Creates
<1>4. /\ contract' \in Table(Contract)
      /\ \A i \in Contract : contract'[i] = contract[i] \/ (i = c /\ ~contract[i].present /\ IsLive(contract'[i]))
  BY <1>2, <1>3, CreatedTable
<1>5. audits[c] = 0
  BY <1>1 DEF IInv, Uncreated
<1>6. Uncreated'
  <2>1. \A i \in Contract \ created' : contract'[i] = NoRow /\ audits[i] = 0
    BY <1>1, <1>4 DEF IInv, Uncreated
  <2> QED BY <1>1, <2>1 DEF Uncreated, NoRow
<1>7. ASSUME NEW i \in Contract PROVE ContractAudit(i)'
  <2>1. ContractAudit(i) /\ audits[i] \in Nat /\ revived[i] \in Nat
    BY <1>1, AuditParts, Counts DEF IInv
  <2>2. CASE contract'[i] = contract[i]
    BY <1>1, <2>1, <2>2 DEF ContractAudit, IsLive, Live
  <2>3. CASE i = c
    BY <1>1, <1>5, <2>1, <2>3 DEF ContractAudit
  <2> QED BY <1>4, <2>2, <2>3
<1>8. ContractsStay
  BY <1>2, <1>4 DEF ContractsStay, IsGone
<1>9. /\ Requests' /\ \A w \in Wallet : Pending(w)' = Pending(w)
      /\ \A s \in Request : req'[s] = req[s]
  BY <1>1, SameRequests
<1>10. /\ Owned' /\ Cascades' /\ UsersStay
       /\ \A w \in Wallet : WalletAudit(w)'
  BY <1>1, <1>9, UsersKept
<1>11. RowsStay
  BY <1>8, <1>10 DEF RowsStay
<1>12. TypeOK'
  <2>1. Tables(0..1)'
    BY <1>1, <1>4, TableTypes DEF Tables, Table, Rows, Time, OwnedKeys, Live
  <2> QED BY <1>1, <2>1 DEF TypeOK, Time, OwnedKeys, Cascaded
<1> QED BY <1>6, <1>7, <1>9, <1>10, <1>11, <1>12, AuditPartsNext DEF IInv

LEMMA ReleaseStep ==
    ASSUME IInv, NEW r \in Request, ReleaseContract(r)
    PROVE  IInv' /\ RowsStay
<1>1. /\ req[r].op = "release" /\ req[r].pc = "write" /\ Done(r)
      /\ UNCHANGED <<user, setting, note, policy, claim, taken, now, admin, history>>
      /\ UNCHANGED <<created, erased, revived, lost, late, bought>>
  BY DEF ReleaseContract, At, history
<1>2. req[r].key \in Contract /\ TypeOK /\ Requests /\ \A w : ~IsPending(req[r], w)
  BY <1>1, RequestFacts DEF IInv
<1>3. PICK c \in Contract : req[r].key = c
  BY <1>2
<1>4. Becomes(r, Answered) /\ ReqOK(Answered) /\ Idle(Answered)
  BY <1>1, <1>2, DoneBecomes
<1>5. /\ Requests' /\ \A i \in Request : req'[i] = req[i] \/ req'[i] = Answered
      /\ \A w : Pending(w)' = Pending(w) \ {r}
  BY <1>2, <1>4, RequestsAfter DEF Idle
<1>6. \A w \in Wallet : Pending(w)' = Pending(w)
  <2>1. \A w \in Wallet : r \notin Pending(w)
    BY <1>1 DEF Pending, At
  <2> QED BY <1>5, <2>1
<1>7. contract \in Table(Contract) /\ DOMAIN contract = Contract /\ now \in Time
      /\ audits \in [Audited -> Nat] /\ c \in Audited
  BY <1>2, TableTypes, Counts, Keys DEF Table
<1>8. /\ contract' \in Table(Contract)
      /\ audits' \in [Audited -> Nat] /\ \A k \in Audited \ {c} : audits'[k] = audits[k]
      /\ \A i \in Contract :
            \/ contract'[i] = contract[i] /\ audits'[i] = audits[i]
            \/ i = c /\ IsLive(contract[c]) /\ IsGone(contract'[c]) /\ audits'[c] = audits[c] + 1
  <2>1. CASE Throws(contract, Delete(c), now)
    <3>1. UNCHANGED <<contract, audits>>
      BY <1>3, <2>1 DEF ReleaseContract
    <3> QED BY <1>7, <3>1
  <2>2. CASE ~Throws(contract, Delete(c), now)
    <3>1. contract' = Execute(contract, Delete(c), now) /\ audits' = [audits EXCEPT ![c] = @ + 1]
      BY <1>3, <2>2 DEF ReleaseContract
    <3>2. IsLive(contract[c]) /\ contract' = StampedRows(Contract, contract, {c}, now)
      BY <1>7, <2>2, <3>1, Deletes
    <3>3. /\ contract' \in Table(Contract)
          /\ \A i \in Contract : i \in {c} => ~IsLive(contract'[i])
          /\ \A i \in Contract : contract'[i] = contract[i] \/ (i \in {c} /\ IsLive(contract[i]) /\ IsGone(contract'[i]))
      BY <1>7, <3>2, StampedBy
    <3>4. /\ audits' \in [Audited -> Nat] /\ audits'[c] = audits[c] + 1
          /\ \A k \in Audited \ {c} : audits'[k] = audits[k]
      BY <1>7, <3>1
    <3>5. IsGone(contract'[c])
      BY <3>2, <3>3
    <3>6. \A i \in Contract : i # c => contract'[i] = contract[i] /\ audits'[i] = audits[i]
      BY <3>3, <3>4, Keys
    <3> QED BY <3>2, <3>3, <3>4, <3>5, <3>6
  <2> QED BY <2>1, <2>2
<1>9. ASSUME NEW i \in Contract PROVE ContractAudit(i)'
  <2>1. ContractAudit(i) /\ audits[i] \in Nat /\ revived[i] \in Nat
    BY <1>2, AuditParts, Counts DEF IInv
  <2>2. CASE contract'[i] = contract[i] /\ audits'[i] = audits[i]
    BY <1>1, <2>1, <2>2 DEF ContractAudit, IsLive, Live
  <2>3. CASE i = c /\ IsLive(contract[c]) /\ IsGone(contract'[c]) /\ audits'[c] = audits[c] + 1
    <3>1. IsLive(contract[i]) /\ ~IsLive(contract[i])'
      BY <2>3 DEF IsLive, IsGone, Live
    <3> QED BY <1>1, <2>1, <2>3, <3>1 DEF ContractAudit
  <2> QED BY <1>8, <2>2, <2>3
<1>10. Uncreated'
  <2>1. \A i \in Contract \ created : contract'[i] = NoRow /\ audits'[i] = 0
    <3> SUFFICES ASSUME NEW i \in Contract \ created PROVE contract'[i] = NoRow /\ audits'[i] = 0
      OBVIOUS
    <3>1. contract[i] = NoRow /\ audits[i] = 0
      BY DEF IInv, Uncreated
    <3>2. ~IsLive(contract[i])
      BY <3>1 DEF IsLive, NoRow
    <3> QED BY <1>8, <3>1, <3>2
  <2> QED BY <1>1, <2>1 DEF Uncreated, NoRow
<1>11. /\ Owned' /\ Cascades' /\ UsersStay
       /\ \A w \in Wallet : WalletAudit(w)'
  <2>1. \A w \in Wallet : audits'[w] = audits[w]
    BY <1>8, Keys
  <2> QED BY <1>1, <1>5, <1>6, <2>1, UsersKept
<1>12. RowsStay
  <2>1. ContractsStay
    BY <1>8 DEF ContractsStay, IsGone, IsLive
  <2> QED BY <1>11, <2>1 DEF RowsStay
<1>13. TypeOK'
  <2>1. Tables(0..1)'
    BY <1>1, <1>2, <1>8, TableTypes DEF Tables, Table, Rows, Time, OwnedKeys, Live
  <2>2. req' \in [Request -> RequestType]
    BY <1>4 DEF Becomes
  <2> QED BY <1>1, <1>2, <1>8, <2>1, <2>2 DEF TypeOK, RequestType, Time, Audited, OwnedKeys, Cascaded
<1> QED BY <1>5, <1>9, <1>10, <1>11, <1>12, <1>13, AuditPartsNext DEF IInv

-----------------------------------------------------------------------------
\* SoftDeleteService.

\* What a call may do to a row: restore it, soft-delete it, or remove it, and then
\* it was asked to or the row was deleted at an earlier time.
AdminRow(i) ==
    \/ contract'[i] = contract[i]
    \/ contract[i].present /\ contract'[i] = Stamped(contract[i], 0)
    \/ IsLive(contract[i]) /\ IsGone(contract'[i]) /\ contract'[i] \in Rows(Time, 0..1)
    \/ contract'[i] = NoRow /\ (i \in erased' \/ (IsGone(contract[i]) /\ contract[i].deletedAt < now))

LEMMA AdminStep ==
    ASSUME IInv, NEW q, RunAdmin(q), audits' \in [Audited -> Nat],
           \A k \in Wallet \cup Contract : audits'[k] = audits[k],
           erased' \subseteq Contract, \A i \in Contract : AdminRow(i)
    PROVE  IInv' /\ RowsStay
<1>1. /\ UNCHANGED <<user, setting, note, policy, claim, taken, now, req, created, lost, late, bought>>
      /\ admin < MaxAdmin /\ admin' = admin + 1
      /\ contract' = contract \/ contract' = Execute(contract, q, now)
      /\ revived' = [k \in DOMAIN revived |->
                        IF k \in Contract /\ IsGone(contract[k]) /\ IsLive(contract'[k])
                        THEN revived[k] + 1 ELSE revived[k]]
      /\ TypeOK
  BY DEF RunAdmin, TryWrite, IInv
<1>2. contract \in Table(Contract) /\ DOMAIN contract = Contract
  BY <1>1, TableTypes DEF Table
<1>3. revived \in [Wallet \cup Contract -> Nat]
  BY <1>1, Counts
<1>4. /\ \A w \in Wallet : revived'[w] = revived[w]
      /\ \A c \in Contract : revived'[c] = IF IsGone(contract[c]) /\ IsLive(contract'[c])
                                           THEN revived[c] + 1 ELSE revived[c]
      /\ revived' \in [Wallet \cup Contract -> Nat]
  <2>1. DOMAIN revived = Wallet \cup Contract
    BY <1>3
  <2>2. \A k \in Wallet \cup Contract :
           revived'[k] = IF k \in Contract /\ IsGone(contract[k]) /\ IsLive(contract'[k])
                         THEN revived[k] + 1 ELSE revived[k]
    BY <1>1, <2>1
  <2>3. \A k \in Wallet \cup Contract : revived'[k] \in Nat
    BY <1>3, <2>2
  <2>4. DOMAIN revived' = Wallet \cup Contract
    BY <1>1, <2>1
  <2>5. revived' = [k \in Wallet \cup Contract |-> revived'[k]]
    BY <1>1, <2>4
  <2>6. revived' \in [Wallet \cup Contract -> Nat]
    BY <2>3, <2>5
  <2> QED BY <2>2, <2>6, Keys
<1>5. ASSUME NEW i \in Contract
      PROVE  /\ contract'[i] \in Rows(Time, 0..1)
             /\ IsGone(contract[i]) => \/ contract'[i] = contract[i]
                                       \/ IsLive(contract'[i]) \/ ~contract'[i].present
             /\ contract[i].present /\ ~contract'[i].present =>
                   i \in erased' \/ (IsGone(contract[i]) /\ contract[i].deletedAt < now)
             /\ contract[i] = NoRow => contract'[i] = NoRow
             /\ IsLive(contract'[i]) => IsLive(contract[i]) \/ IsGone(contract[i])
  <2>1. contract[i] \in Rows(Time, 0..1)
    BY <1>2, RowFields
  <2>2. NoRow \in Rows(Time, 0..1) /\ ~NoRow.present
    BY DEF NoRow, Rows, Live
  <2>3. contract[i].present => Stamped(contract[i], 0) \in Rows(Time, 0..1) /\ IsLive(Stamped(contract[i], 0))
    BY <2>1, RowTypes
  <2>4. AdminRow(i)
    OBVIOUS
  <2> QED BY <2>1, <2>2, <2>3, <2>4 DEF AdminRow, IsLive, IsGone
<1>6. contract' \in Table(Contract)
  <2>1. CASE contract' = contract
    BY <1>2, <2>1
  <2>2. CASE contract' = Execute(contract, q, now)
    <3>1. PICK f : contract' = [i \in Contract |-> f[i]]
      <4>1. DOMAIN Execute(contract, q, now) = DOMAIN contract
        BY DEF Execute
      <4>2. Execute(contract, q, now) = [i \in DOMAIN contract |-> Execute(contract, q, now)[i]]
        BY Zenon DEF Execute
      <4> QED BY <1>2, <2>2, <4>2
    <3> QED BY <1>5, <3>1 DEF Table
  <2> QED BY <1>1, <2>1, <2>2
<1>7. ASSUME NEW i \in Contract PROVE ContractAudit(i)'
  <2>1. ContractAudit(i) /\ audits[i] \in Nat /\ revived[i] \in Nat /\ audits'[i] = audits[i]
    BY <1>1, AuditParts, Counts DEF IInv
  <2>2. revived'[i] = IF IsGone(contract[i]) /\ IsLive(contract'[i]) THEN revived[i] + 1 ELSE revived[i]
    BY <1>4
  <2>3. IsLive(contract[i])' <=> IsLive(contract'[i])
    BY DEF IsLive, Live
  <2>4. IsGone(contract[i]) => ~IsLive(contract[i])
    BY DEF IsLive, IsGone
  <2>5. CASE IsLive(contract'[i])
    BY <1>5, <2>1, <2>2, <2>3, <2>4, <2>5 DEF ContractAudit
  <2>6. CASE ~IsLive(contract'[i])
    BY <2>1, <2>2, <2>3, <2>6 DEF ContractAudit
  <2> QED BY <2>5, <2>6
<1>8. Uncreated'
  <2>1. \A i \in Contract \ created : contract'[i] = NoRow /\ audits'[i] = 0
    BY <1>5 DEF IInv, Uncreated
  <2> QED BY <1>1, <2>1 DEF Uncreated, NoRow
<1>9. /\ Requests' /\ \A w \in Wallet : Pending(w)' = Pending(w)
      /\ \A s \in Request : req'[s] = req[s]
  BY <1>1, SameRequests
<1>10. /\ Owned' /\ Cascades' /\ UsersStay
       /\ \A w \in Wallet : WalletAudit(w)'
  BY <1>1, <1>4, <1>9, UsersKept
<1>11. RowsStay
  <2>1. ContractsStay
    BY <1>5 DEF ContractsStay
  <2> QED BY <1>10, <2>1 DEF RowsStay
<1>12. TypeOK'
  <2>1. Tables(0..1)'
    BY <1>1, <1>6, TableTypes DEF Tables, Table, Rows, Time, OwnedKeys, Live
  <2>2. admin' \in 0..MaxAdmin
    BY <1>1, AccountsAssumption DEF TypeOK, AccountsAssumption
  <2> QED BY <1>1, <1>4, <2>1, <2>2 DEF TypeOK, Time, Audited, OwnedKeys, Cascaded
<1> QED BY <1>7, <1>8, <1>9, <1>10, <1>11, <1>12, AuditPartsNext DEF IInv

\* A call that throws leaves the rows as they are.
LEMMA AdminRows ==
    ASSUME NEW q, RunAdmin(q)
    PROVE  \/ \A i \in Contract : contract'[i] = contract[i]
           \/ contract' = Execute(contract, q, now)
BY DEF RunAdmin, TryWrite

LEMMA PurgeAudit ==
    ASSUME IInv, NEW q, RecordPurgeAudit(q) \/ UNCHANGED audits
    PROVE  /\ audits' \in [Audited -> Nat]
           /\ \A k \in Wallet \cup Contract : audits'[k] = audits[k]
<1>1. audits \in [Audited -> Nat] /\ "purge" \in Audited
  BY Counts DEF IInv, Audited
<1>2. \A k \in Wallet \cup Contract : k \in Audited /\ k # "purge"
  BY Keys
<1> QED BY <1>1, <1>2 DEF RecordPurgeAudit

LEMMA EraseStep ==
    ASSUME IInv, NEW S \in SUBSET Contract, AdminErase(S)
    PROVE  IInv' /\ RowsStay
<1>1. PICK q \in {HardDelete(c) : c \in S} \cup {HardDeleteMany(S)} : RunAdmin(q) /\ RecordPurgeAudit(q)
  BY DEF AdminErase
<1>2. contract \in Table(Contract) /\ erased' = erased \cup S /\ erased' \subseteq Contract
  BY TableTypes DEF IInv, AdminErase, TypeOK
<1>3. \A i \in Contract : \/ Execute(contract, q, now)[i] = contract[i]
                          \/ i \in S /\ Execute(contract, q, now)[i] = NoRow
  BY <1>2, HardDeletes
<1>4. \A i \in Contract : AdminRow(i)
  BY <1>1, <1>2, <1>3, AdminRows DEF AdminRow
<1>5. /\ audits' \in [Audited -> Nat]
      /\ \A k \in Wallet \cup Contract : audits'[k] = audits[k]
  BY <1>1, PurgeAudit
<1> QED BY <1>1, <1>2, <1>4, <1>5, AdminStep

LEMMA RestoreStep ==
    ASSUME IInv, AdminRestore
    PROVE  IInv' /\ RowsStay
<1>1. PICK c \in Contract, S \in SUBSET Contract :
         \E q \in {Restore(c), RestoreMany(S), RepositoryRestore(c)} : RunAdmin(q)
  BY DEF AdminRestore
<1>2. PICK q \in {Restore(c), RestoreMany(S), RepositoryRestore(c)} : RunAdmin(q)
  BY <1>1
<1>3. contract \in Table(Contract) /\ UNCHANGED <<audits, erased>> /\ erased' \subseteq Contract
  BY TableTypes DEF IInv, AdminRestore, TypeOK
<1>4. \A i \in Contract : \/ Execute(contract, q, now)[i] = contract[i]
                          \/ contract[i].present /\ Execute(contract, q, now)[i] = Stamped(contract[i], 0)
  BY <1>3, Restores
<1>5. \A i \in Contract : AdminRow(i)
  BY <1>2, <1>4, AdminRows DEF AdminRow
<1>6. /\ audits' \in [Audited -> Nat]
      /\ \A k \in Wallet \cup Contract : audits'[k] = audits[k]
  BY <1>3, Counts DEF IInv
<1> QED BY <1>2, <1>3, <1>5, <1>6, AdminStep

LEMMA SoftDeleteStep ==
    ASSUME IInv, AdminSoftDelete
    PROVE  IInv' /\ RowsStay
<1>1. PICK c \in Contract, S \in SUBSET Contract :
         \E q \in {SoftDelete(c, now), SoftDeleteMany(S, now)} : RunAdmin(q)
  BY DEF AdminSoftDelete
<1>2. PICK q \in {SoftDelete(c, now), SoftDeleteMany(S, now)} : RunAdmin(q)
  BY <1>1
<1>3. /\ contract \in Table(Contract) /\ UNCHANGED <<audits, erased>> /\ erased' \subseteq Contract
      /\ now \in Time
  BY TableTypes DEF IInv, AdminSoftDelete, TypeOK
<1>4. PICK D : Execute(contract, q, now) = StampedRows(Contract, contract, D, now)
  <2>1. /\ Execute(contract, SoftDelete(c, now), now) = StampedRows(Contract, contract, {c}, now)
        /\ Execute(contract, SoftDeleteMany(S, now), now) = StampedRows(Contract, contract, S, now)
    BY <1>3, SoftDeletes
  <2>2. q = SoftDelete(c, now) \/ q = SoftDeleteMany(S, now)
    BY <1>2
  <2> QED BY <2>1, <2>2
<1>5. /\ Execute(contract, q, now) \in Table(Contract)
      /\ \A i \in Contract :
            \/ Execute(contract, q, now)[i] = contract[i]
            \/ IsLive(contract[i]) /\ IsGone(Execute(contract, q, now)[i])
  BY <1>3, <1>4, StampedTable
<1>6. \A i \in Contract : Execute(contract, q, now)[i] \in Rows(Time, 0..1)
  BY <1>5, RowFields
<1>7. \A i \in Contract : AdminRow(i)
  BY <1>2, <1>5, <1>6, AdminRows DEF AdminRow
<1>8. /\ audits' \in [Audited -> Nat]
      /\ \A k \in Wallet \cup Contract : audits'[k] = audits[k]
  BY <1>3, Counts DEF IInv
<1> QED BY <1>2, <1>3, <1>7, <1>8, AdminStep

LEMMA CleanupStep ==
    ASSUME IInv, RetentionCleanup
    PROVE  IInv' /\ RowsStay
<1>1. PICK t \in 1..now : /\ RunAdmin(PermanentlyDeleteExpired(Contract, t))
                          /\ RecordPurgeAudit(PermanentlyDeleteExpired(Contract, t))
  BY DEF RetentionCleanup
<1> DEFINE q == PermanentlyDeleteExpired(Contract, t)
<1>2. contract \in Table(Contract) /\ erased' \subseteq Contract /\ now \in Time
  BY TableTypes DEF IInv, RetentionCleanup, TypeOK
<1>3. \A i \in Contract : \/ Execute(contract, q, now)[i] = contract[i]
                          \/ /\ IsGone(contract[i]) /\ contract[i].deletedAt < now
                             /\ Execute(contract, q, now)[i] = NoRow
  BY <1>2, ExpiredDeletes
<1>4. RunAdmin(q) /\ RecordPurgeAudit(q)
  BY <1>1
<1> HIDE DEF q
<1>5. \A i \in Contract : AdminRow(i)
  BY <1>3, <1>4, AdminRows DEF AdminRow
<1>6. /\ audits' \in [Audited -> Nat]
      /\ \A k \in Wallet \cup Contract : audits'[k] = audits[k]
  BY <1>4, PurgeAudit
<1> QED BY <1>2, <1>4, <1>5, <1>6, AdminStep

-----------------------------------------------------------------------------
\* The invariant.

LEMMA QuietStep ==
    ASSUME IInv, UNCHANGED <<db, req, audits, admin, history>>, now' \in Time
    PROVE  IInv' /\ RowsStay
<1>1. /\ UNCHANGED <<user, setting, note, policy, claim, contract, taken>>
      /\ UNCHANGED <<created, erased, revived, lost, late, bought>> /\ TypeOK
  BY DEF db, history, IInv
<1>2. /\ Requests' /\ \A w \in Wallet : Pending(w)' = Pending(w)
      /\ \A s \in Request : req'[s] = req[s]
  BY SameRequests
<1>3. /\ Owned' /\ Cascades' /\ UsersStay
      /\ \A w \in Wallet : WalletAudit(w)'
  BY <1>1, <1>2, UsersKept
<1>4. /\ \A c \in Contract : ContractAudit(c)'
      /\ Uncreated' /\ ContractsStay
  BY <1>1, ContractsKept
<1>5. RowsStay
  BY <1>1, <1>3, <1>4 DEF RowsStay
<1>6. TypeOK'
  <2>1. Tables(0..1)'
    BY <1>1, TableTypes DEF Tables, Table, Rows, Time, OwnedKeys, Live
  <2> QED BY <1>1, <2>1 DEF TypeOK, Time, OwnedKeys, Cascaded
<1> QED BY <1>2, <1>3, <1>4, <1>5, <1>6, AuditPartsNext DEF IInv

LEMMA TickStep ==
    ASSUME IInv, Tick
    PROVE  IInv' /\ RowsStay
<1>1. now' \in Time
  BY AccountsAssumption DEF AccountsAssumption, Tick, IInv, TypeOK, Time
<1> QED BY <1>1, QuietStep DEF Tick

LEMMA InitInv == Init => IInv
<1> SUFFICES ASSUME Init PROVE IInv
  OBVIOUS
<1>1. PICK known \in SUBSET Wallet :
         /\ user = [w \in Wallet |-> IF w \in known THEN NewRow(0) ELSE NoRow]
         /\ policy = [k \in OwnedKeys |-> IF k \in known \X {1} THEN NewRow(0) ELSE NoRow]
  BY DEF Init
<1>2. /\ NewRow(0) \in Rows(Time, 0..1) /\ IsLive(NewRow(0)) /\ ~IsGone(NewRow(0))
      /\ NoRow \in Rows(Time, 0..1) /\ ~IsLive(NoRow) /\ ~IsGone(NoRow)
  BY DEF NewRow, NoRow, Rows, IsLive, IsGone, Live
<1>3. Tables(0..1)
  BY <1>1, <1>2 DEF Init, Tables
<1>4. /\ now = 1 /\ admin = 0 /\ req = [r \in Request |-> NoRequest]
      /\ audits = [k \in Audited |-> 0] /\ created = {} /\ erased = {} /\ late = {} /\ bought = {}
      /\ taken = [w \in Wallet |-> NothingTaken]
      /\ revived = [k \in Wallet \cup Contract |-> 0] /\ lost = [w \in Wallet |-> 0]
      /\ contract = [c \in Contract |-> NoRow]
  BY DEF Init
<1>5. TypeOK
  <2>1. now \in Time /\ admin \in 0..MaxAdmin
    BY <1>4, AccountsAssumption DEF AccountsAssumption, Time
  <2>2. NoRequest \in RequestType
    BY AccountsAssumption DEF AccountsAssumption, NoRequest, RequestType
  <2>3. taken \in TakenType
    BY <1>4 DEF TakenType, NothingTaken
  <2> QED BY <1>3, <1>4, <2>1, <2>2, <2>3 DEF TypeOK, RequestType, TakenType
<1>6. Requests
  BY <1>4 DEF Requests, ReqOK
<1>7. Uncreated
  BY <1>4, Keys DEF Uncreated
<1>8. DeletionsAudited
  <2>1. ASSUME NEW w \in Wallet PROVE WalletAudit(w)
    <3>1. Pending(w) = {}
      BY <1>4 DEF Pending, At, NoRequest
    <3>2. Cardinality(Pending(w)) = 0
      BY <3>1, FS_EmptySet
    <3>3. ~IsGone(user[w])
      BY <1>1, <1>2
    <3>4. audits[w] = 0 /\ lost[w] = 0 /\ revived[w] = 0
      BY <1>4, Keys
    <3> QED BY <3>2, <3>3, <3>4 DEF WalletAudit
  <2>2. ASSUME NEW c \in Contract PROVE ContractAudit(c)
    <3>1. audits[c] = 0 /\ revived[c] = 0
      BY <1>4, Keys
    <3> QED BY <3>1 DEF ContractAudit
  <2> QED BY <2>1, <2>2, AuditParts
<1>9. Owned
  BY <1>1, <1>2 DEF Owned
<1>10. Cascades
  BY <1>4 DEF Cascades, IsCascading, NoRequest
<1> QED BY <1>5, <1>6, <1>7, <1>8, <1>9, <1>10 DEF IInv

LEMMA NextInv ==
    ASSUME IInv, [Next]_vars
    PROVE  IInv' /\ RowsStay
<1>1. ASSUME NEW r \in Request, NEW w \in Wallet,
             \/ StartCreate(r, w) \/ StartUpdate(r, w) \/ StartDelete(r, w)
             \/ StartSubscribe(r, w) \/ StartNotify(r, w)
             \/ \E op \in Ops : StartSettings(r, w, op)
      PROVE  IInv' /\ RowsStay
  BY <1>1, StartUserStep
<1>2. ASSUME NEW r \in Request, NEW c \in Contract, StartRelease(r, c) PROVE IInv' /\ RowsStay
  BY <1>2, StartReleaseStep
<1>3. ASSUME NEW r \in Request, CreateUser(r) PROVE IInv' /\ RowsStay
  BY <1>3, CreateUserStep
<1>4. ASSUME NEW r \in Request, UpdateUser(r) \/ SubscribeToPush(r) PROVE IInv' /\ RowsStay
  BY <1>4, UpdateStep
<1>5. ASSUME NEW r \in Request, BeginCascade(r) \/ CascadeStatement(r) \/ CommitCascade(r)
      PROVE  IInv' /\ RowsStay
  BY <1>5, BeginCascadeStep, StatementStep, CommitStep
<1>6. ASSUME NEW r \in Request, AuditDelete(r) PROVE IInv' /\ RowsStay
  BY <1>6, AuditDeleteStep
<1>7. ASSUME NEW r \in Request, UpsertSettings(r) PROVE IInv' /\ RowsStay
  BY <1>7, UpsertSettingsStep
<1>8. ASSUME NEW r \in Request, UpsertForUser(r) PROVE IInv' /\ RowsStay
  BY <1>8, UpsertForUserStep
<1>9. ASSUME NEW r \in Request, CreateNotification(r) PROVE IInv' /\ RowsStay
  BY <1>9, CreateNotificationStep
<1>10. ASSUME NEW r \in Request, ReleaseContract(r) PROVE IInv' /\ RowsStay
  BY <1>10, ReleaseStep
<1>11. ASSUME NEW w \in Wallet, UpsertByWallet(w) PROVE IInv' /\ RowsStay
  BY <1>11, UpsertByWalletStep
<1>12. ASSUME NEW c \in Contract, CreateContract(c) PROVE IInv' /\ RowsStay
  BY <1>12, CreateContractStep
<1>13. ASSUME NEW S \in SUBSET Contract, AdminErase(S) PROVE IInv' /\ RowsStay
  BY <1>13, EraseStep
<1>14. CASE AdminRestore
  BY <1>14, RestoreStep
<1>15. CASE AdminSoftDelete
  BY <1>15, SoftDeleteStep
<1>16. CASE RetentionCleanup
  BY <1>16, CleanupStep
<1>17. CASE Tick
  BY <1>17, TickStep
<1>18. CASE UNCHANGED vars
  <2>1. UNCHANGED <<db, req, audits, admin, history>> /\ now' = now
    BY <1>18 DEF vars
  <2>2. now' \in Time
    BY <2>1 DEF IInv, TypeOK
  <2> QED BY <2>1, <2>2, QuietStep
<1>19. ASSUME NEW r \in Request, NEW w \in Wallet,
              StartPurchase(r, w) \/ \E n \in 1..MaxRows : StartClaim(r, w, n)
       PROVE  IInv' /\ RowsStay
  BY <1>19, StartInsuranceStep
<1>20. ASSUME NEW r \in Request, CreatePolicy(r) \/ CreateClaim(r) PROVE IInv' /\ RowsStay
  BY <1>20, CreatePolicyStep, CreateClaimStep
<1> QED BY <1>1, <1>2, <1>3, <1>4, <1>5, <1>6, <1>7, <1>8, <1>9, <1>10, <1>11, <1>12,
           <1>13, <1>14, <1>15, <1>16, <1>17, <1>18, <1>19, <1>20 DEF Next

LEMMA Invariance == Spec => []IInv
<1>1. IInv /\ [Next]_vars => IInv'
  BY NextInv
<1> QED BY InitInv, <1>1, PTL DEF Spec

-----------------------------------------------------------------------------
\* The tables, the requests, the audit log and the counters keep their types, for
\* any number of users, contracts and requests.
THEOREM TypeCorrect == Spec => []TypeOK
<1>1. IInv => TypeOK
  BY DEF IInv
<1> QED BY <1>1, Invariance, PTL

\* Overlapping deletions of a user leave one DELETE entry for each time that he was
\* deleted, pending and failed writes counted, and a contract has at most one for
\* each time that it was live.
THEOREM DeletionsAreAudited == Spec => []DeletionsAudited
<1>1. IInv => DeletionsAudited
  BY DEF IInv
<1> QED BY <1>1, Invariance, PTL

\* No ordinary read finds a deleted user, nor what he owned, but for policies that he
\* bought after the deletion and the claims on them; unless a request that gave him
\* something overlapped the deletion.
THEOREM OwnedGoWithOwner == Spec => []NothingOutlivesOwner
<1>1. IInv => NothingOutlivesOwner
  <2> SUFFICES ASSUME IInv, NEW w \in Wallet, IsDeleted(user, w, now)
               PROVE  /\ w \in Found(user, FindManyIncludingDeleted({w}), now)
                      /\ \A q \in OrdinaryReads({w}) :
                            Found(user, q, now) = {} /\ (w \notin late => Found(setting, q, now) = {})
                      /\ w \notin late =>
                            \A q \in OrdinaryReads(OwnedBy(w)) :
                                /\ Found(note, q, now) = {}
                                /\ Found(policy, q, now) \cup Found(claim, q, now) \subseteq bought
    BY DEF NothingOutlivesOwner
  <2>1. /\ user \in Table(Wallet) /\ setting \in Table(Wallet) /\ note \in Table(OwnedKeys)
        /\ policy \in Table(OwnedKeys) /\ claim \in Table(OwnedKeys)
    BY TableTypes DEF IInv
  <2>2. {w} \in SUBSET Wallet /\ OwnedBy(w) \in SUBSET OwnedKeys
    BY Keys
  <2>3. IsGone(user[w]) /\ ~IsLive(user[w]) /\ user[w].present
    <3>1. IsGone(user[w])
      BY <2>1, <2>2, ReadsFind
    <3> QED BY <3>1 DEF IsGone, IsLive
  <2>4. w \notin late => OwnedGone(w)
    BY <2>3 DEF IInv, Owned
  <2>5. w \in Found(user, FindManyIncludingDeleted({w}), now)
    BY <2>1, <2>2, <2>3, ReadsFind
  <2>6. ASSUME NEW q \in OrdinaryReads({w})
        PROVE  Found(user, q, now) = {} /\ (w \notin late => Found(setting, q, now) = {})
    <3>1. /\ Found(user, q, now) = {i \in {w} : IsLive(user[i])}
          /\ Found(setting, q, now) = {i \in {w} : IsLive(setting[i])}
      BY <2>1, <2>2, ReadsFind
    <3> QED BY <2>3, <2>4, <3>1 DEF OwnedGone
  <2>7. ASSUME w \notin late, NEW q \in OrdinaryReads(OwnedBy(w))
        PROVE  /\ Found(note, q, now) = {}
               /\ Found(policy, q, now) \cup Found(claim, q, now) \subseteq bought
    <3>1. <<w, 1>> \in OwnedKeys
      BY AccountsAssumption DEF AccountsAssumption, OwnedKeys
    <3>2. /\ Found(note, q, now) = {i \in OwnedBy(w) : IsLive(note[i])}
          /\ Found(policy, q, now) = {i \in OwnedBy(w) : IsLive(policy[i])}
          /\ Found(claim, q, now) = {i \in OwnedBy(w) : IsLive(claim[i])}
      BY <2>1, <2>2, <3>1, ReadsFind
    <3> QED BY <2>4, <2>7, <3>2 DEF OwnedGone
  <2> QED BY <2>5, <2>6, <2>7
<1> QED BY <1>1, Invariance, PTL

\* No step writes a deleted notification, policy or claim, nor a deleted user or
\* deleted settings that stay deleted, and a contract that nobody asked to
\* hard-delete vanishes only after an earlier soft delete.
THEOREM DeletedStay == Spec => DeletedRowsStay
<1>1. IInv /\ [Next]_vars => [RowsStay]_vars
  BY NextInv
<1>2. RowsStay <=>
        (/\ SameOrLive(user, user') /\ SameOrLive(setting, setting')
         /\ SameDeleted(note, note') /\ SameDeleted(policy, policy') /\ SameDeleted(claim, claim')
         /\ \A c \in Contract :
               IsGone(contract[c]) /\ contract'[c].present =>
                   contract'[c] = contract[c] \/ IsLive(contract'[c])
         /\ \A c \in Contract \ erased' :
               contract[c].present /\ ~contract'[c].present =>
                   IsGone(contract[c]) /\ contract[c].deletedAt < now)
  BY DEF RowsStay, UsersStay, ContractsStay
<1> QED BY <1>1, <1>2, Invariance, PTL DEF Spec, DeletedRowsStay
=============================================================================
