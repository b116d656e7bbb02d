----------------------------- MODULE SoftDelete -----------------------------
(***************************************************************************)
(* What a query becomes on its way to the database: the Prisma middleware  *)
(* of src/src/prisma.soft-delete.middleware.ts, and the queries that       *)
(* SoftDeleteService and the repositories build.                           *)
(*                                                                         *)
(* A table is a function from keys to rows.  A query names the keys its    *)
(* where clause selects, the condition on deletedAt, the middleware's own  *)
(* flags and what it writes.  Every model of the schema is listed in       *)
(* SOFT_DELETE_MODELS, so the middleware applies to each table.  A relation *)
(* read with include never passes the middleware.                          *)
(***************************************************************************)
EXTENDS Integers, FiniteSets

Live == 0               \* deletedAt IS NULL; the time of a deletion is positive
Untouched == -1         \* a column the query does not write

\* No row has the key.
NoRow == [present |-> FALSE, deletedAt |-> Live, value |-> 0]
NewRow(value) == [present |-> TRUE, deletedAt |-> Live, value |-> value]
Rows(times, values) == [present: BOOLEAN, deletedAt: times \cup {Live}, value: values]

IsLive(row) == row.present /\ row.deletedAt = Live
IsGone(row) == row.present /\ row.deletedAt # Live

\* Conditions on deletedAt.  before = 0 puts no bound on the time.
AnyRow == [test |-> "any", before |-> 0]
DeletedAtNull == [test |-> "null", before |-> 0]
DeletedAtNotNull == [test |-> "notNull", before |-> 0]
DeletedBefore(t) == [test |-> "notNull", before |-> t]

Satisfies(row, filter) ==
    /\ row.present
    /\ \/ filter.test = "any"
       \/ filter.test = "null" /\ row.deletedAt = Live
       \/ /\ filter.test = "notNull"
          /\ row.deletedAt # Live
          /\ filter.before = 0 \/ row.deletedAt < filter.before

Query(action, keys) ==
    [action |-> action, keys |-> keys, filter |-> AnyRow, includeDeleted |-> FALSE,
     hardDelete |-> FALSE, deletedAt |-> Untouched, value |-> Untouched]

Reads == {"findUnique", "findFirst", "findMany", "count"}

-----------------------------------------------------------------------------
\* The middleware

\* The condition of the caller on deletedAt, if it has one, is overwritten.
RewriteRead(q) ==
    [q EXCEPT !.filter = IF q.includeDeleted THEN @ ELSE DeletedAtNull]

\* Mutant: updates are forwarded as they are.
RewriteUpdateAny(q) == q

\* data.deletedAt === null is taken for a restore.
RewriteUpdate(q) ==
    [q EXCEPT !.filter = IF q.deletedAt = Live THEN @ ELSE DeletedAtNull]

\* Mutant: a row that is deleted already is deleted again.
RewriteDeleteAny(q, now) ==
    IF q.hardDelete
    THEN q
    ELSE [Query(IF q.action = "delete" THEN "update" ELSE "updateMany", q.keys)
            EXCEPT !.deletedAt = now]

RewriteDelete(q, now) ==
    IF q.hardDelete
    THEN q
    ELSE [Query(IF q.action = "delete" THEN "update" ELSE "updateMany", q.keys)
            EXCEPT !.filter = DeletedAtNull, !.deletedAt = now]

\* deletedAt: null goes into the update branch too, unless the caller sets it.
RewriteUpsert(q) ==
    [q EXCEPT !.deletedAt = IF @ = Untouched THEN Live ELSE @]

Rewrite(q, now) ==
    CASE q.action \in Reads                    -> RewriteRead(q)
      [] q.action \in {"update", "updateMany"} -> RewriteUpdate(q)
      [] q.action \in {"delete", "deleteMany"} -> RewriteDelete(q, now)
      [] q.action = "upsert"                   -> RewriteUpsert(q)
      [] OTHER                                 -> q

-----------------------------------------------------------------------------
\* The database

Matching(table, q) == {k \in q.keys : Satisfies(table[k], q.filter)}

Write(row, q) ==
    [row EXCEPT !.deletedAt = IF q.deletedAt = Untouched THEN @ ELSE q.deletedAt,
                !.value = IF q.value = Untouched THEN @ ELSE q.value]

\* Mutant: the default is not applied.
InsertedRaw(q) == NewRow(q.value)

\* The row that create inserts, columns that are not given at their default 0.
Inserted(q) == NewRow(IF q.value = Untouched THEN 0 ELSE q.value)

\* The keys that a read returns.
Found(table, q, now) == Matching(table, Rewrite(q, now))

\* update and delete of one row throw when where matches none (P2025), create
\* when the key is taken, also by a deleted row (P2002).
Throws(table, q, now) ==
    LET r == Rewrite(q, now) IN
    \/ r.action \in {"update", "delete"} /\ Matching(table, r) = {}
    \/ r.action = "create" /\ \E k \in r.keys : table[k].present

Execute(table, q, now) ==
    LET r == Rewrite(q, now)
        After(k) ==
            CASE r.action \in {"update", "updateMany"} /\ k \in Matching(table, r) -> Write(table[k], r)
              [] r.action \in {"delete", "deleteMany"} /\ k \in Matching(table, r) -> NoRow
              [] r.action = "upsert" /\ k \in r.keys /\ table[k].present           -> Write(table[k], r)
              [] r.action \in {"upsert", "create"} /\ k \in r.keys /\ ~table[k].present -> Inserted(r)
              [] OTHER                                                             -> table[k]
    IN [k \in DOMAIN table |-> After(k)]

-----------------------------------------------------------------------------
\* BaseRepository and SoftDeleteRepository

FindById(k) == Query("findUnique", {k})
FindMany(keys) == Query("findMany", keys)
Count(keys) == Query("count", keys)
Create(k, value) == [Query("create", {k}) EXCEPT !.value = value]
Update(k, value) == [Query("update", {k}) EXCEPT !.value = value]
Delete(k) == Query("delete", {k})
SoftDelete(k, now) == [Query("update", {k}) EXCEPT !.deletedAt = now]
SoftDeleteMany(keys, now) == [Query("updateMany", keys) EXCEPT !.deletedAt = now]
RepositoryRestore(k) ==
    [Query("updateMany", {k}) EXCEPT !.filter = DeletedAtNotNull, !.deletedAt = Live]
Upsert(k, value) == [Query("upsert", {k}) EXCEPT !.value = value]

-----------------------------------------------------------------------------
\* SoftDeleteService

HardDelete(k) == [Query("delete", {k}) EXCEPT !.hardDelete = TRUE]
HardDeleteMany(keys) == [Query("deleteMany", keys) EXCEPT !.hardDelete = TRUE]
Restore(k) == [Query("update", {k}) EXCEPT !.deletedAt = Live]
RestoreMany(keys) == [Query("updateMany", keys) EXCEPT !.deletedAt = Live]
FindIncludingDeleted(k) == [Query("findUnique", {k}) EXCEPT !.includeDeleted = TRUE]
FindManyIncludingDeleted(keys) == [Query("findMany", keys) EXCEPT !.includeDeleted = TRUE]
FindManyDeleted(keys) == [Query("findMany", keys) EXCEPT !.filter = DeletedAtNotNull]
CountDeleted(keys) == [Query("count", keys) EXCEPT !.filter = DeletedAtNotNull]
IsDeleted(table, k, now) ==
    /\ Found(table, FindIncludingDeleted(k), now) # {}
    /\ table[k].deletedAt # Live

\* Mutant: the time of the deletion is not compared.
PermanentlyDeleteGone(keys, deletedBefore) ==
    [Query("deleteMany", keys) EXCEPT !.hardDelete = TRUE, !.filter = DeletedAtNotNull]

PermanentlyDeleteExpired(keys, deletedBefore) ==
    [Query("deleteMany", keys) EXCEPT !.hardDelete = TRUE,
                                      !.filter = DeletedBefore(deletedBefore)]
=============================================================================
