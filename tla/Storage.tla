------------------------------ MODULE Storage ------------------------------
(***************************************************************************)
(* The storage adapters over one table: id, a unique field "key", two      *)
(* fields "a" and "b" under a composite unique constraint, and a plain     *)
(* field "n".  Callers run the operations of storage.Adapter concurrently. *)
(*                                                                         *)
(*   memory  every operation is one step under the mutex, over the rows    *)
(*           and the index of the unique fields; a transaction keeps the   *)
(*           mutex and works on a copy of both                             *)
(*   sql     one statement is one step; Update takes three                 *)
(*   mongo   every operation is one command                                *)
(*                                                                         *)
(* The rows of a SQL or MongoDB store are in no order, and the database    *)
(* keeps the unique constraints (external).  Transactions of databases are *)
(* theirs and are not modelled.                                            *)
(***************************************************************************)
EXTENDS StorageFilters, FiniteSets

CONSTANTS
  Callers,
  Ids,          \* ids that may be generated
  Keys,         \* texts that "key" may hold
  Queries,      \* the filters asked of single records
  MaxRecords, MaxCalls   \* bounds: rows of the table, operations

ASSUME StorageAssumption ==
  /\ Ids \subseteq Nat \ {0} /\ Keys \subseteq Seq(Chars)
  /\ MaxRecords \in Nat \ {0} /\ MaxCalls \in Nat
  /\ Null \notin Callers /\ Null \notin Ids /\ Null \notin Keys /\ Null \notin {0, 1}
  /\ NonScalar \notin Ids /\ NonScalar # 0

\* The clauses that queries are made of: "in" lists values, an order has a value
\* to compare with, and texts are searched in the text field.
Askable(c) ==
  /\ c.connector \in {"AND", "OR"}
  /\ c.field \in {"id", "key", "a", "b", "n"}
  /\ \/ c.op \in {"eq", "ne"}
     \/ c.op = "in" /\ Null \notin Range(c.value.items)
     \/ c.op \in OrderOps /\ c.value # Null
     \/ c.op \in TextOps /\ c.field = "key" /\ c.value \in Seq(Chars)

ASSUME QueriesAssumption ==
  \A where \in Queries :
    where \in Seq(Range(where)) /\ \A k \in DOMAIN where : Askable(where[k])

VARIABLES
  kind,    \* the adapter
  heap,    \* the rows, in the order of their creation, and the memory adapter's index
  tx,      \* the memory adapter's transaction: its caller, its copy of the heap, its tally
  update,  \* each caller's sql Update under way: its values, the row found
  calls,   \* operations begun
  tally,   \* history: per row, how often it was given at 0, and how often a caller was
           \* told that its compare-and-set took it from 0 to 1
  asked    \* a record, and a filter asked of it

storageVars == <<kind, heap, tx, update, calls, tally, asked>>

Kinds == {"memory", "sql", "mongo"}
UniqueFields == {"id", "key"}
Constraint == <<"a", "b">>
Record == [id : Ids, key : Keys \cup {Null}, a : {1}, b : {1, Null}, n : {0, 1}]

\* The values of a unique field that have an entry: nil is not indexable.
Indexable(f) == IF f = "id" THEN Ids ELSE Keys
NoIndex == [f \in UniqueFields |-> [v \in Indexable(f) |-> 0]]
Empty == [rows |-> <<>>, index |-> NoIndex]
NoTally == [given |-> [i \in Ids |-> 0], won |-> [i \in Ids |-> 0]]
NoTx == [by |-> Null, heap |-> Empty, tally |-> NoTally]
NoUpdate == [step |-> "none", set |-> <<>>, row |-> Null]
NoQuestion == [record |-> Null, where |-> <<>>]

\* An update: its values over those of the record; Null clears a field.
Merge(r, set) == [f \in DOMAIN r |-> IF f \in DOMAIN set THEN set[f] ELSE r[f]]
Rows(h) == Range(h.rows)

\* The fields an application passes: what a caller filters on and sets.
Filters == {<<Is("id", i)>> : i \in Ids} \cup {<<Is("key", k)>> : k \in Keys}
           \cup {<<Is("n", 0)>>, <<Is("key", Null)>>}
Values == {[key |-> k] : k \in Keys \cup {Null}} \cup {[b |-> v] : v \in {1, Null}}
          \cup {[n |-> v] : v \in {0, 1}}

-----------------------------------------------------------------------------
(* The memory adapter *)

\* The rows at the positions S are entered in their order: the last one with a
\* value has its entry.
addToIndex(index, rows, S) ==
  [f \in UniqueFields |-> [v \in DOMAIN index[f] |->
     LET at == {i \in S : rows[i][f] = v}
     IN  IF at = {} THEN index[f][v] ELSE rows[Max(at)].id]]

\* sameRecord: only the row the index points to takes its entry away.
removeFromIndex(index, rows, S) ==
  [f \in UniqueFields |-> [v \in DOMAIN index[f] |->
     IF \E i \in S : rows[i][f] = v /\ rows[i].id = index[f][v] THEN 0 ELSE index[f][v]]]

\* Mutant: the composite constraint is not looked at.
violatesUniqueFields(h, r, skip) ==
  \E f \in UniqueFields : r[f] # Null /\ h.index[f][r[f]] \notin {0, skip}

\* skip: the id of the row that is updated, 0 for a new one.
violatesUnique(h, r, skip) ==
  \/ \E f \in UniqueFields : r[f] # Null /\ h.index[f][r[f]] \notin {0, skip}
  \/ /\ \A i \in DOMAIN Constraint : r[Constraint[i]] # Null
     /\ \E s \in Rows(h) :
          s.id # skip /\ \A i \in DOMAIN Constraint : s[Constraint[i]] = r[Constraint[i]]

\* The rows with those at the positions S given new values, and without them.
Updated(rows, S, set) ==
  [i \in DOMAIN rows |-> IF i \in S THEN Merge(rows[i], set) ELSE rows[i]]

Without(rows, S) ==
  LET kept == {i \in DOMAIN rows : i \notin S}
  IN  [k \in 1 .. Cardinality(kept) |->
         rows[CHOOSE i \in kept : Cardinality({j \in kept : j < i}) = k - 1]]

MemoryCreate(h, r) ==
  LET after == Append(h.rows, r) IN
  IF violatesUnique(h, r, 0) THEN h
  ELSE [rows |-> after, index |-> addToIndex(h.index, after, {Len(after)})]

\* Mutant: the entries of the values that are replaced stay in the index.
WriteStale(h, S, set) ==
  LET after == Updated(h.rows, S, set)
  IN  [rows |-> after, index |-> addToIndex(h.index, after, S)]

\* The rows at the positions S are given the new values, in the index too.
Write(h, S, set) ==
  LET after == Updated(h.rows, S, set)
  IN  [rows |-> after, index |-> addToIndex(removeFromIndex(h.index, h.rows, S), after, S)]

RemoveRows(h, S) ==
  [rows |-> Without(h.rows, S), index |-> removeFromIndex(h.index, h.rows, S)]

Matching(h, where) == {i \in DOMAIN h.rows : Matches(h.rows[i], where)}

\* The loop ends at the first row that matches.
MemoryUpdate(h, where, set) ==
  LET i == Min(Matching(h, where)) IN
  IF Matching(h, where) = {} \/ violatesUnique(h, Merge(h.rows[i], set), h.rows[i].id) THEN h
  ELSE Write(h, {i}, set)

\* UpdateMany looks at no constraint; callers pass it no unique field.
MemoryUpdateMany(h, where, set) == Write(h, Matching(h, where), set)

MemoryDelete(h, where) ==
  IF Matching(h, where) = {} THEN h ELSE RemoveRows(h, {Min(Matching(h, where))})

MemoryDeleteMany(h, where) == RemoveRows(h, Matching(h, where))

\* lookupUnique: one equality on a unique field is answered by the index.
lookupUnique(h, f, v) == h.index[f][v]

-----------------------------------------------------------------------------
(* SQL statements and MongoDB commands *)

\* A NULL keeps a row out of a constraint in SQL.  The compound index that
\* EnsureIndexes makes is sparse: MongoDB leaves out a document that has none of
\* the fields.
Indexed(r) ==
  IF kind = "mongo" THEN \E i \in DOMAIN Constraint : r[Constraint[i]] # Null
  ELSE \A i \in DOMAIN Constraint : r[Constraint[i]] # Null

\* Two rows an engine does not keep side by side: it refuses the one that comes
\* second.
Clash(r, s) ==
  \/ \E f \in UniqueFields : r[f] # Null /\ s[f] = r[f]
  \/ Indexed(r) /\ \A i \in DOMAIN Constraint : s[Constraint[i]] = r[Constraint[i]]

\* FindMany, and the rows FindOne may answer: positions.
SqlFindMany(where) == {i \in DOMAIN heap.rows : SqlMatches(heap.rows[i], where)}
MongoFindMany(where) == {i \in DOMAIN heap.rows : MongoMatches(heap.rows[i], where)}
DbSelected(where) == IF kind = "sql" THEN SqlFindMany(where) ELSE MongoFindMany(where)

\* INSERT or InsertOne: the rows afterwards; a conflict is ErrUniqueViolation.
DbInsert(rows, r) == IF \E s \in Range(rows) : Clash(r, s) THEN rows ELSE Append(rows, r)

\* UPDATE of the rows at the positions S: all of them, or none on a conflict.
DbUpdate(rows, S, set) ==
  LET after == Updated(rows, S, set)
  IN  IF \E i \in S, j \in DOMAIN rows : i # j /\ Clash(after[i], after[j]) THEN rows ELSE after

\* DELETE of the rows at the positions S.
DbDelete(rows, S) == Without(rows, S)

-----------------------------------------------------------------------------
StorageInit ==
  /\ kind \in Kinds
  /\ heap = Empty /\ tx = NoTx
  /\ update = [c \in Callers |-> NoUpdate]
  /\ calls = 0 /\ tally = NoTally
  /\ asked = NoQuestion

\* The heap that caller c works on, and its value after c's operation: the copy
\* inside c's transaction, else the store itself, which is locked while another
\* caller's transaction runs.
Own(c) == IF tx.by = c THEN tx.heap ELSE heap
Free(c) ==
  tx.by \in {c, Null} /\ update[c] = NoUpdate /\ calls < MaxCalls /\ asked = NoQuestion
Put(c, h) ==
  IF tx.by = c THEN tx' = [tx EXCEPT !.heap = h] /\ UNCHANGED <<heap, tally>>
  ELSE heap' = h /\ UNCHANGED <<tx, tally>>
PutRows(rows) == heap' = [heap EXCEPT !.rows = rows] /\ UNCHANGED <<tx, tally>>
Call == calls' = calls + 1 /\ UNCHANGED <<kind, asked>>

\* Put and PutRows of rows that are counted.  What a transaction counts becomes
\* so with its commit.
OwnTally(c) == IF tx.by = c THEN tx.tally ELSE tally
PutCounted(c, h, t) ==
  IF tx.by = c THEN tx' = [tx EXCEPT !.heap = h, !.tally = t] /\ UNCHANGED <<heap, tally>>
  ELSE heap' = h /\ tally' = t /\ UNCHANGED tx

\* The rows that are there at 0 after a write and were not before: new ones, and
\* those that a caller who sets n to 0 has put back.
GivenIds(rows, after, set) ==
  {after[k].id : k \in {j \in DOMAIN after :
     after[j].n = 0 /\ (j \in DOMAIN rows => rows[j].n = 1 /\ set = [n |-> 0])}}
Gives(t, ids) ==
  [t EXCEPT !.given = [i \in Ids |-> IF i \in ids THEN t.given[i] + 1 ELSE t.given[i]]]

\* Create, with the defaults applied: n is 0.
Create(c, r) ==
  LET h == IF kind = "memory" THEN MemoryCreate(Own(c), r)
           ELSE [heap EXCEPT !.rows = DbInsert(heap.rows, r)]
  IN  /\ Free(c) /\ Call
      /\ r.n = 0 /\ Len(Own(c).rows) < MaxRecords
      /\ PutCounted(c, h, Gives(OwnTally(c), GivenIds(Own(c).rows, h.rows, <<>>)))
      /\ UNCHANGED update

\* Update on the memory adapter, and FindOneAndUpdate.
Update(c, where, set) ==
  /\ Free(c) /\ Call
  /\ \E h \in IF kind = "memory" THEN {MemoryUpdate(Own(c), where, set)}
             ELSE {[heap EXCEPT !.rows = DbUpdate(heap.rows, {i}, set)] : i \in DbSelected(where)} :
       PutCounted(c, h, Gives(OwnTally(c), GivenIds(Own(c).rows, h.rows, set)))
  /\ kind # "sql" /\ UNCHANGED update

\* sqlstore.Update: FindOne picks a row, UpdateMany writes it by its id, and
\* FindOne reads it back.
SqlUpdateFind(c, where, set) ==
  /\ kind = "sql" /\ Free(c) /\ Call
  /\ \E i \in SqlFindMany(where) :
       update' = [update EXCEPT ![c] = [step |-> "write", set |-> set, row |-> heap.rows[i]]]
  /\ UNCHANGED <<heap, tx, tally>>

\* Mutant: the row is written back as it was found, the new values over it.
SqlUpdateWriteWholeRow(c) ==
  LET u == update[c]
      after == DbUpdate(heap.rows, DbSelected(<<Is("id", u.row.id)>>), Merge(u.row, u.set))
  IN  /\ u.step = "write"
      /\ heap' = [heap EXCEPT !.rows = after]
      /\ tally' = Gives(tally, GivenIds(heap.rows, after, u.set))
      /\ update' = [update EXCEPT ![c].step = "read"]
      /\ UNCHANGED <<kind, tx, calls, asked>>

SqlUpdateWrite(c) ==
  LET u == update[c]
      after == DbUpdate(heap.rows, DbSelected(<<Is("id", u.row.id)>>), u.set)
  IN  /\ u.step = "write"
      /\ heap' = [heap EXCEPT !.rows = after]
      /\ tally' = Gives(tally, GivenIds(heap.rows, after, u.set))
      /\ update' = [update EXCEPT ![c].step = "read"]
      /\ UNCHANGED <<kind, tx, calls, asked>>

SqlUpdateRead(c) ==
  /\ update[c].step = "read"
  /\ update' = [update EXCEPT ![c] = NoUpdate]
  /\ UNCHANGED <<kind, heap, tx, calls, tally, asked>>

\* UpdateMany as a compare-and-set on a row's n, the way claims, quotas and
\* rotations use it: its count tells the caller whether the row was its.
CompareAndSet(c, i) ==
  LET where == <<Is("id", i), Is("n", 0)>>
      matched == IF kind = "memory" THEN Matching(Own(c), where) ELSE DbSelected(where)
  IN  /\ Free(c) /\ Call
      /\ PutCounted(c, IF kind = "memory" THEN MemoryUpdateMany(Own(c), where, [n |-> 1])
                       ELSE [heap EXCEPT !.rows = DbUpdate(heap.rows, matched, [n |-> 1])],
                    [OwnTally(c) EXCEPT !.won[i] = @ + Cardinality(matched)])
      /\ UNCHANGED update

\* Delete and DeleteMany.  sqlstore.Delete is its DeleteMany.
Delete(c, where) ==
  /\ Free(c) /\ Call
  /\ \/ kind = "memory" /\ Put(c, MemoryDelete(Own(c), where))
     \/ kind = "sql" /\ PutRows(DbDelete(heap.rows, DbSelected(where)))
     \/ /\ kind = "mongo"
        /\ \E i \in DbSelected(where) : PutRows(DbDelete(heap.rows, {i}))
  /\ UNCHANGED update

DeleteMany(c, where) ==
  /\ Free(c) /\ Call
  /\ IF kind = "memory" THEN Put(c, MemoryDeleteMany(Own(c), where))
     ELSE PutRows(DbDelete(heap.rows, DbSelected(where)))
  /\ UNCHANGED update

\* Transaction: the copy's index is built anew from its rows.
Begin(c) ==
  /\ kind = "memory" /\ Free(c) /\ tx = NoTx /\ Call
  /\ tx' = [by |-> c, heap |-> [rows |-> heap.rows,
              index |-> addToIndex(NoIndex, heap.rows, DOMAIN heap.rows)], tally |-> tally]
  /\ UNCHANGED <<heap, update, tally>>

Commit(c) ==
  /\ tx.by = c
  /\ heap' = tx.heap /\ tally' = tx.tally /\ tx' = NoTx
  /\ UNCHANGED <<kind, update, calls, asked>>

\* fn returned an error or panicked.
Rollback(c) ==
  /\ tx.by = c
  /\ tx' = NoTx
  /\ UNCHANGED <<kind, heap, update, calls, tally, asked>>

\* A filter is asked of a record, whatever the adapter: what it says does not
\* depend on how the record came to be stored, so the question stands alone.
Ask ==
  /\ calls = 0 /\ kind = "memory" /\ asked = NoQuestion
  /\ \E r \in Record, where \in Queries : asked' = [record |-> r, where |-> where]
  /\ UNCHANGED <<kind, heap, tx, update, calls, tally>>

StorageNext ==
  \/ \E c \in Callers :
       \/ \E r \in Record : Create(c, r)
       \/ \E where \in Filters : \/ Delete(c, where) \/ DeleteMany(c, where)
                                 \/ \E set \in Values : \/ Update(c, where, set)
                                                        \/ SqlUpdateFind(c, where, set)
       \/ SqlUpdateWrite(c) \/ SqlUpdateRead(c)
       \/ \E i \in Ids : CompareAndSet(c, i)
       \/ Begin(c) \/ Commit(c) \/ Rollback(c)
  \/ Ask

StorageSpec == StorageInit /\ [][StorageNext]_storageVars

-----------------------------------------------------------------------------
(* Properties *)

\* "It ... indexes unique fields, so it behaves like a real database": a lookup
\* through the memory adapter's index answers what a scan of the rows would, in
\* the store and in the copy of a transaction, after any sequence of writes.
IndexAgrees ==
  kind = "memory" => \A h \in {heap, tx.heap}, f \in UniqueFields :
    \A v \in DOMAIN h.index[f] :
      {r.id : r \in {s \in Rows(h) : s[f] = v}} = {lookupUnique(h, f, v)} \ {0}

\* "One external identity maps to exactly one local user": no two rows agree on
\* a unique field or on all columns of a composite constraint, NULLs aside,
\* whatever callers create and update, committed or not.
UniqueKept ==
  \A h \in {heap, tx.heap} : \A i, j \in DOMAIN h.rows : i # j =>
    /\ \A f \in UniqueFields : h.rows[i][f] = h.rows[j][f] => h.rows[i][f] = Null
    /\ \E k \in DOMAIN Constraint :
         LET v == h.rows[i][Constraint[k]] IN v = Null \/ v # h.rows[j][Constraint[k]]

\* "Callers rely on that count for compare-and-set": UpdateMany never tells more
\* callers that they moved a row from 0 to 1 than there were times that the row
\* was given at 0, by its creation or by a caller who put it back on purpose.
\* Whatever an Update writes to other columns meanwhile, and whatever is
\* committed or rolled back, a row that was won stays won.
ClaimedOnce ==
  \A t \in {tally, tx.tally} : \A i \in Ids : t.won[i] <= t.given[i]

\* "All three adapters (memory, SQL, Mongo) must agree here": storage.Matches,
\* SQL and MongoDB select the same records, those the list of clauses means,
\* NULLs, connectors and wildcards included; the exceptions are Ambiguous.
FiltersAgree ==
  asked # NoQuestion =>
    LET r == asked.record
        where == asked.where
    IN  (\A k \in DOMAIN where : ~Ambiguous(r, where[k])) =>
          /\ Matches(r, where) = Meaning(r, where)
          /\ SqlMatches(r, where) = Meaning(r, where)
          /\ MongoMatches(r, where) = Meaning(r, where)
=============================================================================
