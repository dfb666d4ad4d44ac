------------------------------ MODULE Database ------------------------------
(***************************************************************************)
(* TransactionManager.run (database/transaction.ts) and MigrationRunner    *)
(* (database/migrations/runner.ts) over a DbPool (database/connection.ts): *)
(* the InMemoryPool, or the PgPool its constructor presupposes (as         *)
(* committed it does not keep its configuration, and init() throws) over a *)
(* PostgreSQL server, which is external: what a transaction has written is *)
(* there for others when it commits, a second insert of a key waits for    *)
(* the first and then fails, and any query can fail.                       *)
(*                                                                         *)
(* A call is cut at each query it awaits.                                  *)
(***************************************************************************)
EXTENDS Integers, Sequences, FiniteSets, SequencesExt

CONSTANTS Tx,          \* calls of run(), each inserts a row of its own
          Runner,      \* calls of runAll()
          Migration,   \* MIGRATIONS, in order; all rows belong to the first one's table
          Memory,      \* is the pool an InMemoryPool?
          MaxConns,    \* poolMax
          MaxFaults    \* bound: queries that fail

VARIABLES
    rows,    \* what is in the tables: <<"table", m>>, <<"ran", m>>, <<"row", c>>
    call,    \* [at, m, active, holds, wrote, leaked, unsure, ended]
    ran,     \* the `ran` list of a runner
    faults

vars == <<rows, call, ran, faults>>

Call == Tx \cup Runner
First == Migration[1]

Init ==
    /\ rows = {} /\ faults = 0
    /\ call = [c \in Call |-> [at |-> IF c \in Tx THEN "connect" ELSE "ensure", m |-> 1,
                               active |-> FALSE, holds |-> FALSE, wrote |-> {},
                               leaked |-> FALSE, unsure |-> FALSE, ended |-> "no"]]
    /\ ran = [r \in Runner |-> <<>>]

-----------------------------------------------------------------------------
Held == {c \in Call : call[c].holds}

Becomes(c, r) == call' = [call EXCEPT ![c] = r]

\* A query of c fails, which c takes as `handler` says.
Fault(c, handler) ==
    ~Memory /\ faults < MaxFaults /\ faults' = faults + 1
    /\ Becomes(c, handler) /\ UNCHANGED <<rows, ran>>

\* What a statement adds: the tables of the memory pool change at once, and its
\* CREATE TABLE empties a table that exists; the server stages the rest.
Written(c, add, empties, next) ==
    /\ rows' = IF Memory THEN (rows \ empties) \cup add ELSE rows
    /\ Becomes(c, IF Memory THEN next ELSE [next EXCEPT !.wrote = @ \cup add])
    /\ UNCHANGED <<ran, faults>>

\* pool.connect(): the server's pool has a limit and gives up waiting.
Connect(c) ==
    LET r == call[c] IN
    /\ r.at = "connect"
    /\ IF Memory \/ Cardinality(Held) < MaxConns
       THEN Becomes(c, [r EXCEPT !.at = "begin", !.holds = TRUE])
       ELSE Becomes(c, [r EXCEPT !.at = "end", !.ended = "failed"])
    /\ UNCHANGED <<rows, ran, faults>>

\* BEGIN.  run() does not release the connection when it fails; a runner does.
Begin(c) ==
    LET r == call[c] IN
    /\ r.at = "begin"
    /\ \/ /\ Becomes(c, [r EXCEPT !.at = "work", !.active = TRUE])
          /\ UNCHANGED <<rows, ran, faults>>
       \/ Fault(c, IF c \in Tx THEN [r EXCEPT !.at = "end", !.leaked = TRUE, !.ended = "failed"]
                   ELSE [r EXCEPT !.at = "rollback"])

\* fn(tx) inserts its row, or throws; the runner's statements.
Work(c) ==
    LET r == call[c] IN
    /\ r.at = "work"
    /\ \/ IF c \in Tx
          THEN Written(c, {<<"row", c>>}, {}, [r EXCEPT !.at = "commit"])
          ELSE Written(c, {<<"table", Migration[r.m]>>},
                       IF Migration[r.m] = First THEN {<<"row", t>> : t \in Tx} ELSE {},
                       [r EXCEPT !.at = "record"])
       \/ c \in Tx /\ Becomes(c, [r EXCEPT !.at = "rollback"]) /\ UNCHANGED <<rows, ran, faults>>
       \/ Fault(c, [r EXCEPT !.at = "rollback"])

\* Mutant: the history is written after the transaction, not in it.
RecordLater(c) ==
    LET r == call[c]  row == <<"ran", Migration[r.m]>> IN
    /\ r.at = "record"
    /\ rows' = rows \cup r.wrote
    /\ Becomes(c, [r EXCEPT !.at = "commit", !.wrote = {row}]) /\ UNCHANGED <<ran, faults>>

\* The row of schema_migrations, whose key the server keeps unique.
Record(c) ==
    LET r == call[c]  row == <<"ran", Migration[r.m]>> IN
    /\ r.at = "record"
    /\ ~Memory => \A d \in Call \ {c} : row \notin call[d].wrote
    /\ \/ /\ Memory \/ row \notin rows
          /\ Written(c, {row}, {}, [r EXCEPT !.at = "commit"])
       \/ /\ ~Memory /\ row \in rows
          /\ Becomes(c, [r EXCEPT !.at = "rollback"]) /\ UNCHANGED <<rows, ran, faults>>
       \/ Fault(c, [r EXCEPT !.at = "rollback"])

Released(r) == [r EXCEPT !.active = FALSE, !.holds = FALSE, !.wrote = {}]

\* After a transaction: run() is over, a runner goes on to its next migration.
Done(c, r) ==
    IF c \in Tx THEN [r EXCEPT !.at = "end", !.ended = "ok"]
    ELSE [r EXCEPT !.at = "check", !.m = @ + 1]

\* Mutant: the transaction is closed before COMMIT is sent.
CommitClosesFirst(c) ==
    LET r == call[c] IN
    /\ r.at = "commit"
    /\ \/ /\ rows' = rows \cup r.wrote
          /\ Becomes(c, Done(c, Released(r)))
          /\ ran' = IF c \in Tx THEN ran ELSE [ran EXCEPT ![c] = Append(@, Migration[r.m])]
          /\ UNCHANGED faults
       \/ Fault(c, [r EXCEPT !.at = "rollback", !.active = FALSE])

\* COMMIT, which may fail before or after the server has committed.
Commit(c) ==
    LET r == call[c] IN
    /\ r.at = "commit"
    /\ \/ /\ rows' = rows \cup r.wrote
          /\ Becomes(c, Done(c, Released(r)))
          /\ ran' = IF c \in Tx THEN ran ELSE [ran EXCEPT ![c] = Append(@, Migration[r.m])]
          /\ UNCHANGED faults
       \/ Fault(c, [r EXCEPT !.at = "rollback"])
       \/ /\ ~Memory /\ faults < MaxFaults /\ faults' = faults + 1
          /\ rows' = rows \cup r.wrote
          /\ Becomes(c, [r EXCEPT !.at = "rollback", !.wrote = {}, !.unsure = TRUE])
          /\ UNCHANGED ran

\* ROLLBACK, whose failure changes nothing: the connection goes back either way,
\* unless the transaction is not active any more, and the error is thrown on.
Rollback(c) ==
    LET r == call[c] IN
    /\ r.at = "rollback"
    /\ Becomes(c, [(IF r.active \/ c \in Runner THEN Released(r) ELSE r)
                   EXCEPT !.at = "end", !.ended = "failed"])
    /\ UNCHANGED <<rows, ran, faults>>

\* runAll: _ensureHistoryTable.
Ensure(c) ==
    /\ call[c].at = "ensure"
    /\ rows' = IF Memory THEN {x \in rows : x[1] # "ran"} ELSE rows
    /\ Becomes(c, [call[c] EXCEPT !.at = "check"])
    /\ UNCHANGED <<ran, faults>>

\* _alreadyRan of the next migration, which is skipped or run.
Check(c) ==
    LET r == call[c] IN
    /\ r.at = "check"
    /\ Becomes(c, IF r.m > Len(Migration) THEN [r EXCEPT !.at = "end", !.ended = "ok"]
                  ELSE IF <<"ran", Migration[r.m]>> \in rows THEN [r EXCEPT !.m = @ + 1]
                  ELSE [r EXCEPT !.at = "connect"])
    /\ UNCHANGED <<rows, ran, faults>>

Step(c) ==
    \/ Connect(c) \/ Begin(c) \/ Work(c) \/ Record(c) \/ Commit(c) \/ Rollback(c)
    \/ Ensure(c) \/ Check(c)

Next == \E c \in Call : Step(c)

Spec == Init /\ [][Next]_vars

-----------------------------------------------------------------------------
TypeOK ==
    /\ \A x \in rows : x[1] \in {"table", "ran", "row"}
    /\ \A c \in Call : call[c].holds \in BOOLEAN /\ call[c].m \in 1 .. Len(Migration) + 1

\* A call that is over holds no connection, whatever failed in it, COMMIT and
\* ROLLBACK included, unless it is a run() whose BEGIN failed; and no call
\* holds more than the pool has.
ConnectionsComeBack ==
    /\ \A c \in Call : call[c].at = "end" => (call[c].holds <=> call[c].leaked)
    /\ ~Memory => Cardinality(Held) <= MaxConns

\* A table is there if and only if its migration is in the history, and the
\* history has no gaps, with runners side by side and queries that fail.
MigratedAsRecorded ==
    ~Memory => \A i \in 1 .. Len(Migration) :
        LET m == Migration[i] IN
        /\ <<"table", m>> \in rows <=> <<"ran", m>> \in rows
        /\ <<"ran", m>> \in rows => \A j \in 1 .. i : <<"ran", Migration[j]>> \in rows

\* A run() that returned has its row in the table, one that threw has not,
\* unless it was its COMMIT that failed.
AllOrNothing ==
    ~Memory => \A c \in Tx :
        /\ call[c].ended = "ok" => <<"row", c>> \in rows
        /\ call[c].ended = "failed" /\ ~call[c].unsure => <<"row", c>> \notin rows

\* No two runners report that they have run the same migration.
RanOnce ==
    \A r, s \in Runner : r # s => ToSet(ran[r]) \cap ToSet(ran[s]) = {}

\* Every call ends.
CallsEnd == \A c \in Call : <>(call[c].at = "end")
=============================================================================
