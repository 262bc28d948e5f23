------------------------------ MODULE StateStore ------------------------------
(***************************************************************************)
(* The secure state of src/api/state_store.py: one namespace (settings,    *)
(* broker connection, system control, ...) kept in two copies, a Redis key *)
(* and a row of a SQLite table.  Payloads are abstracted to the number of  *)
(* the write that stored them, 0 for the caller's defaults; encryption to  *)
(* whether a copy can be decrypted.  The calls of several threads (the     *)
(* event loop and the workers of asyncio.to_thread) interleave at their    *)
(* Redis calls and SQLite sections; the SQLite sections exclude each other *)
(* by the store's lock.  Redis may stop answering, and its keys expire     *)
(* when a time to live is configured.  Below: the activity log.            *)
(***************************************************************************)
EXTENDS Naturals, FiniteSets

CONSTANTS StoreThreads,   \* threads that call the store
          StoreConfigs,   \* [primary, shadow, ttl, clear : BOOLEAN, threads : SUBSET StoreThreads]
          MaxSets,        \* writes
          MaxOutages,     \* times Redis stops answering
          MaxMigrations,  \* calls of the migration endpoint
          NoCopy,         \* no key, no row
          Garbled         \* a copy written with another encryption key

ASSUME StoreAssumption ==
  /\ \A c \in StoreConfigs : c.threads \subseteq StoreThreads /\ IsFiniteSet(c.threads)
  /\ {MaxSets, MaxOutages, MaxMigrations} \subseteq Nat
  /\ NoCopy # Garbled /\ NoCopy \notin Nat \cup StoreThreads /\ Garbled \notin Nat

VARIABLES storeCfg, redis, sqlite, redisUp, storeLock, storeCall,
          sets, outages, migrations,
          acked,     \* history: the writes that returned
          before,    \* history: the writes that had returned when a write began
          missed,    \* history: one copy has missed a write: Redis failed, or a restart cut the call off
          lastGet    \* history: what a read returned, and the writes acknowledged when it began

storeVars == <<storeCfg, redis, sqlite, redisUp, storeLock, storeCall, sets, outages,
               migrations, acked, before, missed, lastGet>>
history == <<sets, acked, before, lastGet>>

Versions == 0 .. MaxSets
Copies == Versions \cup {NoCopy, Garbled}
IdleCall == [op |-> "idle", pc |-> "idle", v |-> 0, seen |-> {}]

StoreTypeOK ==
  /\ storeCfg \in StoreConfigs
  /\ redis \in Copies /\ sqlite \in Copies /\ redisUp \in BOOLEAN
  /\ storeLock \in StoreThreads \cup {NoCopy}
  /\ storeCall \in [StoreThreads -> [op : {"idle", "set", "get", "migrate"},
                                     pc : {"idle", "redis", "sqlite", "read", "repair", "copy", "clear"},
                                     v : Copies, seen : SUBSET Versions]]
  /\ sets \in Versions /\ outages \in 0 .. MaxOutages /\ migrations \in 0 .. MaxMigrations
  /\ acked \subseteq Versions /\ before \in [Versions -> SUBSET Versions] /\ missed \in BOOLEAN
  /\ lastGet \in [v : Versions, seen : SUBSET Versions]

Readable(copy) == copy \notin {NoCopy, Garbled}
Durable == storeCfg.shadow \/ ~storeCfg.primary   \* every write reaches SQLite

StoreInit ==
  /\ storeCfg \in StoreConfigs
  /\ \/ redis = NoCopy /\ sqlite \in {NoCopy, 0}
     \/ redis \in {0, Garbled} /\ sqlite = redis
  /\ redisUp = TRUE /\ storeLock = NoCopy
  /\ storeCall = [t \in StoreThreads |-> IdleCall]
  /\ sets = 0 /\ outages = 0 /\ migrations = 0
  /\ acked = {} /\ before = [v \in Versions |-> {}] /\ missed = FALSE
  /\ lastGet = [v |-> 0, seen |-> {}]

At(t, pc) == storeCall[t].pc = pc
Goto(t, pc, v) == storeCall' = [storeCall EXCEPT ![t].pc = pc, ![t].v = v]
LockFree(t) == storeLock \in {NoCopy, t}

\* _redis_write_secure_payload: a write that fails may have been applied all the same.
RedisWrite(v, ok) ==
  \/ ok /\ redisUp /\ redis' = v /\ missed' = missed
  \/ ~ok /\ ~redisUp /\ redis' \in {redis, v} /\ missed' = TRUE

\* The call of thread t returns.
Finish(t) ==
  /\ storeCall' = [storeCall EXCEPT ![t] = IdleCall]
  /\ acked' = IF storeCall[t].op = "set" THEN acked \cup {storeCall[t].v} ELSE acked
  /\ lastGet' = IF storeCall[t].op = "get" THEN [v |-> storeCall[t].v, seen |-> storeCall[t].seen]
                ELSE lastGet
  /\ UNCHANGED <<sets, before>>

FirstWrite == IF storeCfg.primary THEN "redis" ELSE "sqlite"

-----------------------------------------------------------------------------
\* set_user_settings, set_broker_connection, set_system_control, ...
BeginSet(t) ==
  /\ At(t, "idle") /\ t \in storeCfg.threads /\ sets < MaxSets
  /\ sets' = sets + 1
  /\ before' = [before EXCEPT ![sets + 1] = acked \cup {0}]
  /\ storeCall' = [storeCall EXCEPT ![t] = [op |-> "set", pc |-> FirstWrite, v |-> sets + 1, seen |-> acked]]
  /\ UNCHANGED <<storeCfg, redis, sqlite, redisUp, storeLock, outages, migrations, acked, missed, lastGet>>

NeedsSqliteNoShadow(ok) == storeCfg.primary /\ ~ok                        \* mutant
NeedsSqlite(ok) == storeCfg.primary /\ (storeCfg.shadow \/ ~ok)

SetRedis(t) ==
  /\ At(t, "redis")
  /\ \E ok \in BOOLEAN :
       /\ RedisWrite(storeCall[t].v, ok)
       /\ IF NeedsSqlite(ok) THEN Goto(t, "sqlite", storeCall[t].v) /\ UNCHANGED history
          ELSE Finish(t)
  /\ UNCHANGED <<storeCfg, sqlite, redisUp, storeLock, outages, migrations>>

SetSqlite(t) ==
  /\ At(t, "sqlite") /\ LockFree(t)
  /\ sqlite' = storeCall[t].v
  /\ IF storeCfg.primary THEN Finish(t) ELSE Goto(t, "redis", storeCall[t].v) /\ UNCHANGED history
  /\ UNCHANGED <<storeCfg, redis, redisUp, storeLock, outages, migrations, missed>>

-----------------------------------------------------------------------------
\* _get_secure_payload: the Redis copy if there is a readable one ...
BeginGet(t) ==
  /\ At(t, "idle") /\ t \in storeCfg.threads
  /\ IF redisUp /\ Readable(redis)
     THEN lastGet' = [v |-> redis, seen |-> acked] /\ UNCHANGED storeCall
     ELSE /\ storeCall' = [storeCall EXCEPT ![t] = [op |-> "get", pc |-> "read", v |-> 0, seen |-> acked]]
          /\ UNCHANGED lastGet
  /\ UNCHANGED <<storeCfg, redis, sqlite, redisUp, storeLock, sets, outages, migrations, acked,
                 before, missed>>

\* ... else the SQLite row; without a readable row the defaults are stored as a write of their own.
ReadSqlite(t) ==
  /\ At(t, "read") /\ LockFree(t)
  /\ IF Readable(sqlite) THEN Goto(t, "repair", sqlite) ELSE Goto(t, FirstWrite, 0)
  /\ UNCHANGED <<storeCfg, redis, sqlite, redisUp, storeLock, outages, migrations, missed>>
  /\ UNCHANGED history

RepairDefault(t) == 0                                                      \* mutant
RepairValue(t) == storeCall[t].v

\* The row read from SQLite is copied to Redis, and a failure of that is ignored.
RepairRedis(t) ==
  /\ At(t, "repair")
  /\ \E ok \in BOOLEAN : RedisWrite(RepairValue(t), ok)
  /\ Finish(t)
  /\ UNCHANGED <<storeCfg, sqlite, redisUp, storeLock, outages, migrations>>

-----------------------------------------------------------------------------
\* migrate_secure_state_to_redis: reads the rows under the lock, and keeps it.
BeginMigrate(t) ==
  /\ At(t, "idle") /\ t \in storeCfg.threads /\ migrations < MaxMigrations
  /\ LockFree(t) /\ sqlite # NoCopy
  /\ storeLock' = t /\ migrations' = migrations + 1
  /\ storeCall' = [storeCall EXCEPT ![t] = [op |-> "migrate", pc |-> "copy", v |-> sqlite, seen |-> acked]]
  /\ UNCHANGED <<storeCfg, redis, sqlite, redisUp, outages, missed, history>>

ClearsAnyway(ok) == storeCfg.clear                                         \* mutant
ClearsAfter(ok) == ok /\ storeCfg.clear

CopyRow(t) ==
  /\ At(t, "copy")
  /\ \E ok \in BOOLEAN :
       /\ RedisWrite(storeCall[t].v, ok)
       /\ IF ClearsAfter(ok) THEN Goto(t, "clear", storeCall[t].v) /\ UNCHANGED <<storeLock, history>>
          ELSE Finish(t) /\ storeLock' = NoCopy
  /\ UNCHANGED <<storeCfg, sqlite, redisUp, outages, migrations>>

\* clear_sqlite: the copied rows are deleted, and the deletion committed.
ClearRow(t) ==
  /\ At(t, "clear")
  /\ sqlite' = NoCopy /\ storeLock' = NoCopy
  /\ Finish(t)
  /\ UNCHANGED <<storeCfg, redis, redisUp, outages, migrations, missed>>

-----------------------------------------------------------------------------
\* The environment: Redis stops answering and answers again, a key expires, the process is restarted.
RedisDown ==
  /\ redisUp /\ outages < MaxOutages
  /\ redisUp' = FALSE /\ outages' = outages + 1
  /\ UNCHANGED <<storeCfg, redis, sqlite, storeLock, storeCall, migrations, missed, history>>

RedisAnswers ==
  /\ ~redisUp /\ redisUp' = TRUE
  /\ UNCHANGED <<storeCfg, redis, sqlite, storeLock, storeCall, outages, migrations, missed, history>>

KeyExpires ==
  /\ storeCfg.ttl /\ redis # NoCopy /\ redis' = NoCopy
  /\ UNCHANGED <<storeCfg, sqlite, redisUp, storeLock, storeCall, outages, migrations, missed, history>>

StoreRestart ==
  /\ \E t \in StoreThreads : ~At(t, "idle")
  /\ storeCall' = [t \in StoreThreads |-> IdleCall] /\ storeLock' = NoCopy
  /\ missed' = (missed \/ \E t \in StoreThreads : storeCall[t].pc \in {"redis", "sqlite"})
  /\ UNCHANGED <<storeCfg, redis, sqlite, redisUp, outages, migrations, history>>

StoreNext ==
  \/ \E t \in StoreThreads :
       \/ BeginSet(t) \/ SetRedis(t) \/ SetSqlite(t)
       \/ BeginGet(t) \/ ReadSqlite(t) \/ RepairRedis(t)
       \/ BeginMigrate(t) \/ CopyRow(t) \/ ClearRow(t)
  \/ RedisDown \/ RedisAnswers \/ KeyExpires \/ StoreRestart

StoreSpec == StoreInit /\ [][StoreNext]_storeVars

-----------------------------------------------------------------------------
\* Write v was over before a later write, since acknowledged, began.
Superseded(v) == \E w \in acked : v \in before[w]
StoreQuiet == \A t \in StoreThreads : At(t, "idle")
OneThread == Cardinality(storeCfg.threads) = 1
RowsKept == storeCfg.clear => migrations = 0

\* However calls overlap, fail or are cut short, SQLite (when every write goes there) never goes back
\* to a write that a later acknowledged one replaced: only the defaults a read stores can do that.
SqliteNeverOlder ==
  Durable /\ Readable(sqlite) /\ Superseded(sqlite) => sqlite = 0

\* While Redis has taken every write and one thread calls at a time, the two copies agree: the copy
\* that reads prefer goes stale only by a missed write or by calls that overlap.
CopiesAgree ==
  StoreQuiet /\ Durable /\ OneThread /\ ~missed /\ Readable(redis) /\ Readable(sqlite) => redis = sqlite

\* Under the same conditions (and with no row
\* cleared) a read never returns a write that was replaced before the read began.
ReadsLatest ==
  Durable /\ RowsKept /\ OneThread /\ ~missed => \A w \in lastGet.seen : lastGet.v \notin before[w]

\* The last write, once acknowledged, is still there after any outage, expiry, crash or migration that
\* keeps the rows (one thread calls at a time, every write goes to SQLite).
AckedSurvives ==
  StoreQuiet /\ Durable /\ RowsKept /\ OneThread /\ sets \in acked =>
    sets \in {redis, sqlite}

\* A clearing migration never deletes the only readable copy, whatever the other threads and Redis do
\* meanwhile (keys without a time to live).
ClearKeepsCopy ==
  [][Readable(sqlite) /\ sqlite' = NoCopy => storeCfg.ttl \/ Readable(redis)]_storeVars

\* All of it: two copies of the secure state, whatever overlaps, fails or is cut short (state_store.py).
SecureStateKept ==
  [](StoreTypeOK /\ SqliteNeverOlder /\ CopiesAgree /\ ReadsLatest /\ AckedSurvives) /\ ClearKeepsCopy

-----------------------------------------------------------------------------
(***************************************************************************)
(* The AI activity log of src/api/state_store.py: entries appended to a    *)
(* Postgres table and, as a shadow or when Postgres fails, to a SQLite     *)
(* table; the migration of the SQLite rows to Postgres; the listing that   *)
(* prefers Postgres.  An entry stands for its event type, message and time *)
(* (what the migration takes for the identity of a row); a table is a bag  *)
(* of entries.  A statement sent to Postgres may fail, and may have taken  *)
(* effect when it does.  Entry 0 is the seed of an empty log.              *)
(***************************************************************************)
CONSTANTS LogThreads, MaxEntries, MaxPgFaults, MaxLogMigrations, MaxBoots, NoEntry

ASSUME LogAssumption ==
  NoEntry \notin LogThreads /\ {MaxEntries, MaxPgFaults, MaxLogMigrations, MaxBoots} \subseteq Nat

VARIABLES logShadow,   \* AUTOSAHAM_STATE_POSTGRES_AI_LOGS_SHADOW_SQLITE
          logClear,    \* clear_sqlite of the migrations
          pg, lite,    \* the two tables: how many rows hold the entry
          client,      \* there is a Postgres connection
          logLock, logCall, entries, pgFaults, logMigrations, boots,
          logged,      \* history: the appended entries
          blind        \* history: an existence check of a migration has failed

logVars == <<logShadow, logClear, pg, lite, client, logLock, logCall, entries, pgFaults,
             logMigrations, boots, logged, blind>>

Entries == 0 .. MaxEntries
Counts == 0 .. MaxBoots + 2 + MaxPgFaults
IdleLog == [pc |-> "idle", e |-> 0, rows |-> {}]

LogTypeOK ==
  /\ logShadow \in BOOLEAN /\ logClear \in BOOLEAN /\ client \in BOOLEAN /\ blind \in BOOLEAN
  /\ pg \in [Entries -> Counts] /\ lite \in [Entries -> Counts]
  /\ logLock \in LogThreads \cup {NoEntry}
  /\ logCall \in [LogThreads ->
       [pc : {"idle", "postgres", "sqlite", "exists", "insert", "commit"}, e : Entries, rows : SUBSET Entries]]
  /\ logged \subseteq Entries /\ entries \in Entries

RowsIn(table) == Cardinality({e \in Entries : table[e] > 0})
Plus(table, e) == [table EXCEPT ![e] = @ + 1]

LogInit ==
  /\ logShadow \in BOOLEAN /\ logClear \in BOOLEAN /\ client \in BOOLEAN
  /\ pg = [e \in Entries |-> 0] /\ lite = [e \in Entries |-> 0]
  /\ logLock = NoEntry /\ logCall = [t \in LogThreads |-> IdleLog]
  /\ entries = 0 /\ pgFaults = 0 /\ logMigrations = 0 /\ boots = 0 /\ logged = {} /\ blind = FALSE

LogAt(t, pc) == logCall[t].pc = pc
LogFree(t) == logLock \in {NoEntry, t}
LogGoto(t, pc) == logCall' = [logCall EXCEPT ![t].pc = pc]
LogDone(t) == logCall' = [logCall EXCEPT ![t] = IdleLog]

\* _postgres_execute_sql: no connection, or an exception, answers None; a failed statement may have
\* taken effect.
PgFails ==
  \/ ~client /\ UNCHANGED pgFaults
  \/ client /\ pgFaults < MaxPgFaults /\ pgFaults' = pgFaults + 1

PgInsert(e, ok) ==
  \/ ok /\ client /\ pg' = Plus(pg, e) /\ UNCHANGED pgFaults
  \/ ~ok /\ PgFails /\ pg' \in IF client THEN {pg, Plus(pg, e)} ELSE {pg}

-----------------------------------------------------------------------------
\* append_ai_log
AppendLog(t) ==
  /\ LogAt(t, "idle") /\ entries < MaxEntries /\ boots > 0
  /\ entries' = entries + 1
  /\ logCall' = [logCall EXCEPT ![t] = [pc |-> "postgres", e |-> entries + 1, rows |-> {}]]
  /\ UNCHANGED <<logShadow, logClear, pg, lite, client, logLock, pgFaults, logMigrations, boots,
                 logged, blind>>

AlsoSqliteOnFailure(ok) == ~ok                                            \* mutant
AlsoSqlite(ok) == logShadow \/ ~ok

InsertPostgres(t) ==
  /\ LogAt(t, "postgres")
  /\ \E ok \in BOOLEAN :
       /\ PgInsert(logCall[t].e, ok)
       /\ IF AlsoSqlite(ok) THEN LogGoto(t, "sqlite") /\ UNCHANGED logged
          ELSE LogDone(t) /\ logged' = logged \cup {logCall[t].e}
  /\ UNCHANGED <<logShadow, logClear, lite, client, logLock, entries, logMigrations, boots, blind>>

InsertSqlite(t) ==
  /\ LogAt(t, "sqlite") /\ LogFree(t)
  /\ lite' = Plus(lite, logCall[t].e)
  /\ LogDone(t) /\ logged' = logged \cup {logCall[t].e}
  /\ UNCHANGED <<logShadow, logClear, pg, client, logLock, entries, pgFaults, logMigrations, boots, blind>>

-----------------------------------------------------------------------------
\* ensure_seed_ai_logs at start-up: the rows of Postgres are counted, without an answer those of
\* SQLite; an empty log gets the seed, appended like any other entry.
Boot(t) ==
  /\ \A u \in LogThreads : LogAt(u, "idle")
  /\ boots < MaxBoots /\ boots' = boots + 1
  /\ client' \in BOOLEAN
  /\ \E answered \in BOOLEAN :
       /\ \/ answered /\ client' /\ UNCHANGED pgFaults
          \/ ~answered /\ ~client' /\ UNCHANGED pgFaults
          \/ ~answered /\ client' /\ pgFaults < MaxPgFaults /\ pgFaults' = pgFaults + 1
       /\ IF RowsIn(IF answered THEN pg ELSE lite) = 0
          THEN logCall' = [logCall EXCEPT ![t] = [pc |-> "postgres", e |-> 0, rows |-> {}]]
          ELSE UNCHANGED logCall
  /\ UNCHANGED <<logShadow, logClear, pg, lite, logLock, entries, logMigrations, logged, blind>>

-----------------------------------------------------------------------------
\* migrate_ai_logs_to_postgres: reads the SQLite rows under the lock and keeps it.
BeginLogMigration(t) ==
  /\ LogAt(t, "idle") /\ client /\ logMigrations < MaxLogMigrations /\ boots > 0
  /\ LogFree(t) /\ RowsIn(lite) > 0
  /\ logLock' = t /\ logMigrations' = logMigrations + 1
  /\ LET rows == {e \in Entries : lite[e] > 0} IN
       logCall' = [logCall EXCEPT ![t] = [pc |-> "exists", e |-> CHOOSE e \in rows : \A f \in rows : e <= f,
                                          rows |-> rows]]
  /\ UNCHANGED <<logShadow, logClear, pg, lite, client, entries, pgFaults, boots, logged, blind>>

\* After the row the call stands at: the next one, or the commit.  The rows still listed in the call
\* when it commits are the ones to delete.
NextRow(t, kept) ==
  LET rest == {e \in logCall[t].rows : e > logCall[t].e} IN
  logCall' = [logCall EXCEPT ![t] =
    [pc |-> IF rest = {} THEN "commit" ELSE "exists",
     e |-> IF rest = {} THEN @.e ELSE CHOOSE e \in rest : \A f \in rest : e <= f,
     rows |-> @.rows \ kept]]

NeverPresent(e) == FALSE                                                   \* mutant
Present(e) == pg[e] > 0

\* _postgres_ai_log_exists: a failed query counts as "not there".
CheckExists(t) ==
  /\ LogAt(t, "exists")
  /\ \/ Present(logCall[t].e) /\ NextRow(t, {}) /\ UNCHANGED <<pgFaults, blind>>
     \/ ~Present(logCall[t].e) /\ LogGoto(t, "insert") /\ UNCHANGED <<pgFaults, blind>>
     \/ PgFails /\ LogGoto(t, "insert") /\ blind' = TRUE
  /\ UNCHANGED <<logShadow, logClear, pg, lite, client, logLock, entries, logMigrations, boots, logged>>

NeverKept(t, ok) == {}                                                     \* mutant
NotInserted(t, ok) == IF ok THEN {} ELSE {logCall[t].e}

MigrateRow(t) ==
  /\ LogAt(t, "insert")
  /\ \E ok \in BOOLEAN : PgInsert(logCall[t].e, ok) /\ NextRow(t, NotInserted(t, ok))
  /\ UNCHANGED <<logShadow, logClear, lite, client, logLock, entries, logMigrations, boots, logged, blind>>

Deleted(rows) == IF logClear THEN [e \in Entries |-> IF e \in rows THEN 0 ELSE lite[e]] ELSE lite

CommitMigration(t) ==
  /\ LogAt(t, "commit")
  /\ lite' = Deleted(logCall[t].rows)
  /\ LogDone(t) /\ logLock' = NoEntry
  /\ UNCHANGED <<logShadow, logClear, pg, client, entries, pgFaults, logMigrations, boots, logged, blind>>

\* The process dies: the transaction of a migration is rolled back.
LogCrash ==
  /\ boots < MaxBoots /\ \E t \in LogThreads : ~LogAt(t, "idle")
  /\ logCall' = [t \in LogThreads |-> IdleLog] /\ logLock' = NoEntry
  /\ UNCHANGED <<logShadow, logClear, pg, lite, client, entries, pgFaults, logMigrations, boots,
                 logged, blind>>

LogNext ==
  \/ \E t \in LogThreads :
       \/ AppendLog(t) \/ InsertPostgres(t) \/ InsertSqlite(t) \/ Boot(t)
       \/ BeginLogMigration(t) \/ CheckExists(t) \/ MigrateRow(t) \/ CommitMigration(t)
  \/ LogCrash

LogSpec == LogInit /\ [][LogNext]_logVars

-----------------------------------------------------------------------------
\* list_ai_logs: the rows of Postgres; those of SQLite when it has none or does not answer.
Rows(table) == {e \in Entries : table[e] > 0}
ListedLogs(answers) == IF answers /\ Rows(pg) # {} THEN Rows(pg) ELSE Rows(lite)

\* Every appended entry stays in one of the tables: failed inserts, interrupted and repeated
\* migrations lose nothing.
EntriesKept == \A e \in logged : pg[e] > 0 \/ lite[e] > 0

\* With the shadow table and no clearing migration, the log can be listed whole without Postgres.
ShadowComplete == logShadow /\ (logClear => logMigrations = 0) => logged \subseteq ListedLogs(FALSE)

\* A migration run again, or after a crash, adds an entry to Postgres a second time only if the check
\* that it is there could not be answered, or the start-up seeded the log twice.
MigratedOnce == \A e \in Entries \ {0} : pg[e] <= 1 \/ blind

\* All of it: the activity log in two databases, through faults, migrations and crashes (state_store.py).
ActivityLogKept == LogTypeOK /\ EntriesKept /\ ShadowComplete /\ MigratedOnce
=============================================================================
