--------------------------- MODULE RestrictedData ---------------------------
(***************************************************************************)
(* The events of a restricted metric between memory and its sqlite         *)
(* database: metrics/RestrictedEventMetricProducer.cpp, utils/DbUtils.cpp  *)
(* and the calls of StatsLogProcessor.cpp that flush, query, age and       *)
(* delete the database.  One config, one metric.  An hour is one Tick; the *)
(* ages of events and of the file stop at the last one the code tells      *)
(* apart.  Every call of sqlite, and the removal of the file, may fail: an *)
(* action takes as io the operations that fail while it lasts.             *)
(***************************************************************************)
EXTENDS Integers, Sequences, FiniteSets, Functions

CONSTANTS
  Categories, Schemas,  \* of the events
  RowTtl,                  \* getRestrictedCategoryTtl: the same for every category
  MaxDbAge, MaxRows,    \* limits of enforceDbGuardrails
  TriggerFlush, MaxBytes, \* limits of flushIfNecessaryLocked
  IoFailures,           \* what may fail at a time: sets of Operations
  MaxEvents, MaxOps     \* bounds

UNKNOWN == "CATEGORY_UNKNOWN"

\* The operations on the database: opening it, PRAGMA and SELECT, DROP, CREATE, INSERT
\* and DELETE of the metric's table, making the table of the device, removing the file, and its integrity check, which fails
\* when the file is corrupted.
Operations == {"open", "query", "drop", "create", "insert", "delete", "device", "remove", "integrity"}

ASSUME RestrictedAssumption ==
  /\ UNKNOWN \notin Categories /\ 0 \notin Schemas /\ RowTtl \in Nat /\ MaxDbAge \in Nat
  /\ IoFailures \subseteq SUBSET Operations

VARIABLES
  rconf,     \* the config: "none", "restricted" or "other"
  store,     \* producer and database (see Store)
  rdue,      \* what is due because its period is over
  metadata,  \* the category that was saved
  answer,    \* what querySql sent, and whether old rows were deleted before
  stray,     \* history: see DbOnlyWhileRestricted
  rn,        \* events accepted
  rops       \* config updates and restarts

restrictedVars == <<rconf, store, rdue, metadata, answer, stray, rn, rops>>

\* The producer, the database, and as history the ids of the events dropped for a reason
\* and of the rows whose category the producer need not know (see OneCategory).
Store(prod, db, gone, left) == [prod |-> prod, db |-> db, gone |-> gone, left |-> left \ gone]
Producer(events, cat, created) == [events |-> events, cat |-> cat, created |-> created]
FreshProducer == Producer(<< >>, UNKNOWN, FALSE)
\* A database file; its schema is 0 without the table of the metric.
Database(age, schema, rows) == [file |-> TRUE, age |-> age, schema |-> schema, rows |-> rows]
NewDb == Database(0, 0, {})
NoDb == [file |-> FALSE, age |-> 0, schema |-> 0, rows |-> {}]
Answer(rows, enforced) == [rows |-> rows, enforced |-> enforced]
NoAnswer == Answer({}, TRUE)
AllDue == {"flush", "ttl", "guard"}

\* statsd has started without a config, or with one that was saved and has no data.
RestrictedInit ==
  /\ rconf \in {"none", "restricted"} /\ rdue = AllDue
  /\ store = Store(FreshProducer, IF rconf = "restricted" THEN NewDb ELSE NoDb, {}, {})
  /\ metadata = UNKNOWN /\ answer = NoAnswer /\ stray = FALSE
  /\ rn = 0 /\ rops = 0

Ids(events) == {e.id : e \in events}
MemoryOf(s) == Range(s.prod.events)
Rows(s) == s.db.rows
Table(db) == db.schema # 0
Fails(op, io) == op \in io \/ "open" \in io
\* What may fail of the operations that a call consists of.
Failing(ops) == {io \intersect ops : io \in IoFailures}
FlushOperations == {"open", "query", "drop", "create", "insert"}
FlushNow == IF rconf = "restricted" /\ store.prod.events # << >> THEN FlushOperations ELSE {"open"}
EventOperations == FlushOperations \union {"delete", "remove", "integrity"}
QueryOperations == FlushNow \union {"query", "delete"}
UpdateOperations == FlushNow \union {"drop", "device", "remove"}
RestartOperations == FlushNow \union {"device", "delete"}
\* sqlite3_open makes the file.
Opened(db, io) == IF db.file \/ "open" \in io THEN db ELSE NewDb

\* deleteMetricTable: a table that could not be dropped is taken for one that was.
deleteMetricTable(s, io) ==
  LET prod == Producer(s.prod.events, s.prod.cat, FALSE)
  IN  IF Fails("drop", io) \/ ~Table(s.db)
        THEN Store(prod, Opened(s.db, io), s.gone, s.left \union Ids(Rows(s)))
      ELSE Store(prod, NewDb, s.gone \union Ids(Rows(s)), s.left)

\* deleteDb: the producer is not told.
deleteDb(s, io) ==
  IF "remove" \in io THEN s ELSE Store(s.prod, NoDb, s.gone \union Ids(Rows(s)), s.left)

\* createTableIfNeeded for the first event: a table that is there stays.
createTable(s) ==
  Store(Producer(s.prod.events, s.prod.cat, TRUE),
        IF Table(s.db) THEN s.db ELSE Database(0, Head(s.prod.events).schema, Rows(s)), s.gone, s.left)

isEventCompatible(s, e, io) == ~Fails("query", io) /\ (~Table(s.db) \/ s.db.schema = e.schema)

\* insert: all events in one statement, or none.
Inserted(s, io) ==
  LET db == Opened(s.db, io)
      prod == Producer(<< >>, s.prod.cat, s.prod.created)
  IN  IF ~Fails("insert", io) /\ Table(db) /\ \A e \in MemoryOf(s) : e.schema = db.schema
        THEN Store(prod, Database(0, db.schema, db.rows \union MemoryOf(s)), s.gone, s.left)
      ELSE Store(prod, db, s.gone \union Ids(MemoryOf(s)), s.left)

\* flushRestrictedData: without a table the events wait, without the insertion they are lost.
flushRestrictedData(s, io) ==
  IF s.prod.events = << >> THEN s
  ELSE IF s.prod.created THEN Inserted(s, io)
  ELSE LET o == Store(s.prod, Opened(s.db, io), s.gone, s.left)
           d == IF isEventCompatible(o, Head(s.prod.events), io) THEN o ELSE deleteMetricTable(o, io)
       IN  IF Fails("create", io) THEN d ELSE Inserted(createTable(d), io)

flushRestrictedDataLocked(s, io) == IF rconf = "restricted" THEN flushRestrictedData(s, io) ELSE s

\* flushTtl: rows as old as the time to live are deleted; without a table nothing is.
flushTtl(s, io) ==
  LET old == IF Fails("delete", io) THEN {} ELSE {e \in Rows(s) : e.age >= RowTtl}
      db == Opened(s.db, io)
  IN  IF old = {} THEN Store(s.prod, db, s.gone, s.left)
      ELSE Store(s.prod, Database(0, db.schema, db.rows \ old), s.gone \union Ids(old), s.left)

\* enforceDataTtlsLocked with enforceRestrictedDataTtls of the manager.
enforceRestrictedDataTtls(s, io) == IF rconf = "restricted" THEN flushTtl(s, io) ELSE s

verifyIntegrityAndDeleteIfNecessary(s, io) ==
  IF "integrity" \in io /\ "open" \notin io THEN deleteDb(s, io) ELSE s

\* enforceDbGuardrails: the file is removed when it is too old, too large or
\* corrupted; the producer is not told.
enforceDbGuardrails(s, io) ==
  IF s.db.file /\ (s.db.age > MaxDbAge \/ Cardinality(Rows(s)) >= MaxRows) THEN deleteDb(s, io)
  ELSE verifyIntegrityAndDeleteIfNecessary(s, io)

\* What is in memory is dropped.
Dropped(s) ==
  Store(Producer(<< >>, s.prod.cat, s.prod.created), s.db, s.gone \union Ids(MemoryOf(s)), s.left)

\* onMatchedLogEventInternalLocked
onMatchedLogEvent(s, e, io) ==
  LET c == IF s.prod.cat \in {UNKNOWN, e.cat} THEN s ELSE Dropped(deleteMetricTable(s, io))
  IN  Store(Producer(Append(c.prod.events, e), e.cat, c.prod.created), c.db, c.gone, c.left)

\* flushIfNecessaryLocked for a restricted config.
flushIfNecessary(s, io) ==
  IF Len(s.prod.events) > MaxBytes THEN Dropped(s)
  ELSE IF Len(s.prod.events) > TriggerFlush THEN flushRestrictedData(s, io)
  ELSE s

\* An event reaches the config: first what is due, then the event.
RestrictedEvent ==
  /\ rconf = "restricted" /\ rn < MaxEvents /\ rn' = rn + 1
  /\ \E cat \in Categories, schema \in Schemas, io \in Failing(EventOperations) :
       LET e == [id |-> rn + 1, cat |-> cat, schema |-> schema, age |-> 0]
           f == IF "flush" \in rdue THEN flushRestrictedDataLocked(store, io) ELSE store
           t == IF "ttl" \in rdue THEN enforceRestrictedDataTtls(f, io) ELSE f
           g == IF "guard" \in rdue THEN enforceDbGuardrails(t, io) ELSE t
       IN  /\ store' = flushIfNecessary(onMatchedLogEvent(g, e, io), io)
           /\ stray' = (stray /\ ("guard" \in rdue => g.db.file))
  /\ rdue' = {} /\ answer' = NoAnswer
  /\ UNCHANGED <<rconf, metadata, rops>>

\* querySql from the delegate; from anyone else nothing changes.
querySql ==
  /\ rconf = "restricted"   \* validateRestrictedMetricsDelegate
  /\ \E io \in Failing(QueryOperations) :
       /\ store' = enforceRestrictedDataTtls(flushRestrictedDataLocked(store, io), io)
       /\ answer' = Answer(IF Fails("query", io) THEN {} ELSE Rows(store'), ~Fails("delete", io))
  /\ rdue' = rdue \ {"flush", "ttl"}
  /\ UNCHANGED <<rconf, metadata, stray, rn, rops>>

\* A producer starts over the rows there are, with a category; it was told one or none.
Started(s, category, told) ==
  Store(Producer(<< >>, category, FALSE), s.db, s.gone \union Ids(MemoryOf(s)),
        s.left \union Ids({e \in Rows(s) : e.cat # told}))
StartedAnew(s) == Started(s, UNKNOWN, UNKNOWN)

\* updateDeviceInfoTable drops the table of the device and makes it anew.
updateDeviceInfoTable(s, io) ==
  Store(s.prod, IF Fails("device", io) THEN Opened(s.db, io) ELSE Database(0, s.db.schema, Rows(s)),
        s.gone, s.left)

\* The database of a restricted config that ends goes with it, unless its removal fails.
DbOfOldConfig(s, io) == IF rconf = "restricted" THEN deleteDb(s, io) ELSE s
LeavesDb(s, io) == rconf = "restricted" /\ s.db.file /\ "remove" \in io

\* A config that is not valid leaves none.
ConfigInvalid(s, io) ==
  /\ store' = DbOfOldConfig(StartedAnew(s), io)
  /\ rconf' = "none"
  /\ stray' = (stray \/ LeavesDb(s, io))

\* A new manager, without the database of the old one.
ConfigAnew(s, conf, io) ==
  /\ LET t == StartedAnew(DbOfOldConfig(s, io))
     IN  store' = (IF conf = "restricted" THEN updateDeviceInfoTable(t, io) ELSE t)
  /\ rconf' = conf
  /\ stray' = ((stray \/ LeavesDb(s, io)) /\ conf # "restricted")

\* An update in place keeps the producer or replaces it; then its table is dropped if
\* this producer created it.
ConfigInPlace(s, replaced, io) ==
  /\ store' = IF ~(replaced /\ rconf = "restricted") THEN s
              ELSE StartedAnew(IF s.prod.created THEN deleteMetricTable(s, io) ELSE s)
  /\ UNCHANGED <<rconf, stray>>

\* OnConfigUpdatedLocked when there is a manager or none: what becomes of database and producer.
ConfigUpdated(s, conf, modular, replaced, io) ==
  LET inPlace == modular /\ rconf # "none" /\ (rconf = "restricted") = (conf = "restricted")
  IN  \/ conf = "invalid" /\ ConfigInvalid(s, io)
      \/ conf # "invalid" /\ ~inPlace /\ ConfigAnew(s, conf, io)
      \/ conf # "invalid" /\ inPlace /\ ConfigInPlace(s, replaced, io)

RestrictedUpdated ==
  /\ rops < MaxOps /\ rops' = rops + 1
  /\ \E conf \in {"restricted", "other", "invalid"}, modular, replaced \in BOOLEAN, io \in Failing(UpdateOperations) :
       /\ (replaced => modular) /\ (modular => conf # "invalid")   \* where it matters
       /\ ConfigUpdated(flushRestrictedDataLocked(store, io), conf, modular, replaced, io)
  /\ answer' = NoAnswer
  /\ UNCHANGED <<rdue, metadata, rn>>

\* OnConfigRemoved: what is in memory is written, the database is deleted.
RestrictedRemoved ==
  /\ rconf # "none" /\ rops < MaxOps /\ rops' = rops + 1
  /\ \E io \in Failing(UpdateOperations) :
       LET s == StartedAnew(flushRestrictedDataLocked(store, io))
       IN  store' = DbOfOldConfig(s, io) /\ stray' = (stray \/ LeavesDb(s, io))
  /\ rconf' = "none"
  /\ answer' = NoAnswer
  /\ UNCHANGED <<rdue, metadata, rn>>

\* statsCompanionServiceDied: the metadata is saved and every config is reset to the
\* saved one, which is no update in place.  The write is skipped within the cool-down.
resetRestricted ==
  /\ rconf = "restricted" /\ rops < MaxOps /\ rops' = rops + 1
  /\ \E wrote \in BOOLEAN, io \in Failing(UpdateOperations) :
       ConfigUpdated(IF wrote THEN flushRestrictedDataLocked(store, io) ELSE store,
                     "restricted", FALSE, FALSE, io)
  /\ metadata' = store.prod.cat /\ answer' = NoAnswer
  /\ UNCHANGED <<rdue, rn>>

\* Mutant of LoadMetadata: the category is not loaded.
LoadNoMetadata(saved) == UNKNOWN

LoadMetadata(saved) == saved

\* The process ends, after informDeviceShutdown or Terminate, each of whose writes may
\* be skipped within its cool-down, or by a crash, and Startup adds the saved config:
\* the one that ran, unless it was removed on disk just before.
RestrictedRestart ==
  /\ rops < MaxOps /\ rops' = rops + 1
  /\ \E wrote, saves, kept \in BOOLEAN, io \in Failing(RestartOperations) :
       LET f == IF wrote THEN flushRestrictedDataLocked(store, io) ELSE store
           saved == IF saves THEN store.prod.cat ELSE metadata
           loads == kept /\ rconf = "restricted"
       IN  /\ wrote \/ saves => kept
           /\ rconf' = IF kept THEN rconf ELSE "none"
           /\ store' = (IF loads THEN flushTtl(updateDeviceInfoTable(Started(f, LoadMetadata(saved), saved), io), io)
                        ELSE StartedAnew(f))
           /\ rdue' = (IF loads THEN AllDue \ {"ttl"} ELSE AllDue)
           /\ stray' = (stray \/ (f.db.file /\ ~loads))
  /\ metadata' = UNKNOWN /\ answer' = NoAnswer
  /\ UNCHANGED rn

OlderEvent(e) ==
  [id |-> e.id, cat |-> e.cat, schema |-> e.schema, age |-> IF e.age < RowTtl THEN e.age + 1 ELSE e.age]
OlderDb(db) ==
  IF db.file THEN Database(IF db.age <= MaxDbAge THEN db.age + 1 ELSE db.age, db.schema,
                           {OlderEvent(e) : e \in db.rows})
  ELSE db

RestrictedTick ==
  /\ store' = Store(Producer([i \in DOMAIN store.prod.events |-> OlderEvent(store.prod.events[i])],
                             store.prod.cat, store.prod.created),
                    OlderDb(store.db), store.gone, store.left)
  /\ rdue' = AllDue /\ answer' = NoAnswer
  /\ <<store, rdue, answer>>' # <<store, rdue, answer>>
  /\ UNCHANGED <<rconf, metadata, stray, rn, rops>>

RestrictedNext ==
  \/ RestrictedEvent \/ querySql \/ RestrictedUpdated \/ RestrictedRemoved
  \/ resetRestricted \/ RestrictedRestart \/ RestrictedTick

RestrictedSpec == RestrictedInit /\ [][RestrictedNext]_restrictedVars

-----------------------------------------------------------------------------
\* What is stored and what waits has the category the producer goes by, but for rows it
\* was not told of: those that a failed drop of the table left, and those of a category
\* that was not loaded when it started, after a crash, in place of a producer that had
\* not written since the start, or over a file whose removal failed.
OneCategory ==
  rconf = "restricted" =>
    \A e \in Rows(store) \union MemoryOf(store) : e.cat = store.prod.cat \/ e.id \in store.left

\* A query is never answered with an event as old as the time to live, not even one that
\* was still in memory, unless the deletion of old rows failed in this very query (querySql).
AnswerInTtl == answer.enforced => \A e \in answer.rows : e.age < RowTtl

\* There is a database only for a restricted config, unless the process died between the
\* removal of the config and that of the database, or the file could not be removed.
DbOnlyWhileRestricted == store.db.file => rconf = "restricted" \/ stray

\* An accepted event is in memory or in the database or was dropped for a reason: its
\* age, a change of category or schema, a limit, a failure of the database, the end of
\* the process, its config or its metric; it is in one place, and all rows have the
\* columns of the table.
RestrictedAccounted ==
  LET inMemory == Ids(MemoryOf(store))  inDb == Ids(Rows(store))
  IN  /\ 1 .. rn = inMemory \union inDb \union store.gone
      /\ inMemory \cap inDb = {} /\ store.gone \cap (inMemory \union inDb) = {}
      /\ \A e \in Rows(store) : e.schema = store.db.schema

\* Restricted data: rows of one category only, none older than its time to live
\* in an answer, no database without a restricted config, every event accounted
\* for, whatever fails but for the exceptions named above
\* (RestrictedEventMetricProducer, dbutils, StatsLogProcessor).
RestrictedDataSound == OneCategory /\ AnswerInTtl /\ DbOnlyWhileRestricted /\ RestrictedAccounted
=============================================================================
