---------------------------- MODULE ReportStore ----------------------------
(***************************************************************************)
(* Configs and reports between the clients, memory and disk:               *)
(* config/ConfigManager.cpp (which configs there are, who receives their   *)
(* data), storage/StorageManager.cpp (the files of stats-service and       *)
(* stats-data), the parts of StatsLogProcessor.cpp that own the metrics    *)
(* managers, and the calls of StatsService.cpp that reach them.            *)
(*                                                                         *)
(* Data is a set of items, numbered as they are accepted.  Times are ages  *)
(* in seconds that stop at the last one the code tells apart, so that a    *)
(* behaviour may go on for ever.                                           *)
(* ConfigManager tells its listeners after it released its lock: `calls'   *)
(* holds what they have not been told yet.                                 *)
(***************************************************************************)
EXTENDS Integers, FiniteSets, Sequences, FiniteSetsExt, Functions, TLC

CONSTANTS
  KeyOrder,          \* the config keys, in the order of their file names
  Confs,             \* the configs a key may get: valid, persist (local history), noReport, ttl
  Initial,           \* the configs saved when the process starts
  kMaxConfigCountPerUid, kMaxFileNumber, kMaxFileSize,
  kMaxAge, kMaxLocalHistoryAge,
  TriggerBytes, MaxMetricsBytes,
  CoolDown,          \* WRITE_DATA_COOL_DOWN_SEC
  ByteSizePeriod, BroadcastPeriod, Ttl,
  Scenarios,         \* bound: the calls a behaviour is made of, how many of them, how
                     \* many items it has, and whether it is fair
  MaxCalls           \* bound: listener calls in flight

Keys == Range(KeyOrder)
Old == kMaxAge + 1

VARIABLES
  st,       \* files, processor and receivers (see Init)
  configs,  \* ConfigManager::mConfigs
  calls,    \* OnConfigUpdated and OnConfigRemoved calls that are still to run
  loading,  \* the configs read at startup that UpdateConfig has not been called for
  resetting,\* statsCompanionServiceDied wrote the data and has not reset the configs
  wiping,   \* cmd_remove_all_configs has not deleted the files
  filter,   \* LogEventFilter::getFilteringEnabled
  n,        \* items accepted
  ops,      \* calls made
  scenario  \* the scenario of this behaviour

vars == <<st, configs, calls, loading, resetting, wiping, filter, n, ops, scenario>>

NoProcess ==
  [managers |-> << >>,                       \* key -> its metrics manager
   lastWrite |-> CoolDown,                        \* ages of the last times
   lastBroadcast |-> [k \in Keys |-> BroadcastPeriod],
   lastByteSize |-> [k \in Keys |-> ByteSizePeriod],
   onDisk |-> {},                            \* mOnDiskDataConfigs
   receivers |-> [k \in Keys |-> "none"]]    \* mConfigReceivers

Init ==
  /\ st = NoProcess @@
          [service |-> {[age |-> 0, key |-> k, history |-> FALSE, conf |-> Initial[k]] :
                          k \in DOMAIN Initial},   \* saved configs
           data |-> {},                      \* report files
           owner |-> {}, again |-> {},       \* history: items the owner got, got again
           adb |-> {},                       \* history: items erased by an adb dump
           lost |-> {}, over |-> {},         \* history: items dropped, items overwritten
           announced |-> {},                 \* history: broadcast since the last file
           astray |-> {}, raced |-> {},     \* history: see RunningIsSaved
           wanted |-> DOMAIN Initial]        \* history: configs added and not removed
  /\ loading = {[key |-> k, conf |-> Initial[k]] : k \in DOMAIN Initial}
  /\ configs = {} /\ calls = {} /\ filter = TRUE
  /\ resetting = FALSE /\ wiping = FALSE /\ n = 0 /\ ops = 0
  /\ scenario \in Scenarios

-----------------------------------------------------------------------------
(* Files.                                                                  *)

\* The name of a file ends with the decimal digits of a uid.
EndsWith(uid, digits) ==
  \E e \in {10, 100, 1000} : e \div 10 <= digits /\ digits < e /\ uid % e = digits

\* The files whose names end with "uid_id".
Suffixed(files, k) == {f \in files : f.key.id = k.id /\ EndsWith(f.key.uid, k.uid)}

Position(k) == CHOOSE i \in DOMAIN KeyOrder : KeyOrder[i] = k

\* Mutant of sortFiles: only the age counts.
sortFilesByAge(f, g) ==
  \/ f.age < g.age
  \/ f.age = g.age /\ Position(f.key) > Position(g.key)

sortFiles(f, g) ==
  \/ ~f.history /\ g.history
  \/ f.history = g.history /\ f.age < g.age
  \/ f.history = g.history /\ f.age = g.age /\ Position(f.key) > Position(g.key)

Fits(number, bytes) == number <= kMaxFileNumber /\ bytes <= kMaxFileSize

\* Without the files that are too old, then without the last ones in the order of
\* sortFiles until number and bytes fit; bytes has the size of each file.
trimToFit(files, bytes) ==
  LET young == {f \in files : f.age <= kMaxAge /\ (f.history => f.age <= kMaxLocalHistoryAge)}
      upTo(f) == {g \in young : g = f \/ sortFiles(g, f)}
  IN  {f \in young : Fits(Cardinality(upTo(f)), MapThenSumSet(LAMBDA g : bytes[g], upTo(f)))}

Items(files) == UNION {f.items : f \in files}
Undelivered(files) == Items({f \in files : ~f.history})

\* writeFile of the report f: the file is opened, both directories are trimmed,
\* then it is written.
writeFile(s, f) ==
  LET same == {g \in s.data : g.age = 0 /\ g.key = f.key /\ g.history = f.history}
      open == (s.data \ same) \union {f}
      data == trimToFit(open, [g \in open |-> IF g = f THEN 0 ELSE Cardinality(g.items)])
      service == trimToFit(s.service, [g \in s.service |-> 1])
  IN  [s EXCEPT !.data = data, !.service = service,
                !.over = @ \union Items(same),
                !.lost = @ \union Undelivered(open \ data),
                !.astray = @ \union {g.key : g \in s.service \ service}]

\* Mutant of update_saved_configs: the file is deleted after the new one is written.
update_saved_deleted(s, k, c) == [s EXCEPT !.service = @ \ Suffixed(@, k)]

\* update_saved_configs_locked
update_saved_configs(s, k, c) ==
  LET f == [age |-> 0, key |-> k, history |-> FALSE, conf |-> c]
      open == (s.service \ Suffixed(s.service, k)) \union {f}
      service == trimToFit(open, [g \in open |-> IF g = f THEN 0 ELSE 1])
      data == trimToFit(s.data, [g \in s.data |-> Cardinality(g.items)])
  IN  [s EXCEPT !.service = service, !.data = data,
                !.lost = @ \union Undelivered(s.data \ data),
                !.astray = (@ \ {k}) \union {g.key : g \in open \ service}]

\* readConfigFromDisk(key): the first matching file of the directory.
readConfigFromDisk(s, k) ==
  IF Suffixed(s.service, k) = {} THEN << >>
  ELSE <<(CHOOSE f \in Suffixed(s.service, k) : TRUE).conf>>

hasIdenticalConfig(s, k, c) == readConfigFromDisk(s, k) = <<c>>

hasConfigMetricsReport(s, k) == \E f \in Suffixed(s.data, k) : ~f.history

-----------------------------------------------------------------------------
(* The processor.                                                          *)

Put(f, k, v) == [j \in DOMAIN f \union {k} |-> IF j = k THEN v ELSE f[j]]
Without(f, k) == [j \in DOMAIN f \ {k} |-> f[j]]

\* WriteDataToDiskLocked(key)
WriteDataToDiskLocked(s, k) ==
  IF k \notin DOMAIN s.managers \/ s.managers[k].conf.noReport THEN s
  ELSE [writeFile(s, [age |-> 0, key |-> k, history |-> FALSE, items |-> s.managers[k].items])
          EXCEPT !.managers[k].items = {}, !.onDisk = @ \union {k}, !.announced = @ \ {k}]

\* WriteDataToDiskLocked() of all configs, but not within the cool-down.
WriteAllDataToDiskLocked(s) ==
  IF s.lastWrite < CoolDown THEN s
  ELSE FoldSet(LAMBDA k, x : WriteDataToDiskLocked(x, k), [s EXCEPT !.lastWrite = 0],
               DOMAIN s.managers)

\* OnConfigUpdatedLocked: a new metrics manager, or the old one updated in place.
OnConfigUpdatedLocked(s, k, c) ==
  [s EXCEPT !.managers = IF c.valid THEN Put(@, k, [conf |-> c, items |-> {}, age |-> IF c.ttl THEN 0 ELSE Ttl])
                         ELSE Without(@, k)]

\* Mutant of OnConfigUpdated: the data is not written first.
OnConfigUpdatedNoWrite(s, k, c) == OnConfigUpdatedLocked(s, k, c)

OnConfigUpdated(s, k, c) == OnConfigUpdatedLocked(WriteDataToDiskLocked(s, k), k, c)

OnConfigRemoved(s, k) ==
  [WriteDataToDiskLocked(s, k) EXCEPT
     !.managers = Without(@, k), !.lastBroadcast[k] = BroadcastPeriod, !.lastByteSize[k] = ByteSizePeriod]

\* Data that has not been written goes with the old metrics manager.
resetConfigsLocked(s, ks) ==
  FoldSet(LAMBDA k, x :
            LET saved == readConfigFromDisk(x, k)
            IN  IF saved # << >>
                  THEN [OnConfigUpdatedLocked(x, k, saved[1]) EXCEPT
                          !.lost = @ \union x.managers[k].items]
                  ELSE [x EXCEPT !.managers[k].age = IF x.managers[k].conf.ttl THEN 0 ELSE @],
          s, ks)

resetIfConfigTtlExpiredLocked(s) ==
  LET expired == {k \in DOMAIN s.managers : s.managers[k].conf.ttl /\ s.managers[k].age >= Ttl}
  IN  IF expired = {} THEN s ELSE resetConfigsLocked(WriteAllDataToDiskLocked(s), expired)

\* mSendBroadcast: a receiver whose process died is removed.
sendBroadcast(s, k) ==
  CASE s.receivers[k] = "alive" ->
         [s EXCEPT !.onDisk = @ \ {k}, !.lastBroadcast[k] = 0, !.announced = @ \union {k}]
    [] s.receivers[k] = "dead" -> [s EXCEPT !.receivers[k] = "none"]
    [] OTHER -> s

\* Mutant of flushIfNecessaryLocked: data on disk does not ask for a broadcast.
flushIfNecessaryMemoryOnly(s, k) ==
  LET totalBytes == Cardinality(s.managers[k].items)
      x == [s EXCEPT !.lastByteSize[k] = 0]
  IN  CASE s.lastByteSize[k] < ByteSizePeriod -> s
        [] s.lastByteSize[k] >= ByteSizePeriod /\ totalBytes > MaxMetricsBytes ->
             [x EXCEPT !.managers[k].items = {}, !.lost = @ \union s.managers[k].items]
        [] /\ s.lastByteSize[k] >= ByteSizePeriod /\ totalBytes <= MaxMetricsBytes
           /\ totalBytes > TriggerBytes
           /\ s.lastBroadcast[k] >= BroadcastPeriod -> sendBroadcast(x, k)
        [] OTHER -> x

flushIfNecessaryLocked(s, k) ==
  LET totalBytes == Cardinality(s.managers[k].items)
      x == [s EXCEPT !.lastByteSize[k] = 0]
  IN  CASE s.lastByteSize[k] < ByteSizePeriod -> s
        [] s.lastByteSize[k] >= ByteSizePeriod /\ totalBytes > MaxMetricsBytes ->
             [x EXCEPT !.managers[k].items = {}, !.lost = @ \union s.managers[k].items]
        [] /\ s.lastByteSize[k] >= ByteSizePeriod /\ totalBytes <= MaxMetricsBytes
           /\ totalBytes > TriggerBytes \/ k \in s.onDisk
           /\ s.lastBroadcast[k] >= BroadcastPeriod -> sendBroadcast(x, k)
        [] OTHER -> x

\* The owner's files are renamed as history; a history file of that name is gone.
Renamed(files) ==
  {[f EXCEPT !.history = TRUE] : f \in files}

appendConfigMetricsReport(s, k, erase, isAdb) ==
  LET mine == {f \in s.data : f.key = k /\ (f.history => isAdb)}
      renamed == Renamed(mine)
      same == {g \in s.data \ mine : \E f \in renamed :
                 g.age = f.age /\ g.key = f.key /\ g.history = f.history}
  IN  CASE erase -> [s EXCEPT !.data = @ \ mine]
        [] ~erase /\ ~isAdb -> [s EXCEPT !.data = ((@ \ mine) \ same) \union renamed,
                                         !.over = @ \union Items(same)]
        [] OTHER -> s

\* onConfigMetricsReportLocked for a report that is not saved on disk; closed are
\* the items of the buckets that are full.
onConfigMetricsReportLocked(s, k, closed, erase) ==
  LET x == [s EXCEPT !.managers[k].items = @ \ closed]
  IN  IF ~erase THEN s
      ELSE IF s.managers[k].conf.persist
        THEN writeFile(x, [age |-> 0, key |-> k, history |-> TRUE, items |-> closed])
      ELSE x

onDumpReport(s, k, closed, erase, isAdb) ==
  LET running == k \in DOMAIN s.managers
      keepFile == running /\ s.managers[k].conf.persist
      x == appendConfigMetricsReport(s, k, erase /\ ~keepFile, isAdb)
  IN  IF ~running THEN x
      ELSE onConfigMetricsReportLocked([x EXCEPT !.lastBroadcast[k] = BroadcastPeriod],
                                       k, closed, erase)

-----------------------------------------------------------------------------
(* Calls of clients and of the system.                                     *)

Op(name) == name \in scenario.calls /\ ops < scenario.ops /\ ops' = ops + 1

Call(kind, k, c, restore) == [kind |-> kind, key |-> k, conf |-> c, restore |-> restore]

\* A listener call joins the ones in flight; two for one key race.
Tell(s, new) ==
  /\ Cardinality(calls \union new) <= MaxCalls
  /\ calls' = calls \union new
  /\ st' = [s EXCEPT !.raced = @ \union {c.key : c \in {c \in new : \E d \in calls : d.key = c.key}}]

\* What of UpdateConfig runs under the lock of ConfigManager.
UpdateConfig(k, c, restore) ==
  LET ofUid == {j \in configs : j.uid = k.uid}
      s == [update_saved_configs(st, k, c) EXCEPT !.wanted = @ \union {k}]
      refused == k \notin configs /\ Cardinality(ofUid) >= kMaxConfigCountPerUid
      duplicate == k \in configs /\ hasIdenticalConfig(st, k, c)
  IN  \/ /\ refused
         /\ st' = [st EXCEPT !.wanted = @ \ {k}, !.astray = @ \union {k}]
         /\ UNCHANGED <<configs, calls, filter>>
      \/ ~refused /\ duplicate /\ st' = s /\ UNCHANGED <<configs, calls, filter>>
      \/ /\ ~refused /\ ~duplicate
         /\ configs' = configs \union {k}
         /\ filter' = (restore = "none" /\ filter)
         /\ Tell(s, {Call("updated", k, c, restore)})

\* addConfigurationChecked: the filter is off until the listeners have been told.
addConfiguration ==
  /\ Op("addConfiguration")
  /\ \E k \in Keys : \E c \in Confs[k] : UpdateConfig(k, c, IF filter THEN "on" ELSE "off")
  /\ UNCHANGED <<loading, resetting, wiping, n, scenario>>

\* ConfigManager::Startup after it read the files.
Startup ==
  /\ \E l \in loading : UpdateConfig(l.key, l.conf, "none") /\ loading' = loading \ {l}
  /\ UNCHANGED <<resetting, wiping, n, ops, scenario>>

\* RemoveConfig, or RemoveConfigs of a uid.
RemoveKeys(ks) ==
  LET files == UNION {Suffixed(st.service, k) : k \in ks}
  IN  /\ configs' = configs \ ks
      /\ Tell([st EXCEPT !.service = @ \ files, !.wanted = @ \ ks],
              {Call("removed", k, << >>, "none") : k \in ks \intersect configs})

removeConfiguration ==
  /\ Op("removeConfiguration")
  /\ \E k \in Keys : RemoveKeys({k})
  /\ UNCHANGED <<loading, resetting, wiping, filter, n, scenario>>

informOnePackageRemoved ==
  /\ Op("informOnePackageRemoved")
  /\ \E k \in configs : RemoveKeys({j \in configs : j.uid = k.uid})
  /\ UNCHANGED <<loading, resetting, wiping, filter, n, scenario>>

\* RemoveAllConfigs leaves the files; the command deletes them when all have been told.
cmd_remove_all_configs ==
  /\ Op("cmd_remove_all_configs") /\ ~wiping
  /\ configs' = {} /\ wiping' = TRUE
  /\ Tell([st EXCEPT !.wanted = {}], {Call("removed", k, << >>, "none") : k \in configs})
  /\ UNCHANGED <<loading, resetting, filter, n, scenario>>

deleteAllFiles ==
  /\ wiping /\ \A c \in calls : c.kind # "removed"
  /\ wiping' = FALSE
  /\ st' = [st EXCEPT !.service = {}, !.astray = @ \union {f.key : f \in st.service}]
  /\ UNCHANGED <<configs, calls, loading, resetting, filter, n, ops, scenario>>

\* The listener's turn; addConfigurationChecked then restores the filter.
ConfigListener ==
  /\ \E c \in calls :
       /\ calls' = calls \ {c}
       /\ st' = IF c.kind = "updated" THEN OnConfigUpdated(st, c.key, c.conf)
                ELSE OnConfigRemoved(st, c.key)
       /\ filter' = IF c.restore = "none" THEN filter ELSE c.restore = "on"
  /\ UNCHANGED <<configs, loading, resetting, wiping, n, ops, scenario>>

setDataFetchOperation ==
  /\ Op("setDataFetchOperation")
  /\ \E k \in Keys :
       st' = [st EXCEPT !.receivers[k] = "alive",
                        !.onDisk = IF hasConfigMetricsReport(st, k) THEN @ \union {k} ELSE @]
  /\ UNCHANGED <<configs, calls, loading, resetting, wiping, filter, n, scenario>>

\* removeDataFetchOperation, or the process of the receiver dies.
ReceiverGone ==
  /\ Op("ReceiverGone")
  /\ \E k \in Keys, to \in {"none", "dead"} :
       st.receivers[k] = "alive" /\ st' = [st EXCEPT !.receivers[k] = to]
  /\ UNCHANGED <<configs, calls, loading, resetting, wiping, filter, n, scenario>>

InMemory(s) == UNION {s.managers[k].items : k \in DOMAIN s.managers}

\* What a report may take from memory: the current bucket is over or not.
Closed(k) == {{}} \union {st.managers[j].items : j \in {k} \intersect DOMAIN st.managers}

\* getDataChecked
getData ==
  /\ Op("getData")
  /\ \E k \in Keys :
     \E closed \in Closed(k) :
       LET got == closed \union Undelivered({f \in st.data : f.key = k})
       IN  st' = [onDumpReport(st, k, closed, TRUE, FALSE) EXCEPT
                    !.owner = @ \union got, !.again = @ \union (got \intersect st.owner)]
  /\ UNCHANGED <<configs, calls, loading, resetting, wiping, filter, n, scenario>>

\* cmd_dump_report and dumpIncidentSection.
DumpForAdb ==
  /\ Op("DumpForAdb")
  /\ \E k \in Keys, erase \in BOOLEAN :
     \E closed \in Closed(k) :
       LET x == onDumpReport(st, k, closed, erase, TRUE)
           taken == (InMemory(st) \union Undelivered(st.data))
                      \ (InMemory(x) \union Undelivered(x.data) \union x.lost \union x.over)
       IN  st' = [x EXCEPT !.adb = @ \union taken]
  /\ UNCHANGED <<configs, calls, loading, resetting, wiping, filter, n, scenario>>

\* informDeviceShutdown, or Terminate on SIGTERM.
WriteDataToDisk ==
  /\ Op("WriteDataToDisk")
  /\ st' = WriteAllDataToDiskLocked(st)
  /\ UNCHANGED <<configs, calls, loading, resetting, wiping, filter, n, scenario>>

\* statsCompanionServiceDiedImpl takes the lock to write and again to reset.
statsCompanionServiceDied ==
  /\ Op("statsCompanionServiceDied") /\ ~resetting
  /\ resetting' = TRUE
  /\ st' = WriteAllDataToDiskLocked(st)
  /\ UNCHANGED <<configs, calls, loading, wiping, filter, n, scenario>>

resetConfigs ==
  /\ resetting
  /\ resetting' = FALSE
  /\ st' = resetConfigsLocked(st, DOMAIN st.managers)
  /\ UNCHANGED <<configs, calls, loading, wiping, filter, n, ops, scenario>>

\* OnLogEvent with an event that is data for at most one config.
OnLogEvent ==
  /\ \E to \in {{}} \union {{k} : k \in DOMAIN st.managers} :
       LET s == resetIfConfigTtlExpiredLocked(st)
           ks == {k \in to \intersect DOMAIN s.managers : ~s.managers[k].conf.noReport}
           x == [s EXCEPT !.managers = [k \in DOMAIN @ |->
                   IF k \in ks THEN [@[k] EXCEPT !.items = @ \union {n + 1}] ELSE @[k]]]
       IN  /\ ks # {} => n < scenario.items
           /\ n' = n + Cardinality(ks)
           /\ st' = FoldSet(LAMBDA k, y : flushIfNecessaryLocked(y, k), x, DOMAIN x.managers)
  /\ UNCHANGED <<configs, calls, loading, resetting, wiping, filter, ops, scenario>>

\* The process dies and starts again; with torn, in update_saved_configs_locked
\* between deleting a config's file and writing it.
Restart ==
  /\ Op("Restart")
  /\ \E torn \in {{}} \union {{k} : k \in configs} :
       LET kept == st.service \ UNION {Suffixed(st.service, k) : k \in torn}
           service == trimToFit(kept, [g \in kept |-> 1])
           gone == torn \union st.astray \union {f.key : f \in kept \ service}
       IN  /\ st' = NoProcess @@
                    [st EXCEPT !.service = service, !.lost = @ \union InMemory(st),
                               !.announced = {}, !.astray = {}, !.raced = {},
                               !.wanted = @ \ gone]
           /\ loading' = {[key |-> f.key, conf |-> f.conf] : f \in service}
  /\ configs' = {} /\ calls' = {} /\ filter' = TRUE /\ resetting' = FALSE /\ wiping' = FALSE
  /\ UNCHANGED <<n, scenario>>

Older(a, end) == IF a < end THEN a + 1 ELSE end

Tick ==
  /\ st' = [st EXCEPT
       !.service = {[f EXCEPT !.age = Older(@, Old)] : f \in @},
       !.data = {[f EXCEPT !.age = Older(@, Old)] : f \in @},
       !.managers = [k \in DOMAIN @ |-> [@[k] EXCEPT !.age = Older(@, Ttl)]],
       !.lastWrite = Older(@, CoolDown),
       !.lastBroadcast = [k \in Keys |-> Older(@[k], BroadcastPeriod)],
       !.lastByteSize = [k \in Keys |-> Older(@[k], ByteSizePeriod)]]
  /\ UNCHANGED <<configs, calls, loading, resetting, wiping, filter, n, ops, scenario>>

Next ==
  \/ addConfiguration \/ Startup \/ removeConfiguration \/ informOnePackageRemoved
  \/ cmd_remove_all_configs \/ deleteAllFiles \/ ConfigListener
  \/ setDataFetchOperation \/ ReceiverGone \/ getData \/ DumpForAdb
  \/ WriteDataToDisk \/ statsCompanionServiceDied \/ resetConfigs
  \/ OnLogEvent \/ Restart \/ Tick

\* Events keep coming and time passes, where a scenario needs it.
Fairness ==
  /\ WF_vars(scenario.fair /\ OnLogEvent)
  /\ WF_vars(scenario.fair /\ Tick)

Spec == Init /\ [][Next]_vars /\ Fairness

-----------------------------------------------------------------------------
(* Properties.                                                             *)

TypeOK ==
  /\ DOMAIN st.managers \subseteq Keys
  /\ \A k \in DOMAIN st.managers :
       st.managers[k].items \subseteq 1 .. n /\ st.managers[k].conf \in Confs[k]
  /\ \A f \in st.data : f.key \in Keys /\ f.age \in 0 .. Old /\ f.items \subseteq 1 .. n
  /\ \A f \in st.service : f.key \in Keys /\ f.age \in 0 .. Old /\ f.conf \in Confs[f.key]
  /\ configs \subseteq Keys /\ n \in 0 .. scenario.items /\ ops \in 0 .. scenario.ops

\* An item that was accepted is in memory, in one report file that was not yet
\* handed out, with its owner, or lost in one of the ways the code accepts: dropped
\* over the size limit, trimmed, overwritten, in a crash, or in a reset that had
\* not written it.  An update or removal of a config, a report and a rename of a
\* file lose nothing.
NoSilentLoss ==
  1 .. n = InMemory(st) \union Undelivered(st.data)
             \union st.owner \union st.adb \union st.lost \union st.over

\* The owner never gets an item in two reports: what getData handed out is erased
\* or kept as history only (appendConfigMetricsReport).
DeliveredOnce == st.again = {}

\* What waits on disk for an owner who set a receiver will be announced: the config
\* is noted in mOnDiskDataConfigs or a broadcast was sent after the last file.
OnDiskAnnounced ==
  \A k \in Keys : (st.receivers[k] # "none" /\ \E f \in st.data : f.key = k /\ ~f.history)
                    => k \in st.onDisk \union st.announced

\* Once the listeners have been told, the running configs are the saved ones that
\* are valid, unless two calls for a key were in flight at once, the guardrail
\* refused it, or its file was trimmed or deleted by cmd_remove_all_configs.
RunningIsSaved ==
  calls = {} /\ ~wiping => \A k \in Keys \ (st.raced \union st.astray) :
    LET saved == {f \in st.service : f.key = k}
    IN  IF k \in DOMAIN st.managers THEN {f.conf : f \in saved} = {st.managers[k].conf}
        ELSE \A f \in saved : ~f.conf.valid \/ \E l \in loading : l.key = k

\* A config that was added and not removed is there after restarts, unless its file
\* was trimmed, the process died while saving it, or the guardrail refused it
\* because a config was added before Startup came to it.
ConfigsSurvive == st.wanted \subseteq configs \union {l.key : l \in loading}

\* There are never more files than the limit, counting the one being written.
FilesBounded == Cardinality(st.data) <= kMaxFileNumber /\ Cardinality(st.service) <= kMaxFileNumber

\* A report nobody has fetched is not deleted to make room while there is local
\* history to delete (sortFiles).
HistoryTrimmedFirst ==
  [][\A f \in st.data : (/\ ~f.history /\ f.age <= kMaxAge /\ f.items # {}
                         /\ f.items \subseteq st'.lost \ st.lost)
                          => \A g \in st'.data : ~g.history]_vars

\* Data on disk whose config is running is announced to its receiver.
AnnouncementDue(k) ==
  /\ k \in DOMAIN st.managers /\ st.receivers[k] = "alive" /\ k \notin st.announced
  /\ \E f \in st.data : f.key = k /\ ~f.history

\* A report on disk does not wait for ever for its broadcast.
DataAnnounced ==
  \A k \in Keys : scenario.fair /\ AnnouncementDue(k) ~> ~AnnouncementDue(k)

-----------------------------------------------------------------------------

\* "There can be at most one file that matches this suffix (config key)."
\* (readConfigFromDisk).
OneFilePerSuffix == \A k \in Keys : Cardinality(Suffixed(st.service, k)) <= 1

\* Collected data reach their owner once or are lost in a way the code accepts;
\* what waits on disk is going to be announced, and the files stay within their
\* limit (WriteDataToDisk, appendConfigMetricsReport, trimToFit).
ReportsKept == TypeOK /\ NoSilentLoss /\ DeliveredOnce /\ OnDiskAnnounced /\ FilesBounded

\* Configs in memory, on disk and in the processor agree, across restarts
\* (ConfigManager, Startup).
ConfigsKept == RunningIsSaved /\ ConfigsSurvive
=============================================================================
