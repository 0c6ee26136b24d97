------------------------------- MODULE UidMap -------------------------------
(***************************************************************************)
(* packages/UidMap.cpp: which apps are installed under which uid, and the  *)
(* changes that the reports of every config tell about.  The calls come    *)
(* from binder threads, with the time read before the lock is taken, and   *)
(* from StatsLogProcessor; each takes the lock once.                       *)
(*                                                                         *)
(* An app is a record of its uid and package.  A change record has its     *)
(* place in the list as its id: the list mChanges is the set of its        *)
(* records, its front the one with the smallest id.  The listener          *)
(* (StatsLogProcessor) is called after the lock is released; what it does, *)
(* splitting buckets, is in the modules of the metrics.                    *)
(***************************************************************************)
EXTENDS Integers, Sequences, FiniteSets

CONSTANTS
  Apps,                     \* [uid, package] records
  AppVersions,
  ReportConfigs,            \* config keys, numbers in the order of the keys
  OmitOptions,              \* UidMapOptions: omitSystemUids, omitUnusedUids, usedUids, allowlistedPackages
  IsolatedUids,
  kBytesChangeRecord, kMaxBytesUsedUidMap, kMaxDeletedAppsInUidMap,
  AID_USER_OFFSET, AID_APP_START, AID_APP_END,
  AID_SDK_SANDBOX_PROCESS_START, AID_PCC_COMPONENT_PROCESS_START,
  UidMaxCalls, UidMaxTime   \* bounds

ASSUME UidMapAssumption ==
  /\ ReportConfigs \subseteq Nat
  /\ \A a \in Apps : a.uid \in Int
  /\ {kBytesChangeRecord, kMaxDeletedAppsInUidMap} \subseteq Nat \ {0}
  /\ kMaxBytesUsedUidMap \in Nat
  /\ {UidMaxCalls, UidMaxTime} \subseteq Nat

VARIABLES
  mMap,                     \* app -> [version, deleted]
  mDeletedApps,             \* the deleted apps, oldest first
  mChanges, mBytesUsed,
  mLastUpdatePerConfigKey,  \* config -> time of its last report
  mIsolatedUidMap,          \* isolated uid -> uid
  uidNow, uidCalls,         \* elapsed realtime; calls so far
  appTruth,                 \* history: app -> version, of the apps said to be installed
  everRemoved,              \* history: apps that were removed once
  changesMade, dropped,     \* history: how many changes there were; those the limit dropped
  due, reported             \* history: config -> the changes it is to see; those it saw

uidVars == <<mMap, mDeletedApps, mChanges, mBytesUsed, mLastUpdatePerConfigKey, mIsolatedUidMap,
             uidNow, uidCalls, appTruth, everRemoved, changesMade, dropped, due, reported>>

changeLog == <<changesMade, dropped, due, reported>>

UidInit ==
  /\ mMap = [a \in {} |-> 0] /\ mDeletedApps = << >>
  /\ mChanges = {} /\ mBytesUsed = 0
  /\ mLastUpdatePerConfigKey = [k \in {} |-> 0] /\ mIsolatedUidMap = [u \in {} |-> 0]
  /\ uidNow = 1 /\ uidCalls = 0
  /\ appTruth = [a \in {} |-> 0] /\ everRemoved = {}
  /\ changesMade = 0 /\ dropped = {}
  /\ due = [k \in ReportConfigs |-> {}] /\ reported = [k \in ReportConfigs |-> {}]

UidCall == uidCalls < UidMaxCalls /\ uidCalls' = uidCalls + 1 /\ UNCHANGED uidNow

\* The time that a caller read before it got the lock.
CallTimes == {uidNow, uidNow - 1} \ {0}

UidTick ==
  /\ uidNow < UidMaxTime /\ uidNow' = uidNow + 1
  /\ UNCHANGED <<mMap, mDeletedApps, mChanges, mBytesUsed, mLastUpdatePerConfigKey,
                 mIsolatedUidMap, uidCalls, appTruth, everRemoved, changeLog>>

-----------------------------------------------------------------------------
(* The apps *)

AppData(v) == [version |-> v, deleted |-> FALSE]

hasApp(a) == a \in DOMAIN mMap /\ ~mMap[a].deleted

\* A full list of the installed apps.  An app of the list that is known as deleted
\* stays deleted; a deleted app that is not in the list is forgotten.
updateMap(list) ==
  /\ UidCall
  /\ mMap' = [a \in DOMAIN list |->
                IF a \in DOMAIN mMap /\ mMap[a].deleted THEN mMap[a] ELSE AppData(list[a])]
  /\ appTruth' = list
  /\ UNCHANGED <<mDeletedApps, mChanges, mBytesUsed, mLastUpdatePerConfigKey, mIsolatedUidMap,
                 everRemoved, changeLog>>

\* The record that ensureBytesUsedBelowLimit drops when one more is added: the loop
\* ends after one round, since every record adds the same number of bytes.
OverLimit(new) ==
  IF mBytesUsed + kBytesChangeRecord <= kMaxBytesUsedUidMap THEN {}
  ELSE {c \in mChanges \union {new} : \A d \in mChanges : c.id <= d.id}

\* One more change, and what the limit leaves of the list.
AddChange(a, deletion, t) ==
  LET new == [id |-> changesMade + 1, app |-> a, deletion |-> deletion, timestampNs |-> t]
      drop == OverLimit(new)
  IN  /\ mChanges' = (mChanges \union {new}) \ drop
      /\ mBytesUsed' = IF drop = {} THEN mBytesUsed + kBytesChangeRecord ELSE mBytesUsed
      /\ changesMade' = new.id /\ dropped' = dropped \union {c.id : c \in drop}
      /\ due' = [k \in ReportConfigs |->
                   IF k \in DOMAIN mLastUpdatePerConfigKey /\ mLastUpdatePerConfigKey[k] < t
                     THEN due[k] \union {new.id} ELSE due[k]]
      /\ UNCHANGED reported

updateApp(a, v, t) ==
  /\ UidCall
  /\ mMap' = [b \in DOMAIN mMap \union {a} |-> IF b = a THEN AppData(v) ELSE mMap[b]]
  /\ AddChange(a, FALSE, t)
  /\ appTruth' = [b \in DOMAIN appTruth \union {a} |-> IF b = a THEN v ELSE appTruth[b]]
  /\ UNCHANGED <<mDeletedApps, mLastUpdatePerConfigKey, mIsolatedUidMap, everRemoved>>

\* The oldest of too many deleted apps is erased from the map, whatever became of it.
removeApp(a, t) ==
  LET deleted == IF hasApp(a) THEN Append(mDeletedApps, a) ELSE mDeletedApps
      full == Len(deleted) > kMaxDeletedAppsInUidMap
      kept == IF full THEN DOMAIN mMap \ {Head(deleted)} ELSE DOMAIN mMap
  IN  /\ UidCall
      /\ mMap' = [b \in kept |-> IF b = a THEN [mMap[b] EXCEPT !.deleted = TRUE] ELSE mMap[b]]
      /\ mDeletedApps' = IF full THEN Tail(deleted) ELSE deleted
      /\ AddChange(a, TRUE, t)
      /\ appTruth' = [b \in DOMAIN appTruth \ {a} |-> appTruth[b]]
      /\ everRemoved' = everRemoved \union {a}
      /\ UNCHANGED <<mLastUpdatePerConfigKey, mIsolatedUidMap>>

assignIsolatedUid(u, host) ==
  /\ UidCall
  /\ mIsolatedUidMap' = [i \in DOMAIN mIsolatedUidMap \union {u} |->
                           IF i = u THEN host ELSE mIsolatedUidMap[i]]
  /\ UNCHANGED <<mMap, mDeletedApps, mChanges, mBytesUsed, mLastUpdatePerConfigKey, appTruth,
                 everRemoved, changeLog>>

removeIsolatedUid(u) ==
  /\ UidCall
  /\ mIsolatedUidMap' = [i \in DOMAIN mIsolatedUidMap \ {u} |-> mIsolatedUidMap[i]]
  /\ UNCHANGED <<mMap, mDeletedApps, mChanges, mBytesUsed, mLastUpdatePerConfigKey, appTruth,
                 everRemoved, changeLog>>

-----------------------------------------------------------------------------
(* Reports *)

\* Is the app left out of the report of a config with these options?
omitUid(a, options) ==
  LET appId == a.uid % AID_USER_OFFSET
      hosts == {a.uid, a.uid + AID_SDK_SANDBOX_PROCESS_START - AID_APP_START,
                a.uid + AID_PCC_COMPONENT_PROCESS_START - AID_APP_START}
      uids == IF a.uid >= 0 /\ appId \in AID_APP_START..AID_APP_END THEN hosts ELSE {a.uid}
  IN  /\ a.package \notin options.allowlistedPackages
      /\ \/ options.omitSystemUids /\ a.uid >= 0 /\ appId < AID_APP_START
         \/ options.omitUnusedUids /\ options.usedUids \intersect uids = {}

\* The earliest of the times of the last reports.  The loop takes 0 for no time yet:
\* a 0 on the way makes it forget the times before, but for a negative one.
getMinimumTimestampNs(last) ==
  LET counted == {k \in DOMAIN last : last[k] < 0 \/ \A j \in DOMAIN last : last[j] = 0 => j < k}
  IN  IF counted = {} THEN 0
      ELSE CHOOSE t \in {last[k] : k \in counted} : \A k \in counted : t <= last[k]

\* A report of config k at time t: the changes since its last one, then the list is
\* cut at the earliest last report of all configs.  Looking for a time that k does
\* not have yet makes it 0.
appendUidMap(k, t, options) ==
  LET written == {c \in mChanges : ~omitUid(c.app, options)}
      looked == IF k \in DOMAIN mLastUpdatePerConfigKey \/ written = {} THEN mLastUpdatePerConfigKey
                ELSE [j \in DOMAIN mLastUpdatePerConfigKey \union {k} |->
                        IF j = k THEN 0 ELSE mLastUpdatePerConfigKey[j]]
      since == IF k \in DOMAIN mLastUpdatePerConfigKey THEN mLastUpdatePerConfigKey[k] ELSE 0
      last == [j \in DOMAIN mLastUpdatePerConfigKey \union {k} |->
                 IF j = k THEN t ELSE mLastUpdatePerConfigKey[j]]
      newMin == getMinimumTimestampNs(last)
      cut == IF newMin > getMinimumTimestampNs(looked)
               THEN {c \in mChanges : c.timestampNs < newMin} ELSE {}
  IN  /\ UidCall
      /\ mLastUpdatePerConfigKey' = last
      /\ mChanges' = mChanges \ cut
      /\ mBytesUsed' = mBytesUsed - kBytesChangeRecord * Cardinality(cut)
      /\ reported' = [reported EXCEPT ![k] = @ \union {c.id : c \in {d \in written : d.timestampNs > since}}]
      /\ due' = [due EXCEPT ![k] = @ \ {c.id : c \in mChanges \ written}]
      /\ UNCHANGED <<mMap, mDeletedApps, mIsolatedUidMap, appTruth, everRemoved, changesMade, dropped>>

\* Mutant: a config that has no report yet has the time 0.
OnUidConfigUpdatedToZero(k) ==
  /\ UidCall
  /\ mLastUpdatePerConfigKey' = [j \in DOMAIN mLastUpdatePerConfigKey \union {k} |->
                                   IF j = k THEN 0 ELSE mLastUpdatePerConfigKey[j]]
  /\ UNCHANGED <<mMap, mDeletedApps, mChanges, mBytesUsed, mIsolatedUidMap, appTruth, everRemoved,
                 changeLog>>

\* The time -1 is before every report, and is not taken for no time yet.
OnUidConfigUpdated(k) ==
  /\ UidCall
  /\ mLastUpdatePerConfigKey' = [j \in DOMAIN mLastUpdatePerConfigKey \union {k} |->
                                   IF j = k THEN -1 ELSE mLastUpdatePerConfigKey[j]]
  /\ UNCHANGED <<mMap, mDeletedApps, mChanges, mBytesUsed, mIsolatedUidMap, appTruth, everRemoved,
                 changeLog>>

\* What the config was to see is forgotten.
OnUidConfigRemoved(k) ==
  /\ UidCall
  /\ mLastUpdatePerConfigKey' = [j \in DOMAIN mLastUpdatePerConfigKey \ {k} |->
                                   mLastUpdatePerConfigKey[j]]
  /\ due' = [due EXCEPT ![k] = {}] /\ reported' = [reported EXCEPT ![k] = {}]
  /\ UNCHANGED <<mMap, mDeletedApps, mChanges, mBytesUsed, mIsolatedUidMap, appTruth, everRemoved,
                 changesMade, dropped>>

UidNext ==
  \/ UidTick
  \/ \E S \in SUBSET Apps : \E list \in [S -> AppVersions] : updateMap(list)
  \/ \E a \in Apps, t \in CallTimes : (\E v \in AppVersions : updateApp(a, v, t)) \/ removeApp(a, t)
  \/ \E u \in IsolatedUids : (\E a \in Apps : assignIsolatedUid(u, a.uid)) \/ removeIsolatedUid(u)
  \/ \E k \in ReportConfigs : OnUidConfigUpdated(k) \/ OnUidConfigRemoved(k)
  \/ \E k \in ReportConfigs, t \in CallTimes, options \in OmitOptions : appendUidMap(k, t, options)

UidSpec == UidInit /\ [][UidNext]_uidVars

-----------------------------------------------------------------------------
UidTypeOK ==
  /\ DOMAIN mMap \subseteq Apps /\ mDeletedApps \in Seq(Apps)
  /\ \A a \in DOMAIN mMap : mMap[a] \in [version : AppVersions, deleted : BOOLEAN]
  /\ mChanges \subseteq [id : 1..changesMade, app : Apps, deletion : BOOLEAN, timestampNs : Nat \ {0}]
  /\ DOMAIN mLastUpdatePerConfigKey \subseteq ReportConfigs
  /\ \A k \in DOMAIN mLastUpdatePerConfigKey : mLastUpdatePerConfigKey[k] \in Nat \union {-1}
  /\ DOMAIN mIsolatedUidMap \subseteq IsolatedUids

\* The bytes are those of the records in the list, through drops at the limit and
\* cuts after reports, and stay below the limit (ensureBytesUsedBelowLimit, whose
\* loop would not end otherwise).
BytesMatchChanges ==
  /\ mBytesUsed = kBytesChangeRecord * Cardinality(mChanges)
  /\ mBytesUsed <= kMaxBytesUsedUidMap

\* Deleted apps are kept, but no more than kMaxDeletedAppsInUidMap of them.
DeletedApps == {a \in DOMAIN mMap : mMap[a].deleted}
DeletedAppsBounded ==
  /\ \A a \in DeletedApps : \E i \in DOMAIN mDeletedApps : mDeletedApps[i] = a
  /\ Len(mDeletedApps) <= kMaxDeletedAppsInUidMap

\* No app is taken for installed that is not, and one that never was removed is known
\* with its version.  (One that came back may be unknown: updateMap and removeApp go
\* by what was once deleted.)
AppsKnown ==
  /\ \A a \in Apps : hasApp(a) => a \in DOMAIN appTruth
  /\ \A a \in DOMAIN appTruth \ everRemoved : hasApp(a) /\ mMap[a].version = appTruth[a]

\* A change that a config has not seen reaches one of its reports, is in the list for
\* the next one, or was dropped at the limit: the cut at the earliest last report takes
\* nothing that another config still needs.  Not due is a change whose time is before
\* the last report, as when a report overtook the call that made it, and one that the
\* config's options left out of a report.
ChangesReachConfigs ==
  \A k \in DOMAIN mLastUpdatePerConfigKey : \A i \in due[k] :
    \/ i \in reported[k] \union dropped
    \/ \E c \in mChanges : c.id = i /\ c.timestampNs > mLastUpdatePerConfigKey[k]

\* The map of apps and the changes that reports tell about agree with what was said.
UidMapSound == UidTypeOK /\ BytesMatchChanges /\ DeletedAppsBounded /\ AppsKnown /\ ChangesReachConfigs
=============================================================================
