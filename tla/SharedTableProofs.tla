------------------------- MODULE SharedTableProofs --------------------------
(***************************************************************************)
(* The two tables that the configs share, UidMap and StateTracker.         *)
(*                                                                         *)
(* UidMapSound is for every set of apps, versions, configs and options,    *)
(* and for every limit. The three parts of the inductive invariant are     *)
(* about the list of changes, the map of apps and the reports; the last    *)
(* one needs the types of the first.                                       *)
(*                                                                         *)
(* StatesHeard is for every set of atoms, keys, state values and           *)
(* listeners. The invariant is inductive as it is, with the maps known to  *)
(* be functions.                                                           *)
(***************************************************************************)
EXTENDS UidMap, StateTracker, FiniteSetTheorems, WellFoundedInduction, TLAPS

\* The list of changes, its bytes, and the log of all changes.  Ids tell records apart,
\* so that one record is the oldest.
ChangesInv ==
  /\ uidNow \in Nat \ {0}
  /\ changesMade \in Nat /\ dropped \subseteq Nat
  /\ due \in [ReportConfigs -> SUBSET Nat] /\ reported \in [ReportConfigs -> SUBSET Nat]
  /\ mChanges \subseteq [id : 1..changesMade, app : Apps, deletion : BOOLEAN, timestampNs : Nat \ {0}]
  /\ IsFiniteSet(mChanges)
  /\ \A c, d \in mChanges : c.id = d.id => c = d
  /\ BytesMatchChanges

\* The map of apps: deleted apps, and those that wait to be erased, were removed once.
AppsInv ==
  /\ DOMAIN mMap \subseteq Apps /\ mDeletedApps \in Seq(Apps)
  /\ mMap = [a \in DOMAIN mMap |-> mMap[a]]
  /\ \A a \in DOMAIN mMap : mMap[a] \in [version : AppVersions, deleted : BOOLEAN]
  /\ DOMAIN mIsolatedUidMap \subseteq IsolatedUids
  /\ appTruth = [a \in DOMAIN appTruth |-> appTruth[a]]
  /\ DOMAIN appTruth \subseteq Apps
  /\ DeletedApps \subseteq everRemoved
  /\ \A i \in 1..Len(mDeletedApps) : mDeletedApps[i] \in everRemoved
  /\ DeletedAppsBounded /\ AppsKnown

\* The reports: no config has the time 0, which the loop of getMinimumTimestampNs takes
\* for none, and nothing is due to a config that is not known.
ReportsInv ==
  /\ DOMAIN mLastUpdatePerConfigKey \subseteq ReportConfigs
  /\ \A k \in DOMAIN mLastUpdatePerConfigKey :
       mLastUpdatePerConfigKey[k] \in (Nat \ {0}) \union {-1}
  /\ \A k \in ReportConfigs \ DOMAIN mLastUpdatePerConfigKey : due[k] = {}
  /\ ChangesReachConfigs

-----------------------------------------------------------------------------
\* A nonempty set of naturals has a smallest member.
LEMMA NatSmallest ==
  ASSUME NEW T, T \subseteq Nat, T # {}
  PROVE  \E x \in T : \A y \in T : x <= y
<1>1. PICK x \in T : \A y \in T : ~ (<<y, x>> \in OpToRel(<, Nat))
  BY NatLessThanWellFounded, WFMin, Zenon
<1>2. ASSUME NEW y \in T
      PROVE  x <= y
  <2>1. ~(y < x)
    BY <1>1 DEF OpToRel
  <2> QED
    BY <2>1
<1> QED
  BY <1>2

\* The earliest time is at most the time of every config, if none is 0.
LEMMA MinimumIsLowest ==
  ASSUME NEW last, DOMAIN last \subseteq Nat,
         \A k \in DOMAIN last : last[k] \in (Nat \ {0}) \union {-1}
  PROVE  \A k \in DOMAIN last : /\ getMinimumTimestampNs(last) \in Int
                                /\ getMinimumTimestampNs(last) <= last[k]
<1> SUFFICES ASSUME NEW k0 \in DOMAIN last
             PROVE  /\ getMinimumTimestampNs(last) \in Int
                    /\ getMinimumTimestampNs(last) <= last[k0]
  OBVIOUS
<1> DEFINE counted == {k \in DOMAIN last : last[k] < 0 \/ \A j \in DOMAIN last : last[j] = 0 => j < k}
           T == {last[k] + 1 : k \in counted}
<1>1. counted = DOMAIN last
  OBVIOUS
<1>2. T \subseteq Nat /\ T # {}
  BY <1>1
<1>3. PICK x \in T : \A y \in T : x <= y
  BY <1>2, NatSmallest
<1>4. PICK k1 \in counted : x = last[k1] + 1
  BY <1>3
<1>5. \A k \in counted : last[k1] <= last[k]
  <2> SUFFICES ASSUME NEW k \in counted
               PROVE  last[k1] <= last[k]
    OBVIOUS
  <2>1. last[k] + 1 \in T /\ x <= last[k] + 1
    BY <1>3
  <2> QED
    BY <2>1, <1>4, <1>1
<1>6. \E t \in {last[k] : k \in counted} : \A k \in counted : t <= last[k]
  BY <1>4, <1>5
<1>7. getMinimumTimestampNs(last) = CHOOSE t \in {last[k] : k \in counted} : \A k \in counted : t <= last[k]
  BY <1>1 DEF getMinimumTimestampNs
<1>8. /\ getMinimumTimestampNs(last) \in {last[k] : k \in counted}
      /\ \A k \in counted : getMinimumTimestampNs(last) <= last[k]
  <2> HIDE DEF counted
  <2> QED
    BY <1>6, <1>7, Zenon
<1> QED
  BY <1>1, <1>8

\* One more change costs one more record of bytes.
LEMMA TimesNext == ASSUME NEW a \in Nat, NEW b \in Nat PROVE a * b + a = a * (b + 1)
  BY SMT

\* Dropping changes gives back a record of bytes for each.
LEMMA TimesDifference ==
  ASSUME NEW a \in Nat, NEW b \in Nat, NEW c \in Nat
  PROVE  a * b - a * c = a * (b - c)
  BY SMT

\* Every call carries a positive timestamp.
LEMMA CallTimesPositive == ChangesInv => CallTimes \subseteq Nat \ {0}
  BY DEF ChangesInv, CallTimes

-----------------------------------------------------------------------------
(* The list of changes *)

\* Recording a change, with the drop over the limit, keeps the byte count exact.
LEMMA AddChangeInv ==
  ASSUME ChangesInv, NEW a \in Apps, NEW deletion \in BOOLEAN, NEW t \in Nat \ {0},
         AddChange(a, deletion, t), UNCHANGED uidNow
  PROVE  ChangesInv'
<1> DEFINE new == [id |-> changesMade + 1, app |-> a, deletion |-> deletion, timestampNs |-> t]
           all == mChanges \union {new}
           drop == OverLimit(new)
<1> USE UidMapAssumption
<1>1. /\ mChanges' = all \ drop
      /\ mBytesUsed' = IF drop = {} THEN mBytesUsed + kBytesChangeRecord ELSE mBytesUsed
  BY DEF AddChange
<1>2. changesMade' = changesMade + 1 /\ changesMade \in Nat
  BY DEF AddChange, ChangesInv
<1>3. /\ dropped' \subseteq Nat
      /\ due' \in [ReportConfigs -> SUBSET Nat] /\ reported' \in [ReportConfigs -> SUBSET Nat]
  <2>1. drop \subseteq all
    BY DEF OverLimit
  <2>2. {c.id : c \in drop} \subseteq Nat
    BY <2>1 DEF ChangesInv
  <2>3. dropped' = dropped \union {c.id : c \in drop}
    BY DEF AddChange
  <2>4. due' \in [ReportConfigs -> SUBSET Nat] /\ reported' = reported
    BY <1>2 DEF AddChange, ChangesInv
  <2> HIDE DEF drop
  <2> QED
    BY <2>2, <2>3, <2>4 DEF ChangesInv
<1>4. new \notin mChanges /\ \A c \in mChanges : c.id \in Nat /\ c.id < new.id
  BY DEF ChangesInv
<1>5. all \subseteq [id : 1..changesMade', app : Apps, deletion : BOOLEAN, timestampNs : Nat \ {0}]
  BY <1>2 DEF ChangesInv
<1>6. \A c, d \in all : c.id = d.id => c = d
  BY <1>4 DEF ChangesInv
<1>7. IsFiniteSet(mChanges) /\ Cardinality(mChanges) \in Nat
  BY FS_CardinalityType DEF ChangesInv
<1>8. IsFiniteSet(all) /\ Cardinality(all) = Cardinality(mChanges) + 1
  BY <1>4, <1>7, FS_AddElement, Zenon
<1>9. IsFiniteSet(all \ drop)
  BY <1>8, FS_Subset, Zenon
<1>10. BytesMatchChanges'
  <2>1. /\ mBytesUsed = kBytesChangeRecord * Cardinality(mChanges)
        /\ mBytesUsed <= kMaxBytesUsedUidMap /\ mBytesUsed \in Nat
    BY <1>7 DEF ChangesInv, BytesMatchChanges
  <2>2. CASE mBytesUsed + kBytesChangeRecord <= kMaxBytesUsedUidMap
    <3>1. drop = {}
      BY <2>2 DEF OverLimit
    <3>2. mChanges' = all /\ mBytesUsed' = mBytesUsed + kBytesChangeRecord
      BY <3>1, <1>1
    <3>3. mBytesUsed' = kBytesChangeRecord * Cardinality(mChanges')
      BY <3>2, <2>1, <1>7, <1>8, TimesNext
    <3> QED
      BY <3>2, <3>3, <2>2 DEF BytesMatchChanges
  <2>3. CASE ~(mBytesUsed + kBytesChangeRecord <= kMaxBytesUsedUidMap)
    <3>1. drop = {c \in all : \A d \in mChanges : c.id <= d.id}
      BY <2>3 DEF OverLimit
    <3>2. \E c \in all : drop = {c}
      <4>1. CASE mChanges = {}
        BY <4>1, <3>1
      <4>2. CASE mChanges # {}
        <5> DEFINE T == {c.id : c \in mChanges}
        <5>1. T \subseteq Nat /\ T # {}
          BY <4>2, <1>4
        <5>2. PICK x \in T : \A y \in T : x <= y
          BY <5>1, NatSmallest
        <5>3. PICK c \in mChanges : x = c.id
          BY <5>2
        <5>4. \A d \in mChanges : c.id <= d.id
          BY <5>2, <5>3
        <5>5. \A d \in drop : d.id = c.id
          <6> SUFFICES ASSUME NEW d \in drop
                       PROVE  d.id = c.id
            OBVIOUS
          <6>1. d \in all /\ d.id <= c.id
            BY <3>1
          <6>2. d \in mChanges
            BY <6>1, <1>2, <1>4
          <6> QED
            BY <6>1, <6>2, <5>4, <1>4
        <5>6. drop = {c}
          BY <3>1, <5>4, <5>5, <1>6
        <5> QED
          BY <5>6
      <4> QED
        BY <4>1, <4>2
    <3>3. Cardinality(all \ drop) = Cardinality(all) - 1
      <4>1. PICK c \in all : drop = {c}
        BY <3>2
      <4> HIDE DEF all, drop
      <4> QED
        BY <4>1, <1>8, FS_RemoveElement
    <3>4. Cardinality(mChanges') = Cardinality(mChanges)
      BY <3>3, <1>1, <1>7, <1>8
    <3>5. mBytesUsed' = mBytesUsed
      BY <3>2, <1>1
    <3> QED
      BY <3>4, <3>5, <2>1 DEF BytesMatchChanges
  <2> QED
    BY <2>2, <2>3
<1>11. mChanges' \subseteq all
  BY <1>1
<1> QED
  BY <1>1, <1>2, <1>3, <1>5, <1>6, <1>9, <1>10, <1>11 DEF ChangesInv

\* Writing a report, with the pruning that follows, keeps the byte count exact.
LEMMA ReportChangesInv ==
  ASSUME ChangesInv, NEW k \in ReportConfigs, NEW t, NEW options \in OmitOptions,
         appendUidMap(k, t, options)
  PROVE  ChangesInv'
<1> USE UidMapAssumption
<1>1. PICK cut : /\ cut \subseteq mChanges
                 /\ mChanges' = mChanges \ cut
                 /\ mBytesUsed' = mBytesUsed - kBytesChangeRecord * Cardinality(cut)
  <2> DEFINE written == {c \in mChanges : ~omitUid(c.app, options)}
             last == mLastUpdatePerConfigKey'
             looked == IF k \in DOMAIN mLastUpdatePerConfigKey \/ written = {} THEN mLastUpdatePerConfigKey
                ELSE [j \in DOMAIN mLastUpdatePerConfigKey \union {k} |->
                        IF j = k THEN 0 ELSE mLastUpdatePerConfigKey[j]]
             newMin == getMinimumTimestampNs(last)
             c0 == IF newMin > getMinimumTimestampNs(looked)
                     THEN {c \in mChanges : c.timestampNs < newMin} ELSE {}
  <2>1. /\ mChanges' = mChanges \ c0
        /\ mBytesUsed' = mBytesUsed - kBytesChangeRecord * Cardinality(c0)
    BY DEF appendUidMap
  <2>2. c0 \subseteq mChanges
    OBVIOUS
  <2> HIDE DEF c0
  <2> QED
    BY <2>1, <2>2
<1>2. IsFiniteSet(mChanges) /\ Cardinality(mChanges) \in Nat
  BY FS_CardinalityType DEF ChangesInv
<1>3. /\ IsFiniteSet(mChanges \ cut)
      /\ Cardinality(mChanges \ cut) = Cardinality(mChanges) - Cardinality(mChanges \intersect cut)
  BY <1>2, FS_Difference, Zenon
<1>4. mChanges \intersect cut = cut
  BY <1>1
<1>5. /\ IsFiniteSet(cut) /\ Cardinality(cut) \in Nat
      /\ Cardinality(mChanges \ cut) \in Nat
      /\ Cardinality(cut) <= Cardinality(mChanges)
  BY <1>1, <1>2, <1>3, FS_Subset, FS_CardinalityType
<1>6. BytesMatchChanges'
  <2>1. mBytesUsed = kBytesChangeRecord * Cardinality(mChanges) /\ mBytesUsed <= kMaxBytesUsedUidMap
    BY DEF ChangesInv, BytesMatchChanges
  <2>2. mBytesUsed' = kBytesChangeRecord * Cardinality(mChanges')
    <3>1. Cardinality(mChanges') = Cardinality(mChanges) - Cardinality(cut)
      BY <1>1, <1>3, <1>4
    <3>2. kBytesChangeRecord \in Nat
      OBVIOUS
    <3>3. kBytesChangeRecord * Cardinality(mChanges) - kBytesChangeRecord * Cardinality(cut)
            = kBytesChangeRecord * (Cardinality(mChanges) - Cardinality(cut))
      <4> DEFINE m == Cardinality(mChanges)
                 n == Cardinality(cut)
      <4>1. m \in Nat /\ n \in Nat
        BY <1>2, <1>5, Zenon
      <4> HIDE UidMapAssumption DEF m, n
      <4>2. kBytesChangeRecord * m - kBytesChangeRecord * n = kBytesChangeRecord * (m - n)
        BY <3>2, <4>1, TimesDifference, Zenon
      <4> QED
        BY <4>2, Zenon DEF m, n
    <3>4. mBytesUsed' = kBytesChangeRecord * Cardinality(mChanges)
                          - kBytesChangeRecord * Cardinality(cut)
      BY <2>1, <1>1, Zenon
    <3> QED
      BY <3>4, <3>1, <3>3, Zenon
  <2>3. kBytesChangeRecord * Cardinality(cut) \in Nat
    BY <1>5
  <2> QED
    BY <2>1, <2>2, <2>3, <1>1, <1>2 DEF BytesMatchChanges
<1>7. /\ due' \in [ReportConfigs -> SUBSET Nat] /\ reported' \in [ReportConfigs -> SUBSET Nat]
      /\ UNCHANGED <<changesMade, dropped>>
  <2> DEFINE R == {c.id : c \in {d \in {c \in mChanges : ~omitUid(c.app, options)} :
                     d.timestampNs > (IF k \in DOMAIN mLastUpdatePerConfigKey
                                        THEN mLastUpdatePerConfigKey[k] ELSE 0)}}
             D == {c.id : c \in mChanges \ {c \in mChanges : ~omitUid(c.app, options)}}
  <2>1. /\ reported' = [reported EXCEPT ![k] = @ \union R] /\ due' = [due EXCEPT ![k] = @ \ D]
        /\ UNCHANGED <<changesMade, dropped>>
    BY DEF appendUidMap
  <2>2. R \subseteq Nat
    BY DEF ChangesInv
  <2> HIDE DEF R, D
  <2> QED
    BY <2>1, <2>2 DEF ChangesInv
<1>8. uidNow' = uidNow
  BY DEF appendUidMap, UidCall
<1> QED
  BY <1>1, <1>3, <1>6, <1>7, <1>8 DEF ChangesInv

-----------------------------------------------------------------------------
(* The map of apps *)

\* What the map of apps does not depend on.
AppsUnchanged == UNCHANGED <<mMap, mDeletedApps, appTruth, everRemoved>>

\* A step that leaves the apps alone keeps them known.
LEMMA AppsKept ==
  ASSUME AppsInv, AppsUnchanged, DOMAIN mIsolatedUidMap' \subseteq IsolatedUids
  PROVE  AppsInv'
  BY DEF AppsInv, AppsUnchanged, DeletedApps, DeletedAppsBounded, AppsKnown, hasApp

\* A full snapshot keeps the apps known and the deleted ones bounded.
LEMMA UpdateMapApps ==
  ASSUME AppsInv, NEW S \in SUBSET Apps, NEW list \in [S -> AppVersions], updateMap(list)
  PROVE  AppsInv'
<1>1. /\ mMap' = [a \in S |-> IF a \in DOMAIN mMap /\ mMap[a].deleted THEN mMap[a] ELSE AppData(list[a])]
      /\ appTruth' = list
      /\ UNCHANGED <<mDeletedApps, mIsolatedUidMap, everRemoved>>
  BY DEF updateMap
<1>2. \A a \in S : AppData(list[a]) \in [version : AppVersions, deleted : BOOLEAN]
  BY DEF AppData
<1>3. DeletedApps' \subseteq DeletedApps
  BY <1>1 DEF DeletedApps, AppData
<1>4. AppsKnown'
  <2>1. \A a \in Apps : hasApp(a)' => a \in DOMAIN appTruth'
    BY <1>1 DEF hasApp
  <2>2. ASSUME NEW a \in DOMAIN appTruth' \ everRemoved'
        PROVE  hasApp(a)' /\ mMap'[a].version = appTruth'[a]
    <3>1. a \in S /\ a \notin DeletedApps
      BY <2>2, <1>1 DEF AppsInv
    <3>2. mMap'[a] = AppData(list[a])
      BY <3>1, <1>1 DEF DeletedApps
    <3> QED
      BY <3>1, <3>2, <1>1 DEF hasApp, AppData
  <2> QED
    BY <2>1, <2>2 DEF AppsKnown
<1>5. DeletedAppsBounded'
  BY <1>1, <1>3 DEF AppsInv, DeletedAppsBounded
<1> QED
  BY <1>1, <1>2, <1>3, <1>4, <1>5 DEF AppsInv

\* The update of an app keeps the apps known and the deleted ones bounded.
LEMMA UpdateAppApps ==
  ASSUME AppsInv, NEW a \in Apps, NEW v \in AppVersions, NEW t, updateApp(a, v, t)
  PROVE  AppsInv'
<1>1. /\ mMap' = [b \in DOMAIN mMap \union {a} |-> IF b = a THEN AppData(v) ELSE mMap[b]]
      /\ appTruth' = [b \in DOMAIN appTruth \union {a} |-> IF b = a THEN v ELSE appTruth[b]]
      /\ UNCHANGED <<mDeletedApps, mIsolatedUidMap, everRemoved>>
  BY DEF updateApp
<1>2. AppData(v) \in [version : AppVersions, deleted : BOOLEAN] /\ ~AppData(v).deleted /\ AppData(v).version = v
  BY DEF AppData
<1>3. DeletedApps' \subseteq DeletedApps
  BY <1>1, <1>2 DEF DeletedApps
<1>4. AppsKnown'
  BY <1>1, <1>2 DEF AppsInv, AppsKnown, hasApp
<1>5. DeletedAppsBounded'
  BY <1>1, <1>3 DEF AppsInv, DeletedAppsBounded
<1> QED
  BY <1>1, <1>2, <1>3, <1>4, <1>5 DEF AppsInv

\* The removal of an app keeps the apps known and the deleted ones bounded.
LEMMA RemoveAppApps ==
  ASSUME AppsInv, NEW a \in Apps, NEW t, removeApp(a, t)
  PROVE  AppsInv'
<1> USE UidMapAssumption
<1> DEFINE deleted == IF hasApp(a) THEN Append(mDeletedApps, a) ELSE mDeletedApps
           full == Len(deleted) > kMaxDeletedAppsInUidMap
           kept == IF full THEN DOMAIN mMap \ {Head(deleted)} ELSE DOMAIN mMap
<1>1. /\ mMap' = [b \in kept |-> IF b = a THEN [mMap[b] EXCEPT !.deleted = TRUE] ELSE mMap[b]]
      /\ mDeletedApps' = IF full THEN Tail(deleted) ELSE deleted
      /\ appTruth' = [b \in DOMAIN appTruth \ {a} |-> appTruth[b]]
      /\ everRemoved' = everRemoved \union {a}
      /\ UNCHANGED mIsolatedUidMap
  BY DEF removeApp
<1>2. /\ deleted \in Seq(Apps) /\ Len(deleted) \in Nat /\ Len(deleted) <= kMaxDeletedAppsInUidMap + 1
      /\ \A i \in 1..Len(deleted) : deleted[i] \in everRemoved'
      /\ \A b \in DeletedApps : \E i \in 1..Len(deleted) : deleted[i] = b
      /\ hasApp(a) => deleted[Len(deleted)] = a /\ Len(deleted) > 0
  <2>1. mDeletedApps \in Seq(Apps) /\ Len(mDeletedApps) \in Nat /\ Len(mDeletedApps) <= kMaxDeletedAppsInUidMap
    BY DEF AppsInv, DeletedAppsBounded
  <2>2. /\ \A i \in 1..Len(mDeletedApps) : mDeletedApps[i] \in everRemoved
        /\ \A b \in DeletedApps : \E i \in 1..Len(mDeletedApps) : mDeletedApps[i] = b
    BY <2>1 DEF AppsInv, DeletedAppsBounded
  <2>3. CASE hasApp(a)
    <3>1. /\ deleted \in Seq(Apps) /\ Len(deleted) = Len(mDeletedApps) + 1
          /\ \A i \in 1..Len(mDeletedApps) : deleted[i] = mDeletedApps[i]
          /\ deleted[Len(mDeletedApps) + 1] = a
      BY <2>1, <2>3
    <3> HIDE DEF deleted
    <3>2. kMaxDeletedAppsInUidMap \in Nat /\ Len(deleted) <= kMaxDeletedAppsInUidMap + 1
      BY <3>1, <2>1
    <3>3. \A i \in 1..Len(deleted) : deleted[i] \in everRemoved'
      <4> SUFFICES ASSUME NEW i \in 1..Len(deleted)
                   PROVE  deleted[i] \in everRemoved'
        OBVIOUS
      <4>1. i \in 1..Len(mDeletedApps) \/ i = Len(mDeletedApps) + 1
        BY <3>1, <2>1
      <4> QED
        BY <4>1, <3>1, <2>2, <1>1
    <3>4. 1..Len(mDeletedApps) \subseteq 1..Len(deleted)
      BY <3>1, <2>1
    <3>5. \A b \in DeletedApps : \E i \in 1..Len(deleted) : deleted[i] = b
      BY <3>1, <3>4, <2>2
    <3> QED
      BY <3>1, <3>2, <3>3, <3>5, <2>1
  <2>4. CASE ~hasApp(a)
    BY <2>1, <2>2, <2>4, <1>1
  <2> QED
    BY <2>3, <2>4
<1>3. kept \subseteq DOMAIN mMap
  OBVIOUS
<1>4. DOMAIN mMap' = kept
  BY <1>1
<1>5. \A b \in kept : /\ b # a => mMap'[b] = mMap[b]
                      /\ b = a => mMap'[b] = [mMap[b] EXCEPT !.deleted = TRUE]
                      /\ mMap[b] \in [version : AppVersions, deleted : BOOLEAN]
  BY <1>1 DEF AppsInv
<1>6. \A b \in kept : mMap'[b] \in [version : AppVersions, deleted : BOOLEAN] /\ (b = a => mMap'[b].deleted)
  BY <1>5
<1>7. DeletedApps' \subseteq (DeletedApps \union {a}) \intersect kept
  BY <1>4, <1>5 DEF DeletedApps
<1>8. \A b \in DeletedApps' : \E i \in 1..Len(deleted) : deleted[i] = b
  <2> SUFFICES ASSUME NEW b \in DeletedApps'
               PROVE  \E i \in 1..Len(deleted) : deleted[i] = b
    OBVIOUS
  <2>1. CASE b \in DeletedApps
    BY <2>1, <1>2
  <2>2. CASE b = a /\ a \notin DeletedApps
    <3>1. hasApp(a)
      BY <2>2, <1>7, <1>3 DEF DeletedApps, hasApp
    <3> HIDE DEF deleted
    <3> QED
      BY <3>1, <1>2, <2>2
  <2> QED
    BY <2>1, <2>2, <1>7
<1>9. /\ mDeletedApps' \in Seq(Apps) /\ Len(mDeletedApps') <= kMaxDeletedAppsInUidMap
      /\ \A i \in 1..Len(mDeletedApps') : mDeletedApps'[i] \in everRemoved'
      /\ \A b \in DeletedApps' : \E i \in 1..Len(mDeletedApps') : mDeletedApps'[i] = b
  <2>1. CASE full
    <3>1. Len(deleted) > 0 /\ mDeletedApps' = Tail(deleted) /\ Head(deleted) = deleted[1]
      BY <2>1, <1>1, <1>2
    <3>2. \A b \in DeletedApps' : b # deleted[1]
      BY <2>1, <3>1, <1>7
    <3> HIDE DEF deleted, full
    <3>3. /\ Tail(deleted) \in Seq(Apps) /\ Len(Tail(deleted)) = Len(deleted) - 1
          /\ \A i \in 1..(Len(deleted) - 1) : Tail(deleted)[i] = deleted[i + 1]
      BY <3>1, <1>2
    <3>4. \A i \in 1..Len(Tail(deleted)) : Tail(deleted)[i] \in everRemoved'
      BY <3>3, <1>2
    <3>5. ASSUME NEW b \in DeletedApps'
          PROVE  \E i \in 1..Len(Tail(deleted)) : Tail(deleted)[i] = b
      <4>1. PICK i \in 1..Len(deleted) : deleted[i] = b
        BY <1>8, <3>5
      <4>2. i # 1 /\ i - 1 \in 1..(Len(deleted) - 1)
        BY <4>1, <3>2, <3>5, <1>2
      <4>3. Tail(deleted)[i - 1] = b
        BY <4>1, <4>2, <3>3, <1>2
      <4> QED
        BY <4>2, <4>3, <3>3
    <3> QED
      BY <3>1, <3>3, <3>4, <3>5, <1>2
  <2>2. CASE ~full
    <3>1. mDeletedApps' = deleted /\ kMaxDeletedAppsInUidMap \in Nat
      BY <2>2, <1>1
    <3>2. Len(deleted) <= kMaxDeletedAppsInUidMap
      BY <2>2, <3>1, <1>2
    <3> HIDE DEF deleted
    <3> QED
      BY <3>1, <3>2, <1>2, <1>8
  <2> QED
    BY <2>1, <2>2
<1>10. DeletedAppsBounded'
  BY <1>9 DEF DeletedAppsBounded
<1>11. AppsKnown'
  <2>1. ASSUME NEW b \in Apps, hasApp(b)'
        PROVE  b \in DOMAIN appTruth'
    <3>1. b \in kept /\ b # a /\ ~mMap[b].deleted
      BY <2>1, <1>4, <1>5, <1>6 DEF hasApp
    <3> QED
      BY <3>1, <1>3, <1>1 DEF AppsInv, AppsKnown, hasApp
  <2>2. ASSUME NEW b \in DOMAIN appTruth' \ everRemoved'
        PROVE  hasApp(b)' /\ mMap'[b].version = appTruth'[b]
    <3>1. /\ b # a /\ b \in DOMAIN appTruth \ everRemoved /\ appTruth'[b] = appTruth[b]
          /\ hasApp(b) /\ mMap[b].version = appTruth[b]
      BY <2>2, <1>1 DEF AppsInv, AppsKnown
    <3>2. b \in kept
      <4>1. full => Head(deleted) # b
        <5> SUFFICES ASSUME full
                     PROVE  Head(deleted) # b
          OBVIOUS
        <5>1. Head(deleted) = deleted[1] /\ 1 \in 1..Len(deleted)
          BY <1>2
        <5>2. deleted[1] \in everRemoved'
          BY <1>2, <5>1
        <5> QED
          BY <5>1, <5>2, <2>2
      <4> QED
        BY <4>1, <3>1 DEF hasApp
    <3> QED
      BY <3>1, <3>2, <1>4, <1>5 DEF hasApp
  <2> QED
    BY <2>1, <2>2 DEF AppsKnown
<1>12. DeletedApps' \subseteq everRemoved'
  BY <1>7, <1>1 DEF AppsInv
<1>13. mMap' = [b \in DOMAIN mMap' |-> mMap'[b]] /\ appTruth' = [b \in DOMAIN appTruth' |-> appTruth'[b]]
  BY <1>1
<1>14. DOMAIN mMap' \subseteq Apps /\ DOMAIN appTruth' \subseteq Apps /\ DOMAIN mIsolatedUidMap' \subseteq IsolatedUids
  BY <1>1, <1>3, <1>4 DEF AppsInv
<1> HIDE DEF kept, full, deleted
<1> QED
  BY <1>4, <1>6, <1>9, <1>10, <1>11, <1>12, <1>13, <1>14 DEF AppsInv

-----------------------------------------------------------------------------
(* The reports *)

\* A new change is ahead of every config it is due to, and the ones it pushes out count as dropped.
LEMMA AddChangeReports ==
  ASSUME ChangesInv, ReportsInv, NEW a \in Apps, NEW deletion \in BOOLEAN, NEW t \in Nat \ {0},
         AddChange(a, deletion, t), UNCHANGED mLastUpdatePerConfigKey
  PROVE  ReportsInv'
<1> DEFINE new == [id |-> changesMade + 1, app |-> a, deletion |-> deletion, timestampNs |-> t]
           drop == OverLimit(new)
<1>1. /\ mChanges' = (mChanges \union {new}) \ drop
      /\ dropped' = dropped \union {c.id : c \in drop}
      /\ due' = [k \in ReportConfigs |->
                   IF k \in DOMAIN mLastUpdatePerConfigKey /\ mLastUpdatePerConfigKey[k] < t
                     THEN due[k] \union {new.id} ELSE due[k]]
      /\ reported' = reported
  BY DEF AddChange
<1> HIDE DEF drop
<1>2. \A k \in ReportConfigs \ DOMAIN mLastUpdatePerConfigKey : due'[k] = {}
  BY <1>1 DEF ReportsInv
<1>3. ASSUME NEW k \in DOMAIN mLastUpdatePerConfigKey, NEW i \in due'[k]
      PROVE  \/ i \in reported'[k] \union dropped'
             \/ \E c \in mChanges' : c.id = i /\ c.timestampNs > mLastUpdatePerConfigKey[k]
  <2>1. k \in ReportConfigs /\ mLastUpdatePerConfigKey[k] \in Int
    BY DEF ReportsInv
  <2>2. CASE i \in due[k]
    <3>1. CASE i \in reported[k] \union dropped
      BY <3>1, <1>1
    <3>2. CASE \E c \in mChanges : c.id = i /\ c.timestampNs > mLastUpdatePerConfigKey[k]
      BY <3>2, <1>1
    <3> QED
      BY <3>1, <3>2, <2>2 DEF ReportsInv, ChangesReachConfigs
  <2>3. CASE i = new.id /\ mLastUpdatePerConfigKey[k] < t
    <3>1. new.timestampNs > mLastUpdatePerConfigKey[k]
      BY <2>1, <2>3
    <3> QED
      BY <3>1, <2>3, <1>1
  <2> QED
    BY <2>1, <2>2, <2>3, <1>3, <1>1
<1> QED
  BY <1>2, <1>3 DEF ReportsInv, ChangesReachConfigs

\* A report pays what is due to its config and prunes only what every config has seen.
LEMMA ReportReports ==
  ASSUME ChangesInv, ReportsInv, NEW k \in ReportConfigs, NEW t \in Nat \ {0}, NEW options \in OmitOptions,
         appendUidMap(k, t, options)
  PROVE  ReportsInv'
<1> USE UidMapAssumption
<1> DEFINE written == {c \in mChanges : ~omitUid(c.app, options)}
           known == DOMAIN mLastUpdatePerConfigKey
           looked == IF k \in known \/ written = {} THEN mLastUpdatePerConfigKey
                     ELSE [j \in known \union {k} |-> IF j = k THEN 0 ELSE mLastUpdatePerConfigKey[j]]
           since == IF k \in known THEN mLastUpdatePerConfigKey[k] ELSE 0
           last == [j \in known \union {k} |-> IF j = k THEN t ELSE mLastUpdatePerConfigKey[j]]
           newMin == getMinimumTimestampNs(last)
           cut == IF newMin > getMinimumTimestampNs(looked)
                    THEN {c \in mChanges : c.timestampNs < newMin} ELSE {}
           seen == {c.id : c \in {d \in written : d.timestampNs > since}}
           omitted == {c.id : c \in mChanges \ written}
<1>1. /\ mLastUpdatePerConfigKey' = last
      /\ mChanges' = mChanges \ cut
      /\ reported' = [reported EXCEPT ![k] = @ \union seen]
      /\ due' = [due EXCEPT ![k] = @ \ omitted]
      /\ dropped' = dropped
  BY DEF appendUidMap
<1>2. /\ known \subseteq ReportConfigs
      /\ \A j \in known : mLastUpdatePerConfigKey[j] \in (Nat \ {0}) \union {-1}
  BY DEF ReportsInv
<1>3. \A j \in DOMAIN last : last[j] \in (Nat \ {0}) \union {-1}
  BY <1>2
<1>4. DOMAIN last \subseteq Nat
  BY <1>2
<1>5. \A j \in DOMAIN last : newMin \in Int /\ newMin <= last[j]
  <2> HIDE DEF last
  <2> QED
    BY <1>3, <1>4, MinimumIsLowest
\* The cut takes no change that a config has not seen.
<1>6. \A c \in cut, j \in DOMAIN last : c.timestampNs < last[j]
  <2> SUFFICES ASSUME NEW c \in cut, NEW j \in DOMAIN last
               PROVE  c.timestampNs < last[j]
    OBVIOUS
  <2>1. c \in mChanges /\ c.timestampNs < newMin
    OBVIOUS
  <2>2. c.timestampNs \in Nat
    BY <2>1 DEF ChangesInv
  <2>3. newMin \in Int /\ newMin <= last[j] /\ last[j] \in Int
    BY <1>3, <1>5
  <2> HIDE DEF newMin, last
  <2> QED
    BY <2>1, <2>2, <2>3
<1>7. cut \subseteq mChanges
  OBVIOUS
<1> HIDE DEF cut, newMin, looked, seen, omitted
<1>8. /\ due \in [ReportConfigs -> SUBSET Nat] /\ reported \in [ReportConfigs -> SUBSET Nat]
  BY DEF ChangesInv
<1>9. ASSUME NEW j \in DOMAIN last, NEW i \in due'[j]
      PROVE  \/ i \in reported'[j] \union dropped'
             \/ \E c \in mChanges' : c.id = i /\ c.timestampNs > last[j]
  <2>1. j \in ReportConfigs /\ i \in due[j] /\ reported[j] \subseteq reported'[j]
    BY <1>9, <1>1, <1>2, <1>8
  <2>2. j \in known
    BY <2>1 DEF ReportsInv
  <2>3. CASE i \in reported[j] \union dropped
    BY <2>3, <2>1, <1>1
  <2>4. ASSUME NEW c \in mChanges, c.id = i, c.timestampNs > mLastUpdatePerConfigKey[j]
        PROVE  i \in reported'[j] \/ (c \in mChanges' /\ c.timestampNs > last[j])
    <3>1. CASE j = k
      <4>1. c \in written
        <5>1. i \notin omitted
          BY <1>9, <3>1, <1>1, <1>8
        <5> QED
          BY <5>1, <2>4 DEF omitted
      <4>2. i \in seen
        BY <4>1, <2>2, <2>4, <3>1 DEF seen
      <4> QED
        BY <4>2, <3>1, <1>1, <1>8
    <3>2. CASE j # k
      <4>1. last[j] = mLastUpdatePerConfigKey[j]
        BY <3>2, <2>2
      <4>2. c \notin cut
        <5>1. c.timestampNs \in Nat
          BY DEF ChangesInv
        <5> HIDE DEF last
        <5>2. last[j] \in Int
          BY <1>3, <1>9
        <5> QED
          BY <5>1, <5>2, <4>1, <1>6, <2>4, <1>9
      <4> QED
        BY <4>1, <4>2, <2>4, <1>1
    <3> QED
      BY <3>1, <3>2
  <2> QED
    BY <2>1, <2>2, <2>3, <2>4 DEF ReportsInv, ChangesReachConfigs
<1>10. \A j \in ReportConfigs \ DOMAIN last : due'[j] = {}
  BY <1>1, <1>8 DEF ReportsInv
<1>11. DOMAIN last \subseteq ReportConfigs
  BY <1>2
<1> HIDE DEF last
<1> QED
  BY <1>1, <1>3, <1>9, <1>10, <1>11 DEF ReportsInv, ChangesReachConfigs

\* A config that starts over at the time -1 still has ahead of it every change it is due.
LEMMA ConfigUpdatedReports ==
  ASSUME ChangesInv, ReportsInv, NEW k \in ReportConfigs, OnUidConfigUpdated(k)
  PROVE  ReportsInv'
<1>1. mLastUpdatePerConfigKey' = [j \in DOMAIN mLastUpdatePerConfigKey \union {k} |->
                                    IF j = k THEN -1 ELSE mLastUpdatePerConfigKey[j]]
  BY DEF OnUidConfigUpdated
<1>2. UNCHANGED <<mChanges, changesMade, dropped, due, reported>>
  BY DEF OnUidConfigUpdated, changeLog
<1>3. ASSUME NEW j \in DOMAIN mLastUpdatePerConfigKey', NEW i \in due[j]
      PROVE  \/ i \in reported[j] \union dropped
             \/ \E c \in mChanges : c.id = i /\ c.timestampNs > mLastUpdatePerConfigKey'[j]
  <2>1. j \in DOMAIN mLastUpdatePerConfigKey
    BY <1>3, <1>1 DEF ReportsInv
  <2>2. ASSUME NEW c \in mChanges, c.timestampNs > mLastUpdatePerConfigKey[j]
        PROVE  c.timestampNs > mLastUpdatePerConfigKey'[j]
    <3>1. c.timestampNs \in Nat
      BY DEF ChangesInv
    <3> QED
      BY <2>1, <2>2, <3>1, <1>1
  <2> QED
    BY <2>1, <2>2 DEF ReportsInv, ChangesReachConfigs
<1>4. /\ DOMAIN mLastUpdatePerConfigKey' \subseteq ReportConfigs
      /\ DOMAIN mLastUpdatePerConfigKey \subseteq DOMAIN mLastUpdatePerConfigKey'
      /\ \A j \in DOMAIN mLastUpdatePerConfigKey' :
           mLastUpdatePerConfigKey'[j] \in (Nat \ {0}) \union {-1}
  BY <1>1 DEF ReportsInv
<1> QED
  BY <1>2, <1>3, <1>4 DEF ReportsInv, ChangesReachConfigs

\* A removed config is owed nothing.
LEMMA ConfigRemovedReports ==
  ASSUME ChangesInv, ReportsInv, NEW k \in ReportConfigs, OnUidConfigRemoved(k)
  PROVE  ReportsInv'
  BY DEF OnUidConfigRemoved, ChangesInv, ReportsInv, ChangesReachConfigs

-----------------------------------------------------------------------------
\* The inductive invariant.
UidInv == ChangesInv /\ AppsInv /\ ReportsInv

\* The invariant holds initially.
LEMMA UidInvInit == UidInit => UidInv
<1> SUFFICES ASSUME UidInit
             PROVE  UidInv
  OBVIOUS
<1> USE UidMapAssumption DEF UidInit
<1>1. ChangesInv
  BY FS_EmptySet DEF ChangesInv, BytesMatchChanges
<1>2. AppsInv
  BY DEF AppsInv, DeletedApps, DeletedAppsBounded, AppsKnown, hasApp
<1>3. ReportsInv
  BY DEF ReportsInv, ChangesReachConfigs
<1> QED
  BY <1>1, <1>2, <1>3 DEF UidInv

\* The list of changes and the reports, where a step leaves them alone.
LEMMA ChangesKept ==
  ASSUME ChangesInv, UNCHANGED <<mChanges, mBytesUsed, changesMade, dropped>>, uidNow' \in Nat \ {0},
         due' \in [ReportConfigs -> SUBSET Nat], reported' \in [ReportConfigs -> SUBSET Nat]
  PROVE  ChangesInv'
  BY DEF ChangesInv, BytesMatchChanges

\* A step that leaves the changes and the reports alone keeps what is due.
LEMMA ReportsKept ==
  ASSUME ReportsInv, UNCHANGED <<mChanges, mLastUpdatePerConfigKey, dropped, due, reported>>
  PROVE  ReportsInv'
  BY DEF ReportsInv, ChangesReachConfigs

\* Every step preserves the invariant.
LEMMA UidInvStep == UidInv /\ [UidNext]_uidVars => UidInv'
<1> SUFFICES ASSUME UidInv, [UidNext]_uidVars
             PROVE  UidInv'
  OBVIOUS
<1> USE DEF UidInv
<1>0. /\ uidNow \in Nat \ {0} /\ CallTimes \subseteq Nat \ {0}
      /\ due \in [ReportConfigs -> SUBSET Nat] /\ reported \in [ReportConfigs -> SUBSET Nat]
      /\ DOMAIN mIsolatedUidMap \subseteq IsolatedUids
  BY CallTimesPositive DEF ChangesInv, AppsInv
<1>1. CASE UidTick
  <2>1. /\ uidNow' \in Nat \ {0}
        /\ UNCHANGED <<mMap, mDeletedApps, mChanges, mBytesUsed, mLastUpdatePerConfigKey,
                       mIsolatedUidMap, appTruth, everRemoved, changesMade, dropped, due, reported>>
    BY <1>0, <1>1 DEF UidTick, changeLog
  <2> QED
    BY <2>1, <1>0, ChangesKept, ReportsKept, AppsKept DEF AppsUnchanged
<1>2. ASSUME NEW S \in SUBSET Apps, NEW list \in [S -> AppVersions], updateMap(list)
      PROVE  UidInv'
  <2>1. UNCHANGED <<mChanges, mBytesUsed, mLastUpdatePerConfigKey, uidNow, changesMade, dropped, due, reported>>
    BY <1>2 DEF updateMap, changeLog, UidCall
  <2>2. AppsInv'
    BY <1>2, UpdateMapApps
  <2> QED
    BY <2>1, <2>2, <1>0, ChangesKept, ReportsKept
<1>3. ASSUME NEW a \in Apps, NEW t \in CallTimes, NEW v \in AppVersions, updateApp(a, v, t)
      PROVE  UidInv'
  <2>1. t \in Nat \ {0} /\ AddChange(a, FALSE, t) /\ UNCHANGED <<uidNow, mLastUpdatePerConfigKey>>
    BY <1>0, <1>3 DEF updateApp, UidCall
  <2>2. AppsInv'
    BY <1>3, UpdateAppApps
  <2> QED
    BY <2>1, <2>2, AddChangeInv, AddChangeReports
<1>4. ASSUME NEW a \in Apps, NEW t \in CallTimes, removeApp(a, t)
      PROVE  UidInv'
  <2>1. t \in Nat \ {0} /\ AddChange(a, TRUE, t) /\ UNCHANGED <<uidNow, mLastUpdatePerConfigKey>>
    BY <1>0, <1>4 DEF removeApp, UidCall
  <2>2. AppsInv'
    BY <1>4, RemoveAppApps
  <2> QED
    BY <2>1, <2>2, AddChangeInv, AddChangeReports
<1>5. ASSUME NEW u \in IsolatedUids, (\E a \in Apps : assignIsolatedUid(u, a.uid)) \/ removeIsolatedUid(u)
      PROVE  UidInv'
  <2>1. /\ UNCHANGED <<mMap, mDeletedApps, mChanges, mBytesUsed, mLastUpdatePerConfigKey, uidNow,
                       appTruth, everRemoved, changesMade, dropped, due, reported>>
        /\ DOMAIN mIsolatedUidMap' \subseteq IsolatedUids
    BY <1>0, <1>5 DEF assignIsolatedUid, removeIsolatedUid, changeLog, UidCall
  <2> QED
    BY <2>1, <1>0, ChangesKept, ReportsKept, AppsKept DEF AppsUnchanged
<1>6. ASSUME NEW k \in ReportConfigs, OnUidConfigUpdated(k)
      PROVE  UidInv'
  <2>1. UNCHANGED <<mMap, mDeletedApps, mIsolatedUidMap, mChanges, mBytesUsed, uidNow,
                    appTruth, everRemoved, changesMade, dropped, due, reported>>
    BY <1>6 DEF OnUidConfigUpdated, changeLog, UidCall
  <2> QED
    BY <2>1, <1>0, <1>6, ChangesKept, AppsKept, ConfigUpdatedReports DEF AppsUnchanged
<1>7. ASSUME NEW k \in ReportConfigs, OnUidConfigRemoved(k)
      PROVE  UidInv'
  <2>1. /\ UNCHANGED <<mMap, mDeletedApps, mIsolatedUidMap, mChanges, mBytesUsed, uidNow,
                       appTruth, everRemoved, changesMade, dropped>>
        /\ due' = [due EXCEPT ![k] = {}] /\ reported' = [reported EXCEPT ![k] = {}]
    BY <1>7 DEF OnUidConfigRemoved, UidCall
  <2>2. due' \in [ReportConfigs -> SUBSET Nat] /\ reported' \in [ReportConfigs -> SUBSET Nat]
    BY <2>1, <1>0
  <2> QED
    BY <2>1, <2>2, <1>0, <1>7, ChangesKept, AppsKept, ConfigRemovedReports DEF AppsUnchanged
<1>8. ASSUME NEW k \in ReportConfigs, NEW t \in CallTimes, NEW options \in OmitOptions,
             appendUidMap(k, t, options)
      PROVE  UidInv'
  <2>1. UNCHANGED <<mMap, mDeletedApps, mIsolatedUidMap, appTruth, everRemoved>> /\ t \in Nat \ {0}
    BY <1>0, <1>8 DEF appendUidMap
  <2> QED
    BY <2>1, <1>0, <1>8, ReportChangesInv, ReportReports, AppsKept DEF AppsUnchanged
<1>9. CASE UNCHANGED uidVars
  <2>1. UNCHANGED <<mMap, mDeletedApps, mChanges, mBytesUsed, mLastUpdatePerConfigKey, mIsolatedUidMap,
                    uidNow, appTruth, everRemoved, changesMade, dropped, due, reported>>
    BY <1>9 DEF uidVars
  <2> QED
    BY <2>1, <1>0, ChangesKept, ReportsKept, AppsKept DEF AppsUnchanged
<1> QED
  BY <1>1, <1>2, <1>3, <1>4, <1>5, <1>6, <1>7, <1>8, <1>9 DEF UidNext

\* The byte count of the list of changes, the bound on deleted apps, the apps that are
\* known, and the changes that every config gets to see (packages/UidMap.cpp), for any
\* number of apps and configs.
THEOREM UidMapIsSound == UidSpec => []UidMapSound
<1>1. UidInv => UidMapSound
  BY DEF UidInv, ChangesInv, AppsInv, ReportsInv, UidMapSound, UidTypeOK
<1> QED
  BY <1>1, UidInvInit, UidInvStep, PTL DEF UidSpec

-----------------------------------------------------------------------------
(* State trackers *)

Known == StateValues \union {kStateUnknown}

MapsAreFunctions ==
  /\ mStateTrackers = [a \in Tracked |-> mStateTrackers[a]]
  /\ \A a \in Tracked : StateMapOf(a) = [k \in DOMAIN StateMapOf(a) |-> StateMapOf(a)[k]]

StatesInv == StatesHeard /\ MapsAreFunctions

\* The trackers and what the listeners go by, without the history of events.
TrackersInv ==
  /\ Tracked \subseteq StateAtoms /\ liveListeners \subseteq StateListeners
  /\ \A a \in Tracked :
       /\ mStateTrackers[a] = [mStateMap |-> StateMapOf(a), mListeners |-> ListenersOf(a)]
       /\ ListenersOf(a) \subseteq StateListeners /\ DOMAIN StateMapOf(a) \subseteq StateKeys
  /\ heard \in [StateListeners \X StateAtoms \X StateKeys -> Known]
  /\ EntriesKnown /\ TrackersHaveListeners /\ ListenersUpToDate /\ MapsAreFunctions

HistoryInv ==
  /\ said \in [StateAtoms \X StateKeys -> Known \union {SaidNested}]
  /\ StateFollowsEvents

\* The invariant is its two parts: the state of the trackers and what listeners heard.
LEMMA InvParts == StatesInv <=> TrackersInv /\ HistoryInv
  BY DEF StatesInv, StatesHeard, TrackersInv, HistoryInv, StateTypeOK, Known

\* The reserved values differ from every real state.
LEMMA StateConstants == StateValues \subseteq Nat /\ kStateUnknown = -1 /\ SaidNested = -2
  BY StateAssumption DEF kStateUnknown, SaidNested

\* A key of the map has a known state and a count; the state of another key is unknown.
LEMMA InfoFacts ==
  ASSUME TrackersInv, NEW a \in Tracked, NEW k
  PROVE  /\ k \in DOMAIN StateMapOf(a) => /\ Info(a, k) = StateMapOf(a)[k]
                                         /\ Info(a, k) \in [state : StateValues, count : Nat \ {0}]
         /\ k \notin DOMAIN StateMapOf(a) => Info(a, k) = [state |-> kStateUnknown, count |-> 0]
         /\ Info(a, k) \in [state : Known, count : Nat]
         /\ Info(a, k).state = kStateUnknown <=> k \notin DOMAIN StateMapOf(a)
         /\ getStateValue(a, k) = Info(a, k).state
  BY StateConstants DEF TrackersInv, EntriesKnown, Info, getStateValue, Known

\* An event leaves an entry with a known state and a count that is not used up.
LEMMA UpdatedFacts ==
  ASSUME TrackersInv, NEW a \in Tracked, NEW k, NEW new \in StateValues, NEW nested \in BOOLEAN
  PROVE  /\ Updated(Info(a, k), new, nested) \in [state : StateValues, count : Nat \ {0}]
         /\ Updated(Info(a, k), new, nested).state
              = IF Changes(Info(a, k), new, nested) THEN new ELSE Info(a, k).state
<1> DEFINE info == Info(a, k)
<1>1. CASE Changes(info, new, nested)
  BY <1>1 DEF Updated
<1>2. CASE ~Changes(info, new, nested)
  <2>1. k \in DOMAIN StateMapOf(a)
    BY <1>2, InfoFacts, StateConstants DEF Changes
  <2>2. info \in [state : StateValues, count : Nat \ {0}]
    BY <2>1, InfoFacts
  <2>3. nested /\ new # info.state => info.count # 1
    BY <1>2 DEF Changes
  <2> HIDE DEF info
  <2>4. Updated(info, new, nested) = IF ~nested THEN info
          ELSE [info EXCEPT !.count = IF new = info.state THEN @ + 1 ELSE @ - 1]
    BY <1>2 DEF Updated
  <2> QED
    BY <1>2, <2>2, <2>3, <2>4 DEF info
<1> QED
  BY <1>1, <1>2

\* The states of all keys after an event for some keys of an atom.
StatesAfter(a, keys, new, nested) ==
  \A b \in StateAtoms, k \in StateKeys :
    getStateValue(b, k)' = IF b = a /\ k \in keys
                             THEN IF Changes(Info(a, k), new, nested) THEN new ELSE Info(a, k).state
                             ELSE getStateValue(b, k)

\* Updating the entries of some keys keeps the trackers well formed.
LEMMA UpdateKeepsTrackers ==
  ASSUME TrackersInv, NEW a \in Tracked, NEW keys \in SUBSET StateKeys, NEW new \in Known,
         NEW nested \in BOOLEAN, updateStateForKeys(a, keys, new, nested), UNCHANGED liveListeners
  PROVE  TrackersInv' /\ StatesAfter(a, keys, new, nested)
<1> DEFINE map == StateMapOf(a)
           left == IF new = kStateUnknown THEN DOMAIN map \ keys ELSE DOMAIN map \union keys
           told == {k \in keys : Changes(Info(a, k), new, nested)}
           newMap == [k \in left |-> IF k \in keys THEN Updated(Info(a, k), new, nested) ELSE map[k]]
<1>1. /\ mStateTrackers' = [mStateTrackers EXCEPT ![a].mStateMap = newMap]
      /\ heard' = [x \in DOMAIN heard |->
           IF x[1] \in ListenersOf(a) \intersect liveListeners /\ x[2] = a /\ x[3] \in told
             THEN new ELSE heard[x]]
  BY DEF updateStateForKeys
<1>2. \A k \in left : newMap[k] \in [state : StateValues, count : Nat \ {0}]
  <2> SUFFICES ASSUME NEW k \in left
               PROVE  newMap[k] \in [state : StateValues, count : Nat \ {0}]
    OBVIOUS
  <2>1. CASE k \in keys
    <3>1. new \in StateValues
      BY <2>1 DEF Known
    <3> QED
      BY <2>1, <3>1, UpdatedFacts
  <2>2. CASE k \notin keys
    <3>1. k \in DOMAIN map
      BY <2>2
    <3> QED
      BY <2>2, <3>1, InfoFacts
  <2> QED
    BY <2>1, <2>2
<1>3. DOMAIN newMap = left /\ left \subseteq StateKeys
  BY DEF TrackersInv
<1>4. mStateTrackers[a] = [mStateMap |-> map, mListeners |-> ListenersOf(a)]
  BY DEF TrackersInv
<1>5. \A k \in StateKeys :
        (IF k \in left THEN newMap[k].state ELSE kStateUnknown)
          = IF k \in keys THEN IF Changes(Info(a, k), new, nested) THEN new ELSE Info(a, k).state
            ELSE Info(a, k).state
  <2> SUFFICES ASSUME NEW k \in StateKeys
               PROVE  (IF k \in left THEN newMap[k].state ELSE kStateUnknown)
                        = IF k \in keys THEN IF Changes(Info(a, k), new, nested) THEN new ELSE Info(a, k).state
                          ELSE Info(a, k).state
    OBVIOUS
  <2>1. CASE k \in keys /\ new # kStateUnknown
    <3>1. new \in StateValues /\ k \in left
      BY <2>1 DEF Known
    <3> QED
      BY <2>1, <3>1, UpdatedFacts
  <2>2. CASE k \in keys /\ new = kStateUnknown
    BY <2>2, InfoFacts DEF Changes
  <2>3. CASE k \notin keys
    <3>1. k \in left <=> k \in DOMAIN map
      BY <2>3
    <3> QED
      BY <2>3, <3>1, InfoFacts
  <2> QED
    BY <2>1, <2>2, <2>3
<1> HIDE DEF newMap, left
<1>6. mStateTrackers' = [b \in Tracked |-> IF b = a THEN [mStateMap |-> newMap, mListeners |-> ListenersOf(a)]
                                          ELSE mStateTrackers[b]]
  <2>1. mStateTrackers = [b \in Tracked |-> mStateTrackers[b]] /\ Tracked = DOMAIN mStateTrackers
    BY DEF TrackersInv, MapsAreFunctions, Tracked
  <2>2. [mStateTrackers[a] EXCEPT !.mStateMap = newMap] = [mStateMap |-> newMap, mListeners |-> ListenersOf(a)]
    BY <1>4
  <2>3. mStateTrackers' = [mStateTrackers EXCEPT ![a] = [mStateTrackers[a] EXCEPT !.mStateMap = newMap]]
    BY <1>1, Zenon
  <2> QED
    BY <2>1, <2>2, <2>3
<1>7. /\ Tracked' = Tracked
      /\ StateMapOf(a)' = newMap
      /\ \A b \in Tracked : ListenersOf(b)' = ListenersOf(b) /\ (b # a => StateMapOf(b)' = StateMapOf(b))
  BY <1>6 DEF Tracked, StateMapOf, ListenersOf
<1>8. \A b \in StateAtoms, k \in StateKeys :
        getStateValue(b, k)' = IF b = a /\ k \in keys
                                 THEN IF Changes(Info(a, k), new, nested) THEN new ELSE Info(a, k).state
                                 ELSE getStateValue(b, k)
  <2> SUFFICES ASSUME NEW b \in StateAtoms, NEW k \in StateKeys
               PROVE  getStateValue(b, k)' = IF b = a /\ k \in keys
                        THEN IF Changes(Info(a, k), new, nested) THEN new ELSE Info(a, k).state
                        ELSE getStateValue(b, k)
    OBVIOUS
  <2>1. CASE b = a
    <3>1. getStateValue(a, k)' = IF k \in left THEN newMap[k].state ELSE kStateUnknown
      BY <1>3, <1>7 DEF getStateValue, Info
    <3>2. getStateValue(a, k) = Info(a, k).state
      BY InfoFacts
    <3> QED
      BY <3>1, <3>2, <1>5, <2>1
  <2>2. CASE b # a
    BY <2>2, <1>7 DEF getStateValue, Info
  <2> QED
    BY <2>1, <2>2
<1>9. heard' \in [StateListeners \X StateAtoms \X StateKeys -> Known]
  BY <1>1 DEF TrackersInv
<1>10. ListenersUpToDate'
  <2> SUFFICES ASSUME NEW b \in Tracked, NEW l \in ListenersOf(b) \intersect liveListeners, NEW k \in StateKeys
               PROVE  heard'[<<l, b, k>>] = getStateValue(b, k)'
    BY <1>7 DEF ListenersUpToDate
  <2>1. <<l, b, k>> \in StateListeners \X StateAtoms \X StateKeys /\ heard[<<l, b, k>>] = getStateValue(b, k)
    BY DEF TrackersInv, ListenersUpToDate
  <2>2. heard'[<<l, b, k>>] = IF b = a /\ k \in told THEN new ELSE heard[<<l, b, k>>]
    BY <2>1, <1>1 DEF TrackersInv
  <2>3. b = a => getStateValue(b, k) = Info(a, k).state
    BY InfoFacts
  <2> QED
    BY <2>1, <2>2, <2>3, <1>8 DEF TrackersInv
<1>11. EntriesKnown'
  BY <1>2, <1>3, <1>7 DEF EntriesKnown, TrackersInv
<1>12. TrackersHaveListeners'
  BY <1>7 DEF TrackersHaveListeners, TrackersInv
<1>13. newMap = [k \in DOMAIN newMap |-> newMap[k]]
  BY DEF newMap
<1>14. MapsAreFunctions'
  <2>1. mStateTrackers' = [b \in Tracked' |-> mStateTrackers'[b]]
    BY <1>6, <1>7
  <2> QED
    BY <2>1, <1>7, <1>13 DEF MapsAreFunctions, TrackersInv
<1>15. \A b \in Tracked : /\ mStateTrackers'[b] = [mStateMap |-> StateMapOf(b)', mListeners |-> ListenersOf(b)']
                          /\ ListenersOf(b)' \subseteq StateListeners /\ DOMAIN StateMapOf(b)' \subseteq StateKeys
  BY <1>3, <1>6, <1>7 DEF TrackersInv
<1>16. TrackersInv'
  BY <1>7, <1>9, <1>10, <1>11, <1>12, <1>14, <1>15 DEF TrackersInv
<1> QED
  BY <1>8, <1>16 DEF StatesAfter

-----------------------------------------------------------------------------
(* The history of the events *)

\* The history of what events said, after one more.
SaidAfter(a, keys, what) ==
  /\ said' \in [StateAtoms \X StateKeys -> Known \union {SaidNested}]
  /\ \A b \in StateAtoms, k \in StateKeys :
       said'[<<b, k>>] = IF b = a /\ k \in keys THEN what ELSE said[<<b, k>>]

\* What a notification records is typed.
LEMMA SayType ==
  ASSUME HistoryInv, NEW a \in StateAtoms, NEW keys \in SUBSET StateKeys, NEW what \in Known \union {SaidNested},
         Say(a, keys, what)
  PROVE  SaidAfter(a, keys, what)
  BY DEF Say, SaidAfter, HistoryInv

\* Clearing the entry of a primary key preserves the invariant.
LEMMA ClearStep ==
  ASSUME StatesInv, NEW a \in StateAtoms, NEW k \in StateKeys, clearStateForPrimaryKey(a, k)
  PROVE  StatesInv'
<1> DEFINE keys == {k} \intersect DOMAIN StateMapOf(a)
<1>1. TrackersInv /\ HistoryInv
  BY InvParts
<1>2. /\ a \in Tracked /\ updateStateForKeys(a, keys, kStateUnknown, FALSE) /\ Say(a, {k}, kStateUnknown)
      /\ UNCHANGED liveListeners
  BY DEF clearStateForPrimaryKey
<1>3. keys \in SUBSET StateKeys /\ kStateUnknown \in Known
  BY DEF Known
<1>4. TrackersInv' /\ StatesAfter(a, keys, kStateUnknown, FALSE)
  <2> HIDE DEF keys
  <2> QED
    BY <1>1, <1>2, <1>3, UpdateKeepsTrackers
<1>5. \A b \in StateAtoms, j \in StateKeys :
        getStateValue(b, j)' = IF b = a /\ j = k THEN kStateUnknown ELSE getStateValue(b, j)
  <2>1. \A j \in StateKeys : Changes(Info(a, j), kStateUnknown, FALSE) <=> Info(a, j).state # kStateUnknown
    BY DEF Changes
  <2>2. \A j \in StateKeys : j \notin DOMAIN StateMapOf(a) => getStateValue(a, j) = kStateUnknown
    BY <1>1, <1>2, InfoFacts
  <2> QED
    BY <2>1, <2>2, <1>4 DEF StatesAfter
<1>6. SaidAfter(a, {k}, kStateUnknown)
  BY <1>1, <1>2, <1>3, SayType
<1>7. HistoryInv'
  BY <1>1, <1>5, <1>6, StateConstants DEF HistoryInv, StateFollowsEvents, SaidAfter
<1> QED
  BY <1>4, <1>7, InvParts, PTL

\* A reset event preserves the invariant.
LEMMA ResetStep ==
  ASSUME StatesInv, NEW a \in StateAtoms, NEW new \in StateValues, handleReset(a, new)
  PROVE  StatesInv'
<1> DEFINE keys == DOMAIN StateMapOf(a)
           spoken == {k \in StateKeys : said[<<a, k>>] # kStateUnknown}
<1>1. TrackersInv /\ HistoryInv
  BY InvParts
<1>2. /\ a \in Tracked /\ updateStateForKeys(a, keys, new, FALSE) /\ Say(a, spoken, new)
      /\ UNCHANGED liveListeners
  BY DEF handleReset
<1>3. keys \in SUBSET StateKeys /\ new \in Known
  BY <1>1, <1>2 DEF Known, TrackersInv
<1>4. keys = spoken
  <2>1. \A k \in StateKeys : k \in keys <=> getStateValue(a, k) # kStateUnknown
    BY <1>1, <1>2, InfoFacts
  <2>2. \A k \in StateKeys : getStateValue(a, k) # kStateUnknown <=> said[<<a, k>>] # kStateUnknown
    BY <1>1, StateConstants DEF HistoryInv, StateFollowsEvents
  <2> QED
    BY <2>1, <2>2, <1>3
<1>5. TrackersInv' /\ StatesAfter(a, keys, new, FALSE)
  <2> HIDE DEF keys, spoken
  <2> QED
    BY <1>1, <1>2, <1>3, UpdateKeepsTrackers
<1>6. HistoryInv'
  <2>1. SaidAfter(a, keys, new)
    <3> HIDE DEF keys, spoken
    <3> QED
      BY <1>1, <1>2, <1>3, <1>4, SayType
  <2>2. new # SaidNested
    BY StateConstants
  <2>3. \A k \in StateKeys : Changes(Info(a, k), new, FALSE) <=> Info(a, k).state # new
    BY DEF Changes
  <2> HIDE DEF keys
  <2>4. \A b \in StateAtoms, k \in StateKeys :
          getStateValue(b, k)' = IF b = a /\ k \in keys THEN new ELSE getStateValue(b, k)
    BY <2>3, <1>5 DEF StatesAfter
  <2>5. StateFollowsEvents'
    <3> SUFFICES ASSUME NEW b \in StateAtoms, NEW k \in StateKeys
                 PROVE  /\ said'[<<b, k>>] = SaidNested => getStateValue(b, k)' # kStateUnknown
                        /\ said'[<<b, k>>] # SaidNested => getStateValue(b, k)' = said'[<<b, k>>]
      BY Zenon DEF StateFollowsEvents
    <3>1. /\ said'[<<b, k>>] = IF b = a /\ k \in keys THEN new ELSE said[<<b, k>>]
          /\ getStateValue(b, k)' = IF b = a /\ k \in keys THEN new ELSE getStateValue(b, k)
      BY <2>1, <2>4, Zenon DEF SaidAfter
    <3>2. /\ said[<<b, k>>] = SaidNested => getStateValue(b, k) # kStateUnknown
          /\ said[<<b, k>>] # SaidNested => getStateValue(b, k) = said[<<b, k>>]
      BY <1>1, Zenon DEF HistoryInv, StateFollowsEvents
    <3>3. new # kStateUnknown
      BY StateConstants
    <3>4. CASE b = a /\ k \in keys
      <4>1. said'[<<b, k>>] = new /\ getStateValue(b, k)' = new
        BY <3>1, <3>4, Zenon
      <4> QED
        BY <4>1, <2>2, <3>3, Zenon
    <3>5. CASE ~(b = a /\ k \in keys)
      <4>1. said'[<<b, k>>] = said[<<b, k>>] /\ getStateValue(b, k)' = getStateValue(b, k)
        BY <3>1, <3>5, Zenon
      <4> QED
        BY <4>1, <3>2, Zenon
    <3> QED
      BY <3>4, <3>5
  <2> QED
    BY <2>1, <2>5 DEF HistoryInv, SaidAfter
<1> QED
  BY <1>5, <1>6, InvParts, PTL

\* A state event preserves the invariant.
LEMMA EventStep ==
  ASSUME StatesInv, NEW a \in StateAtoms, NEW k \in StateKeys, NEW new \in Known, NEW nested \in BOOLEAN,
         onStateEvent(a, k, new, nested)
  PROVE  StatesInv'
<1> DEFINE what == IF nested /\ new # kStateUnknown THEN SaidNested ELSE new
<1>1. TrackersInv /\ HistoryInv
  BY InvParts
<1>2. /\ a \in Tracked /\ updateStateForKeys(a, {k}, new, nested) /\ Say(a, {k}, what)
      /\ UNCHANGED liveListeners
  BY DEF onStateEvent
<1>3. TrackersInv' /\ StatesAfter(a, {k}, new, nested)
  <2> HIDE DEF what
  <2>1. {k} \in SUBSET StateKeys
    OBVIOUS
  <2> QED
    BY <2>1, <1>1, <1>2, UpdateKeepsTrackers
<1>4. HistoryInv'
  <2>1. SaidAfter(a, {k}, what)
    <3>1. what \in Known \union {SaidNested} /\ {k} \in SUBSET StateKeys
      OBVIOUS
    <3> HIDE DEF what
    <3> QED
      BY <3>1, <1>1, <1>2, SayType
  <2>2. what = SaidNested => getStateValue(a, k)' # kStateUnknown
    <3>1. what = SaidNested => nested /\ new # kStateUnknown
      BY StateConstants DEF Known
    <3>2. Info(a, k).state = kStateUnknown /\ new # kStateUnknown => Changes(Info(a, k), new, nested)
      BY DEF Changes
    <3> QED
      BY <3>1, <3>2, <1>3 DEF StatesAfter
  <2>3. what # SaidNested => getStateValue(a, k)' = what
    <3>1. what # SaidNested => what = new /\ (nested => new = kStateUnknown)
      OBVIOUS
    <3>2. (nested => new = kStateUnknown) => (Changes(Info(a, k), new, nested) <=> new # Info(a, k).state)
      BY DEF Changes
    <3> QED
      BY <3>1, <3>2, <1>3 DEF StatesAfter
  <2> HIDE DEF what
  <2>4. ASSUME NEW b \in StateAtoms, NEW j \in StateKeys
        PROVE  /\ said'[<<b, j>>] = SaidNested => getStateValue(b, j)' # kStateUnknown
               /\ said'[<<b, j>>] # SaidNested => getStateValue(b, j)' = said'[<<b, j>>]
    <3>1. CASE b = a /\ j = k
      BY <3>1, <2>1, <2>2, <2>3 DEF SaidAfter
    <3>2. CASE ~(b = a /\ j = k)
      <4>1. said'[<<b, j>>] = said[<<b, j>>] /\ getStateValue(b, j)' = getStateValue(b, j)
        BY <3>2, <2>1, <1>3 DEF StatesAfter, SaidAfter
      <4> QED
        BY <4>1, <1>1 DEF HistoryInv, StateFollowsEvents
    <3> QED
      BY <3>1, <3>2
  <2> QED
    BY <2>1, <2>4 DEF HistoryInv, StateFollowsEvents, SaidAfter
<1> QED
  BY <1>3, <1>4, InvParts, PTL

-----------------------------------------------------------------------------
(* Registration *)

\* Registering a listener preserves the invariant.
LEMMA RegisterStep ==
  ASSUME StatesInv, NEW a \in StateAtoms, NEW l \in StateListeners, registerListener(a, l)
  PROVE  StatesInv'
<1> DEFINE map == IF a \in Tracked THEN StateMapOf(a) ELSE [k \in {} |-> 0]
           mine == ListenersOf(a) \union {l}
<1>1. TrackersInv /\ HistoryInv
  BY InvParts
<1>2. /\ mStateTrackers' = [b \in Tracked \union {a} |->
                              IF b # a THEN mStateTrackers[b] ELSE [mStateMap |-> map, mListeners |-> mine]]
      /\ heard' = [x \in DOMAIN heard |->
                     IF x[1] = l /\ x[2] = a THEN getStateValue(a, x[3]) ELSE heard[x]]
      /\ UNCHANGED <<liveListeners, said>>
  BY DEF registerListener
<1>3. /\ DOMAIN map \subseteq StateKeys /\ map = [k \in DOMAIN map |-> map[k]]
      /\ \A k \in DOMAIN map : map[k] \in [state : StateValues, count : Nat \ {0}]
      /\ mine \subseteq StateListeners /\ mine # {}
  BY <1>1 DEF TrackersInv, EntriesKnown, MapsAreFunctions, ListenersOf
<1>4. \A k \in StateKeys : /\ getStateValue(a, k) = IF k \in DOMAIN map THEN map[k].state ELSE kStateUnknown
                           /\ getStateValue(a, k) \in Known
  BY <1>1 DEF getStateValue, Info, TrackersInv, EntriesKnown, Known
<1> HIDE DEF map
<1>5. /\ Tracked' = Tracked \union {a} /\ StateMapOf(a)' = map /\ ListenersOf(a)' = mine
      /\ \A b \in Tracked \ {a} : StateMapOf(b)' = StateMapOf(b) /\ ListenersOf(b)' = ListenersOf(b)
  BY <1>2 DEF Tracked, StateMapOf, ListenersOf
<1>6. \A b \in StateAtoms, k \in StateKeys : getStateValue(b, k)' = getStateValue(b, k)
  <2> SUFFICES ASSUME NEW b \in StateAtoms, NEW k \in StateKeys
               PROVE  getStateValue(b, k)' = getStateValue(b, k)
    OBVIOUS
  <2>1. CASE b = a
    BY <2>1, <1>4, <1>5 DEF getStateValue, Info
  <2>2. CASE b # a
    BY <2>2, <1>5 DEF getStateValue, Info
  <2> QED
    BY <2>1, <2>2
<1>7. heard' \in [StateListeners \X StateAtoms \X StateKeys -> Known]
  BY <1>1, <1>2, <1>4 DEF TrackersInv
<1>8. ListenersUpToDate'
  <2> SUFFICES ASSUME NEW b \in Tracked', NEW m \in ListenersOf(b)' \intersect liveListeners, NEW k \in StateKeys
               PROVE  heard'[<<m, b, k>>] = getStateValue(b, k)'
    BY <1>2 DEF ListenersUpToDate
  <2>1. b \in StateAtoms /\ m \in StateListeners
    BY <1>1, <1>3, <1>5 DEF TrackersInv
  <2>2. <<m, b, k>> \in StateListeners \X StateAtoms \X StateKeys
    BY <2>1
  <2>3. heard'[<<m, b, k>>] = IF m = l /\ b = a THEN getStateValue(a, k) ELSE heard[<<m, b, k>>]
    BY <2>2, <1>1, <1>2 DEF TrackersInv
  <2>4. CASE m = l /\ b = a
    BY <2>1, <2>3, <2>4, <1>6
  <2>5. CASE ~(m = l /\ b = a)
    <3>1. b \in Tracked /\ m \in ListenersOf(b) \intersect liveListeners
      BY <2>5, <1>5 DEF ListenersOf
    <3> QED
      BY <3>1, <2>1, <2>3, <2>5, <1>1, <1>6 DEF TrackersInv, ListenersUpToDate
  <2> QED
    BY <2>4, <2>5
<1>9. EntriesKnown' /\ TrackersHaveListeners'
  BY <1>1, <1>3, <1>5 DEF EntriesKnown, TrackersHaveListeners, TrackersInv
<1>10. MapsAreFunctions'
  <2>1. mStateTrackers' = [b \in Tracked' |-> mStateTrackers'[b]]
    BY <1>2, <1>5
  <2> QED
    BY <2>1, <1>1, <1>3, <1>5 DEF MapsAreFunctions, TrackersInv
<1>11. \A b \in Tracked' : /\ mStateTrackers'[b] = [mStateMap |-> StateMapOf(b)', mListeners |-> ListenersOf(b)']
                           /\ ListenersOf(b)' \subseteq StateListeners /\ DOMAIN StateMapOf(b)' \subseteq StateKeys
  BY <1>1, <1>2, <1>3, <1>5 DEF TrackersInv
<1>12. TrackersInv'
  BY <1>1, <1>2, <1>5, <1>7, <1>8, <1>9, <1>10, <1>11 DEF TrackersInv
<1>13. HistoryInv'
  BY <1>1, <1>2, <1>6 DEF HistoryInv, StateFollowsEvents
<1> QED
  BY <1>12, <1>13, InvParts, PTL

\* Unregistering a listener, with its tracker when it was the last, preserves the invariant.
LEMMA UnregisterStep ==
  ASSUME StatesInv, NEW a \in StateAtoms, NEW l \in StateListeners, unregisterListener(a, l)
  PROVE  StatesInv'
<1> DEFINE others == ListenersOf(a) \ {l}
           gone == {b \in {a} : others = {}}
<1>1. TrackersInv /\ HistoryInv
  BY InvParts
<1>2. /\ mStateTrackers' = [b \in Tracked \ gone |->
           IF b = a THEN [mStateTrackers[a] EXCEPT !.mListeners = others] ELSE mStateTrackers[b]]
      /\ IF gone = {} THEN UNCHANGED said ELSE Say(a, StateKeys, kStateUnknown)
      /\ UNCHANGED <<liveListeners, heard>>
  BY DEF unregisterListener
<1>3. Tracked' = Tracked \ gone
  BY <1>2 DEF Tracked
<1>4. a \in Tracked => [mStateTrackers[a] EXCEPT !.mListeners = others] = [mStateMap |-> StateMapOf(a), mListeners |-> others]
  <2>1. a \in Tracked => mStateTrackers[a] = [mStateMap |-> StateMapOf(a), mListeners |-> ListenersOf(a)]
    BY <1>1 DEF TrackersInv
  <2> HIDE DEF others
  <2> QED
    BY <2>1
<1>5. \A b \in Tracked' : /\ StateMapOf(b)' = StateMapOf(b)
                          /\ ListenersOf(b)' = IF b = a THEN others ELSE ListenersOf(b)
                          /\ mStateTrackers'[b] = [mStateMap |-> StateMapOf(b), mListeners |-> ListenersOf(b)']
  <2> SUFFICES ASSUME NEW b \in Tracked'
               PROVE  /\ StateMapOf(b)' = StateMapOf(b)
                      /\ ListenersOf(b)' = IF b = a THEN others ELSE ListenersOf(b)
                      /\ mStateTrackers'[b] = [mStateMap |-> StateMapOf(b), mListeners |-> ListenersOf(b)']
    OBVIOUS
  <2>1. b \in Tracked /\ b \in Tracked \ gone
    BY <1>3
  <2>2. CASE b = a
    <3>1. mStateTrackers'[b] = [mStateMap |-> StateMapOf(a), mListeners |-> others]
      BY <2>1, <2>2, <1>2, <1>4
    <3> QED
      BY <3>1, <2>2 DEF StateMapOf, ListenersOf
  <2>3. CASE b # a
    <3>1. mStateTrackers'[b] = mStateTrackers[b]
      BY <2>1, <2>3, <1>2
    <3> QED
      BY <3>1, <2>1, <2>3, <1>1 DEF StateMapOf, ListenersOf, TrackersInv
  <2> QED
    BY <2>2, <2>3
<1>6. \A b \in Tracked' : b \in Tracked /\ ListenersOf(b)' \subseteq ListenersOf(b) /\ ListenersOf(b)' # {}
  BY <1>1, <1>3, <1>5 DEF TrackersInv, TrackersHaveListeners
<1> HIDE DEF others, gone
<1>7. \A b \in StateAtoms, k \in StateKeys :
        getStateValue(b, k)' = IF b \in gone THEN kStateUnknown ELSE getStateValue(b, k)
  BY <1>3, <1>5 DEF getStateValue, Info
<1>8. ListenersUpToDate'
  <2> SUFFICES ASSUME NEW b \in Tracked', NEW m \in ListenersOf(b)' \intersect liveListeners, NEW k \in StateKeys
               PROVE  heard[<<m, b, k>>] = getStateValue(b, k)'
    BY <1>2 DEF ListenersUpToDate
  <2>1. b \in Tracked \ gone /\ m \in ListenersOf(b) \intersect liveListeners /\ b \in StateAtoms
    BY <1>1, <1>3, <1>6 DEF TrackersInv
  <2> QED
    BY <2>1, <1>1, <1>7 DEF TrackersInv, ListenersUpToDate
<1>9. EntriesKnown' /\ TrackersHaveListeners'
  BY <1>1, <1>5, <1>6 DEF EntriesKnown, TrackersHaveListeners, TrackersInv
<1>10. MapsAreFunctions'
  <2>1. mStateTrackers' = [b \in Tracked' |-> mStateTrackers'[b]]
    BY <1>2, <1>3
  <2> QED
    BY <2>1, <1>1, <1>5, <1>6 DEF MapsAreFunctions, TrackersInv
<1>11. TrackersInv'
  BY <1>1, <1>2, <1>3, <1>5, <1>6, <1>8, <1>9, <1>10 DEF TrackersInv
<1>12. HistoryInv'
  <2>1. CASE gone = {}
    BY <2>1, <1>1, <1>2, <1>7 DEF HistoryInv, StateFollowsEvents
  <2>2. CASE gone # {}
    <3>1. gone = {a}
      BY <2>2 DEF gone
    <3>2. SaidAfter(a, StateKeys, kStateUnknown)
      BY <2>2, <1>1, <1>2, SayType DEF Known
    <3> QED
      BY <3>1, <3>2, <1>1, <1>7, StateConstants DEF HistoryInv, StateFollowsEvents, SaidAfter
  <2> QED
    BY <2>1, <2>2
<1> QED
  BY <1>11, <1>12, InvParts, PTL

-----------------------------------------------------------------------------
\* The invariant holds initially.
LEMMA StatesInvInit == StateInit => StatesInv
<1> SUFFICES ASSUME StateInit
             PROVE  StatesInv
  OBVIOUS
<1>1. Tracked = {}
  BY DEF StateInit, Tracked
<1>2. TrackersInv
  BY <1>1 DEF StateInit, TrackersInv, EntriesKnown, TrackersHaveListeners, ListenersUpToDate, MapsAreFunctions,
     Tracked, Known
<1>3. HistoryInv
  BY <1>1, StateConstants DEF StateInit, HistoryInv, StateFollowsEvents, getStateValue, Known
<1> QED
  BY <1>2, <1>3, InvParts

\* Steps after which the trackers and the histories are the same, with fewer live listeners.
LEMMA StatesKept ==
  ASSUME StatesInv, UNCHANGED <<mStateTrackers, heard, said>>, liveListeners' \subseteq liveListeners
  PROVE  StatesInv'
  BY DEF StatesInv, StatesHeard, StateTypeOK, EntriesKnown, TrackersHaveListeners, ListenersUpToDate,
     StateFollowsEvents, MapsAreFunctions, Tracked, StateMapOf, ListenersOf, getStateValue, Info

\* Every step preserves the invariant.
LEMMA StatesInvStep == StatesInv /\ [StateNext]_stateVars => StatesInv'
<1> SUFFICES ASSUME StatesInv, [StateNext]_stateVars
             PROVE  StatesInv'
  OBVIOUS
<1>1. ASSUME NEW a \in StateAtoms, onStateEventLost(a)
      PROVE  StatesInv'
  BY <1>1, StatesKept DEF onStateEventLost
<1>2. ASSUME NEW l \in liveListeners, ListenerDies(l)
      PROVE  StatesInv'
  BY <1>2, StatesKept DEF ListenerDies
<1>3. CASE UNCHANGED stateVars
  BY <1>3, StatesKept DEF stateVars
<1> QED
  BY <1>1, <1>2, <1>3, ClearStep, ResetStep, EventStep, RegisterStep, UnregisterStep DEF StateNext, Known

\* What live producers go by is what the trackers hold, and that is what the events of the
\* atom said last (state/StateTracker.cpp, state/StateManager.cpp).
THEOREM StatesAreHeard == StateSpec => []StatesHeard
<1>1. StatesInv => StatesHeard
  BY DEF StatesInv
<1> QED
  BY <1>1, StatesInvInit, StatesInvStep, PTL DEF StateSpec
=============================================================================
