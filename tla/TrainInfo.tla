----------------------------- MODULE TrainInfo -----------------------------
(***************************************************************************)
(* The train info files: StatsLogProcessor::getAndUpdateTrainInfoOnDisk    *)
(* and processWatchdogRollbackOccurred with StorageManager::writeTrainInfo *)
(* and readTrainInfo.  A file is the sequence of its fields; a write may   *)
(* stop after any of them, because it fails or the process dies.           *)
(***************************************************************************)
EXTENDS Integers, Sequences, FiniteSets, SequencesExt

CONSTANTS
  Trains,       \* names of trains, none of which ends with another
  TrainVersions,
  IdLists,      \* the lists of experiment ids that an event may bring
  MaxTrainEvents

ASSUME TrainAssumption == << >> \in IdLists /\ IdLists \subseteq Seq(Int) /\ MaxTrainEvents \in Nat

VARIABLES
  trainFiles,   \* train -> fields of its file
  trainOld,     \* trains whose files are older than the limit
  trainEvents,  \* events so far
  trainLast,    \* history: the last event, its outcome and what was on disk
  trainWhole    \* history: train with a file -> what was written to the end, or nothing

trainVars == <<trainFiles, trainOld, trainEvents, trainLast, trainWhole>>

NoVersion == -1
Flags == BOOLEAN
Statuses == {"INSTALL_SUCCESS", "ROLLBACK_INITIATED", "ROLLBACK_SUCCESS", "OTHER"}

TrainInit ==
  /\ trainFiles = [t \in {} |-> << >>] /\ trainOld = {} /\ trainEvents = 0
  /\ trainLast = [kind |-> "none"] /\ trainWhole = [t \in {} |-> << >>]

\* The fields in the order of writeTrainInfo; the three flags are one.
Encode(info) ==
  <<"magic", info.version, info.status, Len(info.ids)>> \o info.ids \o <<info.flags>>

\* Mutant of Decode: the end of the file is not looked for.
DecodeLoose(f) ==
  IF Len(f) < 4 THEN << >>
  ELSE LET count == f[4]
           ids == SubSeq(f, 5, IF Len(f) < 4 + count THEN Len(f) ELSE 4 + count)
       IN  <<[version |-> f[2], status |-> f[3], ids |-> ids,
              flags |-> IF Len(f) < 5 + count THEN FALSE ELSE f[5 + count]]>>

\* readTrainInfoLocked: the info, if all fields are there and nothing follows.
Decode(f) ==
  IF Len(f) < 4 THEN << >>
  ELSE IF Len(f) # 5 + f[4] THEN << >>
  ELSE <<[version |-> f[2], status |-> f[3], ids |-> SubSeq(f, 5, 4 + f[4]), flags |-> f[5 + f[4]]]>>

\* readTrainInfo deletes the files that are too old first.
Kept == [t \in DOMAIN trainFiles \ trainOld |-> trainFiles[t]]
findTrainInfoFileName(t) == {u \in DOMAIN Kept : u = t}
readTrainInfo(t) == IF findTrainInfoFileName(t) = {} THEN << >> ELSE Decode(Kept[t])

\* writeTrainInfo: the old file is deleted; of the new one, cut fields are written.
writeTrainInfo(t, info, cut) ==
  /\ trainFiles' = [u \in DOMAIN Kept \union {t} |->
                      IF u = t THEN SubSeq(Encode(info), 1, cut) ELSE Kept[u]]
  /\ trainWhole' = [u \in (DOMAIN trainWhole \ trainOld) \union {t} |->
                      IF u # t THEN trainWhole[u]
                      ELSE IF cut = Len(Encode(info)) THEN <<info>> ELSE << >>]
  /\ trainOld' = {}

AppendOnce(ids, id) == IF Contains(ids, id) THEN ids ELSE Append(ids, id)

resetExperimentIds(ev, disk) ==
  \/ ev.version # NoVersion /\ ev.version # disk.version
  \/ ev.ids # << >> /\ (disk.ids = << >> \/ Head(ev.ids) # Head(disk.ids))

experimentIds(ev, read) ==
  IF read # << >> /\ (~resetExperimentIds(ev, read[1]) \/ ev.rollback) THEN read[1].ids ELSE ev.ids

Offset(status) ==
  CASE status = "INSTALL_SUCCESS" -> 1 [] status = "ROLLBACK_INITIATED" -> 2
    [] status = "ROLLBACK_SUCCESS" -> 3 [] OTHER -> 0

\* The info that is written.  Without a file, a rollback writes flags that were never
\* set: any flags, as those of the event may be.
Updated(ev, read) ==
  LET ids == experimentIds(ev, read)
  IN  [version |-> IF read # << >> /\ ev.version = NoVersion THEN read[1].version ELSE ev.version,
       status |-> ev.status,
       ids |-> IF ids # << >> /\ Offset(ev.status) > 0
                 THEN AppendOnce(ids, Head(ids) + Offset(ev.status)) ELSE ids,
       flags |-> IF ev.rollback /\ read # << >> THEN read[1].flags ELSE ev.flags]

\* onBinaryPushStateChangedEventLocked for an event that names its train.
onBinaryPushStateChanged ==
  /\ trainEvents < MaxTrainEvents /\ trainEvents' = trainEvents + 1
  /\ \E t \in Trains, v \in TrainVersions \union {NoVersion}, ids \in IdLists,
        s \in Statuses, r \in BOOLEAN, flags \in Flags :
       LET ev == [version |-> v, status |-> s, rollback |-> r, flags |-> flags, ids |-> ids]
           read == readTrainInfo(t)
           info == Updated(ev, read)
       IN  \E cut \in 0 .. Len(Encode(info)) :
             /\ writeTrainInfo(t, info, cut)
             /\ trainLast' = [kind |-> "push", event |-> ev, read |-> read, info |-> info,
                              whole |-> IF t \in DOMAIN trainWhole \ trainOld THEN trainWhole[t] ELSE << >>]

RollbackOffset == [ROLLBACK_INITIATE |-> 4, ROLLBACK_SUCCESS |-> 5]

\* processWatchdogRollbackOccurred for a type that is recorded.
onWatchdogRollbackOccurred ==
  /\ trainEvents < MaxTrainEvents /\ trainEvents' = trainEvents + 1
  /\ \E t \in Trains, type \in DOMAIN RollbackOffset :
       LET read == readTrainInfo(t)
           info == [read[1] EXCEPT !.ids = AppendOnce(@, Head(@) + RollbackOffset[type])]
       IN  /\ read # << >> /\ read[1].ids # << >>
           /\ \E cut \in 0 .. Len(Encode(info)) :
                /\ writeTrainInfo(t, info, cut)
                /\ trainLast' = [kind |-> "rollback", read |-> read, info |-> info,
                     whole |-> IF t \in DOMAIN trainWhole \ trainOld THEN trainWhole[t] ELSE << >>]

\* Files grow too old.
TrainAge ==
  /\ \E t \in DOMAIN trainFiles \ trainOld : trainOld' = trainOld \union {t}
  /\ UNCHANGED <<trainFiles, trainEvents, trainLast, trainWhole>>

TrainNext == onBinaryPushStateChanged \/ onWatchdogRollbackOccurred \/ TrainAge

TrainSpec == TrainInit /\ [][TrainNext]_trainVars

-----------------------------------------------------------------------------
\* What is read back is what the last complete write wrote; after a write that was
\* cut short nothing is read (readTrainInfoLocked).
TornIsUnreadable == trainLast.kind # "none" => trainLast.read = trainLast.whole

\* A list that an event brings, and after it ids 1 to 5 above its first one, which are
\* not there before.
OfOneExperiment(ids) ==
  \E list \in IdLists :
    /\ Len(list) <= Len(ids)
    /\ \A i \in 1 .. Len(ids) :
         IF i <= Len(list) THEN ids[i] = list[i]
         ELSE ids[i] - ids[1] \in 1 .. 5 /\ \A j \in 1 .. (i - 1) : ids[j] # ids[i]

\* The experiment ids of a train are the list of one event, never a mix of two, and
\* what statsd adds to it, once each, whatever sequence of pushes and rollbacks
\* there was.
IdsOfOneExperiment == trainLast.kind # "none" => OfOneExperiment(trainLast.info.ids)

\* The experiment goes on: with a file that can be read, only a push that is no
\* rollback and brings a new version or a different id changes the first id.
ExperimentKept ==
  (trainLast.kind = "push" /\ trainLast.read # << >>) =>
    LET old == trainLast.read[1]  ev == trainLast.event
        other == \/ ev.version \in TrainVersions \ {old.version}
                 \/ ev.ids # << >> /\ (old.ids = << >> \/ Head(ev.ids) # Head(old.ids))
    IN  (ev.rollback \/ ~other) => IsPrefix(old.ids, trainLast.info.ids)

\* Pushes, rollbacks and files cut short in any order leave the ids of one
\* experiment, the one that is going on, or a file that does not read.
TrainInfoSound == TornIsUnreadable /\ IdsOfOneExperiment /\ ExperimentKept
=============================================================================
