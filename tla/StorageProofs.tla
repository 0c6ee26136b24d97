--------------------------- MODULE StorageProofs ----------------------------
(***************************************************************************)
(* What statsd keeps on disk besides configs and reports: train info       *)
(* (TrainInfo), the database of a restricted config (RestrictedData), the  *)
(* receivers of its delegates (RestrictedReceivers), and the refractory    *)
(* periods of an alert (AnomalyTracker).                                   *)
(*                                                                         *)
(* What is read of a train info file, and the experiment ids it holds, for *)
(* any trains, versions, ids and number of events: the argument rests on   *)
(* the round trip of the file format, torn files included                  *)
(* (DecodeOfWritten), and on one invariant, that of every file: it decodes *)
(* to what was last written to the end, whose ids are of one experiment.   *)
(*                                                                         *)
(* Restricted events, for any categories, schemas and limits: the handlers *)
(* chain operations on producer and database as one value, so each         *)
(* operation is shown to keep StoreOK, and to hold nothing that was not    *)
(* held before (Shrinks) unless it takes an event or starts a producer.    *)
(*                                                                         *)
(* Receivers, for any delegates: a delegate knows the metrics, or a        *)
(* broadcast on its way has them and the intent that is registered.        *)
(*                                                                         *)
(* Refractory periods, for any period, length of a second and offset of    *)
(* the wall clock: the entry lasts till the end of the silence             *)
(* (EntryLasts), and so does what was written of it (FileLasts), whose     *)
(* seconds are those of another clock; a restart costs at most a second.   *)
(***************************************************************************)
EXTENDS AnomalyTracker, TrainInfo, RestrictedData, RestrictedReceivers, SequenceTheorems, TLAPS

\* The ids of one experiment: the list that an event brought, and ids 1 to 5 above its
\* first, once each.
OneExperiment(ids) == ids \in Seq(Int) /\ OfOneExperiment(ids)

InfoRecords == [version : TrainVersions \union {NoVersion}, status : Statuses, ids : Seq(Int), flags : Flags]
Infos == {info \in InfoRecords : OneExperiment(info.ids)}

\* What a file decodes to, when it does.
Whole(w) == w = << >> \/ \E info \in Infos : w = <<info>>

FilesInv ==
  /\ DOMAIN trainWhole = DOMAIN trainFiles
  /\ \A t \in DOMAIN trainFiles : Decode(trainFiles[t]) = trainWhole[t] /\ Whole(trainWhole[t])

TrainInv == FilesInv /\ TrainInfoSound

-----------------------------------------------------------------------------
(* The file format. *)

\* The fields of a file, one by one.
LEMMA EncodeFields ==
  ASSUME NEW info \in Infos
  PROVE  /\ Encode(info) \in Seq({"magic"} \union TrainVersions \union {NoVersion} \union Statuses \union Int \union Flags)
         /\ Len(Encode(info)) = 5 + Len(info.ids)
         /\ Encode(info)[2] = info.version /\ Encode(info)[3] = info.status
         /\ Encode(info)[4] = Len(info.ids)
         /\ \A i \in 1 .. Len(info.ids) : Encode(info)[4 + i] = info.ids[i]
         /\ Encode(info)[5 + Len(info.ids)] = info.flags
<1> DEFINE Fields == {"magic"} \union TrainVersions \union {NoVersion} \union Statuses \union Int \union Flags
           ids == info.ids
           n == Len(ids)
           head == <<"magic", info.version, info.status, n>>
           body == head \o ids
           all == body \o <<info.flags>>
<1>1. /\ info.version \in Fields /\ info.status \in Fields /\ info.flags \in Fields
      /\ ids \in Seq(Int) /\ n \in Nat
  BY DEF Infos, InfoRecords
<1>2. ids \in Seq(Fields)
  BY <1>1
<1>3. head \in Seq(Fields) /\ Len(head) = 4
      /\ head[2] = info.version /\ head[3] = info.status /\ head[4] = n
  BY <1>1
<1>4. <<info.flags>> \in Seq(Fields) /\ Len(<<info.flags>>) = 1 /\ <<info.flags>>[1] = info.flags
  BY <1>1
<1> HIDE DEF Fields, head, n
<1>5. /\ body \in Seq(Fields) /\ Len(body) = 4 + n
      /\ body[2] = info.version /\ body[3] = info.status /\ body[4] = n
      /\ \A i \in 1 .. n : body[4 + i] = ids[i]
  <2> HIDE DEF ids
  <2>1. /\ body \in Seq(Fields) /\ Len(body) = Len(head) + Len(ids)
        /\ \A i \in 1 .. Len(head) + Len(ids) :
             body[i] = IF i <= Len(head) THEN head[i] ELSE ids[i - Len(head)]
    BY <1>2, <1>3, ConcatProperties
  <2>2. /\ Len(body) = 4 + n
        /\ \A i \in 1 .. 4 + n : body[i] = IF i <= 4 THEN head[i] ELSE ids[i - 4]
    BY <2>1, <1>3 DEF n
  <2> HIDE DEF body
  <2>3. body[2] = head[2] /\ body[3] = head[3] /\ body[4] = head[4]
    BY <2>2, <1>1
  <2>4. ASSUME NEW i \in 1 .. n PROVE body[4 + i] = ids[i]
    <3>1. 4 + i \in 1 .. 4 + n /\ ~(4 + i <= 4) /\ (4 + i) - 4 = i
      BY <1>1
    <3> QED BY <3>1, <2>2
  <2> QED
    BY <2>1, <2>2, <2>3, <2>4, <1>3
<1>6. Encode(info) = all
  BY DEF Encode, head, n
<1> HIDE DEF body
<1>7. /\ all \in Seq(Fields) /\ Len(all) = 5 + n
      /\ \A i \in 1 .. 4 + n : all[i] = body[i]
      /\ all[5 + n] = info.flags
  BY <1>1, <1>4, <1>5
<1> HIDE DEF all
<1>8. all[2] = info.version /\ all[3] = info.status /\ all[4] = n
  <2>1. 2 \in 1 .. 4 + n /\ 3 \in 1 .. 4 + n /\ 4 \in 1 .. 4 + n
    BY <1>1 DEF n
  <2> QED
    BY <2>1, <1>5, <1>7
<1>9. ASSUME NEW i \in 1 .. n PROVE all[4 + i] = ids[i]
  <2>1. 4 + i \in 1 .. 4 + n
    BY <1>1 DEF n
  <2> QED
    BY <2>1, <1>5, <1>7
<1>10. Encode(info) \in Seq(Fields) /\ Len(Encode(info)) = 5 + n
  BY <1>6, <1>7
<1> QED
  BY <1>6, <1>7, <1>8, <1>9, <1>10, Zenon DEF n, Fields

\* A file that was written to the end is read as it was written, one that was cut
\* short is not read (readTrainInfoLocked).
LEMMA DecodeOfWritten ==
  ASSUME NEW info \in Infos, NEW cut \in 0 .. Len(Encode(info))
  PROVE  Decode(SubSeq(Encode(info), 1, cut)) = IF cut = Len(Encode(info)) THEN <<info>> ELSE << >>
<1> DEFINE Fields == {"magic"} \union TrainVersions \union {NoVersion} \union Statuses \union Int \union Flags
           enc == Encode(info)
           n == Len(info.ids)
           f == SubSeq(enc, 1, cut)
<1>1. /\ enc \in Seq(Fields) /\ Len(enc) = 5 + n
      /\ enc[2] = info.version /\ enc[3] = info.status /\ enc[4] = n
      /\ \A i \in 1 .. n : enc[4 + i] = info.ids[i]
      /\ enc[5 + n] = info.flags
  BY EncodeFields
<1>2. info.ids \in Seq(Int) /\ n \in Nat
  BY DEF Infos, InfoRecords
<1>3. cut \in 0 .. 5 + n
  BY <1>1
<1> HIDE DEF enc, n, Fields
<1>4. Len(f) = cut /\ \A i \in 1 .. cut : f[i] = enc[i]
  BY <1>1, <1>2, <1>3
<1>5. CASE cut < 4
  <2>1. Decode(f) = << >>
    BY <1>4, <1>5, <1>3 DEF Decode
  <2> QED
    BY <2>1, <1>1, <1>2, <1>5 DEF enc
<1>6. CASE cut >= 4 /\ cut # 5 + n
  <2> HIDE DEF f
  <2>1. f[4] = n
    BY <1>4, <1>6, <1>1, <1>3
  <2>2. ~(Len(f) < 4) /\ Len(f) # 5 + f[4]
    BY <1>4, <1>6, <1>3, <2>1
  <2>3. Decode(f) = << >>
    BY <2>2, Zenon DEF Decode
  <2> QED
    BY <2>3, <1>1, <1>2, <1>6 DEF enc, f
<1>7. CASE cut = 5 + n
  <2> HIDE DEF f
  <2>1. f[2] = info.version /\ f[3] = info.status /\ f[4] = n /\ f[5 + n] = info.flags
    BY <1>4, <1>7, <1>1, <1>2
  <2>2. f \in Seq(Fields)
    BY <1>1, <1>2, <1>7 DEF f
  <2>3. SubSeq(f, 5, 4 + n) = info.ids
    <3> DEFINE s == SubSeq(f, 5, 4 + n)
    <3>1. s \in Seq(Fields) /\ Len(s) = n
      <4>1. 5 \in 1 .. Len(f) /\ 4 + n \in 4 .. Len(f) /\ Len(f) = 5 + n
        BY <1>2, <1>4, <1>7
      <4>2. s \in Seq(Fields)
        BY <2>2, <4>1, <1>2
      <4>3. Len(s) = n
        BY <2>2, <4>1, <1>2
      <4> QED
        BY <4>2, <4>3
    <3>2. ASSUME NEW i \in 1 .. n PROVE s[i] = f[4 + i]
      <4>1. Len(f) = 5 + n
        BY <1>4, <1>7
      <4> QED
        BY <4>1, <2>2, <1>2
    <3>3. \A i \in 1 .. n : f[4 + i] = info.ids[i]
      <4>1. \A i \in 1 .. n : 4 + i \in 1 .. cut
        BY <1>2, <1>7
      <4>2. \A i \in 1 .. n : f[4 + i] = enc[4 + i]
        BY <4>1, <1>4
      <4> QED
        BY <4>2, <1>1
    <3> HIDE DEF s
    <3>4. s = info.ids
      <4>1. info.ids \in Seq(Fields)
        BY <1>2 DEF Fields
      <4>2. Len(info.ids) = n
        BY DEF n
      <4> DEFINE ids == info.ids
      <4> HIDE DEF ids
      <4>3. s = ids
        <5>1. ids \in Seq(Fields) /\ Len(s) = Len(ids) /\ \A i \in 1 .. Len(s) : s[i] = ids[i]
          BY <4>1, <4>2, <3>1, <3>2, <3>3 DEF ids
        <5> QED BY <5>1, <3>1, SeqEqual
      <4> QED BY <4>3 DEF ids
    <3> QED
      BY <3>4 DEF s
  <2>4. ~(Len(f) < 4) /\ Len(f) = 5 + f[4]
    BY <1>4, <1>7, <1>2, <2>1
  <2>5. Decode(f) = <<[version |-> f[2], status |-> f[3], ids |-> SubSeq(f, 5, 4 + f[4]), flags |-> f[5 + f[4]]]>>
    BY <2>4, Zenon DEF Decode
  <2>6. info = [version |-> info.version, status |-> info.status, ids |-> info.ids, flags |-> info.flags]
    BY DEF Infos, InfoRecords
  <2>7. Decode(f) = <<info>>
    BY <2>1, <2>3, <2>5, <2>6
  <2> QED
    BY <2>7, <1>1, <1>7 DEF enc, f
<1> QED
  BY <1>3, <1>2, <1>5, <1>6, <1>7

-----------------------------------------------------------------------------
(* The experiment ids. *)

\* An id up to 5 above the first keeps the ids those of one experiment.
LEMMA AppendOnceKeeps ==
  ASSUME NEW ids, OneExperiment(ids), ids # << >>, NEW k \in 1 .. 5
  PROVE  /\ OneExperiment(AppendOnce(ids, Head(ids) + k))
         /\ IsPrefix(ids, AppendOnce(ids, Head(ids) + k))
<1> DEFINE id == Head(ids) + k
           new == Append(ids, id)
           n == Len(ids)
<1>1. /\ ids \in Seq(Int) /\ n \in Nat \ {0} /\ Head(ids) = ids[1] /\ ids[1] \in Int
      /\ \A i \in 1 .. n : ids[i] \in Int
      /\ id \in Int /\ id = ids[1] + k
  BY DEF OneExperiment
<1>2. IsPrefix(ids, ids)
  BY <1>1 DEF IsPrefix
<1>3. CASE Contains(ids, id)
  <2>1. AppendOnce(ids, id) = ids
    BY <1>3, Zenon DEF AppendOnce
  <2> QED
    BY <2>1, <1>2
<1>4. CASE ~Contains(ids, id)
  <2> HIDE DEF id
  <2>1. AppendOnce(ids, id) = new
    BY <1>4, Zenon DEF AppendOnce
  <2>2. \A i \in 1 .. n : ids[i] # id
    BY <1>4, Zenon DEF Contains
  <2>3. /\ new \in Seq(Int) /\ Len(new) = n + 1 /\ new[n + 1] = id
        /\ \A i \in 1 .. n : new[i] = ids[i]
    BY <1>1
  <2> HIDE DEF new, n
  <2>4. OneExperiment(new)
    <3>1. PICK list \in IdLists :
            /\ Len(list) <= n
            /\ \A i \in 1 .. n :
                 IF i <= Len(list) THEN ids[i] = list[i]
                 ELSE ids[i] - ids[1] \in 1 .. 5 /\ \A j \in 1 .. (i - 1) : ids[j] # ids[i]
      BY DEF OneExperiment, OfOneExperiment, n
    <3>2. Len(list) \in Nat
      BY TrainAssumption
    <3>3. 1 \in 1 .. n /\ new[1] = ids[1]
      BY <1>1, <2>3
    <3>4. ASSUME NEW i \in 1 .. n + 1
          PROVE  IF i <= Len(list) THEN new[i] = list[i]
                 ELSE new[i] - new[1] \in 1 .. 5 /\ \A j \in 1 .. (i - 1) : new[j] # new[i]
      <4>1. CASE i \in 1 .. n
        <5>1. \A j \in 1 .. (i - 1) : j \in 1 .. n
          BY <1>1, <4>1
        <5> QED
          BY <5>1, <4>1, <3>1, <3>3, <2>3
      <4>2. CASE i = n + 1
        <5>1. ~(i <= Len(list))
          BY <4>2, <3>1, <3>2, <1>1
        <5>2. new[i] - new[1] \in 1 .. 5
          BY <4>2, <3>3, <2>3, <1>1
        <5>3. \A j \in 1 .. (i - 1) : new[j] # new[i]
          BY <4>2, <2>2, <2>3, <1>1
        <5> QED
          BY <5>1, <5>2, <5>3
      <4> QED
        BY <4>1, <4>2, <1>1
    <3>5. Len(list) <= Len(new)
      BY <3>1, <3>2, <2>3, <1>1
    <3> QED
      BY <2>3, <3>4, <3>5 DEF OneExperiment, OfOneExperiment
  <2>5. IsPrefix(ids, new)
    <3>1. Len(ids) <= Len(new)
      BY <2>3, <1>1 DEF n
    <3>2. SubSeq(ids, 1, n) = SubSeq(new, 1, n)
      BY <2>3, <1>1 DEF n
    <3> QED
      BY <3>1, <3>2 DEF IsPrefix, n
  <2> QED
    BY <2>1, <2>4, <2>5 DEF id
<1> QED
  BY <1>3, <1>4

\* The events that onBinaryPushStateChanged takes.
PushEvents ==
  [version : TrainVersions \union {NoVersion}, status : Statuses, rollback : BOOLEAN, flags : Flags,
   ids : IdLists]

\* The ids of an event are those of one experiment, that it starts.
LEMMA EventIds ==
  ASSUME NEW ev \in PushEvents PROVE OneExperiment(ev.ids)
<1>1. ev.ids \in IdLists /\ ev.ids \in Seq(Int) /\ Len(ev.ids) \in Nat
  BY TrainAssumption DEF PushEvents
<1> QED
  BY <1>1 DEF OneExperiment, OfOneExperiment

\* The info that a push writes is of one experiment, and it is the one of the file
\* unless the push starts another.
LEMMA UpdatedKeeps ==
  ASSUME NEW ev \in PushEvents, NEW read, Whole(read)
  PROVE  /\ Updated(ev, read) \in Infos
         /\ read # << >> /\ (ev.rollback \/ ~resetExperimentIds(ev, read[1]))
              => IsPrefix(read[1].ids, Updated(ev, read).ids)
<1> DEFINE ids == experimentIds(ev, read)
           new == Updated(ev, read)
<1>1. read # << >> => /\ read[1] \in InfoRecords /\ OneExperiment(read[1].ids)
  BY DEF Whole, Infos
<1>2. OneExperiment(ids)
  BY <1>1, EventIds DEF experimentIds
<1>3. read # << >> /\ (ev.rollback \/ ~resetExperimentIds(ev, read[1])) => ids = read[1].ids
  BY Zenon DEF experimentIds
<1>4. Offset(ev.status) \in 0 .. 3
  BY DEF Offset, PushEvents, Statuses
<1> HIDE DEF ids
<1>5. /\ new.version \in TrainVersions \union {NoVersion} /\ new.status \in Statuses /\ new.flags \in Flags
  <2>1. /\ ev.version \in TrainVersions \union {NoVersion} /\ ev.status \in Statuses /\ ev.flags \in Flags
    BY DEF PushEvents
  <2>2. read # << >> => /\ read[1].version \in TrainVersions \union {NoVersion} /\ read[1].flags \in Flags
    BY <1>1 DEF InfoRecords
  <2> QED
    BY <2>1, <2>2 DEF Updated
<1>6. OneExperiment(new.ids) /\ IsPrefix(ids, new.ids)
  <2>1. CASE ids # << >> /\ Offset(ev.status) > 0
    <3>1. new.ids = AppendOnce(ids, Head(ids) + Offset(ev.status))
      BY <2>1 DEF Updated, ids
    <3>2. Offset(ev.status) \in 1 .. 5
      BY <1>4, <2>1
    <3> QED
      BY <3>1, <3>2, <1>2, <2>1, AppendOnceKeeps
  <2>2. CASE ~(ids # << >> /\ Offset(ev.status) > 0)
    <3>1. new.ids = ids
      BY <2>2 DEF Updated, ids
    <3>2. IsPrefix(ids, ids)
      BY <1>2 DEF OneExperiment, IsPrefix
    <3> QED
      BY <3>1, <3>2, <1>2
  <2> QED
    BY <2>1, <2>2
<1>7. new = [version |-> new.version, status |-> new.status, ids |-> new.ids, flags |-> new.flags]
  BY DEF Updated
<1> HIDE DEF new
<1>8. new \in Infos
  <2>1. new.ids \in Seq(Int)
    BY <1>6 DEF OneExperiment
  <2>2. new \in InfoRecords
    BY <1>5, <1>7, <2>1 DEF InfoRecords
  <2> QED
    BY <2>2, <1>6 DEF Infos
<1> QED
  BY <1>3, <1>6, <1>8 DEF new

-----------------------------------------------------------------------------
(* The files. *)

OnDisk(t) == IF t \in DOMAIN trainWhole \ trainOld THEN trainWhole[t] ELSE << >>

\* What is read is what was last written to the end and is not too old.
LEMMA ReadIsWhole ==
  ASSUME FilesInv, NEW t
  PROVE  readTrainInfo(t) = OnDisk(t) /\ Whole(readTrainInfo(t))
<1>1. DOMAIN Kept = DOMAIN trainFiles \ trainOld
  BY DEF Kept
<1>2. CASE t \in DOMAIN trainFiles \ trainOld
  <2>1. findTrainInfoFileName(t) # {}
    BY <1>1, <1>2 DEF findTrainInfoFileName
  <2>2. readTrainInfo(t) = Decode(trainFiles[t])
    BY <2>1, <1>2 DEF readTrainInfo, Kept
  <2> QED
    BY <2>2, <1>2 DEF FilesInv, OnDisk
<1>3. CASE t \notin DOMAIN trainFiles \ trainOld
  <2>1. findTrainInfoFileName(t) = {}
    BY <1>1, <1>3 DEF findTrainInfoFileName
  <2>2. readTrainInfo(t) = << >>
    BY <2>1 DEF readTrainInfo
  <2> QED
    BY <2>2, <1>3 DEF FilesInv, OnDisk, Whole
<1> QED
  BY <1>2, <1>3

\* A write, wherever it stops, leaves files that read as they were written or not.
LEMMA WriteKeepsFiles ==
  ASSUME FilesInv, NEW t, NEW info \in Infos, NEW cut \in 0 .. Len(Encode(info)),
         writeTrainInfo(t, info, cut)
  PROVE  FilesInv'
<1> DEFINE fields == SubSeq(Encode(info), 1, cut)
           whole == IF cut = Len(Encode(info)) THEN <<info>> ELSE << >>
<1>1. Decode(fields) = whole
  BY DecodeOfWritten
<1>2. Whole(whole)
  BY DEF Whole
<1>3. /\ trainFiles' = [u \in (DOMAIN trainFiles \ trainOld) \union {t} |->
                          IF u = t THEN fields ELSE Kept[u]]
      /\ trainWhole' = [u \in (DOMAIN trainWhole \ trainOld) \union {t} |->
                          IF u # t THEN trainWhole[u] ELSE whole]
  BY DEF writeTrainInfo, Kept
<1> HIDE DEF fields, whole
<1>4. DOMAIN trainWhole' = DOMAIN trainFiles'
  BY <1>3 DEF FilesInv
<1>5. ASSUME NEW u \in DOMAIN trainFiles'
      PROVE  Decode(trainFiles'[u]) = trainWhole'[u] /\ Whole(trainWhole'[u])
  <2>1. CASE u = t
    <3>1. trainFiles'[u] = fields /\ trainWhole'[u] = whole
      BY <2>1, <1>3
    <3> QED
      BY <3>1, <1>1, <1>2
  <2>2. CASE u # t
    <3>1. u \in DOMAIN trainFiles \ trainOld
      BY <1>3, <2>2
    <3>2. trainFiles'[u] = trainFiles[u] /\ trainWhole'[u] = trainWhole[u]
      BY <1>3, <2>2, <3>1 DEF FilesInv, Kept
    <3> QED
      BY <3>1, <3>2 DEF FilesInv
  <2> QED
    BY <2>1, <2>2
<1> QED
  BY <1>4, <1>5 DEF FilesInv, Whole

\* The ids of an info are as IdsOfOneExperiment has them.
LEMMA IdsOfInfo ==
  ASSUME NEW info \in Infos
  PROVE  OfOneExperiment(info.ids)
BY DEF Infos, OneExperiment

\* A push of a train's state preserves the invariant.
LEMMA PushStep ==
  ASSUME TrainInv, onBinaryPushStateChanged PROVE TrainInv'
<1>1. PICK t \in Trains, v \in TrainVersions \union {NoVersion}, ids \in IdLists,
           st \in Statuses, r \in BOOLEAN, flags \in Flags :
        LET ev == [version |-> v, status |-> st, rollback |-> r, flags |-> flags, ids |-> ids]
            read == readTrainInfo(t)
            info == Updated(ev, read)
        IN  \E cut \in 0 .. Len(Encode(info)) :
              /\ writeTrainInfo(t, info, cut)
              /\ trainLast' = [kind |-> "push", event |-> ev, read |-> read, info |-> info,
                               whole |-> OnDisk(t)]
  BY Zenon DEF onBinaryPushStateChanged, OnDisk
<1>2. PICK ev : ev = [version |-> v, status |-> st, rollback |-> r, flags |-> flags, ids |-> ids]
  OBVIOUS
<1>3. PICK read : read = readTrainInfo(t)
  OBVIOUS
<1>4. PICK info : info = Updated(ev, read)
  OBVIOUS
<1>5. PICK cut \in 0 .. Len(Encode(info)) :
        /\ writeTrainInfo(t, info, cut)
        /\ trainLast' = [kind |-> "push", event |-> ev, read |-> read, info |-> info, whole |-> OnDisk(t)]
  BY <1>1, <1>2, <1>3, <1>4, Zenon
<1>6. ev \in PushEvents
  BY <1>2 DEF PushEvents
<1>7. read = OnDisk(t) /\ Whole(read)
  BY <1>3, ReadIsWhole DEF TrainInv
<1>8. /\ info \in Infos
      /\ read # << >> /\ (ev.rollback \/ ~resetExperimentIds(ev, read[1])) => IsPrefix(read[1].ids, info.ids)
  BY <1>4, <1>6, <1>7, UpdatedKeeps, Zenon
<1>9. FilesInv'
  BY <1>5, <1>8, WriteKeepsFiles DEF TrainInv
<1>10. /\ trainLast'.kind = "push" /\ trainLast'.event = ev /\ trainLast'.read = read
       /\ trainLast'.info = info /\ trainLast'.whole = OnDisk(t)
  BY <1>5
<1>11. TornIsUnreadable'
  BY <1>7, <1>10 DEF TornIsUnreadable
<1>12. IdsOfOneExperiment'
  BY <1>8, <1>10, IdsOfInfo DEF IdsOfOneExperiment
<1>13. ExperimentKept'
  <2>1. ASSUME read # << >>,
               ev.rollback \/ ~(\/ ev.version \in TrainVersions \ {read[1].version}
                                \/ ev.ids # << >> /\ (read[1].ids = << >> \/ Head(ev.ids) # Head(read[1].ids)))
        PROVE  IsPrefix(read[1].ids, info.ids)
    <3>1. ev.version \in TrainVersions \union {NoVersion}
      BY <1>6 DEF PushEvents
    <3>2. ev.rollback \/ ~resetExperimentIds(ev, read[1])
      BY <2>1, <3>1 DEF resetExperimentIds
    <3> QED
      BY <1>8, <2>1, <3>2
  <2> QED
    BY <1>10, <2>1 DEF ExperimentKept
<1> QED
  BY <1>9, <1>11, <1>12, <1>13 DEF TrainInv, TrainInfoSound

\* A rollback that the watchdog reports preserves the invariant.
LEMMA RollbackStep ==
  ASSUME TrainInv, onWatchdogRollbackOccurred PROVE TrainInv'
<1>1. PICK t \in Trains, type \in DOMAIN RollbackOffset :
        LET read == readTrainInfo(t)
            info == [read[1] EXCEPT !.ids = AppendOnce(@, Head(@) + RollbackOffset[type])]
        IN  /\ read # << >> /\ read[1].ids # << >>
            /\ \E cut \in 0 .. Len(Encode(info)) :
                 /\ writeTrainInfo(t, info, cut)
                 /\ trainLast' = [kind |-> "rollback", read |-> read, info |-> info, whole |-> OnDisk(t)]
  BY Zenon DEF onWatchdogRollbackOccurred, OnDisk
<1>2. PICK read : read = readTrainInfo(t)
  OBVIOUS
<1>3. PICK info : info = [read[1] EXCEPT !.ids = AppendOnce(@, Head(@) + RollbackOffset[type])]
  OBVIOUS
<1>4. /\ read # << >> /\ read[1].ids # << >>
      /\ \E cut \in 0 .. Len(Encode(info)) :
           /\ writeTrainInfo(t, info, cut)
           /\ trainLast' = [kind |-> "rollback", read |-> read, info |-> info, whole |-> OnDisk(t)]
  BY <1>1, <1>2, <1>3, Zenon
<1>5. PICK cut \in 0 .. Len(Encode(info)) :
        /\ writeTrainInfo(t, info, cut)
        /\ trainLast' = [kind |-> "rollback", read |-> read, info |-> info, whole |-> OnDisk(t)]
  BY <1>4, Zenon
<1>6. read = OnDisk(t) /\ Whole(read)
  BY <1>2, ReadIsWhole DEF TrainInv
<1>7. info \in Infos
  <2>1. read[1] \in InfoRecords /\ OneExperiment(read[1].ids)
    BY <1>4, <1>6 DEF Whole, Infos
  <2>2. RollbackOffset[type] \in 1 .. 5
    BY DEF RollbackOffset
  <2> DEFINE ids == AppendOnce(read[1].ids, Head(read[1].ids) + RollbackOffset[type])
  <2>3. OneExperiment(ids)
    BY <2>1, <2>2, <1>4, AppendOnceKeeps
  <2>4. ids \in Seq(Int)
    BY <2>3 DEF OneExperiment
  <2> HIDE DEF ids
  <2>5. info = [read[1] EXCEPT !.ids = ids]
    BY <1>3, Zenon DEF ids
  <2>6. info \in InfoRecords /\ info.ids = ids
    BY <2>1, <2>4, <2>5 DEF InfoRecords
  <2> QED
    BY <2>3, <2>6 DEF Infos
<1>8. FilesInv'
  BY <1>5, <1>7, WriteKeepsFiles DEF TrainInv
<1>9. /\ trainLast'.kind = "rollback" /\ trainLast'.read = read
      /\ trainLast'.info = info /\ trainLast'.whole = OnDisk(t)
  BY <1>5
<1>10. TornIsUnreadable'
  BY <1>6, <1>9 DEF TornIsUnreadable
<1>11. IdsOfOneExperiment'
  BY <1>7, <1>9, IdsOfInfo DEF IdsOfOneExperiment
<1>12. ExperimentKept'
  BY <1>9 DEF ExperimentKept
<1> QED
  BY <1>8, <1>10, <1>11, <1>12 DEF TrainInv, TrainInfoSound

\* Whatever pushes and rollbacks come, and wherever a write stops, a file that is
\* read is one that was written to the end, and the ids that are written are those
\* of the experiment that is going on (getAndUpdateTrainInfoOnDisk,
\* processWatchdogRollbackOccurred).
THEOREM TrainInfoIsSound == TrainSpec => []TrainInfoSound
<1>1. TrainInit => TrainInv
  BY DEF TrainInit, TrainInv, FilesInv, TrainInfoSound, TornIsUnreadable, IdsOfOneExperiment, ExperimentKept
<1>2. TrainInv /\ [TrainNext]_trainVars => TrainInv'
  <2> SUFFICES ASSUME TrainInv, [TrainNext]_trainVars PROVE TrainInv'
    OBVIOUS
  <2>1. CASE onBinaryPushStateChanged
    BY <2>1, PushStep
  <2>2. CASE onWatchdogRollbackOccurred
    BY <2>2, RollbackStep
  <2>3. CASE TrainAge \/ UNCHANGED trainVars
    <3>1. UNCHANGED <<trainFiles, trainLast, trainWhole>>
      BY <2>3, Zenon DEF TrainAge, trainVars
    <3> QED
      BY <3>1 DEF TrainInv, FilesInv, TrainInfoSound, TornIsUnreadable, IdsOfOneExperiment, ExperimentKept
  <2> QED
    BY <2>1, <2>2, <2>3 DEF TrainNext
<1>3. TrainInv => TrainInfoSound
  BY DEF TrainInv
<1> QED
  BY <1>1, <1>2, <1>3, PTL DEF TrainSpec

-----------------------------------------------------------------------------
(* Restricted data *)

Events == [id : Nat, cat : Categories, schema : Schemas, age : Nat]

\* Events in memory and in the database, and what is gone, are all of the first n, and
\* an id names one event.
Apart(memory, rows, gone, n) ==
  /\ 1 .. n = Ids(memory) \union Ids(rows) \union gone
  /\ Ids(memory) \cap Ids(rows) = {} /\ gone \cap (Ids(memory) \union Ids(rows)) = {}
  /\ \A e, f \in memory \union rows : e.id = f.id => e = f

\* A database whose rows fit its table; without a table there are none.
DbOK(db) ==
  /\ db.rows \subseteq Events
  /\ \A e \in db.rows : e.schema = db.schema
  /\ ~db.file => db.rows = {} /\ db.schema = 0

StoreOK(s, n) ==
  s.prod.events \in Seq(Events) /\ DbOK(s.db) /\ Apart(MemoryOf(s), Rows(s), s.gone, n)

\* A step after which nothing is held that was not held before, and no row that the
\* producer need not know of has become one that it must.
Shrinks(s, t) ==
  /\ t.prod.cat = s.prod.cat /\ Rows(t) \union MemoryOf(t) \subseteq Rows(s) \union MemoryOf(s)
  /\ s.gone \subseteq t.gone /\ s.left \subseteq t.left \union t.gone

\* All rows are such rows.
AllLeft(s) == \A e \in Rows(s) : e.id \in s.left

\* Events may be inserted, dropped, or be new.
LEMMA ApartMoves ==
  ASSUME NEW E, NEW R, NEW G, NEW n, Apart(E, R, G, n)
  PROVE  /\ Apart({}, R \union E, G, n)
         /\ Apart({}, R, G \union Ids(E), n)
         /\ Apart(E, {}, G \union Ids(R), n)
<1>1. Ids({}) = {} /\ Ids(R \union E) = Ids(R) \union Ids(E)
  BY DEF Ids
<1>. QED
  BY <1>1 DEF Apart

\* Some rows are deleted.
LEMMA ApartDeletes ==
  ASSUME NEW E, NEW R, NEW G, NEW n, Apart(E, R, G, n), NEW O \in SUBSET R
  PROVE  Apart(E, R \ O, G \union Ids(O), n)
<1>1. Ids(R) = Ids(R \ O) \union Ids(O)
  BY DEF Ids
<1>2. Ids(R \ O) \cap Ids(O) = {}
  BY DEF Ids, Apart
<1>. QED
  BY <1>1, <1>2 DEF Apart

\* An event is new.
LEMMA ApartAdds ==
  ASSUME NEW E, NEW R, NEW G, NEW n \in Nat, Apart(E, R, G, n), NEW e, e.id = n + 1
  PROVE  Apart(E \union {e}, R, G, n + 1)
<1>1. Ids(E \union {e}) = Ids(E) \union {n + 1}
  BY DEF Ids
<1>2. 1 .. n + 1 = (1 .. n) \union {n + 1} /\ n + 1 \notin 1 .. n
  OBVIOUS
<1>3. n + 1 \notin Ids(E) \union Ids(R) \union G
  BY <1>2 DEF Apart
<1>4. \A f \in E \union R : f.id # n + 1
  BY <1>3 DEF Ids
<1>5. \A f, g \in E \union {e} \union R : f.id = g.id => f = g
  BY <1>4 DEF Apart
<1>6. 1 .. n + 1 = Ids(E \union {e}) \union Ids(R) \union G
  BY <1>1, <1>2 DEF Apart
<1>7. /\ Ids(E \union {e}) \cap Ids(R) = {}
      /\ G \cap (Ids(E \union {e}) \union Ids(R)) = {}
  BY <1>1, <1>3 DEF Apart
<1>. QED
  BY <1>5, <1>6, <1>7, Zenon DEF Apart

\* Events of the memory.
LEMMA MemoryFacts ==
  ASSUME NEW q \in Seq(Events)
  PROVE  /\ Range(q) \subseteq Events /\ Range(<< >>) = {}
         /\ q # << >> => Head(q) \in Range(q)
         /\ \A e \in Events : Append(q, e) \in Seq(Events) /\ Range(Append(q, e)) = Range(q) \union {e}
<1>1. Range(q) \subseteq Events /\ Range(<< >>) = {}
  BY DEF Range
<1>2. q # << >> => Head(q) \in Range(q)
  BY DEF Range
<1>3. ASSUME NEW e \in Events
      PROVE  Append(q, e) \in Seq(Events) /\ Range(Append(q, e)) = Range(q) \union {e}
  <2>1. DOMAIN Append(q, e) = DOMAIN q \union {Len(q) + 1} /\ Append(q, e)[Len(q) + 1] = e
    OBVIOUS
  <2>2. \A i \in DOMAIN q : Append(q, e)[i] = q[i]
    OBVIOUS
  <2>. QED
    BY <2>1, <2>2 DEF Range
<1>. QED
  BY <1>1, <1>2, <1>3

\* What is the case of the parts of a store.
LEMMA StoreParts ==
  ASSUME NEW prod, NEW db, NEW gone, NEW left, NEW s, s = Store(prod, db, gone, left)
  PROVE  /\ s.prod = prod /\ s.db = db /\ s.gone = gone /\ Rows(s) = db.rows /\ MemoryOf(s) = Range(prod.events)
         /\ s.left = left \ gone
  BY DEF Store, Rows, MemoryOf

\* What is held is not gone.
LEMMA HeldNotGone ==
  ASSUME NEW s, NEW n, StoreOK(s, n)
  PROVE  \A e \in Rows(s) \union MemoryOf(s) : e.id \notin s.gone
  BY DEF StoreOK, Apart, Ids

\* A file without a table has no rows; opening a file changes none.
LEMMA NoTableNoRows ==
  ASSUME RestrictedAssumption, NEW db, DbOK(db), NEW io
  PROVE  /\ ~Table(db) => db.rows = {}
         /\ DbOK(Opened(db, io)) /\ Opened(db, io).rows = db.rows /\ Opened(db, io).schema = db.schema
         /\ DbOK(NewDb) /\ NewDb.rows = {} /\ DbOK(NoDb) /\ NoDb.rows = {}
<1>1. ~Table(db) => db.rows = {}
  BY DEF DbOK, Table, Events, RestrictedAssumption
<1>2. DbOK(NewDb) /\ NewDb.rows = {} /\ DbOK(NoDb) /\ NoDb.rows = {} /\ NewDb.schema = 0
  BY DEF DbOK, NewDb, NoDb, Database
<1>3. DbOK(Opened(db, io)) /\ Opened(db, io).rows = db.rows /\ Opened(db, io).schema = db.schema
  BY <1>2 DEF Opened, DbOK
<1>. QED
  BY <1>1, <1>2, <1>3

\* What is in memory is dropped.
LEMMA DroppedOK ==
  ASSUME NEW s, NEW n, StoreOK(s, n)
  PROVE  /\ StoreOK(Dropped(s), n) /\ Shrinks(s, Dropped(s))
         /\ MemoryOf(Dropped(s)) = {} /\ Rows(Dropped(s)) = Rows(s)
<1>. DEFINE prod == Producer(<< >>, s.prod.cat, s.prod.created)
            t == Dropped(s)
<1>0. DbOK(s.db) /\ Apart({}, Rows(s), s.gone \union Ids(MemoryOf(s)), n)
  BY ApartMoves DEF StoreOK
<1>1. prod.events = << >> /\ prod.cat = s.prod.cat /\ Range(<< >>) = {} /\ << >> \in Seq(Events)
  BY DEF Producer, Range
<1>2. /\ t.prod = prod /\ t.db = s.db /\ t.gone = s.gone \union Ids(MemoryOf(s)) /\ MemoryOf(t) = {}
      /\ Rows(t) = Rows(s) /\ t.left = s.left \ t.gone
  BY <1>1, StoreParts DEF Dropped, Rows
<1>. HIDE DEF prod, t
<1>3. StoreOK(t, n) /\ Shrinks(s, t)
  BY <1>0, <1>1, <1>2 DEF StoreOK, Shrinks
<1>. QED
  BY <1>2, <1>3 DEF t

\* The table is dropped, or its rows are left.
LEMMA DeleteTableOK ==
  ASSUME RestrictedAssumption, NEW s, NEW n, StoreOK(s, n), NEW io
  PROVE  LET t == deleteMetricTable(s, io)
         IN  StoreOK(t, n) /\ Shrinks(s, t) /\ AllLeft(t)
<1>. DEFINE prod == Producer(s.prod.events, s.prod.cat, FALSE)
            db == Opened(s.db, io)
            t == deleteMetricTable(s, io)
<1>0. /\ s.prod.events \in Seq(Events) /\ Apart(MemoryOf(s), Rows(s), s.gone, n)
      /\ Apart(MemoryOf(s), {}, s.gone \union Ids(Rows(s)), n)
  BY ApartMoves DEF StoreOK
<1>1. prod.events = s.prod.events /\ prod.cat = s.prod.cat
  BY DEF Producer
<1>2. DbOK(db) /\ db.rows = Rows(s) /\ DbOK(NewDb) /\ NewDb.rows = {}
  BY NoTableNoRows DEF StoreOK, Rows
<1>3. \/ t = Store(prod, db, s.gone, s.left \union Ids(Rows(s)))
      \/ t = Store(prod, NewDb, s.gone \union Ids(Rows(s)), s.left)
  BY DEF deleteMetricTable
<1>. HIDE DEF prod, db, t
<1>4. CASE t = Store(prod, db, s.gone, s.left \union Ids(Rows(s)))
  <2>1. /\ t.prod = prod /\ t.db = db /\ t.gone = s.gone /\ Rows(t) = Rows(s)
        /\ MemoryOf(t) = MemoryOf(s) /\ t.left = (s.left \union Ids(Rows(s))) \ s.gone
    BY <1>1, <1>2, <1>4, StoreParts DEF MemoryOf
  <2>2. StoreOK(t, n) /\ Shrinks(s, t)
    BY <1>0, <1>1, <1>2, <2>1 DEF StoreOK, Shrinks
  <2>3. \A e \in Rows(s) : e.id \in Ids(Rows(s)) /\ e.id \notin s.gone
    BY HeldNotGone DEF Ids
  <2>. QED
    BY <2>1, <2>2, <2>3 DEF AllLeft, t
<1>5. CASE t = Store(prod, NewDb, s.gone \union Ids(Rows(s)), s.left)
  <2>1. /\ t.prod = prod /\ t.db = NewDb /\ t.gone = s.gone \union Ids(Rows(s)) /\ Rows(t) = {}
        /\ MemoryOf(t) = MemoryOf(s) /\ t.left = s.left \ t.gone
    BY <1>1, <1>2, <1>5, StoreParts DEF MemoryOf
  <2>. QED
    BY <1>0, <1>1, <1>2, <2>1 DEF StoreOK, Shrinks, AllLeft, t
<1>. QED
  BY <1>3, <1>4, <1>5

\* The file is removed, or stays.
LEMMA DeleteDbOK ==
  ASSUME RestrictedAssumption, NEW s, NEW n, StoreOK(s, n), NEW io
  PROVE  /\ StoreOK(deleteDb(s, io), n) /\ Shrinks(s, deleteDb(s, io))
         /\ deleteDb(s, io).db.file => s.db.file /\ "remove" \in io
<1>. DEFINE t == deleteDb(s, io)
            u == Store(s.prod, NoDb, s.gone \union Ids(Rows(s)), s.left)
<1>1. /\ DbOK(NoDb) /\ NoDb.rows = {} /\ ~NoDb.file /\ s.prod.events \in Seq(Events)
      /\ Apart(MemoryOf(s), {}, s.gone \union Ids(Rows(s)), n)
  BY NoTableNoRows, ApartMoves DEF StoreOK, NoDb
<1>2. /\ u.prod = s.prod /\ u.db = NoDb /\ u.gone = s.gone \union Ids(Rows(s)) /\ Rows(u) = {}
      /\ MemoryOf(u) = MemoryOf(s) /\ u.left = s.left \ u.gone
  BY <1>1, StoreParts DEF MemoryOf
<1>3. IF "remove" \in io THEN t = s ELSE t = u
  BY DEF deleteDb
<1>. HIDE DEF t, u
<1>4. StoreOK(u, n) /\ Shrinks(s, u) /\ ~u.db.file
  BY <1>1, <1>2 DEF StoreOK, Shrinks
<1>5. StoreOK(t, n) /\ Shrinks(s, t) /\ (t.db.file => s.db.file /\ "remove" \in io)
  BY <1>3, <1>4 DEF Shrinks
<1>. QED
  BY <1>5 DEF t

\* The events in memory are inserted, or dropped.
LEMMA InsertedOK ==
  ASSUME RestrictedAssumption, NEW s, NEW n, StoreOK(s, n), NEW io
  PROVE  StoreOK(Inserted(s, io), n) /\ Shrinks(s, Inserted(s, io))
<1>. DEFINE db == Opened(s.db, io)
            prod == Producer(<< >>, s.prod.cat, s.prod.created)
            t == Inserted(s, io)
            into == Database(0, db.schema, db.rows \union MemoryOf(s))
<1>0. /\ s.prod.events \in Seq(Events) /\ Apart(MemoryOf(s), Rows(s), s.gone, n)
      /\ Apart({}, Rows(s) \union MemoryOf(s), s.gone, n)
      /\ Apart({}, Rows(s), s.gone \union Ids(MemoryOf(s)), n)
  BY ApartMoves DEF StoreOK
<1>1. DbOK(db) /\ db.rows = Rows(s)
  BY NoTableNoRows DEF StoreOK, Rows
<1>2. prod.events = << >> /\ prod.cat = s.prod.cat /\ Range(<< >>) = {} /\ << >> \in Seq(Events)
  BY DEF Producer, Range
<1>3. MemoryOf(s) \subseteq Events
  BY <1>0, MemoryFacts DEF MemoryOf
<1>4. into.rows = db.rows \union MemoryOf(s) /\ into.schema = db.schema /\ into.file
  BY DEF Database
<1>5. t = IF ~Fails("insert", io) /\ Table(db) /\ \A e \in MemoryOf(s) : e.schema = db.schema
            THEN Store(prod, into, s.gone, s.left) ELSE Store(prod, db, s.gone \union Ids(MemoryOf(s)), s.left)
  BY DEF Inserted
<1>. HIDE DEF db, prod, t, into
<1>6. CASE t = Store(prod, into, s.gone, s.left) /\ \A e \in MemoryOf(s) : e.schema = db.schema
  <2>1. /\ t.prod = prod /\ t.db = into /\ t.gone = s.gone /\ Rows(t) = Rows(s) \union MemoryOf(s)
        /\ MemoryOf(t) = {} /\ t.left = s.left \ t.gone
    BY <1>1, <1>2, <1>4, <1>6, StoreParts
  <2>2. DbOK(into)
    BY <1>1, <1>3, <1>4, <1>6 DEF DbOK
  <2>. QED
    BY <1>0, <1>2, <2>1, <2>2 DEF StoreOK, Shrinks, t
<1>7. CASE t = Store(prod, db, s.gone \union Ids(MemoryOf(s)), s.left)
  <2>1. /\ t.prod = prod /\ t.db = db /\ t.gone = s.gone \union Ids(MemoryOf(s))
        /\ Rows(t) = Rows(s) /\ MemoryOf(t) = {} /\ t.left = s.left \ t.gone
    BY <1>1, <1>2, <1>7, StoreParts
  <2>. QED
    BY <1>0, <1>1, <1>2, <2>1 DEF StoreOK, Shrinks, t
<1>. QED
  BY <1>5, <1>6, <1>7

\* A store with another database of the same rows.
LEMMA SameRowsOK ==
  ASSUME NEW s, NEW n, StoreOK(s, n), NEW prod, prod.events = s.prod.events, prod.cat = s.prod.cat,
         NEW db, DbOK(db), db.rows = Rows(s), NEW t, t = Store(prod, db, s.gone, s.left)
  PROVE  StoreOK(t, n) /\ Shrinks(s, t)
<1>1. /\ t.prod = prod /\ t.db = db /\ t.gone = s.gone /\ Rows(t) = Rows(s) /\ MemoryOf(t) = MemoryOf(s)
      /\ t.left = s.left \ s.gone
  BY StoreParts DEF MemoryOf
<1>. QED
  BY <1>1 DEF StoreOK, Shrinks

\* The file is opened.
LEMMA OpenedOK ==
  ASSUME RestrictedAssumption, NEW s, NEW n, StoreOK(s, n), NEW io,
         NEW t, t = Store(s.prod, Opened(s.db, io), s.gone, s.left)
  PROVE  StoreOK(t, n) /\ Shrinks(s, t)
<1>. DEFINE db == Opened(s.db, io)
<1>1. DbOK(db) /\ db.rows = Rows(s)
  BY NoTableNoRows DEF StoreOK, Rows
<1>2. t = Store(s.prod, db, s.gone, s.left)
  OBVIOUS
<1>. HIDE DEF db
<1>. QED
  BY <1>1, <1>2, SameRowsOK

\* The table is made for the first event.
LEMMA CreateOK ==
  ASSUME RestrictedAssumption, NEW s, NEW n, StoreOK(s, n)
  PROVE  StoreOK(createTable(s), n) /\ Shrinks(s, createTable(s))
<1>. DEFINE prod == Producer(s.prod.events, s.prod.cat, TRUE)
            new == Database(0, Head(s.prod.events).schema, Rows(s))
            db == IF Table(s.db) THEN s.db ELSE new
            t == createTable(s)
<1>1. prod.events = s.prod.events /\ prod.cat = s.prod.cat
  BY DEF Producer
<1>2. DbOK(s.db) /\ (~Table(s.db) => Rows(s) = {}) /\ new.rows = Rows(s) /\ new.file
  BY NoTableNoRows DEF StoreOK, Rows, Database
<1>3. DbOK(db) /\ db.rows = Rows(s)
  BY <1>2 DEF DbOK, Rows
<1>4. t = Store(prod, db, s.gone, s.left)
  BY DEF createTable
<1>. HIDE DEF prod, db, t
<1>5. StoreOK(t, n) /\ Shrinks(s, t)
  BY <1>1, <1>3, <1>4, SameRowsOK
<1>. QED
  BY <1>5 DEF t

\* Nothing is held that was not: a chain of steps.
LEMMA ShrinksOn ==
  ASSUME NEW s, NEW t, NEW u, Shrinks(s, t), Shrinks(t, u)
  PROVE  Shrinks(s, u)
  BY DEF Shrinks

\* A flush: the table is dropped if it does not fit, made if there is none, and the
\* events go into it.
LEMMA FlushOK ==
  ASSUME RestrictedAssumption, NEW s, NEW n, StoreOK(s, n), NEW io
  PROVE  StoreOK(flushRestrictedData(s, io), n) /\ Shrinks(s, flushRestrictedData(s, io))
<1>. DEFINE o == Store(s.prod, Opened(s.db, io), s.gone, s.left)
            d == IF isEventCompatible(o, Head(s.prod.events), io) THEN o ELSE deleteMetricTable(o, io)
            c == createTable(d)
            t == flushRestrictedData(s, io)
<1>1. t \in {s, d, Inserted(s, io), Inserted(c, io)}
  BY DEF flushRestrictedData
<1>2. StoreOK(s, n) /\ Shrinks(s, s)
  BY DEF Shrinks
<1>3. StoreOK(o, n) /\ Shrinks(s, o)
  BY OpenedOK
<1>. HIDE DEF o
<1>4. StoreOK(deleteMetricTable(o, io), n) /\ Shrinks(o, deleteMetricTable(o, io))
  BY <1>3, DeleteTableOK
<1>5. StoreOK(d, n) /\ Shrinks(s, d)
  BY <1>3, <1>4, ShrinksOn
<1>. HIDE DEF d
<1>6. StoreOK(c, n) /\ Shrinks(d, c)
  BY <1>5, CreateOK
<1>. HIDE DEF c, t
<1>7. /\ StoreOK(Inserted(s, io), n) /\ Shrinks(s, Inserted(s, io))
      /\ StoreOK(Inserted(c, io), n) /\ Shrinks(c, Inserted(c, io))
  BY <1>6, InsertedOK
<1>8. Shrinks(s, Inserted(c, io))
  BY <1>5, <1>6, <1>7, ShrinksOn
<1>9. StoreOK(t, n) /\ Shrinks(s, t)
  BY <1>1, <1>2, <1>5, <1>7, <1>8
<1>. QED
  BY <1>9 DEF t

\* Rows that are too old go, unless the deletion fails.
LEMMA FlushTtlOK ==
  ASSUME RestrictedAssumption, NEW s, NEW n, StoreOK(s, n), NEW io
  PROVE  /\ StoreOK(flushTtl(s, io), n) /\ Shrinks(s, flushTtl(s, io))
         /\ ~Fails("delete", io) => \A e \in Rows(flushTtl(s, io)) : e.age < RowTtl
<1>. DEFINE old == IF Fails("delete", io) THEN {} ELSE {e \in Rows(s) : e.age >= RowTtl}
            db == Opened(s.db, io)
            new == Database(0, db.schema, db.rows \ old)
            t == flushTtl(s, io)
<1>1. DbOK(db) /\ db.rows = Rows(s)
  BY NoTableNoRows DEF StoreOK, Rows
<1>2. new.rows = Rows(s) \ old /\ new.schema = db.schema /\ new.file
  BY <1>1 DEF Database
<1>3. DbOK(new)
  BY <1>1, <1>2 DEF DbOK
<1>4. IF old = {} THEN t = Store(s.prod, db, s.gone, s.left)
      ELSE t = Store(s.prod, new, s.gone \union Ids(old), s.left)
  BY DEF flushTtl
<1>5. old \subseteq Rows(s) /\ (~Fails("delete", io) => \A e \in Rows(s) \ old : e.age < RowTtl)
  BY <1>1 DEF RestrictedAssumption, DbOK, Events
<1>. HIDE DEF old, db, new, t
<1>6. CASE old = {}
  <2>1. t = Store(s.prod, db, s.gone, s.left)
    BY <1>4, <1>6
  <2>2. StoreOK(t, n) /\ Shrinks(s, t) /\ Rows(t) = Rows(s)
    BY <1>1, <2>1, SameRowsOK, StoreParts
  <2>. QED
    BY <1>5, <1>6, <2>2 DEF t
<1>7. CASE old # {}
  <2>1. /\ t.prod = s.prod /\ t.db = new /\ t.gone = s.gone \union Ids(old) /\ Rows(t) = Rows(s) \ old
        /\ MemoryOf(t) = MemoryOf(s) /\ t.left = s.left \ t.gone
    BY <1>2, <1>4, <1>7, StoreParts DEF MemoryOf
  <2>2. Apart(MemoryOf(s), Rows(s) \ old, s.gone \union Ids(old), n)
    BY <1>5, ApartDeletes DEF StoreOK
  <2>3. StoreOK(t, n) /\ Shrinks(s, t)
    BY <1>3, <2>1, <2>2 DEF StoreOK, Shrinks
  <2>. QED
    BY <1>5, <2>1, <2>3 DEF t
<1>. QED
  BY <1>6, <1>7

\* The guardrails keep the file or remove it.
LEMMA GuardrailsOK ==
  ASSUME RestrictedAssumption, NEW s, NEW n, StoreOK(s, n), NEW io
  PROVE  StoreOK(enforceDbGuardrails(s, io), n) /\ Shrinks(s, enforceDbGuardrails(s, io))
<1>1. Shrinks(s, s)
  BY DEF Shrinks
<1>2. StoreOK(deleteDb(s, io), n) /\ Shrinks(s, deleteDb(s, io))
  BY DeleteDbOK
<1>3. enforceDbGuardrails(s, io) \in {s, deleteDb(s, io)}
  BY DEF enforceDbGuardrails, verifyIntegrityAndDeleteIfNecessary
<1>. QED
  BY <1>1, <1>2, <1>3

\* What is held has the category the producer goes by, but for what was left.
OneCat(s) == \A e \in Rows(s) \union MemoryOf(s) : e.cat = s.prod.cat \/ e.id \in s.left

\* It has after a step that holds no more.
LEMMA OneCatShrinks ==
  ASSUME NEW s, NEW t, NEW n, Shrinks(s, t), OneCat(s), StoreOK(t, n)
  PROVE  OneCat(t)
  BY HeldNotGone DEF Shrinks, OneCat

\* An event that matches: it is of the category of the others, or they go.
LEMMA MatchedOK ==
  ASSUME RestrictedAssumption, NEW s, NEW n \in Nat, StoreOK(s, n), NEW e \in Events, e.id = n + 1, NEW io
  PROVE  /\ StoreOK(onMatchedLogEvent(s, e, io), n + 1)
         /\ OneCat(s) => OneCat(onMatchedLogEvent(s, e, io))
<1>. DEFINE d == deleteMetricTable(s, io)
            c == IF s.prod.cat \in {UNKNOWN, e.cat} THEN s ELSE Dropped(d)
            prod == Producer(Append(c.prod.events, e), e.cat, c.prod.created)
            t == onMatchedLogEvent(s, e, io)
<1>1. StoreOK(d, n) /\ AllLeft(d)
  BY DeleteTableOK
<1>. HIDE DEF d
<1>2. StoreOK(Dropped(d), n) /\ AllLeft(Dropped(d)) /\ MemoryOf(Dropped(d)) = {}
  <2>. DEFINE u == Dropped(d)
  <2>1. StoreOK(u, n) /\ Shrinks(d, u) /\ Rows(u) = Rows(d) /\ MemoryOf(u) = {}
    BY <1>1, DroppedOK
  <2>. HIDE DEF u
  <2>2. AllLeft(u)
    BY <1>1, <2>1, HeldNotGone DEF AllLeft, Shrinks
  <2>. QED
    BY <2>1, <2>2 DEF u
<1>3. StoreOK(c, n)
  BY <1>2
<1>4. /\ t = Store(prod, c.db, c.gone, c.left) /\ prod.events = Append(c.prod.events, e)
      /\ prod.cat = e.cat
  BY DEF onMatchedLogEvent, Producer, d
<1>5. OneCat(s) => \A f \in Rows(c) \union MemoryOf(c) : f.cat = e.cat \/ f.id \in c.left
  <2>1. CASE s.prod.cat \notin {UNKNOWN, e.cat}
    BY <1>2, <2>1 DEF AllLeft
  <2>2. CASE s.prod.cat = e.cat
    BY <2>2 DEF OneCat
  <2>3. CASE s.prod.cat = UNKNOWN
    <3>1. \A f \in Rows(s) \union MemoryOf(s) : f.cat # UNKNOWN
      <4>1. Rows(s) \union MemoryOf(s) \subseteq Events
        BY MemoryFacts DEF StoreOK, DbOK, Rows, MemoryOf
      <4>. QED
        BY <4>1 DEF Events, RestrictedAssumption
    <3>. QED
      BY <2>3, <3>1 DEF OneCat
  <2>. QED
    BY <2>1, <2>2, <2>3
<1>. HIDE DEF d, c, prod, t
<1>6. /\ t.prod = prod /\ t.db = c.db /\ t.gone = c.gone /\ Rows(t) = Rows(c)
      /\ MemoryOf(t) = MemoryOf(c) \union {e} /\ prod.events \in Seq(Events) /\ t.left = c.left \ c.gone
  <2>1. c.prod.events \in Seq(Events)
    BY <1>3 DEF StoreOK
  <2>2. prod.events \in Seq(Events) /\ Range(prod.events) = Range(c.prod.events) \union {e}
    BY <1>4, <2>1, MemoryFacts
  <2>3. /\ t.prod = prod /\ t.db = c.db /\ t.gone = c.gone /\ Rows(t) = c.db.rows
        /\ MemoryOf(t) = Range(prod.events) /\ t.left = c.left \ c.gone
    <3>1. t = Store(prod, c.db, c.gone, c.left)
      BY <1>4
    <3>. QED
      BY <3>1 DEF Store, Rows, MemoryOf
  <2>. QED
    BY <2>2, <2>3 DEF MemoryOf, Rows
<1>7. Apart(MemoryOf(c) \union {e}, Rows(c), c.gone, n + 1)
  BY <1>3, ApartAdds DEF StoreOK
<1>8. StoreOK(t, n + 1)
  BY <1>3, <1>6, <1>7 DEF StoreOK
<1>9. OneCat(s) => OneCat(t)
  BY <1>3, <1>4, <1>5, <1>6, HeldNotGone DEF OneCat
<1>. QED
  BY <1>8, <1>9 DEF t

\* Then it is flushed, or dropped with the others.
LEMMA FlushIfNecessaryOK ==
  ASSUME RestrictedAssumption, NEW s, NEW n, StoreOK(s, n), NEW io
  PROVE  StoreOK(flushIfNecessary(s, io), n) /\ Shrinks(s, flushIfNecessary(s, io))
<1>1. Shrinks(s, s)
  BY DEF Shrinks
<1>2. StoreOK(Dropped(s), n) /\ Shrinks(s, Dropped(s))
  BY DroppedOK
<1>3. StoreOK(flushRestrictedData(s, io), n) /\ Shrinks(s, flushRestrictedData(s, io))
  BY FlushOK
<1>4. flushIfNecessary(s, io) \in {s, Dropped(s), flushRestrictedData(s, io)}
  BY DEF flushIfNecessary
<1>. QED
  BY <1>1, <1>2, <1>3, <1>4

\* A producer starts over the rows there are, with the category it was told.
LEMMA StartedOK ==
  ASSUME RestrictedAssumption, NEW s, NEW n, StoreOK(s, n), NEW category
  PROVE  LET t == Started(s, category, category)
         IN  StoreOK(t, n) /\ t.db = s.db /\ OneCat(t)
<1>. DEFINE prod == Producer(<< >>, category, FALSE)
            other == Ids({e \in Rows(s) : e.cat # category})
            t == Started(s, category, category)
<1>1. prod.events = << >> /\ prod.cat = category /\ Range(<< >>) = {} /\ << >> \in Seq(Events)
  BY DEF Producer, Range
<1>2. t = Store(prod, s.db, s.gone \union Ids(MemoryOf(s)), s.left \union other)
  BY DEF Started
<1>3. Apart({}, Rows(s), s.gone \union Ids(MemoryOf(s)), n)
  BY ApartMoves DEF StoreOK
<1>4. \A e \in Rows(s) : e.cat = category \/ e.id \in other
  BY DEF Ids
<1>. HIDE DEF prod, t, other
<1>5. /\ t.prod = prod /\ t.db = s.db /\ t.gone = s.gone \union Ids(MemoryOf(s)) /\ MemoryOf(t) = {}
      /\ Rows(t) = Rows(s) /\ t.left = (s.left \union other) \ t.gone
  BY <1>1, <1>2, StoreParts DEF Rows
<1>6. StoreOK(t, n)
  BY <1>1, <1>3, <1>5 DEF StoreOK
<1>7. OneCat(t)
  BY <1>1, <1>4, <1>5, <1>6, HeldNotGone DEF OneCat
<1>. QED
  BY <1>5, <1>6, <1>7 DEF t

\* The device table.
LEMMA DeviceInfoOK ==
  ASSUME RestrictedAssumption, NEW s, NEW n, StoreOK(s, n), NEW io
  PROVE  StoreOK(updateDeviceInfoTable(s, io), n) /\ Shrinks(s, updateDeviceInfoTable(s, io))
<1>. DEFINE new == Database(0, s.db.schema, Rows(s))
            db == IF Fails("device", io) THEN Opened(s.db, io) ELSE new
            t == updateDeviceInfoTable(s, io)
<1>1. new.rows = Rows(s) /\ new.schema = s.db.schema /\ new.file
  BY DEF Database
<1>2. DbOK(new) /\ DbOK(Opened(s.db, io)) /\ Opened(s.db, io).rows = Rows(s)
  BY <1>1, NoTableNoRows DEF StoreOK, DbOK, Rows
<1>3. DbOK(db) /\ db.rows = Rows(s)
  BY <1>1, <1>2
<1>4. t = Store(s.prod, db, s.gone, s.left)
  BY DEF updateDeviceInfoTable
<1>. HIDE DEF db, t
<1>5. StoreOK(t, n) /\ Shrinks(s, t)
  BY <1>3, <1>4, SameRowsOK
<1>. QED
  BY <1>5 DEF t

\* An hour goes by: events grow older and stay what they are.
LEMMA OlderOK ==
  ASSUME RestrictedAssumption, NEW s, NEW n, StoreOK(s, n), NEW q,
         q = [i \in DOMAIN s.prod.events |-> OlderEvent(s.prod.events[i])],
         NEW t, t = Store(Producer(q, s.prod.cat, s.prod.created), OlderDb(s.db), s.gone, s.left)
  PROVE  StoreOK(t, n) /\ (OneCat(s) => OneCat(t)) /\ (t.db.file <=> s.db.file)
<1>. DEFINE Older(E) == {OlderEvent(e) : e \in E}
            prod == Producer(q, s.prod.cat, s.prod.created)
<1>0. s.prod.events \in Seq(Events) /\ DbOK(s.db) /\ Apart(MemoryOf(s), Rows(s), s.gone, n)
  BY DEF StoreOK
<1>1. \A e \in Events : /\ OlderEvent(e) \in Events /\ OlderEvent(e).id = e.id
                        /\ OlderEvent(e).cat = e.cat /\ OlderEvent(e).schema = e.schema
  BY DEF Events, OlderEvent, RestrictedAssumption
<1>2. q \in Seq(Events) /\ Range(q) = Older(MemoryOf(s))
  <2>1. DOMAIN q = 1 .. Len(s.prod.events) /\ \A i \in DOMAIN q : q[i] = OlderEvent(s.prod.events[i])
    BY <1>0
  <2>2. \A i \in DOMAIN q : q[i] \in Events
    BY <1>0, <1>1, <2>1
  <2>3. q \in [1 .. Len(s.prod.events) -> Events] /\ Len(s.prod.events) \in Nat
    <3>1. q = [i \in 1 .. Len(s.prod.events) |-> OlderEvent(s.prod.events[i])]
      BY <1>0
    <3>2. Len(s.prod.events) \in Nat /\ \A i \in 1 .. Len(s.prod.events) : s.prod.events[i] \in Events
      BY <1>0
    <3>. QED
      BY <1>1, <3>1, <3>2
  <2>4. q \in Seq(Events)
    BY <2>3
  <2>5. Range(q) = Older(MemoryOf(s))
    BY <1>0, <2>1 DEF Range, MemoryOf
  <2>. QED
    BY <2>4, <2>5
<1>3. /\ OlderDb(s.db).rows = Older(Rows(s)) /\ OlderDb(s.db).schema = s.db.schema
      /\ OlderDb(s.db).file <=> s.db.file
  BY <1>0 DEF OlderDb, Database, DbOK, Rows
<1>4. MemoryOf(s) \subseteq Events /\ Rows(s) \subseteq Events
  BY <1>0, MemoryFacts DEF MemoryOf, DbOK, Rows
<1>5. prod.events = q /\ prod.cat = s.prod.cat
  BY DEF Producer
<1>6. /\ t.prod = prod /\ t.db = OlderDb(s.db) /\ t.gone = s.gone /\ Rows(t) = Older(Rows(s))
      /\ MemoryOf(t) = Older(MemoryOf(s)) /\ t.left = s.left \ s.gone
  <2>1. t = Store(prod, OlderDb(s.db), s.gone, s.left)
    OBVIOUS
  <2>. HIDE DEF prod
  <2>2. /\ t.prod = prod /\ t.db = OlderDb(s.db) /\ t.gone = s.gone /\ Rows(t) = OlderDb(s.db).rows
        /\ MemoryOf(t) = Range(prod.events) /\ t.left = s.left \ s.gone
    BY <2>1, StoreParts
  <2>. QED
    BY <1>2, <1>3, <1>5, <2>2
<1>. HIDE DEF prod
<1>7. DbOK(OlderDb(s.db))
  <2>1. \A f \in Older(Rows(s)) : f \in Events /\ \E e \in Rows(s) : f.schema = e.schema
    BY <1>1, <1>4
  <2>2. \A e \in Rows(s) : e.schema = s.db.schema
    BY <1>0 DEF DbOK, Rows
  <2>3. ~s.db.file => Rows(s) = {} /\ s.db.schema = 0
    BY <1>0 DEF DbOK, Rows
  <2>4. ~s.db.file => Older(Rows(s)) = {}
    BY <2>3
  <2>. QED
    BY <1>3, <2>1, <2>2, <2>3, <2>4 DEF DbOK
<1>8. Ids(Older(MemoryOf(s))) = Ids(MemoryOf(s)) /\ Ids(Older(Rows(s))) = Ids(Rows(s))
  BY <1>1, <1>4 DEF Ids
<1>9. \A f, g \in Older(MemoryOf(s)) \union Older(Rows(s)) : f.id = g.id => f = g
  <2>. SUFFICES ASSUME NEW f \in Older(MemoryOf(s)) \union Older(Rows(s)),
                       NEW g \in Older(MemoryOf(s)) \union Older(Rows(s)), f.id = g.id
                PROVE  f = g
    OBVIOUS
  <2>1. PICK d \in MemoryOf(s) \union Rows(s), e \in MemoryOf(s) \union Rows(s) : f = OlderEvent(d) /\ g = OlderEvent(e)
    OBVIOUS
  <2>2. d.id = e.id
    BY <1>1, <1>4, <2>1
  <2>3. d = e
    BY <1>0, <2>2 DEF Apart
  <2>. QED
    BY <2>1, <2>3
<1>10. StoreOK(t, n)
  BY <1>0, <1>2, <1>5, <1>6, <1>7, <1>8, <1>9 DEF StoreOK, Apart
<1>11. OneCat(s) => OneCat(t)
  <2>1. \A e \in Rows(s) \union MemoryOf(s) : e.id \notin s.gone
    BY HeldNotGone
  <2>2. \A f \in Rows(t) \union MemoryOf(t) :
          \E e \in Rows(s) \union MemoryOf(s) : f.id = e.id /\ f.cat = e.cat
    BY <1>1, <1>4, <1>6
  <2>. QED
    BY <1>5, <1>6, <2>1, <2>2 DEF OneCat
<1>. QED
  BY <1>3, <1>6, <1>10, <1>11

-----------------------------------------------------------------------------
\* The invariant: all events are accounted for, and of one category.
RestrictedInv ==
  /\ rn \in Nat /\ StoreOK(store, rn)
  /\ rconf = "restricted" => OneCat(store)
  /\ AnswerInTtl /\ DbOnlyWhileRestricted

\* Nothing is held at first.
LEMMA RestrictedInvInit == RestrictedInit => RestrictedInv
<1>. SUFFICES ASSUME RestrictedInit PROVE RestrictedInv
  OBVIOUS
<1>. DEFINE db == IF rconf = "restricted" THEN NewDb ELSE NoDb
<1>1. /\ store = Store(FreshProducer, db, {}, {}) /\ answer = NoAnswer /\ rn = 0
      /\ db.file => rconf = "restricted"
  BY DEF RestrictedInit, NoDb
<1>2. FreshProducer.events = << >> /\ db.rows = {} /\ db.schema = 0
  BY DEF FreshProducer, Producer, NoDb, NewDb, Database
<1>. HIDE DEF db
<1>3. store.prod = FreshProducer /\ store.db = db /\ store.gone = {} /\ Rows(store) = {} /\ MemoryOf(store) = {}
  BY <1>1, <1>2, StoreParts DEF Range
<1>4. Apart({}, {}, {}, 0)
  BY DEF Apart, Ids
<1>5. StoreOK(store, rn)
  <2>1. DbOK(store.db)
    BY <1>2, <1>3 DEF DbOK
  <2>2. store.prod.events = << >> /\ << >> \in Seq(Events)
    BY <1>2, <1>3
  <2>. QED
    BY <1>1, <1>3, <1>4, <2>1, <2>2 DEF StoreOK
<1>6. OneCat(store) /\ answer.rows = {}
  BY <1>1, <1>3 DEF OneCat, NoAnswer, Answer
<1>. QED
  BY <1>1, <1>3, <1>5, <1>6 DEF RestrictedInv, AnswerInTtl, DbOnlyWhileRestricted

\* A flush of all configs.
LEMMA LockedOK ==
  ASSUME RestrictedAssumption, NEW s, NEW n, StoreOK(s, n), NEW io
  PROVE  LET t == flushRestrictedDataLocked(s, io)
         IN  StoreOK(t, n) /\ Shrinks(s, t) /\ (rconf # "restricted" => t = s)
  BY FlushOK DEF flushRestrictedDataLocked, Shrinks

\* What is due, before an event.
LEMMA DueOK ==
  ASSUME RestrictedAssumption, NEW s, NEW n, StoreOK(s, n), NEW io,
         NEW f, f = (IF "flush" \in rdue THEN flushRestrictedDataLocked(s, io) ELSE s),
         NEW t, t = (IF "ttl" \in rdue THEN enforceRestrictedDataTtls(f, io) ELSE f),
         NEW g, g = IF "guard" \in rdue THEN enforceDbGuardrails(t, io) ELSE t
  PROVE  StoreOK(g, n) /\ Shrinks(s, g)
<1>1. \A x : Shrinks(x, x)
  BY DEF Shrinks
<1>2. StoreOK(f, n) /\ Shrinks(s, f)
  BY <1>1, LockedOK
<1>3. StoreOK(t, n) /\ Shrinks(f, t)
  BY <1>1, <1>2, FlushTtlOK DEF enforceRestrictedDataTtls
<1>4. StoreOK(g, n) /\ Shrinks(t, g)
  BY <1>1, <1>3, GuardrailsOK
<1>. QED
  BY <1>2, <1>3, <1>4, ShrinksOn

\* A call that is no query answers with nothing.
LEMMA NoAnswerInTtl ==
  ASSUME answer' = NoAnswer
  PROVE  AnswerInTtl'
  BY DEF AnswerInTtl, NoAnswer, Answer

\* An event of a restricted config.
LEMMA RestrictedEventStep ==
  ASSUME RestrictedAssumption, RestrictedInv, RestrictedEvent
  PROVE  RestrictedInv'
<1>1. PICK cat \in Categories, schema \in Schemas, io \in Failing(EventOperations) :
        LET e == [id |-> rn + 1, cat |-> cat, schema |-> schema, age |-> 0]
            f == IF "flush" \in rdue THEN flushRestrictedDataLocked(store, io) ELSE store
            t == IF "ttl" \in rdue THEN enforceRestrictedDataTtls(f, io) ELSE f
            g == IF "guard" \in rdue THEN enforceDbGuardrails(t, io) ELSE t
        IN  store' = flushIfNecessary(onMatchedLogEvent(g, e, io), io)
  BY DEF RestrictedEvent
<1>. DEFINE e == [id |-> rn + 1, cat |-> cat, schema |-> schema, age |-> 0]
            f == IF "flush" \in rdue THEN flushRestrictedDataLocked(store, io) ELSE store
            t == IF "ttl" \in rdue THEN enforceRestrictedDataTtls(f, io) ELSE f
            g == IF "guard" \in rdue THEN enforceDbGuardrails(t, io) ELSE t
            m == onMatchedLogEvent(g, e, io)
<1>2. /\ rconf = "restricted" /\ rconf' = "restricted" /\ rn' = rn + 1 /\ answer' = NoAnswer
      /\ rn \in Nat /\ StoreOK(store, rn) /\ OneCat(store)
  BY DEF RestrictedEvent, RestrictedInv
<1>3. e \in Events /\ e.id = rn + 1
  BY <1>2 DEF Events
<1>4. StoreOK(g, rn) /\ Shrinks(store, g)
  BY <1>2, DueOK
<1>5. store' = flushIfNecessary(m, io)
  BY <1>1
<1>. HIDE DEF e, g
<1>6. StoreOK(m, rn + 1) /\ (OneCat(g) => OneCat(m))
  BY <1>2, <1>3, <1>4, MatchedOK
<1>. HIDE DEF m
<1>7. StoreOK(store', rn') /\ Shrinks(m, store')
  BY <1>2, <1>5, <1>6, FlushIfNecessaryOK
<1>8. OneCat(store')
  BY <1>2, <1>4, <1>6, <1>7, OneCatShrinks
<1>9. rn' \in Nat /\ AnswerInTtl' /\ DbOnlyWhileRestricted'
  BY <1>2, NoAnswerInTtl DEF DbOnlyWhileRestricted
<1>. QED
  BY <1>7, <1>8, <1>9 DEF RestrictedInv

\* A query: what is too old is not in the answer, unless it could not be deleted.
LEMMA QuerySqlStep ==
  ASSUME RestrictedAssumption, RestrictedInv, querySql
  PROVE  RestrictedInv'
<1>1. PICK io \in Failing(QueryOperations) :
        /\ store' = enforceRestrictedDataTtls(flushRestrictedDataLocked(store, io), io)
        /\ answer' = Answer(IF Fails("query", io) THEN {} ELSE Rows(store'), ~Fails("delete", io))
  BY DEF querySql
<1>. DEFINE f == flushRestrictedDataLocked(store, io)
<1>2. /\ rconf = "restricted" /\ rconf' = "restricted" /\ rn' = rn
      /\ rn \in Nat /\ StoreOK(store, rn) /\ OneCat(store)
  BY DEF querySql, RestrictedInv
<1>3. StoreOK(f, rn) /\ Shrinks(store, f)
  BY <1>2, LockedOK
<1>4. store' = flushTtl(f, io)
  BY <1>1, <1>2 DEF enforceRestrictedDataTtls
<1>. HIDE DEF f
<1>5. /\ StoreOK(store', rn) /\ Shrinks(f, store')
      /\ ~Fails("delete", io) => \A e \in Rows(store') : e.age < RowTtl
  BY <1>3, <1>4, FlushTtlOK
<1>6. OneCat(store')
  BY <1>2, <1>3, <1>5, OneCatShrinks
<1>7. answer'.rows \subseteq Rows(store') /\ answer'.enforced = ~Fails("delete", io)
  BY <1>1 DEF Answer
<1>8. rn' \in Nat /\ StoreOK(store', rn') /\ AnswerInTtl' /\ DbOnlyWhileRestricted'
  BY <1>2, <1>5, <1>7 DEF AnswerInTtl, DbOnlyWhileRestricted
<1>. QED
  BY <1>6, <1>8 DEF RestrictedInv

\* A producer that starts without a category.
LEMMA StartedAnewOK ==
  ASSUME RestrictedAssumption, NEW s, NEW n, StoreOK(s, n)
  PROVE  StoreOK(StartedAnew(s), n) /\ StartedAnew(s).db = s.db /\ OneCat(StartedAnew(s))
  BY StartedOK DEF StartedAnew

\* The database of a config that ends goes, or is left.
LEMMA DbOfOldConfigOK ==
  ASSUME RestrictedAssumption, NEW s, NEW n, StoreOK(s, n), NEW io,
         rconf # "restricted" /\ s.db.file => stray
  PROVE  LET t == DbOfOldConfig(s, io)
         IN  StoreOK(t, n) /\ (t.db.file => stray \/ LeavesDb(s, io))
<1>1. StoreOK(deleteDb(s, io), n) /\ (deleteDb(s, io).db.file => s.db.file /\ "remove" \in io)
  BY DeleteDbOK
<1>2. CASE rconf = "restricted"
  BY <1>1, <1>2 DEF DbOfOldConfig, LeavesDb
<1>3. CASE rconf # "restricted"
  BY <1>3 DEF DbOfOldConfig
<1>. QED
  BY <1>2, <1>3

\* An update of the config, over what a flush left.
LEMMA ConfigUpdatedStep ==
  ASSUME RestrictedAssumption, RestrictedInv, rn' = rn, answer' = NoAnswer,
         NEW s, StoreOK(s, rn), Shrinks(store, s), rconf # "restricted" => s = store,
         NEW conf \in {"restricted", "other", "invalid"}, NEW modular, NEW replaced, NEW io,
         ConfigUpdated(s, conf, modular, replaced, io)
  PROVE  RestrictedInv'
<1>0. /\ rn \in Nat /\ rn' \in Nat /\ AnswerInTtl' /\ (rconf = "restricted" => OneCat(s))
      /\ rconf # "restricted" /\ s.db.file => stray
  BY OneCatShrinks, NoAnswerInTtl DEF RestrictedInv, DbOnlyWhileRestricted
<1>1. CASE ConfigInvalid(s, io)
  <2>. DEFINE t == StartedAnew(s)
  <2>1. StoreOK(t, rn) /\ t.db = s.db
    BY StartedAnewOK
  <2>2. store' = DbOfOldConfig(t, io) /\ rconf' = "none" /\ stray' = (stray \/ LeavesDb(s, io))
    BY <1>1 DEF ConfigInvalid
  <2>. HIDE DEF t
  <2>3. LeavesDb(t, io) <=> LeavesDb(s, io)
    BY <2>1 DEF LeavesDb
  <2>4. StoreOK(store', rn) /\ (store'.db.file => stray \/ LeavesDb(t, io))
    BY <1>0, <2>1, <2>2, DbOfOldConfigOK
  <2>. QED
    BY <1>0, <2>2, <2>3, <2>4 DEF RestrictedInv, DbOnlyWhileRestricted
<1>2. CASE conf # "invalid" /\ ConfigAnew(s, conf, io)
  <2>. DEFINE d == DbOfOldConfig(s, io)
              t == StartedAnew(d)
  <2>1. StoreOK(d, rn) /\ (d.db.file => stray \/ LeavesDb(s, io))
    BY <1>0, DbOfOldConfigOK
  <2>. HIDE DEF d
  <2>2. StoreOK(t, rn) /\ t.db = d.db /\ OneCat(t)
    BY <2>1, StartedAnewOK
  <2>3. /\ store' = (IF conf = "restricted" THEN updateDeviceInfoTable(t, io) ELSE t)
        /\ rconf' = conf /\ stray' = ((stray \/ LeavesDb(s, io)) /\ conf # "restricted")
    BY <1>2 DEF ConfigAnew, d
  <2>. HIDE DEF t
  <2>4. StoreOK(updateDeviceInfoTable(t, io), rn) /\ Shrinks(t, updateDeviceInfoTable(t, io))
    BY <2>2, DeviceInfoOK
  <2>5. StoreOK(store', rn') /\ OneCat(store')
    BY <2>2, <2>3, <2>4, OneCatShrinks
  <2>6. store'.db.file => rconf' = "restricted" \/ stray'
    BY <2>1, <2>2, <2>3
  <2>. QED
    BY <1>0, <2>5, <2>6 DEF RestrictedInv, DbOnlyWhileRestricted
<1>3. CASE ConfigInPlace(s, replaced, io)
  <2>. DEFINE t == IF s.prod.created THEN deleteMetricTable(s, io) ELSE s
  <2>1. StoreOK(t, rn)
    BY DeleteTableOK
  <2>2. /\ rconf' = rconf /\ stray' = stray
        /\ store' = IF ~(replaced /\ rconf = "restricted") THEN s ELSE StartedAnew(t)
    BY <1>3 DEF ConfigInPlace
  <2>. HIDE DEF t
  <2>3. StoreOK(StartedAnew(t), rn) /\ OneCat(StartedAnew(t))
    BY <2>1, StartedAnewOK
  <2>4. StoreOK(store', rn') /\ (rconf' = "restricted" => OneCat(store'))
    BY <1>0, <2>2, <2>3
  <2>5. store'.db.file => rconf' = "restricted" \/ stray'
    BY <1>0, <2>2
  <2>. QED
    BY <1>0, <2>4, <2>5 DEF RestrictedInv, DbOnlyWhileRestricted
<1>. QED
  BY <1>1, <1>2, <1>3 DEF ConfigUpdated

\* An update by its owner.
LEMMA RestrictedUpdatedStep ==
  ASSUME RestrictedAssumption, RestrictedInv, RestrictedUpdated
  PROVE  RestrictedInv'
<1>1. PICK conf \in {"restricted", "other", "invalid"}, modular \in BOOLEAN, replaced \in BOOLEAN,
           io \in Failing(UpdateOperations) :
        ConfigUpdated(flushRestrictedDataLocked(store, io), conf, modular, replaced, io)
  BY DEF RestrictedUpdated
<1>. DEFINE s == flushRestrictedDataLocked(store, io)
<1>2. StoreOK(s, rn) /\ Shrinks(store, s) /\ (rconf # "restricted" => s = store)
  BY LockedOK DEF RestrictedInv
<1>3. rn' = rn /\ answer' = NoAnswer /\ ConfigUpdated(s, conf, modular, replaced, io)
  BY <1>1 DEF RestrictedUpdated
<1>. HIDE DEF s
<1>. QED
  BY <1>2, <1>3, ConfigUpdatedStep

\* A reset after the system server died.
LEMMA ResetStep ==
  ASSUME RestrictedAssumption, RestrictedInv, resetRestricted
  PROVE  RestrictedInv'
<1>1. PICK wrote \in BOOLEAN, io \in Failing(UpdateOperations) :
        ConfigUpdated(IF wrote THEN flushRestrictedDataLocked(store, io) ELSE store,
                      "restricted", FALSE, FALSE, io)
  BY DEF resetRestricted
<1>. DEFINE s == IF wrote THEN flushRestrictedDataLocked(store, io) ELSE store
<1>2. StoreOK(s, rn) /\ Shrinks(store, s) /\ (rconf # "restricted" => s = store)
  BY LockedOK DEF RestrictedInv, Shrinks
<1>3. rn' = rn /\ answer' = NoAnswer /\ ConfigUpdated(s, "restricted", FALSE, FALSE, io)
  BY <1>1 DEF resetRestricted
<1>. HIDE DEF s
<1>. QED
  BY <1>2, <1>3, ConfigUpdatedStep

\* The config is removed, and with it the database.
LEMMA RestrictedRemovedStep ==
  ASSUME RestrictedAssumption, RestrictedInv, RestrictedRemoved
  PROVE  RestrictedInv'
<1>1. PICK io \in Failing(UpdateOperations) :
        LET s == StartedAnew(flushRestrictedDataLocked(store, io))
        IN  store' = DbOfOldConfig(s, io) /\ stray' = (stray \/ LeavesDb(s, io))
  BY DEF RestrictedRemoved
<1>. DEFINE f == flushRestrictedDataLocked(store, io)
            s == StartedAnew(f)
<1>2. StoreOK(f, rn) /\ (rconf # "restricted" => f = store)
  BY LockedOK DEF RestrictedInv
<1>3. store' = DbOfOldConfig(s, io) /\ stray' = (stray \/ LeavesDb(s, io))
  BY <1>1
<1>4. rn' = rn /\ rn \in Nat /\ AnswerInTtl' /\ rconf' = "none"
  BY NoAnswerInTtl DEF RestrictedRemoved, RestrictedInv
<1>. HIDE DEF f
<1>5. StoreOK(s, rn) /\ s.db = f.db
  BY <1>2, StartedAnewOK
<1>. HIDE DEF s
<1>6. rconf # "restricted" /\ s.db.file => stray
  BY <1>2, <1>5 DEF RestrictedInv, DbOnlyWhileRestricted
<1>7. StoreOK(store', rn') /\ (store'.db.file => stray')
  BY <1>3, <1>4, <1>5, <1>6, DbOfOldConfigOK
<1>. QED
  BY <1>4, <1>7 DEF RestrictedInv, DbOnlyWhileRestricted

\* The process ends and starts again.
LEMMA RestrictedRestartStep ==
  ASSUME RestrictedAssumption, RestrictedInv, RestrictedRestart
  PROVE  RestrictedInv'
<1>1. PICK wrote \in BOOLEAN, saves \in BOOLEAN, kept \in BOOLEAN, io \in Failing(RestartOperations) :
       LET f == IF wrote THEN flushRestrictedDataLocked(store, io) ELSE store
           saved == IF saves THEN store.prod.cat ELSE metadata
           loads == kept /\ rconf = "restricted"
       IN  /\ rconf' = IF kept THEN rconf ELSE "none"
           /\ store' = (IF loads THEN flushTtl(updateDeviceInfoTable(Started(f, LoadMetadata(saved), saved), io), io)
                        ELSE StartedAnew(f))
           /\ stray' = (stray \/ (f.db.file /\ ~loads))
  BY DEF RestrictedRestart
<1>. DEFINE f == IF wrote THEN flushRestrictedDataLocked(store, io) ELSE store
            saved == IF saves THEN store.prod.cat ELSE metadata
            loads == kept /\ rconf = "restricted"
            s == Started(f, saved, saved)
            u == updateDeviceInfoTable(s, io)
<1>2. /\ rconf' = IF kept THEN rconf ELSE "none"
      /\ store' = (IF loads THEN flushTtl(u, io) ELSE StartedAnew(f))
      /\ stray' = (stray \/ (f.db.file /\ ~loads))
  BY <1>1 DEF LoadMetadata
<1>3. StoreOK(f, rn)
  BY LockedOK DEF RestrictedInv
<1>4. rn' = rn /\ rn \in Nat /\ AnswerInTtl'
  BY NoAnswerInTtl DEF RestrictedRestart, RestrictedInv
<1>. HIDE DEF f, saved
<1>5. StoreOK(s, rn) /\ OneCat(s)
  BY <1>3, StartedOK
<1>6. StoreOK(StartedAnew(f), rn) /\ StartedAnew(f).db = f.db
  BY <1>3, StartedAnewOK
<1>. HIDE DEF s
<1>7. StoreOK(u, rn) /\ Shrinks(s, u)
  BY <1>5, DeviceInfoOK
<1>. HIDE DEF u
<1>8. StoreOK(flushTtl(u, io), rn) /\ Shrinks(u, flushTtl(u, io))
  BY <1>7, FlushTtlOK
<1>9. CASE loads
  <2>1. store' = flushTtl(u, io) /\ rconf' = "restricted"
    BY <1>2, <1>9
  <2>2. OneCat(store')
    BY <1>5, <1>7, <1>8, <2>1, OneCatShrinks
  <2>. QED
    BY <1>4, <1>8, <2>1, <2>2 DEF RestrictedInv, DbOnlyWhileRestricted
<1>10. CASE ~loads
  <2>1. store' = StartedAnew(f) /\ rconf' # "restricted"
    BY <1>2, <1>10
  <2>2. store'.db.file => stray'
    BY <1>2, <1>6, <1>10, <2>1
  <2>. QED
    BY <1>4, <1>6, <2>1, <2>2 DEF RestrictedInv, DbOnlyWhileRestricted
<1>. QED
  BY <1>9, <1>10

\* An hour goes by.
LEMMA RestrictedTickStep ==
  ASSUME RestrictedAssumption, RestrictedInv, RestrictedTick
  PROVE  RestrictedInv'
<1>. DEFINE q == [i \in DOMAIN store.prod.events |-> OlderEvent(store.prod.events[i])]
<1>1. store' = Store(Producer(q, store.prod.cat, store.prod.created), OlderDb(store.db), store.gone, store.left)
  BY DEF RestrictedTick
<1>2. rconf' = rconf /\ rn' = rn /\ AnswerInTtl' /\ stray' = stray
  BY NoAnswerInTtl DEF RestrictedTick
<1>3. StoreOK(store', rn) /\ (OneCat(store) => OneCat(store')) /\ (store'.db.file <=> store.db.file)
  BY <1>1, OlderOK DEF RestrictedInv
<1>. QED
  BY <1>2, <1>3 DEF RestrictedInv, DbOnlyWhileRestricted

\* For every set of categories and schemas, any times and limits, and whatever operations
\* on the database fail: restricted events are held under the category their producer goes
\* by, but for rows that a failed drop or a start without that category left; no answer has
\* one as old as the time to live unless the deletion failed in that query; a database
\* stays only for a restricted config, unless it could not be removed; and every accepted
\* event is held once or was dropped for a reason.
THEOREM RestrictedDataIsSound == RestrictedSpec => []RestrictedDataSound
<1>1. RestrictedInit => RestrictedInv
  BY RestrictedInvInit
<1>2. RestrictedInv /\ [RestrictedNext]_restrictedVars => RestrictedInv'
  <2>1. ASSUME RestrictedInv, UNCHANGED restrictedVars PROVE RestrictedInv'
    BY <2>1 DEF restrictedVars, RestrictedInv, AnswerInTtl, DbOnlyWhileRestricted
  <2>. QED
    BY <2>1, RestrictedAssumption, RestrictedEventStep, QuerySqlStep, RestrictedUpdatedStep,
       RestrictedRemovedStep, ResetStep, RestrictedRestartStep, RestrictedTickStep DEF RestrictedNext
<1>3. RestrictedInv => RestrictedDataSound
  <2>. SUFFICES ASSUME RestrictedInv PROVE RestrictedDataSound
    OBVIOUS
  <2>1. OneCategory
    BY DEF RestrictedInv, OneCategory, OneCat
  <2>2. RestrictedAccounted
    BY DEF RestrictedInv, StoreOK, Apart, DbOK, RestrictedAccounted, Rows
  <2>. QED
    BY <2>1, <2>2 DEF RestrictedInv, RestrictedDataSound
<1>. QED
  BY <1>1, <1>2, <1>3, PTL DEF RestrictedSpec

-----------------------------------------------------------------------------
(* The receivers of delegates *)

\* Types: intents are numbered by the calls that register them.
ReceiverTypes ==
  /\ changes \in Nat /\ delegate \in Delegates \union {Nobody}
  /\ receiver \in [Delegates -> [state : {"none", "alive", "dead"}, intent : Nat]]
  /\ setting \in [Delegates -> BOOLEAN] /\ DOMAIN knows = Delegates

\* One broadcast at a time, with the metrics of the config if it is for its delegate.
SendingInv ==
  /\ \A b \in sending : b.uid \in Delegates /\ (b.uid = delegate => b.ids = metrics)
  /\ \A b, c \in sending : b = c

\* The delegate with a live receiver knows the metrics, or is about to be told.
ToldInv ==
  \A u \in Delegates :
    receiver[u].state = "alive" /\ ~setting[u] /\ delegate = u =>
      \/ knows[u] = metrics
      \/ \E b \in sending : b.uid = u /\ b.ids = metrics /\ b.intent = receiver[u].intent

ReceiversInv == ReceiverTypes /\ SendingInv /\ ToldInv

\* Nothing is registered at first.
LEMMA ReceiversInvInit == ReceiversInit => ReceiversInv
  BY ReceiversAssumption DEF ReceiversInit, ReceiversInv, ReceiverTypes, SendingInv, ToldInv, NoReceiver

\* Registering, reading, removing and the death of a receiver.
LEMMA ReceiverCallStep ==
  ASSUME ReceiversInv, NEW u \in Delegates,
         \/ setRestrictedMetricsChangedOperation(u) \/ Filled(u)
         \/ removeRestrictedMetricsChangedOperation(u) \/ ReceiverDies(u)
  PROVE  ReceiversInv'
<1>1. CASE setRestrictedMetricsChangedOperation(u)
  BY <1>1 DEF setRestrictedMetricsChangedOperation, Step, ReceiversInv, ReceiverTypes, SendingInv, ToldInv
<1>2. CASE Filled(u)
  BY <1>2 DEF Filled, fillRestrictedMetrics, ReceiversInv, ReceiverTypes, SendingInv, ToldInv
<1>3. CASE removeRestrictedMetricsChangedOperation(u)
  BY <1>3 DEF removeRestrictedMetricsChangedOperation, Step, NoReceiver, ReceiversInv, ReceiverTypes, SendingInv, ToldInv
<1>4. CASE ReceiverDies(u)
  BY <1>4 DEF ReceiverDies, Step, ReceiversInv, ReceiverTypes, SendingInv, ToldInv
<1>. QED
  BY <1>1, <1>2, <1>3, <1>4

\* A config that changes tells the receiver of its delegate.
LEMMA ConfigChangesStep ==
  ASSUME ReceiversInv, ConfigChanges
  PROVE  ReceiversInv'
<1>1. PICK u \in Delegates \union {Nobody}, ids \in MetricSets :
        /\ delegate' = u /\ metrics' = IF u = Nobody THEN {} ELSE ids
        /\ sending' = Told(delegate, u, ids)
  BY DEF ConfigChanges
<1>2. UNCHANGED <<receiver, setting, knows>> /\ changes' = changes + 1
  BY DEF ConfigChanges, Step
<1>3. ReceiverTypes'
  BY <1>1, <1>2 DEF ReceiversInv, ReceiverTypes
<1>4. CASE u = Nobody
  <2>. DEFINE b == [uid |-> delegate, intent |-> receiver[delegate].intent, ids |-> {}]
  <2>0. sending' \subseteq {b} /\ (sending' # {} => delegate # Nobody)
    BY <1>1, <1>4 DEF Told, Collected
  <2>. HIDE DEF b
  <2>1. /\ \A x \in sending' : x.uid \in Delegates /\ x.uid # delegate'
        /\ \A x, y \in sending' : x = y
    <3>1. b.uid = delegate /\ delegate \in Delegates \union {Nobody} /\ delegate' = Nobody
      BY <1>1, <1>4 DEF b, ReceiversInv, ReceiverTypes
    <3>. QED
      BY <2>0, <3>1
  <2>2. \A d \in Delegates : delegate' # d
    BY <1>1, <1>4, ReceiversAssumption
  <2>. QED
    BY <1>3, <2>1, <2>2 DEF ReceiversInv, SendingInv, ToldInv
<1>5. CASE u # Nobody
  <2>. DEFINE b == [uid |-> u, intent |-> receiver[u].intent, ids |-> ids]
  <2>1. sending' = (IF receiver[u].state # "none" THEN {b} ELSE {}) /\ metrics' = ids /\ u \in Delegates
    BY <1>1, <1>5 DEF Told, Collected
  <2>2. b.uid = u /\ b.ids = ids /\ b.intent = receiver[u].intent
    OBVIOUS
  <2>. HIDE DEF b
  <2>3. SendingInv'
    BY <1>1, <2>1, <2>2 DEF SendingInv
  <2>4. ToldInv'
    BY <1>1, <1>2, <2>1, <2>2 DEF ToldInv
  <2>. QED
    BY <1>3, <2>3, <2>4 DEF ReceiversInv
<1>. QED
  BY <1>4, <1>5

\* One intent is sent: a live receiver knows, a dead one is removed.
LEMMA SendStep ==
  ASSUME ReceiversInv, NEW b \in sending, Send(b)
  PROVE  ReceiversInv'
<1>1. PICK alive \in (IF receiver[b.uid].intent = b.intent THEN {receiver[b.uid].state = "alive"} ELSE BOOLEAN) :
        IF alive THEN knows' = [knows EXCEPT ![b.uid] = b.ids] /\ UNCHANGED receiver
        ELSE receiver' = Gone(b) /\ UNCHANGED knows
  BY DEF Send
<1>2. sending' = {} /\ UNCHANGED <<delegate, metrics, setting, changes>> /\ b.uid \in Delegates
  BY DEF Send, ReceiversInv, SendingInv
<1>3. CASE alive
  BY <1>1, <1>2, <1>3 DEF ReceiversInv, ReceiverTypes, SendingInv, ToldInv
<1>4. CASE ~alive
  <2>1. receiver' = Gone(b) /\ knows' = knows
    BY <1>1, <1>4
  <2>2. receiver[b.uid].intent = b.intent => receiver[b.uid].state # "alive"
    BY <1>1, <1>4
  <2>3. CASE receiver[b.uid].intent = b.intent
    BY <1>2, <2>1, <2>2, <2>3 DEF Gone, NoReceiver, ReceiversInv, ReceiverTypes, SendingInv, ToldInv
  <2>4. CASE receiver[b.uid].intent # b.intent
    BY <1>2, <2>1, <2>4 DEF Gone, ReceiversInv, ReceiverTypes, SendingInv, ToldInv
  <2>. QED
    BY <2>3, <2>4
<1>. QED
  BY <1>3, <1>4

\* The invariant holds of every reachable state.
LEMMA ReceiversInvariant == ReceiversSpec => []ReceiversInv
<1>1. ReceiversInv /\ UNCHANGED receiverVars => ReceiversInv'
  BY DEF receiverVars, ReceiversInv, ReceiverTypes, SendingInv, ToldInv
<1>2. ReceiversInv /\ [ReceiversNext]_receiverVars => ReceiversInv'
  BY <1>1, ReceiverCallStep, ConfigChangesStep, SendStep DEF ReceiversNext
<1>. QED
  BY <1>2, ReceiversInvInit, PTL DEF ReceiversSpec

\* A step that takes the live receiver of a delegate out is one of its own calls.
ReceiverKept == \A u \in Delegates : (receiver[u].state = "alive" /\ receiver'[u].state = "none") => changes' # changes

\* Every step keeps live receivers but the call that removes one.
LEMMA ReceiverStaysStep ==
  ASSUME ReceiversInv, ReceiversNext
  PROVE  ReceiverKept
<1>1. ASSUME Step PROVE ReceiverKept
  BY <1>1 DEF Step, ReceiversInv, ReceiverTypes, ReceiverKept
<1>2. ASSUME NEW u \in Delegates, Filled(u) PROVE ReceiverKept
  BY <1>2 DEF Filled, ReceiverKept
<1>3. ASSUME NEW b \in sending, Send(b) PROVE ReceiverKept
  <2>1. PICK alive \in (IF receiver[b.uid].intent = b.intent THEN {receiver[b.uid].state = "alive"} ELSE BOOLEAN) :
          IF alive THEN UNCHANGED receiver ELSE receiver' = Gone(b)
    BY <1>3 DEF Send
  <2>2. CASE alive \/ receiver[b.uid].intent # b.intent
    BY <2>1, <2>2 DEF Gone, ReceiverKept
  <2>3. CASE ~alive /\ receiver[b.uid].intent = b.intent
    BY <2>1, <2>3 DEF Gone, ReceiverKept, ReceiversInv, ReceiverTypes
  <2>. QED
    BY <2>2, <2>3
<1>. QED
  BY <1>1, <1>2, <1>3 DEF ReceiversNext, setRestrictedMetricsChangedOperation,
     removeRestrictedMetricsChangedOperation, ReceiverDies, ConfigChanges

\* For every set of delegates and metrics: a delegate with a live receiver knows the
\* metrics of the config that allows it once its call has returned and the broadcast is
\* out, and its receiver is removed only by its own call or when it is dead itself.
THEOREM ReceiversAreSound == ReceiversSpec => ReceiversSound
<1>1. ReceiversInv => DelegateUpToDate
  BY DEF ReceiversInv, ToldInv, DelegateUpToDate
<1>2. ReceiversInv /\ [ReceiversNext]_receiverVars => [ReceiverKept]_receiverVars
  BY ReceiverStaysStep
<1>. QED
  BY <1>1, <1>2, ReceiversInvariant, PTL DEF ReceiversSpec, ReceiversSound, NewReceiverKept, ReceiverKept

-----------------------------------------------------------------------------
(* Refractory periods *)

Declarations == [wall : Int, restarts : Nat, savedSince : BOOLEAN, kept : BOOLEAN]

\* Until then a key that was declared as d is silent, after the restarts since.
SilentTill(d) ==
  d.wall + (refractory_period_secs - (restarts - d.restarts)) * TicksPerSec

\* The entry lasts that long, or that time is over.
EntryLasts(till, ends) == till <= boot + ends * TicksPerSec \/ till <= boot + now

\* So does what was written of it, whose second is one of the wall clock: it began
\* up to boot - FloorSec(boot) * TicksPerSec before one of elapsed time.
FileLasts(till, written) ==
  \/ till <= boot + now
  \/ written # 0 /\ till <= written * TicksPerSec + (boot - FloorSec(boot) * TicksPerSec)

PeriodsInv ==
  /\ now \in Nat /\ boot \in Nat /\ restarts \in Nat
  /\ mRefractoryPeriodEndsSec \in [Keys -> Nat] /\ metadataFile \in [Keys -> Nat]
  /\ declared \in [Keys -> Declarations]
  /\ \A k \in Keys : declared[k].kept =>
       /\ EntryLasts(SilentTill(declared[k]), mRefractoryPeriodEndsSec[k])
       /\ declared[k].savedSince => FileLasts(SilentTill(declared[k]), metadataFile[k])

\* Seconds are as long as ticks say.
LEMMA SecondsOrdered ==
  ASSUME NEW x \in Int, NEW y \in Int, x * TicksPerSec < y * TicksPerSec
  PROVE  x < y
<1>1. TicksPerSec \in Nat /\ TicksPerSec > 0
  BY RefractoryAssumption
<1>2. SUFFICES ASSUME y <= x PROVE y * TicksPerSec <= x * TicksPerSec
  BY <1>1
<1>3. PICK d \in Nat : x = y + d
  BY <1>2
<1>4. x * TicksPerSec = y * TicksPerSec + d * TicksPerSec
  BY <1>1, <1>3
<1>5. d * TicksPerSec >= 0
  BY <1>1
<1>. QED
  BY <1>1, <1>4, <1>5

\* The second of a time begins at most a second before it.
LEMMA FloorIsNear ==
  ASSUME NEW a \in Nat
  PROVE  /\ FloorSec(a) \in Nat /\ FloorSec(a) * TicksPerSec \in Nat
         /\ FloorSec(a) * TicksPerSec <= a /\ a < FloorSec(a) * TicksPerSec + TicksPerSec
<1>1. TicksPerSec \in Nat /\ TicksPerSec > 0
  BY RefractoryAssumption
<1>. QED
  BY <1>1 DEF FloorSec

\* The second of a sum is that of its parts, or the next one.
LEMMA FloorOfSum ==
  ASSUME NEW a \in Nat, NEW b \in Nat
  PROVE  \/ FloorSec(a + b) = FloorSec(a) + FloorSec(b)
         \/ FloorSec(a + b) = FloorSec(a) + FloorSec(b) + 1
<1>1. TicksPerSec \in Nat /\ TicksPerSec > 0
  BY RefractoryAssumption
<1>. DEFINE f == FloorSec(a + b)
            g == FloorSec(a) + FloorSec(b)
<1>2. a + b \in Nat
  OBVIOUS
<1>3. /\ f \in Nat /\ f * TicksPerSec \in Nat /\ f * TicksPerSec <= a + b
      /\ a + b < f * TicksPerSec + TicksPerSec
  BY <1>2, FloorIsNear
<1>4. /\ FloorSec(a) \in Nat /\ FloorSec(b) \in Nat /\ FloorSec(a) * TicksPerSec \in Nat
      /\ FloorSec(b) * TicksPerSec \in Nat
      /\ FloorSec(a) * TicksPerSec <= a /\ a < FloorSec(a) * TicksPerSec + TicksPerSec
      /\ FloorSec(b) * TicksPerSec <= b /\ b < FloorSec(b) * TicksPerSec + TicksPerSec
  BY FloorIsNear
<1>5. g \in Nat /\ g * TicksPerSec = FloorSec(a) * TicksPerSec + FloorSec(b) * TicksPerSec
  BY <1>1, <1>4
<1>. HIDE DEF f, g
<1>6. g * TicksPerSec <= a + b /\ a + b < g * TicksPerSec + TicksPerSec + TicksPerSec
      /\ g * TicksPerSec \in Nat
  BY <1>1, <1>4, <1>5
<1>7. (f + 1) * TicksPerSec = f * TicksPerSec + TicksPerSec
      /\ (g + 2) * TicksPerSec = g * TicksPerSec + TicksPerSec + TicksPerSec
  BY <1>1, <1>3, <1>5
<1>8. g * TicksPerSec < (f + 1) * TicksPerSec /\ f * TicksPerSec < (g + 2) * TicksPerSec
  BY <1>1, <1>3, <1>6, <1>7
<1>9. g < f + 1 /\ f < g + 2
  <2>1. g \in Int /\ f \in Int /\ f + 1 \in Int /\ g + 2 \in Int
    BY <1>3, <1>5
  <2>. QED
    BY <1>8, <2>1, SecondsOrdered
<1>10. f = g \/ f = g + 1
  BY <1>3, <1>5, <1>9
<1>. QED
  BY <1>10 DEF f, g

\* An anomaly that is declared now gets the whole period.
LEMMA DeclaredLasts ==
  ASSUME NEW b \in Nat, NEW a \in Nat
  PROVE  /\ RefractoryEnd(a) \in Nat
         /\ b + a + refractory_period_secs * TicksPerSec <= b + RefractoryEnd(a) * TicksPerSec
<1>1. TicksPerSec \in Nat /\ TicksPerSec > 0 /\ refractory_period_secs \in Nat
  BY RefractoryAssumption
<1>. DEFINE r == RoundUpSec(a)
<1>2. r = FloorSec((a + TicksPerSec) - 1) /\ (a + TicksPerSec) - 1 \in Nat
  BY <1>1 DEF RoundUpSec, FloorSec
<1>3. r \in Nat /\ r * TicksPerSec \in Nat /\ a <= r * TicksPerSec
  BY <1>1, <1>2, FloorIsNear
<1>. HIDE DEF r
<1>4. RefractoryEnd(a) = r + refractory_period_secs
  BY DEF RefractoryEnd, r
<1>5. (r + refractory_period_secs) * TicksPerSec = r * TicksPerSec + refractory_period_secs * TicksPerSec
      /\ refractory_period_secs * TicksPerSec \in Nat
  BY <1>1, <1>3
<1>. QED
  BY <1>3, <1>4, <1>5, <1>1

\* What is written lasts as long as the entry (writeAlertMetadataToProto).
LEMMA SaveLasts ==
  ASSUME NEW b \in Nat, NEW a \in Nat, NEW e \in Nat, NEW till \in Int,
         till <= b + e * TicksPerSec \/ till <= b + a,
         NEW f, f = IF e = 0 \/ e < FloorSec(a) THEN 0 ELSE FloorSec(b + a) + (e - FloorSec(a))
  PROVE  /\ f \in Nat
         /\ \/ till <= b + a
            \/ f # 0 /\ till <= f * TicksPerSec + (b - FloorSec(b) * TicksPerSec)
<1>1. TicksPerSec \in Nat /\ TicksPerSec > 0
  BY RefractoryAssumption
<1>2. /\ FloorSec(a) \in Nat /\ FloorSec(b) \in Nat /\ FloorSec(a) * TicksPerSec <= a
      /\ FloorSec(a) * TicksPerSec \in Nat /\ FloorSec(b) * TicksPerSec \in Nat
  BY FloorIsNear
<1>3. \/ FloorSec(b + a) = FloorSec(b) + FloorSec(a)
      \/ FloorSec(b + a) = FloorSec(b) + FloorSec(a) + 1
  BY FloorOfSum
<1>4. CASE e = 0
  BY <1>1, <1>4
<1>5. CASE e < FloorSec(a)
  <2>1. PICK d \in Nat : FloorSec(a) = e + d
    BY <1>2, <1>5
  <2>2. FloorSec(a) * TicksPerSec = e * TicksPerSec + d * TicksPerSec /\ d * TicksPerSec >= 0
    BY <1>1, <2>1
  <2>3. e * TicksPerSec <= a
    BY <1>1, <1>2, <2>1, <2>2
  <2>4. f = 0
    BY <1>5
  <2>. QED
    BY <1>1, <2>3, <2>4
<1>6. CASE e # 0 /\ ~(e < FloorSec(a))
  <2>1. f = FloorSec(b + a) + (e - FloorSec(a))
    BY <1>6
  <2>2. f = FloorSec(b) + e \/ f = FloorSec(b) + e + 1
    BY <1>2, <1>3, <2>1
  <2>3. f \in Nat /\ f # 0
    BY <1>2, <1>6, <2>2
  <2>4. f * TicksPerSec >= FloorSec(b) * TicksPerSec + e * TicksPerSec
    <3>1. PICK c \in {0, 1} : f = FloorSec(b) + e + c
      BY <1>2, <2>2
    <3>2. f * TicksPerSec = FloorSec(b) * TicksPerSec + e * TicksPerSec + c * TicksPerSec
      BY <1>1, <1>2, <3>1
    <3>3. c * TicksPerSec >= 0 /\ e * TicksPerSec \in Nat
      BY <1>1
    <3>. QED
      BY <1>1, <1>2, <3>2, <3>3
  <2>5. f * TicksPerSec \in Nat /\ e * TicksPerSec \in Nat
    BY <1>1, <2>3
  <2>. QED
    BY <1>1, <1>2, <2>3, <2>4, <2>5
<1>. QED
  BY <1>4, <1>5, <1>6

\* The entry that is loaded of what was written.
LoadedEntry(f, wall, elapsed) ==
  IF f = 0 \/ f < FloorSec(wall) THEN 0 ELSE (f - FloorSec(wall)) + FloorSec(elapsed)

\* What was written lasts till then, as booted at b and after a of uptime.
WrittenLasts(b, a, f, till) ==
  \/ till <= b + a
  \/ f # 0 /\ till <= f * TicksPerSec + (b - FloorSec(b) * TicksPerSec)

\* The clocks at which statsd starts again: the same, or those of a reboot.
StartsAt(b, a, b2, a2) == (b2 = b /\ a2 = a) \/ (b2 = b + a /\ a2 = 0)

\* What is loaded of it lasts less than a second less (loadAlertMetadata).
LEMMA LoadLasts ==
  ASSUME NEW b \in Nat, NEW a \in Nat, NEW f \in Nat, NEW till \in Int,
         WrittenLasts(b, a, f, till), NEW b2, NEW a2, StartsAt(b, a, b2, a2), NEW e, e = LoadedEntry(f, b2 + a2, a2)
  PROVE  /\ e \in Nat
         /\ till - TicksPerSec <= b2 + e * TicksPerSec \/ till - TicksPerSec <= b2 + a2
<1>1. TicksPerSec \in Nat /\ TicksPerSec > 0
  BY RefractoryAssumption
<1>2. /\ b2 \in Nat /\ a2 \in Nat /\ b2 + a2 = b + a /\ b + a \in Nat
      /\ (b2 = b /\ a2 = a) \/ (b2 = b + a /\ a2 = 0)
      /\ \/ till <= b + a
         \/ f # 0 /\ till <= f * TicksPerSec + (b - FloorSec(b) * TicksPerSec)
  BY DEF StartsAt, WrittenLasts
<1>. DEFINE w == FloorSec(b + a)
<1>3. w \in Nat /\ w * TicksPerSec \in Nat /\ w * TicksPerSec <= b + a
  BY <1>2, FloorIsNear
<1>4. /\ FloorSec(b) \in Nat /\ FloorSec(b) * TicksPerSec \in Nat
      /\ FloorSec(b) * TicksPerSec <= b /\ b < FloorSec(b) * TicksPerSec + TicksPerSec
      /\ FloorSec(a2) \in Nat
  BY <1>2, FloorIsNear
<1>5. e = IF f = 0 \/ f < w THEN 0 ELSE (f - w) + FloorSec(a2)
  BY <1>2 DEF LoadedEntry
<1>. HIDE DEF w
<1>6. CASE f = 0
  BY <1>1, <1>2, <1>5, <1>6
<1>7. CASE f < w
  <2>1. PICK d \in Nat : w = f + d
    BY <1>3, <1>7
  <2>2. w * TicksPerSec = f * TicksPerSec + d * TicksPerSec /\ d * TicksPerSec >= 0
    BY <1>1, <2>1
  <2>3. f * TicksPerSec <= b + a /\ f * TicksPerSec \in Nat
    BY <1>1, <1>3, <2>1, <2>2
  <2>4. e = 0
    BY <1>5, <1>7
  <2>5. till - TicksPerSec <= b + a
    BY <1>1, <1>2, <1>4, <2>3
  <2>. QED
    BY <1>2, <2>4, <2>5
<1>8. CASE f # 0 /\ ~(f < w) /\ b2 = b /\ a2 = a
  <2>1. w = FloorSec(b) + FloorSec(a) \/ w = FloorSec(b) + FloorSec(a) + 1
    BY FloorOfSum DEF w
  <2>2. PICK c \in {0, 1} : f = e + FloorSec(b) + c
    BY <1>3, <1>4, <1>5, <1>8, <2>1
  <2>3. e \in Nat
    BY <1>3, <1>4, <1>5, <1>8
  <2>4. f * TicksPerSec = e * TicksPerSec + FloorSec(b) * TicksPerSec + c * TicksPerSec
    BY <1>1, <1>4, <2>2, <2>3
  <2>5. c * TicksPerSec <= TicksPerSec /\ c * TicksPerSec \in Nat /\ e * TicksPerSec \in Nat
    BY <1>1, <2>3
  <2>. QED
    BY <1>1, <1>2, <1>4, <1>8, <2>3, <2>4, <2>5
<1>9. CASE f # 0 /\ ~(f < w) /\ b2 = b + a /\ a2 = 0
  <2>1. FloorSec(a2) = 0
    BY <1>1, <1>9 DEF FloorSec
  <2>2. e \in Nat /\ f = e + w
    BY <1>3, <1>5, <1>9, <2>1
  <2>3. f * TicksPerSec = e * TicksPerSec + w * TicksPerSec /\ e * TicksPerSec \in Nat
    BY <1>1, <1>3, <2>2
  <2>. QED
    BY <1>1, <1>2, <1>3, <1>4, <1>9, <2>2, <2>3
<1>. QED
  BY <1>2, <1>6, <1>7, <1>8, <1>9

-----------------------------------------------------------------------------
\* The end of a silence is a number, and comes a second earlier with each restart.
LEMMA SilenceIsNumber ==
  ASSUME NEW d \in Declarations, restarts \in Nat
  PROVE  /\ SilentTill(d) \in Int
         /\ restarts' = restarts + 1 => SilentTill(d)' = SilentTill(d) - TicksPerSec
         /\ restarts' = restarts => SilentTill(d)' = SilentTill(d)
<1>1. TicksPerSec \in Nat /\ refractory_period_secs \in Nat /\ d.wall \in Int /\ d.restarts \in Nat
  BY RefractoryAssumption DEF Declarations
<1>. DEFINE left == refractory_period_secs - (restarts - d.restarts)
<1>2. left \in Int /\ left * TicksPerSec \in Int
  BY <1>1
<1>3. SilentTill(d) = d.wall + left * TicksPerSec
  BY DEF SilentTill
<1>4. restarts' = restarts + 1 => SilentTill(d)' = d.wall + (left - 1) * TicksPerSec
  BY <1>1 DEF SilentTill
<1>5. restarts' = restarts => SilentTill(d)' = d.wall + left * TicksPerSec
  BY <1>1 DEF SilentTill
<1>. HIDE DEF left
<1>6. (left - 1) * TicksPerSec = left * TicksPerSec - TicksPerSec
  BY <1>1, <1>2
<1>. QED
  BY <1>1, <1>2, <1>3, <1>4, <1>5, <1>6

\* No anomaly was declared yet.
LEMMA PeriodsInit == BootPhase \in Nat /\ Init => PeriodsInv
<1>. SUFFICES ASSUME BootPhase \in Nat, Init PROVE PeriodsInv
  OBVIOUS
<1>1. NeverDeclared \in Declarations /\ NeverDeclared.kept = FALSE
  BY DEF NeverDeclared, Declared, Declarations
<1>2. /\ now = 0 /\ boot = BootPhase /\ restarts = 0 /\ declared = [k \in Keys |-> NeverDeclared]
      /\ mRefractoryPeriodEndsSec = [k \in Keys |-> 0] /\ metadataFile = [k \in Keys |-> 0]
  BY DEF Init, NoEntries
<1>. QED
  BY <1>1, <1>2 DEF PeriodsInv

\* The clock goes on, or an anomaly of another key is declared: nothing changes for this key.
LEMMA PeriodKept ==
  ASSUME PeriodsInv, NEW k \in Keys, declared[k].kept, now' \in Nat, now <= now', UNCHANGED <<boot, restarts>>,
         declared'[k] = declared[k], mRefractoryPeriodEndsSec'[k] = mRefractoryPeriodEndsSec[k],
         metadataFile'[k] = metadataFile[k]
  PROVE  /\ EntryLasts(SilentTill(declared[k]), mRefractoryPeriodEndsSec[k])'
         /\ (declared[k].savedSince => FileLasts(SilentTill(declared[k]), metadataFile[k]))'
<1>1. now \in Nat /\ boot \in Nat /\ restarts \in Nat
  BY DEF PeriodsInv
<1>2. PICK d \in Declarations : d = declared[k]
  BY DEF PeriodsInv
<1>3. PICK till : till = SilentTill(d)
  OBVIOUS
<1>4. till \in Int /\ SilentTill(d)' = till
  BY <1>1, <1>2, <1>3, SilenceIsNumber
<1>5. SilentTill(declared[k]) = till /\ SilentTill(declared[k])' = till
  BY <1>2, <1>3, <1>4 DEF SilentTill
<1>6. /\ EntryLasts(till, mRefractoryPeriodEndsSec[k])
      /\ declared[k].savedSince => FileLasts(till, metadataFile[k])
  BY <1>5 DEF PeriodsInv
<1>7. till <= boot + now => till <= boot' + now'
  <2>1. PICK b \in Nat, a \in Nat, a2 \in Nat : b = boot /\ a = now /\ a2 = now'
    BY <1>1
  <2>2. boot' = b /\ a <= a2
    BY <2>1
  <2>3. till <= b + a => till <= b + a2
    BY <1>4, <2>2
  <2>. QED
    BY <2>1, <2>2, <2>3
<1>8. EntryLasts(till, mRefractoryPeriodEndsSec[k])'
  BY <1>6, <1>7 DEF EntryLasts
<1>9. (declared[k].savedSince => FileLasts(till, metadataFile[k]))'
  BY <1>6, <1>7 DEF FileLasts
<1>. QED
  BY <1>5, <1>8, <1>9 DEF EntryLasts, FileLasts

\* Time passes.
LEMMA PeriodsTick == PeriodsInv /\ Tick => PeriodsInv'
<1>. SUFFICES ASSUME PeriodsInv, Tick PROVE PeriodsInv'
  OBVIOUS
<1>1. /\ now' = now + 1
      /\ UNCHANGED <<mRefractoryPeriodEndsSec, metadataFile, boot, restarts, declared>>
  BY DEF Tick, savedVars
<1>2. now \in Nat /\ now' \in Nat /\ now <= now'
  BY <1>1 DEF PeriodsInv
<1>3. ASSUME NEW k \in Keys, declared[k].kept
      PROVE  /\ EntryLasts(SilentTill(declared[k]), mRefractoryPeriodEndsSec[k])'
             /\ (declared[k].savedSince => FileLasts(SilentTill(declared[k]), metadataFile[k]))'
  BY <1>1, <1>2, <1>3, PeriodKept
<1>. QED
  BY <1>1, <1>2, <1>3 DEF PeriodsInv

\* A step that touches neither periods, clocks nor history.
LEMMA PeriodsSame ==
  ASSUME PeriodsInv,
         UNCHANGED <<mRefractoryPeriodEndsSec, metadataFile, now, boot, restarts, declared>>
  PROVE  PeriodsInv'
BY DEF PeriodsInv, EntryLasts, FileLasts, SilentTill

\* An anomaly that is declared: its key was not silent any more.
LEMMA PeriodsDeclare ==
  ASSUME PeriodsInv, NEW k \in Keys, ~isInRefractoryPeriod(mRefractoryPeriodEndsSec, now, k),
         mRefractoryPeriodEndsSec' = [mRefractoryPeriodEndsSec EXCEPT ![k] = RefractoryEnd(now)],
         declared' = [declared EXCEPT ![k] = DeclaredNow],
         UNCHANGED <<metadataFile, now, boot, restarts>>
  PROVE  PeriodsInv' /\ (declared[k].kept => declared'[k].wall >= SilentTill(declared[k]))
<1>1. /\ now \in Nat /\ boot \in Nat /\ restarts \in Nat /\ declared \in [Keys -> Declarations]
      /\ mRefractoryPeriodEndsSec \in [Keys -> Nat] /\ TicksPerSec \in Nat
      /\ refractory_period_secs \in Nat
  BY RefractoryAssumption DEF PeriodsInv
<1>2. /\ DeclaredNow \in Declarations /\ DeclaredNow.wall = boot + now /\ DeclaredNow.kept = TRUE
      /\ DeclaredNow.restarts = restarts /\ DeclaredNow.savedSince = FALSE
  BY <1>1 DEF DeclaredNow, Declared, Declarations
<1>3. PICK e \in Nat : e = RefractoryEnd(now) /\ boot + now + refractory_period_secs * TicksPerSec <= boot + e * TicksPerSec
  BY <1>1, DeclaredLasts
<1>4. PICK d \in Declarations : d = DeclaredNow
  BY <1>2
<1>5. /\ mRefractoryPeriodEndsSec' \in [Keys -> Nat] /\ declared' \in [Keys -> Declarations]
      /\ mRefractoryPeriodEndsSec'[k] = e /\ declared'[k] = d
      /\ \A j \in Keys \ {k} : mRefractoryPeriodEndsSec'[j] = mRefractoryPeriodEndsSec[j]
                              /\ declared'[j] = declared[j]
  BY <1>1, <1>2, <1>3, <1>4
<1>6. ASSUME NEW j \in Keys, declared'[j].kept
      PROVE  /\ EntryLasts(SilentTill(declared[j]), mRefractoryPeriodEndsSec[j])'
             /\ (declared[j].savedSince => FileLasts(SilentTill(declared[j]), metadataFile[j]))'
  <2>1. CASE j = k
    <3>1. SilentTill(declared[k])' = boot + now + refractory_period_secs * TicksPerSec
      <4>1. d.wall = boot + now /\ d.restarts = restarts
        BY <1>2, <1>4
      <4>2. SilentTill(declared[k])'
              = boot + now + (refractory_period_secs - (restarts - restarts)) * TicksPerSec
        BY <1>5, <4>1 DEF SilentTill
      <4>3. refractory_period_secs - (restarts - restarts) = refractory_period_secs
        BY <1>1
      <4>. QED
        BY <4>2, <4>3
    <3>2. EntryLasts(SilentTill(declared[k]), mRefractoryPeriodEndsSec[k])'
      BY <1>3, <1>5, <3>1 DEF EntryLasts
    <3>3. ~declared'[k].savedSince
      BY <1>2, <1>4, <1>5
    <3>. QED
      BY <2>1, <3>2, <3>3
  <2>2. CASE j # k
    <3>1. /\ declared'[j] = declared[j] /\ mRefractoryPeriodEndsSec'[j] = mRefractoryPeriodEndsSec[j]
          /\ metadataFile'[j] = metadataFile[j] /\ declared[j].kept /\ now' \in Nat /\ now <= now'
      BY <1>1, <1>5, <1>6, <2>2
    <3>. QED
      BY <3>1, PeriodKept
  <2>. QED
    BY <2>1, <2>2
<1>7. PeriodsInv'
  BY <1>1, <1>5, <1>6 DEF PeriodsInv
<1>8. declared[k].kept => declared'[k].wall >= SilentTill(declared[k])
  <2>1. declared'[k].wall = boot + now
    BY <1>2, <1>4, <1>5
  <2>2. mRefractoryPeriodEndsSec[k] \in Nat /\ mRefractoryPeriodEndsSec[k] * TicksPerSec \in Nat
        /\ mRefractoryPeriodEndsSec[k] * TicksPerSec <= now
    BY <1>1 DEF isInRefractoryPeriod
  <2>3. PICK c \in Declarations : c = declared[k]
    BY <1>1
  <2>4. SilentTill(declared[k]) \in Int
    BY <1>1, <2>3, SilenceIsNumber
  <2>5. declared[k].kept => EntryLasts(SilentTill(declared[k]), mRefractoryPeriodEndsSec[k])
    BY DEF PeriodsInv
  <2>. QED
    BY <1>1, <2>1, <2>2, <2>4, <2>5 DEF EntryLasts
<1>. QED
  BY <1>7, <1>8

\* The periods are saved.
LEMMA PeriodsSave == PeriodsInv /\ SaveMetadataToDisk => PeriodsInv'
<1>. SUFFICES ASSUME PeriodsInv, SaveMetadataToDisk PROVE PeriodsInv'
  OBVIOUS
<1>1. /\ metadataFile' = writeAlertMetadataToProto(mRefractoryPeriodEndsSec, boot + now, now)
      /\ declared' = [k \in Keys |-> SavedSince(declared[k])]
      /\ UNCHANGED <<mRefractoryPeriodEndsSec, now, boot, restarts>>
  BY DEF SaveMetadataToDisk, clocks
<1>2. /\ now \in Nat /\ boot \in Nat /\ restarts \in Nat /\ declared \in [Keys -> Declarations]
      /\ mRefractoryPeriodEndsSec \in [Keys -> Nat]
  BY DEF PeriodsInv
<1>3. ASSUME NEW k \in Keys
      PROVE  /\ metadataFile'[k] \in Nat /\ declared'[k] \in Declarations
             /\ declared'[k].kept =>
                  /\ EntryLasts(SilentTill(declared[k]), mRefractoryPeriodEndsSec[k])'
                  /\ FileLasts(SilentTill(declared[k]), metadataFile[k])'
  <2>1. PICK d \in Declarations : d = declared[k]
    BY <1>2
  <2>2. PICK e \in Nat : e = mRefractoryPeriodEndsSec[k]
    BY <1>2
  <2>3. PICK f : f = IF e = 0 \/ e < FloorSec(now) THEN 0 ELSE FloorSec(boot + now) + (e - FloorSec(now))
    OBVIOUS
  <2>4. metadataFile'[k] = f
    BY <1>1, <2>2, <2>3 DEF writeAlertMetadataToProto
  <2>5. PICK till \in Int : till = SilentTill(d) /\ SilentTill(d)' = till
    BY <1>1, <1>2, <2>1, SilenceIsNumber
  <2>6. /\ declared'[k] \in Declarations /\ declared'[k].wall = d.wall
        /\ declared'[k].restarts = d.restarts /\ declared'[k].kept = d.kept
    BY <1>1, <2>1 DEF SavedSince, Declared, Declarations
  <2>7. SilentTill(declared[k]) = till /\ SilentTill(declared[k])' = till
    BY <1>1, <2>1, <2>5, <2>6 DEF SilentTill
  <2>8. f \in Nat
    <3>1. FloorSec(now) \in Nat /\ FloorSec(boot + now) \in Nat
      BY <1>2, FloorIsNear
    <3>. QED
      BY <2>3, <3>1 DEF LoadedEntry
  <2>9. ASSUME d.kept
        PROVE  EntryLasts(till, e) /\ FileLasts(till, f)
    <3>1. EntryLasts(till, e)
      BY <2>1, <2>2, <2>7, <2>9 DEF PeriodsInv
    <3>2. till <= boot + e * TicksPerSec \/ till <= boot + now
      BY <3>1 DEF EntryLasts
    <3>3. \/ till <= boot + now
          \/ f # 0 /\ till <= f * TicksPerSec + (boot - FloorSec(boot) * TicksPerSec)
      BY <1>2, <2>3, <3>2, SaveLasts
    <3>. QED
      BY <3>1, <3>3 DEF FileLasts
  <2>. QED
    BY <1>1, <2>2, <2>4, <2>6, <2>7, <2>8, <2>9 DEF EntryLasts, FileLasts
<1>4. metadataFile' \in [Keys -> Nat] /\ declared' \in [Keys -> Declarations]
  BY <1>1, <1>3 DEF writeAlertMetadataToProto
<1>. QED
  BY <1>1, <1>2, <1>3, <1>4 DEF PeriodsInv

\* They are loaded, after a death of statsd or a reboot.
LEMMA PeriodsStartup == \A reboot \in BOOLEAN : PeriodsInv /\ Startup(reboot) => PeriodsInv'
<1>. SUFFICES ASSUME NEW reboot \in BOOLEAN, PeriodsInv, Startup(reboot) PROVE PeriodsInv'
  OBVIOUS
<1>1. /\ restarts' = restarts + 1 /\ metadataFile' = [k \in Keys |-> 0]
      /\ mRefractoryPeriodEndsSec' = loadAlertMetadata(metadataFile, boot' + now', now')
      /\ declared' = [k \in Keys |-> LoadedIfSaved(declared[k])]
  BY DEF Startup, NoEntries
<1>2. (boot' = boot /\ now' = now) \/ (boot' = boot + now /\ now' = 0)
  BY DEF Startup
<1>3. /\ now \in Nat /\ boot \in Nat /\ restarts \in Nat /\ declared \in [Keys -> Declarations]
      /\ metadataFile \in [Keys -> Nat] /\ now' \in Nat /\ boot' \in Nat
  BY <1>2 DEF PeriodsInv
<1>4. ASSUME NEW k \in Keys
      PROVE  /\ mRefractoryPeriodEndsSec'[k] \in Nat /\ declared'[k] \in Declarations
             /\ ~declared'[k].savedSince
             /\ declared'[k].kept => EntryLasts(SilentTill(declared[k]), mRefractoryPeriodEndsSec[k])'
  <2>1. PICK d \in Declarations : d = declared[k]
    BY <1>3
  <2>2. PICK f \in Nat : f = metadataFile[k]
    BY <1>3
  <2>3. PICK e : e = LoadedEntry(f, boot' + now', now')
    OBVIOUS
  <2>4. mRefractoryPeriodEndsSec'[k] = e
    BY <1>1, <2>2, <2>3 DEF loadAlertMetadata, LoadedEntry
  <2>5. PICK till \in Int : till = SilentTill(d) /\ SilentTill(d)' = till - TicksPerSec
    BY <1>1, <1>3, <2>1, SilenceIsNumber
  <2>6. /\ declared'[k] \in Declarations /\ declared'[k].wall = d.wall
        /\ declared'[k].restarts = d.restarts /\ declared'[k].kept = (d.kept /\ d.savedSince)
        /\ declared'[k].savedSince = FALSE
    BY <1>1, <2>1 DEF LoadedIfSaved, Declared, Declarations
  <2>7. SilentTill(declared[k]) = till /\ SilentTill(declared[k])' = till - TicksPerSec
    BY <1>1, <2>1, <2>5, <2>6 DEF SilentTill
  <2>8. e \in Nat
    <3>1. FloorSec(now') \in Nat /\ FloorSec(boot' + now') \in Nat
      BY <1>3, FloorIsNear
    <3>. QED
      BY <2>3, <3>1 DEF LoadedEntry
  <2>9. ASSUME d.kept, d.savedSince
        PROVE  till - TicksPerSec <= boot' + e * TicksPerSec \/ till - TicksPerSec <= boot' + now'
    <3>1. FileLasts(till, f)
      BY <2>1, <2>2, <2>7, <2>9 DEF PeriodsInv
    <3>2. \/ till <= boot + now
          \/ f # 0 /\ till <= f * TicksPerSec + (boot - FloorSec(boot) * TicksPerSec)
      BY <3>1 DEF FileLasts
    <3>3. PICK b2 \in Nat, a2 \in Nat : b2 = boot' /\ a2 = now'
      BY <1>3
    <3>4. /\ (b2 = boot /\ a2 = now) \/ (b2 = boot + now /\ a2 = 0)
          /\ e = LoadedEntry(f, b2 + a2, a2)
      BY <1>2, <2>3, <3>3
    <3>5. PICK b \in Nat, a \in Nat : b = boot /\ a = now
      BY <1>3
    <3>6. WrittenLasts(b, a, f, till) /\ StartsAt(b, a, b2, a2)
      BY <3>2, <3>4, <3>5, Zenon DEF WrittenLasts, StartsAt
    <3>7. till - TicksPerSec <= b2 + e * TicksPerSec \/ till - TicksPerSec <= b2 + a2
      BY <3>4, <3>6, LoadLasts, ZenonT(60)
    <3>. QED
      BY <3>3, <3>7
  <2>10. declared'[k].kept => EntryLasts(SilentTill(declared[k]), mRefractoryPeriodEndsSec[k])'
    <3>1. EntryLasts(SilentTill(declared[k]), mRefractoryPeriodEndsSec[k])' =
            (till - TicksPerSec <= boot' + e * TicksPerSec \/ till - TicksPerSec <= boot' + now')
      BY <2>4, <2>7 DEF EntryLasts
    <3>. QED
      BY <2>6, <2>9, <3>1
  <2>. QED
    BY <2>4, <2>6, <2>8, <2>10
<1>5. mRefractoryPeriodEndsSec' \in [Keys -> Nat] /\ declared' \in [Keys -> Declarations]
  BY <1>1, <1>4 DEF loadAlertMetadata
<1>. QED
  BY <1>1, <1>3, <1>4, <1>5 DEF PeriodsInv

\* Every step keeps the periods, and none declares a key that should be silent.
LEMMA PeriodsStep ==
  ASSUME PeriodsInv, [Next]_vars
  PROVE  /\ PeriodsInv'
         /\ \A k \in Keys : declared[k].kept /\ declared'[k].wall # declared[k].wall =>
              declared'[k].wall >= SilentTill(declared[k])
<1>1. CASE UNCHANGED <<mRefractoryPeriodEndsSec, metadataFile, now, boot, restarts, declared>>
  BY <1>1, PeriodsSame
<1>2. CASE Tick
  <2>1. declared' = declared
    BY <1>2 DEF Tick
  <2>. QED
    BY <1>2, <2>1, PeriodsTick
<1>3. CASE SaveMetadataToDisk
  <2>1. \A k \in Keys : declared'[k].wall = declared[k].wall
    BY <1>3 DEF SaveMetadataToDisk, SavedSince, Declared
  <2>. QED
    BY <1>3, <2>1, PeriodsSave
<1>4. ASSUME NEW reboot \in BOOLEAN, Startup(reboot)
      PROVE  PeriodsInv' /\ \A k \in Keys : declared'[k].wall = declared[k].wall
  <2>1. \A k \in Keys : declared'[k].wall = declared[k].wall
    BY <1>4 DEF Startup, LoadedIfSaved, Declared
  <2>. QED
    BY <1>4, <2>1, PeriodsStartup
<1>5. ASSUME NEW k \in Keys, NEW i, NEW v, detectAndDeclareAnomaly(k, i, v)
      PROVE  /\ PeriodsInv'
             /\ \A j \in Keys : declared[j].kept /\ declared'[j].wall # declared[j].wall =>
                  declared'[j].wall >= SilentTill(declared[j])
  <2>1. UNCHANGED <<metadataFile, now, boot, restarts>>
    BY <1>5 DEF detectAndDeclareAnomaly, savedVars, clocks
  <2>2. CASE UNCHANGED <<mRefractoryPeriodEndsSec, declared>>
    BY <2>1, <2>2, PeriodsSame
  <2>3. CASE /\ ~isInRefractoryPeriod(mRefractoryPeriodEndsSec, now, k)
             /\ mRefractoryPeriodEndsSec' = [mRefractoryPeriodEndsSec EXCEPT ![k] = RefractoryEnd(now)]
             /\ declared' = [declared EXCEPT ![k] = DeclaredNow]
    <3>1. PeriodsInv' /\ (declared[k].kept => declared'[k].wall >= SilentTill(declared[k]))
      BY <2>1, <2>3, PeriodsDeclare
    <3>2. \A j \in Keys \ {k} : declared'[j] = declared[j]
      BY <2>3 DEF PeriodsInv
    <3>. QED
      BY <3>1, <3>2
  <2>. QED
    BY <1>5, <2>2, <2>3 DEF detectAndDeclareAnomaly
<1>6. ASSUME NEW bucket, NEW i, addPastBucket(bucket, i)
      PROVE  UNCHANGED <<mRefractoryPeriodEndsSec, metadataFile, now, boot, restarts, declared>>
  BY <1>6 DEF addPastBucket, savedVars, clocks
<1>7. ASSUME NEW k, NEW v, NEW i, addPastBucketValue(k, v, i)
      PROVE  UNCHANGED <<mRefractoryPeriodEndsSec, metadataFile, now, boot, restarts, declared>>
  BY <1>7 DEF addPastBucketValue, savedVars, clocks
<1>8. CASE UNCHANGED vars
  BY <1>1, <1>8 DEF vars, savedVars, clocks
<1>. QED
  BY <1>1, <1>2, <1>3, <1>4, <1>5, <1>6, <1>7, <1>8 DEF Next

\* A key is silent for the refractory period across deaths of statsd and reboots that
\* loaded what was saved, less at most a second for each (writeAlertMetadataToProto and
\* loadAlertMetadata, which round elapsed time and wall clock apart), for every length
\* of a second, every period and every offset of the wall clock.
THEOREM SilenceOutlivesRestarts ==
  ASSUME BootPhase \in Nat
  PROVE  Spec => RefractorySurvives
<1>1. Init => PeriodsInv
  BY PeriodsInit
<1>2. PeriodsInv /\ [Next]_vars => PeriodsInv'
  BY PeriodsStep
<1>3. PeriodsInv /\ [Next]_vars =>
        [\A k \in Keys :
           declared[k].kept /\ declared'[k].wall # declared[k].wall =>
             declared'[k].wall >=
               declared[k].wall
                 + (refractory_period_secs - (restarts - declared[k].restarts)) * TicksPerSec]_vars
  BY PeriodsStep DEF SilentTill
<1>. QED
  BY <1>1, <1>2, <1>3, PTL DEF Spec, RefractorySurvives
=============================================================================
