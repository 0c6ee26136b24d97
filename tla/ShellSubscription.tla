-------------------------- MODULE ShellSubscription --------------------------
(***************************************************************************)
(* Subscriptions to atoms, by a pipe from the shell or by a callback:      *)
(*   shell/ShellSubscriber.cpp         the set of clients, and the thread  *)
(*                                     that pulls and sends heartbeats     *)
(*   shell/ShellSubscriberClient.cpp   the cache of one client             *)
(*                                                                         *)
(* mMutex is held by every call and by a round of the thread, which gives  *)
(* it up only to sleep, so each is one step.  A round treats the clients   *)
(* one by one and they share nothing: they are treated together.  Times    *)
(* are in one unit.  The thread runs when its sleep is over before time    *)
(* goes on.  A client pulls one atom or none.  Events are numbered, and    *)
(* their sizes are one unit of the cache.                                  *)
(***************************************************************************)
EXTENDS Integers, Sequences, FiniteSets, FiniteSetsExt, SequencesExt

CONSTANTS
  Subscriptions,      \* [id -> [pipe, atoms, pulls, interval, timeout]]
  kMaxSubscriptions, kMaxCacheSize,
  kBetweenHeartbeats, kBetweenCallbacks, kMinCallbackSleep, kMinCallbackPullInterval,
  SubMaxTime, SubMaxEvents, SubMaxStarts   \* bounds

ASSUME SubAssumption ==
  /\ \A i \in DOMAIN Subscriptions :
       /\ Subscriptions[i].pipe \in BOOLEAN /\ Subscriptions[i].pulls \in BOOLEAN
       /\ Subscriptions[i].interval \in Nat /\ Subscriptions[i].timeout \in Int
  /\ {kMaxSubscriptions, kMaxCacheSize, kBetweenHeartbeats, kBetweenCallbacks, kMinCallbackSleep,
      kMinCallbackPullInterval} \subseteq Nat \ {0}
  /\ {SubMaxTime, SubMaxEvents, SubMaxStarts} \subseteq Nat

VARIABLES
  sNow,
  mClientSet, \* subscriptions with a client
  clients,    \* per subscription its ShellSubscriberClient, with the history of it
  helper,     \* mThread, mThreadAlive, mShouldWakeupThread
  inUse,      \* the atoms this consumer asks the filter for
  gone,       \* peers that closed their pipe or died
  started,    \* subscriptions that were ever started
  events      \* events so far

subVars == <<sNow, mClientSet, clients, helper, inUse, gone, started, events>>

SubIds == DOMAIN Subscriptions
Never == -1
FarAway == 1000
AtomsOf(ids) == UNION {Subscriptions[i].atoms : i \in ids}
SubAtoms == AtomsOf(SubIds)
IsPipe(i) == Subscriptions[i].pipe

Client(alive, startTime, lastWrite, prevPull, cache, log) ==
  [alive |-> alive, startTime |-> startTime, lastWrite |-> lastWrite, prevPull |-> prevPull,
   cache |-> cache, log |-> log]
Helper(pc, alive, wakeup, until) ==
  [pc |-> pc, mThreadAlive |-> alive, mShouldWakeupThread |-> wakeup, until |-> until]

\* History of a client: since when the cache has data; the events it matched and neither
\* got nor lost by a call that failed; whether it ever got anything else than the next of
\* them; how often it was told of its end.
Log(since, owed, astray, ended) == [since |-> since, owed |-> owed, astray |-> astray, ended |-> ended]

NewClient(now) == Client(TRUE, now, now, Never, << >>, Log(0, << >>, FALSE, 0))

\* Packages and uids of a pulled atom aside, readConfig leaves the interval.
IntervalOf(i) ==
  IF IsPipe(i) THEN Subscriptions[i].interval
  ELSE Max({Subscriptions[i].interval, kMinCallbackPullInterval})

SubInit ==
  /\ sNow = 0 /\ events = 0 /\ gone = {} /\ inUse = {} /\ started = {} /\ mClientSet = {}
  /\ clients = [i \in SubIds |-> NewClient(0)]
  /\ helper = Helper("off", FALSE, FALSE, 0)

-----------------------------------------------------------------------------
(* One client *)

Died(c) == Client(FALSE, c.startTime, c.lastWrite, c.prevPull, c.cache, c.log)

\* The cache leaves statsd, to the client or not; told is 1 for the end.
Sent(c, ok, told) ==
  LET owed == c.log.owed
  IN  Client(c.alive, c.startTime, sNow, c.prevPull, c.cache,
             Log(c.log.since, SubSeq(owed, Len(c.cache) + 1, Len(owed)),
                 c.log.astray \/ (ok /\ ~IsPrefix(c.cache, owed)), c.log.ended + told))

clearCache(c) ==
  Client(c.alive, c.startTime, c.lastWrite, c.prevPull, << >>,
         Log(0, c.log.owed, c.log.astray, c.log.ended))

\* attemptWriteToPipeLocked
attemptWriteToPipe(i, c) == IF i \in gone THEN Died(c) ELSE Sent(c, TRUE, 0)

triggerFdFlush(i, c) == clearCache(attemptWriteToPipe(i, c))

\* A call that fails for another reason than death loses the data.
triggerCallback(i, c, reason, ok) ==
  IF i \in gone THEN Died(c)
  ELSE clearCache(Sent(c, ok, IF reason = "SUBSCRIPTION_ENDED" THEN 1 ELSE 0))

flushProtoIfNeeded(i, c, ok) ==
  IF IsPipe(i) THEN triggerFdFlush(i, c)
  ELSE IF Len(c.cache) >= kMaxCacheSize THEN triggerCallback(i, c, "STATSD_INITIATED", ok)
  ELSE c

\* writeEventToProtoIfMatched, for an event that matches
writeEvent(c, n) ==
  Client(c.alive, c.startTime, c.lastWrite, c.prevPull, Append(c.cache, n),
         Log(IF c.cache = << >> THEN sNow ELSE c.log.since, Append(c.log.owed, n),
             c.log.astray, c.log.ended))

onLogEventOf(i, c, n, atom, ok) ==
  IF atom \in Subscriptions[i].atoms THEN flushProtoIfNeeded(i, writeEvent(c, n), ok) ELSE c

\* onUnsubscribe, and the client is destroyed with its cache; the history stays.
Unsubscribed(i, c, ok) ==
  LET last == clearCache(IF c.alive THEN triggerCallback(i, c, "SUBSCRIPTION_ENDED", ok) ELSE c)
  IN  Client(FALSE, 0, 0, Never, << >>, last.log)

KeptIfAlive(i, c, ok) == IF c.alive THEN c ELSE Unsubscribed(i, c, ok)

PullDue(i, c) == Subscriptions[i].pulls /\ (c.prevPull = Never \/ c.prevPull + IntervalOf(i) <= sNow)

PulledNow(c) == Client(c.alive, c.startTime, c.lastWrite, sNow, c.cache, c.log)

\* data: did the pull bring an atom that matches?
pullIfNeeded(i, c, n, data, ok) ==
  IF ~PullDue(i, c) THEN c
  ELSE PulledNow(IF data THEN flushProtoIfNeeded(i, writeEvent(c, n), ok) ELSE c)

TimedOut(i, c) ==
  IsPipe(i) /\ Subscriptions[i].timeout > 0 /\ sNow - c.startTime >= Subscriptions[i].timeout

\* pullAndSendHeartbeatsIfNeeded
Beaten(i, c, n, data, ok) ==
  LET pulled == pullIfNeeded(i, c, n, data, ok)
  IN  IF TimedOut(i, c) THEN Died(c)
      ELSE IF IsPipe(i)
        THEN IF sNow - pulled.lastWrite >= kBetweenHeartbeats THEN triggerFdFlush(i, pulled) ELSE pulled
      ELSE IF pulled.cache # << >> /\ sNow - pulled.lastWrite >= kBetweenCallbacks
        THEN triggerCallback(i, pulled, "STATSD_INITIATED", ok)
      ELSE pulled

TimeBeforePull(i, c) == IF Subscriptions[i].pulls THEN c.prevPull + IntervalOf(i) - sNow ELSE FarAway

\* Mutant: the time of the next pull alone decides.
SleepTillPull(i, c) == IF c.alive THEN TimeBeforePull(i, c) ELSE kBetweenHeartbeats

\* How long the thread may sleep for a client, after its turn.  A pipe that has timed
\* out, or whose heartbeat failed, is not asked.
SleepTime(i, c) ==
  IF IsPipe(i)
    THEN IF TimedOut(i, c) \/ (~c.alive /\ sNow - c.lastWrite >= kBetweenHeartbeats)
           THEN kBetweenHeartbeats
         ELSE Min({kBetweenHeartbeats, TimeBeforePull(i, c),
                   c.lastWrite + kBetweenHeartbeats - sNow})
    ELSE Max({kMinCallbackSleep, Min({kBetweenCallbacks, TimeBeforePull(i, c),
                                      c.lastWrite + kBetweenCallbacks - sNow})})

\* updateAtomIdsInUseLocked, when a client left.
AtomsAfter(before, after) == IF after = before THEN inUse ELSE AtomsOf(after)

-----------------------------------------------------------------------------
(* The thread: pullAndSendHeartbeats *)

SleepOver == helper.pc = "sleeping" /\ (helper.until <= sNow \/ helper.mShouldWakeupThread)
HelperDue == helper.pc = "run" \/ SleepOver

\* The clients beaten in a round; those in data get data of a pull, the callbacks of
\* those in fails fail.
Round(data, fails) ==
  [i \in mClientSet |-> Beaten(i, clients[i], events + 1, i \in data, i \notin fails)]

\* After a call that treats each client: who is dead is unsubscribed.
StillThere(treated) == {i \in mClientSet : treated[i].alive}
Kept(treated, fails) ==
  [i \in SubIds |-> IF i \in mClientSet THEN KeptIfAlive(i, treated[i], i \notin fails)
                   ELSE clients[i]]

\* The shortest sleep of all.
SleepAfter(treated) == Min({FarAway} \union {SleepTime(i, treated[i]) : i \in mClientSet})

\* Awake with no client left, or for a round.
pullAndSendHeartbeats ==
  /\ HelperDue \/ (helper.pc = "sleeping" /\ mClientSet = {})
  /\ \E data \in SUBSET {i \in mClientSet : PullDue(i, clients[i])} :
     \E fails \in SUBSET {i \in mClientSet : ~IsPipe(i) /\ (clients[i].cache # << >> \/ i \in data)} :
       /\ data # {} => events < SubMaxEvents
       /\ events' = IF data = {} THEN events ELSE events + 1
       /\ clients' = Kept(Round(data, fails), fails) /\ mClientSet' = StillThere(Round(data, fails))
       /\ helper' = IF mClientSet' = {} THEN Helper("off", FALSE, FALSE, helper.until)
                    ELSE Helper("sleeping", TRUE, FALSE, sNow + SleepAfter(Round(data, fails)))
  /\ inUse' = AtomsAfter(mClientSet, mClientSet')
  /\ UNCHANGED <<sNow, gone, started>>

-----------------------------------------------------------------------------
(* Calls *)

SubTick ==
  /\ sNow < SubMaxTime /\ ~HelperDue /\ sNow' = sNow + 1
  /\ UNCHANGED <<mClientSet, clients, helper, inUse, gone, started, events>>

\* The thread is started, or woken for the first pull of the new client.
StartedOrWoken ==
  IF helper.mThreadAlive THEN Helper(helper.pc, TRUE, TRUE, helper.until)
  ELSE Helper("run", TRUE, helper.mShouldWakeupThread, helper.until)

\* startNewSubscription; a config that cannot be read, or no callback, changes nothing.
startNewSubscription(i) ==
  /\ i \notin started /\ Cardinality(started) < SubMaxStarts /\ started' = started \union {i}
  /\ Cardinality(mClientSet) < kMaxSubscriptions
  /\ mClientSet' = mClientSet \union {i} /\ clients' = [clients EXCEPT ![i] = NewClient(sNow)]
  /\ inUse' = AtomsOf(mClientSet')
  /\ helper' = StartedOrWoken
  /\ UNCHANGED <<sNow, gone, events>>

Informed(atom, fails) ==
  [i \in mClientSet |-> onLogEventOf(i, clients[i], events + 1, atom, i \notin fails)]

\* onLogEvent, for an event that is parsed and not restricted.
onLogEvent(atom) ==
  /\ events < SubMaxEvents /\ atom \in inUse /\ events' = events + 1
  /\ \E fails \in SUBSET {i \in mClientSet : ~IsPipe(i) /\ Len(clients[i].cache) + 1 >= kMaxCacheSize} :
       /\ clients' = Kept(Informed(atom, fails), fails) /\ mClientSet' = StillThere(Informed(atom, fails))
  /\ inUse' = AtomsAfter(mClientSet, mClientSet')
  /\ UNCHANGED <<sNow, helper, gone, started>>

Leaves(i, ok) ==
  /\ clients' = [clients EXCEPT ![i] = Unsubscribed(i, clients[i], ok)]
  /\ mClientSet' = mClientSet \ {i} /\ inUse' = AtomsAfter(mClientSet, mClientSet')

\* A client whose death was seen leaves, any other is flushed.
flushSubscription(i, ok) ==
  /\ i \in mClientSet /\ ~IsPipe(i)
  /\ \/ ~clients[i].alive /\ Leaves(i, ok)
     \/ /\ clients[i].alive /\ UNCHANGED <<mClientSet, inUse>>
        /\ clients' = [clients EXCEPT ![i] = triggerCallback(i, clients[i], "FLUSH_REQUESTED", ok)]
  /\ UNCHANGED <<sNow, helper, gone, started, events>>

unsubscribe(i, ok) ==
  /\ i \in mClientSet /\ ~IsPipe(i) /\ Leaves(i, ok)
  /\ UNCHANGED <<sNow, helper, gone, started, events>>

PeerGoes(i) ==
  /\ i \in mClientSet \ gone /\ gone' = gone \union {i}
  /\ UNCHANGED <<sNow, mClientSet, clients, helper, inUse, started, events>>

SubNext ==
  \/ SubTick \/ pullAndSendHeartbeats
  \/ \E atom \in SubAtoms : onLogEvent(atom)
  \/ \E i \in SubIds : \/ startNewSubscription(i) \/ PeerGoes(i)
                    \/ \E ok \in BOOLEAN : flushSubscription(i, ok) \/ unsubscribe(i, ok)

SubSpec == SubInit /\ [][SubNext]_subVars

-----------------------------------------------------------------------------
\* Types, with a cache that is never left full.
SubTypeOK ==
  /\ sNow \in 0..SubMaxTime /\ events \in 0..SubMaxEvents /\ gone \subseteq SubIds /\ inUse \subseteq SubAtoms
  /\ helper.pc \in {"off", "run", "sleeping"} /\ Cardinality(mClientSet) <= kMaxSubscriptions
  /\ \A i \in SubIds : Len(clients[i].cache) < kMaxCacheSize

\* A client gets every event it matched, once and in order, but for the ones in its
\* cache and those whose call failed (the flushes by size, by time, by request and
\* at the end share one cache with the pulls).
CacheSentOnce ==
  \A i \in SubIds : i \notin gone => ~clients[i].log.astray /\ clients[i].log.owed = clients[i].cache

\* The filter is asked for the atoms of the clients that are there, through every
\* way to leave: by request, found dead by an event, by a flush or by the thread.
AtomsInUseFollow == inUse = AtomsOf(mClientSet)

\* Who unsubscribes alive is told once that it ended, and gets nothing later.
EndedOnce ==
  \A i \in SubIds :
    /\ clients[i].log.ended <= 1 /\ (clients[i].log.ended = 1 => i \notin mClientSet)
    /\ i \in started \ (mClientSet \union gone) /\ ~IsPipe(i) => clients[i].log.ended = 1

\* While there are clients there is a thread, and it serves them in time, however
\* their waits combine: cached data do not grow older than the time between
\* callbacks and one short sleep, a pipe gets its heartbeat on time and its end with at
\* most one heartbeat more, a new client its first pull at once and each later one with
\* at most a short sleep.
ServedInTime ==
  \A i \in mClientSet :
    LET c == clients[i]
        s == Subscriptions[i]
    IN  /\ helper.pc # "off"
        /\ ~HelperDue =>
             /\ c.cache # << >> => sNow - c.log.since < kBetweenCallbacks + kMinCallbackSleep
             /\ s.pipe => /\ sNow - c.lastWrite < kBetweenHeartbeats
                          /\ s.timeout > 0 => sNow - c.startTime < s.timeout + kBetweenHeartbeats
             /\ s.pulls => /\ c.prevPull # Never
                           /\ sNow - c.prevPull < IntervalOf(i) + kMinCallbackSleep

\* A subscription gets what it is owed once and in time, is ended once, and its
\* atoms are asked for as long as it is there.
SubscriptionsServed ==
  SubTypeOK /\ CacheSentOnce /\ AtomsInUseFollow /\ EndedOnce /\ ServedInTime
=============================================================================
