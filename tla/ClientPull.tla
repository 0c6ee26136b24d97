----------------------------- MODULE ClientPull -----------------------------
(***************************************************************************)
(* A client process that registers pullers with statsd:                    *)
(*   lib/libstatspull/stats_pull_atom_callback.cpp   the map of pullers,   *)
(*                 the queue of commands and its worker thread             *)
(*   lib/libstatspull/stats_provider.cpp   the connection to statsd, its   *)
(*                 death notice and the registration anew                  *)
(*                                                                         *)
(* One thread of the client calls the library.  statsd may die and come    *)
(* back; a call to a statsd that is dead does nothing, and its status is   *)
(* not looked at.  To fetch the service and to call it is one step: a      *)
(* statsd that dies in between forgets the call.  Callbacks are numbered.  *)
(***************************************************************************)
EXTENDS Integers, Sequences, FiniteSets

CONSTANTS
  ClientTags,
  WaitKinds,                     \* may fetching the service wait for it? (before Android S it does not)
  ClientMaxCalls, ClientMaxDeaths   \* bounds

ASSUME ClientAssumption ==
  /\ WaitKinds \subseteq BOOLEAN /\ {ClientMaxCalls, ClientMaxDeaths} \subseteq Nat

VARIABLES
  client,    \* pullers, the calling thread, mCmdQueue and mThreadAlive
  worker,    \* mWorkThread
  provider,  \* StatsProvider: mStatsd, as the generation of statsd, and the links to death
  restarts,  \* per generation of statsd: the binder thread that hears of its death
  service    \* statsd itself (external), and whether the client waits for it

clientVars == <<client, worker, provider, restarts, service>>

Nothing == 0
Generations == 1..(ClientMaxDeaths + 1)
NoPullers == [t \in ClientTags |-> Nothing]
NoCmd == [type |-> "none", tag |-> "none", callback |-> Nothing]

ClientInit ==
  /\ client = [pullers |-> NoPullers, pc |-> "idle", cmd |-> NoCmd, mCmdQueue |-> << >>,
               mThreadAlive |-> FALSE, calls |-> 0, overlapped |-> FALSE]
  /\ worker = [pc |-> "none", cmd |-> NoCmd]
  /\ provider = [mStatsd |-> Nothing, linked |-> {}]
  /\ restarts = [g \in Generations |-> [pc |-> "off", to |-> Nothing, copy |-> NoPullers]]
  /\ \E waits \in WaitKinds, up \in BOOLEAN :
       service = [up |-> up, generation |-> 1, registered |-> NoPullers, waits |-> waits]

-----------------------------------------------------------------------------
(* statsd, and the connection to it *)

ServiceDies ==
  /\ service.up /\ service.generation <= ClientMaxDeaths
  /\ service' = [service EXCEPT !.up = FALSE, !.registered = NoPullers]
  /\ restarts' = IF service.generation \in provider.linked
                   THEN [restarts EXCEPT ![service.generation] = [@ EXCEPT !.pc = "died"]] ELSE restarts
  /\ UNCHANGED <<client, worker, provider>>

ServiceComesBack ==
  /\ ~service.up /\ service.generation < ClientMaxDeaths + 1
  /\ service' = [service EXCEPT !.up = TRUE, !.generation = @ + 1]
  /\ UNCHANGED <<client, worker, provider, restarts>>

\* getStatsService: the service that is known, or the one that is fetched, with a
\* link to its death; Nothing when there is none and the fetch does not wait.
CanFetch == provider.mStatsd # Nothing \/ service.up \/ ~service.waits
getStatsService ==
  IF provider.mStatsd # Nothing THEN provider.mStatsd
  ELSE IF service.up THEN service.generation ELSE Nothing
Fetched == [mStatsd |-> getStatsService, linked |-> provider.linked \union ({getStatsService} \ {Nothing})]

\* A call that sets the callback of a tag at statsd, if that generation lives.
Called(to, tag, callback) ==
  IF service.up /\ service.generation = to
    THEN [service EXCEPT !.registered[tag] = callback] ELSE service

-----------------------------------------------------------------------------
(* The calling thread *)

Copied == {g \in Generations : restarts[g].pc = "send"}

\* AStatsManager_setPullAtomCallback and AStatsManager_clearPullAtomCallback: the map first.
SetOrClearPullAtomCallback(type, tag) ==
  LET callback == IF type = "register" THEN client.calls + 1 ELSE Nothing
  IN  /\ client.pc = "idle" /\ client.calls < ClientMaxCalls
      /\ client' = [client EXCEPT
           !.pullers[tag] = callback, !.calls = @ + 1, !.pc = "push",
           !.cmd = [type |-> type, tag |-> tag, callback |-> callback],
           !.overlapped = @ \/ Copied # {}]
      /\ UNCHANGED <<worker, provider, restarts, service>>

pushToQueue ==
  /\ client.pc = "push"
  /\ client' = [client EXCEPT !.mCmdQueue = Append(@, client.cmd), !.pc = "start"]
  /\ UNCHANGED <<worker, provider, restarts, service>>

\* startWorkerThread: only when none is alive, and after the last one has ended.
startWorkerThread ==
  /\ client.pc = "start"
  /\ client' = IF client.mThreadAlive THEN [client EXCEPT !.pc = "idle", !.cmd = NoCmd]
               ELSE [client EXCEPT !.mThreadAlive = TRUE, !.pc = "join"]
  /\ UNCHANGED <<worker, provider, restarts, service>>

JoinAndStart ==
  /\ client.pc = "join" /\ worker.pc = "none"
  /\ worker' = [worker EXCEPT !.pc = "fetch"]
  /\ client' = [client EXCEPT !.pc = "idle", !.cmd = NoCmd]
  /\ UNCHANGED <<provider, restarts, service>>

-----------------------------------------------------------------------------
(* processCommands *)

WorkerFetches ==
  /\ worker.pc = "fetch" /\ CanFetch
  /\ provider' = Fetched
  /\ worker' = [worker EXCEPT !.pc = IF getStatsService = Nothing THEN "drop" ELSE "next"]
  /\ UNCHANGED <<client, restarts, service>>

\* Without statsd the commands go.
WorkerDropsAll ==
  /\ worker.pc = "drop"
  /\ client' = [client EXCEPT !.mCmdQueue = << >>, !.mThreadAlive = FALSE]
  /\ worker' = [worker EXCEPT !.pc = "none"]
  /\ UNCHANGED <<provider, restarts, service>>

\* Under the mutex of the queue.
LeaveThread(c) == [c EXCEPT !.mThreadAlive = FALSE]

WorkerNext ==
  /\ worker.pc = "next"
  /\ IF client.mCmdQueue = << >>
       THEN worker' = [pc |-> "none", cmd |-> NoCmd] /\ client' = LeaveThread(client)
       ELSE /\ worker' = [pc |-> "call", cmd |-> Head(client.mCmdQueue)]
            /\ client' = [client EXCEPT !.mCmdQueue = Tail(@)]
  /\ UNCHANGED <<provider, restarts, service>>

\* registerStatsPullAtomCallbackBlocking, unregisterStatsPullAtomCallbackBlocking
WorkerCalls ==
  /\ worker.pc = "call" /\ CanFetch
  /\ provider' = Fetched
  /\ service' = Called(getStatsService, worker.cmd.tag, worker.cmd.callback)
  /\ worker' = [pc |-> "next", cmd |-> NoCmd]
  /\ UNCHANGED <<client, restarts>>

-----------------------------------------------------------------------------
(* binderDied, and onStatsBinderRestart *)

\* Mutant: the dead statsd is kept.
KeepStatsd == provider

resetStatsService == [provider EXCEPT !.mStatsd = Nothing]

binderDied(g) ==
  /\ restarts[g].pc = "died"
  /\ provider' = resetStatsService
  /\ restarts' = [restarts EXCEPT ![g] = [@ EXCEPT !.pc = "fetch"]]
  /\ UNCHANGED <<client, worker, service>>

RestartFetches(g) ==
  /\ restarts[g].pc = "fetch" /\ CanFetch
  /\ provider' = Fetched
  /\ restarts' = [restarts EXCEPT ![g] =
       [pc |-> IF getStatsService = Nothing THEN "off" ELSE "copy",
        to |-> getStatsService, copy |-> @.copy]]
  /\ UNCHANGED <<client, worker, service>>

\* pullersCopy, under the mutex of the map.
CopyPullers(g) ==
  /\ restarts[g].pc = "copy"
  /\ restarts' = [restarts EXCEPT ![g] = [pc |-> "send", to |-> @.to, copy |-> client.pullers]]
  /\ UNCHANGED <<client, worker, provider, service>>

\* One registration after the other, without the mutex.
RegisterAnew(g) ==
  /\ restarts[g].pc = "send"
  /\ IF restarts[g].copy = NoPullers
       THEN restarts' = [restarts EXCEPT ![g] = [@ EXCEPT !.pc = "off"]] /\ UNCHANGED service
       ELSE \E tag \in {t \in ClientTags : restarts[g].copy[t] # Nothing} :
              /\ service' = Called(restarts[g].to, tag, restarts[g].copy[tag])
              /\ restarts' = [restarts EXCEPT ![g] = [@ EXCEPT !.copy[tag] = Nothing]]
  /\ UNCHANGED <<client, worker, provider>>

RestartStep(g) == binderDied(g) \/ RestartFetches(g) \/ CopyPullers(g) \/ RegisterAnew(g)
WorkerRuns == WorkerFetches \/ WorkerDropsAll \/ WorkerNext \/ WorkerCalls
CallerRuns == pushToQueue \/ startWorkerThread \/ JoinAndStart

ClientNext ==
  \/ ServiceDies \/ ServiceComesBack \/ WorkerRuns \/ CallerRuns
  \/ \E type \in {"register", "unregister"}, tag \in ClientTags : SetOrClearPullAtomCallback(type, tag)
  \/ \E g \in Generations : RestartStep(g)

ClientSpec == ClientInit /\ [][ClientNext]_clientVars

-----------------------------------------------------------------------------
Quiet ==
  /\ client.pc = "idle" /\ client.mCmdQueue = << >> /\ worker.pc = "none"
  /\ service.up /\ \A g \in Generations : restarts[g].pc = "off"

\* No command is left behind: while the calling thread is not about to start the
\* worker, commands in the queue have a thread that will take them (mThreadAlive
\* is cleared under the mutex of the queue, after the last command).
CommandsHaveWorker ==
  client.mCmdQueue # << >> /\ client.pc \in {"idle", "push"} => worker.pc # "none"

\* statsd ends up with exactly the pullers of the client, through deaths of statsd
\* before, between and after the commands, unless a call came while the pullers
\* were being registered anew.
RegistrationsFollowMap ==
  Quiet /\ service.waits /\ ~client.overlapped => service.registered = client.pullers

\* "Always remove the puller from our map. If statsd is down, we will not register
\* it when it comes back" (AStatsManager_clearPullAtomCallback): a puller that is
\* cleared is not registered with the statsd that came back.
NoClearedRegistration ==
  Quiet /\ service.waits =>
    \A t \in ClientTags : client.pullers[t] = Nothing => service.registered[t] = Nothing

\* Every command of the client reaches statsd, and what statsd has registered is
\* what the client asked for last, across deaths of statsd.
RegistrationsSound == CommandsHaveWorker /\ RegistrationsFollowMap
=============================================================================
