----------------------------- MODULE ClientProofs -----------------------------
(***************************************************************************)
(* What statsd does for its clients, in two parts.                         *)
(*                                                                         *)
(* 1. statsd ends up with the pullers of the client, for every set of tags *)
(* and every number of calls and of deaths of statsd.  A tag whose puller  *)
(* changed has a command on its way, and the last one on its way carries   *)
(* the puller of the map (CommandsInv).  When none is on its way, statsd   *)
(* has the puller of the map or a binder thread that heard of a death is   *)
(* still to register it (AnewInv).  That such a thread exists rests on the *)
(* connection: a statsd that is kept although it is dead has a death       *)
(* notice which was not handled yet, and nobody called the statsd that     *)
(* took its place (LinksInv).                                              *)
(*                                                                         *)
(* 2. Every subscription is served, for every set of subscriptions and all *)
(* times.  Each call does to a client what Treated says, whatever the      *)
(* flushes in it: nothing sent twice, none older than it was.  A round of  *)
(* the thread leaves each client with a sleep that is soon enough for it   *)
(* (SleepIsShort), the shortest is soon enough for all (InTime), and a     *)
(* call while the thread sleeps keeps that (TreatedInTime), as a client is *)
(* never left with an earlier write, pull or older data than before.  A    *)
(* new client wakes the thread instead (HelperInv).                        *)
(***************************************************************************)
EXTENDS
  ClientPull, ShellSubscription, FiniteSetTheorems, WellFoundedInduction, NaturalsInduction, TLAPS


Callbacks == [ClientTags -> Nat]
Commands == [type : {"register", "unregister"}, tag : ClientTags, callback : Nat]

Clients ==
  [pullers : Callbacks, pc : {"idle", "push", "start", "join"}, cmd : Commands \union {NoCmd},
   mCmdQueue : Seq(Commands), mThreadAlive : BOOLEAN, calls : Nat, overlapped : BOOLEAN]
Workers ==
  [pc : {"none", "fetch", "drop", "next", "call"}, cmd : Commands \union {NoCmd}]
Providers == [mStatsd : Generations \union {Nothing}, linked : SUBSET Generations]
Threads ==
  [pc : {"off", "died", "fetch", "copy", "send"}, to : Generations \union {Nothing},
   copy : Callbacks]
Services ==
  [up : BOOLEAN, generation : Generations, registered : Callbacks, waits : BOOLEAN]

TypesInv ==
  /\ client \in Clients /\ worker \in Workers /\ provider \in Providers
  /\ restarts \in [Generations -> Threads] /\ service \in Services
  /\ client.pc = "push" => client.cmd \in Commands
  /\ worker.pc = "call" => worker.cmd \in Commands

\* The thread lives from when it is announced, and commands in the queue have it.
WorkerInv ==
  /\ client.mThreadAlive => worker.pc # "none" \/ client.pc = "join"
  /\ CommandsHaveWorker

-----------------------------------------------------------------------------
(* Commands on their way to statsd. *)

BeingPushed(t) == client.pc = "push" /\ client.cmd.tag = t
InQueue(t) == \E i \in 1..Len(client.mCmdQueue) : client.mCmdQueue[i].tag = t
InHand(t) == worker.pc = "call" /\ worker.cmd.tag = t

OnItsWay(t) == BeingPushed(t) \/ InQueue(t) \/ InHand(t)

LastOfQueue(i) ==
  /\ ~BeingPushed(client.mCmdQueue[i].tag)
  /\ \A j \in 1..Len(client.mCmdQueue) : j > i => client.mCmdQueue[j].tag # client.mCmdQueue[i].tag

\* The last command on its way for a tag carries the callback of the map.
CommandsInv ==
  /\ client.pc = "push" => client.cmd.callback = client.pullers[client.cmd.tag]
  /\ \A i \in 1..Len(client.mCmdQueue) :
       LastOfQueue(i) => client.mCmdQueue[i].callback = client.pullers[client.mCmdQueue[i].tag]
  /\ worker.pc = "call" /\ ~BeingPushed(worker.cmd.tag) /\ ~InQueue(worker.cmd.tag)
       => worker.cmd.callback = client.pullers[worker.cmd.tag]

-----------------------------------------------------------------------------
(* The connection to statsd. *)

Alive(g) == service.up /\ service.generation = g

LinksInv ==
  /\ \A g \in provider.linked : g <= service.generation
  /\ provider.mStatsd # Nothing =>
       /\ provider.mStatsd \in provider.linked
       /\ \A g \in provider.linked : g <= provider.mStatsd
       /\ Alive(provider.mStatsd) \/ restarts[provider.mStatsd].pc = "died"
  /\ \A g \in Generations :
       /\ restarts[g].pc \in {"copy", "send"} => restarts[g].to \in provider.linked
       /\ g >= service.generation /\ service.up => restarts[g].pc = "off"
       /\ g > service.generation => restarts[g].pc = "off"
  /\ ~service.up => service.registered = NoPullers
  /\ service.generation \notin provider.linked => service.registered = NoPullers

-----------------------------------------------------------------------------
(* Pullers that are registered anew. *)

\* A thread that will register the puller of tag t with the statsd that runs.
WillRegister(g, t) ==
  \/ restarts[g].pc \in {"died", "fetch"}
  \/ restarts[g].pc = "copy" /\ Alive(restarts[g].to)
  \/ restarts[g].pc = "send" /\ Alive(restarts[g].to) /\ restarts[g].copy[t] = client.pullers[t]

TagInv(t) ==
  /\ \A g \in Generations :
       restarts[g].pc = "send" => restarts[g].copy[t] \in {Nothing, client.pullers[t]}
  /\ ~OnItsWay(t) =>
       /\ service.registered[t] \in {Nothing, client.pullers[t]}
       /\ service.registered[t] # client.pullers[t] =>
            \E g \in Generations : WillRegister(g, t)

AnewInv ==
  service.waits =>
    /\ worker.pc # "drop"
    /\ ~client.overlapped => \A t \in ClientTags : TagInv(t)

RegistrationsInv == TypesInv /\ WorkerInv /\ CommandsInv /\ LinksInv /\ AnewInv
-----------------------------------------------------------------------------
(* The steps, field by field. *)

\* The records, written out.
LEMMA Records ==
  ASSUME TypesInv
  PROVE  /\ client = [pullers |-> client.pullers, pc |-> client.pc, cmd |-> client.cmd,
                      mCmdQueue |-> client.mCmdQueue, mThreadAlive |-> client.mThreadAlive,
                      calls |-> client.calls, overlapped |-> client.overlapped]
         /\ worker = [pc |-> worker.pc, cmd |-> worker.cmd]
         /\ provider = [mStatsd |-> provider.mStatsd, linked |-> provider.linked]
         /\ service = [up |-> service.up, generation |-> service.generation,
                       registered |-> service.registered, waits |-> service.waits]
  BY DEF TypesInv, Clients, Workers, Providers, Services

\* The types of the fields.
LEMMA Fields ==
  ASSUME TypesInv
  PROVE  /\ client.pullers \in Callbacks /\ client.pc \in {"idle", "push", "start", "join"}
         /\ client.cmd \in Commands \union {NoCmd} /\ client.mCmdQueue \in Seq(Commands)
         /\ client.mThreadAlive \in BOOLEAN /\ client.calls \in Nat
         /\ client.overlapped \in BOOLEAN
         /\ worker.pc \in {"none", "fetch", "drop", "next", "call"}
         /\ worker.cmd \in Commands \union {NoCmd}
         /\ provider.mStatsd \in Generations \union {Nothing}
         /\ provider.linked \subseteq Generations
         /\ service.up \in BOOLEAN /\ service.generation \in Generations
         /\ service.registered \in Callbacks /\ service.waits \in BOOLEAN
  BY DEF TypesInv, Clients, Workers, Providers, Services

\* A call of the client changes one puller of the map.
LEMMA CallFields ==
  ASSUME TypesInv, NEW type \in {"register", "unregister"}, NEW tag \in ClientTags,
         SetOrClearPullAtomCallback(type, tag)
  PROVE  \E callback \in Nat :
           client' = [pullers |-> [client.pullers EXCEPT ![tag] = callback], pc |-> "push",
                      cmd |-> [type |-> type, tag |-> tag, callback |-> callback],
                      mCmdQueue |-> client.mCmdQueue, mThreadAlive |-> client.mThreadAlive,
                      calls |-> client.calls + 1,
                      overlapped |-> (client.overlapped \/ Copied # {})]
  <1> DEFINE callback == IF type = "register" THEN client.calls + 1 ELSE Nothing
             c == client
  <1>1. callback \in Nat
    BY Fields DEF Nothing
  <1>2. client' = [client EXCEPT
           !.pullers[tag] = callback, !.calls = @ + 1, !.pc = "push",
           !.cmd = [type |-> type, tag |-> tag, callback |-> callback],
           !.overlapped = @ \/ Copied # {}]
    BY Zenon DEF SetOrClearPullAtomCallback
  <1> HIDE DEF callback
  <1>3. client' = [pullers |-> [client.pullers EXCEPT ![tag] = callback], pc |-> "push",
                      cmd |-> [type |-> type, tag |-> tag, callback |-> callback],
                      mCmdQueue |-> client.mCmdQueue, mThreadAlive |-> client.mThreadAlive,
                      calls |-> client.calls + 1,
                      overlapped |-> (client.overlapped \/ Copied # {})]
    BY <1>2, Records
  <1> QED BY <1>1, <1>3

\* The other steps of the calling thread and those of the worker on its record.
LEMMA ClientFields ==
  ASSUME TypesInv
  PROVE  /\ pushToQueue =>
              client' = [pullers |-> client.pullers, pc |-> "start", cmd |-> client.cmd,
                         mCmdQueue |-> Append(client.mCmdQueue, client.cmd),
                         mThreadAlive |-> client.mThreadAlive, calls |-> client.calls,
                         overlapped |-> client.overlapped]
         /\ startWorkerThread /\ client.mThreadAlive =>
              client' = [pullers |-> client.pullers, pc |-> "idle", cmd |-> NoCmd,
                         mCmdQueue |-> client.mCmdQueue,
                         mThreadAlive |-> client.mThreadAlive, calls |-> client.calls,
                         overlapped |-> client.overlapped]
         /\ startWorkerThread /\ ~client.mThreadAlive =>
              client' = [pullers |-> client.pullers, pc |-> "join", cmd |-> client.cmd,
                         mCmdQueue |-> client.mCmdQueue,
                         mThreadAlive |-> TRUE, calls |-> client.calls,
                         overlapped |-> client.overlapped]
         /\ JoinAndStart =>
              client' = [pullers |-> client.pullers, pc |-> "idle", cmd |-> NoCmd,
                         mCmdQueue |-> client.mCmdQueue,
                         mThreadAlive |-> client.mThreadAlive, calls |-> client.calls,
                         overlapped |-> client.overlapped]
         /\ WorkerDropsAll =>
              client' = [pullers |-> client.pullers, pc |-> client.pc, cmd |-> client.cmd,
                         mCmdQueue |-> << >>,
                         mThreadAlive |-> FALSE, calls |-> client.calls,
                         overlapped |-> client.overlapped]
         /\ WorkerNext /\ client.mCmdQueue = << >> =>
              client' = [pullers |-> client.pullers, pc |-> client.pc, cmd |-> client.cmd,
                         mCmdQueue |-> client.mCmdQueue,
                         mThreadAlive |-> FALSE, calls |-> client.calls,
                         overlapped |-> client.overlapped]
         /\ WorkerNext /\ client.mCmdQueue # << >> =>
              client' = [pullers |-> client.pullers, pc |-> client.pc, cmd |-> client.cmd,
                         mCmdQueue |-> Tail(client.mCmdQueue),
                         mThreadAlive |-> client.mThreadAlive, calls |-> client.calls,
                         overlapped |-> client.overlapped]
  BY Records DEF pushToQueue, startWorkerThread, JoinAndStart, WorkerDropsAll, WorkerNext, LeaveThread

\* The steps that fetch the service.
LEMMA FetchFields ==
  ASSUME TypesInv, LinksInv
  PROVE  /\ Fetched \in Providers
         /\ Fetched.mStatsd = getStatsService /\ getStatsService \in Generations \union {Nothing}
         /\ provider.linked \subseteq Fetched.linked
         /\ Fetched.linked \subseteq provider.linked \union {service.generation}
         /\ getStatsService # Nothing =>
              /\ getStatsService \in Fetched.linked
              /\ \A g \in Fetched.linked : g <= getStatsService
              /\ Alive(getStatsService) \/ restarts[getStatsService].pc = "died"
         /\ service.waits /\ CanFetch => getStatsService # Nothing
         /\ getStatsService # service.generation => Fetched.linked = provider.linked
  <1> DEFINE g == getStatsService
  <1>1. g \in Generations \union {Nothing}
    BY Fields DEF getStatsService
  <1>2. CASE provider.mStatsd # Nothing
    <2>1. g = provider.mStatsd /\ g \in provider.linked
      BY <1>2 DEF getStatsService, LinksInv
    <2> HIDE DEF g
    <2>2. Fetched = [mStatsd |-> g, linked |-> provider.linked]
      BY <2>1 DEF Fetched, g
    <2> QED BY <1>1, <1>2, <2>1, <2>2, Fields DEF LinksInv, Providers, g
  <1>3. CASE provider.mStatsd = Nothing /\ service.up
    <2>1. g = service.generation /\ Alive(g)
      BY <1>3 DEF getStatsService, Alive
    <2> HIDE DEF g
    <2>2. g # Nothing /\ g \in Int
      BY <2>1, Fields, ClientAssumption DEF Generations, Nothing
    <2>3. Fetched = [mStatsd |-> g, linked |-> provider.linked \union {g}]
      BY <2>2 DEF Fetched, g
    <2> QED BY <1>1, <1>3, <2>1, <2>2, <2>3, Fields DEF LinksInv, Providers, g
  <1>4. CASE provider.mStatsd = Nothing /\ ~service.up
    <2>1. g = Nothing
      BY <1>4 DEF getStatsService
    <2> HIDE DEF g
    <2>2. Fetched = [mStatsd |-> Nothing, linked |-> provider.linked]
      BY <2>1 DEF Fetched, g
    <2> QED BY <1>1, <1>4, <2>1, <2>2, Fields DEF LinksInv, Providers, CanFetch, g
  <1> QED BY <1>2, <1>3, <1>4, Fields

\* What a call leaves at statsd.
LEMMA CalledFields ==
  ASSUME TypesInv, NEW to, NEW tag \in ClientTags, NEW callback \in Nat
  PROVE  /\ Called(to, tag, callback)
              = [up |-> service.up, generation |-> service.generation,
                 registered |-> IF Alive(to) THEN [service.registered EXCEPT ![tag] = callback]
                                ELSE service.registered,
                 waits |-> service.waits]
         /\ Called(to, tag, callback) \in Services
  <1>1. Called(to, tag, callback)
              = [up |-> service.up, generation |-> service.generation,
                 registered |-> IF Alive(to) THEN [service.registered EXCEPT ![tag] = callback]
                                ELSE service.registered,
                 waits |-> service.waits]
    <2>1. CASE Alive(to)
      BY <2>1, Records DEF Called, Alive
    <2>2. CASE ~Alive(to)
      BY <2>2, Records DEF Called, Alive
    <2> QED BY <2>1, <2>2
  <1>2. [service.registered EXCEPT ![tag] = callback] \in Callbacks
    BY Fields DEF Callbacks
  <1> QED BY <1>1, <1>2, Fields DEF Services

\* A step of one binder thread leaves the others alone.
LEMMA ThreadFields ==
  ASSUME TypesInv, NEW g \in Generations
  PROVE  /\ restarts[g] = [pc |-> restarts[g].pc, to |-> restarts[g].to, copy |-> restarts[g].copy]
         /\ restarts[g].to \in Generations \union {Nothing} /\ restarts[g].copy \in Callbacks
         /\ restarts[g].pc \in {"off", "died", "fetch", "copy", "send"}
         /\ binderDied(g) =>
              restarts' = [restarts EXCEPT ![g] =
                 [pc |-> "fetch", to |-> restarts[g].to, copy |-> restarts[g].copy]]
         /\ RestartFetches(g) =>
              restarts' = [restarts EXCEPT ![g] =
                 [pc |-> IF getStatsService = Nothing THEN "off" ELSE "copy",
                  to |-> getStatsService, copy |-> restarts[g].copy]]
         /\ CopyPullers(g) =>
              restarts' = [restarts EXCEPT ![g] =
                 [pc |-> "send", to |-> restarts[g].to, copy |-> client.pullers]]
         /\ RegisterAnew(g) /\ restarts[g].copy = NoPullers =>
              restarts' = [restarts EXCEPT ![g] =
                 [pc |-> "off", to |-> restarts[g].to, copy |-> restarts[g].copy]]
         /\ RegisterAnew(g) /\ restarts[g].copy # NoPullers =>
              \E tag \in ClientTags :
                /\ restarts[g].copy[tag] # Nothing
                /\ service' = Called(restarts[g].to, tag, restarts[g].copy[tag])
                /\ restarts' = [restarts EXCEPT ![g] =
                     [pc |-> restarts[g].pc, to |-> restarts[g].to,
                      copy |-> [restarts[g].copy EXCEPT ![tag] = Nothing]]]
  <1> DEFINE r == restarts[g]
  <1>1. r \in Threads
    BY DEF TypesInv
  <1>2. /\ r = [pc |-> r.pc, to |-> r.to, copy |-> r.copy]
        /\ r.to \in Generations \union {Nothing} /\ r.copy \in Callbacks
        /\ r.pc \in {"off", "died", "fetch", "copy", "send"}
    BY <1>1 DEF Threads
  <1>3. \A pc : [r EXCEPT !.pc = pc] = [pc |-> pc, to |-> r.to, copy |-> r.copy]
    BY <1>2
  <1>6. \A tag : [r EXCEPT !.copy[tag] = Nothing]
                   = [pc |-> r.pc, to |-> r.to, copy |-> [r.copy EXCEPT ![tag] = Nothing]]
    BY <1>2
  <1>7. binderDied(g) =>
              restarts' = [restarts EXCEPT ![g] = [pc |-> "fetch", to |-> r.to, copy |-> r.copy]]
    BY <1>3 DEF binderDied
  <1>8. RestartFetches(g) =>
              restarts' = [restarts EXCEPT ![g] =
                 [pc |-> IF getStatsService = Nothing THEN "off" ELSE "copy",
                  to |-> getStatsService, copy |-> r.copy]]
    BY Zenon DEF RestartFetches
  <1>9. CopyPullers(g) =>
              restarts' = [restarts EXCEPT ![g] =
                 [pc |-> "send", to |-> r.to, copy |-> client.pullers]]
    BY Zenon DEF CopyPullers
  <1>10. RegisterAnew(g) /\ r.copy = NoPullers =>
              restarts' = [restarts EXCEPT ![g] = [pc |-> "off", to |-> r.to, copy |-> r.copy]]
    BY <1>3 DEF RegisterAnew
  <1>11. RegisterAnew(g) /\ r.copy # NoPullers =>
              \E tag \in ClientTags :
                /\ r.copy[tag] # Nothing
                /\ service' = Called(r.to, tag, r.copy[tag])
                /\ restarts' = [restarts EXCEPT ![g] =
                     [pc |-> r.pc, to |-> r.to, copy |-> [r.copy EXCEPT ![tag] = Nothing]]]
    BY <1>6, Zenon DEF RegisterAnew
  <1> QED BY <1>2, <1>7, <1>8, <1>9, <1>10, <1>11

-----------------------------------------------------------------------------
(* The queue of commands. *)

\* A command that is pushed comes last.
LEMMA PushQueue ==
  ASSUME NEW q \in Seq(Commands), NEW c \in Commands
  PROVE  /\ Append(q, c) \in Seq(Commands) /\ Len(q) \in Nat
         /\ Len(Append(q, c)) = Len(q) + 1 /\ Append(q, c)[Len(q) + 1] = c
         /\ \A i \in 1..Len(q) : Append(q, c)[i] = q[i]
  OBVIOUS

\* A command that is taken came first.
LEMMA TakeQueue ==
  ASSUME NEW q \in Seq(Commands), q # << >>
  PROVE  /\ Tail(q) \in Seq(Commands) /\ Len(q) \in Nat \ {0}
         /\ Len(Tail(q)) = Len(q) - 1 /\ Head(q) = q[1] /\ q[1] \in Commands
         /\ \A i \in 1..Len(Tail(q)) : Tail(q)[i] = q[i + 1]
  OBVIOUS

-----------------------------------------------------------------------------
(* Types *)

\* A client starts with well-typed records.
LEMMA TypesInit == ClientInit => TypesInv
  <1> SUFFICES ASSUME ClientInit PROVE TypesInv
    OBVIOUS
  <1>1. NoPullers \in Callbacks
    BY DEF NoPullers, Callbacks, Nothing
  <1>2. 1 \in Generations
    BY ClientAssumption DEF Generations
  <1>3. client \in Clients
    BY <1>1 DEF ClientInit, Clients
  <1>4. worker \in Workers /\ provider \in Providers
    BY DEF ClientInit, Workers, Providers
  <1>5. restarts \in [Generations -> Threads]
    BY <1>1 DEF ClientInit, Threads
  <1>6. service \in Services
    <2>1. PICK waits \in WaitKinds, up \in BOOLEAN :
            service = [up |-> up, generation |-> 1, registered |-> NoPullers, waits |-> waits]
      BY DEF ClientInit
    <2>2. waits \in BOOLEAN
      BY ClientAssumption
    <2> QED BY <1>1, <1>2, <2>1, <2>2 DEF Services
  <1> QED BY <1>3, <1>4, <1>5, <1>6 DEF TypesInv, ClientInit

\* Threads that keep their type.
LEMMA ThreadsKept ==
  ASSUME TypesInv, NEW g \in Generations, NEW r \in Threads,
         restarts' = [restarts EXCEPT ![g] = r]
  PROVE  restarts' \in [Generations -> Threads]
  BY DEF TypesInv

\* statsd dies: what becomes of it and of the thread that hears of it.
LEMMA DeathFields ==
  ASSUME TypesInv, ServiceDies
  PROVE  /\ service' = [up |-> FALSE, generation |-> service.generation,
                        registered |-> NoPullers, waits |-> service.waits]
         /\ service.generation \notin provider.linked => restarts' = restarts
         /\ service.generation \in provider.linked =>
              restarts' = [restarts EXCEPT ![service.generation] =
                [pc |-> "died", to |-> restarts[service.generation].to,
                 copy |-> restarts[service.generation].copy]]
  <1> DEFINE r == restarts[service.generation]
  <1>1. service' = [service EXCEPT !.up = FALSE, !.registered = NoPullers]
    BY DEF ServiceDies
  <1>2. r = [pc |-> r.pc, to |-> r.to, copy |-> r.copy]
    BY Fields, ThreadFields
  <1>3. [r EXCEPT !.pc = "died"] = [pc |-> "died", to |-> r.to, copy |-> r.copy]
    BY <1>2
  <1>4. service' = [up |-> FALSE, generation |-> service.generation,
                    registered |-> NoPullers, waits |-> service.waits]
    BY <1>1, Records
  <1> QED BY <1>3, <1>4 DEF ServiceDies

\* statsd comes back as the next generation.
LEMMA BackFields ==
  ASSUME TypesInv, ServiceComesBack
  PROVE  /\ service' = [up |-> TRUE, generation |-> service.generation + 1,
                        registered |-> service.registered, waits |-> service.waits]
         /\ service.generation + 1 \in Generations /\ ~service.up
  <1>1. service' = [service EXCEPT !.up = TRUE, !.generation = @ + 1]
    BY DEF ServiceComesBack
  <1>2. service' = [up |-> TRUE, generation |-> service.generation + 1,
                    registered |-> service.registered, waits |-> service.waits]
    BY <1>1, Records
  <1>3. service.generation + 1 \in Generations /\ ~service.up
    BY Fields, ClientAssumption DEF ServiceComesBack, Generations
  <1> QED BY <1>2, <1>3

\* Every step keeps the types.
LEMMA TypesStep == TypesInv /\ LinksInv /\ [ClientNext]_clientVars => TypesInv'
  <1> SUFFICES ASSUME TypesInv, LinksInv, [ClientNext]_clientVars PROVE TypesInv'
    OBVIOUS
  <1>a. /\ client.pc = "push" => client.cmd \in Commands
        /\ worker.pc = "call" => worker.cmd \in Commands
        /\ client \in Clients /\ worker \in Workers /\ provider \in Providers
        /\ restarts \in [Generations -> Threads] /\ service \in Services
    BY DEF TypesInv
  <1>b. NoPullers \in Callbacks
    BY DEF NoPullers, Callbacks, Nothing
  <1>1. CASE ServiceDies
    <2>1. service' \in Services
      <3>1. service' = [up |-> FALSE, generation |-> service.generation,
                        registered |-> NoPullers, waits |-> service.waits]
        BY <1>1, DeathFields
      <3> QED BY <1>b, <3>1, Fields DEF Services
    <2>2. restarts' \in [Generations -> Threads]
      <3>1. [pc |-> "died", to |-> restarts[service.generation].to,
             copy |-> restarts[service.generation].copy] \in Threads
        BY Fields, ThreadFields DEF Threads
      <3> QED BY <1>1, <1>a, <3>1, DeathFields, ThreadsKept, Fields
    <2> QED BY <1>1, <1>a, <2>1, <2>2 DEF ServiceDies, TypesInv
  <1>2. CASE ServiceComesBack
    <2>1. service' \in Services
      <3>1. service' = [up |-> TRUE, generation |-> service.generation + 1,
                        registered |-> service.registered, waits |-> service.waits]
        BY <1>2, BackFields
      <3> QED BY <1>2, <3>1, BackFields, Fields DEF Services
    <2> QED BY <1>2, <1>a, <2>1 DEF ServiceComesBack, TypesInv
  <1>3. ASSUME NEW type \in {"register", "unregister"}, NEW tag \in ClientTags,
               SetOrClearPullAtomCallback(type, tag)
        PROVE  TypesInv'
    <2>1. PICK callback \in Nat :
           client' = [pullers |-> [client.pullers EXCEPT ![tag] = callback], pc |-> "push",
                      cmd |-> [type |-> type, tag |-> tag, callback |-> callback],
                      mCmdQueue |-> client.mCmdQueue, mThreadAlive |-> client.mThreadAlive,
                      calls |-> client.calls + 1,
                      overlapped |-> (client.overlapped \/ Copied # {})]
      BY <1>3, CallFields
    <2>2. [client.pullers EXCEPT ![tag] = callback] \in Callbacks
      BY Fields DEF Callbacks
    <2>3. [type |-> type, tag |-> tag, callback |-> callback] \in Commands
      BY DEF Commands
    <2>4. client' \in Clients /\ client'.cmd \in Commands
      BY <2>1, <2>2, <2>3, Fields DEF Clients
    <2> QED BY <1>3, <1>a, <2>4 DEF SetOrClearPullAtomCallback, TypesInv
  <1>4. CASE pushToQueue
    <2>1. Append(client.mCmdQueue, client.cmd) \in Seq(Commands)
      BY <1>4, <1>a, Fields, PushQueue DEF pushToQueue
    <2>2. client' \in Clients /\ client'.pc = "start"
      <3>1. client' = [pullers |-> client.pullers, pc |-> "start", cmd |-> client.cmd,
                       mCmdQueue |-> Append(client.mCmdQueue, client.cmd), mThreadAlive |-> client.mThreadAlive,
                       calls |-> client.calls, overlapped |-> client.overlapped]
        BY <1>4, ClientFields, Zenon
      <3> QED BY <2>1, <3>1, Fields DEF Clients
    <2> QED BY <1>4, <1>a, <2>2 DEF pushToQueue, TypesInv
  <1>5. CASE startWorkerThread
    <2>1. client' \in Clients /\ client'.pc # "push"
      <3>1. CASE client.mThreadAlive
        <4>1. client' = [pullers |-> client.pullers, pc |-> "idle", cmd |-> NoCmd,
                         mCmdQueue |-> client.mCmdQueue, mThreadAlive |-> client.mThreadAlive,
                         calls |-> client.calls, overlapped |-> client.overlapped]
          BY <1>5, <3>1, ClientFields, Zenon
        <4> QED BY <4>1, Fields DEF Clients
      <3>2. CASE ~client.mThreadAlive
        <4>1. client' = [pullers |-> client.pullers, pc |-> "join", cmd |-> client.cmd,
                         mCmdQueue |-> client.mCmdQueue, mThreadAlive |-> TRUE,
                         calls |-> client.calls, overlapped |-> client.overlapped]
          BY <1>5, <3>2, ClientFields, Zenon
        <4> QED BY <4>1, Fields DEF Clients
      <3> QED BY <3>1, <3>2
    <2> QED BY <1>5, <1>a, <2>1 DEF startWorkerThread, TypesInv
  <1>6. CASE JoinAndStart
    <2>1. client' \in Clients /\ client'.pc # "push"
      BY <1>6, ClientFields, Fields DEF Clients
    <2>2. worker' = [pc |-> "fetch", cmd |-> worker.cmd]
      BY <1>6, Records DEF JoinAndStart
    <2>3. worker' \in Workers
      BY <2>2, Fields DEF Workers
    <2> QED BY <1>6, <1>a, <2>1, <2>2, <2>3 DEF JoinAndStart, TypesInv
  <1>7. CASE WorkerFetches
    <2>1. worker' = [pc |-> IF getStatsService = Nothing THEN "drop" ELSE "next",
                     cmd |-> worker.cmd]
      BY <1>7, Records DEF WorkerFetches
    <2>2. worker' \in Workers /\ worker'.pc # "call"
      BY <2>1, Fields DEF Workers
    <2> QED BY <1>7, <1>a, <2>2, FetchFields DEF WorkerFetches, TypesInv
  <1>8. CASE WorkerDropsAll
    <2>1. client' \in Clients /\ client'.pc = client.pc /\ client'.cmd = client.cmd
      <3>1. client' = [pullers |-> client.pullers, pc |-> client.pc, cmd |-> client.cmd,
                       mCmdQueue |-> << >>, mThreadAlive |-> FALSE,
                       calls |-> client.calls, overlapped |-> client.overlapped]
        BY <1>8, ClientFields, Zenon
      <3>2. << >> \in Seq(Commands)
        OBVIOUS
      <3> QED BY <3>1, <3>2, Fields DEF Clients
    <2>2. worker' = [pc |-> "none", cmd |-> worker.cmd]
      BY <1>8, Records DEF WorkerDropsAll
    <2>3. worker' \in Workers
      BY <2>2, Fields DEF Workers
    <2> QED BY <1>8, <1>a, <2>1, <2>2, <2>3 DEF WorkerDropsAll, TypesInv
  <1>9. CASE WorkerNext
    <2>1. CASE client.mCmdQueue = << >>
      <3>1. client' \in Clients /\ client'.pc = client.pc /\ client'.cmd = client.cmd
        <4>1. client' = [pullers |-> client.pullers, pc |-> client.pc, cmd |-> client.cmd,
                         mCmdQueue |-> client.mCmdQueue, mThreadAlive |-> FALSE,
                         calls |-> client.calls, overlapped |-> client.overlapped]
          BY <1>9, <2>1, ClientFields, Zenon
        <4> QED BY <4>1, Fields DEF Clients
      <3>2. worker' = [pc |-> "none", cmd |-> NoCmd]
        BY <1>9, <2>1 DEF WorkerNext
      <3>3. worker' \in Workers
        BY <3>2 DEF Workers
      <3> QED BY <1>9, <1>a, <3>1, <3>2, <3>3 DEF WorkerNext, TypesInv
    <2>2. CASE client.mCmdQueue # << >>
      <3>1. Tail(client.mCmdQueue) \in Seq(Commands) /\ Head(client.mCmdQueue) \in Commands
        BY <2>2, TakeQueue, Fields
      <3>2. client' \in Clients /\ client'.pc = client.pc /\ client'.cmd = client.cmd
        <4>1. client' = [pullers |-> client.pullers, pc |-> client.pc, cmd |-> client.cmd,
                         mCmdQueue |-> Tail(client.mCmdQueue), mThreadAlive |-> client.mThreadAlive,
                         calls |-> client.calls, overlapped |-> client.overlapped]
          BY <1>9, <2>2, ClientFields, Zenon
        <4> QED BY <3>1, <4>1, Fields DEF Clients
      <3>3. worker' = [pc |-> "call", cmd |-> Head(client.mCmdQueue)]
        BY <1>9, <2>2 DEF WorkerNext
      <3>4. worker' \in Workers /\ worker'.cmd \in Commands
        BY <3>1, <3>3 DEF Workers
      <3> QED BY <1>9, <1>a, <3>2, <3>4 DEF WorkerNext, TypesInv
    <2> QED BY <2>1, <2>2
  <1>10. CASE WorkerCalls
    <2>1. service' \in Services
      <3>1. worker.cmd.tag \in ClientTags /\ worker.cmd.callback \in Nat
        BY <1>10, <1>a DEF WorkerCalls, Commands
      <3> QED BY <1>10, <3>1, CalledFields DEF WorkerCalls
    <2>2. worker' \in Workers /\ worker'.pc = "next"
      BY <1>10 DEF WorkerCalls, Workers
    <2> QED BY <1>10, <1>a, <2>1, <2>2, FetchFields DEF WorkerCalls, TypesInv
  <1>11. ASSUME NEW g \in Generations, binderDied(g) PROVE TypesInv'
    <2>1. restarts' \in [Generations -> Threads]
      <3>1. [pc |-> "fetch", to |-> restarts[g].to, copy |-> restarts[g].copy] \in Threads
        BY ThreadFields DEF Threads
      <3>2. restarts' = [restarts EXCEPT ![g] =
              [pc |-> "fetch", to |-> restarts[g].to, copy |-> restarts[g].copy]]
        BY <1>11, ThreadFields, Zenon
      <3> QED BY <3>1, <3>2, ThreadsKept
    <2>2. provider' = [mStatsd |-> Nothing, linked |-> provider.linked]
      BY <1>11, Records DEF binderDied, resetStatsService
    <2>3. provider' \in Providers
      BY <2>2, Fields DEF Providers
    <2> QED BY <1>11, <1>a, <2>1, <2>3 DEF binderDied, TypesInv
  <1>12. ASSUME NEW g \in Generations, RestartFetches(g) PROVE TypesInv'
    <2>1. restarts' \in [Generations -> Threads]
      <3>1. [pc |-> IF getStatsService = Nothing THEN "off" ELSE "copy",
             to |-> getStatsService, copy |-> restarts[g].copy] \in Threads
        BY ThreadFields, FetchFields DEF Threads
      <3>2. restarts' = [restarts EXCEPT ![g] =
              [pc |-> IF getStatsService = Nothing THEN "off" ELSE "copy",
               to |-> getStatsService, copy |-> restarts[g].copy]]
        BY <1>12, ThreadFields, Zenon
      <3> QED BY <3>1, <3>2, ThreadsKept
    <2> QED BY <1>12, <1>a, <2>1, FetchFields DEF RestartFetches, TypesInv
  <1>13. ASSUME NEW g \in Generations, CopyPullers(g) PROVE TypesInv'
    <2>1. restarts' \in [Generations -> Threads]
      <3>1. [pc |-> "send", to |-> restarts[g].to, copy |-> client.pullers] \in Threads
        BY ThreadFields, Fields DEF Threads
      <3>2. restarts' = [restarts EXCEPT ![g] =
              [pc |-> "send", to |-> restarts[g].to, copy |-> client.pullers]]
        BY <1>13, ThreadFields, Zenon
      <3> QED BY <3>1, <3>2, ThreadsKept
    <2> QED BY <1>13, <1>a, <2>1 DEF CopyPullers, TypesInv
  <1>14. ASSUME NEW g \in Generations, RegisterAnew(g) PROVE TypesInv'
    <2>1. CASE restarts[g].copy = NoPullers
      <3>1. [pc |-> "off", to |-> restarts[g].to, copy |-> restarts[g].copy] \in Threads
        BY ThreadFields DEF Threads
      <3>2. restarts' \in [Generations -> Threads]
        <4>1. restarts' = [restarts EXCEPT ![g] =
                [pc |-> "off", to |-> restarts[g].to, copy |-> restarts[g].copy]]
          BY <1>14, <2>1, ThreadFields, Zenon
        <4> QED BY <3>1, <4>1, ThreadsKept
      <3> QED BY <1>14, <1>a, <2>1, <3>2 DEF RegisterAnew, TypesInv
    <2>2. CASE restarts[g].copy # NoPullers
      <3>1. PICK tag \in ClientTags :
                /\ restarts[g].copy[tag] # Nothing
                /\ service' = Called(restarts[g].to, tag, restarts[g].copy[tag])
                /\ restarts' = [restarts EXCEPT ![g] =
                     [pc |-> restarts[g].pc, to |-> restarts[g].to,
                      copy |-> [restarts[g].copy EXCEPT ![tag] = Nothing]]]
        BY <1>14, <2>2, ThreadFields
      <3>2. restarts[g].copy[tag] \in Nat
            /\ [restarts[g].copy EXCEPT ![tag] = Nothing] \in Callbacks
        BY ThreadFields DEF Callbacks, Nothing
      <3>3. service' \in Services
        BY <3>1, <3>2, CalledFields
      <3>4. [pc |-> restarts[g].pc, to |-> restarts[g].to,
             copy |-> [restarts[g].copy EXCEPT ![tag] = Nothing]] \in Threads
        BY <3>2, ThreadFields DEF Threads
      <3>5. restarts' \in [Generations -> Threads]
        BY <3>1, <3>4, ThreadsKept
      <3> QED BY <1>14, <1>a, <3>3, <3>5 DEF RegisterAnew, TypesInv
    <2> QED BY <2>1, <2>2
  <1>15. CASE UNCHANGED clientVars
    BY <1>15, <1>a DEF clientVars, TypesInv
  <1> QED
    BY <1>1, <1>2, <1>3, <1>4, <1>5, <1>6, <1>7, <1>8, <1>9, <1>10, <1>11, <1>12, <1>13,
       <1>14, <1>15, Zenon DEF ClientNext, WorkerRuns, CallerRuns, RestartStep

-----------------------------------------------------------------------------
(* What each step changes, of what the invariants speak of. *)

CallEffect(type, tag) ==
  /\ \E callback \in Nat :
       /\ client'.pullers = [client.pullers EXCEPT ![tag] = callback]
       /\ client'.cmd = [type |-> type, tag |-> tag, callback |-> callback]
  /\ client.pc = "idle" /\ client'.pc = "push" /\ client'.mCmdQueue = client.mCmdQueue
  /\ client'.mThreadAlive = client.mThreadAlive
  /\ client'.overlapped = (client.overlapped \/ Copied # {})
  /\ UNCHANGED <<worker, provider, restarts, service>>

\* A call sets the puller and hands the command to the calling thread.
LEMMA CallChanges ==
  ASSUME TypesInv, NEW type \in {"register", "unregister"}, NEW tag \in ClientTags,
         SetOrClearPullAtomCallback(type, tag)
  PROVE  CallEffect(type, tag)
  <1>1. PICK callback \in Nat :
         client' = [pullers |-> [client.pullers EXCEPT ![tag] = callback], pc |-> "push",
                    cmd |-> [type |-> type, tag |-> tag, callback |-> callback],
                    mCmdQueue |-> client.mCmdQueue, mThreadAlive |-> client.mThreadAlive,
                    calls |-> client.calls + 1,
                    overlapped |-> (client.overlapped \/ Copied # {})]
    BY CallFields
  <1>2. /\ client'.pullers = [client.pullers EXCEPT ![tag] = callback]
        /\ client'.cmd = [type |-> type, tag |-> tag, callback |-> callback]
        /\ client'.pc = "push" /\ client'.mCmdQueue = client.mCmdQueue
        /\ client'.mThreadAlive = client.mThreadAlive
        /\ client'.overlapped = (client.overlapped \/ Copied # {})
    BY <1>1
  <1>3. client.pc = "idle" /\ UNCHANGED <<worker, provider, restarts, service>>
    BY DEF SetOrClearPullAtomCallback
  <1> QED BY <1>2, <1>3 DEF CallEffect

\* A step of the calling thread or the worker on client: pc, queue and mThreadAlive.
ClientEffect(pc, queue, alive) ==
  /\ client'.pullers = client.pullers /\ client'.overlapped = client.overlapped
  /\ client'.pc = pc /\ client'.mCmdQueue = queue /\ client'.mThreadAlive = alive
  /\ client'.cmd \in {client.cmd, NoCmd} /\ (pc = client.pc => client'.cmd = client.cmd)

\* The other steps on the record of the client.
LEMMA ClientChanges ==
  ASSUME TypesInv
  PROVE  /\ pushToQueue =>
              ClientEffect("start", Append(client.mCmdQueue, client.cmd), client.mThreadAlive)
         /\ startWorkerThread /\ client.mThreadAlive =>
              ClientEffect("idle", client.mCmdQueue, client.mThreadAlive)
         /\ startWorkerThread /\ ~client.mThreadAlive =>
              ClientEffect("join", client.mCmdQueue, TRUE)
         /\ JoinAndStart => ClientEffect("idle", client.mCmdQueue, client.mThreadAlive)
         /\ WorkerDropsAll => ClientEffect(client.pc, << >>, FALSE)
         /\ WorkerNext /\ client.mCmdQueue = << >> =>
              ClientEffect(client.pc, client.mCmdQueue, FALSE)
         /\ WorkerNext /\ client.mCmdQueue # << >> =>
              ClientEffect(client.pc, Tail(client.mCmdQueue), client.mThreadAlive)
  <1>1. ASSUME pushToQueue
        PROVE  ClientEffect("start", Append(client.mCmdQueue, client.cmd), client.mThreadAlive)
    <2>1. client' = [pullers |-> client.pullers, pc |-> "start", cmd |-> client.cmd,
                     mCmdQueue |-> Append(client.mCmdQueue, client.cmd), mThreadAlive |-> client.mThreadAlive,
                     calls |-> client.calls, overlapped |-> client.overlapped]
      BY <1>1, ClientFields, Zenon
    <2>2. client.pc = "push"
      BY <1>1 DEF pushToQueue
    <2> QED BY <2>1, <2>2 DEF ClientEffect
  <1>2. ASSUME startWorkerThread, client.mThreadAlive
        PROVE  ClientEffect("idle", client.mCmdQueue, client.mThreadAlive)
    <2>1. client' = [pullers |-> client.pullers, pc |-> "idle", cmd |-> NoCmd,
                     mCmdQueue |-> client.mCmdQueue, mThreadAlive |-> client.mThreadAlive,
                     calls |-> client.calls, overlapped |-> client.overlapped]
      BY <1>2, ClientFields, Zenon
    <2>2. client.pc = "start"
      BY <1>2 DEF startWorkerThread
    <2> QED BY <2>1, <2>2 DEF ClientEffect
  <1>3. ASSUME startWorkerThread, ~client.mThreadAlive
        PROVE  ClientEffect("join", client.mCmdQueue, TRUE)
    <2>1. client' = [pullers |-> client.pullers, pc |-> "join", cmd |-> client.cmd,
                     mCmdQueue |-> client.mCmdQueue, mThreadAlive |-> TRUE,
                     calls |-> client.calls, overlapped |-> client.overlapped]
      BY <1>3, ClientFields, Zenon
    <2>2. client.pc = "start"
      BY <1>3 DEF startWorkerThread
    <2> QED BY <2>1, <2>2 DEF ClientEffect
  <1>4. ASSUME JoinAndStart
        PROVE  ClientEffect("idle", client.mCmdQueue, client.mThreadAlive)
    <2>1. client' = [pullers |-> client.pullers, pc |-> "idle", cmd |-> NoCmd,
                     mCmdQueue |-> client.mCmdQueue, mThreadAlive |-> client.mThreadAlive,
                     calls |-> client.calls, overlapped |-> client.overlapped]
      BY <1>4, ClientFields, Zenon
    <2>2. client.pc = "join"
      BY <1>4 DEF JoinAndStart
    <2> QED BY <2>1, <2>2 DEF ClientEffect
  <1>5. ASSUME WorkerDropsAll
        PROVE  ClientEffect(client.pc, << >>, FALSE)
    <2>1. client' = [pullers |-> client.pullers, pc |-> client.pc, cmd |-> client.cmd,
                     mCmdQueue |-> << >>, mThreadAlive |-> FALSE,
                     calls |-> client.calls, overlapped |-> client.overlapped]
      BY <1>5, ClientFields, Zenon
    <2> QED BY <2>1 DEF ClientEffect
  <1>6. ASSUME WorkerNext, client.mCmdQueue = << >>
        PROVE  ClientEffect(client.pc, client.mCmdQueue, FALSE)
    <2>1. client' = [pullers |-> client.pullers, pc |-> client.pc, cmd |-> client.cmd,
                     mCmdQueue |-> client.mCmdQueue, mThreadAlive |-> FALSE,
                     calls |-> client.calls, overlapped |-> client.overlapped]
      BY <1>6, ClientFields, Zenon
    <2> QED BY <2>1 DEF ClientEffect
  <1>7. ASSUME WorkerNext, client.mCmdQueue # << >>
        PROVE  ClientEffect(client.pc, Tail(client.mCmdQueue), client.mThreadAlive)
    <2>1. client' = [pullers |-> client.pullers, pc |-> client.pc, cmd |-> client.cmd,
                     mCmdQueue |-> Tail(client.mCmdQueue), mThreadAlive |-> client.mThreadAlive,
                     calls |-> client.calls, overlapped |-> client.overlapped]
      BY <1>7, ClientFields, Zenon
    <2> QED BY <2>1 DEF ClientEffect
  <1> QED BY <1>1, <1>2, <1>3, <1>4, <1>5, <1>6, <1>7, Zenon

\* A step of the binder thread of generation g.
ThreadEffect(g, pc, to, copy) ==
  /\ restarts'[g].pc = pc /\ restarts'[g].to = to /\ restarts'[g].copy = copy
  /\ \A h \in Generations \ {g} : restarts'[h] = restarts[h]

\* A thread that is set to a record has its fields.
LEMMA ThreadSet ==
  ASSUME TypesInv, NEW g \in Generations, NEW pc, NEW to, NEW copy,
         restarts' = [restarts EXCEPT ![g] = [pc |-> pc, to |-> to, copy |-> copy]]
  PROVE  ThreadEffect(g, pc, to, copy)
  BY DEF TypesInv, ThreadEffect

\* The steps of a binder thread.
LEMMA ThreadChanges ==
  ASSUME TypesInv, NEW g \in Generations
  PROVE  /\ binderDied(g) => ThreadEffect(g, "fetch", restarts[g].to, restarts[g].copy)
         /\ RestartFetches(g) =>
              ThreadEffect(g, IF getStatsService = Nothing THEN "off" ELSE "copy",
                           getStatsService, restarts[g].copy)
         /\ CopyPullers(g) => ThreadEffect(g, "send", restarts[g].to, client.pullers)
         /\ RegisterAnew(g) /\ restarts[g].copy = NoPullers =>
              ThreadEffect(g, "off", restarts[g].to, restarts[g].copy)
         /\ RegisterAnew(g) /\ restarts[g].copy # NoPullers =>
              \E tag \in ClientTags :
                /\ restarts[g].copy[tag] # Nothing
                /\ service' = Called(restarts[g].to, tag, restarts[g].copy[tag])
                /\ ThreadEffect(g, restarts[g].pc, restarts[g].to,
                                [restarts[g].copy EXCEPT ![tag] = Nothing])
  <1>1. ASSUME binderDied(g)
        PROVE  ThreadEffect(g, "fetch", restarts[g].to, restarts[g].copy)
    BY <1>1, ThreadFields, ThreadSet, Zenon
  <1>2. ASSUME RestartFetches(g)
        PROVE  ThreadEffect(g, IF getStatsService = Nothing THEN "off" ELSE "copy",
                           getStatsService, restarts[g].copy)
    BY <1>2, ThreadFields, ThreadSet, Zenon
  <1>3. ASSUME CopyPullers(g)
        PROVE  ThreadEffect(g, "send", restarts[g].to, client.pullers)
    BY <1>3, ThreadFields, ThreadSet, Zenon
  <1>4. ASSUME RegisterAnew(g), restarts[g].copy = NoPullers
        PROVE  ThreadEffect(g, "off", restarts[g].to, restarts[g].copy)
    BY <1>4, ThreadFields, ThreadSet, Zenon
  <1>5. ASSUME RegisterAnew(g), restarts[g].copy # NoPullers
        PROVE  \E tag \in ClientTags :
                /\ restarts[g].copy[tag] # Nothing
                /\ service' = Called(restarts[g].to, tag, restarts[g].copy[tag])
                /\ ThreadEffect(g, restarts[g].pc, restarts[g].to,
                                [restarts[g].copy EXCEPT ![tag] = Nothing])
    <2>1. PICK tag \in ClientTags :
                /\ restarts[g].copy[tag] # Nothing
                /\ service' = Called(restarts[g].to, tag, restarts[g].copy[tag])
                /\ restarts' = [restarts EXCEPT ![g] =
                     [pc |-> restarts[g].pc, to |-> restarts[g].to,
                      copy |-> [restarts[g].copy EXCEPT ![tag] = Nothing]]]
      BY <1>5, ThreadFields
    <2>2. ThreadEffect(g, restarts[g].pc, restarts[g].to,
                       [restarts[g].copy EXCEPT ![tag] = Nothing])
      BY <2>1, ThreadSet, Zenon
    <2> QED BY <2>1, <2>2
  <1> QED BY <1>1, <1>2, <1>3, <1>4, <1>5, Zenon

\* A call at statsd, by the worker or a binder thread.
CallsStatsd(to, tag, callback) ==
  /\ service'.up = service.up /\ service'.generation = service.generation
  /\ service'.waits = service.waits
  /\ Alive(to) => service'.registered = [service.registered EXCEPT ![tag] = callback]
  /\ ~Alive(to) => service'.registered = service.registered

\* A call changes at most the puller of its tag.
LEMMA CallsChange ==
  ASSUME TypesInv, NEW to, NEW tag \in ClientTags, NEW callback \in Nat,
         service' = Called(to, tag, callback)
  PROVE  CallsStatsd(to, tag, callback)
  <1>. DEFINE registered == IF Alive(to) THEN [service.registered EXCEPT ![tag] = callback]
                            ELSE service.registered
  <1>1. service' = [up |-> service.up, generation |-> service.generation,
                    registered |-> registered, waits |-> service.waits]
    BY CalledFields, Zenon
  <1>2. /\ Alive(to) => registered = [service.registered EXCEPT ![tag] = callback]
        /\ ~Alive(to) => registered = service.registered
    BY Zenon
  <1>. HIDE DEF registered
  <1>3. /\ service'.up = service.up /\ service'.generation = service.generation
        /\ service'.waits = service.waits /\ service'.registered = registered
    BY <1>1
  <1>. QED
    BY <1>2, <1>3, Zenon DEF CallsStatsd

\* The death of statsd, and its return.
LEMMA ServiceChanges ==
  ASSUME TypesInv
  PROVE  /\ ServiceDies =>
              /\ ~service'.up /\ service'.generation = service.generation
              /\ service'.registered = NoPullers /\ service'.waits = service.waits
              /\ service.generation \notin provider.linked => restarts' = restarts
              /\ service.generation \in provider.linked =>
                   ThreadEffect(service.generation, "died", restarts[service.generation].to,
                                restarts[service.generation].copy)
         /\ ServiceComesBack =>
              /\ ~service.up /\ service'.up /\ service'.generation = service.generation + 1
              /\ service'.registered = service.registered /\ service'.waits = service.waits
  <1>1. ASSUME ServiceDies
        PROVE /\ ~service'.up /\ service'.generation = service.generation
              /\ service'.registered = NoPullers /\ service'.waits = service.waits
              /\ service.generation \notin provider.linked => restarts' = restarts
              /\ service.generation \in provider.linked =>
                   ThreadEffect(service.generation, "died", restarts[service.generation].to,
                                restarts[service.generation].copy)
    <2>1. service' = [up |-> FALSE, generation |-> service.generation,
                        registered |-> NoPullers, waits |-> service.waits]
      BY <1>1, DeathFields
    <2>2. service.generation \notin provider.linked => restarts' = restarts
      BY <1>1, DeathFields
    <2>3. ASSUME service.generation \in provider.linked
          PROVE  ThreadEffect(service.generation, "died", restarts[service.generation].to,
                                restarts[service.generation].copy)
      BY <1>1, <2>3, DeathFields, ThreadSet, Fields, Zenon
    <2> QED BY <2>1, <2>2, <2>3
  <1>2. ASSUME ServiceComesBack
        PROVE /\ ~service.up /\ service'.up /\ service'.generation = service.generation + 1
              /\ service'.registered = service.registered /\ service'.waits = service.waits
    <2>1. service' = [up |-> TRUE, generation |-> service.generation + 1,
                        registered |-> service.registered, waits |-> service.waits]
      BY <1>2, BackFields
    <2> QED BY <1>2, <2>1, BackFields
  <1> QED BY <1>1, <1>2, Zenon

-----------------------------------------------------------------------------
(* The worker thread. *)

\* At the start no thread is announced.
LEMMA WorkerInit == ClientInit => WorkerInv
  BY DEF ClientInit, WorkerInv, CommandsHaveWorker

\* A thread that ends leaves no command behind.
LEMMA WorkerStep == TypesInv /\ WorkerInv /\ [ClientNext]_clientVars => WorkerInv'
  <1> SUFFICES ASSUME TypesInv, WorkerInv, [ClientNext]_clientVars PROVE WorkerInv'
    OBVIOUS
  <1> USE DEF WorkerInv, CommandsHaveWorker
  <1>1. ASSUME UNCHANGED <<client, worker>> PROVE WorkerInv'
    BY <1>1
  <1>2. CASE ServiceDies \/ ServiceComesBack
    BY <1>1, <1>2, Zenon DEF ServiceDies, ServiceComesBack
  <1>3. ASSUME NEW type \in {"register", "unregister"}, NEW tag \in ClientTags,
               SetOrClearPullAtomCallback(type, tag)
        PROVE  WorkerInv'
    BY <1>3, CallChanges DEF CallEffect
  <1>4. CASE pushToQueue
    <2>1. ClientEffect("start", Append(client.mCmdQueue, client.cmd), client.mThreadAlive)
      BY <1>4, ClientChanges, Zenon
    <2>2. client.pc = "push" /\ worker' = worker
      BY <1>4 DEF pushToQueue
    <2> QED BY <2>1, <2>2 DEF ClientEffect
  <1>5. CASE startWorkerThread
    <2>1. client.pc = "start" /\ worker' = worker
      BY <1>5 DEF startWorkerThread
    <2>2. CASE client.mThreadAlive
      <3>1. ClientEffect("idle", client.mCmdQueue, client.mThreadAlive)
        BY <1>5, <2>2, ClientChanges, Zenon
      <3> QED BY <2>1, <2>2, <3>1 DEF ClientEffect
    <2>3. CASE ~client.mThreadAlive
      <3>1. ClientEffect("join", client.mCmdQueue, TRUE)
        BY <1>5, <2>3, ClientChanges, Zenon
      <3> QED BY <2>1, <3>1 DEF ClientEffect
    <2> QED BY <2>2, <2>3
  <1>6. CASE JoinAndStart
    <2>1. worker'.pc = "fetch"
      BY <1>6, Records DEF JoinAndStart
    <2> QED BY <2>1
  <1>7. CASE WorkerFetches
    <2>1. worker'.pc # "none"
      BY <1>7, Records DEF WorkerFetches
    <2> QED BY <2>1
  <1>8. CASE WorkerDropsAll
    <2>1. ClientEffect(client.pc, << >>, FALSE)
      BY <1>8, ClientChanges, Zenon
    <2> QED BY <2>1 DEF ClientEffect
  <1>9. CASE WorkerNext
    <2>1. CASE client.mCmdQueue = << >>
      <3>1. ClientEffect(client.pc, client.mCmdQueue, FALSE)
        BY <1>9, <2>1, ClientChanges, Zenon
      <3> QED BY <2>1, <3>1 DEF ClientEffect
    <2>2. CASE client.mCmdQueue # << >>
      <3>1. worker'.pc = "call"
        BY <1>9, <2>2 DEF WorkerNext
      <3> QED BY <3>1
    <2> QED BY <2>1, <2>2
  <1>10. CASE WorkerCalls
    <2>1. worker'.pc = "next"
      BY <1>10 DEF WorkerCalls
    <2> QED BY <2>1
  <1>11. ASSUME NEW g \in Generations, RestartStep(g) PROVE WorkerInv'
    BY <1>1, <1>11, Zenon DEF RestartStep, binderDied, RestartFetches, CopyPullers, RegisterAnew
  <1>12. CASE UNCHANGED clientVars
    BY <1>1, <1>12, Zenon DEF clientVars
  <1> QED
    BY <1>2, <1>3, <1>4, <1>5, <1>6, <1>7, <1>8, <1>9, <1>10, <1>11, <1>12, Zenon
    DEF ClientNext, WorkerRuns, CallerRuns

-----------------------------------------------------------------------------
(* Commands on their way. *)

\* At the start no command is on its way.
LEMMA CommandsInit == ClientInit => CommandsInv
  BY DEF ClientInit, CommandsInv

\* A step that leaves the map, the commands and the places they are in alone.
LEMMA CommandsSame ==
  ASSUME TypesInv, CommandsInv, client'.pullers = client.pullers,
         client'.mCmdQueue = client.mCmdQueue, client.pc # "push", client'.pc # "push",
         worker'.pc = "call" => worker.pc = "call" /\ worker'.cmd = worker.cmd
  PROVE  CommandsInv'
  BY DEF CommandsInv, LastOfQueue, BeingPushed, InQueue

\* The last command on its way stays the one of the map.
LEMMA CommandsStep == TypesInv /\ CommandsInv /\ [ClientNext]_clientVars => CommandsInv'
  <1> SUFFICES ASSUME TypesInv, CommandsInv, [ClientNext]_clientVars PROVE CommandsInv'
    OBVIOUS
  <1> DEFINE q == client.mCmdQueue
  <1>a. q \in Seq(Commands) /\ client.pullers \in [ClientTags -> Nat]
    BY Fields DEF Callbacks
  <1>b. \A i \in 1..Len(q) : q[i] \in Commands /\ q[i].tag \in ClientTags
    <2>1. \A i \in 1..Len(q) : q[i] \in Commands
      BY <1>a
    <2>2. \A c \in Commands : c.tag \in ClientTags
      BY DEF Commands
    <2> QED BY <2>1, <2>2
  <1>1. ASSUME UNCHANGED client,
               worker'.pc = "call" => worker.pc = "call" /\ worker'.cmd = worker.cmd
        PROVE  CommandsInv'
    BY <1>1 DEF CommandsInv, LastOfQueue, BeingPushed, InQueue
  <1>2. CASE ServiceDies \/ ServiceComesBack
    BY <1>1, <1>2 DEF ServiceDies, ServiceComesBack
  <1>3. ASSUME NEW type \in {"register", "unregister"}, NEW tag \in ClientTags,
               SetOrClearPullAtomCallback(type, tag)
        PROVE  CommandsInv'
    <2>1. CallEffect(type, tag)
      BY <1>3, CallChanges
    <2>2. PICK callback \in Nat :
            /\ client'.pullers = [client.pullers EXCEPT ![tag] = callback]
            /\ client'.cmd = [type |-> type, tag |-> tag, callback |-> callback]
      BY <2>1 DEF CallEffect
    <2>3. /\ client'.cmd.tag = tag /\ client'.cmd.callback = callback
          /\ client'.pullers[tag] = callback
          /\ \A t \in ClientTags \ {tag} : client'.pullers[t] = client.pullers[t]
      BY <1>a, <2>2
    <2>4. client.pc = "idle" /\ client'.pc = "push" /\ client'.mCmdQueue = q /\ worker' = worker
      BY <2>1 DEF CallEffect
    <2>5. worker.pc = "call" => worker.cmd.tag \in ClientTags
      BY DEF TypesInv, Commands
    <2> QED BY <1>b, <2>3, <2>4, <2>5 DEF CommandsInv, LastOfQueue, BeingPushed, InQueue
  <1>4. CASE pushToQueue
    <2> DEFINE c == client.cmd
               p == Append(q, c)
    <2>1. ClientEffect("start", p, client.mThreadAlive)
      BY <1>4, ClientChanges, Zenon
    <2>2. client.pc = "push" /\ worker' = worker /\ c \in Commands
      BY <1>4 DEF pushToQueue, TypesInv
    <2>3. /\ client'.pc = "start" /\ client'.mCmdQueue = p
          /\ client'.pullers = client.pullers
      BY <2>1 DEF ClientEffect
    <2>4. /\ Len(q) \in Nat /\ Len(p) = Len(q) + 1 /\ p[Len(q) + 1] = c
          /\ \A i \in 1..Len(q) : p[i] = q[i]
      BY <1>a, <2>2, PushQueue
    <2>5. c.callback = client.pullers[c.tag]
      BY <2>2 DEF CommandsInv
    <2> HIDE DEF p, c, q
    <2>6. ASSUME NEW i \in 1..Len(p), LastOfQueue(i)'
          PROVE  p[i].callback = client.pullers[p[i].tag]
      <3>1. CASE i = Len(q) + 1
        BY <2>4, <2>5, <3>1
      <3>2. CASE i \in 1..Len(q)
        <4>1. q[i].tag # c.tag
          BY <2>3, <2>4, <2>6, <3>2 DEF LastOfQueue
        <4>2. \A j \in 1..Len(q) : j > i => q[j].tag # q[i].tag
          BY <2>3, <2>4, <2>6, <3>2 DEF LastOfQueue
        <4>3. LastOfQueue(i)
          BY <4>1, <4>2 DEF LastOfQueue, BeingPushed, c, q
        <4> QED BY <2>4, <3>2, <4>3 DEF CommandsInv, q
      <3> QED BY <2>4, <3>1, <3>2
    <2>7. ASSUME worker.pc = "call", ~InQueue(worker.cmd.tag)'
          PROVE  worker.cmd.callback = client.pullers[worker.cmd.tag]
      <3>1. \A i \in 1..Len(p) : p[i].tag # worker.cmd.tag
        BY <2>2, <2>3, <2>7 DEF InQueue
      <3>2. c.tag # worker.cmd.tag /\ \A i \in 1..Len(q) : q[i].tag # worker.cmd.tag
        BY <2>4, <3>1
      <3> QED BY <2>7, <3>2 DEF CommandsInv, BeingPushed, InQueue, c, q
    <2> QED BY <2>2, <2>3, <2>6, <2>7 DEF CommandsInv
  <1>5. CASE startWorkerThread
    <2>1. client.pc = "start" /\ worker' = worker
      BY <1>5 DEF startWorkerThread
    <2>2. \/ ClientEffect("idle", client.mCmdQueue, client.mThreadAlive)
          \/ ClientEffect("join", client.mCmdQueue, TRUE)
      BY <1>5, ClientChanges, Zenon
    <2> QED BY <2>1, <2>2, CommandsSame DEF ClientEffect
  <1>6. CASE JoinAndStart
    <2>1. client.pc = "join" /\ worker'.pc = "fetch"
      BY <1>6, Records DEF JoinAndStart
    <2>2. ClientEffect("idle", client.mCmdQueue, client.mThreadAlive)
      BY <1>6, ClientChanges, Zenon
    <2> QED BY <2>1, <2>2, CommandsSame DEF ClientEffect
  <1>7. CASE WorkerFetches
    <2>1. worker'.pc # "call"
      BY <1>7, Records DEF WorkerFetches
    <2> QED BY <1>1, <1>7, <2>1 DEF WorkerFetches
  <1>8. CASE WorkerDropsAll
    <2>1. worker'.pc = "none"
      BY <1>8, Records DEF WorkerDropsAll
    <2>2. ClientEffect(client.pc, << >>, FALSE)
      BY <1>8, ClientChanges, Zenon
    <2>3. /\ client'.pc = client.pc /\ client'.cmd = client.cmd
          /\ client'.mCmdQueue = << >> /\ client'.pullers = client.pullers
      BY <2>2 DEF ClientEffect
    <2> QED BY <2>1, <2>3 DEF CommandsInv
  <1>9. CASE WorkerNext
    <2>1. CASE q = << >>
      <3>1. ClientEffect(client.pc, q, FALSE)
        BY <1>9, <2>1, ClientChanges, Zenon
      <3>2. worker'.pc = "none"
        BY <1>9, <2>1 DEF WorkerNext
      <3> QED BY <3>1, <3>2 DEF ClientEffect, CommandsInv, LastOfQueue, BeingPushed
    <2>2. CASE q # << >>
      <3> DEFINE p == Tail(q)
      <3>1. ClientEffect(client.pc, p, client.mThreadAlive)
        BY <1>9, <2>2, ClientChanges, Zenon
      <3>2. worker' = [pc |-> "call", cmd |-> Head(q)]
        BY <1>9, <2>2 DEF WorkerNext
      <3>3. /\ Len(q) \in Nat \ {0} /\ Len(p) = Len(q) - 1 /\ Head(q) = q[1]
            /\ \A i \in 1..Len(p) : p[i] = q[i + 1]
        BY <1>a, <2>2, TakeQueue
      <3>4. /\ client'.pc = client.pc /\ client'.cmd = client.cmd
            /\ client'.mCmdQueue = p /\ client'.pullers = client.pullers
        BY <3>1 DEF ClientEffect
      <3>5. worker'.pc = "call" /\ worker'.cmd = q[1]
        BY <3>2, <3>3
      <3> HIDE DEF p, q
      <3>6. \A i \in 1..Len(q) : i > 1 => i - 1 \in 1..Len(p) /\ p[i - 1] = q[i]
        BY <3>3
      <3>7. ASSUME NEW i \in 1..Len(p), LastOfQueue(i)'
            PROVE  p[i].callback = client.pullers[p[i].tag]
        <4>1. i + 1 \in 1..Len(q) /\ p[i] = q[i + 1]
          BY <3>3
        <4>2. /\ ~(client.pc = "push" /\ client.cmd.tag = p[i].tag)
              /\ \A j \in 1..Len(p) : j > i => p[j].tag # p[i].tag
          BY <3>4, <3>7 DEF LastOfQueue, BeingPushed
        <4>3. \A j \in 1..Len(q) : j > i + 1 => q[j].tag # q[i + 1].tag
          <5> SUFFICES ASSUME NEW j \in 1..Len(q), j > i + 1 PROVE q[j].tag # q[i + 1].tag
            OBVIOUS
          <5>1. j > 1 /\ j - 1 > i
            BY <3>3
          <5>2. j - 1 \in 1..Len(p) /\ p[j - 1] = q[j]
            BY <3>6, <5>1
          <5> QED BY <4>1, <4>2, <5>1, <5>2
        <4>4. LastOfQueue(i + 1)
          BY <4>1, <4>2, <4>3 DEF LastOfQueue, BeingPushed, q
        <4> QED BY <4>1, <4>4 DEF CommandsInv, q
      <3>8. ASSUME ~(client.pc = "push" /\ client.cmd.tag = q[1].tag), ~InQueue(worker.cmd.tag)'
            PROVE  q[1].callback = client.pullers[q[1].tag]
        <4>1. \A i \in 1..Len(p) : p[i].tag # q[1].tag
          BY <3>4, <3>5, <3>8 DEF InQueue
        <4>2. \A j \in 1..Len(q) : j > 1 => q[j].tag # q[1].tag
          BY <3>6, <4>1
        <4>3. LastOfQueue(1)
          BY <3>8, <4>2 DEF LastOfQueue, BeingPushed, q
        <4>4. 1 \in 1..Len(q)
          BY <3>3
        <4> QED BY <4>3, <4>4 DEF CommandsInv, q
      <3> QED BY <3>4, <3>5, <3>7, <3>8 DEF CommandsInv, BeingPushed
    <2> QED BY <2>1, <2>2
  <1>10. CASE WorkerCalls
    <2>1. worker'.pc = "next"
      BY <1>10 DEF WorkerCalls
    <2> QED BY <1>1, <1>10, <2>1 DEF WorkerCalls
  <1>11. ASSUME NEW g \in Generations, RestartStep(g) PROVE CommandsInv'
    BY <1>1, <1>11 DEF RestartStep, binderDied, RestartFetches, CopyPullers, RegisterAnew
  <1>12. CASE UNCHANGED clientVars
    BY <1>1, <1>12 DEF clientVars
  <1> QED
    BY <1>2, <1>3, <1>4, <1>5, <1>6, <1>7, <1>8, <1>9, <1>10, <1>11, <1>12, Zenon
    DEF ClientNext, WorkerRuns, CallerRuns

-----------------------------------------------------------------------------
(* The connection. *)

\* At the start nothing is linked or registered.
LEMMA LinksInit == ClientInit => LinksInv
  BY ClientAssumption DEF ClientInit, LinksInv, Generations, Nothing, Alive

\* The parts of LinksInv.
LinkedInv == \A g \in provider.linked : g <= service.generation
KnownInv ==
  provider.mStatsd # Nothing =>
       /\ provider.mStatsd \in provider.linked
       /\ \A g \in provider.linked : g <= provider.mStatsd
       /\ Alive(provider.mStatsd) \/ restarts[provider.mStatsd].pc = "died"
HeardInv ==
  \A g \in Generations :
       /\ restarts[g].pc \in {"copy", "send"} => restarts[g].to \in provider.linked
       /\ g >= service.generation /\ service.up => restarts[g].pc = "off"
       /\ g > service.generation => restarts[g].pc = "off"
RegisteredInv ==
  /\ ~service.up => service.registered = NoPullers
  /\ service.generation \notin provider.linked => service.registered = NoPullers

\* LinksInv is the conjunction of its parts.
LEMMA LinksParts == LinksInv <=> LinkedInv /\ KnownInv /\ HeardInv /\ RegisteredInv
  BY DEF LinksInv, LinkedInv, KnownInv, HeardInv, RegisteredInv

\* Every step keeps the connection consistent.
LEMMA LinksStep == TypesInv /\ LinksInv /\ [ClientNext]_clientVars => LinksInv'
  <1> SUFFICES ASSUME TypesInv, LinksInv, [ClientNext]_clientVars PROVE LinksInv'
    OBVIOUS
  <1> DEFINE gen == service.generation
  <1>a. LinkedInv /\ KnownInv /\ HeardInv /\ RegisteredInv
    BY LinksParts
  <1>b. (LinkedInv /\ KnownInv /\ HeardInv /\ RegisteredInv)' => LinksInv'
    BY LinksParts, PTL
  <1>c. gen \in Generations /\ Generations \subseteq Int /\ Nothing \notin Generations
        /\ provider.linked \subseteq Generations /\ provider.mStatsd \in Generations \union {Nothing}
    BY Fields, ClientAssumption DEF Generations, Nothing
  <1>1. CASE ServiceDies
    <2>1. /\ ~service'.up /\ service'.generation = gen /\ service'.registered = NoPullers
          /\ gen \notin provider.linked => restarts' = restarts
          /\ gen \in provider.linked =>
               ThreadEffect(gen, "died", restarts[gen].to, restarts[gen].copy)
      BY <1>1, ServiceChanges, Zenon
    <2>2. provider' = provider
      BY <1>1 DEF ServiceDies
    <2>3. \A g \in Generations : g # gen => restarts'[g] = restarts[g]
      BY <2>1 DEF ThreadEffect
    <2>4. IF gen \in provider.linked THEN restarts'[gen].pc = "died"
          ELSE restarts'[gen] = restarts[gen]
      BY <2>1 DEF ThreadEffect
    <2> HIDE DEF gen
    <2>5. LinkedInv'
      BY <1>a, <2>1, <2>2 DEF LinkedInv, gen
    <2>6. KnownInv'
      <3> SUFFICES ASSUME provider.mStatsd # Nothing
                   PROVE  restarts'[provider.mStatsd].pc = "died"
        BY <1>a, <2>2 DEF KnownInv
      <3>1. CASE provider.mStatsd = gen
        BY <1>a, <2>4, <3>1 DEF KnownInv
      <3>2. CASE provider.mStatsd # gen
        BY <1>a, <1>c, <2>3, <3>2 DEF KnownInv, Alive, gen
      <3> QED BY <3>1, <3>2
    <2>7. HeardInv'
      <3> SUFFICES ASSUME NEW g \in Generations
                   PROVE  /\ restarts'[g].pc \in {"copy", "send"} => restarts'[g].to \in provider.linked
                          /\ g > gen => restarts'[g].pc = "off"
        BY <2>1, <2>2 DEF HeardInv
      <3>1. CASE g = gen
        BY <1>a, <1>c, <2>4, <3>1 DEF HeardInv, gen
      <3>2. CASE g # gen
        BY <1>a, <2>3, <3>2 DEF HeardInv, gen
      <3> QED BY <3>1, <3>2
    <2>8. RegisteredInv'
      BY <2>1 DEF RegisteredInv
    <2> QED BY <1>b, <2>5, <2>6, <2>7, <2>8
  <1>2. CASE ServiceComesBack
    <2>1. /\ ~service.up /\ service'.up /\ service'.generation = gen + 1
          /\ service'.registered = service.registered
      BY <1>2, ServiceChanges, Zenon
    <2>2. provider' = provider /\ restarts' = restarts
      BY <1>2 DEF ServiceComesBack
    <2>3. LinkedInv'
      <3> SUFFICES ASSUME NEW g \in provider.linked PROVE g <= gen + 1
        BY <2>1, <2>2 DEF LinkedInv
      <3>1. g \in Int /\ gen \in Int /\ g <= gen
        BY <1>a, <1>c DEF LinkedInv
      <3> QED BY <3>1
    <2>4. KnownInv'
      BY <1>a, <2>1, <2>2 DEF KnownInv, Alive
    <2>5. HeardInv'
      <3> SUFFICES ASSUME NEW g \in Generations
                   PROVE  /\ restarts[g].pc \in {"copy", "send"} => restarts[g].to \in provider.linked
                          /\ g >= gen + 1 => restarts[g].pc = "off"
                          /\ g > gen + 1 => restarts[g].pc = "off"
        BY <2>1, <2>2 DEF HeardInv
      <3>1. g \in Int /\ gen \in Int
        BY <1>c
      <3>2. /\ restarts[g].pc \in {"copy", "send"} => restarts[g].to \in provider.linked
            /\ g > gen => restarts[g].pc = "off"
        BY <1>a DEF HeardInv
      <3> QED BY <3>1, <3>2
    <2>6. RegisteredInv'
      BY <1>a, <2>1, <2>2 DEF RegisteredInv
    <2> QED BY <1>b, <2>3, <2>4, <2>5, <2>6
  <1>3. ASSUME UNCHANGED <<provider, restarts, service>> PROVE LinksInv'
    BY <1>3 DEF LinksInv, Alive
  <1>4. ASSUME NEW type \in {"register", "unregister"}, NEW tag \in ClientTags,
               SetOrClearPullAtomCallback(type, tag)
        PROVE  LinksInv'
    BY <1>3, <1>4, Zenon DEF SetOrClearPullAtomCallback
  <1>5. CASE CallerRuns \/ WorkerDropsAll \/ WorkerNext
    BY <1>3, <1>5, Zenon DEF CallerRuns, pushToQueue, startWorkerThread, JoinAndStart,
                             WorkerDropsAll, WorkerNext
  <1>6. ASSUME provider' = Fetched, restarts' = restarts,
               service'.generation = gen, service'.up = service.up,
               service'.registered # service.registered => Alive(getStatsService)
        PROVE  LinksInv'
    <2>0. PICK to : to = getStatsService
      OBVIOUS
    <2>1. /\ provider'.mStatsd = to /\ to \in Generations \union {Nothing}
          /\ provider.linked \subseteq provider'.linked
          /\ provider'.linked \subseteq provider.linked \union {gen}
          /\ to # Nothing =>
              /\ to \in provider'.linked
              /\ \A g \in provider'.linked : g <= to
              /\ Alive(to) \/ restarts[to].pc = "died"
      BY <1>6, <2>0, FetchFields
    <2>2. LinkedInv'
      <3> SUFFICES ASSUME NEW g \in provider'.linked PROVE g <= gen
        BY <1>6 DEF LinkedInv
      <3>1. g = gen \/ g \in provider.linked
        BY <2>1
      <3>2. gen \in Int
        BY <1>c
      <3>3. CASE g \in provider.linked
        BY <1>a, <3>3 DEF LinkedInv
      <3> QED BY <3>1, <3>2, <3>3
    <2> HIDE DEF gen
    <2>3. KnownInv'
      BY <1>6, <2>1 DEF KnownInv, Alive, gen
    <2>4. HeardInv'
      BY <1>6, <1>a, <2>1 DEF HeardInv, gen
    <2>5. RegisteredInv'
      <3>1. CASE service'.registered = service.registered
        BY <1>6, <1>a, <2>1, <3>1 DEF RegisteredInv, gen
      <3>2. CASE service'.registered # service.registered
        <4>1. Alive(to)
          BY <1>6, <2>0, <3>2
        <4>2. to \in provider'.linked
          BY <1>c, <2>1, <4>1 DEF Alive, gen
        <4> QED BY <1>6, <4>1, <4>2 DEF RegisteredInv, Alive, gen
      <3> QED BY <3>1, <3>2
    <2> QED BY <1>b, <2>2, <2>3, <2>4, <2>5
  <1>7. CASE WorkerFetches
    BY <1>6, <1>7 DEF WorkerFetches
  <1>8. CASE WorkerCalls
    <2>1. worker.cmd.tag \in ClientTags /\ worker.cmd.callback \in Nat
      BY <1>8 DEF WorkerCalls, TypesInv, Commands
    <2>2. CallsStatsd(getStatsService, worker.cmd.tag, worker.cmd.callback)
      BY <1>8, <2>1, CallsChange, Zenon DEF WorkerCalls
    <2> QED BY <1>6, <1>8, <2>2 DEF WorkerCalls, CallsStatsd
  <1>9. ASSUME NEW g \in Generations, binderDied(g) PROVE LinksInv'
    <2>1. ThreadEffect(g, "fetch", restarts[g].to, restarts[g].copy)
      BY <1>9, ThreadChanges, Zenon
    <2>2. provider'.mStatsd = Nothing /\ provider'.linked = provider.linked
      BY <1>9, Records DEF binderDied, resetStatsService
    <2>3. service' = service /\ restarts[g].pc = "died"
      BY <1>9 DEF binderDied
    <2>4. LinkedInv'
      BY <1>a, <2>2, <2>3 DEF LinkedInv
    <2>5. KnownInv'
      BY <2>2 DEF KnownInv
    <2>6. HeardInv'
      BY <1>a, <2>1, <2>2, <2>3 DEF HeardInv, ThreadEffect
    <2>7. RegisteredInv'
      BY <1>a, <2>2, <2>3 DEF RegisteredInv
    <2> QED BY <1>b, <2>4, <2>5, <2>6, <2>7
  <1>10. ASSUME NEW g \in Generations, RestartFetches(g) PROVE LinksInv'
    <2>0. PICK to : to = getStatsService
      OBVIOUS
    <2>1. ThreadEffect(g, IF to = Nothing THEN "off" ELSE "copy", to, restarts[g].copy)
      BY <1>10, <2>0, ThreadChanges, Zenon
    <2>2. provider' = Fetched /\ service' = service /\ restarts[g].pc = "fetch"
      BY <1>10 DEF RestartFetches
    <2>3. /\ provider'.mStatsd = to /\ to \in Generations \union {Nothing}
          /\ provider.linked \subseteq provider'.linked
          /\ provider'.linked \subseteq provider.linked \union {gen}
          /\ to # Nothing =>
              /\ to \in provider'.linked
              /\ \A h \in provider'.linked : h <= to
              /\ Alive(to) \/ restarts[to].pc = "died"
      BY <2>0, <2>2, FetchFields
    <2> HIDE DEF gen
    <2>4. /\ restarts'[g].pc = (IF to = Nothing THEN "off" ELSE "copy") /\ restarts'[g].to = to
          /\ \A h \in Generations \ {g} : restarts'[h] = restarts[h]
      BY <2>1 DEF ThreadEffect
    <2>5. LinkedInv'
      <3> SUFFICES ASSUME NEW h \in provider'.linked PROVE h <= gen
        BY <2>2 DEF LinkedInv, gen
      <3>1. h = gen \/ h \in provider.linked
        BY <2>3
      <3>2. gen \in Int
        BY <1>c
      <3>3. CASE h \in provider.linked
        BY <1>a, <3>3 DEF LinkedInv, gen
      <3> QED BY <3>1, <3>2, <3>3
    <2>6. KnownInv'
      <3> SUFFICES ASSUME to # Nothing PROVE Alive(to)' \/ restarts'[to].pc = "died"
        BY <2>3 DEF KnownInv, Alive
      <3>1. CASE Alive(to)
        BY <2>2, <3>1 DEF Alive
      <3>2. CASE restarts[to].pc = "died"
        <4>1. to # g /\ to \in Generations
          BY <2>2, <2>3, <3>2
        <4> QED BY <2>4, <3>2, <4>1
      <3> QED BY <2>3, <3>1, <3>2
    <2>7. HeardInv'
      BY <1>a, <2>2, <2>3, <2>4 DEF HeardInv
    <2>8. RegisteredInv'
      BY <1>a, <2>2, <2>3 DEF RegisteredInv, gen
    <2> QED BY <1>b, <2>5, <2>6, <2>7, <2>8
  <1>11. ASSUME NEW g \in Generations, provider' = provider, service'.up = service.up,
                service'.generation = gen, restarts[g].pc \in {"copy", "send"},
                restarts'[g].pc \in {"send", "off"}, restarts'[g].to = restarts[g].to,
                \A h \in Generations \ {g} : restarts'[h] = restarts[h],
                service'.registered # service.registered => Alive(restarts[g].to)
         PROVE  LinksInv'
    <2>1. LinkedInv'
      BY <1>a, <1>11 DEF LinkedInv
    <2>2. KnownInv'
      <3> SUFFICES ASSUME provider.mStatsd # Nothing
                   PROVE  Alive(provider.mStatsd)' \/ restarts'[provider.mStatsd].pc = "died"
        BY <1>a, <1>11 DEF KnownInv
      <3>1. CASE Alive(provider.mStatsd)
        BY <1>11, <3>1 DEF Alive
      <3>2. CASE restarts[provider.mStatsd].pc = "died"
        <4>1. provider.mStatsd # g /\ provider.mStatsd \in Generations
          BY <1>11, <1>c, <3>2
        <4> QED BY <1>11, <3>2, <4>1
      <3> QED BY <1>a, <3>1, <3>2 DEF KnownInv
    <2>3. HeardInv'
      BY <1>a, <1>11 DEF HeardInv
    <2>4. RegisteredInv'
      <3>1. restarts[g].to \in provider.linked
        BY <1>a, <1>11 DEF HeardInv
      <3>2. CASE service'.registered = service.registered
        BY <1>a, <1>11, <3>2 DEF RegisteredInv
      <3>3. CASE service'.registered # service.registered
        <4>1. gen \in provider.linked
          BY <1>11, <3>1, <3>3 DEF Alive
        <4> QED BY <1>11, <3>3, <4>1 DEF RegisteredInv, Alive
      <3> QED BY <3>2, <3>3
    <2> QED BY <1>b, <2>1, <2>2, <2>3, <2>4
  <1>12. ASSUME NEW g \in Generations, CopyPullers(g) PROVE LinksInv'
    <2>1. ThreadEffect(g, "send", restarts[g].to, client.pullers)
      BY <1>12, ThreadChanges, Zenon
    <2> QED BY <1>11, <1>12, <2>1 DEF CopyPullers, ThreadEffect
  <1>13. ASSUME NEW g \in Generations, RegisterAnew(g) PROVE LinksInv'
    <2>1. CASE restarts[g].copy = NoPullers
      <3>1. ThreadEffect(g, "off", restarts[g].to, restarts[g].copy)
        BY <1>13, <2>1, ThreadChanges, Zenon
      <3> QED BY <1>11, <1>13, <2>1, <3>1 DEF RegisterAnew, ThreadEffect
    <2>2. CASE restarts[g].copy # NoPullers
      <3>1. PICK tag \in ClientTags :
                /\ service' = Called(restarts[g].to, tag, restarts[g].copy[tag])
                /\ ThreadEffect(g, restarts[g].pc, restarts[g].to,
                                [restarts[g].copy EXCEPT ![tag] = Nothing])
        BY <1>13, <2>2, ThreadChanges, Zenon
      <3>2. restarts[g].copy[tag] \in Nat
        BY ThreadFields DEF Callbacks
      <3>3. CallsStatsd(restarts[g].to, tag, restarts[g].copy[tag])
        BY <3>1, <3>2, CallsChange, Zenon
      <3>4. restarts[g].pc = "send" /\ provider' = provider
        BY <1>13 DEF RegisterAnew
      <3>5. /\ restarts'[g].pc = "send" /\ restarts'[g].to = restarts[g].to
            /\ \A h \in Generations \ {g} : restarts'[h] = restarts[h]
        BY <3>1, <3>4 DEF ThreadEffect
      <3>6. /\ service'.up = service.up /\ service'.generation = gen
            /\ service'.registered # service.registered => Alive(restarts[g].to)
        BY <3>3 DEF CallsStatsd
      <3> QED BY <1>11, <3>4, <3>5, <3>6
    <2> QED BY <2>1, <2>2
  <1>14. CASE UNCHANGED clientVars
    BY <1>3, <1>14, Zenon DEF clientVars
  <1> QED
    BY <1>1, <1>2, <1>4, <1>5, <1>7, <1>8, <1>9, <1>10, <1>12, <1>13, <1>14, Zenon
    DEF ClientNext, WorkerRuns, RestartStep

-----------------------------------------------------------------------------
(* Pullers registered anew. *)

\* At the start the map and statsd are empty.
LEMMA AnewInit == ClientInit => AnewInv
  <1> SUFFICES ASSUME ClientInit PROVE AnewInv
    OBVIOUS
  <1>1. /\ client.pullers = NoPullers /\ worker.pc = "none"
        /\ \A g \in Generations : restarts[g].pc = "off"
    BY DEF ClientInit
  <1>2. service.registered = NoPullers
    BY DEF ClientInit
  <1> QED BY <1>1, <1>2 DEF AnewInv, TagInv, NoPullers

\* A step that concerns neither the tag nor the threads nor statsd.
LEMMA TagSame ==
  ASSUME NEW t \in ClientTags, TagInv(t), restarts' = restarts,
         client'.pullers[t] = client.pullers[t],
         service'.registered[t] = service.registered[t],
         service'.up = service.up, service'.generation = service.generation,
         OnItsWay(t) => OnItsWay(t)'
  PROVE  TagInv(t)'
  <1>1. \A g \in Generations : WillRegister(g, t) => WillRegister(g, t)'
    BY DEF WillRegister, Alive
  <1>2. \A g \in Generations :
          restarts'[g].pc = "send" => restarts'[g].copy[t] \in {Nothing, client'.pullers[t]}
    BY DEF TagInv
  <1>3. ASSUME ~OnItsWay(t)'
        PROVE  /\ service'.registered[t] \in {Nothing, client'.pullers[t]}
               /\ service'.registered[t] # client'.pullers[t] =>
                    \E g \in Generations : WillRegister(g, t)'
    BY <1>1, <1>3 DEF TagInv
  <1> QED BY <1>2, <1>3 DEF TagInv

\* A step of one thread, with statsd as it is: tag t still has a thread if it needs one.
LEMMA TagThread ==
  ASSUME NEW t \in ClientTags, NEW g \in Generations, TagInv(t), client' = client, worker' = worker,
         service'.up = service.up, service'.generation = service.generation,
         \A h \in Generations \ {g} : restarts'[h] = restarts[h],
         restarts'[g].pc = "send" => restarts'[g].copy[t] \in {Nothing, client.pullers[t]},
         \/ service'.registered[t] = client.pullers[t]
         \/ /\ service'.registered[t] = service.registered[t]
            /\ \/ service.registered[t] = client.pullers[t]
               \/ ~WillRegister(g, t)
               \/ \E h \in Generations : WillRegister(h, t)'
  PROVE  TagInv(t)'
  <1>1. \A h \in Generations \ {g} : WillRegister(h, t) => WillRegister(h, t)'
    BY DEF WillRegister, Alive
  <1>2. \A h \in Generations :
          restarts'[h].pc = "send" => restarts'[h].copy[t] \in {Nothing, client'.pullers[t]}
    BY DEF TagInv
  <1>3. OnItsWay(t)' <=> OnItsWay(t)
    BY DEF OnItsWay, BeingPushed, InQueue, InHand
  <1>4. ASSUME ~OnItsWay(t)
        PROVE  /\ service'.registered[t] \in {Nothing, client'.pullers[t]}
               /\ service'.registered[t] # client'.pullers[t] =>
                    \E h \in Generations : WillRegister(h, t)'
    BY <1>1, <1>4 DEF TagInv
  <1> QED BY <1>2, <1>3, <1>4 DEF TagInv

\* Who is not alive but was fetched left a thread behind, and nobody has called
\* the statsd that took its place.
LEMMA StaleFetch ==
  ASSUME TypesInv, LinksInv, getStatsService # Nothing, ~Alive(getStatsService)
  PROVE  /\ getStatsService \in Generations /\ restarts[getStatsService].pc = "died"
         /\ service.registered = NoPullers
  <1> DEFINE to == getStatsService
             gen == service.generation
  <1>1. /\ to \in Generations /\ restarts[to].pc = "died"
        /\ to \in Fetched.linked /\ \A g \in Fetched.linked : g <= to
        /\ provider.linked \subseteq Fetched.linked
        /\ to # gen => Fetched.linked = provider.linked
    BY FetchFields
  <1>2. CASE ~service.up
    BY <1>1, <1>2 DEF LinksInv
  <1>3. CASE service.up
    <2>1. to # gen
      BY <1>3 DEF Alive
    <2>2. to \in Int /\ gen \in Int
      BY <1>1, Fields, ClientAssumption DEF Generations
    <2> HIDE DEF to, gen
    <2>3. to <= gen
      BY <1>1, <2>1 DEF LinksInv, gen
    <2>4. gen \notin provider.linked
      BY <1>1, <2>1, <2>2, <2>3
    <2> QED BY <1>1, <2>4 DEF LinksInv, gen, to
  <1> QED BY <1>2, <1>3, Fields

\* A tag without a command on its way is registered, or has a thread that will do it.
LEMMA AnewStep ==
  TypesInv /\ CommandsInv /\ LinksInv /\ AnewInv /\ [ClientNext]_clientVars => AnewInv'
  <1> SUFFICES ASSUME TypesInv, CommandsInv, LinksInv, AnewInv, [ClientNext]_clientVars,
                      service'.waits
               PROVE  /\ worker'.pc # "drop"
                      /\ ~client'.overlapped => \A t \in ClientTags : TagInv(t)'
    BY DEF AnewInv
  <1> DEFINE Goal == /\ worker'.pc # "drop"
                     /\ ~client'.overlapped => \A t \in ClientTags : TagInv(t)'
             gen == service.generation
             q == client.mCmdQueue
  <1>a. service.waits => worker.pc # "drop" /\ (~client.overlapped => \A t \in ClientTags : TagInv(t))
    BY DEF AnewInv
  <1>b. gen \in Generations /\ Nothing \notin Generations
    BY Fields, ClientAssumption DEF Generations, Nothing
  <1>1. CASE ServiceDies
    <2>1. /\ ~service'.up /\ service'.generation = gen /\ service'.registered = NoPullers
          /\ service'.waits = service.waits
          /\ gen \notin provider.linked => restarts' = restarts
          /\ gen \in provider.linked =>
               ThreadEffect(gen, "died", restarts[gen].to, restarts[gen].copy)
      BY <1>1, ServiceChanges, Zenon
    <2>2. client' = client /\ worker' = worker
      BY <1>1 DEF ServiceDies
    <2>3. ASSUME ~client.overlapped, NEW t \in ClientTags PROVE TagInv(t)'
      <3>1. TagInv(t)
        BY <1>a, <2>1, <2>3
      <3>2. service'.registered[t] = Nothing
        BY <2>1 DEF NoPullers
      <3>3. OnItsWay(t)' <=> OnItsWay(t)
        BY <2>2 DEF OnItsWay, BeingPushed, InQueue, InHand
      <3>4. CASE gen \in provider.linked
        <4>1. /\ restarts'[gen].pc = "died"
              /\ \A h \in Generations \ {gen} : restarts'[h] = restarts[h]
          BY <2>1, <3>4 DEF ThreadEffect
        <4>2. \A h \in Generations : restarts'[h].pc = "send" =>
                restarts'[h].copy[t] \in {Nothing, client'.pullers[t]}
          BY <2>2, <3>1, <4>1 DEF TagInv
        <4>3. \E h \in Generations : WillRegister(h, t)'
          <5>1. PICK h \in Generations : h = gen
            BY <1>b
          <5> QED BY <4>1, <5>1 DEF WillRegister
        <4> QED BY <3>2, <4>2, <4>3 DEF TagInv
      <3>5. CASE gen \notin provider.linked
        <4>1. restarts' = restarts /\ service.registered = NoPullers
          BY <2>1, <3>5 DEF LinksInv
        <4>2. \A h \in Generations : WillRegister(h, t) => WillRegister(h, t)'
          BY <3>5, <4>1 DEF WillRegister, LinksInv, Alive
        <4>3. \A h \in Generations : restarts'[h].pc = "send" =>
                restarts'[h].copy[t] \in {Nothing, client'.pullers[t]}
          BY <2>2, <3>1, <4>1 DEF TagInv
        <4>4. service.registered[t] = Nothing
          BY <4>1 DEF NoPullers
        <4>5. ASSUME ~OnItsWay(t)', service'.registered[t] # client'.pullers[t]
              PROVE  \E h \in Generations : WillRegister(h, t)'
          BY <2>2, <3>1, <3>2, <3>3, <4>2, <4>4, <4>5 DEF TagInv
        <4> QED BY <3>2, <4>3, <4>5 DEF TagInv
      <3> QED BY <3>4, <3>5
    <2> QED BY <1>a, <2>1, <2>2, <2>3
  <1>2. CASE ServiceComesBack
    <2>1. /\ ~service.up /\ service'.registered = service.registered
          /\ service'.waits = service.waits
      BY <1>2, ServiceChanges, Zenon
    <2>2. client' = client /\ worker' = worker /\ restarts' = restarts
      BY <1>2 DEF ServiceComesBack
    <2>3. ASSUME ~client.overlapped, NEW t \in ClientTags PROVE TagInv(t)'
      <3>1. TagInv(t)
        BY <1>a, <2>1, <2>3
      <3>2. \A h \in Generations : WillRegister(h, t) => WillRegister(h, t)'
        BY <2>1, <2>2 DEF WillRegister, Alive
      <3>3. OnItsWay(t)' <=> OnItsWay(t)
        BY <2>2 DEF OnItsWay, BeingPushed, InQueue, InHand
      <3>4. ASSUME ~OnItsWay(t)', service'.registered[t] # client'.pullers[t]
            PROVE  \E h \in Generations : WillRegister(h, t)'
        BY <2>1, <2>2, <3>1, <3>2, <3>3, <3>4 DEF TagInv
      <3> QED BY <2>1, <2>2, <3>1, <3>3, <3>4 DEF TagInv
    <2> QED BY <1>a, <2>1, <2>2, <2>3
  <1>3. ASSUME NEW type \in {"register", "unregister"}, NEW tag \in ClientTags,
               SetOrClearPullAtomCallback(type, tag)
        PROVE  Goal
    <2>1. CallEffect(type, tag)
      BY <1>3, CallChanges
    <2>2. PICK callback \in Nat :
            /\ client'.pullers = [client.pullers EXCEPT ![tag] = callback]
            /\ client'.cmd = [type |-> type, tag |-> tag, callback |-> callback]
      BY <2>1 DEF CallEffect
    <2>3. /\ worker' = worker /\ restarts' = restarts /\ service' = service
          /\ client'.pc = "push" /\ client.pc = "idle" /\ client'.mCmdQueue = q
          /\ client'.overlapped = (client.overlapped \/ Copied # {})
      BY <2>1 DEF CallEffect
    <2>4. ASSUME ~client'.overlapped, NEW t \in ClientTags PROVE TagInv(t)'
      <3>1. ~client.overlapped /\ Copied = {}
        BY <2>3, <2>4
      <3>2. \A g \in Generations : restarts[g].pc # "send"
        BY <3>1 DEF Copied
      <3>3. CASE t = tag
        <4>1. BeingPushed(t)'
          BY <2>2, <2>3, <3>3 DEF BeingPushed
        <4> QED BY <2>3, <3>2, <4>1 DEF TagInv, OnItsWay
      <3>4. CASE t # tag
        <4>1. client'.pullers[t] = client.pullers[t]
          BY <2>2, <3>4, Fields DEF Callbacks
        <4>2. OnItsWay(t) => OnItsWay(t)'
          BY <2>3 DEF OnItsWay, BeingPushed, InQueue, InHand
        <4> QED BY <1>a, <2>3, <3>1, <4>1, <4>2, TagSame
      <3> QED BY <3>3, <3>4
    <2> QED BY <1>a, <2>3, <2>4
  <1>4. ASSUME worker'.pc # "drop", client'.pullers = client.pullers,
               client'.overlapped = client.overlapped, restarts' = restarts, service' = service,
               \A t \in ClientTags : OnItsWay(t) => OnItsWay(t)'
        PROVE  Goal
    BY <1>4, <1>a, TagSame
  <1>5. CASE pushToQueue
    <2> DEFINE p == Append(q, client.cmd)
    <2>1. ClientEffect("start", p, client.mThreadAlive)
      BY <1>5, ClientChanges, Zenon
    <2>2. /\ client.pc = "push" /\ client.cmd \in Commands
          /\ UNCHANGED <<worker, restarts, service>>
      BY <1>5 DEF pushToQueue, TypesInv
    <2>3. /\ Len(q) \in Nat /\ Len(p) = Len(q) + 1 /\ p[Len(q) + 1] = client.cmd
          /\ \A i \in 1..Len(q) : p[i] = q[i]
      BY <2>2, Fields, PushQueue
    <2>4. /\ client'.mCmdQueue = p /\ client'.pullers = client.pullers
          /\ client'.overlapped = client.overlapped
      BY <2>1 DEF ClientEffect
    <2> HIDE DEF p
    <2>5. ASSUME NEW t \in ClientTags, OnItsWay(t) PROVE OnItsWay(t)'
      <3>1. CASE BeingPushed(t)
        <4>1. Len(q) + 1 \in 1..Len(p) /\ p[Len(q) + 1].tag = t
          BY <2>3, <3>1 DEF BeingPushed
        <4> QED BY <2>4, <4>1 DEF OnItsWay, InQueue
      <3>2. CASE InQueue(t)
        <4>1. PICK i \in 1..Len(q) : q[i].tag = t
          BY <3>2 DEF InQueue
        <4>2. i \in 1..Len(p) /\ p[i].tag = t
          BY <2>3, <4>1
        <4> QED BY <2>4, <4>2 DEF OnItsWay, InQueue
      <3>3. CASE InHand(t)
        BY <2>2, <3>3 DEF OnItsWay, InHand
      <3> QED BY <2>5, <3>1, <3>2, <3>3 DEF OnItsWay
    <2> QED BY <1>a, <1>4, <2>2, <2>4, <2>5
  <1>6. CASE startWorkerThread
    <2>1. client.pc = "start" /\ UNCHANGED <<worker, restarts, service>>
      BY <1>6 DEF startWorkerThread
    <2>2. \/ ClientEffect("idle", q, client.mThreadAlive) \/ ClientEffect("join", q, TRUE)
      BY <1>6, ClientChanges, Zenon
    <2>3. /\ client'.mCmdQueue = q /\ client'.pullers = client.pullers
          /\ client'.overlapped = client.overlapped
      BY <2>2 DEF ClientEffect
    <2>4. \A t \in ClientTags : OnItsWay(t) => OnItsWay(t)'
      BY <2>1, <2>3 DEF OnItsWay, BeingPushed, InQueue, InHand
    <2> QED BY <1>a, <1>4, <2>1, <2>3, <2>4
  <1>7. CASE JoinAndStart
    <2>1. /\ client.pc = "join" /\ worker.pc = "none" /\ worker'.pc = "fetch"
          /\ UNCHANGED <<restarts, service>>
      BY <1>7, Records DEF JoinAndStart
    <2>2. ClientEffect("idle", q, client.mThreadAlive)
      BY <1>7, ClientChanges, Zenon
    <2>3. /\ client'.mCmdQueue = q /\ client'.pullers = client.pullers
          /\ client'.overlapped = client.overlapped
      BY <2>2 DEF ClientEffect
    <2>4. \A t \in ClientTags : OnItsWay(t) => OnItsWay(t)'
      BY <2>1, <2>3 DEF OnItsWay, BeingPushed, InQueue, InHand
    <2> QED BY <1>4, <2>1, <2>3, <2>4
  <1>8. CASE WorkerFetches
    <2>1. /\ worker.pc = "fetch" /\ CanFetch /\ UNCHANGED <<client, restarts, service>>
          /\ worker'.pc = IF getStatsService = Nothing THEN "drop" ELSE "next"
      BY <1>8, Records DEF WorkerFetches
    <2>2. worker'.pc # "drop"
      BY <2>1, FetchFields
    <2>3. \A t \in ClientTags : OnItsWay(t) => OnItsWay(t)'
      BY <2>1 DEF OnItsWay, BeingPushed, InQueue, InHand
    <2> QED BY <1>4, <2>1, <2>2, <2>3
  <1>9. CASE WorkerDropsAll
    <2>1. worker.pc = "drop" /\ service' = service
      BY <1>9 DEF WorkerDropsAll
    <2> QED BY <1>a, <2>1
  <1>10. CASE WorkerNext
    <2>1. worker.pc = "next" /\ UNCHANGED <<restarts, service>>
      BY <1>10 DEF WorkerNext
    <2>2. CASE q = << >>
      <3>1. ClientEffect(client.pc, q, FALSE)
        BY <1>10, <2>2, ClientChanges, Zenon
      <3>2. worker'.pc = "none"
        BY <1>10, <2>2 DEF WorkerNext
      <3>3. /\ client'.mCmdQueue = q /\ client'.pullers = client.pullers
            /\ client'.pc = client.pc /\ client'.cmd = client.cmd
            /\ client'.overlapped = client.overlapped
        BY <3>1 DEF ClientEffect
      <3>4. \A t \in ClientTags : OnItsWay(t) => OnItsWay(t)'
        BY <2>1, <3>3 DEF OnItsWay, BeingPushed, InQueue, InHand
      <3> QED BY <1>4, <2>1, <3>2, <3>3, <3>4
    <2>3. CASE q # << >>
      <3> DEFINE p == Tail(q)
      <3>1. ClientEffect(client.pc, p, client.mThreadAlive)
        BY <1>10, <2>3, ClientChanges, Zenon
      <3>2. worker' = [pc |-> "call", cmd |-> Head(q)]
        BY <1>10, <2>3 DEF WorkerNext
      <3>3. /\ Len(q) \in Nat \ {0} /\ Len(p) = Len(q) - 1 /\ Head(q) = q[1]
            /\ \A i \in 1..Len(p) : p[i] = q[i + 1]
        BY <2>3, Fields, TakeQueue
      <3>4. /\ client'.mCmdQueue = p /\ client'.pullers = client.pullers
            /\ client'.pc = client.pc /\ client'.cmd = client.cmd
            /\ client'.overlapped = client.overlapped
        BY <3>1 DEF ClientEffect
      <3>5. worker'.pc = "call" /\ worker'.cmd = q[1]
        BY <3>2, <3>3
      <3> HIDE DEF p
      <3>6. ASSUME NEW t \in ClientTags, OnItsWay(t) PROVE OnItsWay(t)'
        <4>1. CASE BeingPushed(t)
          BY <3>4, <4>1 DEF OnItsWay, BeingPushed
        <4>2. CASE InQueue(t)
          <5>1. PICK i \in 1..Len(q) : q[i].tag = t
            BY <4>2 DEF InQueue
          <5>2. CASE i = 1
            BY <3>5, <5>1, <5>2 DEF OnItsWay, InHand
          <5>3. CASE i > 1
            <6>1. i - 1 \in 1..Len(p) /\ p[i - 1].tag = t
              BY <3>3, <5>1, <5>3
            <6> QED BY <3>4, <6>1 DEF OnItsWay, InQueue
          <5> QED BY <5>1, <5>2, <5>3
        <4>3. ~InHand(t)
          BY <2>1 DEF InHand
        <4> QED BY <3>6, <4>1, <4>2, <4>3 DEF OnItsWay
      <3> QED BY <1>4, <2>1, <3>4, <3>5, <3>6
    <2> QED BY <2>2, <2>3
  <1>11. CASE WorkerCalls
    <2> DEFINE tag == worker.cmd.tag
               to == getStatsService
    <2>1. /\ worker.pc = "call" /\ worker'.pc = "next" /\ CanFetch
          /\ UNCHANGED <<client, restarts>>
      BY <1>11 DEF WorkerCalls
    <2>2. tag \in ClientTags /\ worker.cmd.callback \in Nat
      BY <2>1 DEF TypesInv, Commands
    <2>3. CallsStatsd(to, tag, worker.cmd.callback)
      BY <1>11, <2>2, CallsChange, Zenon DEF WorkerCalls
    <2>4. /\ service'.up = service.up /\ service'.generation = gen
          /\ service'.waits = service.waits
          /\ Alive(to) => service'.registered = [service.registered EXCEPT ![tag] = worker.cmd.callback]
          /\ ~Alive(to) => service'.registered = service.registered
      BY <2>3 DEF CallsStatsd
    <2>5. to # Nothing
      BY <2>1, <2>4, FetchFields
    <2>6. ASSUME ~client.overlapped, NEW t \in ClientTags PROVE TagInv(t)'
      <3>1. TagInv(t)
        BY <1>a, <2>4, <2>6
      <3>2. CASE t # tag
        <4>1. service'.registered[t] = service.registered[t]
          BY <2>2, <2>4, <3>2, Fields DEF Callbacks
        <4>2. OnItsWay(t) => OnItsWay(t)'
          BY <2>1, <3>2 DEF OnItsWay, BeingPushed, InQueue, InHand
        <4> QED BY <2>1, <2>4, <3>1, <4>1, <4>2, TagSame
      <3>3. CASE t = tag
        <4>1. \A g \in Generations : restarts'[g].pc = "send" =>
                restarts'[g].copy[t] \in {Nothing, client'.pullers[t]}
          BY <2>1, <3>1 DEF TagInv
        <4>2. ASSUME ~OnItsWay(t)'
              PROVE  /\ service'.registered[t] \in {Nothing, client'.pullers[t]}
                     /\ service'.registered[t] # client'.pullers[t] =>
                          \E g \in Generations : WillRegister(g, t)'
          <5>1. ~BeingPushed(t) /\ ~InQueue(t)
            BY <2>1, <4>2 DEF OnItsWay, BeingPushed, InQueue
          <5>2. worker.cmd.callback = client.pullers[t]
            BY <2>1, <3>3, <5>1 DEF CommandsInv
          <5>3. CASE Alive(to)
            <6>1. service'.registered[t] = client'.pullers[t]
              BY <2>1, <2>2, <2>4, <3>3, <5>2, <5>3, Fields DEF Callbacks
            <6> QED BY <6>1
          <5>4. CASE ~Alive(to)
            <6>1. to \in Generations /\ restarts[to].pc = "died" /\ service.registered = NoPullers
              BY <2>5, <5>4, StaleFetch
            <6>2. PICK g \in Generations : g = to
              BY <6>1
            <6>3. WillRegister(g, t)'
              BY <2>1, <6>1, <6>2 DEF WillRegister
            <6>4. service'.registered[t] = Nothing
              BY <2>4, <5>4, <6>1 DEF NoPullers
            <6> QED BY <6>3, <6>4
          <5> QED BY <5>3, <5>4
        <4> QED BY <4>1, <4>2 DEF TagInv
      <3> QED BY <3>2, <3>3
    <2> QED BY <2>1, <2>6
  <1>12. ASSUME NEW g \in Generations, RestartStep(g) PROVE Goal
    <2>1. client' = client /\ worker' = worker
      BY <1>12 DEF RestartStep, binderDied, RestartFetches, CopyPullers, RegisterAnew
    <2> SUFFICES ASSUME ~client.overlapped, service.waits, NEW t \in ClientTags, TagInv(t)
                 PROVE  TagInv(t)'
      <3>1. service'.waits = service.waits
        <4>1. CASE service' = service
          BY <4>1
        <4>2. CASE RegisterAnew(g) /\ restarts[g].copy # NoPullers
          <5>1. PICK tag \in ClientTags : service' = Called(restarts[g].to, tag, restarts[g].copy[tag])
            BY <4>2, ThreadChanges, Zenon
          <5>2. restarts[g].copy[tag] \in Nat
            BY ThreadFields DEF Callbacks
          <5> QED BY <5>1, <5>2, CallsChange DEF CallsStatsd
        <4> QED BY <1>12, <4>1, <4>2
                DEF RestartStep, binderDied, RestartFetches, CopyPullers, RegisterAnew
      <3> QED BY <1>a, <2>1, <3>1
    <2>2. CASE binderDied(g)
      <3>1. ThreadEffect(g, "fetch", restarts[g].to, restarts[g].copy)
        BY <2>2, ThreadChanges, Zenon
      <3>2. service' = service
        BY <2>2 DEF binderDied
      <3>3. WillRegister(g, t)'
        BY <3>1 DEF WillRegister, ThreadEffect
      <3>4. restarts'[g].pc # "send" /\ \A h \in Generations \ {g} : restarts'[h] = restarts[h]
        BY <3>1 DEF ThreadEffect
      <3> QED BY <2>1, <3>2, <3>3, <3>4, TagThread
    <2>3. CASE RestartFetches(g)
      <3>0. PICK to : to = getStatsService
        OBVIOUS
      <3>1. service' = service /\ CanFetch /\ restarts[g].pc = "fetch"
        BY <2>3 DEF RestartFetches
      <3>2. to # Nothing
        BY <3>0, <3>1, FetchFields
      <3>3. ThreadEffect(g, IF to = Nothing THEN "off" ELSE "copy", to, restarts[g].copy)
        BY <2>3, <3>0, ThreadChanges, Zenon
      <3>4. /\ restarts'[g].pc = "copy" /\ restarts'[g].to = to
            /\ \A h \in Generations \ {g} : restarts'[h] = restarts[h]
        BY <3>2, <3>3 DEF ThreadEffect
      <3>5. \E h \in Generations : WillRegister(h, t)'
        <4>1. CASE Alive(to)
          BY <3>1, <3>4, <4>1 DEF WillRegister, Alive
        <4>2. CASE ~Alive(to)
          <5>1. to \in Generations /\ restarts[to].pc = "died"
            BY <3>0, <3>2, <4>2, StaleFetch
          <5>2. restarts'[to] = restarts[to]
            BY <3>1, <3>4, <5>1
          <5> QED BY <5>1, <5>2 DEF WillRegister
        <4> QED BY <4>1, <4>2
      <3> QED BY <2>1, <3>1, <3>4, <3>5, TagThread
    <2>4. CASE CopyPullers(g)
      <3>1. ThreadEffect(g, "send", restarts[g].to, client.pullers)
        BY <2>4, ThreadChanges, Zenon
      <3>2. service' = service /\ restarts[g].pc = "copy"
        BY <2>4 DEF CopyPullers
      <3>3. /\ restarts'[g].pc = "send" /\ restarts'[g].to = restarts[g].to
            /\ restarts'[g].copy = client.pullers
            /\ \A h \in Generations \ {g} : restarts'[h] = restarts[h]
        BY <3>1 DEF ThreadEffect
      <3>4. WillRegister(g, t) => WillRegister(g, t)'
        BY <2>1, <3>2, <3>3 DEF WillRegister, Alive
      <3> QED BY <2>1, <3>2, <3>3, <3>4, TagThread
    <2>5. CASE RegisterAnew(g) /\ restarts[g].copy = NoPullers
      <3>1. ThreadEffect(g, "off", restarts[g].to, restarts[g].copy)
        BY <2>5, ThreadChanges, Zenon
      <3>2. service' = service /\ restarts[g].pc = "send"
        BY <2>5 DEF RegisterAnew
      <3>3. restarts'[g].pc = "off" /\ \A h \in Generations \ {g} : restarts'[h] = restarts[h]
        BY <3>1 DEF ThreadEffect
      <3>4. restarts[g].copy[t] = Nothing
        BY <2>5 DEF NoPullers
      <3>5. CASE OnItsWay(t)
        <4>1. OnItsWay(t)'
          BY <2>1, <3>5 DEF OnItsWay, BeingPushed, InQueue, InHand
        <4>2. \A h \in Generations : restarts'[h].pc = "send" =>
                restarts'[h].copy[t] \in {Nothing, client'.pullers[t]}
          BY <2>1, <3>3 DEF TagInv
        <4> QED BY <4>1, <4>2 DEF TagInv
      <3>6. CASE ~OnItsWay(t)
        <4>1. service.registered[t] = client.pullers[t] \/ ~WillRegister(g, t)
          BY <3>2, <3>4, <3>6 DEF TagInv, WillRegister
        <4> QED BY <2>1, <3>2, <3>3, <4>1, TagThread
      <3> QED BY <3>5, <3>6
    <2>6. CASE RegisterAnew(g) /\ restarts[g].copy # NoPullers
      <3>1. PICK tag \in ClientTags :
                /\ restarts[g].copy[tag] # Nothing
                /\ service' = Called(restarts[g].to, tag, restarts[g].copy[tag])
                /\ ThreadEffect(g, restarts[g].pc, restarts[g].to,
                                [restarts[g].copy EXCEPT ![tag] = Nothing])
        BY <2>6, ThreadChanges, Zenon
      <3>2. restarts[g].pc = "send" /\ restarts[g].copy \in [ClientTags -> Nat]
        BY <2>6, ThreadFields DEF RegisterAnew, Callbacks
      <3>3. CallsStatsd(restarts[g].to, tag, restarts[g].copy[tag])
        BY <3>1, <3>2, CallsChange, Zenon
      <3>4. /\ service'.up = service.up /\ service'.generation = gen
            /\ Alive(restarts[g].to) =>
                 service'.registered = [service.registered EXCEPT ![tag] = restarts[g].copy[tag]]
            /\ ~Alive(restarts[g].to) => service'.registered = service.registered
        BY <3>3 DEF CallsStatsd
      <3>5. /\ restarts'[g].pc = "send" /\ restarts'[g].to = restarts[g].to
            /\ restarts'[g].copy = [restarts[g].copy EXCEPT ![tag] = Nothing]
            /\ \A h \in Generations \ {g} : restarts'[h] = restarts[h]
        BY <3>1, <3>2 DEF ThreadEffect
      <3>6. restarts[g].copy[t] \in {Nothing, client.pullers[t]}
        BY <3>2 DEF TagInv
      <3>7. restarts'[g].copy[t] \in {Nothing, client.pullers[t]}
        BY <3>2, <3>5, <3>6
      <3>8. service.registered \in [ClientTags -> Nat]
        BY Fields DEF Callbacks
      <3>9. CASE t = tag /\ Alive(restarts[g].to)
        <4>1. service'.registered[t] = client.pullers[t]
          BY <3>1, <3>4, <3>6, <3>8, <3>9
        <4> QED BY <2>1, <3>4, <3>5, <3>7, <4>1, TagThread
      <3>10. CASE ~Alive(restarts[g].to)
        <4>1. ~WillRegister(g, t)
          BY <3>2, <3>10 DEF WillRegister
        <4> QED BY <2>1, <3>4, <3>5, <3>7, <3>10, <4>1, TagThread
      <3>11. CASE t # tag
        <4>1. service'.registered[t] = service.registered[t]
          BY <3>4, <3>8, <3>11
        <4>2. restarts'[g].copy[t] = restarts[g].copy[t]
          BY <3>2, <3>5, <3>11
        <4>3. WillRegister(g, t) => WillRegister(g, t)'
          BY <2>1, <3>2, <3>4, <3>5, <4>2 DEF WillRegister, Alive
        <4> QED BY <2>1, <3>4, <3>5, <3>7, <4>1, <4>3, TagThread
      <3> QED BY <3>9, <3>10, <3>11
    <2> QED BY <1>12, <2>2, <2>3, <2>4, <2>5, <2>6, Zenon DEF RestartStep
  <1>13. CASE UNCHANGED clientVars
    <2>1. UNCHANGED <<client, worker, restarts, service>>
      BY <1>13 DEF clientVars
    <2>2. \A t \in ClientTags : OnItsWay(t) => OnItsWay(t)'
      BY <2>1 DEF OnItsWay, BeingPushed, InQueue, InHand
    <2> QED BY <1>a, <1>4, <2>1, <2>2
  <1> QED
    BY <1>1, <1>2, <1>3, <1>5, <1>6, <1>7, <1>8, <1>9, <1>10, <1>11, <1>12, <1>13, Zenon
    DEF ClientNext, WorkerRuns, CallerRuns

-----------------------------------------------------------------------------
\* Every command of a client reaches statsd, and whenever no call, command or
\* death notice is still being handled, statsd has registered exactly the
\* pullers of the map, across any number of deaths of statsd, unless a call came
\* while the pullers were registered anew (onStatsBinderRestart).
THEOREM RegistrationsAreSound == ClientSpec => []RegistrationsSound
  <1>1. ClientInit => RegistrationsInv
    BY TypesInit, WorkerInit, CommandsInit, LinksInit, AnewInit DEF RegistrationsInv
  <1>2. RegistrationsInv /\ [ClientNext]_clientVars => RegistrationsInv'
    BY TypesStep, WorkerStep, CommandsStep, LinksStep, AnewStep DEF RegistrationsInv
  <1>3. RegistrationsInv => RegistrationsSound
    <2> SUFFICES ASSUME RegistrationsInv, Quiet, service.waits, ~client.overlapped
                 PROVE  service.registered = client.pullers
      BY DEF RegistrationsInv, WorkerInv, RegistrationsSound, RegistrationsFollowMap
    <2>1. ASSUME NEW t \in ClientTags PROVE service.registered[t] = client.pullers[t]
      <3>1. TagInv(t)
        BY DEF RegistrationsInv, AnewInv
      <3>2. ~OnItsWay(t)
        BY DEF Quiet, OnItsWay, BeingPushed, InQueue, InHand
      <3>3. \A g \in Generations : ~WillRegister(g, t)
        BY DEF Quiet, WillRegister
      <3> QED BY <3>1, <3>2, <3>3 DEF TagInv
    <2>2. service.registered \in Callbacks /\ client.pullers \in Callbacks
      BY Fields DEF RegistrationsInv
    <2> QED BY <2>1, <2>2 DEF Callbacks
  <1> QED BY <1>1, <1>2, <1>3, PTL DEF ClientSpec

-----------------------------------------------------------------------------
(* Subscriptions *)

Logs == [since : Nat, owed : Seq(Nat), astray : BOOLEAN, ended : Nat]
ShellClients ==
  [alive : BOOLEAN, startTime : Nat, lastWrite : Nat, prevPull : Int, cache : Seq(Nat), log : Logs]

\* What is true of a client in the middle of a call as well.
ClientOK(i, c) ==
  /\ c \in ShellClients
  /\ c.startTime <= sNow /\ c.lastWrite <= sNow /\ c.prevPull <= sNow
  /\ c.cache # << >> => c.lastWrite <= c.log.since /\ c.log.since <= sNow
  /\ i \notin gone => ~c.log.astray /\ c.log.owed = c.cache

Rests(i, c) == Len(c.cache) < kMaxCacheSize /\ (IsPipe(i) => c.cache = << >>)

Present(i, c) == c.log.ended = 0 /\ (~c.alive => i \in gone /\ ~IsPipe(i))
Absent(i, c) ==
  /\ c.cache = << >> /\ c.log.ended <= 1
  /\ i \in started \ gone /\ ~IsPipe(i) => c.log.ended = 1

ClientsInv ==
  /\ clients \in [SubIds -> ShellClients]
  /\ \A i \in SubIds : ClientOK(i, clients[i]) /\ Rests(i, clients[i])
  /\ \A i \in mClientSet : Present(i, clients[i])
  /\ \A i \in SubIds \ mClientSet : Absent(i, clients[i])

\* The thread sleeps until then, and that is soon enough for a client.
InTime(i, c, until) ==
  /\ IF IsPipe(i) THEN until <= c.lastWrite + kBetweenHeartbeats
     ELSE until <= c.lastWrite + kBetweenCallbacks \/ until <= sNow + kMinCallbackSleep
  /\ c.cache # << >> => until < c.log.since + kBetweenCallbacks + kMinCallbackSleep
  /\ IsPipe(i) /\ Subscriptions[i].timeout > 0 =>
       until < c.startTime + Subscriptions[i].timeout + kBetweenHeartbeats
  /\ Subscriptions[i].pulls =>
       c.prevPull # Never /\ until < c.prevPull + IntervalOf(i) + kMinCallbackSleep

HelperInv ==
  /\ helper \in [pc : {"off", "run", "sleeping"}, mThreadAlive : BOOLEAN,
                 mShouldWakeupThread : BOOLEAN, until : Nat]
  /\ helper.mThreadAlive <=> helper.pc # "off"
  /\ mClientSet # {} => helper.pc # "off"
  /\ helper.pc = "sleeping" /\ ~helper.mShouldWakeupThread =>
       \A i \in mClientSet : InTime(i, clients[i], helper.until)

SetsInv ==
  /\ sNow \in 0 .. SubMaxTime /\ events \in 0 .. SubMaxEvents
  /\ mClientSet \subseteq started /\ started \subseteq SubIds /\ gone \subseteq started
  /\ IsFiniteSet(mClientSet) /\ Cardinality(mClientSet) <= kMaxSubscriptions
  /\ inUse = AtomsOf(mClientSet)

SubInv == SetsInv /\ ClientsInv /\ HelperInv

-----------------------------------------------------------------------------
\* The constants of the code are positive.
LEMMA ShellConstants ==
  /\ kMaxSubscriptions \in Nat \ {0} /\ kMaxCacheSize \in Nat \ {0}
  /\ kBetweenHeartbeats \in Nat \ {0} /\ kBetweenCallbacks \in Nat \ {0}
  /\ kMinCallbackSleep \in Nat \ {0} /\ kMinCallbackPullInterval \in Nat \ {0}
  /\ SubMaxTime \in Nat /\ SubMaxEvents \in Nat
BY SubAssumption

\* The larger of two numbers.
LEMMA MaxOfTwo ==
  ASSUME NEW a \in Int, NEW b \in Int
  PROVE  /\ Max({a, b}) = IF a >= b THEN a ELSE b
         /\ Max({a, b}) \in Int
<1>1. \E x \in {a, b} : \A y \in {a, b} : x >= y
  OBVIOUS
<1>2. Max({a, b}) \in {a, b} /\ \A y \in {a, b} : Max({a, b}) >= y
  BY <1>1 DEF Max
<1>. QED
  BY <1>2

\* The smallest of three numbers.
LEMMA MinOfThree ==
  ASSUME NEW a \in Int, NEW b \in Int, NEW d \in Int
  PROVE  /\ Min({a, b, d}) \in {a, b, d} /\ Min({a, b, d}) \in Int
         /\ Min({a, b, d}) <= a /\ Min({a, b, d}) <= b /\ Min({a, b, d}) <= d
<1>1. \E x \in {a, b, d} : \A y \in {a, b, d} : x <= y
  OBVIOUS
<1>2. Min({a, b, d}) \in {a, b, d} /\ \A y \in {a, b, d} : Min({a, b, d}) <= y
  BY <1>1 DEF Min
<1>. QED
  BY <1>2

\* A nonempty set of naturals has a smallest member.
LEMMA LeastNatural ==
  ASSUME NEW T, T \subseteq Nat, T # {}
  PROVE  Min(T) \in T /\ \A y \in T : Min(T) <= y
<1>1. PICK x \in T : \A y \in T : ~ (<<y, x>> \in OpToRel(<, Nat))
  BY NatLessThanWellFounded, WFMin, Zenon
<1>2. ASSUME NEW y \in T
      PROVE  x <= y
  <2>1. ~(y < x)
    BY <1>1 DEF OpToRel
  <2> QED
    BY <2>1
<1>. QED
  BY <1>2 DEF Min

\* The interval of a pull; that of a callback is never 0.
LEMMA IntervalIsNumber ==
  ASSUME NEW i \in SubIds
  PROVE  IntervalOf(i) \in Nat /\ (~IsPipe(i) => IntervalOf(i) > 0)
<1>1. Subscriptions[i].interval \in Nat
  BY SubAssumption DEF SubIds
<1>. QED
  BY <1>1, ShellConstants, MaxOfTwo DEF IntervalOf

-----------------------------------------------------------------------------
\* A cache that is sent leaves nothing owed.
LEMMA SentOK ==
  ASSUME NEW i, NEW c, ClientOK(i, c), i \notin gone, NEW ok, NEW told \in Nat, sNow \in Nat,
         NEW r, r = clearCache(Sent(c, ok, told))
  PROVE  /\ ClientOK(i, r) /\ r.cache = << >>
         /\ r.alive = c.alive /\ r.startTime = c.startTime /\ r.lastWrite = sNow
         /\ r.prevPull = c.prevPull /\ r.log.ended = c.log.ended + told
<1>1. /\ c \in ShellClients /\ c.log.owed = c.cache /\ c.log.astray = FALSE
      /\ c.cache \in Seq(Nat) /\ c.startTime <= sNow /\ c.prevPull <= sNow
  BY DEF ClientOK, ShellClients, Logs
<1>2. IsPrefix(c.cache, c.log.owed) /\ SubSeq(c.log.owed, Len(c.cache) + 1, Len(c.log.owed)) = << >>
  BY <1>1 DEF IsPrefix
<1>3. r = Client(c.alive, c.startTime, sNow, c.prevPull, << >>, Log(0, << >>, FALSE, c.log.ended + told))
  BY <1>1, <1>2 DEF clearCache, Sent, Client, Log
<1>4. c.log.ended \in Nat /\ << >> \in Seq(Nat)
  BY <1>1 DEF ShellClients, Logs
<1>5. Log(0, << >>, FALSE, c.log.ended + told) \in Logs
  BY <1>4 DEF Log, Logs
<1>. QED
  BY <1>1, <1>3, <1>5 DEF Client, ClientOK, ShellClients, Log

\* A flush to the pipe.
LEMMA FdFlushOK ==
  ASSUME NEW i, NEW c, ClientOK(i, c), sNow \in Nat, NEW r, r = triggerFdFlush(i, c)
  PROVE  /\ ClientOK(i, r) /\ r.cache = << >> /\ r.startTime = c.startTime
         /\ r.lastWrite = (IF i \in gone THEN c.lastWrite ELSE sNow)
         /\ r.prevPull = c.prevPull /\ r.log.ended = c.log.ended
         /\ (r.alive <=> c.alive /\ i \notin gone)
<1>1. CASE i \notin gone
  <2>0. PICK ok \in BOOLEAN : ok = TRUE
    BY Zenon
  <2>1. PICK told \in Nat : told = 0
    OBVIOUS
  <2>2. r = clearCache(Sent(c, ok, told)) /\ c.log.ended \in Nat
    BY <1>1, <2>0, <2>1 DEF triggerFdFlush, attemptWriteToPipe, ClientOK, ShellClients, Logs
  <2>3. /\ ClientOK(i, r) /\ r.cache = << >>
        /\ r.alive = c.alive /\ r.startTime = c.startTime /\ r.lastWrite = sNow
        /\ r.prevPull = c.prevPull /\ r.log.ended = c.log.ended + told
    BY <1>1, <2>2, SentOK
  <2>. QED
    BY <1>1, <2>1, <2>2, <2>3
<1>2. CASE i \in gone
  <2>1. r = Client(FALSE, c.startTime, c.lastWrite, c.prevPull, << >>,
                   Log(0, c.log.owed, c.log.astray, c.log.ended))
    BY <1>2 DEF triggerFdFlush, attemptWriteToPipe, clearCache, Died, Client
  <2>2. c \in ShellClients /\ c.startTime <= sNow /\ c.lastWrite <= sNow /\ c.prevPull <= sNow
    BY DEF ClientOK
  <2>3. c.log \in Logs /\ << >> \in Seq(Nat)
    BY <2>2 DEF ShellClients
  <2>4. Log(0, c.log.owed, c.log.astray, c.log.ended) \in Logs
    BY <2>3 DEF Log, Logs
  <2>. QED
    BY <1>2, <2>1, <2>2, <2>3, <2>4 DEF Client, ClientOK, ShellClients, Log
<1>. QED
  BY <1>1, <1>2

\* The client was found dead.
LEMMA DiedOK ==
  ASSUME NEW i, NEW c, ClientOK(i, c), NEW r, r = Died(c)
  PROVE  /\ ClientOK(i, r) /\ r.cache = c.cache /\ r.startTime = c.startTime
         /\ r.lastWrite = c.lastWrite /\ r.prevPull = c.prevPull /\ r.log = c.log /\ ~r.alive
<1>1. r = Client(FALSE, c.startTime, c.lastWrite, c.prevPull, c.cache, c.log)
  BY DEF Died
<1>. QED
  BY <1>1 DEF Client, ClientOK, ShellClients

\* A callback, of which the last one tells of the end.
LEMMA CallbackOK ==
  ASSUME NEW i, NEW c, ClientOK(i, c), sNow \in Nat, NEW reason, NEW ok,
         NEW r, r = triggerCallback(i, c, reason, ok)
  PROVE  /\ ClientOK(i, r) /\ r.startTime = c.startTime /\ r.prevPull = c.prevPull
         /\ i \in gone => /\ r.cache = c.cache /\ r.lastWrite = c.lastWrite /\ r.log = c.log
                          /\ ~r.alive
         /\ i \notin gone =>
              /\ r.cache = << >> /\ r.lastWrite = sNow /\ r.alive = c.alive
              /\ r.log.ended = IF reason = "SUBSCRIPTION_ENDED" THEN c.log.ended + 1 ELSE c.log.ended
<1>1. CASE i \notin gone
  <2>1. PICK told \in Nat : told = IF reason = "SUBSCRIPTION_ENDED" THEN 1 ELSE 0
    OBVIOUS
  <2>2. r = clearCache(Sent(c, ok, told)) /\ c.log.ended \in Nat
    BY <1>1, <2>1 DEF triggerCallback, ClientOK, ShellClients, Logs
  <2>3. /\ ClientOK(i, r) /\ r.cache = << >>
        /\ r.alive = c.alive /\ r.startTime = c.startTime /\ r.lastWrite = sNow
        /\ r.prevPull = c.prevPull /\ r.log.ended = c.log.ended + told
    BY <1>1, <2>2, SentOK
  <2>. QED
    BY <1>1, <2>1, <2>2, <2>3
<1>2. CASE i \in gone
  <2>1. r = Died(c)
    BY <1>2 DEF triggerCallback
  <2>. QED
    BY <1>2, <2>1, DiedOK
<1>. QED
  BY <1>1, <1>2

\* An event joins the cache.
LEMMA WriteEventOK ==
  ASSUME NEW i, NEW c, ClientOK(i, c), sNow \in Nat, NEW n \in Nat, NEW r, r = writeEvent(c, n)
  PROVE  /\ ClientOK(i, r) /\ r.startTime = c.startTime /\ r.lastWrite = c.lastWrite
         /\ r.prevPull = c.prevPull /\ r.log.ended = c.log.ended /\ r.alive = c.alive
         /\ r.log.since = (IF c.cache = << >> THEN sNow ELSE c.log.since)
<1>. DEFINE cache == Append(c.cache, n)
            since == IF c.cache = << >> THEN sNow ELSE c.log.since
            log == Log(since, Append(c.log.owed, n), c.log.astray, c.log.ended)
<1>1. r = Client(c.alive, c.startTime, c.lastWrite, c.prevPull, cache, log)
  BY DEF writeEvent
<1>2. c \in ShellClients /\ c.log \in Logs
  BY DEF ClientOK, ShellClients
<1>3. since \in Nat /\ cache \in Seq(Nat) /\ log \in Logs
  BY <1>2 DEF ShellClients, Logs, Log
<1>4. c.lastWrite <= since /\ since <= sNow
  BY <1>2 DEF ClientOK, ShellClients
<1>5. log.since = since /\ log.ended = c.log.ended /\ log.astray = c.log.astray
      /\ log.owed = Append(c.log.owed, n)
  BY DEF Log
<1>6. i \notin gone => ~log.astray /\ log.owed = cache
  BY <1>5 DEF ClientOK
<1>. HIDE DEF cache, since, log
<1>7. /\ r.alive = c.alive /\ r.startTime = c.startTime /\ r.lastWrite = c.lastWrite
      /\ r.prevPull = c.prevPull /\ r.cache = cache /\ r.log = log /\ r \in ShellClients
  BY <1>1, <1>2, <1>3 DEF Client, ShellClients
<1>8. ClientOK(i, r)
  BY <1>4, <1>5, <1>6, <1>7 DEF ClientOK
<1>. QED
  BY <1>5, <1>7, <1>8 DEF since
-----------------------------------------------------------------------------
\* What a call does to a client that is there.
Treated(i, c, r) ==
  /\ ClientOK(i, r) /\ r.startTime = c.startTime /\ c.lastWrite <= r.lastWrite
  /\ r.prevPull \in {c.prevPull, sNow} /\ r.log.ended = c.log.ended
  /\ (~r.alive => ~c.alive \/ i \in gone \/ IsPipe(i))
  /\ (r.cache # << >> => r.log.since = sNow \/ (c.cache # << >> /\ r.log.since = c.log.since))
  /\ (r.alive => Len(r.cache) < kMaxCacheSize) /\ (IsPipe(i) => r.cache = << >>)


\* A flush of data that came for a client.
LEMMA FlushTreats ==
  ASSUME NEW i \in SubIds, NEW c, ClientOK(i, c), sNow \in Nat, NEW ok,
         NEW r, r = flushProtoIfNeeded(i, c, ok)
  PROVE  /\ Treated(i, c, r) /\ r.prevPull = c.prevPull
         /\ r.cache # << >> => r.log.since = c.log.since
<1>1. kMaxCacheSize \in Nat /\ kMaxCacheSize > 0 /\ c \in ShellClients
  BY ShellConstants DEF ClientOK
<1>2. c.lastWrite \in Nat /\ c.lastWrite <= sNow /\ c.cache \in Seq(Nat)
  BY <1>1 DEF ClientOK, ShellClients
<1>3. CASE IsPipe(i)
  <2>1. r = triggerFdFlush(i, c)
    BY <1>3 DEF flushProtoIfNeeded
  <2>. QED
    BY <1>1, <1>2, <1>3, <2>1, FdFlushOK DEF Treated
<1>4. CASE ~IsPipe(i) /\ Len(c.cache) >= kMaxCacheSize
  <2>1. r = triggerCallback(i, c, "STATSD_INITIATED", ok)
    BY <1>4 DEF flushProtoIfNeeded
  <2>2. PICK reason : reason = "STATSD_INITIATED"
    OBVIOUS
  <2>3. /\ ClientOK(i, r) /\ r.startTime = c.startTime /\ r.prevPull = c.prevPull
        /\ i \in gone => /\ r.cache = c.cache /\ r.lastWrite = c.lastWrite /\ r.log = c.log
                         /\ ~r.alive
        /\ i \notin gone => /\ r.cache = << >> /\ r.lastWrite = sNow /\ r.alive = c.alive
                            /\ r.log.ended = c.log.ended
    BY <2>1, <2>2, CallbackOK
  <2>4. << >> # c.cache
    BY <1>1, <1>2, <1>4
  <2>. QED
    BY <1>1, <1>2, <1>4, <2>3, <2>4 DEF Treated
<1>5. CASE ~IsPipe(i) /\ ~(Len(c.cache) >= kMaxCacheSize)
  <2>1. r = c
    BY <1>5 DEF flushProtoIfNeeded
  <2>. QED
    BY <1>1, <1>2, <1>5, <2>1 DEF Treated
<1>. QED
  BY <1>3, <1>4, <1>5

\* An event for a client is cached and, if needed, sent.
LEMMA WriteTreats ==
  ASSUME NEW i \in SubIds, NEW c, ClientOK(i, c), sNow \in Nat, NEW ok, NEW n \in Nat,
         NEW r, r = flushProtoIfNeeded(i, writeEvent(c, n), ok)
  PROVE  Treated(i, c, r) /\ r.prevPull = c.prevPull
<1>. DEFINE w == writeEvent(c, n)
<1>1. /\ ClientOK(i, w) /\ w.startTime = c.startTime /\ w.lastWrite = c.lastWrite
      /\ w.prevPull = c.prevPull /\ w.log.ended = c.log.ended /\ w.alive = c.alive
      /\ w.log.since = (IF c.cache = << >> THEN sNow ELSE c.log.since)
  BY WriteEventOK
<1>. HIDE DEF w
<1>2. /\ Treated(i, w, r) /\ r.prevPull = w.prevPull
      /\ r.cache # << >> => r.log.since = w.log.since
  BY <1>1, FlushTreats DEF w
<1>. QED
  BY <1>1, <1>2 DEF Treated

\* A call that leaves the client as it is.
LEMMA IdleTreats ==
  ASSUME NEW i \in SubIds, NEW c, ClientOK(i, c), Rests(i, c)
  PROVE  Treated(i, c, c)
BY DEF Treated, Rests, ClientOK, ShellClients

\* An event that the client may match.
LEMMA EventTreats ==
  ASSUME NEW i \in SubIds, NEW c, ClientOK(i, c), Rests(i, c), sNow \in Nat, NEW ok, NEW n \in Nat,
         NEW atom, NEW r, r = onLogEventOf(i, c, n, atom, ok)
  PROVE  Treated(i, c, r) /\ r.prevPull = c.prevPull
<1>1. CASE atom \in Subscriptions[i].atoms
  <2>1. r = flushProtoIfNeeded(i, writeEvent(c, n), ok)
    BY <1>1 DEF onLogEventOf
  <2>. QED
    BY <2>1, WriteTreats
<1>2. CASE atom \notin Subscriptions[i].atoms
  <2>1. r = c
    BY <1>2 DEF onLogEventOf
  <2>. QED
    BY <2>1, IdleTreats
<1>. QED
  BY <1>1, <1>2

\* A pull, if it is due: the next one is not due yet.
LEMMA PullTreats ==
  ASSUME NEW i \in SubIds, NEW c, ClientOK(i, c), Rests(i, c), sNow \in Nat, NEW ok, NEW n \in Nat,
         NEW data, NEW r, r = pullIfNeeded(i, c, n, data, ok)
  PROVE  /\ Treated(i, c, r)
         /\ Subscriptions[i].pulls =>
              /\ r.prevPull # Never /\ sNow <= r.prevPull + IntervalOf(i)
              /\ ~IsPipe(i) => sNow < r.prevPull + IntervalOf(i)
<1>1. IntervalOf(i) \in Nat /\ (~IsPipe(i) => IntervalOf(i) > 0) /\ c.prevPull \in Int
  BY IntervalIsNumber DEF ClientOK, ShellClients
<1>2. CASE ~PullDue(i, c)
  <2>1. r = c
    BY <1>2 DEF pullIfNeeded
  <2>2. Treated(i, c, r)
    BY <2>1, IdleTreats
  <2>. QED
    BY <1>1, <1>2, <2>1, <2>2 DEF PullDue
<1>3. CASE PullDue(i, c)
  <2>. DEFINE p == IF data THEN flushProtoIfNeeded(i, writeEvent(c, n), ok) ELSE c
  <2>1. r = Client(p.alive, p.startTime, p.lastWrite, sNow, p.cache, p.log)
    BY <1>3 DEF pullIfNeeded, PulledNow
  <2>2. Treated(i, c, p)
    <3>1. CASE data
      BY <3>1, WriteTreats
    <3>2. CASE ~data
      BY <3>2, IdleTreats
    <3>. QED
      BY <3>1, <3>2
  <2>. HIDE DEF p
  <2>3. /\ r.alive = p.alive /\ r.startTime = p.startTime /\ r.lastWrite = p.lastWrite
        /\ r.prevPull = sNow /\ r.cache = p.cache /\ r.log = p.log
    BY <2>1 DEF Client
  <2>4. ClientOK(i, p) /\ p \in ShellClients
    BY <2>2 DEF Treated, ClientOK
  <2>5. r \in ShellClients
    BY <2>1, <2>4 DEF Client, ShellClients
  <2>6. ClientOK(i, r)
    BY <2>3, <2>4, <2>5 DEF ClientOK
  <2>7. Treated(i, c, r)
    BY <2>2, <2>3, <2>6 DEF Treated
  <2>. QED
    BY <1>1, <2>3, <2>7 DEF Never
<1>. QED
  BY <1>2, <1>3

\* A turn of the thread: the client has had what was due, and has time left.
LEMMA BeatenTreats ==
  ASSUME NEW i \in SubIds, NEW c, ClientOK(i, c), Rests(i, c), sNow \in Nat, NEW ok, NEW n \in Nat,
         NEW data, NEW r, r = Beaten(i, c, n, data, ok)
  PROVE  /\ Treated(i, c, r) /\ (r.alive => ~TimedOut(i, r))
         /\ ~TimedOut(i, r) =>
              /\ IsPipe(i) => (r.alive => sNow < r.lastWrite + kBetweenHeartbeats)
              /\ ~IsPipe(i) /\ r.alive /\ r.cache # << >> => sNow < r.lastWrite + kBetweenCallbacks
              /\ Subscriptions[i].pulls =>
                   /\ r.prevPull # Never /\ sNow <= r.prevPull + IntervalOf(i)
                   /\ ~IsPipe(i) => sNow < r.prevPull + IntervalOf(i)
<1>. DEFINE p == pullIfNeeded(i, c, n, data, ok)
<1>1. /\ Treated(i, c, p)
      /\ Subscriptions[i].pulls =>
           /\ p.prevPull # Never /\ sNow <= p.prevPull + IntervalOf(i)
           /\ ~IsPipe(i) => sNow < p.prevPull + IntervalOf(i)
  BY PullTreats
<1>2. kBetweenHeartbeats \in Nat /\ kBetweenHeartbeats > 0 /\ kBetweenCallbacks \in Nat
      /\ kBetweenCallbacks > 0
  BY ShellConstants
<1>3. CASE TimedOut(i, c)
  <2>1. r = Died(c) /\ IsPipe(i)
    BY <1>3 DEF Beaten, TimedOut
  <2>2. /\ ClientOK(i, r) /\ r.cache = c.cache /\ r.startTime = c.startTime
        /\ r.lastWrite = c.lastWrite /\ r.prevPull = c.prevPull /\ r.log = c.log /\ ~r.alive
    BY <2>1, DiedOK
  <2>3. Treated(i, c, r)
    BY <2>1, <2>2 DEF Treated, Rests, ClientOK, ShellClients
  <2>4. TimedOut(i, r)
    BY <1>3, <2>2 DEF TimedOut
  <2>. QED
    BY <2>2, <2>3, <2>4
<1>4. CASE ~TimedOut(i, c) /\ IsPipe(i)
  <2>1. r = IF sNow - p.lastWrite >= kBetweenHeartbeats THEN triggerFdFlush(i, p) ELSE p
    BY <1>4 DEF Beaten
  <2>. HIDE DEF p
  <2>2. ClientOK(i, p) /\ p.lastWrite \in Nat /\ c.lastWrite \in Nat /\ p.lastWrite <= sNow
    BY <1>1 DEF Treated, ClientOK, ShellClients
  <2>3. CASE sNow - p.lastWrite >= kBetweenHeartbeats
    <3>1. r = triggerFdFlush(i, p)
      BY <2>1, <2>3
    <3>2. /\ ClientOK(i, r) /\ r.cache = << >> /\ r.startTime = p.startTime
          /\ r.lastWrite = (IF i \in gone THEN p.lastWrite ELSE sNow)
          /\ r.prevPull = p.prevPull /\ r.log.ended = p.log.ended
          /\ (r.alive <=> p.alive /\ i \notin gone)
      BY <2>2, <3>1, FdFlushOK
    <3>3. kMaxCacheSize \in Nat /\ kMaxCacheSize > 0
      BY ShellConstants
    <3>4. Treated(i, c, r)
      BY <1>1, <1>4, <2>2, <3>2, <3>3 DEF Treated
    <3>5. ~TimedOut(i, r)
      BY <1>1, <1>4, <3>2 DEF TimedOut, Treated
    <3>. QED
      BY <1>1, <1>2, <1>4, <2>2, <3>2, <3>4, <3>5
  <2>4. CASE ~(sNow - p.lastWrite >= kBetweenHeartbeats)
    <3>1. r = p
      BY <2>1, <2>4
    <3>2. ~TimedOut(i, r)
      BY <1>1, <1>4, <3>1 DEF TimedOut, Treated
    <3>. QED
      BY <1>1, <1>2, <1>4, <2>2, <2>4, <3>1, <3>2
  <2>. QED
    BY <2>3, <2>4
<1>5. CASE ~TimedOut(i, c) /\ ~IsPipe(i)
  <2>1. r = IF p.cache # << >> /\ sNow - p.lastWrite >= kBetweenCallbacks
              THEN triggerCallback(i, p, "STATSD_INITIATED", ok) ELSE p
    BY <1>5 DEF Beaten
  <2>. HIDE DEF p
  <2>2. ClientOK(i, p) /\ p.lastWrite \in Nat /\ c.lastWrite \in Nat /\ p.lastWrite <= sNow
    BY <1>1 DEF Treated, ClientOK, ShellClients
  <2>3. ~TimedOut(i, r)
    BY <1>5 DEF TimedOut
  <2>4. CASE p.cache # << >> /\ sNow - p.lastWrite >= kBetweenCallbacks
    <3>1. PICK reason : reason = "STATSD_INITIATED"
      OBVIOUS
    <3>2. r = triggerCallback(i, p, reason, ok)
      BY <2>1, <2>4, <3>1
    <3>3. /\ ClientOK(i, r) /\ r.startTime = p.startTime /\ r.prevPull = p.prevPull
          /\ i \in gone => /\ r.cache = p.cache /\ r.lastWrite = p.lastWrite /\ r.log = p.log
                           /\ ~r.alive
          /\ i \notin gone => /\ r.cache = << >> /\ r.lastWrite = sNow /\ r.alive = p.alive
                              /\ r.log.ended = p.log.ended
      BY <2>2, <3>1, <3>2, CallbackOK
    <3>4. kMaxCacheSize \in Nat /\ kMaxCacheSize > 0
      BY ShellConstants
    <3>5. Treated(i, c, r)
      BY <1>1, <1>5, <2>2, <3>3, <3>4 DEF Treated
    <3>6. r.alive => r.cache = << >>
      BY <3>3
    <3>. QED
      BY <1>1, <1>5, <2>3, <3>3, <3>5, <3>6
  <2>5. CASE ~(p.cache # << >> /\ sNow - p.lastWrite >= kBetweenCallbacks)
    <3>1. r = p
      BY <2>1, <2>5
    <3>. QED
      BY <1>1, <1>2, <1>5, <2>2, <2>3, <2>5, <3>1
  <2>. QED
    BY <2>4, <2>5
<1>. QED
  BY <1>3, <1>4, <1>5

\* How long the thread sleeps for a client after its turn, and that is soon enough.
LEMMA SleepIsShort ==
  ASSUME NEW i \in SubIds, NEW r, ClientOK(i, r), sNow \in Nat, (r.alive => ~TimedOut(i, r)),
         IsPipe(i) => r.cache = << >>,
         ~TimedOut(i, r) =>
           /\ IsPipe(i) => (r.alive => sNow < r.lastWrite + kBetweenHeartbeats)
           /\ ~IsPipe(i) /\ r.alive /\ r.cache # << >> => sNow < r.lastWrite + kBetweenCallbacks
           /\ Subscriptions[i].pulls =>
                /\ r.prevPull # Never /\ sNow <= r.prevPull + IntervalOf(i)
                /\ ~IsPipe(i) => sNow < r.prevPull + IntervalOf(i)
  PROVE  /\ SleepTime(i, r) \in Nat
         /\ \A sleep \in Nat : sleep <= SleepTime(i, r) /\ r.alive => InTime(i, r, sNow + sleep)
<1>1. /\ kBetweenHeartbeats \in Nat /\ kBetweenHeartbeats > 0 /\ kBetweenCallbacks \in Nat
      /\ kBetweenCallbacks > 0 /\ kMinCallbackSleep \in Nat /\ kMinCallbackSleep > 0
  BY ShellConstants
<1>2. /\ r.lastWrite \in Nat /\ r.startTime \in Nat /\ r.prevPull \in Int /\ r.log.since \in Nat
      /\ r.cache # << >> => r.lastWrite <= r.log.since
  BY DEF ClientOK, ShellClients, Logs
<1>3. IntervalOf(i) \in Nat /\ Subscriptions[i].timeout \in Int
  BY IntervalIsNumber, SubAssumption DEF SubIds
<1>4. FarAway \in Nat
  BY DEF FarAway
<1>. DEFINE pull == TimeBeforePull(i, r)
<1>5. /\ pull \in Int
      /\ Subscriptions[i].pulls => pull = r.prevPull + IntervalOf(i) - sNow
      /\ ~Subscriptions[i].pulls => pull = FarAway
  BY <1>2, <1>3, <1>4 DEF TimeBeforePull
<1>. HIDE DEF pull
<1>6. CASE IsPipe(i) /\ (TimedOut(i, r) \/ (~r.alive /\ sNow - r.lastWrite >= kBetweenHeartbeats))
  <2>1. SleepTime(i, r) = kBetweenHeartbeats /\ ~r.alive
    BY <1>6 DEF SleepTime
  <2>. QED
    BY <1>1, <2>1
<1>7. CASE IsPipe(i) /\ ~(TimedOut(i, r) \/ (~r.alive /\ sNow - r.lastWrite >= kBetweenHeartbeats))
  <2>. DEFINE left == r.lastWrite + kBetweenHeartbeats - sNow
  <2>1. SleepTime(i, r) = Min({kBetweenHeartbeats, pull, left})
    BY <1>7 DEF SleepTime, pull
  <2>2. left \in Int /\ left > 0
    BY <1>1, <1>2, <1>7
  <2>3. pull >= 0
    BY <1>2, <1>3, <1>4, <1>5, <1>7
  <2>. HIDE DEF left
  <2>4. /\ SleepTime(i, r) \in Nat /\ SleepTime(i, r) <= kBetweenHeartbeats
        /\ SleepTime(i, r) <= pull /\ SleepTime(i, r) <= left
    <3>1. kBetweenHeartbeats \in Int /\ pull \in Int /\ left \in Int
      BY <1>1, <1>5, <2>2
    <3>. DEFINE least == Min({kBetweenHeartbeats, pull, left})
    <3>2. /\ least \in {kBetweenHeartbeats, pull, left} /\ least \in Int
          /\ least <= kBetweenHeartbeats /\ least <= pull /\ least <= left
      BY <3>1, MinOfThree, Zenon
    <3>. HIDE DEF least
    <3>3. SleepTime(i, r) = least
      BY <2>1 DEF least
    <3>. QED
      BY <1>1, <2>2, <2>3, <3>1, <3>2, <3>3
  <2>5. ASSUME NEW sleep \in Nat, sleep <= SleepTime(i, r), r.alive
        PROVE  InTime(i, r, sNow + sleep)
    <3>1. sNow + sleep <= r.lastWrite + kBetweenHeartbeats
      BY <1>1, <1>2, <2>4, <2>5 DEF left
    <3>2. Subscriptions[i].timeout > 0 =>
            sNow + sleep < r.startTime + Subscriptions[i].timeout + kBetweenHeartbeats
      <4>1. Subscriptions[i].timeout > 0 => ~(sNow - r.startTime >= Subscriptions[i].timeout)
        BY <1>7 DEF TimedOut
      <4>2. sleep <= kBetweenHeartbeats
        BY <1>1, <2>4, <2>5
      <4>. QED
        BY <1>1, <1>2, <1>3, <4>1, <4>2
    <3>3. Subscriptions[i].pulls =>
            r.prevPull # Never /\ sNow + sleep < r.prevPull + IntervalOf(i) + kMinCallbackSleep
      BY <1>1, <1>2, <1>3, <1>5, <1>7, <2>4, <2>5
    <3>. QED
      BY <1>7, <3>1, <3>2, <3>3 DEF InTime
  <2>. QED
    BY <2>4, <2>5
<1>8. CASE ~IsPipe(i)
  <2>. DEFINE left == r.lastWrite + kBetweenCallbacks - sNow
              least == Min({kBetweenCallbacks, pull, left})
  <2>1. SleepTime(i, r) = Max({kMinCallbackSleep, least})
    BY <1>8 DEF SleepTime, pull
  <2>2. left \in Int
    BY <1>1, <1>2
  <2>. HIDE DEF left
  <2>3. least \in Int /\ least <= pull /\ least <= left
    <3>1. kBetweenCallbacks \in Int /\ pull \in Int /\ left \in Int
      BY <1>1, <1>5, <2>2
    <3>. QED
      BY <3>1, MinOfThree, Zenon
  <2>. HIDE DEF least
  <2>4. SleepTime(i, r) = IF kMinCallbackSleep >= least THEN kMinCallbackSleep ELSE least
    BY <1>1, <2>1, <2>3, MaxOfTwo
  <2>5. SleepTime(i, r) \in Nat
    BY <1>1, <2>3, <2>4
  <2>6. ~TimedOut(i, r)
    BY <1>8 DEF TimedOut
  <2>7. ASSUME NEW sleep \in Nat, sleep <= SleepTime(i, r), r.alive
        PROVE  InTime(i, r, sNow + sleep)
    <3>1. sleep <= kMinCallbackSleep \/ (sleep <= pull /\ sleep <= left)
      BY <1>1, <1>5, <2>2, <2>3, <2>4, <2>7
    <3>2. \/ sNow + sleep <= r.lastWrite + kBetweenCallbacks
          \/ sNow + sleep <= sNow + kMinCallbackSleep
      BY <1>1, <1>2, <3>1 DEF left
    <3>3. r.cache # << >> => sNow + sleep < r.log.since + kBetweenCallbacks + kMinCallbackSleep
      <4>1. r.cache # << >> => sNow < r.lastWrite + kBetweenCallbacks /\ r.lastWrite <= r.log.since
        BY <1>2, <1>8, <2>6, <2>7
      <4>2. r.lastWrite \in Nat /\ r.log.since \in Nat
        BY <1>2
      <4>. QED
        BY <1>1, <3>2, <4>1, <4>2
    <3>4. Subscriptions[i].pulls =>
            r.prevPull # Never /\ sNow + sleep < r.prevPull + IntervalOf(i) + kMinCallbackSleep
      BY <1>1, <1>2, <1>3, <1>5, <1>8, <2>6, <3>1
    <3>. QED
      BY <1>8, <3>2, <3>3, <3>4 DEF InTime
  <2>. QED
    BY <2>5, <2>7
<1>. QED
  BY <1>6, <1>7, <1>8

\* What was soon enough for a client before a call is so after it.
LEMMA TreatedInTime ==
  ASSUME NEW i \in SubIds, NEW c, ClientOK(i, c), NEW r, Treated(i, c, r), sNow \in Nat,
         NEW until \in Nat, InTime(i, c, until)
  PROVE  InTime(i, r, until)
<1>1. /\ kBetweenHeartbeats \in Nat /\ kBetweenHeartbeats > 0 /\ kBetweenCallbacks \in Nat
      /\ kBetweenCallbacks > 0 /\ kMinCallbackSleep \in Nat /\ kMinCallbackSleep > 0
      /\ IntervalOf(i) \in Nat
  BY ShellConstants, IntervalIsNumber
<1>2. /\ c.lastWrite \in Nat /\ c.prevPull \in Int /\ c.log.since \in Nat /\ c.lastWrite <= sNow
      /\ r.lastWrite \in Nat /\ r.prevPull \in Int /\ r.log.since \in Nat /\ c.prevPull <= sNow
  BY DEF Treated, ClientOK, ShellClients, Logs
<1>3. /\ r.startTime = c.startTime /\ c.lastWrite <= r.lastWrite /\ r.prevPull \in {c.prevPull, sNow}
      /\ r.cache # << >> => r.log.since = sNow \/ (c.cache # << >> /\ r.log.since = c.log.since)
      /\ IsPipe(i) => r.cache = << >>
  BY DEF Treated
<1>4. IF IsPipe(i) THEN until <= r.lastWrite + kBetweenHeartbeats
      ELSE until <= r.lastWrite + kBetweenCallbacks \/ until <= sNow + kMinCallbackSleep
  BY <1>1, <1>2, <1>3 DEF InTime
<1>5. r.cache # << >> => until < r.log.since + kBetweenCallbacks + kMinCallbackSleep
  <2>1. CASE r.cache # << >> /\ r.log.since = sNow
    <3>1. ~IsPipe(i)
      BY <1>3, <2>1
    <3>2. until <= c.lastWrite + kBetweenCallbacks \/ until <= sNow + kMinCallbackSleep
      BY <3>1 DEF InTime
    <3>. QED
      BY <1>1, <1>2, <2>1, <3>2
  <2>2. CASE c.cache # << >> /\ r.log.since = c.log.since
    BY <2>2 DEF InTime
  <2>. QED
    BY <1>3, <2>1, <2>2
<1>6. Subscriptions[i].pulls =>
        r.prevPull # Never /\ until < r.prevPull + IntervalOf(i) + kMinCallbackSleep
  <2>. SUFFICES ASSUME Subscriptions[i].pulls
                PROVE  r.prevPull # Never /\ until < r.prevPull + IntervalOf(i) + kMinCallbackSleep
    OBVIOUS
  <2>1. c.prevPull # Never /\ until < c.prevPull + IntervalOf(i) + kMinCallbackSleep
    BY DEF InTime
  <2>2. CASE r.prevPull = c.prevPull
    BY <2>1, <2>2
  <2>3. CASE r.prevPull = sNow
    BY <1>1, <1>2, <2>1, <2>3 DEF Never
  <2>. QED
    BY <1>3, <2>2, <2>3
<1>7. IsPipe(i) /\ Subscriptions[i].timeout > 0 =>
        until < r.startTime + Subscriptions[i].timeout + kBetweenHeartbeats
  BY <1>3 DEF InTime
<1>. QED
  BY <1>4, <1>5, <1>6, <1>7 DEF InTime

\* A client that leaves: one that is alive is told of it.
LEMMA UnsubscribedOK ==
  ASSUME NEW i \in SubIds, NEW c, ClientOK(i, c), c.log.ended = 0, sNow \in Nat, NEW ok,
         ~c.alive => i \in gone \/ (IsPipe(i) /\ c.cache = << >>),
         NEW r, r = Unsubscribed(i, c, ok)
  PROVE  ClientOK(i, r) /\ Rests(i, r) /\ Absent(i, r)
<1>. DEFINE d == IF c.alive THEN triggerCallback(i, c, "SUBSCRIPTION_ENDED", ok) ELSE c
<1>1. /\ ClientOK(i, d) /\ (i \notin gone => d.cache = << >>)
      /\ d.log.ended = IF c.alive /\ i \notin gone THEN 1 ELSE 0
  <2>1. CASE c.alive
    <3>1. PICK reason : reason = "SUBSCRIPTION_ENDED"
      OBVIOUS
    <3>2. d = triggerCallback(i, c, reason, ok)
      BY <2>1, <3>1
    <3>. HIDE DEF d
    <3>3. /\ ClientOK(i, d)
          /\ i \in gone => d.log = c.log
          /\ i \notin gone => d.cache = << >> /\ d.log.ended = c.log.ended + 1
      BY <3>1, <3>2, CallbackOK
    <3>. QED
      BY <2>1, <3>3
  <2>2. CASE ~c.alive
    BY <2>2
  <2>. QED
    BY <2>1, <2>2
<1>. DEFINE log == Log(0, d.log.owed, d.log.astray, d.log.ended)
<1>2. r = Client(FALSE, 0, 0, Never, << >>, log)
  BY DEF Unsubscribed, clearCache, Client
<1>. HIDE DEF d
<1>3. d \in ShellClients /\ d.log \in Logs
  BY <1>1 DEF ClientOK, ShellClients
<1>4. /\ log \in Logs /\ log.owed = d.log.owed /\ log.astray = d.log.astray
      /\ log.ended = d.log.ended
  BY <1>3 DEF Log, Logs
<1>. HIDE DEF log
<1>5. /\ r \in ShellClients /\ r.alive = FALSE /\ r.startTime = 0 /\ r.lastWrite = 0
      /\ r.prevPull = Never /\ r.cache = << >> /\ r.log = log
  BY <1>2, <1>4 DEF Client, ShellClients, Never
<1>6. i \notin gone => ~log.astray /\ log.owed = << >>
  BY <1>1, <1>4 DEF ClientOK
<1>7. ClientOK(i, r)
  BY <1>5, <1>6 DEF ClientOK, Never
<1>8. Rests(i, r)
  BY <1>5, ShellConstants DEF Rests
<1>9. Absent(i, r)
  BY <1>1, <1>4, <1>5 DEF Absent
<1>. QED
  BY <1>7, <1>8, <1>9

\* What a call that treats all clients leaves of them.
LEMMA KeptOK ==
  ASSUME SetsInv, ClientsInv, NEW t, NEW fails,
         \A i \in mClientSet : Treated(i, clients[i], t[i]),
         clients' = Kept(t, fails), mClientSet' = StillThere(t), UNCHANGED <<sNow, gone, started>>
  PROVE  /\ ClientsInv' /\ mClientSet' \subseteq mClientSet
         /\ \A i \in mClientSet' : clients'[i] = t[i]
<1>1. mClientSet \subseteq SubIds /\ sNow \in Nat
  BY ShellConstants DEF SetsInv
<1>2. mClientSet' = {i \in mClientSet : t[i].alive}
  BY DEF StillThere
<1>3. \A i \in SubIds :
        clients'[i] = IF i \in mClientSet THEN KeptIfAlive(i, t[i], i \notin fails) ELSE clients[i]
  BY DEF Kept
<1>4. DOMAIN clients' = SubIds /\ clients' = [i \in SubIds |-> clients'[i]]
  BY DEF Kept
<1>5. ASSUME NEW i \in mClientSet'
      PROVE  /\ clients'[i] = t[i] /\ ClientOK(i, clients'[i]) /\ Rests(i, clients'[i])
             /\ Present(i, clients'[i])
  <2>1. i \in mClientSet /\ i \in SubIds /\ t[i].alive /\ Treated(i, clients[i], t[i])
    BY <1>1, <1>2
  <2>2. clients'[i] = t[i]
    BY <1>3, <2>1 DEF KeptIfAlive
  <2>3. Present(i, clients[i])
    BY <2>1 DEF ClientsInv
  <2>. QED
    BY <2>1, <2>2, <2>3 DEF Treated, Rests, Present
<1>6. ASSUME NEW i \in mClientSet, i \notin mClientSet'
      PROVE  ClientOK(i, clients'[i]) /\ Rests(i, clients'[i]) /\ Absent(i, clients'[i])
  <2>. DEFINE c == t[i]
  <2>1. i \in SubIds /\ ~c.alive /\ Treated(i, clients[i], c) /\ Present(i, clients[i])
    BY <1>1, <1>2, <1>6 DEF ClientsInv
  <2>2. PICK ok : ok = (i \notin fails)
    OBVIOUS
  <2>3. clients'[i] = Unsubscribed(i, c, ok)
    BY <1>3, <2>1, <2>2 DEF KeptIfAlive
  <2>. HIDE DEF c
  <2>4. ClientOK(i, c) /\ c.log.ended = 0 /\ (i \in gone \/ (IsPipe(i) /\ c.cache = << >>))
    BY <2>1 DEF Treated, Present
  <2>. QED
    BY <1>1, <2>1, <2>3, <2>4, UnsubscribedOK
<1>7. ASSUME NEW i \in SubIds, i \notin mClientSet
      PROVE  ClientOK(i, clients'[i]) /\ Rests(i, clients'[i]) /\ Absent(i, clients'[i])
  BY <1>3, <1>7 DEF ClientsInv
<1>8. \A i \in SubIds : ClientOK(i, clients'[i]) /\ Rests(i, clients'[i])
  BY <1>1, <1>5, <1>6, <1>7
<1>9. clients' \in [SubIds -> ShellClients]
  BY <1>4, <1>8 DEF ClientOK
<1>10. \A i \in SubIds : (ClientOK(i, clients[i]) /\ Rests(i, clients[i]))'
  BY <1>8 DEF ClientOK, Rests
<1>11. \A i \in mClientSet' : Present(i, clients[i])'
  BY <1>5 DEF Present
<1>12. \A i \in SubIds \ mClientSet' : Absent(i, clients[i])'
  BY <1>1, <1>6, <1>7 DEF Absent
<1>13. ClientsInv'
  BY <1>9, <1>10, <1>11, <1>12 DEF ClientsInv
<1>. QED
  BY <1>2, <1>5, <1>13

\* The sets when clients have left.
LEMMA LeaversOK ==
  ASSUME SetsInv, mClientSet' \subseteq mClientSet, UNCHANGED <<sNow, gone, started>>,
         inUse' = AtomsAfter(mClientSet, mClientSet'), events' \in 0 .. SubMaxEvents
  PROVE  SetsInv'
<1>1. IsFiniteSet(mClientSet) /\ Cardinality(mClientSet) <= kMaxSubscriptions
  BY DEF SetsInv
<1>2. /\ IsFiniteSet(mClientSet') /\ Cardinality(mClientSet') <= Cardinality(mClientSet)
      /\ Cardinality(mClientSet') \in Nat /\ Cardinality(mClientSet) \in Nat
  BY <1>1, FS_Subset, FS_CardinalityType
<1>3. inUse' = AtomsOf(mClientSet')
  BY DEF AtomsAfter, SetsInv
<1>. QED
  BY <1>1, <1>2, <1>3, ShellConstants DEF SetsInv, AtomsOf

-----------------------------------------------------------------------------
\* Nothing was started yet.
LEMMA ShellStarts == SubInit => SubInv
<1>. SUFFICES ASSUME SubInit PROVE SubInv
  OBVIOUS
<1>1. SetsInv
  <2>1. IsFiniteSet({}) /\ Cardinality({}) = 0
    BY FS_EmptySet
  <2>. QED
    BY <2>1, ShellConstants DEF SubInit, SetsInv, AtomsOf
<1>2. ClientsInv
  <2>. DEFINE c == NewClient(0)
  <2>1. << >> \in Seq(Nat)
    OBVIOUS
  <2>2. /\ c \in ShellClients /\ c.startTime = 0 /\ c.lastWrite = 0 /\ c.prevPull = -1
        /\ c.cache = << >> /\ c.log.owed = << >> /\ ~c.log.astray /\ c.log.ended = 0
    BY <2>1 DEF NewClient, Client, Log, ShellClients, Logs, Never
  <2>3. /\ clients = [i \in SubIds |-> c] /\ sNow = 0 /\ mClientSet = {} /\ started = {}
    BY DEF SubInit
  <2>. HIDE DEF c
  <2>4. \A i \in SubIds : ClientOK(i, c) /\ Rests(i, c) /\ Absent(i, c)
    BY <2>2, <2>3, ShellConstants DEF ClientOK, Rests, Absent
  <2>. QED
    BY <2>2, <2>3, <2>4 DEF ClientsInv
<1>3. HelperInv
  BY DEF SubInit, HelperInv, Helper
<1>. QED
  BY <1>1, <1>2, <1>3 DEF SubInv

\* Time passes while the thread sleeps.
LEMMA TickStep == SubInv /\ SubTick => SubInv'
<1>. SUFFICES ASSUME SubInv, SubTick PROVE SubInv'
  OBVIOUS
<1>1. sNow \in Nat /\ sNow' = sNow + 1 /\ sNow' \in 0 .. SubMaxTime
  BY ShellConstants DEF SubInv, SetsInv, SubTick
<1>2. UNCHANGED <<mClientSet, clients, helper, inUse, gone, started, events>>
  BY DEF SubTick
<1>3. SetsInv'
  BY <1>1, <1>2 DEF SubInv, SetsInv
<1>4. ClientsInv'
  <2>1. ASSUME NEW i \in SubIds, ClientOK(i, clients[i])
        PROVE  ClientOK(i, clients[i])'
    BY <1>1, <1>2, <2>1 DEF ClientOK, ShellClients, Logs
  <2>2. ASSUME NEW i \in SubIds
        PROVE  (Rests(i, clients[i])' <=> Rests(i, clients[i]))
               /\ (Present(i, clients[i])' <=> Present(i, clients[i]))
               /\ (Absent(i, clients[i])' <=> Absent(i, clients[i]))
    BY <1>2 DEF Rests, Present, Absent
  <2>3. mClientSet \subseteq SubIds
    BY DEF SubInv, SetsInv
  <2>. QED
    BY <1>2, <2>1, <2>2, <2>3 DEF ClientsInv, SubInv
<1>5. HelperInv'
  <2>1. ASSUME NEW i \in mClientSet, InTime(i, clients[i], helper.until)
        PROVE  InTime(i, clients[i], helper.until)'
    <3>1. kMinCallbackSleep \in Nat /\ helper.until \in Nat
      BY ShellConstants DEF SubInv, HelperInv
    <3>2. IF IsPipe(i) THEN helper.until <= clients[i].lastWrite + kBetweenHeartbeats
          ELSE \/ helper.until <= clients[i].lastWrite + kBetweenCallbacks
               \/ helper.until <= sNow' + kMinCallbackSleep
      BY <1>1, <2>1, <3>1 DEF InTime
    <3>. QED
      BY <1>2, <2>1, <3>2 DEF InTime
  <2>. QED
    BY <1>2, <2>1 DEF SubInv, HelperInv
<1>. QED
  BY <1>3, <1>4, <1>5 DEF SubInv

\* A round of the thread.
LEMMA RoundStep == SubInv /\ pullAndSendHeartbeats => SubInv'
<1>. SUFFICES ASSUME SubInv, pullAndSendHeartbeats PROVE SubInv'
  OBVIOUS
<1>1. PICK data \in SUBSET {i \in mClientSet : PullDue(i, clients[i])} :
      \E fails \in SUBSET {i \in mClientSet : ~IsPipe(i) /\ (clients[i].cache # << >> \/ i \in data)} :
        /\ data # {} => events < SubMaxEvents
        /\ events' = IF data = {} THEN events ELSE events + 1
        /\ clients' = Kept(Round(data, fails), fails) /\ mClientSet' = StillThere(Round(data, fails))
        /\ helper' = IF mClientSet' = {} THEN Helper("off", FALSE, FALSE, helper.until)
                     ELSE Helper("sleeping", TRUE, FALSE, sNow + SleepAfter(Round(data, fails)))
  BY DEF pullAndSendHeartbeats
<1>2. PICK fails \in SUBSET {i \in mClientSet : ~IsPipe(i) /\ (clients[i].cache # << >> \/ i \in data)} :
        /\ data # {} => events < SubMaxEvents
        /\ events' = IF data = {} THEN events ELSE events + 1
        /\ clients' = Kept(Round(data, fails), fails) /\ mClientSet' = StillThere(Round(data, fails))
        /\ helper' = IF mClientSet' = {} THEN Helper("off", FALSE, FALSE, helper.until)
                     ELSE Helper("sleeping", TRUE, FALSE, sNow + SleepAfter(Round(data, fails)))
  BY <1>1
<1>3. inUse' = AtomsAfter(mClientSet, mClientSet') /\ UNCHANGED <<sNow, gone, started>>
  BY DEF pullAndSendHeartbeats
<1>4. /\ SetsInv /\ ClientsInv /\ HelperInv /\ sNow \in Nat /\ events \in Nat /\ mClientSet \subseteq SubIds
      /\ events' \in 0 .. SubMaxEvents
  BY <1>2, ShellConstants DEF SubInv, SetsInv
<1>. DEFINE t == Round(data, fails)
<1>5. ASSUME NEW i \in mClientSet
      PROVE  /\ Treated(i, clients[i], t[i]) /\ SleepTime(i, t[i]) \in Nat
             /\ \A sleep \in Nat :
                  sleep <= SleepTime(i, t[i]) /\ t[i].alive => InTime(i, t[i], sNow + sleep)
  <2>1. PICK ok : ok = (i \notin fails)
    OBVIOUS
  <2>2. PICK pulled : pulled = (i \in data)
    OBVIOUS
  <2>3. PICK n \in Nat : n = events + 1
    BY <1>4
  <2>. DEFINE c == clients[i]
              r == t[i]
  <2>4. r = Beaten(i, c, n, pulled, ok)
    BY <2>1, <2>2, <2>3 DEF Round
  <2>5. ClientOK(i, c) /\ Rests(i, c) /\ i \in SubIds
    BY <1>4 DEF ClientsInv
  <2>. HIDE DEF t, c, r
  <2>6. /\ Treated(i, c, r) /\ (r.alive => ~TimedOut(i, r))
        /\ ~TimedOut(i, r) =>
             /\ IsPipe(i) => (r.alive => sNow < r.lastWrite + kBetweenHeartbeats)
             /\ ~IsPipe(i) /\ r.alive /\ r.cache # << >> => sNow < r.lastWrite + kBetweenCallbacks
             /\ Subscriptions[i].pulls =>
                  /\ r.prevPull # Never /\ sNow <= r.prevPull + IntervalOf(i)
                  /\ ~IsPipe(i) => sNow < r.prevPull + IntervalOf(i)
    BY <1>4, <2>4, <2>5, BeatenTreats
  <2>7. ClientOK(i, r) /\ (IsPipe(i) => r.cache = << >>)
    BY <2>6 DEF Treated
  <2>8. /\ SleepTime(i, r) \in Nat
        /\ \A sleep \in Nat : sleep <= SleepTime(i, r) /\ r.alive => InTime(i, r, sNow + sleep)
    BY <1>4, <2>5, <2>6, <2>7, SleepIsShort
  <2>. QED
    BY <2>6, <2>8 DEF c, r
<1>. HIDE DEF t
<1>6. /\ ClientsInv' /\ mClientSet' \subseteq mClientSet
      /\ \A i \in mClientSet' : clients'[i] = t[i]
  BY <1>2, <1>3, <1>4, <1>5, KeptOK DEF t
<1>7. SetsInv'
  BY <1>3, <1>4, <1>6, LeaversOK
<1>8. HelperInv'
  <2>1. CASE mClientSet' = {}
    <3>1. helper' = Helper("off", FALSE, FALSE, helper.until) /\ helper.until \in Nat
      BY <1>2, <1>4, <2>1 DEF HelperInv
    <3>. QED
      BY <2>1, <3>1 DEF HelperInv, Helper
  <2>2. CASE mClientSet' # {}
    <3>. DEFINE T == {FarAway} \union {SleepTime(i, t[i]) : i \in mClientSet}
                sleep == Min(T)
    <3>1. T \subseteq Nat /\ T # {}
      BY <1>5 DEF FarAway
    <3>2. sleep \in Nat /\ \A i \in mClientSet : sleep <= SleepTime(i, t[i])
      <4>1. \A i \in mClientSet : SleepTime(i, t[i]) \in T
        OBVIOUS
      <4>. HIDE DEF T
      <4>2. sleep \in T /\ \A y \in T : sleep <= y
        BY <3>1, LeastNatural
      <4>. HIDE DEF sleep
      <4>. QED
        BY <3>1, <4>1, <4>2
    <3>3. helper' = Helper("sleeping", TRUE, FALSE, sNow + sleep)
      BY <1>2, <2>2 DEF SleepAfter, t
    <3>. HIDE DEF sleep, T
    <3>4. /\ helper'.pc = "sleeping" /\ helper'.mThreadAlive = TRUE
          /\ helper'.mShouldWakeupThread = FALSE /\ helper'.until = sNow + sleep
          /\ helper' \in [pc : {"off", "run", "sleeping"}, mThreadAlive : BOOLEAN,
                          mShouldWakeupThread : BOOLEAN, until : Nat]
      BY <1>4, <3>2, <3>3 DEF Helper
    <3>5. ASSUME NEW i \in mClientSet'
          PROVE  InTime(i, clients[i], helper.until)'
      <4>1. i \in mClientSet /\ clients'[i] = t[i] /\ t[i].alive
        BY <1>2, <1>6 DEF StillThere, t
      <4>2. InTime(i, t[i], sNow + sleep)
        BY <1>5, <3>2, <4>1
      <4>. QED
        BY <1>3, <3>4, <4>1, <4>2 DEF InTime
    <3>. QED
      BY <3>4, <3>5 DEF HelperInv
  <2>. QED
    BY <2>1, <2>2
<1>. QED
  BY <1>6, <1>7, <1>8 DEF SubInv

\* The thread sleeps on, and that is soon enough for those who stay.
LEMMA SleepsOn ==
  ASSUME SubInv, UNCHANGED <<sNow, helper>>, mClientSet' \subseteq mClientSet,
         \A i \in mClientSet' : Treated(i, clients[i], clients'[i])
  PROVE  HelperInv'
<1>1. HelperInv /\ sNow \in Nat /\ mClientSet \subseteq SubIds /\ helper.until \in Nat
  BY ShellConstants DEF SubInv, SetsInv, HelperInv
<1>2. ASSUME NEW i \in mClientSet', InTime(i, clients[i], helper.until)
      PROVE  InTime(i, clients[i], helper.until)'
  <2>1. i \in SubIds /\ ClientOK(i, clients[i]) /\ Treated(i, clients[i], clients'[i])
    BY <1>1 DEF SubInv, ClientsInv
  <2>2. InTime(i, clients'[i], helper.until)
    BY <1>1, <1>2, <2>1, TreatedInTime
  <2>. QED
    BY <2>2 DEF InTime
<1>. QED
  BY <1>1, <1>2 DEF HelperInv

\* An event comes.
LEMMA EventStep == \A atom : SubInv /\ onLogEvent(atom) => SubInv'
<1>. SUFFICES ASSUME NEW atom, SubInv, onLogEvent(atom) PROVE SubInv'
  OBVIOUS
<1>1. PICK fails : clients' = Kept(Informed(atom, fails), fails) /\ mClientSet' = StillThere(Informed(atom, fails))
  BY DEF onLogEvent
<1>2. /\ inUse' = AtomsAfter(mClientSet, mClientSet') /\ UNCHANGED <<sNow, helper, gone, started>>
      /\ events' = events + 1 /\ events < SubMaxEvents
  BY DEF onLogEvent
<1>3. /\ SetsInv /\ ClientsInv /\ sNow \in Nat /\ events \in Nat /\ mClientSet \subseteq SubIds
      /\ events' \in 0 .. SubMaxEvents
  BY <1>2, ShellConstants DEF SubInv, SetsInv
<1>. DEFINE t == Informed(atom, fails)
<1>4. ASSUME NEW i \in mClientSet
      PROVE  Treated(i, clients[i], t[i])
  <2>1. PICK ok : ok = (i \notin fails)
    OBVIOUS
  <2>2. PICK n \in Nat : n = events + 1
    BY <1>3
  <2>. DEFINE c == clients[i]
              r == t[i]
  <2>3. r = onLogEventOf(i, c, n, atom, ok)
    BY <2>1, <2>2 DEF Informed
  <2>4. ClientOK(i, c) /\ Rests(i, c) /\ i \in SubIds
    BY <1>3 DEF ClientsInv
  <2>. HIDE DEF t, c, r
  <2>5. Treated(i, c, r)
    BY <1>3, <2>3, <2>4, EventTreats
  <2>. QED
    BY <2>5 DEF c, r
<1>. HIDE DEF t
<1>5. /\ ClientsInv' /\ mClientSet' \subseteq mClientSet
      /\ \A i \in mClientSet' : clients'[i] = t[i]
  BY <1>1, <1>2, <1>3, <1>4, KeptOK DEF t
<1>6. SetsInv'
  BY <1>2, <1>3, <1>5, LeaversOK
<1>7. HelperInv'
  BY <1>2, <1>4, <1>5, SleepsOn
<1>. QED
  BY <1>5, <1>6, <1>7 DEF SubInv

-----------------------------------------------------------------------------
\* A call that treats one client, which stays.
LEMMA OneTreated ==
  ASSUME SubInv, NEW i \in mClientSet, NEW r, Treated(i, clients[i], r), Rests(i, r), Present(i, r),
         clients' = [clients EXCEPT ![i] = r],
         UNCHANGED <<sNow, mClientSet, helper, inUse, gone, started, events>>
  PROVE  SubInv'
<1>1. mClientSet \subseteq SubIds /\ SetsInv /\ ClientsInv /\ ClientOK(i, r)
  BY DEF SubInv, SetsInv, Treated
<1>2. clients \in [SubIds -> ShellClients] /\ i \in SubIds /\ r \in ShellClients
  BY <1>1 DEF ClientsInv, ClientOK
<1>3. /\ clients' \in [SubIds -> ShellClients] /\ clients'[i] = r
      /\ \A j \in SubIds \ {i} : clients'[j] = clients[j]
  BY <1>2
<1>4. \A j \in SubIds : ClientOK(j, clients'[j]) /\ Rests(j, clients'[j])
  BY <1>1, <1>3 DEF ClientsInv
<1>5. \A j \in mClientSet : Present(j, clients'[j])
  BY <1>1, <1>3 DEF ClientsInv
<1>6. \A j \in SubIds \ mClientSet : Absent(j, clients'[j])
  BY <1>1, <1>3 DEF ClientsInv
<1>7. ClientsInv'
  <2>1. \A j \in SubIds : (ClientOK(j, clients[j]) /\ Rests(j, clients[j]))'
    BY <1>4 DEF ClientOK, Rests
  <2>2. \A j \in mClientSet' : Present(j, clients[j])'
    BY <1>5 DEF Present
  <2>3. \A j \in SubIds \ mClientSet' : Absent(j, clients[j])'
    BY <1>6 DEF Absent
  <2>. QED
    BY <1>3, <2>1, <2>2, <2>3 DEF ClientsInv
<1>8. ASSUME NEW j \in mClientSet'
      PROVE  Treated(j, clients[j], clients'[j])
  <2>1. CASE j = i
    BY <1>3, <2>1
  <2>2. CASE j # i
    <3>1. j \in SubIds /\ clients'[j] = clients[j] /\ ClientOK(j, clients[j]) /\ Rests(j, clients[j])
      BY <1>1, <1>3, <2>2 DEF ClientsInv
    <3>. QED
      BY <3>1, IdleTreats
  <2>. QED
    BY <2>1, <2>2
<1>9. mClientSet' \subseteq mClientSet
  OBVIOUS
<1>10. HelperInv'
  BY <1>8, <1>9, SleepsOn
<1>11. SetsInv'
  BY <1>1 DEF SetsInv
<1>. QED
  BY <1>7, <1>10, <1>11 DEF SubInv

\* A client leaves by request, or because its death was seen.
LEMMA OneLeaves ==
  ASSUME SubInv, NEW i \in mClientSet, NEW ok, ~IsPipe(i), Leaves(i, ok),
         UNCHANGED <<sNow, helper, gone, started, events>>
  PROVE  SubInv'
<1>1. /\ mClientSet \subseteq SubIds /\ SetsInv /\ ClientsInv /\ sNow \in Nat
      /\ events' \in 0 .. SubMaxEvents
  BY ShellConstants DEF SubInv, SetsInv
<1>. DEFINE c == clients[i]
            r == Unsubscribed(i, c, ok)
<1>2. /\ clients' = [clients EXCEPT ![i] = r] /\ mClientSet' = mClientSet \ {i}
      /\ inUse' = AtomsAfter(mClientSet, mClientSet')
  BY DEF Leaves
<1>3. ClientOK(i, c) /\ c.log.ended = 0 /\ (~c.alive => i \in gone) /\ i \in SubIds
  BY <1>1 DEF ClientsInv, Present
<1>. HIDE DEF c
<1>4. ClientOK(i, r) /\ Rests(i, r) /\ Absent(i, r)
  BY <1>1, <1>3, UnsubscribedOK
<1>. HIDE DEF r
<1>5. clients \in [SubIds -> ShellClients] /\ r \in ShellClients
  BY <1>1, <1>4 DEF ClientsInv, ClientOK
<1>6. /\ clients' \in [SubIds -> ShellClients] /\ clients'[i] = r
      /\ \A j \in SubIds \ {i} : clients'[j] = clients[j]
  BY <1>2, <1>3, <1>5
<1>7. ClientsInv'
  <2>1. \A j \in SubIds : ClientOK(j, clients'[j]) /\ Rests(j, clients'[j])
    BY <1>1, <1>4, <1>6 DEF ClientsInv
  <2>2. \A j \in mClientSet' : Present(j, clients'[j])
    BY <1>1, <1>2, <1>6 DEF ClientsInv
  <2>3. \A j \in SubIds \ mClientSet' : Absent(j, clients'[j])
    BY <1>1, <1>2, <1>4, <1>6 DEF ClientsInv
  <2>4. \A j \in SubIds : (ClientOK(j, clients[j]) /\ Rests(j, clients[j]))'
    BY <2>1 DEF ClientOK, Rests
  <2>5. \A j \in mClientSet' : Present(j, clients[j])'
    BY <2>2 DEF Present
  <2>6. \A j \in SubIds \ mClientSet' : Absent(j, clients[j])'
    BY <2>3 DEF Absent
  <2>. QED
    BY <1>6, <2>4, <2>5, <2>6 DEF ClientsInv
<1>8. mClientSet' \subseteq mClientSet
  BY <1>2
<1>9. SetsInv'
  BY <1>1, <1>2, <1>8, LeaversOK
<1>10. ASSUME NEW j \in mClientSet'
       PROVE  Treated(j, clients[j], clients'[j])
  <2>1. j \in SubIds /\ clients'[j] = clients[j] /\ ClientOK(j, clients[j]) /\ Rests(j, clients[j])
    BY <1>1, <1>2, <1>6 DEF ClientsInv
  <2>. QED
    BY <2>1, IdleTreats
<1>11. HelperInv'
  BY <1>8, <1>10, SleepsOn
<1>. QED
  BY <1>7, <1>9, <1>11 DEF SubInv

\* A subscription ends by request.
LEMMA UnsubscribeStep == \A i, ok : SubInv /\ unsubscribe(i, ok) => SubInv'
<1>. SUFFICES ASSUME NEW i, NEW ok, SubInv, unsubscribe(i, ok) PROVE SubInv'
  OBVIOUS
<1>1. /\ i \in mClientSet /\ ~IsPipe(i) /\ Leaves(i, ok)
      /\ UNCHANGED <<sNow, helper, gone, started, events>>
  BY DEF unsubscribe
<1>. QED
  BY <1>1, OneLeaves

\* A flush by request.
LEMMA FlushStep == \A i, ok : SubInv /\ flushSubscription(i, ok) => SubInv'
<1>. SUFFICES ASSUME NEW i, NEW ok, SubInv, flushSubscription(i, ok) PROVE SubInv'
  OBVIOUS
<1>1. i \in mClientSet /\ ~IsPipe(i) /\ UNCHANGED <<sNow, helper, gone, started, events>>
  BY DEF flushSubscription
<1>2. CASE Leaves(i, ok)
  BY <1>1, <1>2, OneLeaves
<1>3. CASE /\ clients[i].alive /\ UNCHANGED <<mClientSet, inUse>>
           /\ clients' = [clients EXCEPT ![i] = triggerCallback(i, clients[i], "FLUSH_REQUESTED", ok)]
  <2>1. PICK reason : reason = "FLUSH_REQUESTED"
    OBVIOUS
  <2>. DEFINE c == clients[i]
              r == triggerCallback(i, c, reason, ok)
  <2>2. clients' = [clients EXCEPT ![i] = r] /\ r = triggerCallback(i, c, reason, ok)
    BY <1>3, <2>1
  <2>3. /\ ClientOK(i, c) /\ Rests(i, c) /\ Present(i, c) /\ c.alive /\ sNow \in Nat
        /\ c.lastWrite \in Nat /\ c.lastWrite <= sNow
    BY <1>1, <1>3, ShellConstants DEF SubInv, SetsInv, ClientsInv, ClientOK, ShellClients
  <2>. HIDE DEF c, r
  <2>4. /\ ClientOK(i, r) /\ r.startTime = c.startTime /\ r.prevPull = c.prevPull
        /\ i \in gone => /\ r.cache = c.cache /\ r.lastWrite = c.lastWrite /\ r.log = c.log
                         /\ ~r.alive
        /\ i \notin gone => /\ r.cache = << >> /\ r.lastWrite = sNow /\ r.alive = c.alive
                            /\ r.log.ended = c.log.ended
    <3>1. ClientOK(i, c) /\ sNow \in Nat /\ reason # "SUBSCRIPTION_ENDED"
      BY <2>1, <2>3
    <3>. QED
      BY <2>2, <3>1, CallbackOK
  <2>5. Rests(i, r)
    <3>1. CASE i \in gone
      BY <2>3, <2>4, <3>1 DEF Rests
    <3>2. CASE i \notin gone
      BY <2>4, <3>2, ShellConstants DEF Rests
    <3>. QED
      BY <3>1, <3>2
  <2>6. Present(i, r)
    BY <1>1, <2>3, <2>4 DEF Present
  <2>7. Treated(i, c, r)
    <3>1. CASE i \in gone
      BY <1>1, <2>3, <2>4, <2>5, <3>1 DEF Treated, Rests
    <3>2. CASE i \notin gone
      BY <1>1, <2>3, <2>4, <2>5, <3>2 DEF Treated, Rests
    <3>. QED
      BY <3>1, <3>2
  <2>8. Treated(i, clients[i], r)
    BY <2>7 DEF c
  <2>. QED
    BY <1>1, <1>3, <2>2, <2>5, <2>6, <2>8, OneTreated
<1>. QED
  BY <1>2, <1>3 DEF flushSubscription

\* A client comes: the thread runs at once.
LEMMA StartStep == \A i \in SubIds : SubInv /\ startNewSubscription(i) => SubInv'
<1>. SUFFICES ASSUME NEW i \in SubIds, SubInv, startNewSubscription(i) PROVE SubInv'
  OBVIOUS
<1>1. /\ i \notin started /\ started' = started \union {i}
      /\ Cardinality(mClientSet) < kMaxSubscriptions /\ mClientSet' = mClientSet \union {i}
      /\ inUse' = AtomsOf(mClientSet') /\ helper' = StartedOrWoken /\ UNCHANGED <<sNow, gone, events>>
  BY DEF startNewSubscription
<1>. DEFINE r == NewClient(sNow)
<1>2. clients' = [clients EXCEPT ![i] = r]
  BY DEF startNewSubscription
<1>3. /\ SetsInv /\ ClientsInv /\ HelperInv /\ sNow \in Nat /\ i \notin gone
      /\ mClientSet \subseteq SubIds /\ i \notin mClientSet
  BY <1>1, ShellConstants DEF SubInv, SetsInv
<1>4. /\ r \in ShellClients /\ r.startTime = sNow /\ r.lastWrite = sNow /\ r.prevPull = -1
      /\ r.cache = << >> /\ r.log.owed = << >> /\ ~r.log.astray /\ r.log.ended = 0 /\ r.alive
  <2>1. << >> \in Seq(Nat)
    OBVIOUS
  <2>. QED
    BY <1>3, <2>1 DEF NewClient, Client, Log, ShellClients, Logs, Never
<1>. HIDE DEF r
<1>5. ClientOK(i, r) /\ Rests(i, r) /\ Present(i, r)
  BY <1>3, <1>4, ShellConstants DEF ClientOK, Rests, Present
<1>6. SetsInv'
  <2>1. IsFiniteSet(mClientSet)
    BY <1>3 DEF SetsInv
  <2>2. IsFiniteSet(mClientSet') /\ Cardinality(mClientSet') = Cardinality(mClientSet) + 1
    BY <1>1, <1>3, <2>1, FS_AddElement
  <2>3. Cardinality(mClientSet) \in Nat
    BY <2>1, FS_CardinalityType
  <2>4. Cardinality(mClientSet') <= kMaxSubscriptions
    BY <1>1, <2>2, <2>3, ShellConstants
  <2>5. inUse' = AtomsOf(mClientSet)'
    BY <1>1 DEF AtomsOf
  <2>. QED
    BY <1>1, <1>3, <2>2, <2>4, <2>5 DEF SetsInv
<1>7. ClientsInv'
  <2>1. clients \in [SubIds -> ShellClients]
    BY <1>3 DEF ClientsInv
  <2>2. /\ clients' \in [SubIds -> ShellClients] /\ clients'[i] = r
        /\ \A j \in SubIds \ {i} : clients'[j] = clients[j]
    BY <1>2, <1>4, <2>1
  <2>3. \A j \in SubIds : (ClientOK(j, clients[j]) /\ Rests(j, clients[j]))'
    BY <1>1, <1>3, <1>5, <2>2 DEF ClientsInv, ClientOK, Rests
  <2>4. \A j \in mClientSet' : Present(j, clients[j])'
    BY <1>1, <1>3, <1>5, <2>2 DEF ClientsInv, Present
  <2>5. \A j \in SubIds \ mClientSet' : Absent(j, clients[j])'
    BY <1>1, <1>3, <2>2 DEF ClientsInv, Absent
  <2>. QED
    BY <2>2, <2>3, <2>4, <2>5 DEF ClientsInv
<1>8. HelperInv'
  <2>1. CASE helper.mThreadAlive
    <3>1. helper' = Helper(helper.pc, TRUE, TRUE, helper.until)
      BY <1>1, <2>1 DEF StartedOrWoken
    <3>. QED
      BY <1>3, <2>1, <3>1 DEF HelperInv, Helper
  <2>2. CASE ~helper.mThreadAlive
    <3>1. helper' = Helper("run", TRUE, helper.mShouldWakeupThread, helper.until)
      BY <1>1, <2>2 DEF StartedOrWoken
    <3>. QED
      BY <1>3, <3>1 DEF HelperInv, Helper
  <2>. QED
    BY <2>1, <2>2
<1>. QED
  BY <1>6, <1>7, <1>8 DEF SubInv

\* The peer of a client goes, which statsd learns later.
LEMMA PeerStep == \A i : SubInv /\ PeerGoes(i) => SubInv'
<1>. SUFFICES ASSUME NEW i, SubInv, PeerGoes(i) PROVE SubInv'
  OBVIOUS
<1>1. /\ i \in mClientSet /\ gone' = gone \union {i}
      /\ UNCHANGED <<sNow, mClientSet, clients, helper, inUse, started, events>>
  BY DEF PeerGoes
<1>2. mClientSet \subseteq SubIds
  BY DEF SubInv, SetsInv
<1>3. SetsInv'
  BY <1>1 DEF SubInv, SetsInv, AtomsOf
<1>4. ClientsInv'
  <2>1. \A j \in SubIds : (ClientOK(j, clients[j]) /\ Rests(j, clients[j]))'
    BY <1>1 DEF SubInv, ClientsInv, ClientOK, Rests
  <2>2. \A j \in mClientSet' : Present(j, clients[j])'
    BY <1>1 DEF SubInv, ClientsInv, Present
  <2>3. \A j \in SubIds \ mClientSet' : Absent(j, clients[j])'
    BY <1>1 DEF SubInv, ClientsInv, Absent
  <2>. QED
    BY <1>1, <2>1, <2>2, <2>3 DEF SubInv, ClientsInv
<1>5. HelperInv'
  BY <1>1 DEF SubInv, HelperInv, InTime
<1>. QED
  BY <1>3, <1>4, <1>5 DEF SubInv

\* Nothing changes.
LEMMA ShellStutters == SubInv /\ UNCHANGED subVars => SubInv'
<1>. SUFFICES ASSUME SubInv, UNCHANGED subVars PROVE SubInv'
  OBVIOUS
<1>1. UNCHANGED <<sNow, mClientSet, clients, helper, inUse, gone, started, events>>
  BY DEF subVars
<1>2. SetsInv'
  BY <1>1 DEF SubInv, SetsInv, AtomsOf
<1>3. ClientsInv'
  BY <1>1 DEF SubInv, ClientsInv, ClientOK, Rests, Present, Absent
<1>4. HelperInv'
  BY <1>1 DEF SubInv, HelperInv, InTime
<1>. QED
  BY <1>2, <1>3, <1>4 DEF SubInv

\* The sleep that is soon enough for each client serves each in time.
LEMMA SleepServes == SubInv => ServedInTime
<1>. SUFFICES ASSUME SubInv, NEW i \in mClientSet
              PROVE  /\ helper.pc # "off"
                     /\ ~HelperDue =>
                          /\ clients[i].cache # << >> =>
                               sNow - clients[i].log.since < kBetweenCallbacks + kMinCallbackSleep
                          /\ IsPipe(i) =>
                               /\ sNow - clients[i].lastWrite < kBetweenHeartbeats
                               /\ Subscriptions[i].timeout > 0 =>
                                    sNow - clients[i].startTime < Subscriptions[i].timeout + kBetweenHeartbeats
                          /\ Subscriptions[i].pulls =>
                               /\ clients[i].prevPull # Never
                               /\ sNow - clients[i].prevPull < IntervalOf(i) + kMinCallbackSleep
  BY DEF ServedInTime, IsPipe
<1>1. HelperInv /\ ClientsInv /\ i \in SubIds /\ sNow \in Nat
  BY ShellConstants DEF SubInv, SetsInv
<1>2. helper.pc # "off"
  BY <1>1 DEF HelperInv
<1>3. ASSUME ~HelperDue
      PROVE  /\ helper.until \in Nat /\ sNow < helper.until
             /\ InTime(i, clients[i], helper.until)
  <2>1. helper.pc = "sleeping" /\ helper.until \in Nat
    BY <1>1, <1>2, <1>3 DEF HelperDue, HelperInv
  <2>2. ~helper.mShouldWakeupThread /\ sNow < helper.until
    BY <1>1, <1>3, <2>1 DEF HelperDue, SleepOver
  <2>. QED
    BY <1>1, <2>1, <2>2 DEF HelperInv
<1>. DEFINE c == clients[i]
<1>4. /\ c.log.since \in Nat /\ c.lastWrite \in Nat /\ c.startTime \in Nat /\ c.prevPull \in Int
      /\ Subscriptions[i].timeout \in Int /\ IntervalOf(i) \in Nat
  BY <1>1, SubAssumption, IntervalIsNumber DEF ClientsInv, ShellClients, Logs, SubIds
<1>. HIDE DEF c
<1>5. ASSUME ~HelperDue
      PROVE  /\ c.cache # << >> => sNow - c.log.since < kBetweenCallbacks + kMinCallbackSleep
             /\ IsPipe(i) =>
                  /\ sNow - c.lastWrite < kBetweenHeartbeats
                  /\ Subscriptions[i].timeout > 0 =>
                       sNow - c.startTime < Subscriptions[i].timeout + kBetweenHeartbeats
             /\ Subscriptions[i].pulls =>
                  c.prevPull # Never /\ sNow - c.prevPull < IntervalOf(i) + kMinCallbackSleep
  <2>1. helper.until \in Nat /\ sNow < helper.until /\ InTime(i, c, helper.until)
    BY <1>3, <1>5 DEF c
  <2>2. c.cache # << >> => sNow - c.log.since < kBetweenCallbacks + kMinCallbackSleep
    <3>1. c.cache # << >> => helper.until < c.log.since + kBetweenCallbacks + kMinCallbackSleep
      BY <2>1 DEF InTime
    <3>2. /\ sNow \in Nat /\ c.log.since \in Nat /\ kBetweenCallbacks \in Nat
          /\ kMinCallbackSleep \in Nat /\ helper.until \in Nat /\ sNow < helper.until
      BY <1>1, <1>4, <2>1, ShellConstants
    <3>. QED
      BY <3>1, <3>2
  <2>3. IsPipe(i) => sNow - c.lastWrite < kBetweenHeartbeats
    <3>1. IsPipe(i) => helper.until <= c.lastWrite + kBetweenHeartbeats
      BY <2>1 DEF InTime
    <3>. QED
      BY <1>1, <1>4, <2>1, <3>1, ShellConstants
  <2>4. IsPipe(i) /\ Subscriptions[i].timeout > 0 =>
          sNow - c.startTime < Subscriptions[i].timeout + kBetweenHeartbeats
    <3>1. IsPipe(i) /\ Subscriptions[i].timeout > 0 =>
            helper.until < c.startTime + Subscriptions[i].timeout + kBetweenHeartbeats
      BY <2>1 DEF InTime
    <3>. QED
      BY <1>1, <1>4, <2>1, <3>1, ShellConstants
  <2>5. Subscriptions[i].pulls =>
          c.prevPull # Never /\ sNow - c.prevPull < IntervalOf(i) + kMinCallbackSleep
    <3>1. Subscriptions[i].pulls =>
            c.prevPull # Never /\ helper.until < c.prevPull + IntervalOf(i) + kMinCallbackSleep
      BY <2>1 DEF InTime
    <3>. QED
      BY <1>1, <1>4, <2>1, <3>1, ShellConstants
  <2>. QED
    BY <2>2, <2>3, <2>4, <2>5
<1>. QED
  BY <1>2, <1>5 DEF c

\* The invariant has the promise.
LEMMA ShellPromise == SubInv => SubscriptionsServed
<1>. SUFFICES ASSUME SubInv PROVE SubscriptionsServed
  OBVIOUS
<1>1. SetsInv /\ ClientsInv /\ HelperInv /\ mClientSet \subseteq SubIds
  BY DEF SubInv, SetsInv
<1>2. SubTypeOK
  <2>1. AtomsOf(mClientSet) \subseteq AtomsOf(SubIds)
    BY <1>1 DEF AtomsOf
  <2>. QED
    BY <1>1, <2>1 DEF SubTypeOK, SetsInv, ClientsInv, HelperInv, Rests, SubAtoms
<1>3. CacheSentOnce
  BY <1>1 DEF CacheSentOnce, ClientsInv, ClientOK
<1>4. AtomsInUseFollow
  BY <1>1 DEF AtomsInUseFollow, SetsInv
<1>5. EndedOnce
  <2>1. ASSUME NEW i \in mClientSet
        PROVE  clients[i].log.ended = 0
    BY <1>1 DEF ClientsInv, Present
  <2>2. ASSUME NEW i \in SubIds \ mClientSet
        PROVE  Absent(i, clients[i])
    BY <1>1 DEF ClientsInv
  <2>. QED
    BY <1>1, <2>1, <2>2 DEF EndedOnce, Absent
<1>6. ServedInTime
  BY SleepServes
<1>. QED
  BY <1>2, <1>3, <1>4, <1>5, <1>6 DEF SubscriptionsServed

\* Every subscription gets each event it matched once and in order, is ended once, has its
\* atoms asked for while it is there, and is served in time by the one thread: the sleep
\* that pullAndSendHeartbeats computes is short enough for each client, and stays so
\* under every call that comes while the thread sleeps.
THEOREM SubscriptionsAreServed == SubSpec => []SubscriptionsServed
<1>1. SubInit => SubInv
  BY ShellStarts
<1>2. SubInv /\ [SubNext]_subVars => SubInv'
  <2>. SUFFICES ASSUME SubInv, [SubNext]_subVars PROVE SubInv'
    OBVIOUS
  <2>. QED
    BY TickStep, RoundStep, EventStep, StartStep, PeerStep, FlushStep, UnsubscribeStep, ShellStutters
       DEF SubNext
<1>3. SubInv => SubscriptionsServed
  BY ShellPromise
<1>. QED
  BY <1>1, <1>2, <1>3, PTL DEF SubSpec

=============================================================================
