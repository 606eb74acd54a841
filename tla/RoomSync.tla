------------------------------ MODULE RoomSync -------------------------------
(***************************************************************************)
(* The message synchronisation of one room that is replicated at the       *)
(* daemons of its members.                                                 *)
(*                                                                         *)
(*   - RunMessageQueue: for each peer of each member a goroutine that      *)
(*     compares the room's SyncState with the peer's LastSyncState and, if *)
(*     they differ, runs syncMsgs over a new connection;                   *)
(*   - convClientHandler: the goroutine that serves such a connection at   *)
(*     the other end;                                                      *)
(*   - SendMessageToAllPeers: the goroutine of a local API call;           *)
(*   - PushMessages: run by handlers and API calls alike.  It copies       *)
(*     SyncState before it takes msgUpdateMutex.                           *)
(*                                                                         *)
(* Everything a goroutine reads without holding the mutex is a step of its *)
(* own.  Membership is fixed here; a message is its sender, its time and   *)
(* whether peers will accept its signature.                                *)
(***************************************************************************)
EXTENDS Integers, Sequences, FiniteSets, Functions

CONSTANTS
  Node,      \* the members of the room
  Conn,      \* connection slots; each serves one connection at a time
  Src, Dst,  \* the dialling and the serving member of a slot
  Api,       \* goroutines that serve local calls of SendMessageToAllPeers
  Home,      \* the member whose daemon an API goroutine belongs to
  Stops,     \* the members at which somebody may stop the room's queues
  SigOk,     \* the validities a new message may have: {TRUE} or BOOLEAN
  NoThread,  \* the holder of a free mutex
  MaxTime,   \* bound on the clock of a member, hence on its messages
  MaxBatch,  \* how many messages fit into a frame of maxMsgSize bytes
  MaxBreak   \* bound on the number of failing connections

ASSUME ConstantsAssumption ==
  /\ Src \in [Conn -> Node] /\ Dst \in [Conn -> Node]
  /\ \A c \in Conn : Src[c] # Dst[c]
  /\ Home \in [Api -> Node]
  /\ Conn \cap Api = {}
  /\ NoThread \notin Conn \cup Api
  /\ Stops \subseteq Node
  /\ SigOk \subseteq BOOLEAN
  /\ MaxTime \in Nat /\ MaxBatch \in Nat /\ MaxBreak \in Nat

VARIABLES
  messages,        \* Room.Messages
  syncState,       \* Room.SyncState
  msgUpdateMutex,  \* Room.msgUpdateMutex: the goroutine that holds it
  stopped,         \* whether Room.Ctx is cancelled
  clock,           \* the last reading of time.Now by NewMessage
  queue,           \* where RunMessageQueue is, for each queue
  lastSyncState,   \* MessagingPeer.LastSyncState, for each queue
  client,          \* where syncMsgs is, for each connection
  link,            \* whether the connection is up
  breaks,          \* how many connections have failed so far
  pc,              \* where a handler or an API goroutine is
  batchLog,        \* the Messages its batch was selected from ...
  remoteSyncTimes, \* ... and the SyncMap that selected it
  newSyncState,    \* the local variable of PushMessages
  pos              \* the position in batchLog that the loop has reached

roomVars == <<messages, syncState, msgUpdateMutex, stopped, clock>>
queueVars == <<queue, lastSyncState>>
connVars == <<client, link, breaks>>
localVars == <<batchLog, remoteSyncTimes, newSyncState, pos>>
threadVars == <<pc, localVars>>
vars == <<roomVars, queueVars, connVars, threadVars>>

Thread == Conn \cup Api
Queue == {<<Src[c], Dst[c]>> : c \in Conn}
QueueOf(c) == <<Src[c], Dst[c]>>

(* The member in whose room a goroutine runs PushMessages.                 *)
At(t) == IF t \in Conn THEN Dst[t] ELSE Home[t]

(* A message; the sender and the time identify it.                         *)
Message == [sender : Node, time : 1..MaxTime, sigOk : BOOLEAN]

(* A SyncMap; 0 stands for a sender that has no entry.                     *)
SyncMap == [Node -> 0..MaxTime]
NoEntries == [n \in Node |-> 0]

(* Mutation of IsNewer: !Before instead of After.                          *)
IsNewerOrSame(m, map) == m.time >= map[m.sender]

(* !ok || msg.Meta.Time.After(last)                                        *)
IsNewer(m, map) == m.time > map[m.sender]

(* Every entry of map1 is in map2; map2 may well have more.                *)
SyncMapsEqual(map1, map2) == \A n \in Node : map1[n] # 0 => map2[n] = map1[n]

(* Mutation of findMessagesToSync: only the newest message of a sender.    *)
findNewest(log, remote) ==
  {i \in DOMAIN log : /\ IsNewer(log[i], remote)
                      /\ \A j \in DOMAIN log : j > i => log[j].sender # log[i].sender}

(* The positions of the messages that the remote does not know of yet.     *)
findMessagesToSync(log, remote) == {i \in DOMAIN log : IsNewer(log[i], remote)}

TypeOK ==
  /\ messages \in [Node -> Seq(Message)]
  /\ syncState \in [Node -> SyncMap]
  /\ msgUpdateMutex \in [Node -> Thread \cup {NoThread}]
  /\ stopped \in [Node -> BOOLEAN]
  /\ clock \in [Node -> 0..MaxTime]
  /\ queue \in [Queue -> {"run", "sync", "wait", "done"}]
  /\ lastSyncState \in [Queue -> SyncMap]
  /\ client \in [Conn -> {"idle", "dialed", "sent", "stuck"}]
  /\ link \in [Conn -> BOOLEAN]
  /\ breaks \in 0..MaxBreak
  /\ pc \in [Thread -> {"idle", "offered", "copy", "lock", "loop", "reply"}]
  /\ batchLog \in [Thread -> Seq(Message)]
  /\ remoteSyncTimes \in [Thread -> SyncMap]
  /\ newSyncState \in [Thread -> SyncMap]
  /\ pos \in [Thread -> Nat]

Init ==
  /\ messages = [n \in Node |-> <<>>]
  /\ syncState = [n \in Node |-> NoEntries]
  /\ msgUpdateMutex = [n \in Node |-> NoThread]
  /\ stopped = [n \in Node |-> FALSE]
  /\ clock = [n \in Node |-> 0]
  /\ queue = [q \in Queue |-> "run"]
  /\ lastSyncState = [q \in Queue |-> NoEntries]
  /\ client = [c \in Conn |-> "idle"]
  /\ link = [c \in Conn |-> FALSE]
  /\ breaks = 0
  /\ pc = [t \in Thread |-> "idle"]
  /\ batchLog = [t \in Thread |-> <<>>]
  /\ remoteSyncTimes = [t \in Thread |-> NoEntries]
  /\ newSyncState = [t \in Thread |-> NoEntries]
  /\ pos = [t \in Thread |-> 1]

(* The goroutine returns.                                                  *)
Return(t) ==
  /\ pc' = [pc EXCEPT ![t] = "idle"]
  /\ batchLog' = [batchLog EXCEPT ![t] = <<>>]
  /\ remoteSyncTimes' = [remoteSyncTimes EXCEPT ![t] = NoEntries]
  /\ newSyncState' = [newSyncState EXCEPT ![t] = NoEntries]
  /\ pos' = [pos EXCEPT ![t] = 1]

------------------------------------------------------------------------------
(* RunMessageQueue                                                         *)

(* The context is cancelled: the goroutine ends.                           *)
QueueDone(q) ==
  /\ queue[q] = "run"
  /\ stopped[q[1]]
  /\ queue' = [queue EXCEPT ![q] = "done"]
  /\ UNCHANGED <<roomVars, lastSyncState, connVars, threadVars>>

(* Nothing new since the last sync: wait.                                  *)
QueueInSync(q) ==
  /\ queue[q] = "run"
  /\ ~stopped[q[1]]
  /\ SyncMapsEqual(syncState[q[1]], lastSyncState[q])
  /\ queue' = [queue EXCEPT ![q] = "wait"]
  /\ UNCHANGED <<roomVars, lastSyncState, connVars, threadVars>>

NeedsSync(q) ==
  /\ queue[q] = "run"
  /\ ~stopped[q[1]]
  /\ ~SyncMapsEqual(syncState[q[1]], lastSyncState[q])

(* syncMsgs dials the peer.                                                *)
Dial(c) ==
  /\ NeedsSync(QueueOf(c))
  /\ client[c] = "idle"
  /\ pc[c] = "idle"
  /\ queue' = [queue EXCEPT ![QueueOf(c)] = "sync"]
  /\ client' = [client EXCEPT ![c] = "dialed"]
  /\ link' = [link EXCEPT ![c] = TRUE]
  /\ UNCHANGED <<roomVars, lastSyncState, breaks, threadVars>>

(* The peer cannot be reached.                                             *)
DialFails(q) ==
  /\ NeedsSync(q)
  /\ breaks < MaxBreak
  /\ breaks' = breaks + 1
  /\ queue' = [queue EXCEPT ![q] = "wait"]
  /\ UNCHANGED <<roomVars, lastSyncState, client, link, threadVars>>

(* Mutation of Wake: only BumpQueue ends the wait.                         *)
WakeOnBump(q) ==
  /\ queue[q] = "wait"
  /\ ~SyncMapsEqual(syncState[q[1]], lastSyncState[q])
  /\ queue' = [queue EXCEPT ![q] = "run"]
  /\ UNCHANGED <<roomVars, lastSyncState, connVars, threadVars>>

(* queueTimeout has passed, BumpQueue was called or the context cancelled. *)
Wake(q) ==
  /\ queue[q] = "wait"
  /\ queue' = [queue EXCEPT ![q] = "run"]
  /\ UNCHANGED <<roomVars, lastSyncState, connVars, threadVars>>

------------------------------------------------------------------------------
(* The client's end of a connection: syncMsgs                              *)

(* The remote SyncState has arrived: select what it lacks and write it.    *)
(* WriteStruct refuses a frame above maxMsgSize; the error is dropped and  *)
(* the client waits for an answer to what it never sent.                   *)
SendBatch(c) ==
  LET log == messages[Src[c]]
      batch == findMessagesToSync(log, remoteSyncTimes[c])
  IN
  /\ client[c] = "dialed"
  /\ link[c]
  /\ pc[c] = "offered"
  /\ IF Cardinality(batch) <= MaxBatch
     THEN /\ client' = [client EXCEPT ![c] = "sent"]
          /\ batchLog' = [batchLog EXCEPT ![c] = log]
     ELSE /\ client' = [client EXCEPT ![c] = "stuck"]
          /\ UNCHANGED batchLog
  /\ UNCHANGED <<roomVars, queueVars, link, breaks, pc, remoteSyncTimes, newSyncState, pos>>

(* sync_ok has arrived.  LastSyncState becomes the SyncState of this       *)
(* moment, not the one the batch was selected by.                          *)
SyncDone(c) ==
  /\ client[c] = "sent"
  /\ link[c]
  /\ pc[c] = "reply"
  /\ lastSyncState' = [lastSyncState EXCEPT ![QueueOf(c)] = syncState[Src[c]]]
  /\ queue' = [queue EXCEPT ![QueueOf(c)] = "wait"]
  /\ client' = [client EXCEPT ![c] = "idle"]
  /\ link' = [link EXCEPT ![c] = FALSE]
  /\ Return(c)
  /\ UNCHANGED <<roomVars, breaks>>

(* Mutation of SyncError: LastSyncState is set whatever syncMsgs returns.  *)
SyncErrorIgnored(c) ==
  /\ client[c] # "idle"
  /\ ~link[c]
  /\ client' = [client EXCEPT ![c] = "idle"]
  /\ queue' = [queue EXCEPT ![QueueOf(c)] = "wait"]
  /\ lastSyncState' = [lastSyncState EXCEPT ![QueueOf(c)] = syncState[Src[c]]]
  /\ UNCHANGED <<roomVars, link, breaks, threadVars>>

(* A read fails: syncMsgs returns the error and LastSyncState stays.       *)
SyncError(c) ==
  /\ client[c] # "idle"
  /\ ~link[c]
  /\ client' = [client EXCEPT ![c] = "idle"]
  /\ queue' = [queue EXCEPT ![QueueOf(c)] = "wait"]
  /\ UNCHANGED <<roomVars, lastSyncState, link, breaks, threadVars>>

(* The connection fails.                                                   *)
Break(c) ==
  /\ link[c]
  /\ breaks < MaxBreak
  /\ breaks' = breaks + 1
  /\ link' = [link EXCEPT ![c] = FALSE]
  /\ UNCHANGED <<roomVars, queueVars, client, threadVars>>

------------------------------------------------------------------------------
(* The server's end of a connection: convClientHandler                     *)

(* The peer has authenticated itself: send it auth_ok and SyncState.       *)
Offer(c) ==
  /\ client[c] = "dialed"
  /\ link[c]
  /\ pc[c] = "idle"
  /\ pc' = [pc EXCEPT ![c] = "offered"]
  /\ remoteSyncTimes' = [remoteSyncTimes EXCEPT ![c] = syncState[Dst[c]]]
  /\ UNCHANGED <<roomVars, queueVars, connVars, batchLog, newSyncState, pos>>

(* newMsgs, and SigIsValid for all of it.                                  *)
Batch(t) == findMessagesToSync(batchLog[t], remoteSyncTimes[t])
(* Mutation of SigsAreValid: the loop ends after the first message.        *)
FirstSigIsValid(t) ==
  \A i \in Batch(t) : (\A j \in Batch(t) : i <= j) => batchLog[t][i].sigOk

SigsAreValid(t) == \A i \in Batch(t) : batchLog[t][i].sigOk

(* The batch has arrived and all of its signatures are valid.              *)
RecvBatch(c) ==
  /\ client[c] = "sent"
  /\ link[c]
  /\ pc[c] = "offered"
  /\ SigsAreValid(c)
  /\ pc' = [pc EXCEPT ![c] = "copy"]
  /\ UNCHANGED <<roomVars, queueVars, connVars, localVars>>

(* One invalid signature: the handler closes the connection.               *)
RejectBatch(c) ==
  /\ client[c] = "sent"
  /\ link[c]
  /\ pc[c] = "offered"
  /\ ~SigsAreValid(c)
  /\ Return(c)
  /\ link' = [link EXCEPT ![c] = FALSE]
  /\ UNCHANGED <<roomVars, queueVars, client, breaks>>

(* Reading the batch fails.  The handler ignores the error and pushes the  *)
(* empty batch.                                                            *)
RecvNothing(c) ==
  /\ ~link[c]
  /\ pc[c] = "offered"
  /\ pc' = [pc EXCEPT ![c] = "copy"]
  /\ batchLog' = [batchLog EXCEPT ![c] = <<>>]
  /\ UNCHANGED <<roomVars, queueVars, connVars, remoteSyncTimes, newSyncState, pos>>

(* sync_ok cannot be delivered any more.                                   *)
ReplyLost(c) ==
  /\ ~link[c]
  /\ pc[c] = "reply"
  /\ Return(c)
  /\ UNCHANGED <<roomVars, queueVars, connVars>>

------------------------------------------------------------------------------
(* SendMessageToAllPeers and PushMessages                                  *)

(* NewMessage reads the clock and signs.  Two readings of one member's     *)
(* clock differ: it counts nanoseconds and a signature lies between them.  *)
(* A ReplyTo taken from a request header is not verified here, but is by   *)
(* every peer.                                                             *)
NewMessage(a) ==
  LET n == Home[a]
  IN
  /\ pc[a] = "idle"
  /\ clock[n] < MaxTime
  /\ clock' = [clock EXCEPT ![n] = @ + 1]
  /\ \E ok \in SigOk :
       batchLog' = [batchLog EXCEPT ![a] =
                      <<[sender |-> n, time |-> clock[n] + 1, sigOk |-> ok]>>]
  /\ pc' = [pc EXCEPT ![a] = "copy"]
  /\ UNCHANGED <<messages, syncState, msgUpdateMutex, stopped, queueVars, connVars,
                 remoteSyncTimes, newSyncState, pos>>

(* Mutation of PushCopy: CopySyncMap returns a map without keys.           *)
PushCopyEmpty(t) ==
  /\ pc[t] = "copy"
  /\ pc' = [pc EXCEPT ![t] = "lock"]
  /\ newSyncState' = [newSyncState EXCEPT ![t] = <<>>]
  /\ UNCHANGED <<roomVars, queueVars, connVars, batchLog, remoteSyncTimes, pos>>

(* newSyncState := CopySyncMap(r.SyncState), before the lock is taken.     *)
PushCopy(t) ==
  /\ pc[t] = "copy"
  /\ pc' = [pc EXCEPT ![t] = "lock"]
  /\ newSyncState' = [newSyncState EXCEPT ![t] = syncState[At(t)]]
  /\ UNCHANGED <<roomVars, queueVars, connVars, batchLog, remoteSyncTimes, pos>>

PushLock(t) ==
  /\ pc[t] = "lock"
  /\ msgUpdateMutex[At(t)] = NoThread
  /\ msgUpdateMutex' = [msgUpdateMutex EXCEPT ![At(t)] = t]
  /\ pc' = [pc EXCEPT ![t] = "loop"]
  /\ UNCHANGED <<messages, syncState, stopped, clock, queueVars, connVars, localVars>>

(* One turn of the loop.  The test is against r.SyncState, which only the  *)
(* end of a push replaces, while Messages grows with every turn.           *)
Accepts(t) ==
  /\ pos[t] \in Batch(t)
  /\ IsNewer(batchLog[t][pos[t]], syncState[At(t)])

(* Mutation of PushNext: a message whose command fails is not appended.    *)
PushNextOrSkip(t) ==
  LET m == batchLog[t][pos[t]]
  IN
  /\ pc[t] = "loop"
  /\ pos[t] <= Len(batchLog[t])
  /\ IF Accepts(t)
     THEN /\ \/ messages' = [messages EXCEPT ![At(t)] = Append(@, m)]
             \/ UNCHANGED messages
          /\ newSyncState' = [newSyncState EXCEPT ![t][m.sender] = m.time]
     ELSE UNCHANGED <<messages, newSyncState>>
  /\ pos' = [pos EXCEPT ![t] = @ + 1]
  /\ UNCHANGED <<syncState, msgUpdateMutex, stopped, clock, queueVars, connVars,
                 pc, batchLog, remoteSyncTimes>>

PushNext(t) ==
  LET m == batchLog[t][pos[t]]
  IN
  /\ pc[t] = "loop"
  /\ pos[t] <= Len(batchLog[t])
  /\ IF Accepts(t)
     THEN /\ messages' = [messages EXCEPT ![At(t)] = Append(@, m)]
          /\ newSyncState' = [newSyncState EXCEPT ![t][m.sender] = m.time]
     ELSE UNCHANGED <<messages, newSyncState>>
  /\ pos' = [pos EXCEPT ![t] = @ + 1]
  /\ UNCHANGED <<syncState, msgUpdateMutex, stopped, clock, queueVars, connVars,
                 pc, batchLog, remoteSyncTimes>>

(* r.SyncState = newSyncState and unlock; a handler then sends sync_ok.    *)
PushUnlock(t) ==
  /\ pc[t] = "loop"
  /\ pos[t] > Len(batchLog[t])
  /\ syncState' = [syncState EXCEPT ![At(t)] = newSyncState[t]]
  /\ msgUpdateMutex' = [msgUpdateMutex EXCEPT ![At(t)] = NoThread]
  /\ IF t \in Conn
     THEN pc' = [pc EXCEPT ![t] = "reply"] /\ UNCHANGED localVars
     ELSE Return(t)
  /\ UNCHANGED <<messages, stopped, clock, queueVars, connVars>>

(* Room.StopQueues cancels the context of the room.                        *)
StopQueues(n) ==
  /\ ~stopped[n]
  /\ stopped' = [stopped EXCEPT ![n] = TRUE]
  /\ UNCHANGED <<messages, syncState, msgUpdateMutex, clock, queueVars, connVars, threadVars>>

------------------------------------------------------------------------------
QueueNext(q) == QueueDone(q) \/ QueueInSync(q) \/ Wake(q) \/ DialFails(q)

ConnNext(c) ==
  \/ Dial(c) \/ SendBatch(c) \/ SyncDone(c) \/ SyncError(c) \/ Break(c)
  \/ Offer(c) \/ RecvBatch(c) \/ RejectBatch(c) \/ RecvNothing(c) \/ ReplyLost(c)

PushNextStep(t) == PushCopy(t) \/ PushLock(t) \/ PushNext(t) \/ PushUnlock(t)

Next ==
  \/ \E q \in Queue : QueueNext(q)
  \/ \E c \in Conn : ConnNext(c)
  \/ \E a \in Api : NewMessage(a)
  \/ \E t \in Thread : PushNextStep(t)
  \/ \E n \in Stops : StopQueues(n)

Spec == Init /\ [][Next]_vars

(* Goroutines run, connections that do not fail answer, and the mutex is   *)
(* not kept from a goroutine for ever (sync.Mutex hands it over in its     *)
(* starvation mode).  Nobody has to send a message or to stop a room, and  *)
(* connections need not fail.                                              *)
Fairness ==
  /\ \A q \in Queue :
       /\ WF_vars(QueueDone(q)) /\ WF_vars(QueueInSync(q)) /\ WF_vars(Wake(q))
       /\ WF_vars(\E c \in Conn : QueueOf(c) = q /\ Dial(c))
  /\ \A c \in Conn :
       /\ WF_vars(SendBatch(c)) /\ WF_vars(SyncDone(c)) /\ WF_vars(SyncError(c))
       /\ WF_vars(Offer(c)) /\ WF_vars(RecvBatch(c)) /\ WF_vars(RejectBatch(c))
       /\ WF_vars(RecvNothing(c)) /\ WF_vars(ReplyLost(c))
  /\ \A t \in Thread :
       /\ WF_vars(PushCopy(t)) /\ SF_vars(PushLock(t))
       /\ WF_vars(PushNext(t)) /\ WF_vars(PushUnlock(t))

FairSpec == Spec /\ Fairness

------------------------------------------------------------------------------
(* What the runs and the proofs establish                                  *)

Msgs(n) == Range(messages[n])

(* What member s has sent: the messages of its own in its own room.        *)
Own(s) == {m \in Msgs(s) : m.sender = s}

(* Nobody sends at one member twice at once.  net/http runs every request  *)
(* in a goroutine of its own, so that it is up to the frontends to wait    *)
(* for the answer to one message before they send the next.                *)
SendsInTurn ==
  \A x, y \in Api : Home[x] = Home[y] /\ pc[x] # "idle" /\ pc[y] # "idle" => x = y

(* No two goroutines are between the copy of a room's SyncState and its    *)
(* replacement: how PushMessages would run if it copied under the mutex.   *)
PushesInTurn ==
  \A t, u \in Thread :
    At(t) = At(u) /\ pc[t] \in {"lock", "loop"} /\ pc[u] \in {"lock", "loop"} => t = u

(* As long as its sender does not send two messages at once, a room never  *)
(* holds a message without all earlier ones of the sender: a SyncMap has   *)
(* one time per sender, so findMessagesToSync never offers again what a    *)
(* later message has overtaken.                                            *)
PrefixClosed ==
  \A n \in Node : \A m \in Msgs(n) : \A k \in Own(m.sender) :
    k.time < m.time => k \in Msgs(n)

(* A member holds what its SyncState says it holds, also between the steps *)
(* of racing PushMessages calls, when SyncState may fall back.             *)
SyncStateBacked ==
  \A n, s \in Node : syncState[n][s] # 0 =>
    \E m \in Msgs(n) : m.sender = s /\ m.time = syncState[n][s]

(* When convClientHandler writes sync_ok, the member holds everything that *)
(* the dialling member's room held when it chose its batch.  Like the one  *)
(* before it depends on sends that do not overlap.                         *)
AckMeansStored ==
  \A c \in Conn : pc[c] = "reply" => Range(batchLog[c]) \subseteq Msgs(Dst[c])

(* Only a member itself may hold a message of its own that nobody else     *)
(* accepts; convClientHandler keeps it out of all other rooms, however the *)
(* message is relayed.                                                     *)
ForeignMessagesAreSigned ==
  \A n \in Node : \A m \in Msgs(n) : m.sender = n \/ m.sigOk

(* What PushMessages does to the message of an API call, however the calls *)
(* overlap and whatever stale SyncState they write back: it is in the room *)
(* when the call ends, unless a later message of the same member has got   *)
(* there first.  Then the room never has it, and the caller is not told.   *)
FreshMessageStored ==
  \A a \in Api : pc[a] = "loop" /\ pos[a] > Len(batchLog[a])
    => \A m \in Range(batchLog[a]) :
         m \in Msgs(Home[a]) \/ \E k \in Own(Home[a]) : k.time > m.time

(* PushMessages adds no message twice, as long as pushes into one room are *)
(* done in turn: neither a lost sync_ok nor the failing connections behind *)
(* it make the same batch count again.                                     *)
NoDuplicates == \A n \in Node : IsInjective(messages[n])

(* The room as its members see it is a RoomLog.                            *)
Log == INSTANCE RoomLog WITH Time <- 1..MaxTime, held <- [n \in Node |-> Msgs(n)]
ImplementsRoomLog == Log!Spec

Undisturbed == \A n \in Node : ~stopped[n]

(* The batch of queue q did not fit: syncMsgs waits for the answer to a    *)
(* frame that WriteStruct has refused.                                     *)
Stuck(q) == \E c \in Conn : QueueOf(c) = q /\ client[c] = "stuck"

(* The room of the queue's owner has a message that no peer accepts.       *)
HeldUp(q) == \E m \in Msgs(q[1]) : ~m.sigOk

(* RunMessageQueue goes on until the peer has every message that is in the *)
(* room when no sync is under way and that LastSyncState does not cover,   *)
(* however many connections fail.  Three things end that: the member stops *)
(* its queues, the batch outgrows a frame, or an invalid message is in it. *)
PendingIsDelivered ==
  \A q \in Queue : \A m \in Message :
    (/\ m \in Msgs(q[1]) /\ IsNewer(m, lastSyncState[q])
     /\ queue[q] # "sync" /\ Undisturbed)
      ~> (m \in Msgs(q[2]) \/ ~Undisturbed \/ Stuck(q) \/ HeldUp(q))

(* The same of every message, whenever it is sent.                         *)
EventuallyDelivered ==
  \A q \in Queue : \A m \in Message :
    (m \in Msgs(q[1]) /\ Undisturbed) ~> (m \in Msgs(q[2]) \/ ~Undisturbed)

(* A sync ends, also one that is refused, and after StopQueues so does the *)
(* queue, unless a batch has not fitted: syncMsgs has no timeout and does  *)
(* not look at the context, so that such a sync and its queue end only if  *)
(* the connection fails.                                                   *)
QueuesGoOn ==
  \A q \in Queue :
    /\ (queue[q] = "sync") ~> (queue[q] # "sync" \/ Stuck(q))
    /\ stopped[q[1]] ~> (queue[q] = "done" \/ Stuck(q))

==============================================================================
