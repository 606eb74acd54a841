--------------------------- MODULE RoomSyncProofs ---------------------------
(***************************************************************************)
(* Proofs about RoomSync, for any number of members, connections, API      *)
(* goroutines, messages and failures.                                      *)
(*                                                                         *)
(* The first part holds however calls overlap.  Every SyncMap, the copies  *)
(* that goroutines work on included, speaks of messages that the room      *)
(* holds, and Messages only grows; so a push that passes over the message  *)
(* of an API call has met a later one of the same member.                  *)
(*                                                                         *)
(* The second part is about behaviours in which no member sends two        *)
(* messages at once.  A batch is then a part of a log in which the         *)
(* messages of every sender stand in the order they were sent, without     *)
(* gaps.  PushMessages walks that log from its start; whatever it passes   *)
(* over, it already holds, because both the SyncMap that chose the batch   *)
(* and the one it compares with are backed by messages of the room.        *)
(***************************************************************************)
EXTENDS RoomSync, TLAPS

Held == [n \in Node |-> Msgs(n)]

(* What has been sent: the messages that their own senders hold.           *)
Sent == {m \in Message : m \in Held[m.sender]}

Earlier(k, m) == k.sender = m.sender /\ k.time < m.time

(* Member n holds the message every entry of map is about.                 *)
Backed(n, map) ==
  \A s \in Node : map[s] # 0 => \E m \in Held[n] : m.sender = s /\ m.time = map[s]

(* Logs have no messages that their senders do not have.                   *)
LogsSent ==
  /\ \A n \in Node : \A i \in DOMAIN messages[n] : messages[n][i] \in Sent
  /\ \A c \in Conn : \A i \in DOMAIN batchLog[c] : batchLog[c][i] \in Sent

MapsBacked ==
  /\ \A n \in Node : Backed(n, syncState[n])
  /\ \A t \in Thread : Backed(At(t), remoteSyncTimes[t]) /\ Backed(At(t), newSyncState[t])

(* A sender never uses a time twice nor a time its clock has not reached.  *)
SentTimes ==
  \A m \in Sent :
    /\ m.time <= clock[m.sender]
    /\ \A k \in Sent : k.sender = m.sender /\ k.time = m.time => k = m

(* Neither does it for the messages that API goroutines are about to push. *)
PendingSends ==
  \A a \in Api :
    /\ remoteSyncTimes[a] = NoEntries
    /\ pc[a] \in {"idle", "copy", "lock", "loop"}
    /\ pc[a] # "idle" =>
         /\ Len(batchLog[a]) = 1
         /\ batchLog[a][1].sender = Home[a]
         /\ batchLog[a][1].time <= clock[Home[a]]
         /\ pos[a] = 1 => \A k \in Sent : k.sender = Home[a] => k.time # batchLog[a][1].time
         /\ \A b \in Api \ {a} : Home[b] = Home[a] /\ pc[b] # "idle"
              => batchLog[b][1].time # batchLog[a][1].time

(* Member n holds m, or a later message of the same sender.                *)
HeldOrOvertaken(n, m) == m \in Held[n] \/ \E k \in Held[n] : Earlier(m, k)

(* What has become of the message of an API call.                          *)
SendsAccounted ==
  \A a \in Api : pc[a] # "idle" /\ pos[a] # 1 => HeldOrOvertaken(Home[a], batchLog[a][1])

(* Where the loop of PushMessages is.                                      *)
Positions ==
  \A t \in Thread :
    /\ pos[t] # 0
    /\ pc[t] \in {"idle", "offered", "copy", "lock"} => pos[t] = 1
    /\ pc[t] = "reply" => pos[t] > Len(batchLog[t])

(* An invalid message never gets past the check of convClientHandler.      *)
SignaturesChecked ==
  /\ \A n \in Node : \A m \in Held[n] : m.sender = n \/ m.sigOk
  /\ \A c \in Conn : pc[c] \in {"copy", "lock", "loop"} => SigsAreValid(c)

SafeInv ==
  /\ LogsSent
  /\ MapsBacked
  /\ SentTimes
  /\ PendingSends
  /\ SendsAccounted
  /\ Positions
  /\ SignaturesChecked

(* The messages of log L have been sent by their senders, and none stands  *)
(* before an earlier message of its sender.                                *)
Ordered(L) ==
  \A i \in DOMAIN L :
    /\ L[i] \in Sent
    /\ \A k \in Sent : Earlier(k, L[i]) => \E j \in 1..(i-1) : L[j] = k

LogsOrdered ==
  /\ \A n \in Node : Ordered(messages[n])
  /\ \A c \in Conn : Ordered(batchLog[c])

(* What an API goroutine is about to push is newer than all that is there. *)
PendingNewest ==
  \A a \in Api : pc[a] # "idle" =>
    /\ batchLog[a][1].time = clock[Home[a]]
    /\ pos[a] = 1 => \A k \in Sent : k.sender = Home[a] => k.time < clock[Home[a]]

(* The part of the log that the loop has passed is in the room.            *)
PassedIsHeld ==
  \A t \in Thread : \A j \in DOMAIN batchLog[t] : j < pos[t] => batchLog[t][j] \in Held[At(t)]

OrderInv ==
  /\ LogsOrdered
  /\ PendingNewest
  /\ PassedIsHeld

------------------------------------------------------------------------------
(* Types                                                                   *)

LEMMA QueueOfType == \A c \in Conn : QueueOf(c) \in Queue
  BY DEF QueueOf, Queue

LEMMA AtType == \A t \in Thread : At(t) \in Node
  BY ConstantsAssumption DEF At, Thread

LEMMA NoEntriesType == NoEntries \in SyncMap
  BY ConstantsAssumption DEF NoEntries, SyncMap

LEMMA TypeInit == Init => TypeOK
  BY NoEntriesType, ConstantsAssumption DEF Init, TypeOK

LEMMA TypeQueue ==
  ASSUME TypeOK, NEW q \in Queue, QueueNext(q)
  PROVE  TypeOK'
  <1> USE DEF TypeOK, roomVars, connVars, threadVars, localVars
  <1>1. CASE QueueDone(q)
    BY <1>1 DEF QueueDone
  <1>2. CASE QueueInSync(q)
    BY <1>2 DEF QueueInSync
  <1>3. CASE Wake(q)
    BY <1>3 DEF Wake
  <1>4. CASE DialFails(q)
    BY <1>4, ConstantsAssumption DEF DialFails
  <1> QED
    BY <1>1, <1>2, <1>3, <1>4 DEF QueueNext

LEMMA TypeReturn ==
  ASSUME TypeOK, NEW t \in Thread, Return(t)
  PROVE  /\ pc' \in [Thread -> {"idle", "offered", "copy", "lock", "loop", "reply"}]
         /\ batchLog' \in [Thread -> Seq(Message)]
         /\ remoteSyncTimes' \in [Thread -> SyncMap]
         /\ newSyncState' \in [Thread -> SyncMap]
         /\ pos' \in [Thread -> Nat]
  BY NoEntriesType DEF TypeOK, Return

LEMMA TypeConn ==
  ASSUME TypeOK, NEW c \in Conn, ConnNext(c)
  PROVE  TypeOK'
  <1> USE QueueOfType DEF TypeOK, roomVars, queueVars, connVars, threadVars, localVars
  <1>0. c \in Thread /\ Src[c] \in Node /\ Dst[c] \in Node
    BY ConstantsAssumption DEF Thread
  <1>1. CASE Dial(c)
    BY <1>1 DEF Dial
  <1>2. CASE SendBatch(c)
    <2>1. messages[Src[c]] \in Seq(Message)
      BY <1>0
    <2>2. batchLog' \in [Thread -> Seq(Message)]
      BY <1>0, <1>2, <2>1 DEF SendBatch
    <2>3. client' \in [Conn -> {"idle", "dialed", "sent", "stuck"}]
      BY <1>2 DEF SendBatch
    <2> QED
      BY <1>2, <2>2, <2>3 DEF SendBatch
  <1>3. CASE SyncDone(c)
    BY <1>0, <1>3, TypeReturn DEF SyncDone
  <1>4. CASE SyncError(c)
    BY <1>4 DEF SyncError
  <1>5. CASE Break(c)
    BY <1>5, ConstantsAssumption DEF Break
  <1>6. CASE Offer(c)
    BY <1>0, <1>6 DEF Offer
  <1>7. CASE RecvBatch(c)
    BY <1>0, <1>7 DEF RecvBatch
  <1>8. CASE RejectBatch(c)
    BY <1>0, <1>8, TypeReturn DEF RejectBatch
  <1>9. CASE RecvNothing(c)
    BY <1>0, <1>9 DEF RecvNothing
  <1>10. CASE ReplyLost(c)
    BY <1>0, <1>10, TypeReturn DEF ReplyLost
  <1> QED
    BY <1>1, <1>2, <1>3, <1>4, <1>5, <1>6, <1>7, <1>8, <1>9, <1>10 DEF ConnNext

LEMMA TypeNewMessage ==
  ASSUME TypeOK, NEW a \in Api, NewMessage(a)
  PROVE  TypeOK'
  <1>0. a \in Thread /\ Home[a] \in Node
    BY ConstantsAssumption DEF Thread
  <1>1. clock[Home[a]] + 1 \in 1..MaxTime
    BY <1>0, ConstantsAssumption DEF NewMessage, TypeOK
  <1>2. PICK ok \in SigOk :
          batchLog' = [batchLog EXCEPT ![a] =
                     <<[sender |-> Home[a], time |-> clock[Home[a]] + 1, sigOk |-> ok]>>]
    BY DEF NewMessage
  <1> DEFINE m == [sender |-> Home[a], time |-> clock[Home[a]] + 1, sigOk |-> ok]
  <1>3. m \in Message
    BY <1>0, <1>1, ConstantsAssumption DEF Message
  <1>4. batchLog' = [batchLog EXCEPT ![a] = <<m>>]
    BY <1>2
  <1> HIDE DEF m
  <1>5. batchLog' \in [Thread -> Seq(Message)]
    BY <1>0, <1>3, <1>4 DEF TypeOK
  <1> QED
    BY <1>0, <1>1, <1>5, ConstantsAssumption DEF TypeOK, NewMessage, queueVars, connVars

(* The message that the loop of PushMessages looks at.                     *)
LEMMA LoopMessage ==
  ASSUME TypeOK, NEW t \in Thread, PushNext(t), pos[t] # 0
  PROVE  pos[t] \in DOMAIN batchLog[t] /\ batchLog[t][pos[t]] \in Message
  <1>1. batchLog[t] \in Seq(Message) /\ pos[t] \in Nat /\ pos[t] <= Len(batchLog[t])
    BY DEF TypeOK, PushNext
  <1> QED
    BY <1>1

LEMMA TypePush ==
  ASSUME TypeOK, NEW t \in Thread, PushNextStep(t)
  PROVE  TypeOK'
  <1> USE DEF TypeOK, roomVars, queueVars, connVars, localVars
  <1>0. At(t) \in Node
    BY AtType
  <1>1. CASE PushCopy(t)
    BY <1>0, <1>1 DEF PushCopy
  <1>2. CASE PushLock(t)
    BY <1>0, <1>2 DEF PushLock
  <1>3. CASE PushNext(t)
    <2> DEFINE m == batchLog[t][pos[t]]
    <2>1. CASE Accepts(t)
      <3>1. m \in Message
        <4>1. batchLog[t] \in Seq(Message) /\ pos[t] \in DOMAIN batchLog[t]
          BY <2>1 DEF Accepts, Batch, findMessagesToSync
        <4> QED
          BY <4>1
      <3>2. m.sender \in Node /\ m.time \in 0..MaxTime
        BY <3>1, ConstantsAssumption DEF Message
      <3>3. /\ messages' = [messages EXCEPT ![At(t)] = Append(@, m)]
            /\ newSyncState' = [newSyncState EXCEPT ![t][m.sender] = m.time]
            /\ pos' = [pos EXCEPT ![t] = @ + 1]
            /\ UNCHANGED <<syncState, msgUpdateMutex, stopped, clock, queueVars, connVars,
                           pc, batchLog, remoteSyncTimes>>
        BY <1>3, <2>1 DEF PushNext
      <3> HIDE DEF m
      <3>4. messages' \in [Node -> Seq(Message)]
        BY <1>0, <3>1, <3>3
      <3>5. newSyncState' \in [Thread -> SyncMap]
        BY <3>2, <3>3 DEF SyncMap
      <3> QED
        BY <3>3, <3>4, <3>5
    <2>2. CASE ~Accepts(t)
      BY <1>3, <2>2 DEF PushNext
    <2> QED
      BY <2>1, <2>2
  <1>4. CASE PushUnlock(t)
    BY <1>0, <1>4, TypeReturn DEF PushUnlock
  <1> QED
    BY <1>1, <1>2, <1>3, <1>4 DEF PushNextStep

LEMMA TypeStep == TypeOK /\ [Next]_vars => TypeOK'
  <1> SUFFICES ASSUME TypeOK, [Next]_vars PROVE TypeOK'
    OBVIOUS
  <1>1. ASSUME NEW n \in Stops, StopQueues(n) PROVE TypeOK'
    BY <1>1, ConstantsAssumption
       DEF TypeOK, StopQueues, queueVars, connVars, threadVars, localVars
  <1>2. CASE UNCHANGED vars
    BY <1>2 DEF TypeOK, vars, roomVars, queueVars, connVars, threadVars, localVars
  <1> QED
    BY <1>1, <1>2, TypeQueue, TypeConn, TypeNewMessage, TypePush DEF Next

(* Every variable of the room synchronisation keeps its type.              *)
THEOREM TypeCorrect == Spec => []TypeOK
  BY TypeInit, TypeStep, PTL DEF Spec

------------------------------------------------------------------------------
(* What holds however calls overlap                                        *)

LEMMA HeldSame == ASSUME UNCHANGED messages PROVE Held' = Held /\ Sent' = Sent
  BY DEF Held, Sent, Msgs, Range

LEMMA HeldAppended ==
  ASSUME TypeOK, NEW n \in Node, NEW m \in Message,
         messages' = [messages EXCEPT ![n] = Append(@, m)]
  PROVE  /\ Held' = [Held EXCEPT ![n] = @ \cup {m}]
         /\ m.sender = n => Sent' = Sent \cup {m}
         /\ m \in Sent => Sent' = Sent
  <1>1. \A k \in Node : messages[k] \in Seq(Message)
    BY DEF TypeOK
  <1>2. Msgs(n)' = Msgs(n) \cup {m}
    <2> DEFINE L == messages[n]
               M == Append(L, m)
    <2>1. messages'[n] = M
      BY DEF TypeOK
    <2>2. L \in Seq(Message)
      BY <1>1
    <2> HIDE DEF L
    <2>3. DOMAIN M = 1..(Len(L) + 1) /\ DOMAIN L = 1..Len(L) /\ Len(L) \in Nat
      BY <2>2
    <2>4. \A i \in DOMAIN L : M[i] = L[i]
      BY <2>2
    <2>5. M[Len(L) + 1] = m
      BY <2>2
    <2> HIDE DEF M
    <2>6. Range(M) = Range(L) \cup {m}
      BY <2>3, <2>4, <2>5 DEF Range
    <2> QED
      BY <2>1, <2>6 DEF Msgs, L
  <1>3. \A k \in Node : k # n => Msgs(k)' = Msgs(k)
    BY DEF TypeOK, Msgs
  <1>4. Held' = [Held EXCEPT ![n] = @ \cup {m}]
    BY <1>2, <1>3 DEF Held
  <1>5. \A k \in Message : k.sender \in Node
    BY DEF Message
  <1>6. \A k \in Message : k \in Held'[k.sender] <=> k \in Held[k.sender] \/ (k = m /\ m.sender = n)
    BY <1>4, <1>5 DEF Held
  <1> QED
    BY <1>4, <1>6 DEF Sent

LEMMA HeldIsSent ==
  ASSUME LogsSent, NEW n \in Node
  PROVE  Held[n] \subseteq Sent
  BY DEF LogsSent, Held, Msgs, Range

LEMMA SafeInit == Init => SafeInv
  <1> SUFFICES ASSUME Init PROVE SafeInv
    OBVIOUS
  <1>1. Held = [n \in Node |-> {}] /\ Sent = {}
    <2>1. \A n \in Node : Msgs(n) = {}
      BY DEF Init, Msgs, Range
    <2> QED
      BY <2>1 DEF Held, Sent, Message
  <1>2. \A c \in Conn : c \in Thread
    BY DEF Thread
  <1>3. \A a \in Api : a \in Thread
    BY DEF Thread
  <1>4. LogsSent
    BY <1>2 DEF Init, LogsSent
  <1>5. MapsBacked
    BY DEF Init, MapsBacked, Backed, NoEntries
  <1>6. PendingSends /\ SendsAccounted
    BY <1>3 DEF Init, PendingSends, SendsAccounted
  <1> QED
    BY <1>1, <1>2, <1>4, <1>5, <1>6
       DEF SafeInv, Init, SentTimes, Positions, SignaturesChecked

(* Steps of the queues and of StopQueues touch nothing SafeInv is about.   *)
LEMMA SafeQuiet ==
  ASSUME TypeOK, SafeInv, UNCHANGED <<messages, syncState, clock, threadVars>>
  PROVE  SafeInv'
  <1>1. Held' = Held /\ Sent' = Sent
    BY HeldSame
  <1> USE <1>1 DEF SafeInv, threadVars, localVars
  <1>2. LogsSent'
    BY DEF LogsSent
  <1>3. MapsBacked'
    BY DEF MapsBacked, Backed
  <1>4. SentTimes' /\ PendingSends' /\ SendsAccounted'
    BY DEF SentTimes, PendingSends, SendsAccounted, HeldOrOvertaken
  <1>5. Positions' /\ SignaturesChecked'
    BY DEF Positions, SignaturesChecked, SigsAreValid, Batch, findMessagesToSync, IsNewer
  <1> QED
    BY <1>2, <1>3, <1>4, <1>5

(* A handler returns.                                                      *)
LEMMA SafeReturn ==
  ASSUME TypeOK, SafeInv, NEW c \in Conn, Return(c), UNCHANGED <<messages, syncState, clock>>
  PROVE  SafeInv'
  <1>1. Held' = Held /\ Sent' = Sent
    BY HeldSame
  <1>2. c \in Thread /\ c \notin Api /\ \A a \in Api : a \in Thread
    BY ConstantsAssumption DEF Thread
  <1>3. \A t \in Thread :
          /\ pc'[t] = IF t = c THEN "idle" ELSE pc[t]
          /\ batchLog'[t] = IF t = c THEN <<>> ELSE batchLog[t]
          /\ remoteSyncTimes'[t] = IF t = c THEN NoEntries ELSE remoteSyncTimes[t]
          /\ newSyncState'[t] = IF t = c THEN NoEntries ELSE newSyncState[t]
          /\ pos'[t] = IF t = c THEN 1 ELSE pos[t]
    BY <1>2 DEF Return, TypeOK
  <1> USE <1>1, <1>2, <1>3 DEF SafeInv
  <1>4. LogsSent'
    BY DEF LogsSent, Thread
  <1>5. MapsBacked'
    BY DEF MapsBacked, Backed, NoEntries
  <1>6. SentTimes' /\ PendingSends' /\ SendsAccounted'
    BY DEF SentTimes, PendingSends, SendsAccounted, HeldOrOvertaken
  <1>7. Positions'
    BY DEF Positions
  <1>8. SignaturesChecked'
    BY DEF SignaturesChecked, SigsAreValid, Batch, findMessagesToSync, IsNewer, Thread
  <1> QED
    BY <1>4, <1>5, <1>6, <1>7, <1>8

LEMMA SafeSendBatch ==
  ASSUME TypeOK, SafeInv, NEW c \in Conn, SendBatch(c)
  PROVE  SafeInv'
  <1>1. Held' = Held /\ Sent' = Sent
    BY HeldSame DEF SendBatch, roomVars
  <1>2. /\ c \in Thread /\ c \notin Api /\ \A a \in Api : a \in Thread
        /\ Src[c] \in Node /\ pc[c] = "offered"
    BY ConstantsAssumption DEF Thread, SendBatch
  <1>3. /\ batchLog' = batchLog \/ batchLog' = [batchLog EXCEPT ![c] = messages[Src[c]]]
        /\ UNCHANGED <<messages, syncState, clock, pc, remoteSyncTimes, newSyncState, pos>>
    BY DEF SendBatch, roomVars
  <1>4. \A t \in Thread : \/ batchLog'[t] = batchLog[t]
                          \/ t = c /\ batchLog'[t] = messages[Src[c]]
    BY <1>3 DEF TypeOK
  <1> USE <1>1, <1>2, <1>3, <1>4 DEF SafeInv
  <1>5. LogsSent'
    BY DEF LogsSent, Thread
  <1>6. MapsBacked'
    BY DEF MapsBacked, Backed
  <1>7. SentTimes' /\ PendingSends' /\ SendsAccounted'
    BY DEF SentTimes, PendingSends, SendsAccounted, HeldOrOvertaken
  <1>8. Positions'
    BY DEF Positions
  <1>9. SignaturesChecked'
    BY DEF SignaturesChecked, SigsAreValid, Batch, findMessagesToSync, IsNewer, Thread
  <1> QED
    BY <1>5, <1>6, <1>7, <1>8, <1>9

LEMMA SafeOffer ==
  ASSUME TypeOK, SafeInv, NEW c \in Conn, Offer(c)
  PROVE  SafeInv'
  <1>1. Held' = Held /\ Sent' = Sent
    BY HeldSame DEF Offer, roomVars
  <1>2. /\ c \in Thread /\ c \notin Api /\ \A a \in Api : a \in Thread
        /\ Dst[c] \in Node /\ At(c) = Dst[c] /\ pc[c] = "idle"
    BY ConstantsAssumption DEF Thread, Offer, At
  <1>3. /\ \A t \in Thread :
             /\ pc'[t] = IF t = c THEN "offered" ELSE pc[t]
             /\ remoteSyncTimes'[t] = IF t = c THEN syncState[Dst[c]] ELSE remoteSyncTimes[t]
        /\ UNCHANGED <<messages, syncState, clock, batchLog, newSyncState, pos>>
    BY DEF Offer, roomVars, TypeOK
  <1> USE <1>1, <1>2, <1>3 DEF SafeInv
  <1>4. LogsSent'
    BY DEF LogsSent
  <1>5. MapsBacked'
    BY DEF MapsBacked, Backed
  <1>6. SentTimes' /\ PendingSends' /\ SendsAccounted'
    BY DEF SentTimes, PendingSends, SendsAccounted, HeldOrOvertaken
  <1>7. Positions'
    BY DEF Positions
  <1>8. SignaturesChecked'
    BY DEF SignaturesChecked, SigsAreValid, Batch, findMessagesToSync, IsNewer, Thread
  <1> QED
    BY <1>4, <1>5, <1>6, <1>7, <1>8

(* What RecvBatch and RecvNothing do.                                      *)
LEMMA RecvEffect ==
  ASSUME TypeOK, NEW c \in Conn, RecvBatch(c) \/ RecvNothing(c)
  PROVE  /\ c \in Thread /\ c \notin Api /\ pc[c] = "offered"
         /\ \A t \in Thread :
              /\ pc'[t] = IF t = c THEN "copy" ELSE pc[t]
              /\ \/ batchLog'[t] = batchLog[t] /\ (t = c => SigsAreValid(c))
                 \/ t = c /\ batchLog'[t] = <<>>
         /\ UNCHANGED <<messages, syncState, clock, remoteSyncTimes, newSyncState, pos>>
  <1>1. c \in Thread /\ c \notin Api /\ pc[c] = "offered"
    BY ConstantsAssumption DEF Thread, RecvBatch, RecvNothing
  <1>2. /\ pc' = [pc EXCEPT ![c] = "copy"]
        /\ \/ batchLog' = batchLog /\ SigsAreValid(c)
           \/ batchLog' = [batchLog EXCEPT ![c] = <<>>]
        /\ UNCHANGED <<messages, syncState, clock, remoteSyncTimes, newSyncState, pos>>
    BY DEF RecvBatch, RecvNothing, roomVars, localVars
  <1> QED
    BY <1>1, <1>2 DEF TypeOK

LEMMA SafeRecv ==
  ASSUME TypeOK, SafeInv, NEW c \in Conn, RecvBatch(c) \/ RecvNothing(c)
  PROVE  SafeInv'
  <1>1. Held' = Held /\ Sent' = Sent
    BY HeldSame, RecvEffect
  <1>2. \A a \in Api : a \in Thread
    BY DEF Thread
  <1> USE <1>1, <1>2, RecvEffect DEF SafeInv
  <1>3. LogsSent'
    <2>1. \A d \in Conn : batchLog'[d] = batchLog[d] \/ batchLog'[d] = <<>>
      BY DEF Thread
    <2> QED
      BY <2>1 DEF LogsSent
  <1>4. MapsBacked'
    BY DEF MapsBacked, Backed
  <1>5. SentTimes' /\ PendingSends' /\ SendsAccounted'
    BY DEF SentTimes, PendingSends, SendsAccounted, HeldOrOvertaken
  <1>6. Positions'
    BY DEF Positions
  <1>7. SignaturesChecked'
    BY DEF SignaturesChecked, SigsAreValid, Batch, findMessagesToSync, IsNewer, Thread
  <1> QED
    BY <1>3, <1>4, <1>5, <1>6, <1>7

(* The message that NewMessage makes, and the rest of what it does.        *)
LEMMA NewMessageEffect ==
  ASSUME TypeOK, NEW a \in Api, NewMessage(a)
  PROVE  /\ a \in Thread /\ a \notin Conn /\ Home[a] \in Node /\ pc[a] = "idle"
         /\ \E m \in Message :
              /\ m.sender = Home[a] /\ m.time = clock[Home[a]] + 1
              /\ \A t \in Thread :
                   /\ pc'[t] = IF t = a THEN "copy" ELSE pc[t]
                   /\ batchLog'[t] = IF t = a THEN <<m>> ELSE batchLog[t]
         /\ \A n \in Node : clock'[n] = IF n = Home[a] THEN clock[n] + 1 ELSE clock[n]
         /\ \A n \in Node : clock[n] \in Nat
         /\ UNCHANGED <<messages, syncState, remoteSyncTimes, newSyncState, pos>>
  <1>1. a \in Thread /\ a \notin Conn /\ Home[a] \in Node
    BY ConstantsAssumption DEF Thread
  <1>2. PICK m \in Message :
          /\ m.sender = Home[a] /\ m.time = clock[Home[a]] + 1
          /\ batchLog' = [batchLog EXCEPT ![a] = <<m>>]
    <2>1. PICK ok \in SigOk :
            batchLog' = [batchLog EXCEPT ![a] =
                  <<[sender |-> Home[a], time |-> clock[Home[a]] + 1, sigOk |-> ok]>>]
      BY DEF NewMessage
    <2>2. [sender |-> Home[a], time |-> clock[Home[a]] + 1, sigOk |-> ok] \in Message
      BY <1>1, ConstantsAssumption DEF NewMessage, TypeOK, Message
    <2> QED
      BY <2>1, <2>2
  <1>3. \A t \in Thread :
          /\ pc'[t] = IF t = a THEN "copy" ELSE pc[t]
          /\ batchLog'[t] = IF t = a THEN <<m>> ELSE batchLog[t]
    BY <1>2 DEF NewMessage, TypeOK
  <1> QED
    BY <1>1, <1>2, <1>3, ConstantsAssumption DEF NewMessage, TypeOK

LEMMA SafeNewMessage ==
  ASSUME TypeOK, SafeInv, NEW a \in Api, NewMessage(a)
  PROVE  SafeInv'
  <1>1. Held' = Held /\ Sent' = Sent
    BY HeldSame, NewMessageEffect
  <1>2. PICK m \in Message :
          /\ m.sender = Home[a] /\ m.time = clock[Home[a]] + 1
          /\ \A t \in Thread :
               /\ pc'[t] = IF t = a THEN "copy" ELSE pc[t]
               /\ batchLog'[t] = IF t = a THEN <<m>> ELSE batchLog[t]
    BY NewMessageEffect
  <1>3. /\ a \in Thread /\ a \notin Conn /\ Home[a] \in Node /\ pc[a] = "idle"
        /\ \A b \in Api : b \in Thread /\ Home[b] \in Node
        /\ \A n \in Node : clock'[n] = IF n = Home[a] THEN clock[n] + 1 ELSE clock[n]
        /\ \A n \in Node : clock[n] \in Nat
        /\ UNCHANGED <<messages, syncState, remoteSyncTimes, newSyncState, pos>>
    BY NewMessageEffect, ConstantsAssumption DEF Thread
  <1>4. \A k \in Sent : k.sender \in Node /\ k.time \in Nat
    BY ConstantsAssumption DEF Sent, Message
  <1> USE <1>1, <1>3, <1>4 DEF SafeInv
  <1>5. LogsSent'
    BY <1>2 DEF LogsSent, Thread
  <1>6. MapsBacked'
    BY DEF MapsBacked, Backed
  <1>7. SentTimes'
    BY DEF SentTimes
  <1>8. PendingSends'
    <2>1. Len(batchLog'[a]) = 1 /\ batchLog'[a][1] = m /\ pc'[a] = "copy"
      BY <1>2
    <2>2. \A b \in Api : b # a => batchLog'[b] = batchLog[b] /\ pc'[b] = pc[b]
      BY <1>2
    <2>3. \A k \in Sent : k.sender = Home[a] => k.time # m.time
      BY <1>2 DEF SentTimes
    <2>4. \A b \in Api \ {a} : pc[b] # "idle" => batchLog[b][1].time \in Nat
      <3> SUFFICES ASSUME NEW b \in Api \ {a}, pc[b] # "idle" PROVE batchLog[b][1].time \in Nat
        OBVIOUS
      <3>1. batchLog[b] \in Seq(Message) /\ Len(batchLog[b]) = 1
        BY DEF TypeOK, PendingSends
      <3>2. batchLog[b][1] \in Message
        BY <3>1
      <3> QED
        BY <3>2, ConstantsAssumption DEF Message
    <2>5. \A b \in Api \ {a} : Home[b] = Home[a] /\ pc[b] # "idle"
                                 => batchLog[b][1].time # m.time
      BY <1>2, <2>4 DEF PendingSends
    <2>6. \A b \in Api \ {a} : pc[b] # "idle" => batchLog[b][1].time <= clock'[Home[b]]
      BY <2>4 DEF PendingSends
    <2> QED
      BY <1>2, <2>1, <2>2, <2>3, <2>5, <2>6 DEF PendingSends
  <1>9. SendsAccounted'
    BY <1>2 DEF SendsAccounted, HeldOrOvertaken, Positions
  <1>10. Positions'
    BY <1>2 DEF Positions
  <1>11. SignaturesChecked'
    BY <1>2 DEF SignaturesChecked, SigsAreValid, Batch, findMessagesToSync, IsNewer, Thread
  <1> QED
    BY <1>5, <1>6, <1>7, <1>8, <1>9, <1>10, <1>11

LEMMA SafePushCopy ==
  ASSUME TypeOK, SafeInv, NEW t \in Thread, PushCopy(t)
  PROVE  SafeInv'
  <1>1. Held' = Held /\ Sent' = Sent
    BY HeldSame DEF PushCopy, roomVars
  <1>2. At(t) \in Node /\ (\A b \in Api : b \in Thread) /\ pc[t] = "copy"
    BY AtType DEF Thread, PushCopy
  <1>3. /\ \A u \in Thread :
             /\ pc'[u] = IF u = t THEN "lock" ELSE pc[u]
             /\ newSyncState'[u] = IF u = t THEN syncState[At(t)] ELSE newSyncState[u]
        /\ UNCHANGED <<messages, syncState, clock, batchLog, remoteSyncTimes, pos>>
    BY DEF PushCopy, roomVars, TypeOK
  <1> USE <1>1, <1>2, <1>3 DEF SafeInv
  <1>4. LogsSent'
    BY DEF LogsSent
  <1>5. MapsBacked'
    BY DEF MapsBacked, Backed
  <1>6. SentTimes' /\ PendingSends' /\ SendsAccounted'
    BY DEF SentTimes, PendingSends, SendsAccounted, HeldOrOvertaken
  <1>7. Positions'
    BY DEF Positions
  <1>8. SignaturesChecked'
    BY DEF SignaturesChecked, SigsAreValid, Batch, findMessagesToSync, IsNewer, Thread
  <1> QED
    BY <1>4, <1>5, <1>6, <1>7, <1>8

LEMMA SafePushLock ==
  ASSUME TypeOK, SafeInv, NEW t \in Thread, PushLock(t)
  PROVE  SafeInv'
  <1>1. Held' = Held /\ Sent' = Sent
    BY HeldSame DEF PushLock
  <1>2. (\A b \in Api : b \in Thread) /\ pc[t] = "lock"
    BY DEF Thread, PushLock
  <1>3. /\ \A u \in Thread : pc'[u] = IF u = t THEN "loop" ELSE pc[u]
        /\ UNCHANGED <<messages, syncState, clock, localVars>>
    BY DEF PushLock, TypeOK
  <1> USE <1>1, <1>2, <1>3 DEF SafeInv, localVars
  <1>4. LogsSent'
    BY DEF LogsSent
  <1>5. MapsBacked'
    BY DEF MapsBacked, Backed
  <1>6. SentTimes' /\ PendingSends' /\ SendsAccounted'
    BY DEF SentTimes, PendingSends, SendsAccounted, HeldOrOvertaken
  <1>7. Positions'
    BY DEF Positions
  <1>8. SignaturesChecked'
    BY DEF SignaturesChecked, SigsAreValid, Batch, findMessagesToSync, IsNewer, Thread
  <1> QED
    BY <1>4, <1>5, <1>6, <1>7, <1>8

LEMMA UnlockEffect ==
  ASSUME TypeOK, NEW t \in Thread, PushUnlock(t)
  PROVE  /\ pc[t] = "loop" /\ pos[t] > Len(batchLog[t]) /\ At(t) \in Node
         /\ \A n \in Node : syncState'[n] = IF n = At(t) THEN newSyncState[t] ELSE syncState[n]
         /\ UNCHANGED <<messages, clock>>
         /\ \/ /\ t \in Conn
               /\ \A u \in Thread : pc'[u] = IF u = t THEN "reply" ELSE pc[u]
               /\ UNCHANGED localVars
            \/ /\ t \notin Conn
               /\ \A u \in Thread :
                    /\ pc'[u] = IF u = t THEN "idle" ELSE pc[u]
                    /\ batchLog'[u] = IF u = t THEN <<>> ELSE batchLog[u]
                    /\ remoteSyncTimes'[u] = IF u = t THEN NoEntries ELSE remoteSyncTimes[u]
                    /\ newSyncState'[u] = IF u = t THEN NoEntries ELSE newSyncState[u]
                    /\ pos'[u] = IF u = t THEN 1 ELSE pos[u]
  BY AtType DEF PushUnlock, Return, TypeOK

LEMMA SafePushUnlock ==
  ASSUME TypeOK, SafeInv, NEW t \in Thread, PushUnlock(t)
  PROVE  SafeInv'
  <1>1. Held' = Held /\ Sent' = Sent
    BY HeldSame, UnlockEffect
  <1>2. \A b \in Api : b \in Thread /\ b \notin Conn
    BY ConstantsAssumption DEF Thread
  <1> USE <1>1, <1>2, UnlockEffect DEF SafeInv, localVars
  <1>3. LogsSent'
    BY DEF LogsSent, Thread
  <1>4. MapsBacked'
    BY DEF MapsBacked, Backed, NoEntries
  <1>5. SentTimes'
    BY DEF SentTimes
  <1>6. PendingSends' /\ SendsAccounted'
    BY DEF PendingSends, SendsAccounted, HeldOrOvertaken
  <1>7. Positions'
    BY DEF Positions
  <1>8. SignaturesChecked'
    BY DEF SignaturesChecked, SigsAreValid, Batch, findMessagesToSync, IsNewer, Thread
  <1> QED
    BY <1>3, <1>4, <1>5, <1>6, <1>7, <1>8

------------------------------------------------------------------------------
(* PushNext                                                                *)

LEMMA PushNextEffect ==
  ASSUME TypeOK, SafeInv, NEW t \in Thread, PushNext(t)
  PROVE  /\ pos[t] \in DOMAIN batchLog[t] /\ batchLog[t][pos[t]] \in Message
         /\ At(t) \in Node /\ pc[t] = "loop"
         /\ \A u \in Thread : pos'[u] = IF u = t THEN pos[t] + 1 ELSE pos[u]
         /\ UNCHANGED <<syncState, clock, pc, batchLog, remoteSyncTimes>>
         /\ ~Accepts(t) => UNCHANGED <<messages, newSyncState>>
         /\ Accepts(t) =>
              /\ messages' = [messages EXCEPT ![At(t)] = Append(@, batchLog[t][pos[t]])]
              /\ newSyncState' = [newSyncState EXCEPT
                    ![t][batchLog[t][pos[t]].sender] = batchLog[t][pos[t]].time]
  <1>1. pos[t] # 0
    BY DEF SafeInv, Positions
  <1>2. pos[t] \in DOMAIN batchLog[t] /\ batchLog[t][pos[t]] \in Message
    BY <1>1, LoopMessage
  <1>3. /\ pc[t] = "loop" /\ pos' = [pos EXCEPT ![t] = @ + 1]
        /\ UNCHANGED <<syncState, clock, pc, batchLog, remoteSyncTimes>>
    BY DEF PushNext
  <1>4. ~Accepts(t) => UNCHANGED <<messages, newSyncState>>
    BY DEF PushNext
  <1>5. Accepts(t) =>
          /\ messages' = [messages EXCEPT ![At(t)] = Append(@, batchLog[t][pos[t]])]
          /\ newSyncState' = [newSyncState EXCEPT
                ![t][batchLog[t][pos[t]].sender] = batchLog[t][pos[t]].time]
    BY DEF PushNext
  <1> QED
    BY <1>2, <1>3, <1>4, <1>5, AtType DEF TypeOK

(* The loop of an API goroutine has one message, of its own member.        *)
LEMMA ApiMessage ==
  ASSUME TypeOK, SafeInv, NEW a \in Api, PushNext(a)
  PROVE  /\ a \in Thread /\ At(a) = Home[a] /\ Home[a] \in Node
         /\ pos[a] = 1 /\ batchLog[a][1] \in Message
         /\ batchLog[a][1].sender = Home[a]
         /\ batchLog[a][1].time <= clock[Home[a]]
         /\ \A k \in Sent : k.sender = Home[a] => k.time # batchLog[a][1].time
  <1>1. a \in Thread /\ At(a) = Home[a] /\ Home[a] \in Node
    BY ConstantsAssumption DEF Thread, At
  <1>2. /\ pos[a] \in DOMAIN batchLog[a] /\ batchLog[a][pos[a]] \in Message
        /\ pc[a] = "loop"
    BY <1>1, PushNextEffect
  <1>3. batchLog[a] \in Seq(Message) /\ Len(batchLog[a]) = 1
    BY <1>1, <1>2 DEF TypeOK, SafeInv, PendingSends
  <1>4. pos[a] = 1
    BY <1>2, <1>3
  <1> QED
    BY <1>1, <1>2, <1>4 DEF SafeInv, PendingSends

(* An API goroutine's loop passes over its message: a later one of the     *)
(* member's is in the room.                                                *)
LEMMA SkippedIsOvertaken ==
  ASSUME TypeOK, SafeInv, NEW a \in Api, PushNext(a), ~Accepts(a)
  PROVE  HeldOrOvertaken(Home[a], batchLog[a][1])
  <1> DEFINE m == batchLog[a][1]
             n == Home[a]
  <1>1. /\ a \in Thread /\ At(a) = n /\ n \in Node /\ m \in Message /\ m.sender = n
        /\ pos[a] = 1 /\ \A k \in Sent : k.sender = n => k.time # m.time
    BY ApiMessage
  <1>2. pos[a] \in DOMAIN batchLog[a]
    BY <1>1, PushNextEffect
  <1> HIDE DEF n
  <1>3. m.time \in Nat /\ m.time > 0
    BY <1>1, ConstantsAssumption DEF Message
  <1>4. IsNewer(m, remoteSyncTimes[a])
    BY <1>1, <1>3 DEF SafeInv, PendingSends, IsNewer, NoEntries
  <1>5. ~IsNewer(m, syncState[n])
    <2>1. 1 \in DOMAIN batchLog[a] /\ m = batchLog[a][1]
      BY <1>1, <1>2
    <2>2. 1 \in Batch(a)
      BY <1>4, <2>1 DEF Batch, findMessagesToSync
    <2> HIDE DEF m
    <2> QED
      BY <1>1, <2>1, <2>2 DEF Accepts
  <1>6. syncState[n][n] \in Nat /\ syncState[n][n] >= m.time
    <2>1. syncState[n][n] \in Nat
      BY <1>1, ConstantsAssumption DEF TypeOK, SyncMap
    <2>2. ~(m.time > syncState[n][n])
      BY <1>1, <1>5 DEF IsNewer
    <2> QED
      BY <1>3, <2>1, <2>2
  <1>7. PICK k \in Held[n] : k.sender = n /\ k.time = syncState[n][n]
    BY <1>1, <1>3, <1>6 DEF SafeInv, MapsBacked, Backed
  <1>8. k \in Sent
    BY <1>1, <1>7, HeldIsSent DEF SafeInv
  <1>9. Earlier(m, k)
    BY <1>1, <1>3, <1>6, <1>7, <1>8 DEF Earlier
  <1> QED
    BY <1>7, <1>9 DEF HeldOrOvertaken, n

LEMMA SafePushSkip ==
  ASSUME TypeOK, SafeInv, NEW t \in Thread, PushNext(t), ~Accepts(t)
  PROVE  SafeInv'
  <1>1. Held' = Held /\ Sent' = Sent
    BY HeldSame, PushNextEffect
  <1>2. /\ pos[t] \in DOMAIN batchLog[t] /\ pc[t] = "loop" /\ At(t) \in Node
        /\ \A u \in Thread : pos'[u] = IF u = t THEN pos[t] + 1 ELSE pos[u]
        /\ UNCHANGED <<messages, syncState, clock, pc, batchLog, remoteSyncTimes, newSyncState>>
    BY PushNextEffect
  <1>3. pos[t] \in Nat /\ \A a \in Api : a \in Thread
    BY DEF TypeOK, Thread
  <1> USE <1>1, <1>2, <1>3 DEF SafeInv
  <1>4. LogsSent'
    BY DEF LogsSent
  <1>5. MapsBacked'
    BY DEF MapsBacked, Backed
  <1>6. SentTimes'
    BY DEF SentTimes
  <1>7. PendingSends'
    <2>1. \A a \in Api : pos'[a] = 1 => pos[a] = 1
      BY DEF Positions
    <2> QED
      BY <2>1 DEF PendingSends
  <1>8. SendsAccounted'
    <2>1. t \in Api => HeldOrOvertaken(Home[t], batchLog[t][1])
      BY SkippedIsOvertaken
    <2> QED
      BY <2>1 DEF SendsAccounted, HeldOrOvertaken
  <1>9. Positions'
    BY DEF Positions
  <1>10. SignaturesChecked'
    BY DEF SignaturesChecked, SigsAreValid, Batch, findMessagesToSync, IsNewer
  <1> QED
    BY <1>4, <1>5, <1>6, <1>7, <1>8, <1>9, <1>10

(* The message that the loop accepts.                                      *)
LEMMA AcceptedMessage ==
  ASSUME TypeOK, SafeInv, NEW t \in Thread, PushNext(t), Accepts(t),
         NEW m, m = batchLog[t][pos[t]]
  PROVE  /\ m \in Message /\ (m.sender = At(t) \/ m.sigOk)
         /\ \/ t \in Conn /\ m \in Sent
            \/ /\ t \in Api /\ pos[t] = 1 /\ m.sender = Home[t] /\ At(t) = Home[t]
               /\ m.time <= clock[Home[t]]
               /\ \A k \in Sent : k.sender = Home[t] => k.time # m.time
  <1>1. /\ pos[t] \in DOMAIN batchLog[t] /\ m \in Message /\ pc[t] = "loop"
    BY PushNextEffect
  <1>2. CASE t \in Conn
    <2>1. m \in Sent
      BY <1>1, <1>2 DEF SafeInv, LogsSent
    <2>2. m.sigOk
      BY <1>1, <1>2 DEF SafeInv, SignaturesChecked, SigsAreValid, Accepts
    <2> QED
      BY <1>1, <1>2, <2>1, <2>2
  <1>3. CASE t \in Api
    BY <1>1, <1>3, ApiMessage
  <1> QED
    BY <1>2, <1>3 DEF Thread

(* What accepting it does to the rooms.                                    *)
LEMMA AcceptEffect ==
  ASSUME TypeOK, SafeInv, NEW t \in Thread, PushNext(t), Accepts(t),
         NEW m, m = batchLog[t][pos[t]]
  PROVE  /\ Held' = [Held EXCEPT ![At(t)] = @ \cup {m}]
         /\ \A k \in Node : Held'[k] = IF k = At(t) THEN Held[k] \cup {m} ELSE Held[k]
         /\ m \in Sent' /\ Sent \subseteq Sent' /\ Sent' \subseteq Sent \cup {m}
         /\ m.sender \in Node /\ m.time \in Nat
         /\ \A k \in Sent : k.sender \in Node /\ k.time \in Nat
  <1>1. /\ m \in Message
        /\ \/ t \in Conn /\ m \in Sent
           \/ t \in Api /\ m.sender = Home[t] /\ At(t) = Home[t]
    BY AcceptedMessage
  <1>2. At(t) \in Node /\ messages' = [messages EXCEPT ![At(t)] = Append(@, m)]
    BY PushNextEffect
  <1>3. /\ Held' = [Held EXCEPT ![At(t)] = @ \cup {m}]
        /\ m.sender = At(t) => Sent' = Sent \cup {m}
        /\ m \in Sent => Sent' = Sent
    BY <1>1, <1>2, HeldAppended
  <1>4. \A k \in Node : Held'[k] = IF k = At(t) THEN Held[k] \cup {m} ELSE Held[k]
    BY <1>3 DEF Held
  <1>5. m.sender \in Node /\ m.time \in Nat /\ \A k \in Sent : k.sender \in Node /\ k.time \in Nat
    BY <1>1, ConstantsAssumption DEF Sent, Message
  <1> QED
    BY <1>1, <1>3, <1>4, <1>5

LEMMA SafePushAccept ==
  ASSUME TypeOK, SafeInv, NEW t \in Thread, PushNext(t), Accepts(t)
  PROVE  SafeInv'
  <1> DEFINE n == At(t)
             m == batchLog[t][pos[t]]
  <1>1. /\ m \in Message /\ (m.sender = n \/ m.sigOk)
        /\ \/ t \in Conn /\ m \in Sent
           \/ /\ t \in Api /\ pos[t] = 1 /\ m.sender = Home[t] /\ n = Home[t]
              /\ m.time <= clock[Home[t]]
              /\ \A k \in Sent : k.sender = Home[t] => k.time # m.time
    BY AcceptedMessage
  <1>2. /\ n \in Node /\ pc[t] = "loop" /\ pos[t] \in DOMAIN batchLog[t]
        /\ messages' = [messages EXCEPT ![n] = Append(@, m)]
        /\ newSyncState' = [newSyncState EXCEPT ![t][m.sender] = m.time]
        /\ \A u \in Thread : pos'[u] = IF u = t THEN pos[t] + 1 ELSE pos[u]
        /\ UNCHANGED <<syncState, clock, pc, batchLog, remoteSyncTimes>>
    BY PushNextEffect
  <1>3. /\ \A k \in Node : Held'[k] = IF k = n THEN Held[k] \cup {m} ELSE Held[k]
        /\ m \in Sent' /\ Sent \subseteq Sent' /\ Sent' \subseteq Sent \cup {m}
        /\ m.sender \in Node /\ m.time \in Nat
        /\ \A k \in Sent : k.sender \in Node /\ k.time \in Nat
    BY AcceptEffect
  <1>4. /\ m = batchLog[t][pos[t]] /\ n = At(t) /\ pos[t] \in Nat /\ pos[t] # 0
        /\ \A a \in Api : a \in Thread
    BY DEF TypeOK, SafeInv, Positions, Thread
  <1> HIDE DEF m, n
  <1>5. LogsSent'
    <2>1. \A c \in Conn : \A i \in DOMAIN batchLog'[c] : batchLog'[c][i] \in Sent'
      BY <1>2, <1>3 DEF SafeInv, LogsSent
    <2>2. \A k \in Node : k # n => messages'[k] = messages[k]
      BY <1>2 DEF TypeOK
    <2>3. messages[n] \in Seq(Message) /\ messages'[n] = Append(messages[n], m)
      BY <1>2 DEF TypeOK
    <2>4. \A i \in DOMAIN messages'[n] :
            \/ messages'[n][i] = m
            \/ i \in DOMAIN messages[n] /\ messages'[n][i] = messages[n][i]
      BY <1>1, <2>3
    <2>5. \A k \in Node : \A i \in DOMAIN messages'[k] : messages'[k][i] \in Sent'
      BY <1>3, <2>2, <2>4 DEF SafeInv, LogsSent
    <2> QED
      BY <2>1, <2>5 DEF LogsSent
  <1>6. MapsBacked'
    <2>1. \A u \in Thread, s \in Node :
            newSyncState'[u][s] = IF u = t /\ s = m.sender THEN m.time ELSE newSyncState[u][s]
      BY <1>2 DEF TypeOK, SyncMap
    <2>2. \A u \in Thread : At(u) \in Node
      BY AtType
    <2>3. m \in Held'[n]
      BY <1>2, <1>3
    <2>4. \A k \in Node : Held[k] \subseteq Held'[k]
      BY <1>3
    <2>5. ASSUME NEW k \in Node, NEW map, Backed(k, map)
          PROVE  \A s \in Node : map[s] # 0 => \E x \in Held'[k] : x.sender = s /\ x.time = map[s]
      BY <2>4, <2>5 DEF Backed
    <2>6. \A u \in Thread : \A s \in Node : newSyncState'[u][s] # 0 =>
            \E x \in Held'[At(u)] : x.sender = s /\ x.time = newSyncState'[u][s]
      <3> SUFFICES ASSUME NEW u \in Thread, NEW s \in Node, newSyncState'[u][s] # 0
                   PROVE  \E x \in Held'[At(u)] : x.sender = s /\ x.time = newSyncState'[u][s]
        OBVIOUS
      <3>1. CASE u = t /\ s = m.sender
        BY <2>1, <2>3, <3>1 DEF n
      <3>2. CASE ~(u = t /\ s = m.sender)
        <4>1. newSyncState'[u][s] = newSyncState[u][s]
          BY <2>1, <3>2
        <4> QED
          BY <2>2, <2>5, <4>1 DEF SafeInv, MapsBacked
      <3> QED
        BY <3>1, <3>2
    <2>7. \A u \in Thread : \A s \in Node : remoteSyncTimes[u][s] # 0 =>
            \E x \in Held'[At(u)] : x.sender = s /\ x.time = remoteSyncTimes[u][s]
      BY <2>2, <2>5 DEF SafeInv, MapsBacked
    <2>8. \A k \in Node : \A s \in Node : syncState[k][s] # 0 =>
            \E x \in Held'[k] : x.sender = s /\ x.time = syncState[k][s]
      BY <2>5 DEF SafeInv, MapsBacked
    <2> QED
      BY <1>2, <2>6, <2>7, <2>8 DEF MapsBacked, Backed
  <1>7. SentTimes'
    <2>1. clock' = clock /\ \A k \in Node : clock[k] \in Nat
      BY <1>2, ConstantsAssumption DEF TypeOK
    <2>2. CASE m \in Sent
      <3>1. Sent' = Sent
        BY <1>3, <2>2
      <3> QED
        BY <2>1, <3>1 DEF SafeInv, SentTimes
    <2>3. CASE m \notin Sent
      <3>1. m.time <= clock[m.sender] /\ \A k \in Sent : k.sender = m.sender => k.time # m.time
        BY <1>1, <2>3
      <3> QED
        BY <1>3, <2>1, <3>1 DEF SafeInv, SentTimes
    <2> QED
      BY <2>2, <2>3
  <1>8. PendingSends'
    <2>1. \A a \in Api : pos'[a] = 1 => pos[a] = 1 /\ a # t
      BY <1>2, <1>4 DEF SafeInv, Positions
    <2>2. ASSUME NEW a \in Api, pc[a] # "idle", pos'[a] = 1, NEW k \in Sent', k.sender = Home[a]
          PROVE  k.time # batchLog[a][1].time
      <3>1. CASE k \in Sent
        BY <2>1, <2>2, <3>1 DEF SafeInv, PendingSends
      <3>2. CASE k \notin Sent
        <4>1. k = m /\ t \in Api /\ m = batchLog[t][1] /\ Home[t] = Home[a] /\ a # t
          BY <1>1, <1>3, <1>4, <2>1, <2>2, <3>2
        <4> QED
          BY <1>2, <2>2, <4>1 DEF SafeInv, PendingSends
      <3> QED
        BY <3>1, <3>2
    <2> QED
      BY <1>2, <2>2 DEF SafeInv, PendingSends
  <1>9. SendsAccounted'
    <2>1. t \in Api => batchLog[t][1] \in Held'[Home[t]]
      <3>1. t \in Api => pos[t] = 1 /\ n = Home[t]
        BY <1>1, ConstantsAssumption
      <3>2. m \in Held'[n]
        BY <1>2, <1>3
      <3> QED
        BY <1>4, <3>1, <3>2
    <2>2. \A a \in Api : Home[a] \in Node
      BY ConstantsAssumption
    <2>3. ASSUME NEW a \in Api, pc'[a] # "idle", pos'[a] # 1
          PROVE  HeldOrOvertaken(Home[a], batchLog[a][1])'
      <3>1. CASE a = t
        BY <1>2, <2>1, <3>1 DEF HeldOrOvertaken
      <3>2. CASE a # t
        <4>1. HeldOrOvertaken(Home[a], batchLog[a][1])
          BY <1>2, <1>4, <2>3, <3>2 DEF SafeInv, SendsAccounted
        <4> QED
          BY <1>2, <1>3, <2>2, <4>1 DEF HeldOrOvertaken
      <3> QED
        BY <3>1, <3>2
    <2> QED
      BY <2>3 DEF SendsAccounted
  <1>10. Positions'
    BY <1>2, <1>4 DEF SafeInv, Positions
  <1>11. SignaturesChecked'
    <2>1. \A k \in Node : \A x \in Held'[k] : x.sender = k \/ x.sigOk
      BY <1>1, <1>3 DEF SafeInv, SignaturesChecked
    <2> QED
      BY <1>2, <2>1 DEF SafeInv, SignaturesChecked, SigsAreValid, Batch, findMessagesToSync, IsNewer
  <1> QED
    BY <1>5, <1>6, <1>7, <1>8, <1>9, <1>10, <1>11 DEF SafeInv

LEMMA SafeConn ==
  ASSUME TypeOK, SafeInv, NEW c \in Conn, ConnNext(c)
  PROVE  SafeInv'
  <1>1. CASE Dial(c) \/ SyncError(c) \/ Break(c)
    BY <1>1, SafeQuiet DEF Dial, SyncError, Break, roomVars
  <1>2. CASE SendBatch(c)
    BY <1>2, SafeSendBatch
  <1>3. CASE SyncDone(c) \/ RejectBatch(c) \/ ReplyLost(c)
    BY <1>3, SafeReturn DEF SyncDone, RejectBatch, ReplyLost, roomVars
  <1>4. CASE Offer(c)
    BY <1>4, SafeOffer
  <1>5. CASE RecvBatch(c) \/ RecvNothing(c)
    BY <1>5, SafeRecv
  <1> QED
    BY <1>1, <1>2, <1>3, <1>4, <1>5 DEF ConnNext

LEMMA SafeStep == TypeOK /\ SafeInv /\ [Next]_vars => SafeInv'
  <1> SUFFICES ASSUME TypeOK, SafeInv, [Next]_vars PROVE SafeInv'
    OBVIOUS
  <1>1. ASSUME NEW q \in Queue, QueueNext(q) PROVE SafeInv'
    BY <1>1, SafeQuiet DEF QueueNext, QueueDone, QueueInSync, Wake, DialFails, roomVars
  <1>2. ASSUME NEW c \in Conn, ConnNext(c) PROVE SafeInv'
    BY <1>2, SafeConn
  <1>3. ASSUME NEW a \in Api, NewMessage(a) PROVE SafeInv'
    BY <1>3, SafeNewMessage
  <1>4. ASSUME NEW t \in Thread, PushNextStep(t) PROVE SafeInv'
    BY <1>4, SafePushCopy, SafePushLock, SafePushSkip, SafePushAccept, SafePushUnlock
       DEF PushNextStep
  <1>5. ASSUME NEW n \in Stops, StopQueues(n) PROVE SafeInv'
    BY <1>5, SafeQuiet DEF StopQueues
  <1>6. CASE UNCHANGED vars
    BY <1>6, SafeQuiet DEF vars, roomVars
  <1> QED
    BY <1>1, <1>2, <1>3, <1>4, <1>5, <1>6 DEF Next

LEMMA SafeCorrect == Spec => [](TypeOK /\ SafeInv)
  <1>1. Init => TypeOK /\ SafeInv
    BY TypeInit, SafeInit
  <1>2. TypeOK /\ SafeInv /\ [Next]_vars => TypeOK' /\ SafeInv'
    BY TypeStep, SafeStep
  <1> QED
    BY <1>1, <1>2, PTL DEF Spec

(* SyncState never claims a message that the room does not hold, whatever  *)
(* racing PushMessages calls write into it.                                *)
THEOREM SyncStateBackedCorrect == Spec => []SyncStateBacked
  <1>1. SafeInv => SyncStateBacked
    BY DEF SafeInv, MapsBacked, Backed, Held, SyncStateBacked
  <1> QED
    BY <1>1, SafeCorrect, PTL

(* A message with an invalid signature never leaves its sender's room.     *)
THEOREM ForeignMessagesAreSignedCorrect == Spec => []ForeignMessagesAreSigned
  <1>1. SafeInv => ForeignMessagesAreSigned
    BY DEF SafeInv, SignaturesChecked, Held, ForeignMessagesAreSigned
  <1> QED
    BY <1>1, SafeCorrect, PTL

(* When an API call ends, its message is in the room or a later one of the *)
(* same member is, however many calls and handlers race with it.           *)
THEOREM FreshMessageStoredCorrect == Spec => []FreshMessageStored
  <1>1. TypeOK /\ SafeInv => FreshMessageStored
    <2> SUFFICES ASSUME TypeOK, SafeInv, NEW a \in Api, pc[a] = "loop", pos[a] > Len(batchLog[a]),
                        NEW m \in Range(batchLog[a])
                 PROVE  m \in Msgs(Home[a]) \/ \E k \in Own(Home[a]) : k.time > m.time
      BY DEF FreshMessageStored
    <2>1. a \in Thread /\ Home[a] \in Node
      BY ConstantsAssumption DEF Thread
    <2>2. batchLog[a] \in Seq(Message) /\ Len(batchLog[a]) = 1 /\ batchLog[a][1].sender = Home[a]
      BY <2>1 DEF TypeOK, SafeInv, PendingSends
    <2>3. m = batchLog[a][1] /\ m \in Message
      BY <2>2 DEF Range
    <2>4. m \in Held[Home[a]] \/ \E k \in Held[Home[a]] : Earlier(m, k)
      BY <2>2, <2>3 DEF SafeInv, SendsAccounted, HeldOrOvertaken
    <2>5. \A k \in Held[Home[a]] : k.time \in Nat
      BY <2>1, HeldIsSent, ConstantsAssumption DEF SafeInv, Sent, Message
    <2>6. m.time \in Nat
      BY <2>3, ConstantsAssumption DEF Message
    <2> QED
      BY <2>1, <2>2, <2>3, <2>4, <2>5, <2>6 DEF Held, Own, Earlier
  <1> QED
    BY <1>1, SafeCorrect, PTL

------------------------------------------------------------------------------
(* What holds as long as the sends of a member do not overlap              *)

(* What a member holds has been sent, and with it the member holds all     *)
(* earlier messages of the sender.                                         *)
LEMMA HeldPrefix ==
  ASSUME TypeOK, LogsOrdered, NEW n \in Node
  PROVE  /\ Held[n] \subseteq Sent
         /\ \A m \in Held[n], k \in Sent : Earlier(k, m) => k \in Held[n]
  <1>1. messages[n] \in Seq(Message) /\ Ordered(messages[n])
    BY DEF TypeOK, LogsOrdered
  <1>2. Held[n] = {messages[n][i] : i \in DOMAIN messages[n]}
    BY DEF Held, Msgs, Range
  <1>3. \A i \in DOMAIN messages[n] : 1..(i-1) \subseteq DOMAIN messages[n]
    BY <1>1
  <1> QED
    BY <1>1, <1>2, <1>3 DEF Ordered

LEMMA OrderInit == Init => OrderInv
  <1> SUFFICES ASSUME Init PROVE OrderInv
    OBVIOUS
  <1>1. \A t \in Conn \cup Api : t \in Thread
    BY DEF Thread
  <1>2. LogsOrdered
    BY <1>1 DEF Init, LogsOrdered, Ordered
  <1>3. PendingNewest /\ PassedIsHeld
    BY <1>1 DEF Init, PendingNewest, PassedIsHeld
  <1> QED
    BY <1>2, <1>3 DEF OrderInv

LEMMA OrderQuiet ==
  ASSUME OrderInv, UNCHANGED <<messages, clock, pc, batchLog, pos>>
  PROVE  OrderInv'
  <1>1. Held' = Held /\ Sent' = Sent
    BY HeldSame
  <1> USE <1>1 DEF OrderInv
  <1>2. LogsOrdered'
    BY DEF LogsOrdered, Ordered
  <1>3. PendingNewest' /\ PassedIsHeld'
    BY DEF PendingNewest, PassedIsHeld
  <1> QED
    BY <1>2, <1>3

LEMMA OrderReturn ==
  ASSUME TypeOK, OrderInv, NEW t \in Thread, Return(t), UNCHANGED <<messages, clock>>
  PROVE  OrderInv'
  <1>1. Held' = Held /\ Sent' = Sent
    BY HeldSame
  <1>2. \A u \in Conn \cup Api : u \in Thread
    BY DEF Thread
  <1>3. \A u \in Thread :
          /\ pc'[u] = IF u = t THEN "idle" ELSE pc[u]
          /\ batchLog'[u] = IF u = t THEN <<>> ELSE batchLog[u]
          /\ pos'[u] = IF u = t THEN 1 ELSE pos[u]
    BY DEF Return, TypeOK
  <1> USE <1>1, <1>2, <1>3 DEF OrderInv
  <1>4. LogsOrdered'
    BY DEF LogsOrdered, Ordered
  <1>5. PendingNewest' /\ PassedIsHeld'
    BY DEF PendingNewest, PassedIsHeld
  <1> QED
    BY <1>4, <1>5

(* A step of goroutine t that changes at most its place in the code.       *)
LEMMA OrderMove ==
  ASSUME TypeOK, OrderInv, NEW t \in Thread, UNCHANGED <<messages, clock, batchLog, pos>>,
         pc[t] # "idle" \/ t \in Conn, \A u \in Thread : u # t => pc'[u] = pc[u]
  PROVE  OrderInv'
  <1>1. Held' = Held /\ Sent' = Sent
    BY HeldSame
  <1>2. \A a \in Api : a \in Thread /\ a \notin Conn
    BY ConstantsAssumption DEF Thread
  <1> USE <1>1, <1>2 DEF OrderInv
  <1>3. LogsOrdered'
    BY DEF LogsOrdered, Ordered
  <1>4. PendingNewest' /\ PassedIsHeld'
    BY DEF PendingNewest, PassedIsHeld
  <1> QED
    BY <1>3, <1>4

LEMMA OrderSendBatch ==
  ASSUME TypeOK, SafeInv, OrderInv, NEW c \in Conn, SendBatch(c)
  PROVE  OrderInv'
  <1>1. Held' = Held /\ Sent' = Sent
    BY HeldSame DEF SendBatch, roomVars
  <1>2. /\ c \in Thread /\ c \notin Api /\ \A a \in Api : a \in Thread
        /\ Src[c] \in Node /\ pc[c] = "offered"
    BY ConstantsAssumption DEF Thread, SendBatch
  <1>3. /\ batchLog' = batchLog \/ batchLog' = [batchLog EXCEPT ![c] = messages[Src[c]]]
        /\ UNCHANGED <<messages, clock, pc, pos>>
    BY DEF SendBatch, roomVars
  <1>4. \A t \in Thread : \/ batchLog'[t] = batchLog[t]
                          \/ t = c /\ batchLog'[t] = messages[Src[c]]
    BY <1>3 DEF TypeOK
  <1> USE <1>1, <1>2, <1>3, <1>4 DEF OrderInv
  <1>5. LogsOrdered'
    BY DEF LogsOrdered, Ordered, Thread
  <1>6. PendingNewest'
    BY DEF PendingNewest
  <1>7. PassedIsHeld'
    <2>1. \A j \in DOMAIN messages[Src[c]] : ~(j < 1)
      <3>1. messages[Src[c]] \in Seq(Message)
        BY DEF TypeOK
      <3> QED
        BY <3>1
    <2>2. pos[c] = 1
      BY DEF SafeInv, Positions
    <2> QED
      BY <2>1, <2>2 DEF PassedIsHeld
  <1> QED
    BY <1>5, <1>6, <1>7

LEMMA OrderRecv ==
  ASSUME TypeOK, OrderInv, NEW c \in Conn, RecvBatch(c) \/ RecvNothing(c)
  PROVE  OrderInv'
  <1>1. Held' = Held /\ Sent' = Sent
    BY HeldSame, RecvEffect
  <1>2. \A t \in Conn \cup Api : t \in Thread
    BY DEF Thread
  <1> USE <1>1, <1>2, RecvEffect DEF OrderInv
  <1>3. LogsOrdered'
    <2>1. \A d \in Conn : batchLog'[d] = batchLog[d] \/ batchLog'[d] = <<>>
      OBVIOUS
    <2> QED
      BY <2>1 DEF LogsOrdered, Ordered
  <1>4. PendingNewest' /\ PassedIsHeld'
    BY DEF PendingNewest, PassedIsHeld
  <1> QED
    BY <1>3, <1>4

(* The API calls of a member do not overlap, so no other message of the    *)
(* member is on its way when its clock moves on.                           *)
LEMMA OrderNewMessage ==
  ASSUME TypeOK, SafeInv, OrderInv, SendsInTurn', NEW a \in Api, NewMessage(a)
  PROVE  OrderInv'
  <1>1. Held' = Held /\ Sent' = Sent
    BY HeldSame, NewMessageEffect
  <1>2. PICK m \in Message :
          /\ m.sender = Home[a] /\ m.time = clock[Home[a]] + 1
          /\ \A t \in Thread :
               /\ pc'[t] = IF t = a THEN "copy" ELSE pc[t]
               /\ batchLog'[t] = IF t = a THEN <<m>> ELSE batchLog[t]
    BY NewMessageEffect
  <1>3. /\ a \in Thread /\ a \notin Conn /\ Home[a] \in Node /\ pc[a] = "idle"
        /\ \A b \in Api : b \in Thread /\ Home[b] \in Node
        /\ \A n \in Node : clock'[n] = IF n = Home[a] THEN clock[n] + 1 ELSE clock[n]
        /\ \A n \in Node : clock[n] \in Nat
        /\ UNCHANGED <<messages, pos>>
    BY NewMessageEffect, ConstantsAssumption DEF Thread
  <1>4. \A b \in Api : b # a /\ pc[b] # "idle" => Home[b] # Home[a]
    BY <1>2, <1>3 DEF SendsInTurn
  <1>5. \A k \in Sent : k.sender \in Node /\ k.time \in Nat /\ k.time <= clock[k.sender]
    BY ConstantsAssumption DEF Sent, Message, SafeInv, SentTimes
  <1>6. LogsOrdered'
    BY <1>1, <1>2, <1>3 DEF OrderInv, LogsOrdered, Ordered, Thread
  <1>7. PendingNewest'
    <2>1. batchLog'[a][1] = m
      BY <1>2, <1>3
    <2>2. \A k \in Sent : k.sender = Home[a] => k.time < clock'[Home[a]]
      BY <1>3, <1>5
    <2>3. \A b \in Api : b # a /\ pc'[b] # "idle" =>
            /\ clock'[Home[b]] = clock[Home[b]] /\ batchLog'[b] = batchLog[b]
            /\ pc[b] # "idle"
      BY <1>2, <1>3, <1>4
    <2> QED
      BY <1>1, <1>2, <1>3, <2>1, <2>2, <2>3 DEF OrderInv, PendingNewest
  <1>8. PassedIsHeld'
    <2>1. pos[a] = 1 /\ \A j \in DOMAIN <<m>> : ~(j < 1)
      BY <1>3 DEF SafeInv, Positions
    <2> QED
      BY <1>1, <1>2, <1>3, <2>1 DEF OrderInv, PassedIsHeld
  <1> QED
    BY <1>6, <1>7, <1>8 DEF OrderInv

(* A handler's loop passes over a message: the message is in the room.     *)
LEMMA SkippedIsHeld ==
  ASSUME TypeOK, SafeInv, OrderInv, NEW t \in Conn, NEW i \in DOMAIN batchLog[t],
         ~IsNewer(batchLog[t][i], remoteSyncTimes[t])
         \/ ~IsNewer(batchLog[t][i], syncState[At(t)])
  PROVE  batchLog[t][i] \in Held[At(t)]
  <1> DEFINE m == batchLog[t][i]
  <1>1. At(t) \in Node /\ t \in Thread
    BY AtType DEF Thread
  <1>2. m \in Sent /\ m.sender \in Node /\ m.time \in Nat \ {0}
    BY ConstantsAssumption DEF SafeInv, LogsSent, Sent, Message
  <1>3. PICK map \in SyncMap : Backed(At(t), map) /\ ~(m.time > map[m.sender])
    BY <1>1 DEF SafeInv, MapsBacked, TypeOK, IsNewer
  <1>4. map[m.sender] # 0 /\ map[m.sender] >= m.time
    BY <1>2, <1>3, ConstantsAssumption DEF SyncMap
  <1>5. PICK k \in Held[At(t)] : k.sender = m.sender /\ k.time = map[m.sender]
    BY <1>2, <1>3, <1>4 DEF Backed
  <1>6. k \in Sent /\ k.time \in Nat
    BY <1>1, <1>5, HeldPrefix, ConstantsAssumption DEF OrderInv, Sent, Message
  <1>7. CASE m.time = k.time
    BY <1>2, <1>5, <1>6, <1>7 DEF SafeInv, SentTimes
  <1>8. CASE m.time < k.time
    BY <1>1, <1>2, <1>5, <1>8, HeldPrefix DEF OrderInv, Earlier
  <1> QED
    BY <1>2, <1>4, <1>5, <1>6, <1>7, <1>8

(* An API goroutine's loop never passes over its message.                  *)
LEMMA ApiAccepts ==
  ASSUME TypeOK, SafeInv, OrderInv, NEW a \in Api, PushNext(a)
  PROVE  /\ Accepts(a)
         /\ \A k \in Sent : k.sender = Home[a] => k.time < batchLog[a][1].time
  <1>1. /\ a \in Thread /\ Home[a] \in Node /\ pos[a] = 1 /\ pc[a] = "loop"
        /\ batchLog[a][1] \in Message
    BY ApiMessage, PushNextEffect DEF Thread
  <1>2. \A k \in Sent : k.sender = Home[a] => k.time < batchLog[a][1].time
    BY <1>1 DEF OrderInv, PendingNewest
  <1>3. ASSUME ~Accepts(a) PROVE FALSE
    <2>1. batchLog[a][1].sender = Home[a]
      BY ApiMessage
    <2>2. HeldOrOvertaken(Home[a], batchLog[a][1])
      BY <1>3, SkippedIsOvertaken
    <2>3. PICK k \in Held[Home[a]] : k = batchLog[a][1] \/ Earlier(batchLog[a][1], k)
      BY <2>2 DEF HeldOrOvertaken
    <2>4. k \in Sent
      BY <1>1, <2>3, HeldIsSent DEF SafeInv
    <2>5. k.time \in Nat /\ batchLog[a][1].time \in Nat
      BY <1>1, <2>4, ConstantsAssumption DEF Sent, Message
    <2> QED
      BY <1>2, <2>1, <2>3, <2>4, <2>5 DEF Earlier
  <1> QED
    BY <1>2, <1>3

(* Ordered, for any set S of sent messages.                                *)
OrderedIn(S, L) ==
  \A i \in DOMAIN L :
    /\ L[i] \in S
    /\ \A k \in S : Earlier(k, L[i]) => \E j \in 1..(i-1) : L[j] = k

(* A log stays ordered when a message is appended that has been sent and   *)
(* whose predecessors it has.                                              *)
LEMMA OrderedAppend ==
  ASSUME NEW S, NEW L \in Seq(Message), NEW m \in S, m \in Message, OrderedIn(S, L),
         \A k \in S : Earlier(k, m) => \E j \in DOMAIN L : L[j] = k
  PROVE  OrderedIn(S, Append(L, m))
  <1> DEFINE M == Append(L, m)
  <1>2. /\ DOMAIN L = 1..Len(L) /\ Len(L) \in Nat
        /\ DOMAIN M = 1..(Len(L) + 1) /\ M[Len(L) + 1] = m
        /\ \A i \in DOMAIN L : M[i] = L[i]
    OBVIOUS
  <1> HIDE DEF M
  <1>3. ASSUME NEW i \in DOMAIN M
        PROVE  /\ M[i] \in S
               /\ \A k \in S : Earlier(k, M[i]) => \E j \in 1..(i-1) : M[j] = k
    <2>1. CASE i \in DOMAIN L
      <3>1. 1..(i-1) \subseteq DOMAIN L
        BY <1>2, <2>1
      <3> QED
        BY <1>2, <2>1, <3>1 DEF OrderedIn
    <2>2. CASE i = Len(L) + 1
      <3>1. 1..(i-1) = DOMAIN L
        BY <1>2, <2>2
      <3> QED
        BY <1>2, <2>2, <3>1
    <2> QED
      BY <1>2, <1>3, <2>1, <2>2
  <1> QED
    BY <1>3 DEF OrderedIn, M

LEMMA OrderPushSkip ==
  ASSUME TypeOK, SafeInv, OrderInv, NEW t \in Thread, PushNext(t), ~Accepts(t)
  PROVE  OrderInv'
  <1>1. Held' = Held /\ Sent' = Sent
    BY HeldSame, PushNextEffect
  <1>2. /\ pos[t] \in DOMAIN batchLog[t] /\ pc[t] = "loop" /\ At(t) \in Node
        /\ \A u \in Thread : pos'[u] = IF u = t THEN pos[t] + 1 ELSE pos[u]
        /\ UNCHANGED <<messages, clock, pc, batchLog>>
    BY PushNextEffect
  <1>3. t \in Conn
    BY ApiAccepts DEF Thread
  <1>4. batchLog[t][pos[t]] \in Held[At(t)]
    <2>1. \/ ~IsNewer(batchLog[t][pos[t]], remoteSyncTimes[t])
          \/ ~IsNewer(batchLog[t][pos[t]], syncState[At(t)])
      BY <1>2 DEF Accepts, Batch, findMessagesToSync
    <2> QED
      BY <1>2, <1>3, <2>1, SkippedIsHeld
  <1>5. \A u \in Thread : pos[u] \in Nat /\ batchLog[u] \in Seq(Message)
    BY DEF TypeOK
  <1> USE <1>1, <1>2 DEF OrderInv
  <1>6. LogsOrdered'
    BY DEF LogsOrdered, Ordered
  <1>7. PendingNewest'
    BY <1>3, ConstantsAssumption DEF PendingNewest, Thread
  <1>8. PassedIsHeld'
    <2>1. \A u \in Thread : \A j \in DOMAIN batchLog[u] :
            j < pos'[u] => j < pos[u] \/ (u = t /\ j = pos[t])
      BY <1>5
    <2> QED
      BY <1>4, <2>1 DEF PassedIsHeld
  <1> QED
    BY <1>6, <1>7, <1>8

(* Why the room may take the message that the loop accepts.                *)
LEMMA AcceptedInOrder ==
  ASSUME TypeOK, SafeInv, OrderInv, NEW t \in Thread, PushNext(t), Accepts(t),
         NEW m, m = batchLog[t][pos[t]]
  PROVE  /\ \A k \in Sent : Earlier(k, m) => k \in Held[At(t)]
         /\ \/ m \in Sent
            \/ t \in Api /\ \A k \in Sent : k.sender = Home[t] => k.time < m.time
  <1>1. /\ pos[t] \in DOMAIN batchLog[t] /\ m \in Message
        /\ pc[t] = "loop" /\ At(t) \in Node
    BY PushNextEffect
  <1>2. CASE t \in Conn
    <2>1. Ordered(batchLog[t])
      BY <1>2 DEF OrderInv, LogsOrdered
    <2>2. m \in Sent
      BY <1>1, <2>1 DEF Ordered
    <2>3. ASSUME NEW k \in Sent, Earlier(k, m) PROVE k \in Held[At(t)]
      <3>1. PICK j \in 1..(pos[t]-1) : batchLog[t][j] = k
        BY <1>1, <2>1, <2>3 DEF Ordered
      <3>2. batchLog[t] \in Seq(Message) /\ pos[t] \in Nat
        BY DEF TypeOK
      <3>3. j \in DOMAIN batchLog[t] /\ j < pos[t]
        BY <1>1, <3>2
      <3> QED
        BY <3>1, <3>3 DEF OrderInv, PassedIsHeld
    <2> QED
      BY <2>2, <2>3
  <1>3. CASE t \in Api
    <2>1. pos[t] = 1 /\ At(t) = Home[t] /\ m.sender = Home[t]
      BY <1>3, ApiMessage
    <2>2. \A k \in Sent : k.sender = Home[t] => k.time < m.time
      BY <1>3, <2>1, ApiAccepts
    <2>3. \A k \in Sent : k.sender = Home[t] => k \in Held[Home[t]]
      BY DEF Sent
    <2> QED
      BY <1>3, <2>1, <2>2, <2>3 DEF Earlier
  <1> QED
    BY <1>2, <1>3 DEF Thread

LEMMA OrderPushAccept ==
  ASSUME TypeOK, SafeInv, OrderInv, SendsInTurn, NEW t \in Thread, PushNext(t), Accepts(t)
  PROVE  OrderInv'
  <1> DEFINE n == At(t)
             m == batchLog[t][pos[t]]
  <1>1. /\ m \in Message
        /\ \A k \in Sent : Earlier(k, m) => k \in Held[n]
        /\ \/ m \in Sent
           \/ t \in Api /\ \A k \in Sent : k.sender = Home[t] => k.time < m.time
        /\ \/ t \in Conn /\ m \in Sent
           \/ t \in Api /\ m.sender = Home[t] /\ n = Home[t]
    BY AcceptedMessage, AcceptedInOrder
  <1>2. /\ n \in Node /\ pc[t] = "loop" /\ pos[t] \in DOMAIN batchLog[t]
        /\ messages' = [messages EXCEPT ![n] = Append(@, m)]
        /\ \A u \in Thread : pos'[u] = IF u = t THEN pos[t] + 1 ELSE pos[u]
        /\ UNCHANGED <<clock, pc, batchLog>>
    BY PushNextEffect
  <1>3. /\ \A k \in Node : Held'[k] = IF k = n THEN Held[k] \cup {m} ELSE Held[k]
        /\ m \in Sent' /\ Sent \subseteq Sent' /\ Sent' \subseteq Sent \cup {m}
        /\ m.sender \in Node /\ m.time \in Nat
        /\ \A k \in Sent : k.sender \in Node /\ k.time \in Nat
    BY AcceptEffect
  <1>4. /\ m = batchLog[t][pos[t]] /\ n = At(t) /\ pos[t] \in Nat /\ pos[t] # 0
        /\ \A u \in Conn \cup Api : u \in Thread
    BY DEF TypeOK, SafeInv, Positions, Thread
  <1> HIDE DEF m, n
  <1>5. \A k \in Sent : m \notin Sent => ~Earlier(m, k)
    BY <1>1, <1>3 DEF Earlier
  <1>6. LogsOrdered'
    <2>1. \A c \in Conn : Ordered(batchLog[c])'
      BY <1>2, <1>3, <1>5 DEF OrderInv, LogsOrdered, Ordered
    <2>2. \A k \in Node : k # n => messages'[k] = messages[k]
      BY <1>2 DEF TypeOK
    <2>3. \A k \in Node : k # n => Ordered(messages[k])'
      BY <1>3, <1>5, <2>2 DEF OrderInv, LogsOrdered, Ordered
    <2>4. /\ messages[n] \in Seq(Message) /\ messages'[n] = Append(messages[n], m)
          /\ Ordered(messages[n])
      BY <1>2 DEF TypeOK, OrderInv, LogsOrdered
    <2>5. OrderedIn(Sent', messages[n])
      BY <1>3, <1>5, <2>4 DEF Ordered, OrderedIn
    <2>6. \A k \in Sent' : Earlier(k, m) => \E j \in DOMAIN messages[n] : messages[n][j] = k
      <3>1. \A k \in Sent' : Earlier(k, m) => k \in Held[n]
        BY <1>1, <1>3 DEF Earlier
      <3> QED
        BY <1>2, <3>1 DEF Held, Msgs, Range
    <2>7. OrderedIn(Sent', Append(messages[n], m))
      BY <1>1, <1>3, <2>4, <2>5, <2>6, OrderedAppend
    <2>8. Ordered(messages[n])'
      BY <2>4, <2>7 DEF Ordered, OrderedIn
    <2> QED
      BY <2>1, <2>3, <2>8 DEF LogsOrdered
  <1>7. PendingNewest'
    <2>1. ASSUME NEW a \in Api, pc[a] # "idle", pos'[a] = 1, NEW k \in Sent', k.sender = Home[a]
          PROVE  k.time < clock[Home[a]]
      <3>1. pos[a] = 1 /\ a # t
        BY <1>2, <1>4, <2>1 DEF SafeInv, Positions
      <3>2. k \in Sent
        <4>1. t \in Api /\ m.sender = Home[t] => Home[t] # Home[a]
          BY <1>2, <2>1, <3>1 DEF SendsInTurn
        <4> QED
          BY <1>1, <1>3, <2>1, <4>1
      <3> QED
        BY <2>1, <3>1, <3>2 DEF OrderInv, PendingNewest
    <2> QED
      BY <1>2, <2>1 DEF OrderInv, PendingNewest
  <1>8. PassedIsHeld'
    <2>1. \A u \in Thread : pos[u] \in Nat /\ batchLog[u] \in Seq(Message)
      BY DEF TypeOK
    <2>2. \A u \in Thread : \A j \in DOMAIN batchLog[u] :
            j < pos'[u] => j < pos[u] \/ (u = t /\ j = pos[t])
      BY <1>2, <2>1
    <2>3. \A u \in Thread : At(u) \in Node
      BY AtType
    <2>4. ASSUME NEW u \in Thread, NEW j \in DOMAIN batchLog[u], j < pos'[u]
          PROVE  batchLog[u][j] \in Held'[At(u)]
      <3>1. CASE j < pos[u]
        <4>1. batchLog[u][j] \in Held[At(u)]
          BY <3>1 DEF OrderInv, PassedIsHeld
        <4> QED
          BY <1>3, <2>3, <4>1
      <3>2. CASE u = t /\ j = pos[t]
        BY <1>2, <1>3, <1>4, <3>2
      <3> QED
        BY <2>2, <2>4, <3>1, <3>2
    <2> QED
      BY <1>2, <2>4 DEF PassedIsHeld
  <1> QED
    BY <1>6, <1>7, <1>8 DEF OrderInv

LEMMA OrderConn ==
  ASSUME TypeOK, SafeInv, OrderInv, NEW c \in Conn, ConnNext(c)
  PROVE  OrderInv'
  <1>1. c \in Thread
    BY DEF Thread
  <1>2. CASE Dial(c) \/ SyncError(c) \/ Break(c)
    BY <1>2, OrderQuiet DEF Dial, SyncError, Break, roomVars, threadVars, localVars
  <1>3. CASE SendBatch(c)
    BY <1>3, OrderSendBatch
  <1>4. CASE SyncDone(c) \/ RejectBatch(c) \/ ReplyLost(c)
    BY <1>1, <1>4, OrderReturn DEF SyncDone, RejectBatch, ReplyLost, roomVars
  <1>5. CASE Offer(c)
    <2>1. UNCHANGED <<messages, clock, batchLog, pos>> /\ \A u \in Thread : u # c => pc'[u] = pc[u]
      BY <1>5 DEF Offer, roomVars, TypeOK
    <2> QED
      BY <1>1, <2>1, OrderMove
  <1>6. CASE RecvBatch(c) \/ RecvNothing(c)
    BY <1>6, OrderRecv
  <1> QED
    BY <1>2, <1>3, <1>4, <1>5, <1>6 DEF ConnNext

LEMMA OrderPush ==
  ASSUME TypeOK, SafeInv, OrderInv, SendsInTurn, NEW t \in Thread, PushNextStep(t)
  PROVE  OrderInv'
  <1>1. CASE PushCopy(t) \/ PushLock(t) \/ (PushUnlock(t) /\ t \in Conn)
    <2>1. /\ UNCHANGED <<messages, clock, batchLog, pos>> /\ pc[t] # "idle"
          /\ \A u \in Thread : u # t => pc'[u] = pc[u]
      BY <1>1 DEF PushCopy, PushLock, PushUnlock, roomVars, localVars, TypeOK
    <2> QED
      BY <2>1, OrderMove
  <1>2. CASE PushUnlock(t) /\ t \notin Conn
    BY <1>2, OrderReturn DEF PushUnlock
  <1>3. CASE PushNext(t)
    BY <1>3, OrderPushSkip, OrderPushAccept
  <1> QED
    BY <1>1, <1>2, <1>3 DEF PushNextStep

IInv == TypeOK /\ SafeInv /\ OrderInv

LEMMA OrderStep == IInv /\ SendsInTurn /\ SendsInTurn' /\ [Next]_vars => OrderInv'
  <1> SUFFICES ASSUME IInv, SendsInTurn, SendsInTurn', [Next]_vars PROVE OrderInv'
    OBVIOUS
  <1> USE DEF IInv
  <1>1. ASSUME NEW q \in Queue, QueueNext(q) PROVE OrderInv'
    BY <1>1, OrderQuiet
       DEF QueueNext, QueueDone, QueueInSync, Wake, DialFails, roomVars, threadVars, localVars
  <1>2. ASSUME NEW c \in Conn, ConnNext(c) PROVE OrderInv'
    BY <1>2, OrderConn
  <1>3. ASSUME NEW a \in Api, NewMessage(a) PROVE OrderInv'
    BY <1>3, OrderNewMessage
  <1>4. ASSUME NEW t \in Thread, PushNextStep(t) PROVE OrderInv'
    BY <1>4, OrderPush
  <1>5. ASSUME NEW n \in Stops, StopQueues(n) PROVE OrderInv'
    BY <1>5, OrderQuiet DEF StopQueues, threadVars, localVars
  <1>6. CASE UNCHANGED vars
    BY <1>6, OrderQuiet DEF vars, roomVars, threadVars, localVars
  <1> QED
    BY <1>1, <1>2, <1>3, <1>4, <1>5, <1>6 DEF Next

(* The inductive invariant of behaviours without overlapping sends.        *)
LEMMA IInvCorrect == Spec /\ []SendsInTurn => []IInv
  <1>1. Init => IInv
    BY TypeInit, SafeInit, OrderInit DEF IInv
  <1>2. IInv /\ SendsInTurn /\ SendsInTurn' /\ [Next]_vars => IInv'
    BY TypeStep, SafeStep, OrderStep DEF IInv
  <1> QED
    BY <1>1, <1>2, PTL DEF Spec

(* No member ever has a gap in the messages of a sender, in any behaviour  *)
(* in which no member sends two messages at once.                          *)
THEOREM PrefixClosedCorrect == Spec /\ []SendsInTurn => []PrefixClosed
  <1>1. IInv => PrefixClosed
    <2> SUFFICES ASSUME IInv, NEW n \in Node, NEW m \in Msgs(n), NEW k \in Own(m.sender),
                        k.time < m.time
                 PROVE  k \in Msgs(n)
      BY DEF PrefixClosed
    <2>1. m \in Held[n] /\ m \in Sent
      BY HeldPrefix DEF Held, IInv, OrderInv
    <2>2. k \in Held[m.sender] /\ k.sender = m.sender /\ m.sender \in Node
      BY <2>1 DEF Own, Held, Sent, Message
    <2>3. k \in Sent
      BY <2>2, HeldPrefix DEF IInv, OrderInv
    <2> QED
      BY <2>1, <2>2, <2>3, HeldPrefix DEF Held, IInv, OrderInv, Earlier
  <1> QED
    BY <1>1, IInvCorrect, PTL

(* sync_ok is only sent when all that the dialler held is in the room, if  *)
(* no member sends two messages at once.                                   *)
THEOREM AckMeansStoredCorrect == Spec /\ []SendsInTurn => []AckMeansStored
  <1>1. IInv => AckMeansStored
    <2> SUFFICES ASSUME IInv, NEW c \in Conn, pc[c] = "reply"
                 PROVE  Range(batchLog[c]) \subseteq Msgs(Dst[c])
      BY DEF AckMeansStored
    <2>1. c \in Thread /\ At(c) = Dst[c] /\ Dst[c] \in Node
      BY ConstantsAssumption DEF Thread, At
    <2>2. batchLog[c] \in Seq(Message) /\ pos[c] > Len(batchLog[c]) /\ pos[c] \in Nat
      BY <2>1 DEF IInv, TypeOK, SafeInv, Positions
    <2>3. \A j \in DOMAIN batchLog[c] : j < pos[c]
      BY <2>2
    <2> QED
      BY <2>1, <2>3 DEF IInv, OrderInv, PassedIsHeld, Held, Range
  <1> QED
    BY <1>1, IInvCorrect, PTL

------------------------------------------------------------------------------
(* RoomSync implements RoomLog                                             *)

(* Only a loop that accepts a message changes what a member holds: an API  *)
(* call publishes it, a handler learns it, or has it already if it is one  *)
(* of the member's own that came back.                                     *)
LEMMA AcceptIsLogStep ==
  ASSUME TypeOK, SafeInv, OrderInv, NEW t \in Thread, PushNext(t), Accepts(t)
  PROVE  Log!Next \/ Held' = Held
  <1> DEFINE n == At(t)
             m == batchLog[t][pos[t]]
  <1>1. /\ m \in Message /\ (m.sender = n \/ m.sigOk)
        /\ \A k \in Sent : Earlier(k, m) => k \in Held[n]
        /\ \/ m \in Sent
           \/ m.sender = n /\ \A k \in Sent : k.sender = n => k.time < m.time
    BY AcceptedMessage, AcceptedInOrder
  <1>2. n \in Node /\ messages' = [messages EXCEPT ![n] = Append(@, m)]
    BY PushNextEffect
  <1> HIDE DEF m, n
  <1>3. Held' = [Held EXCEPT ![n] = @ \cup {m}] /\ m.sender \in Node
    BY <1>1, <1>2, HeldAppended DEF Message
  <1>4. \A s \in Node : \A k \in Held[s] : k \in Sent
    BY HeldIsSent DEF SafeInv
  <1>5. m \in Log!Message
    BY <1>1 DEF Message, Log!Message
  <1>6. CASE m.sender = n /\ m \in Sent
    <2>1. m \in Held[n]
      BY <1>6 DEF Sent
    <2>2. Held' = Held
      BY <1>3, <2>1 DEF Held
    <2> QED
      BY <2>2
  <1>7. CASE m.sender = n /\ m \notin Sent
    <2>1. Log!Publish(m)
      BY <1>1, <1>2, <1>3, <1>4, <1>7 DEF Log!Publish, Held
    <2> QED
      BY <1>5, <2>1 DEF Log!Next
  <1>8. CASE m.sender # n
    <2>1. m \in Sent /\ m \in Held[m.sender]
      BY <1>1, <1>8 DEF Sent
    <2>2. Log!Older(Held[m.sender], m) \subseteq Held[n]
      BY <1>1, <1>3, <1>4 DEF Log!Older, Earlier
    <2>3. Log!Learn(n, m)
      BY <1>1, <1>3, <1>8, <2>1, <2>2 DEF Log!Learn, Held
    <2> QED
      BY <1>2, <1>5, <2>3 DEF Log!Next
  <1> QED
    BY <1>6, <1>7, <1>8

(* The synchronisation of a room is a RoomLog: members learn the messages  *)
(* of every sender in the order they were sent, and none that is invalid,  *)
(* if no member sends two messages at once.                                *)
THEOREM RoomLogImplemented == Spec /\ []SendsInTurn => ImplementsRoomLog
  <1>1. Init => Log!Init
    <2>1. Init => \A n \in Node : Msgs(n) = {}
      BY DEF Init, Msgs, Range
    <2> QED
      BY <2>1 DEF Log!Init
  <1>2. IInv /\ [Next]_vars => [Log!Next]_Held
    <2> SUFFICES ASSUME IInv, [Next]_vars PROVE Log!Next \/ Held' = Held
      OBVIOUS
    <2>1. ASSUME NEW t \in Thread, PushNextStep(t) PROVE Log!Next \/ Held' = Held
      <3>1. CASE PushNext(t) /\ Accepts(t)
        BY <3>1, AcceptIsLogStep DEF IInv
      <3>2. CASE PushNext(t) /\ ~Accepts(t)
        BY <3>2, HeldSame DEF PushNext
      <3>3. CASE PushCopy(t) \/ PushLock(t) \/ PushUnlock(t)
        BY <3>3, HeldSame DEF PushCopy, PushLock, PushUnlock, roomVars
      <3> QED
        BY <2>1, <3>1, <3>2, <3>3 DEF PushNextStep
    <2>2. ASSUME NEW c \in Conn, ConnNext(c) PROVE UNCHANGED messages
      BY <2>2 DEF ConnNext, Dial, SendBatch, SyncDone, SyncError, Break, Offer, RecvBatch,
                  RejectBatch, RecvNothing, ReplyLost, roomVars
    <2>3. ASSUME NEW q \in Queue, QueueNext(q) PROVE UNCHANGED messages
      BY <2>3 DEF QueueNext, QueueDone, QueueInSync, Wake, DialFails, roomVars
    <2>4. ASSUME NEW a \in Api, NewMessage(a) PROVE UNCHANGED messages
      BY <2>4 DEF NewMessage
    <2>5. ASSUME NEW n \in Stops, StopQueues(n) PROVE UNCHANGED messages
      BY <2>5 DEF StopQueues
    <2>6. CASE UNCHANGED vars
      BY <2>6, HeldSame DEF vars, roomVars
    <2> QED
      BY <2>1, <2>2, <2>3, <2>4, <2>5, <2>6, HeldSame DEF Next
  <1>3. IInv /\ [Next]_vars => [Log!Next]_([n \in Node |-> Msgs(n)])
    BY <1>2 DEF Held
  <1> QED
    BY <1>1, <1>3, IInvCorrect, PTL DEF Spec, ImplementsRoomLog, Log!Spec
=============================================================================
