------------------------ MODULE RoomSyncSingleProofs ------------------------
(***************************************************************************)
(* PushMessages copies SyncState before it takes msgUpdateMutex.  These    *)
(* proofs show that this is all that is wrong with it: in any behaviour in *)
(* which no two goroutines are between the copy for a room and the end of  *)
(* the push into it, the room holds no message twice, for any number of    *)
(* members, messages and failures, and however sends, handlers and queues  *)
(* overlap otherwise.                                                      *)
(*                                                                         *)
(* The argument: a batch is part of a log in which the times of a sender   *)
(* increase, and newSyncState has, for every sender, the time of the last  *)
(* message that the loop accepted; the next one is newer.                  *)
(***************************************************************************)
EXTENDS RoomSyncProofs

(* The times of the messages of one sender increase.                       *)
Increasing(L) ==
  \A i, j \in DOMAIN L : i < j /\ L[i].sender = L[j].sender => L[i].time < L[j].time

LogsIncrease ==
  /\ \A n \in Node : Increasing(messages[n])
  /\ \A t \in Thread : Increasing(batchLog[t])

Pushing(n) == \E t \in Thread : At(t) = n /\ pc[t] = "loop"

(* map has the time of the newest message in the room of n.                *)
Exact(n, map) == \A m \in Msgs(n) : ~IsNewer(m, map)

(* newSyncState leaves the loop as exact as SyncState was before it.       *)
MapsExact ==
  /\ \A n \in Node : ~Pushing(n) => Exact(n, syncState[n])
  /\ \A t \in Thread : pc[t] = "lock" => newSyncState[t] = syncState[At(t)]
  /\ \A t \in Thread : pc[t] = "loop" => Exact(At(t), newSyncState[t])

(* An entry of newSyncState is an old one or comes from the loop.          *)
EntriesExplained ==
  \A t \in Thread : pc[t] = "loop" =>
    \A s \in Node :
      \/ newSyncState[t][s] = syncState[At(t)][s]
      \/ \E j \in DOMAIN batchLog[t] :
           /\ j < pos[t]
           /\ batchLog[t][j].sender = s
           /\ batchLog[t][j].time = newSyncState[t][s]

SingleInv == LogsIncrease /\ MapsExact /\ EntriesExplained

LEMMA SingleInit == Init => SingleInv
  <1> SUFFICES ASSUME Init PROVE SingleInv
    OBVIOUS
  <1>1. \A n \in Node : Msgs(n) = {}
    BY DEF Init, Msgs, Range
  <1> QED
    BY <1>1 DEF Init, SingleInv, LogsIncrease, Increasing, MapsExact, Exact,
                EntriesExplained

(* Steps that leave the pushing goroutines alone.                          *)
LEMMA SingleQuiet ==
  ASSUME SingleInv, UNCHANGED <<messages, syncState, threadVars>>
  PROVE  SingleInv'
  BY DEF SingleInv, LogsIncrease, Increasing, MapsExact, Exact, Pushing, Msgs, IsNewer,
         EntriesExplained, threadVars, localVars

(* Steps of one goroutine outside the critical section: it gets another    *)
(* batch at most, and a copy of SyncState when it reaches the lock.        *)
LEMMA SingleOutside ==
  ASSUME TypeOK, SingleInv, NEW t \in Thread,
         UNCHANGED <<messages, syncState>>,
         pc[t] # "loop", pc'[t] # "loop",
         pc'[t] = "lock" => newSyncState'[t] = syncState[At(t)],
         \A i, j \in DOMAIN batchLog'[t] :
           i < j /\ batchLog'[t][i].sender = batchLog'[t][j].sender
             => batchLog'[t][i].time < batchLog'[t][j].time,
         \A u \in Thread \ {t} :
           /\ pc'[u] = pc[u] /\ batchLog'[u] = batchLog[u]
           /\ newSyncState'[u] = newSyncState[u] /\ pos'[u] = pos[u]
  PROVE  SingleInv'
  <1>1. \A n \in Node : Pushing(n)' = Pushing(n)
    BY DEF Pushing
  <1>2. LogsIncrease'
    BY DEF SingleInv, LogsIncrease, Increasing
  <1>3. MapsExact'
    BY <1>1 DEF SingleInv, MapsExact, Exact, Msgs, IsNewer
  <1>4. EntriesExplained'
    BY DEF SingleInv, EntriesExplained
  <1> QED
    BY <1>2, <1>3, <1>4 DEF SingleInv

LEMMA SingleConn ==
  ASSUME TypeOK, SingleInv, NEW c \in Conn, ConnNext(c)
  PROVE  SingleInv'
  <1>0. c \in Thread /\ Src[c] \in Node
    BY ConstantsAssumption DEF Thread
  <1>1. CASE Dial(c) \/ SyncError(c) \/ Break(c)
    BY <1>1, SingleQuiet DEF Dial, SyncError, Break, roomVars
  <1>2. CASE SendBatch(c)
    <2>1. batchLog' = batchLog \/ batchLog' = [batchLog EXCEPT ![c] = messages[Src[c]]]
      BY <1>2 DEF SendBatch
    <2>2. batchLog'[c] = batchLog[c] \/ batchLog'[c] = messages[Src[c]]
      BY <1>0, <2>1 DEF TypeOK
    <2>3. Increasing(batchLog[c]) /\ Increasing(messages[Src[c]])
      BY <1>0 DEF SingleInv, LogsIncrease
    <2>4. /\ UNCHANGED <<messages, syncState, pc, newSyncState, pos>>
          /\ pc[c] = "offered"
      BY <1>2 DEF SendBatch, roomVars
    <2>5. \A u \in Thread \ {c} : batchLog'[u] = batchLog[u]
      BY <2>1 DEF TypeOK
    <2> QED
      BY <1>0, <2>2, <2>3, <2>4, <2>5, SingleOutside DEF Increasing
  <1>3. CASE SyncDone(c) \/ RejectBatch(c) \/ ReplyLost(c)
    <2>1. Return(c) /\ UNCHANGED <<messages, syncState>> /\ pc[c] # "loop"
      BY <1>3 DEF SyncDone, RejectBatch, ReplyLost, roomVars
    <2>2. pc'[c] = "idle" /\ batchLog'[c] = <<>>
      BY <1>0, <2>1 DEF Return, TypeOK
    <2>3. \A u \in Thread \ {c} :
            /\ pc'[u] = pc[u] /\ batchLog'[u] = batchLog[u]
            /\ newSyncState'[u] = newSyncState[u] /\ pos'[u] = pos[u]
      BY <2>1 DEF Return, TypeOK
    <2> QED
      BY <1>0, <2>1, <2>2, <2>3, SingleOutside
  <1>4. CASE Offer(c) \/ RecvBatch(c) \/ RecvNothing(c)
    <2>1. /\ UNCHANGED <<messages, syncState, newSyncState, pos>>
          /\ pc[c] # "loop"
          /\ pc' = [pc EXCEPT ![c] = "offered"] \/ pc' = [pc EXCEPT ![c] = "copy"]
          /\ batchLog' = batchLog \/ batchLog' = [batchLog EXCEPT ![c] = <<>>]
      BY <1>4 DEF Offer, RecvBatch, RecvNothing, roomVars, localVars
    <2>2. pc'[c] \in {"offered", "copy"} /\ (batchLog'[c] = batchLog[c] \/ batchLog'[c] = <<>>)
      BY <1>0, <2>1 DEF TypeOK
    <2>3. \A u \in Thread \ {c} : pc'[u] = pc[u] /\ batchLog'[u] = batchLog[u]
      BY <2>1 DEF TypeOK
    <2>4. Increasing(batchLog[c])
      BY <1>0 DEF SingleInv, LogsIncrease
    <2>5. \A i, j \in DOMAIN batchLog'[c] :
            i < j /\ batchLog'[c][i].sender = batchLog'[c][j].sender
              => batchLog'[c][i].time < batchLog'[c][j].time
      BY <2>2, <2>4 DEF Increasing
    <2> QED
      BY <1>0, <2>1, <2>2, <2>3, <2>5, SingleOutside
  <1> QED
    BY <1>1, <1>2, <1>3, <1>4 DEF ConnNext

LEMMA SingleNewMessage ==
  ASSUME TypeOK, SingleInv, NEW a \in Api, NewMessage(a)
  PROVE  SingleInv'
  <1>0. a \in Thread
    BY DEF Thread
  <1>1. PICK m : batchLog' = [batchLog EXCEPT ![a] = <<m>>]
    BY DEF NewMessage
  <1>2. batchLog'[a] = <<m>> /\ \A u \in Thread \ {a} : batchLog'[u] = batchLog[u]
    BY <1>0, <1>1 DEF TypeOK
  <1>3. /\ UNCHANGED <<messages, syncState, newSyncState, pos>>
        /\ pc[a] = "idle" /\ pc' = [pc EXCEPT ![a] = "copy"]
    BY DEF NewMessage
  <1>4. pc'[a] = "copy" /\ \A u \in Thread \ {a} : pc'[u] = pc[u]
    BY <1>0, <1>3 DEF TypeOK
  <1>5. \A i, j \in DOMAIN <<m>> : ~(i < j)
    OBVIOUS
  <1> QED
    BY <1>0, <1>2, <1>3, <1>4, <1>5, SingleOutside

LEMMA SinglePushCopy ==
  ASSUME TypeOK, SingleInv, NEW t \in Thread, PushCopy(t)
  PROVE  SingleInv'
  <1>1. /\ UNCHANGED <<messages, syncState, batchLog, pos>>
        /\ pc[t] = "copy" /\ pc'[t] = "lock" /\ newSyncState'[t] = syncState[At(t)]
        /\ \A u \in Thread \ {t} : pc'[u] = pc[u] /\ newSyncState'[u] = newSyncState[u]
    BY DEF PushCopy, TypeOK, roomVars
  <1>2. Increasing(batchLog[t])
    BY DEF SingleInv, LogsIncrease
  <1> QED
    BY <1>1, <1>2, SingleOutside DEF Increasing

(* The copy is still exact when the lock is taken: nobody else pushes.     *)
LEMMA SinglePushLock ==
  ASSUME TypeOK, SingleInv, PushesInTurn, NEW t \in Thread, PushLock(t)
  PROVE  SingleInv'
  <1>1. /\ UNCHANGED <<messages, syncState, localVars>> /\ pc[t] = "lock"
        /\ \A u \in Thread : pc'[u] = IF u = t THEN "loop" ELSE pc[u]
    BY DEF PushLock, TypeOK
  <1>2. At(t) \in Node /\ ~Pushing(At(t)) /\ \A u \in Thread : At(u) \in Node
    BY <1>1, AtType DEF PushesInTurn, Pushing
  <1>3. newSyncState[t] = syncState[At(t)] /\ Exact(At(t), syncState[At(t)])
    BY <1>1, <1>2 DEF SingleInv, MapsExact
  <1> USE <1>1, <1>2 DEF SingleInv, localVars
  <1>4. LogsIncrease'
    BY DEF LogsIncrease, Increasing
  <1>5. MapsExact'
    <2>1. \A n \in Node : Pushing(n) => Pushing(n)'
      BY DEF Pushing
    <2> QED
      BY <1>3, <2>1 DEF MapsExact, Exact, Msgs, IsNewer
  <1>6. EntriesExplained'
    BY <1>3 DEF EntriesExplained
  <1> QED
    BY <1>4, <1>5, <1>6

LEMMA SinglePushUnlock ==
  ASSUME TypeOK, SingleInv, PushesInTurn, NEW t \in Thread, PushUnlock(t)
  PROVE  SingleInv'
  <1>1. /\ UNCHANGED messages /\ pc[t] = "loop" /\ pc'[t] \in {"reply", "idle"}
        /\ \A u \in Thread \ {t} :
             /\ pc'[u] = pc[u] /\ batchLog'[u] = batchLog[u]
             /\ newSyncState'[u] = newSyncState[u] /\ pos'[u] = pos[u]
        /\ batchLog'[t] = batchLog[t] \/ batchLog'[t] = <<>>
        /\ \A n \in Node : syncState'[n] = IF n = At(t) THEN newSyncState[t] ELSE syncState[n]
    BY DEF PushUnlock, Return, TypeOK, localVars
  <1>2. /\ At(t) \in Node /\ \A u \in Thread : At(u) \in Node
        /\ \A u \in Thread : u # t /\ pc[u] \in {"lock", "loop"} => At(u) # At(t)
    BY <1>1, AtType DEF PushesInTurn
  <1>3. ASSUME NEW u \in Thread, pc'[u] \in {"lock", "loop"}
        PROVE
          /\ u # t /\ pc'[u] = pc[u] /\ batchLog'[u] = batchLog[u]
          /\ newSyncState'[u] = newSyncState[u] /\ pos'[u] = pos[u]
          /\ syncState'[At(u)] = syncState[At(u)]
    <2>1. u # t /\ pc[u] \in {"lock", "loop"}
      BY <1>1, <1>3
    <2>2. At(u) # At(t) /\ At(u) \in Node
      BY <1>2, <2>1
    <2> QED
      BY <1>1, <2>1, <2>2
  <1>4. \A n \in Node : Msgs(n)' = Msgs(n)
    BY <1>1 DEF Msgs
  <1>5. LogsIncrease'
    BY <1>1 DEF SingleInv, LogsIncrease, Increasing
  <1>6. MapsExact'
    <2>1. ASSUME NEW n \in Node, ~Pushing(n)' PROVE Exact(n, syncState[n])'
      <3>0. \A map : Exact(n, map) => \A m \in Msgs(n)' : ~IsNewer(m, map)
        BY <1>4 DEF Exact
      <3>1. CASE n = At(t)
        <4>1. syncState'[n] = newSyncState[t] /\ Exact(n, newSyncState[t])
          BY <1>1, <3>1 DEF SingleInv, MapsExact
        <4> QED
          BY <3>0, <4>1 DEF Exact, IsNewer
      <3>2. CASE n # At(t)
        <4>1. ~Pushing(n)
          BY <1>1, <2>1, <3>2 DEF Pushing
        <4>2. syncState'[n] = syncState[n] /\ Exact(n, syncState[n])
          BY <1>1, <3>2, <4>1 DEF SingleInv, MapsExact
        <4> QED
          BY <3>0, <4>2 DEF Exact, IsNewer
      <3> QED
        BY <3>1, <3>2
    <2>2. \A u \in Thread : pc'[u] = "lock" => newSyncState'[u] = syncState'[At(u)]
      BY <1>3 DEF SingleInv, MapsExact
    <2>3. ASSUME NEW u \in Thread, pc'[u] = "loop" PROVE Exact(At(u), newSyncState[u])'
      <3>1. Exact(At(u), newSyncState[u]) /\ newSyncState'[u] = newSyncState[u]
        BY <1>3, <2>3 DEF SingleInv, MapsExact
      <3>2. Msgs(At(u))' = Msgs(At(u))
        BY <1>2, <1>4
      <3> QED
        BY <3>1, <3>2 DEF Exact, IsNewer
    <2> QED
      BY <2>1, <2>2, <2>3 DEF MapsExact
  <1>7. EntriesExplained'
    <2> SUFFICES ASSUME NEW u \in Thread, pc'[u] = "loop", NEW s \in Node
                 PROVE  \/ newSyncState'[u][s] = syncState'[At(u)][s]
                        \/ \E j \in DOMAIN batchLog'[u] :
                             /\ j < pos'[u] /\ batchLog'[u][j].sender = s
                             /\ batchLog'[u][j].time = newSyncState'[u][s]
      BY DEF EntriesExplained
    <2>1. /\ pc[u] = "loop" /\ batchLog'[u] = batchLog[u] /\ pos'[u] = pos[u]
          /\ newSyncState'[u] = newSyncState[u] /\ syncState'[At(u)] = syncState[At(u)]
      BY <1>3
    <2> QED
      BY <2>1 DEF SingleInv, EntriesExplained
  <1> QED
    BY <1>5, <1>6, <1>7 DEF SingleInv

(* A log stays increasing when a message is appended that is newer than    *)
(* all messages of its sender.                                             *)
LEMMA IncreasingAppend ==
  ASSUME NEW L \in Seq(Message), NEW m \in Message, Increasing(L),
         \A k \in Range(L) : k.sender = m.sender => k.time < m.time
  PROVE  Increasing(Append(L, m))
  <1> DEFINE M == Append(L, m)
  <1>1. /\ DOMAIN L = 1..Len(L) /\ Len(L) \in Nat
        /\ DOMAIN M = 1..(Len(L) + 1) /\ M[Len(L) + 1] = m
        /\ \A i \in DOMAIN L : M[i] = L[i]
    OBVIOUS
  <1> HIDE DEF M
  <1>2. ASSUME NEW i \in DOMAIN M, NEW j \in DOMAIN M, i < j, M[i].sender = M[j].sender
        PROVE  M[i].time < M[j].time
    <2>1. i \in DOMAIN L /\ M[i] = L[i] /\ L[i] \in Range(L)
      BY <1>1, <1>2 DEF Range
    <2>2. CASE j \in DOMAIN L
      BY <1>1, <1>2, <2>1, <2>2 DEF Increasing
    <2>3. CASE j = Len(L) + 1
      BY <1>1, <1>2, <2>1, <2>3
    <2> QED
      BY <1>1, <2>2, <2>3
  <1> QED
    BY <1>2 DEF Increasing, M

(* The message that the loop accepts is newer than all of its sender's     *)
(* messages in the room.                                                   *)
LEMMA AcceptedIsNewest ==
  ASSUME TypeOK, SingleInv, NEW t \in Thread, pc[t] = "loop", Accepts(t),
         pos[t] \in DOMAIN batchLog[t],
         NEW m \in Message, m = batchLog[t][pos[t]]
  PROVE  \A k \in Msgs(At(t)) : k.sender = m.sender => k.time < m.time
  <1>1. /\ At(t) \in Node /\ m.sender \in Node /\ m.time \in Nat
        /\ newSyncState[t][m.sender] \in Nat
    BY AtType, ConstantsAssumption DEF Message, TypeOK, SyncMap
  <1>2. newSyncState[t][m.sender] < m.time
    <2>1. CASE newSyncState[t][m.sender] = syncState[At(t)][m.sender]
      BY <1>1, <2>1 DEF Accepts, IsNewer
    <2>2. CASE newSyncState[t][m.sender] # syncState[At(t)][m.sender]
      <3>1. PICK j \in DOMAIN batchLog[t] :
              /\ j < pos[t]
              /\ batchLog[t][j].sender = m.sender
              /\ batchLog[t][j].time = newSyncState[t][m.sender]
        BY <1>1, <2>2 DEF SingleInv, EntriesExplained
      <3> QED
        BY <3>1 DEF SingleInv, LogsIncrease, Increasing
    <2> QED
      BY <2>1, <2>2
  <1>3. ASSUME NEW k \in Msgs(At(t)), k.sender = m.sender PROVE k.time < m.time
    <2>1. k.time \in Nat
      <3>1. messages[At(t)] \in Seq(Message)
        BY <1>1 DEF TypeOK
      <3>2. k \in Message
        BY <3>1 DEF Msgs, Range
      <3> QED
        BY <3>2, ConstantsAssumption DEF Message
    <2>2. ~(k.time > newSyncState[t][m.sender])
      BY <1>3 DEF SingleInv, MapsExact, Exact, IsNewer
    <2> QED
      BY <1>1, <1>2, <2>1, <2>2
  <1> QED
    BY <1>3

LEMMA SinglePushSkip ==
  ASSUME TypeOK, SingleInv, NEW t \in Thread, PushNext(t), ~Accepts(t)
  PROVE  SingleInv'
  <1>1. /\ UNCHANGED <<messages, syncState, pc, batchLog, newSyncState>>
        /\ pos' = [pos EXCEPT ![t] = @ + 1]
    BY DEF PushNext
  <1>2. \A u \in Thread : \A j \in DOMAIN batchLog[u] : j < pos[u] => j < pos'[u]
    <2>1. \A u \in Thread : /\ pos[u] \in Nat /\ batchLog[u] \in Seq(Message)
                            /\ (pos'[u] = pos[u] \/ pos'[u] = pos[u] + 1)
      BY <1>1 DEF TypeOK
    <2> QED
      BY <2>1
  <1>3. LogsIncrease'
    BY <1>1 DEF SingleInv, LogsIncrease, Increasing
  <1>4. MapsExact'
    BY <1>1 DEF SingleInv, MapsExact, Exact, Pushing, Msgs, IsNewer
  <1>5. EntriesExplained'
    BY <1>1, <1>2 DEF SingleInv, EntriesExplained
  <1> QED
    BY <1>3, <1>4, <1>5 DEF SingleInv

LEMMA SinglePushAccept ==
  ASSUME TypeOK, SingleInv, PushesInTurn, NEW t \in Thread, PushNext(t), Accepts(t)
  PROVE  SingleInv'
  <1> DEFINE n == At(t)
             m == batchLog[t][pos[t]]
  <1>1. /\ UNCHANGED <<syncState, pc, batchLog>> /\ pc[t] = "loop"
        /\ messages' = [messages EXCEPT ![n] = Append(@, m)]
        /\ newSyncState' = [newSyncState EXCEPT ![t][m.sender] = m.time]
        /\ pos' = [pos EXCEPT ![t] = @ + 1]
    BY DEF PushNext
  <1>2. /\ n \in Node /\ pos[t] \in DOMAIN batchLog[t] /\ m \in Message /\ pos[t] \in Nat
    <2>1. pos[t] \in DOMAIN batchLog[t] /\ batchLog[t] \in Seq(Message) /\ pos[t] \in Nat
      BY DEF Accepts, Batch, findMessagesToSync, TypeOK
    <2> QED
      BY <2>1, AtType
  <1>3. \A k \in Msgs(n) : k.sender = m.sender => k.time < m.time
    BY <1>1, <1>2, AcceptedIsNewest
  <1>4. \A u \in Thread : u # t /\ pc[u] = "loop" => At(u) \in Node /\ At(u) # n
    BY <1>1, AtType DEF PushesInTurn
  <1>5. m = batchLog[t][pos[t]] /\ n = At(t)
    OBVIOUS
  <1> HIDE DEF m, n
  <1>6. m.sender \in Node /\ m.time \in Nat
    BY <1>2, ConstantsAssumption DEF Message
  <1>7. /\ \A u \in Thread : \A s \in Node :
             newSyncState'[u][s] = IF u = t /\ s = m.sender THEN m.time ELSE newSyncState[u][s]
        /\ \A u \in Thread \ {t} : newSyncState'[u] = newSyncState[u] /\ pos'[u] = pos[u]
        /\ pos'[t] = pos[t] + 1
    BY <1>1 DEF TypeOK, SyncMap
  <1>8. /\ messages'[n] = Append(messages[n], m) /\ messages[n] \in Seq(Message)
        /\ \A k \in Node \ {n} : messages'[k] = messages[k]
    BY <1>1, <1>2 DEF TypeOK
  <1>9. Msgs(n)' = Msgs(n) \cup {m} /\ \A k \in Node \ {n} : Msgs(k)' = Msgs(k)
    <2>1. Held' = [Held EXCEPT ![n] = @ \cup {m}]
      BY <1>1, <1>2, HeldAppended
    <2> QED
      BY <1>2, <2>1 DEF Held
  <1>10. LogsIncrease'
    <2>1. Increasing(Append(messages[n], m))
      BY <1>2, <1>3, <1>8, IncreasingAppend DEF SingleInv, LogsIncrease, Msgs
    <2>2. Increasing(messages[n])'
      BY <1>8, <2>1 DEF Increasing
    <2>3. \A k \in Node \ {n} : Increasing(messages[k])'
      BY <1>8 DEF SingleInv, LogsIncrease, Increasing
    <2>4. \A u \in Thread : Increasing(batchLog[u])'
      BY <1>1 DEF SingleInv, LogsIncrease, Increasing
    <2> QED
      BY <2>2, <2>3, <2>4 DEF LogsIncrease
  <1>11. MapsExact'
    <2>1. ASSUME NEW k \in Node, ~Pushing(k)' PROVE Exact(k, syncState[k])'
      <3>1. k # n /\ ~Pushing(k)
        BY <1>1, <1>5, <2>1 DEF Pushing
      <3> QED
        BY <1>1, <1>9, <3>1 DEF SingleInv, MapsExact, Exact, IsNewer
    <2>2. \A u \in Thread : pc'[u] = "lock" => newSyncState'[u] = syncState'[At(u)]
      BY <1>1, <1>7 DEF SingleInv, MapsExact
    <2>3. ASSUME NEW u \in Thread \ {t}, pc'[u] = "loop" PROVE Exact(At(u), newSyncState[u])'
      <3>1. Exact(At(u), newSyncState[u]) /\ newSyncState'[u] = newSyncState[u]
        BY <1>1, <1>7, <2>3 DEF SingleInv, MapsExact
      <3>2. Msgs(At(u))' = Msgs(At(u))
        BY <1>1, <1>4, <1>9, <2>3
      <3> QED
        BY <3>1, <3>2 DEF Exact, IsNewer
    <2>4. Exact(n, newSyncState[t])'
      <3> SUFFICES ASSUME NEW k \in Msgs(n)' PROVE ~IsNewer(k, newSyncState'[t])
        BY DEF Exact, IsNewer
      <3>1. CASE k.sender = m.sender
        <4>1. newSyncState'[t][m.sender] = m.time /\ (k = m \/ k.time < m.time)
          BY <1>3, <1>6, <1>7, <1>9, <3>1
        <4>2. k \in Message
          BY <1>2, <1>8, <1>9 DEF Msgs, Range
        <4> QED
          BY <1>6, <3>1, <4>1, <4>2, ConstantsAssumption DEF IsNewer, Message
      <3>2. CASE k.sender # m.sender
        <4>1. k \in Msgs(n) /\ k \in Message
          BY <1>8, <1>9, <3>2 DEF Msgs, Range
        <4>2. newSyncState'[t][k.sender] = newSyncState[t][k.sender]
          BY <1>7, <3>2, <4>1 DEF Message
        <4>3. ~IsNewer(k, newSyncState[t])
          BY <1>1, <1>5, <4>1 DEF SingleInv, MapsExact, Exact
        <4> QED
          BY <4>2, <4>3 DEF IsNewer
      <3> QED
        BY <3>1, <3>2
    <2> QED
      BY <1>5, <2>1, <2>2, <2>3, <2>4 DEF MapsExact
  <1>12. EntriesExplained'
    <2> SUFFICES ASSUME NEW u \in Thread, pc[u] = "loop", NEW s \in Node
                 PROVE  \/ newSyncState'[u][s] = syncState[At(u)][s]
                        \/ \E j \in DOMAIN batchLog[u] :
                             /\ j < pos'[u] /\ batchLog[u][j].sender = s
                             /\ batchLog[u][j].time = newSyncState'[u][s]
      BY <1>1 DEF EntriesExplained
    <2>1. CASE u = t /\ s = m.sender
      <3>1. pos[t] \in DOMAIN batchLog[t] /\ pos[t] < pos'[t]
        BY <1>2, <1>7
      <3> QED
        BY <1>5, <1>7, <2>1, <3>1
    <2>2. CASE ~(u = t /\ s = m.sender)
      <3>1. newSyncState'[u][s] = newSyncState[u][s]
        BY <1>7, <2>2
      <3>2. \A j \in DOMAIN batchLog[u] : j < pos[u] => j < pos'[u]
        <4>1. batchLog[u] \in Seq(Message) /\ pos[u] \in Nat
          BY DEF TypeOK
        <4>2. pos'[u] = pos[u] \/ pos'[u] = pos[u] + 1
          BY <1>7
        <4> QED
          BY <4>1, <4>2
      <3> QED
        BY <3>1, <3>2 DEF SingleInv, EntriesExplained
    <2> QED
      BY <2>1, <2>2
  <1> QED
    BY <1>10, <1>11, <1>12 DEF SingleInv

LEMMA SingleStep == TypeOK /\ SingleInv /\ PushesInTurn /\ [Next]_vars => SingleInv'
  <1> SUFFICES ASSUME TypeOK, SingleInv, PushesInTurn, [Next]_vars PROVE SingleInv'
    OBVIOUS
  <1>1. ASSUME NEW q \in Queue, QueueNext(q) PROVE SingleInv'
    BY <1>1, SingleQuiet DEF QueueNext, QueueDone, QueueInSync, Wake, DialFails, roomVars
  <1>2. ASSUME NEW c \in Conn, ConnNext(c) PROVE SingleInv'
    BY <1>2, SingleConn
  <1>3. ASSUME NEW a \in Api, NewMessage(a) PROVE SingleInv'
    BY <1>3, SingleNewMessage
  <1>4. ASSUME NEW t \in Thread, PushNextStep(t) PROVE SingleInv'
    BY <1>4, SinglePushCopy, SinglePushLock, SinglePushSkip, SinglePushAccept, SinglePushUnlock
       DEF PushNextStep
  <1>5. ASSUME NEW n \in Stops, StopQueues(n) PROVE SingleInv'
    BY <1>5, SingleQuiet DEF StopQueues
  <1>6. CASE UNCHANGED vars
    BY <1>6, SingleQuiet DEF vars, roomVars
  <1> QED
    BY <1>1, <1>2, <1>3, <1>4, <1>5, <1>6 DEF Next

LEMMA SingleInvCorrect == Spec /\ []PushesInTurn => [](TypeOK /\ SingleInv)
  <1>1. Init => TypeOK /\ SingleInv
    BY TypeInit, SingleInit
  <1>2. TypeOK /\ SingleInv /\ PushesInTurn /\ [Next]_vars => TypeOK' /\ SingleInv'
    BY TypeStep, SingleStep
  <1> QED
    BY <1>1, <1>2, PTL DEF Spec

(* As long as pushes into one room do not overlap from the copy of its     *)
(* SyncState on, no room holds a message twice.                            *)
THEOREM NoDuplicatesCorrect == Spec /\ []PushesInTurn => []NoDuplicates
  <1>1. TypeOK /\ SingleInv => NoDuplicates
    <2> SUFFICES ASSUME TypeOK, SingleInv, NEW n \in Node,
                        NEW i \in DOMAIN messages[n], NEW j \in DOMAIN messages[n],
                        messages[n][i] = messages[n][j]
                 PROVE  i = j
      BY DEF NoDuplicates, IsInjective
    <2>1. messages[n] \in Seq(Message) /\ Increasing(messages[n])
      BY DEF TypeOK, SingleInv, LogsIncrease
    <2>2. i \in Nat /\ j \in Nat /\ messages[n][i] \in Message
      BY <2>1
    <2>3. messages[n][i].time \in Nat
      BY <2>2, ConstantsAssumption DEF Message
    <2> QED
      BY <2>1, <2>2, <2>3 DEF Increasing
  <1> QED
    BY <1>1, SingleInvCorrect, PTL

=============================================================================
