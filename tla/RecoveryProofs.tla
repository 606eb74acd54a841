--------------------------- MODULE RecoveryProofs ---------------------------
(***************************************************************************)
(* Proofs about Recovery, for any members, queues and bounds.              *)
(*                                                                         *)
(* The argument: a stop is the only step after which a member has less     *)
(* than before, and what it then lacks is either in its file or lost.      *)
(* Everything else, a SyncState, a log, an image, a batch on its way, may  *)
(* claim a message only if it is in the room, in the same file, or lost;   *)
(* these sets only grow between two stops.                                 *)
(***************************************************************************)
EXTENDS Recovery, TLAPS

Held(n) == ToSet(messages[n])
At(s, t) == [sender |-> s, time |-> t]

(* The truncated file of a save is still empty.                            *)
Truncated == \A n \in Node : save[n] = "half" => file[n] = {}

TypeInv == TypeOK /\ Truncated

------------------------------------------------------------------------------
(* Saves and exits                                                         *)

(* Without its room a daemon neither pushes nor saves.                     *)
DownIsEmpty ==
  \A n \in Node : phase[n] # "up" =>
    messages[n] = <<>> /\ syncState[n] = NoEntries /\ push[n] = {} /\ save[n] = "no"

(* What was saved once is in the room, so the next image has it too.       *)
SavedIsHeld ==
  \A n \in Node :
    /\ phase[n] = "up" => saved[n] \subseteq Held(n)
    /\ save[n] = "half" =>
         saved[n] \subseteq ToSet(image[n]) /\ ToSet(image[n]) \subseteq Held(n)

(* late is what a save does not reach.                                     *)
LateIsMissed ==
  \A n \in Node :
    /\ save[n] = "half" => Held(n) \subseteq ToSet(image[n]) \cup late[n]
    /\ save[n] = "written" => Held(n) \subseteq InFile(n) \cup late[n]

SaveInv == DownIsEmpty /\ SavedIsHeld /\ SavedIsKept /\ LateIsMissed

------------------------------------------------------------------------------
(* Gaps                                                                    *)

(* Set M has all messages that map claims.                                 *)
Claims(map, M) == \A s \in Node : \A t \in 1..map[s] : At(s, t) \in M

(* Before a message of L come the earlier ones of its sender, but for the  *)
(* ones in M.                                                              *)
GapsIn(L, M) ==
  \A i \in DOMAIN L : \A t \in 1..(L[i].time - 1) :
    \/ At(L[i].sender, t) \in M
    \/ \E j \in 1..(i-1) : L[j] = At(L[i].sender, t)

Known(n) == Held(n) \cup lost

MapsClaim(n) ==
  /\ Claims(syncState[n], Known(n))
  /\ \A p \in push[n] : Claims(p.newSyncState, Known(n))
  /\ \A img \in file[n] : Claims(img.syncState, ToSet(img.messages) \cup Known(n))

LogsHaveNoGaps(n) ==
  /\ GapsIn(messages[n], lost)
  /\ GapsIn(image[n], lost)
  /\ \A p \in push[n] : GapsIn(p.batch, Known(n))
  /\ \A img \in file[n] : GapsIn(img.messages, lost)

(* What a push has passed is in the room.                                  *)
PassedIsKnown(n) ==
  \A p \in push[n] : \A j \in DOMAIN p.batch : j < p.next => p.batch[j] \in Known(n)

(* The messages that a member has ever sent.                               *)
OwnIsSomewhere(n) ==
  \A t \in 1..clock[n] :
    At(n, t) \in lost \cup (IF phase[n] = "up" THEN Held(n) \cup OwnInPush(n) ELSE InFile(n))

ClaimsOf(n) == MapsClaim(n) /\ LogsHaveNoGaps(n) /\ PassedIsKnown(n) /\ OwnIsSomewhere(n)

ClaimInv == \A n \in Node : ClaimsOf(n)

------------------------------------------------------------------------------
(* Clocks                                                                  *)

MapInTime(map, c) == \A s \in Node : map[s] <= c[s]
LogInTime(L, c) == \A i \in DOMAIN L : L[i].time <= c[L[i].sender]

(* All that a member has is in time with the clocks c.                     *)
InTime(n, c) ==
  /\ MapInTime(syncState[n], c) /\ LogInTime(messages[n], c) /\ LogInTime(image[n], c)
  /\ \A p \in push[n] : MapInTime(p.newSyncState, c) /\ LogInTime(p.batch, c)
  /\ \A img \in file[n] : MapInTime(img.syncState, c) /\ LogInTime(img.messages, c)

(* No copy of a message or of a SyncState is ahead of the sender's clock.  *)
ClockInv == \A n \in Node : InTime(n, clock)

------------------------------------------------------------------------------
(* Type correctness                                                        *)

LEMMA TypeInit == Init => TypeInv
  <1> SUFFICES ASSUME Init PROVE TypeInv
    OBVIOUS
  <1>1. Empty \in Image /\ NoEntries \in SyncMap
    BY ConstantsAssumption DEF Empty, Image, NoEntries, SyncMap
  <1> QED
    BY <1>1, ConstantsAssumption DEF Init, TypeInv, TypeOK, Truncated

LEMMA BeginPushType ==
  ASSUME TypeOK, NEW n \in Node, NEW batch \in Seq(Message), BeginPush(n, batch)
  PROVE  /\ push' \in [Node -> SUBSET Push]
         /\ \A k \in Node : \A p, q \in push'[k] : p = q
  <1> DEFINE p == [batch |-> batch, next |-> 1, newSyncState |-> syncState[n]]
  <1>1. p \in Push
    BY DEF TypeOK, Push
  <1>2. push' = [push EXCEPT ![n] = {p}]
    BY DEF BeginPush
  <1> HIDE DEF p
  <1> QED
    BY <1>1, <1>2 DEF TypeOK

LEMMA TypeSendMessage ==
  ASSUME TypeInv, NEW n \in Node, SendMessage(n)
  PROVE  TypeInv'
  <1> USE DEF TypeInv
  <1>1. clock' \in [Node -> 0..MaxTime]
    BY ConstantsAssumption DEF SendMessage, TypeOK
  <1>2. <<[sender |-> n, time |-> clock[n] + 1]>> \in Seq(Message)
    BY ConstantsAssumption DEF SendMessage, TypeOK, Message
  <1>3. /\ push' \in [Node -> SUBSET Push]
        /\ \A k \in Node : \A p, q \in push'[k] : p = q
    BY <1>2, BeginPushType DEF SendMessage
  <1> QED
    BY <1>1, <1>3 DEF SendMessage, TypeOK, Truncated, saveVars, histVars

LEMMA TypeSync ==
  ASSUME TypeInv, NEW n \in Node, NEW p \in Node, Sync(n, p)
  PROVE  TypeInv'
  <1> USE DEF TypeInv
  <1>1. messages[n] \in Seq(Message)
    BY DEF TypeOK
  <1>2. /\ push' \in [Node -> SUBSET Push]
        /\ \A k \in Node : \A q, r \in push'[k] : q = r
    BY <1>1, BeginPushType DEF Sync, findMessagesToSync
  <1> QED
    BY <1>2 DEF Sync, TypeOK, Truncated, saveVars, histVars

(* The step of PushNext: push p of member n goes on as q after message m,  *)
(* the i-th of its batch.                                                  *)
Pushes(n, p, i, m, q) ==
  /\ push[n] = {p} /\ i \in p.next..Len(p.batch) /\ i \in DOMAIN p.batch
  /\ m = p.batch[i] /\ IsNewer(m, syncState[n]) /\ Skipped(n, p, i - 1)
  /\ q.batch = p.batch /\ q.next = i + 1
  /\ q.newSyncState = [p.newSyncState EXCEPT ![m.sender] = m.time]
  /\ messages' = [messages EXCEPT ![n] = Append(@, m)]
  /\ push' = [push EXCEPT ![n] = {q}]
  /\ late' = [late EXCEPT ![n] = IF save[n] = "no" THEN @ ELSE @ \cup {m}]

LEMMA PushNextStep ==
  ASSUME TypeOK, NEW n \in Node, PushNext(n)
  PROVE  \E p \in Push, i \in Nat \ {0}, m \in Message, q \in Push : Pushes(n, p, i, m, q)
  <1>1. PICK p \in push[n] : \E i \in p.next..Len(p.batch) :
          LET m == p.batch[i]
          IN  /\ Skipped(n, p, i - 1) /\ IsNewer(m, syncState[n])
              /\ messages' = [messages EXCEPT ![n] = Append(@, m)]
              /\ push' = [push EXCEPT ![n] =
                             {[batch |-> p.batch, next |-> i + 1,
                               newSyncState |-> [p.newSyncState EXCEPT ![m.sender] = m.time]]}]
              /\ late' = [late EXCEPT ![n] = IF save[n] = "no" THEN @ ELSE @ \cup {m}]
    BY DEF PushNext
  <1>2. PICK i \in p.next..Len(p.batch) :
          LET m == p.batch[i]
          IN  /\ Skipped(n, p, i - 1) /\ IsNewer(m, syncState[n])
              /\ messages' = [messages EXCEPT ![n] = Append(@, m)]
              /\ push' = [push EXCEPT ![n] =
                             {[batch |-> p.batch, next |-> i + 1,
                               newSyncState |-> [p.newSyncState EXCEPT ![m.sender] = m.time]]}]
              /\ late' = [late EXCEPT ![n] = IF save[n] = "no" THEN @ ELSE @ \cup {m}]
    BY <1>1
  <1>3. p \in Push /\ push[n] = {p}
    BY DEF TypeOK
  <1>4. p.batch \in Seq(Message) /\ p.next \in Nat \ {0} /\ p.newSyncState \in SyncMap
    BY <1>3 DEF Push
  <1>5. i \in Nat \ {0} /\ i \in DOMAIN p.batch /\ p.batch[i] \in Message
    BY <1>4
  <1> DEFINE m == p.batch[i]
             map == [p.newSyncState EXCEPT ![m.sender] = m.time]
             q == [batch |-> p.batch, next |-> i + 1, newSyncState |-> map]
  <1>6. map \in SyncMap
    BY <1>4, <1>5, ConstantsAssumption DEF SyncMap, Message
  <1>7. q \in Push
    BY <1>4, <1>5, <1>6 DEF Push
  <1>8. q.batch = p.batch /\ q.next = i + 1 /\ q.newSyncState = map
    OBVIOUS
  <1>9. /\ Skipped(n, p, i - 1) /\ IsNewer(m, syncState[n])
        /\ messages' = [messages EXCEPT ![n] = Append(@, m)]
        /\ push' = [push EXCEPT ![n] = {q}]
        /\ late' = [late EXCEPT ![n] = IF save[n] = "no" THEN @ ELSE @ \cup {m}]
    BY <1>2
  <1> QED
    BY <1>3, <1>5, <1>7, <1>8, <1>9 DEF Pushes

LEMMA TypePushNext ==
  ASSUME TypeInv, NEW n \in Node, PushNext(n)
  PROVE  TypeInv'
  <1> USE DEF TypeInv
  <1>0. PICK p \in Push, i \in Nat \ {0}, m \in Message, q \in Push : Pushes(n, p, i, m, q)
    BY PushNextStep
  <1>1. /\ messages' = [messages EXCEPT ![n] = Append(@, m)]
        /\ push' = [push EXCEPT ![n] = {q}]
        /\ late' = [late EXCEPT ![n] = IF save[n] = "no" THEN @ ELSE @ \cup {m}]
    BY <1>0 DEF Pushes
  <1>2. messages' \in [Node -> Seq(Message)]
    <2>1. Append(messages[n], m) \in Seq(Message)
      BY DEF TypeOK
    <2> QED
      BY <1>1, <2>1 DEF TypeOK
  <1>3. /\ push' \in [Node -> SUBSET Push] /\ \A k \in Node : \A r, s \in push'[k] : r = s
        /\ late' \in [Node -> SUBSET Message]
    BY <1>1 DEF TypeOK
  <1> QED
    BY <1>2, <1>3 DEF PushNext, TypeOK, Truncated, saveVars

LEMMA TypeStoreSyncState ==
  ASSUME TypeInv, NEW n \in Node, StoreSyncState(n)
  PROVE  TypeInv'
  <1> USE DEF TypeInv
  <1>1. PICK p \in push[n] : syncState' = [syncState EXCEPT ![n] = p.newSyncState]
    BY DEF StoreSyncState
  <1>2. p.newSyncState \in SyncMap
    BY DEF TypeOK, Push
  <1>3. syncState' \in [Node -> SyncMap]
    BY <1>1, <1>2 DEF TypeOK
  <1>4. push' \in [Node -> SUBSET Push] /\ \A k \in Node : \A q, r \in push'[k] : q = r
    BY DEF StoreSyncState, TypeOK
  <1> QED
    BY <1>3, <1>4 DEF StoreSyncState, TypeOK, Truncated, saveVars, histVars

LEMMA TypeBeginSave ==
  ASSUME TypeInv, NEW n \in Node, NEW exit \in BOOLEAN, BeginSave(n, exit)
  PROVE  TypeInv'
  <1> USE DEF TypeInv
  <1>1. /\ saves' \in 0..MaxSave
        /\ save' \in [Node -> {"no", "half", "written"}] /\ exiting' \in [Node -> BOOLEAN]
        /\ image' \in [Node -> Seq(Message)]
    BY ConstantsAssumption DEF BeginSave, TypeOK
  <1>2. /\ file' \in [Node -> SUBSET Image] /\ \A k \in Node : \A i, j \in file'[k] : i = j
        /\ Truncated'
    BY DEF BeginSave, TypeOK, Truncated
  <1> QED
    BY <1>1, <1>2 DEF BeginSave, TypeOK, roomVars, histVars

LEMMA TypeFinishSave ==
  ASSUME TypeInv, NEW n \in Node, FinishSave(n)
  PROVE  TypeInv'
  <1> USE DEF TypeInv
  <1>1. save[n] = "half" /\ file[n] = {}
    BY DEF FinishSave, Saved, Truncated
  <1> DEFINE img == [messages |-> image[n], syncState |-> syncState[n]]
  <1>2. img \in Image
    BY DEF TypeOK, Image
  <1>3. file' = [file EXCEPT ![n] = {img}]
    BY <1>1 DEF FinishSave
  <1> HIDE DEF img
  <1>4. file' \in [Node -> SUBSET Image] /\ \A k \in Node : \A i, j \in file'[k] : i = j
    BY <1>2, <1>3 DEF TypeOK
  <1>5. /\ save' \in [Node -> {"no", "half", "written"}] /\ image' \in [Node -> Seq(Message)]
        /\ late' \in [Node -> SUBSET Message]
    BY DEF FinishSave, Saved, TypeOK
  <1>6. saved' \in [Node -> SUBSET Message]
    <2>1. image[n] \in Seq(Message)
      BY DEF TypeOK
    <2>2. ToSet(image[n]) \subseteq Message
      BY <2>1 DEF ToSet
    <2> QED
      BY <2>2 DEF FinishSave, Saved, TypeOK
  <1>7. Truncated'
    BY <1>3 DEF FinishSave, Saved, Truncated, TypeOK
  <1> QED
    BY <1>4, <1>5, <1>6, <1>7 DEF FinishSave, Saved, TypeOK, roomVars

LEMMA TypeStop ==
  ASSUME TypeInv, NEW n \in Node, Stop(n)
  PROVE  TypeInv'
  <1> USE DEF TypeInv
  <1>1. /\ stops' \in 0..MaxStop
        /\ phase' \in [Node -> {"starting", "up", "gone"}]
        /\ messages' \in [Node -> Seq(Message)] /\ image' \in [Node -> Seq(Message)]
        /\ save' \in [Node -> {"no", "half", "written"}] /\ exiting' \in [Node -> BOOLEAN]
    BY ConstantsAssumption DEF Stop, TypeOK
  <1>2. /\ push' \in [Node -> SUBSET Push] /\ \A k \in Node : \A p, q \in push'[k] : p = q
        /\ late' \in [Node -> SUBSET Message]
    BY DEF Stop, TypeOK
  <1>3. syncState' \in [Node -> SyncMap]
    <2>1. NoEntries \in SyncMap
      BY ConstantsAssumption DEF NoEntries, SyncMap
    <2> QED
      BY <2>1 DEF Stop, TypeOK
  <1>4. lost' \subseteq Message
    <2>1. messages[n] \in Seq(Message) /\ \A p \in push[n] : p.batch \in Seq(Message)
      BY DEF TypeOK, Push
    <2>2. ToSet(messages[n]) \subseteq Message /\ OwnInPush(n) \subseteq Message
      BY <2>1 DEF ToSet, OwnInPush
    <2> QED
      BY <2>2 DEF Stop, TypeOK
  <1> QED
    BY <1>1, <1>2, <1>3, <1>4 DEF Stop, TypeOK, Truncated

LEMMA TypeLoadData ==
  ASSUME TypeInv, NEW n \in Node, loadData(n)
  PROVE  TypeInv'
  <1> USE DEF TypeInv
  <1>1. \/ phase' = [phase EXCEPT ![n] = "gone"] /\ UNCHANGED <<messages, syncState>>
        \/ \E img \in file[n] :
             /\ phase' = [phase EXCEPT ![n] = "up"]
             /\ messages' = [messages EXCEPT ![n] = img.messages]
             /\ syncState' = [syncState EXCEPT ![n] = img.syncState]
    BY DEF loadData
  <1>2. \A img \in file[n] : img.messages \in Seq(Message) /\ img.syncState \in SyncMap
    BY DEF TypeOK, Image
  <1>3. /\ phase' \in [Node -> {"starting", "up", "gone"}]
        /\ messages' \in [Node -> Seq(Message)] /\ syncState' \in [Node -> SyncMap]
    BY <1>1, <1>2 DEF TypeOK
  <1> QED
    BY <1>3 DEF loadData, TypeOK, Truncated, saveVars, histVars

LEMMA TypeExitEarly ==
  ASSUME TypeInv, NEW n \in Node, ExitEarly(n)
  PROVE  TypeInv'
  BY ConstantsAssumption
     DEF ExitEarly, TypeInv, TypeOK, Truncated, roomVars, saveVars, histVars

(* The steps of Next, by name.                                             *)
LEMMA NextSteps ==
  ASSUME [Next]_vars
  PROVE  \/ UNCHANGED vars
         \/ \E n, p \in Node : Sync(n, p)
         \/ \E n \in Node : \E exit \in BOOLEAN : BeginSave(n, exit)
         \/ \E n \in Node :
              \/ SendMessage(n) \/ PushNext(n) \/ StoreSyncState(n) \/ FinishSave(n)
              \/ Stop(n) \/ ExitEarly(n) \/ loadData(n)
  BY ConstantsAssumption DEF Next, Crash, Exit

LEMMA TypeStep == TypeInv /\ [Next]_vars => TypeInv'
  <1> SUFFICES ASSUME TypeInv, [Next]_vars PROVE TypeInv'
    OBVIOUS
  <1>1. CASE UNCHANGED vars
    BY <1>1 DEF vars, roomVars, saveVars, histVars, TypeInv, TypeOK, Truncated
  <1>2. CASE \E n, p \in Node : Sync(n, p)
    BY <1>2, TypeSync
  <1>3. CASE \E n \in Node : \E exit \in BOOLEAN : BeginSave(n, exit)
    BY <1>3, TypeBeginSave
  <1>4. CASE \E n \in Node :
              \/ SendMessage(n) \/ PushNext(n) \/ StoreSyncState(n) \/ FinishSave(n)
              \/ Stop(n) \/ ExitEarly(n) \/ loadData(n)
    BY <1>4, TypeSendMessage, TypePushNext, TypeStoreSyncState, TypeFinishSave, TypeStop,
       TypeExitEarly, TypeLoadData
  <1> QED
    BY <1>1, <1>2, <1>3, <1>4, NextSteps

(* Type correctness: a data file is truncated or holds one image, a member *)
(* pushes at most one batch at a time.                                     *)
THEOREM TypeCorrect == Spec => []TypeOK
  <1>1. Spec => []TypeInv
    BY TypeInit, TypeStep, PTL DEF Spec
  <1> QED
    BY <1>1, PTL DEF TypeInv

------------------------------------------------------------------------------
(* Sets of messages                                                        *)

LEMMA ToSetAppend ==
  ASSUME NEW S, NEW L \in Seq(S), NEW m \in S
  PROVE  ToSet(Append(L, m)) = ToSet(L) \cup {m}
  <1> DEFINE M == Append(L, m)
  <1>1. /\ DOMAIN M = 1..(Len(L) + 1) /\ DOMAIN L = 1..Len(L) /\ Len(L) \in Nat
        /\ M[Len(L) + 1] = m /\ \A i \in DOMAIN L : M[i] = L[i]
    OBVIOUS
  <1> HIDE DEF M
  <1>2. ToSet(M) = ToSet(L) \cup {m}
    BY <1>1 DEF ToSet
  <1> QED
    BY <1>2 DEF M

LEMMA ToSetEmpty == ToSet(<<>>) = {}
  BY DEF ToSet

LEMMA HeldNext ==
  ASSUME TypeOK, NEW n \in Node, NEW p, NEW i, NEW m \in Message, NEW q, Pushes(n, p, i, m, q)
  PROVE  \A k \in Node : Held(k)' = IF k = n THEN Held(k) \cup {m} ELSE Held(k)
  <1>1. messages[n] \in Seq(Message)
    BY DEF TypeOK
  <1>2. ToSet(Append(messages[n], m)) = ToSet(messages[n]) \cup {m}
    BY <1>1, ToSetAppend
  <1>3. \A k \in Node : messages'[k] = IF k = n THEN Append(messages[n], m) ELSE messages[k]
    BY DEF Pushes, TypeOK
  <1> QED
    BY <1>2, <1>3 DEF Held

LEMMA FileIs ==
  ASSUME TypeOK, NEW n \in Node, NEW img \in file[n]
  PROVE  file[n] = {img} /\ InFile(n) = ToSet(img.messages)
  <1>1. file[n] = {img}
    BY DEF TypeOK
  <1>2. {ToSet(i.messages) : i \in file[n]} = {ToSet(img.messages)}
    BY <1>1
  <1> QED
    BY <1>1, <1>2 DEF InFile

------------------------------------------------------------------------------
(* What a file has is kept, and an exit keeps what it can                  *)

LEMMA SaveInit == Init => SaveInv
  <1> SUFFICES ASSUME Init PROVE SaveInv
    OBVIOUS
  <1>1. DownIsEmpty
    BY DEF Init, DownIsEmpty
  <1>2. SavedIsHeld /\ SavedIsKept /\ LateIsMissed
    BY DEF Init, SavedIsHeld, SavedIsKept, LateIsMissed
  <1> QED
    BY <1>1, <1>2 DEF SaveInv

LEMMA SaveQuiet ==
  ASSUME SaveInv, DownIsEmpty', UNCHANGED <<phase, messages, file, save, image, late, saved>>
  PROVE  SaveInv'
  BY DEF SaveInv, SavedIsHeld, SavedIsKept, LateIsMissed, Held, InFile

(* The room of a member that pushes is there.                              *)
LEMMA SavePush ==
  ASSUME TypeInv, SaveInv, NEW n \in Node,
         \/ SendMessage(n)
         \/ \E p \in Node : Sync(p, n)
         \/ StoreSyncState(n)
  PROVE  SaveInv'
  <1> USE DEF TypeInv
  <1>1. phase[n] = "up"
    BY DEF SendMessage, Sync, StoreSyncState, SaveInv, DownIsEmpty
  <1>2. /\ UNCHANGED <<phase, messages, file, save, image, late, saved>>
        /\ \A k \in Node \ {n} : push'[k] = push[k] /\ syncState'[k] = syncState[k]
    BY DEF SendMessage, Sync, StoreSyncState, BeginPush, saveVars, histVars, TypeOK
  <1>3. DownIsEmpty'
    BY <1>1, <1>2 DEF SaveInv, DownIsEmpty
  <1> QED
    BY <1>2, <1>3, SaveQuiet

LEMMA SavePushNext ==
  ASSUME TypeInv, SaveInv, NEW n \in Node, PushNext(n)
  PROVE  SaveInv'
  <1> USE DEF TypeInv
  <1>1. PICK p \in Push, i \in Nat \ {0}, m \in Message, q \in Push : Pushes(n, p, i, m, q)
    BY PushNextStep
  <1>2. \A k \in Node : Held(k)' = IF k = n THEN Held(k) \cup {m} ELSE Held(k)
    BY <1>1, HeldNext
  <1>3. /\ UNCHANGED <<phase, syncState, file, save, image, saved>>
        /\ \A k \in Node : InFile(k)' = InFile(k)
    BY DEF PushNext, saveVars, InFile
  <1>4. /\ \A k \in Node \ {n} :
             messages'[k] = messages[k] /\ push'[k] = push[k] /\ late'[k] = late[k]
        /\ late'[n] = IF save[n] = "no" THEN late[n] ELSE late[n] \cup {m}
    BY <1>1 DEF Pushes, TypeOK
  <1>5. phase[n] = "up"
    <2>1. push[n] # {}
      BY <1>1 DEF Pushes
    <2> QED
      BY <2>1 DEF SaveInv, DownIsEmpty
  <1>6. DownIsEmpty'
    BY <1>3, <1>4, <1>5 DEF SaveInv, DownIsEmpty
  <1>7. SavedIsHeld'
    BY <1>2, <1>3 DEF SaveInv, SavedIsHeld
  <1>8. SavedIsKept'
    BY <1>3 DEF SaveInv, SavedIsKept
  <1>9. LateIsMissed'
    BY <1>2, <1>3, <1>4 DEF SaveInv, LateIsMissed
  <1> QED
    BY <1>6, <1>7, <1>8, <1>9 DEF SaveInv

LEMMA SaveBeginSave ==
  ASSUME TypeInv, SaveInv, NEW n \in Node, NEW exit \in BOOLEAN, BeginSave(n, exit)
  PROVE  SaveInv'
  <1> USE DEF TypeInv
  <1>1. /\ phase[n] = "up"
        /\ UNCHANGED <<phase, messages, syncState, push, late, saved>>
        /\ \A k \in Node : Held(k)' = Held(k)
    BY DEF BeginSave, roomVars, histVars, Held
  <1>2. \A k \in Node : /\ save'[k] = IF k = n THEN "half" ELSE save[k]
                        /\ file'[k] = IF k = n THEN {} ELSE file[k]
                        /\ image'[k] = IF k = n THEN messages[n] ELSE image[k]
    BY DEF BeginSave, TypeOK
  <1>3. \A k \in Node \ {n} : InFile(k)' = InFile(k)
    BY <1>2 DEF InFile
  <1>4. ToSet(image'[n]) = Held(n)
    BY <1>2 DEF Held
  <1>5. DownIsEmpty'
    BY <1>1, <1>2 DEF SaveInv, DownIsEmpty
  <1>6. SavedIsHeld'
    BY <1>1, <1>2, <1>4 DEF SaveInv, SavedIsHeld
  <1>7. SavedIsKept'
    BY <1>1, <1>2, <1>3 DEF SaveInv, SavedIsKept
  <1>8. LateIsMissed'
    BY <1>1, <1>2, <1>3, <1>4 DEF SaveInv, LateIsMissed
  <1> QED
    BY <1>5, <1>6, <1>7, <1>8 DEF SaveInv

LEMMA SaveFinishSave ==
  ASSUME TypeInv, SaveInv, NEW n \in Node, FinishSave(n)
  PROVE  SaveInv'
  <1> USE DEF TypeInv
  <1>1. /\ save[n] = "half" /\ file[n] = {} /\ phase[n] = "up"
        /\ UNCHANGED <<phase, messages, syncState, push>>
        /\ \A k \in Node : Held(k)' = Held(k)
    BY DEF FinishSave, Saved, roomVars, Held, Truncated, SaveInv, DownIsEmpty
  <1>2. \A k \in Node \ {n} : /\ save'[k] = save[k] /\ file'[k] = file[k] /\ image'[k] = image[k]
                              /\ saved'[k] = saved[k] /\ late'[k] = late[k]
                              /\ InFile(k)' = InFile(k)
    BY DEF FinishSave, Saved, TypeOK, InFile
  <1>3. /\ save'[n] = IF exiting[n] THEN "written" ELSE "no"
        /\ saved'[n] = saved[n] \cup ToSet(image[n])
        /\ late'[n] = IF exiting[n] THEN late[n] ELSE {}
    BY DEF FinishSave, Saved, TypeOK
  <1>4. file'[n] = {[messages |-> image[n], syncState |-> syncState[n]]}
    BY <1>1 DEF FinishSave, TypeOK
  <1>5. InFile(n)' = ToSet(image[n])
    BY <1>4 DEF InFile
  <1>6. DownIsEmpty'
    BY <1>1, <1>2 DEF SaveInv, DownIsEmpty
  <1>7. SavedIsHeld'
    BY <1>1, <1>2, <1>3 DEF SaveInv, SavedIsHeld
  <1>8. SavedIsKept'
    BY <1>1, <1>2, <1>3, <1>5 DEF SaveInv, SavedIsKept, SavedIsHeld
  <1>9. LateIsMissed'
    BY <1>1, <1>2, <1>3, <1>5 DEF SaveInv, LateIsMissed
  <1> QED
    BY <1>6, <1>7, <1>8, <1>9 DEF SaveInv

LEMMA SaveStop ==
  ASSUME TypeInv, SaveInv, NEW n \in Node, Stop(n)
  PROVE  SaveInv'
  <1> USE DEF TypeInv
  <1>1. /\ UNCHANGED <<file, saved>>
        /\ \A k \in Node : InFile(k)' = InFile(k)
    BY DEF Stop, InFile
  <1>2. /\ phase'[n] = "starting" /\ messages'[n] = <<>> /\ syncState'[n] = NoEntries
        /\ push'[n] = {} /\ save'[n] = "no"
    BY DEF Stop, TypeOK
  <1>3. \A k \in Node \ {n} : /\ phase'[k] = phase[k] /\ messages'[k] = messages[k]
                              /\ syncState'[k] = syncState[k] /\ push'[k] = push[k]
                              /\ save'[k] = save[k] /\ image'[k] = image[k] /\ late'[k] = late[k]
                              /\ Held(k)' = Held(k)
    BY DEF Stop, TypeOK, Held
  <1>4. DownIsEmpty'
    BY <1>2, <1>3 DEF SaveInv, DownIsEmpty, NoEntries
  <1>5. SavedIsHeld'
    BY <1>1, <1>2, <1>3 DEF SaveInv, SavedIsHeld
  <1>6. SavedIsKept'
    BY <1>1 DEF SaveInv, SavedIsKept
  <1>7. LateIsMissed'
    BY <1>1, <1>2, <1>3 DEF SaveInv, LateIsMissed
  <1> QED
    BY <1>4, <1>5, <1>6, <1>7 DEF SaveInv

LEMMA SaveLoadData ==
  ASSUME TypeInv, SaveInv, NEW n \in Node, loadData(n)
  PROVE  SaveInv'
  <1> USE DEF TypeInv
  <1>1. /\ UNCHANGED <<push, file, save, image, late, saved>>
        /\ \A k \in Node : InFile(k)' = InFile(k)
        /\ phase[n] = "starting" /\ save[n] = "no" /\ push[n] = {}
    BY DEF loadData, saveVars, histVars, InFile, SaveInv, DownIsEmpty
  <1>2. \A k \in Node \ {n} : /\ phase'[k] = phase[k] /\ messages'[k] = messages[k]
                              /\ syncState'[k] = syncState[k] /\ Held(k)' = Held(k)
    BY DEF loadData, TypeOK, Held
  <1>3. \/ phase'[n] = "gone" /\ messages'[n] = messages[n] /\ syncState'[n] = syncState[n]
        \/ phase'[n] = "up" /\ file[n] # {} /\ Held(n)' = InFile(n)
    <2>1. CASE file[n] = {} /\ phase' = [phase EXCEPT ![n] = "gone"]
                            /\ UNCHANGED <<messages, syncState>>
      BY <2>1 DEF TypeOK
    <2>2. ASSUME NEW img \in file[n],
                 phase' = [phase EXCEPT ![n] = "up"],
                 messages' = [messages EXCEPT ![n] = img.messages]
          PROVE  phase'[n] = "up" /\ file[n] # {} /\ Held(n)' = InFile(n)
      <3>1. InFile(n) = ToSet(img.messages)
        BY FileIs
      <3> QED
        BY <2>2, <3>1 DEF TypeOK, Held
    <2> QED
      BY <2>1, <2>2 DEF loadData
  <1>4. DownIsEmpty'
    BY <1>1, <1>2, <1>3 DEF SaveInv, DownIsEmpty
  <1>5. SavedIsHeld'
    BY <1>1, <1>2, <1>3 DEF SaveInv, SavedIsHeld, SavedIsKept
  <1>6. SavedIsKept'
    BY <1>1 DEF SaveInv, SavedIsKept
  <1>7. LateIsMissed'
    BY <1>1, <1>2, <1>3 DEF SaveInv, LateIsMissed
  <1> QED
    BY <1>4, <1>5, <1>6, <1>7 DEF SaveInv

LEMMA SaveExitEarly ==
  ASSUME SaveInv, NEW n \in Node, ExitEarly(n)
  PROVE  SaveInv'
  <1>1. UNCHANGED <<phase, roomVars, file, saveVars, histVars>>
    BY DEF ExitEarly
  <1>2. DownIsEmpty'
    BY <1>1 DEF roomVars, saveVars, SaveInv, DownIsEmpty
  <1> QED
    BY <1>1, <1>2, SaveQuiet DEF roomVars, saveVars, histVars

LEMMA SaveStep == TypeInv /\ SaveInv /\ [Next]_vars => SaveInv'
  <1> SUFFICES ASSUME TypeInv, SaveInv, [Next]_vars PROVE SaveInv'
    OBVIOUS
  <1>1. CASE UNCHANGED vars
    <2>1. DownIsEmpty'
      BY <1>1 DEF vars, roomVars, saveVars, SaveInv, DownIsEmpty
    <2> QED
      BY <1>1, <2>1, SaveQuiet DEF vars, roomVars, saveVars, histVars
  <1>2. CASE \E n, p \in Node : Sync(n, p)
    BY <1>2, SavePush
  <1>3. CASE \E n \in Node : \E exit \in BOOLEAN : BeginSave(n, exit)
    BY <1>3, SaveBeginSave
  <1>4. CASE \E n \in Node :
              \/ SendMessage(n) \/ PushNext(n) \/ StoreSyncState(n) \/ FinishSave(n)
              \/ Stop(n) \/ ExitEarly(n) \/ loadData(n)
    BY <1>4, SavePush, SavePushNext, SaveFinishSave, SaveStop, SaveExitEarly, SaveLoadData
  <1> QED
    BY <1>1, <1>2, <1>3, <1>4, NextSteps

LEMMA SaveCorrect == Spec => [](TypeInv /\ SaveInv)
  BY TypeInit, TypeStep, SaveInit, SaveStep, PTL DEF Spec

(* What was in the data file of a member once is in it whenever it is not  *)
(* truncated: neither a signal before loadData nor a restart drops it.     *)
THEOREM SavedStays == Spec => []SavedIsKept
  BY SaveCorrect, PTL DEF SaveInv

(* A clean exit writes every message that was there when saveData began.   *)
THEOREM ExitLosesNothing == Spec => ExitKeeps
  <1>1. SaveInv /\ [Next]_vars =>
          [\A n \in Node : Exit(n) => ToSet(messages[n]) \subseteq InFile(n) \cup late[n]]_vars
    BY DEF SaveInv, LateIsMissed, Exit, Held
  <1> QED
    BY <1>1, SaveCorrect, PTL DEF Spec, ExitKeeps

------------------------------------------------------------------------------
(* Claims and gaps                                                         *)

LEMMA ClaimsMore ==
  ASSUME NEW map, NEW M, NEW N, M \subseteq N, Claims(map, M)
  PROVE  Claims(map, N)
  BY DEF Claims

LEMMA GapsMore ==
  ASSUME NEW L, NEW M, NEW N, M \subseteq N, GapsIn(L, M)
  PROVE  GapsIn(L, N)
  BY DEF GapsIn

LEMMA GapsInNothing ==
  ASSUME NEW M
  PROVE  GapsIn(<<>>, M)
  BY DEF GapsIn

LEMMA GapsAppend ==
  ASSUME NEW L \in Seq(Message), NEW M, GapsIn(L, M), NEW m \in Message,
         \A t \in 1..(m.time - 1) : At(m.sender, t) \in M \cup ToSet(L)
  PROVE  GapsIn(Append(L, m), M)
  <1> DEFINE K == Append(L, m)
  <1>1. /\ DOMAIN K = 1..(Len(L) + 1) /\ DOMAIN L = 1..Len(L) /\ Len(L) \in Nat
        /\ K[Len(L) + 1] = m /\ \A i \in DOMAIN L : K[i] = L[i]
    OBVIOUS
  <1> HIDE DEF K
  <1>2. SUFFICES ASSUME NEW i \in DOMAIN K, NEW t \in 1..(K[i].time - 1),
                        At(K[i].sender, t) \notin M
                 PROVE  \E j \in 1..(i-1) : K[j] = At(K[i].sender, t)
    BY DEF GapsIn, K
  <1>3. CASE i \in DOMAIN L
    <2>1. K[i] = L[i] /\ \A j \in 1..(i-1) : K[j] = L[j]
      BY <1>1, <1>3
    <2>2. \E j \in 1..(i-1) : L[j] = At(L[i].sender, t)
      BY <1>2, <1>3, <2>1 DEF GapsIn
    <2> QED
      BY <2>1, <2>2
  <1>4. CASE i = Len(L) + 1
    <2>1. K[i] = m /\ 1..(i-1) = DOMAIN L
      BY <1>1, <1>4
    <2>2. At(m.sender, t) \in ToSet(L)
      BY <1>2, <2>1
    <2>3. PICK j \in DOMAIN L : L[j] = At(m.sender, t)
      BY <2>2 DEF ToSet
    <2> QED
      BY <1>1, <2>1, <2>3
  <1> QED
    BY <1>1, <1>3, <1>4

(* What a room does not take for new, it has or had.                       *)
LEMMA OldIsKnown ==
  ASSUME TypeOK, NEW n \in Node, MapsClaim(n), NEW m \in Message, ~IsNewer(m, syncState[n])
  PROVE  m \in Known(n)
  <1>1. /\ m.sender \in Node /\ m.time \in 1..MaxTime /\ m = At(m.sender, m.time)
        /\ syncState[n][m.sender] \in 0..MaxTime
    BY DEF TypeOK, SyncMap, Message, At
  <1>2. m.time \in 1..syncState[n][m.sender]
    BY <1>1, ConstantsAssumption DEF IsNewer
  <1> QED
    BY <1>1, <1>2 DEF MapsClaim, Claims

LEMMA OwnInPushIs ==
  ASSUME NEW n \in Node, NEW p, push[n] = {p}
  PROVE  OwnInPush(n) = {m \in ToSet(p.batch) : m.sender = n}
  <1>1. {ToSet(q.batch) : q \in push[n]} = {ToSet(p.batch)}
    OBVIOUS
  <1> QED
    BY <1>1 DEF OwnInPush

LEMMA NothingInPush ==
  ASSUME NEW n \in Node, push[n] = {}
  PROVE  OwnInPush(n) = {}
  BY DEF OwnInPush

(* A member whose own state stays.                                         *)
LEMMA ClaimsStay ==
  ASSUME NEW k \in Node, ClaimsOf(k), lost \subseteq lost',
         phase'[k] = phase[k], messages'[k] = messages[k], syncState'[k] = syncState[k],
         push'[k] = push[k], clock'[k] = clock[k], file'[k] = file[k], image'[k] = image[k]
  PROVE  ClaimsOf(k)'
  <1>1. /\ Known(k) \subseteq Known(k)' /\ Held(k)' = Held(k)
        /\ OwnInPush(k)' = OwnInPush(k) /\ InFile(k)' = InFile(k)
    BY DEF Known, Held, OwnInPush, InFile
  <1>2. MapsClaim(k)'
    <2>1. \A img \in file[k] : ToSet(img.messages) \cup Known(k)
                                 \subseteq ToSet(img.messages) \cup Known(k)'
      BY <1>1
    <2> QED
      BY <1>1, <2>1, ClaimsMore DEF ClaimsOf, MapsClaim
  <1>3. LogsHaveNoGaps(k)'
    BY <1>1, GapsMore DEF ClaimsOf, LogsHaveNoGaps
  <1>4. PassedIsKnown(k)'
    BY <1>1 DEF ClaimsOf, PassedIsKnown
  <1>5. OwnIsSomewhere(k)'
    BY <1>1 DEF ClaimsOf, OwnIsSomewhere
  <1> QED
    BY <1>2, <1>3, <1>4, <1>5 DEF ClaimsOf

LEMMA ClaimInit == Init => ClaimInv
  <1> SUFFICES ASSUME Init, NEW n \in Node PROVE ClaimsOf(n)
    BY DEF ClaimInv
  <1>1. Claims(NoEntries, Known(n)) /\ Claims(NoEntries, ToSet(<<>>) \cup Known(n))
    BY DEF Claims, NoEntries
  <1>2. MapsClaim(n)
    <2>1. syncState[n] = NoEntries /\ push[n] = {} /\ file[n] = {Empty}
      BY DEF Init
    <2>2. Empty.messages = <<>> /\ Empty.syncState = NoEntries
      BY DEF Empty
    <2> QED
      BY <1>1, <2>1, <2>2 DEF MapsClaim
  <1>3. LogsHaveNoGaps(n)
    BY GapsInNothing DEF Init, LogsHaveNoGaps, Empty
  <1>4. PassedIsKnown(n) /\ OwnIsSomewhere(n)
    BY DEF Init, PassedIsKnown, OwnIsSomewhere
  <1> QED
    BY <1>2, <1>3, <1>4 DEF ClaimsOf

LEMMA ClaimSendMessage ==
  ASSUME TypeInv, ClaimInv, NEW n \in Node, SendMessage(n)
  PROVE  ClaimInv'
  <1> USE DEF TypeInv
  <1> DEFINE m == At(n, clock[n] + 1)
             p == [batch |-> <<m>>, next |-> 1, newSyncState |-> syncState[n]]
  <1>1. /\ phase[n] = "up" /\ push[n] = {} /\ push' = [push EXCEPT ![n] = {p}]
        /\ clock' = [clock EXCEPT ![n] = @ + 1] /\ clock[n] \in Nat
        /\ UNCHANGED <<phase, messages, syncState, file, image, lost>>
    BY ConstantsAssumption
       DEF SendMessage, BeginPush, At, TypeOK, saveVars, histVars
  <1>2. p.batch = <<m>> /\ p.next = 1 /\ p.newSyncState = syncState[n]
    OBVIOUS
  <1>3. m.sender = n /\ m.time = clock[n] + 1
    BY DEF At
  <1> HIDE DEF m, p
  <1>4. push'[n] = {p} /\ clock'[n] = clock[n] + 1
    BY <1>1 DEF TypeOK
  <1>5. ClaimsOf(n) /\ Held(n)' = Held(n) /\ Known(n)' = Known(n)
    BY <1>1 DEF ClaimInv, Held, Known
  <1>6. \A t \in 1..clock[n] : At(n, t) \in Known(n)
    BY <1>1, <1>5, NothingInPush DEF ClaimsOf, OwnIsSomewhere, Known
  <1>7. MapsClaim(n)'
    BY <1>1, <1>2, <1>4, <1>5 DEF ClaimsOf, MapsClaim
  <1>8. LogsHaveNoGaps(n)'
    <2>1. GapsIn(<<m>>, Known(n))
      BY <1>1, <1>3, <1>6 DEF GapsIn
    <2> QED
      BY <1>1, <1>2, <1>4, <1>5, <2>1 DEF ClaimsOf, LogsHaveNoGaps
  <1>9. PassedIsKnown(n)'
    BY <1>2, <1>4 DEF PassedIsKnown
  <1>10. OwnIsSomewhere(n)'
    <2>1. m \in OwnInPush(n)'
      <3>1. m \in ToSet(<<m>>)
        BY DEF ToSet
      <3> QED
        BY <1>2, <1>3, <1>4, <3>1 DEF OwnInPush
    <2>2. At(n, clock[n] + 1) = m
      BY DEF m
    <2>3. \A t \in 1..clock'[n] : t \in 1..clock[n] \/ t = clock[n] + 1
      BY <1>1, <1>4
    <2> QED
      BY <1>1, <1>5, <1>6, <2>1, <2>2, <2>3 DEF OwnIsSomewhere, Known
  <1>11. \A k \in Node \ {n} : ClaimsOf(k)'
    BY <1>1, ClaimsStay DEF ClaimInv, TypeOK
  <1> QED
    BY <1>7, <1>8, <1>9, <1>10, <1>11 DEF ClaimInv, ClaimsOf

LEMMA ClaimSync ==
  ASSUME TypeInv, ClaimInv, NEW k \in Node, NEW n \in Node, Sync(k, n)
  PROVE  ClaimInv'
  <1> USE DEF TypeInv
  <1> DEFINE p == [batch |-> messages[k], next |-> 1, newSyncState |-> syncState[n]]
  <1>1. /\ phase[n] = "up" /\ push[n] = {} /\ push' = [push EXCEPT ![n] = {p}]
        /\ UNCHANGED <<phase, messages, syncState, clock, file, image, lost>>
    BY DEF Sync, BeginPush, findMessagesToSync, saveVars, histVars
  <1>2. p.batch = messages[k] /\ p.next = 1 /\ p.newSyncState = syncState[n]
    OBVIOUS
  <1> HIDE DEF p
  <1>3. push'[n] = {p}
    BY <1>1 DEF TypeOK
  <1>4. ClaimsOf(n) /\ Held(n)' = Held(n) /\ Known(n)' = Known(n)
    BY <1>1 DEF ClaimInv, Held, Known
  <1>5. MapsClaim(n)'
    BY <1>1, <1>2, <1>3, <1>4 DEF ClaimsOf, MapsClaim
  <1>6. LogsHaveNoGaps(n)'
    <2>1. GapsIn(messages[k], lost) /\ lost \subseteq Known(n)
      BY DEF ClaimInv, ClaimsOf, LogsHaveNoGaps, Known
    <2>2. GapsIn(messages[k], Known(n))
      BY <2>1, GapsMore
    <2> QED
      BY <1>1, <1>2, <1>3, <1>4, <2>2 DEF ClaimsOf, LogsHaveNoGaps
  <1>7. PassedIsKnown(n)'
    <2>1. \A j \in DOMAIN messages[k] : ~(j < 1)
      <3>1. messages[k] \in Seq(Message)
        BY DEF TypeOK
      <3> QED
        BY <3>1
    <2> QED
      BY <1>2, <1>3, <2>1 DEF PassedIsKnown
  <1>8. OwnIsSomewhere(n)'
    BY <1>1, <1>4, NothingInPush DEF ClaimsOf, OwnIsSomewhere
  <1>9. \A i \in Node \ {n} : ClaimsOf(i)'
    BY <1>1, ClaimsStay DEF ClaimInv, TypeOK
  <1> QED
    BY <1>5, <1>6, <1>7, <1>8, <1>9 DEF ClaimInv, ClaimsOf

LEMMA ClaimPushNext ==
  ASSUME TypeInv, ClaimInv, NEW n \in Node, PushNext(n)
  PROVE  ClaimInv'
  <1> USE DEF TypeInv
  <1>1. PICK p \in Push, i \in Nat \ {0}, m \in Message, q \in Push : Pushes(n, p, i, m, q)
    BY PushNextStep
  <1>2. /\ push[n] = {p} /\ i \in p.next..Len(p.batch) /\ i \in DOMAIN p.batch
        /\ m = p.batch[i] /\ Skipped(n, p, i - 1)
        /\ q.batch = p.batch /\ q.next = i + 1
        /\ q.newSyncState = [p.newSyncState EXCEPT ![m.sender] = m.time]
    BY <1>1 DEF Pushes
  <1>3. /\ push'[n] = {q} /\ messages'[n] = Append(messages[n], m)
        /\ \A k \in Node \ {n} : push'[k] = push[k] /\ messages'[k] = messages[k]
    BY <1>1 DEF Pushes, TypeOK
  <1>4. UNCHANGED <<phase, syncState, clock, file, image, lost>>
    BY DEF PushNext, saveVars
  <1>5. ClaimsOf(n)
    BY DEF ClaimInv
  <1>6. Held(n)' = Held(n) \cup {m} /\ Known(n)' = Known(n) \cup {m}
    BY <1>1, <1>4, HeldNext DEF Known
  <1>7. /\ p.batch \in Seq(Message) /\ p.next \in Nat /\ p.newSyncState \in SyncMap
        /\ m.sender \in Node /\ m.time \in Nat /\ m = At(m.sender, m.time)
    BY ConstantsAssumption DEF Push, Message, At
  <1>8. \A j \in DOMAIN p.batch : j < i => p.batch[j] \in Known(n)
    <2> SUFFICES ASSUME NEW j \in DOMAIN p.batch, j < i
                 PROVE  p.batch[j] \in Known(n)
      OBVIOUS
    <2>1. j \in Nat /\ p.batch[j] \in Message
      BY <1>7
    <2>2. CASE j < p.next
      BY <1>2, <1>5, <2>2 DEF ClaimsOf, PassedIsKnown
    <2>3. CASE j >= p.next
      <3>1. j \in p.next..(i - 1)
        BY <1>7, <2>1, <2>3
      <3>2. ~IsNewer(p.batch[j], syncState[n])
        BY <1>2, <3>1 DEF Skipped
      <3> QED
        BY <1>5, <2>1, <3>2, OldIsKnown DEF ClaimsOf
    <2> QED
      BY <1>7, <2>1, <2>2, <2>3
  <1>9. \A t \in 1..(m.time - 1) : At(m.sender, t) \in Known(n)
    <2> SUFFICES ASSUME NEW t \in 1..(m.time - 1)
                 PROVE  At(m.sender, t) \in Known(n)
      OBVIOUS
    <2>1. GapsIn(p.batch, Known(n))
      BY <1>2, <1>5 DEF ClaimsOf, LogsHaveNoGaps
    <2>2. \/ At(m.sender, t) \in Known(n)
          \/ \E j \in 1..(i-1) : p.batch[j] = At(m.sender, t)
      BY <1>2, <2>1 DEF GapsIn
    <2>3. \A j \in 1..(i-1) : j \in DOMAIN p.batch /\ j < i
      BY <1>2, <1>7
    <2> QED
      BY <1>8, <2>2, <2>3
  <1>10. MapsClaim(n)'
    <2>1. Claims(q.newSyncState, Known(n)')
      <3> SUFFICES ASSUME NEW s \in Node, NEW t \in 1..q.newSyncState[s]
                   PROVE  At(s, t) \in Known(n)'
        BY DEF Claims
      <3>1. CASE s = m.sender
        <4>1. q.newSyncState[s] = m.time
          BY <1>2, <1>7, <3>1 DEF SyncMap
        <4>2. t = m.time \/ t \in 1..(m.time - 1)
          BY <1>7, <4>1
        <4> QED
          BY <1>6, <1>7, <1>9, <3>1, <4>2
      <3>2. CASE s # m.sender
        <4>1. q.newSyncState[s] = p.newSyncState[s]
          BY <1>2, <1>7, <3>2 DEF SyncMap
        <4> QED
          BY <1>2, <1>5, <1>6, <4>1 DEF ClaimsOf, MapsClaim, Claims
      <3> QED
        BY <3>1, <3>2
    <2>2. Claims(syncState[n], Known(n)')
      BY <1>5, <1>6, ClaimsMore DEF ClaimsOf, MapsClaim
    <2>3. \A img \in file[n] : Claims(img.syncState, ToSet(img.messages) \cup Known(n)')
      <3>1. \A img \in file[n] :
              ToSet(img.messages) \cup Known(n) \subseteq ToSet(img.messages) \cup Known(n)'
        BY <1>6
      <3> QED
        BY <1>5, <3>1, ClaimsMore DEF ClaimsOf, MapsClaim
    <2> QED
      BY <1>3, <1>4, <2>1, <2>2, <2>3 DEF MapsClaim
  <1>11. LogsHaveNoGaps(n)'
    <2>1. GapsIn(Append(messages[n], m), lost)
      <3>1. messages[n] \in Seq(Message) /\ GapsIn(messages[n], lost)
        BY <1>5 DEF TypeOK, ClaimsOf, LogsHaveNoGaps
      <3>2. \A t \in 1..(m.time - 1) : At(m.sender, t) \in lost \cup ToSet(messages[n])
        BY <1>9 DEF Known, Held
      <3> QED
        BY <3>1, <3>2, GapsAppend
    <2>2. GapsIn(q.batch, Known(n)')
      BY <1>2, <1>5, <1>6, GapsMore DEF ClaimsOf, LogsHaveNoGaps
    <2> QED
      BY <1>3, <1>4, <1>5, <2>1, <2>2 DEF ClaimsOf, LogsHaveNoGaps
  <1>12. PassedIsKnown(n)'
    <2>1. \A j \in DOMAIN p.batch : j < i + 1 => j < i \/ j = i
      BY <1>7
    <2> QED
      BY <1>2, <1>3, <1>6, <1>8, <2>1 DEF PassedIsKnown
  <1>13. OwnIsSomewhere(n)'
    <2>1. OwnInPush(n)' = OwnInPush(n)
      <3>1. {ToSet(r.batch) : r \in push'[n]} = {ToSet(r.batch) : r \in push[n]}
        BY <1>2, <1>3
      <3> QED
        BY <3>1 DEF OwnInPush
    <2>2. InFile(n)' = InFile(n)
      BY <1>4 DEF InFile
    <2> QED
      BY <1>4, <1>5, <1>6, <2>1, <2>2 DEF ClaimsOf, OwnIsSomewhere
  <1>14. \A k \in Node \ {n} : ClaimsOf(k)'
    BY <1>3, <1>4, ClaimsStay DEF ClaimInv
  <1> QED
    BY <1>10, <1>11, <1>12, <1>13, <1>14 DEF ClaimInv, ClaimsOf

LEMMA ClaimStoreSyncState ==
  ASSUME TypeInv, ClaimInv, NEW n \in Node, StoreSyncState(n)
  PROVE  ClaimInv'
  <1> USE DEF TypeInv
  <1>1. PICK p \in push[n] : /\ Skipped(n, p, Len(p.batch))
                             /\ syncState' = [syncState EXCEPT ![n] = p.newSyncState]
    BY DEF StoreSyncState
  <1>2. push[n] = {p} /\ p \in Push
    BY DEF TypeOK
  <1>3. /\ UNCHANGED <<phase, messages, clock, file, image, lost>>
        /\ push' = [push EXCEPT ![n] = {}]
    BY DEF StoreSyncState, saveVars, histVars
  <1>4. syncState'[n] = p.newSyncState /\ push'[n] = {}
    BY <1>1, <1>3 DEF TypeOK
  <1>5. ClaimsOf(n) /\ Held(n)' = Held(n) /\ Known(n)' = Known(n) /\ InFile(n)' = InFile(n)
    BY <1>3 DEF ClaimInv, Held, Known, InFile
  <1>6. \A j \in DOMAIN p.batch : p.batch[j] \in Known(n)
    <2> SUFFICES ASSUME NEW j \in DOMAIN p.batch
                 PROVE  p.batch[j] \in Known(n)
      OBVIOUS
    <2>1. /\ p.batch \in Seq(Message) /\ p.next \in Nat
          /\ j \in 1..Len(p.batch) /\ p.batch[j] \in Message
      BY <1>2 DEF Push
    <2>2. CASE j < p.next
      BY <1>5, <2>2 DEF ClaimsOf, PassedIsKnown
    <2>3. CASE j >= p.next
      <3>1. j \in p.next..Len(p.batch)
        BY <2>1, <2>3
      <3>2. ~IsNewer(p.batch[j], syncState[n])
        BY <1>1, <3>1 DEF Skipped
      <3> QED
        BY <1>5, <2>1, <3>2, OldIsKnown DEF ClaimsOf
    <2> QED
      BY <2>1, <2>2, <2>3
  <1>7. OwnInPush(n) \subseteq Known(n)
    <2>1. OwnInPush(n) = {m \in ToSet(p.batch) : m.sender = n}
      BY <1>2, OwnInPushIs
    <2> QED
      BY <1>6, <2>1 DEF ToSet
  <1>8. MapsClaim(n)'
    BY <1>2, <1>3, <1>4, <1>5 DEF ClaimsOf, MapsClaim
  <1>9. LogsHaveNoGaps(n)' /\ PassedIsKnown(n)'
    BY <1>3, <1>4, <1>5 DEF ClaimsOf, LogsHaveNoGaps, PassedIsKnown
  <1>10. OwnIsSomewhere(n)'
    BY <1>3, <1>5, <1>7 DEF ClaimsOf, OwnIsSomewhere, Known
  <1>11. \A k \in Node \ {n} : ClaimsOf(k)'
    BY <1>1, <1>3, ClaimsStay DEF ClaimInv, TypeOK
  <1> QED
    BY <1>8, <1>9, <1>10, <1>11 DEF ClaimInv, ClaimsOf

LEMMA ClaimBeginSave ==
  ASSUME TypeInv, ClaimInv, NEW n \in Node, NEW exit \in BOOLEAN, BeginSave(n, exit)
  PROVE  ClaimInv'
  <1> USE DEF TypeInv
  <1>1. /\ phase[n] = "up" /\ file'[n] = {} /\ image'[n] = messages[n]
        /\ UNCHANGED <<phase, messages, syncState, push, clock, lost>>
    BY DEF BeginSave, roomVars, histVars, TypeOK
  <1>2. /\ ClaimsOf(n) /\ Held(n)' = Held(n) /\ Known(n)' = Known(n)
        /\ OwnInPush(n)' = OwnInPush(n)
    BY <1>1 DEF ClaimInv, Held, Known, OwnInPush
  <1>3. MapsClaim(n)' /\ LogsHaveNoGaps(n)'
    BY <1>1, <1>2 DEF ClaimsOf, MapsClaim, LogsHaveNoGaps
  <1>4. PassedIsKnown(n)' /\ OwnIsSomewhere(n)'
    BY <1>1, <1>2 DEF ClaimsOf, PassedIsKnown, OwnIsSomewhere
  <1>5. \A k \in Node \ {n} : file'[k] = file[k] /\ image'[k] = image[k]
    BY DEF BeginSave, TypeOK
  <1>6. \A k \in Node \ {n} : ClaimsOf(k)'
    BY <1>1, <1>5, ClaimsStay DEF ClaimInv
  <1> QED
    BY <1>3, <1>4, <1>6 DEF ClaimInv, ClaimsOf

LEMMA ClaimFinishSave ==
  ASSUME TypeInv, SaveInv, ClaimInv, NEW n \in Node, FinishSave(n)
  PROVE  ClaimInv'
  <1> USE DEF TypeInv
  <1> DEFINE img == [messages |-> image[n], syncState |-> syncState[n]]
  <1>1. file[n] = {} /\ phase[n] = "up"
    BY DEF FinishSave, Saved, Truncated, SaveInv, DownIsEmpty
  <1>2. /\ file'[n] = {img} /\ image'[n] = <<>>
        /\ UNCHANGED <<phase, messages, syncState, push, clock, lost>>
    BY <1>1 DEF FinishSave, Saved, roomVars, TypeOK
  <1>3. img.messages = image[n] /\ img.syncState = syncState[n]
    OBVIOUS
  <1> HIDE DEF img
  <1>4. /\ ClaimsOf(n) /\ Held(n)' = Held(n) /\ Known(n)' = Known(n)
        /\ OwnInPush(n)' = OwnInPush(n)
    BY <1>2 DEF ClaimInv, Held, Known, OwnInPush
  <1>5. MapsClaim(n)'
    <2>1. Claims(syncState[n], ToSet(image[n]) \cup Known(n))
      <3>1. Known(n) \subseteq ToSet(image[n]) \cup Known(n)
        OBVIOUS
      <3> QED
        BY <1>4, <3>1, ClaimsMore DEF ClaimsOf, MapsClaim
    <2> QED
      BY <1>2, <1>3, <1>4, <2>1 DEF ClaimsOf, MapsClaim
  <1>6. LogsHaveNoGaps(n)'
    BY <1>2, <1>3, <1>4, GapsInNothing DEF ClaimsOf, LogsHaveNoGaps
  <1>7. PassedIsKnown(n)' /\ OwnIsSomewhere(n)'
    BY <1>1, <1>2, <1>4 DEF ClaimsOf, PassedIsKnown, OwnIsSomewhere
  <1>8. \A k \in Node \ {n} : file'[k] = file[k] /\ image'[k] = image[k]
    BY DEF FinishSave, Saved, TypeOK
  <1>9. \A k \in Node \ {n} : ClaimsOf(k)'
    BY <1>2, <1>8, ClaimsStay DEF ClaimInv
  <1> QED
    BY <1>5, <1>6, <1>7, <1>9 DEF ClaimInv, ClaimsOf

(* The file or lost is where everything goes that a process had.           *)
LEMMA ClaimStop ==
  ASSUME TypeInv, ClaimInv, NEW n \in Node, Stop(n)
  PROVE  ClaimInv'
  <1> USE DEF TypeInv
  <1>1. /\ phase[n] = "up" /\ phase'[n] = "starting" /\ messages'[n] = <<>>
        /\ syncState'[n] = NoEntries /\ push'[n] = {} /\ image'[n] = <<>>
        /\ lost' = lost \cup ((Held(n) \cup OwnInPush(n)) \ InFile(n))
        /\ UNCHANGED <<clock, file>>
    BY DEF Stop, TypeOK, Held
  <1>2. ClaimsOf(n) /\ InFile(n)' = InFile(n) /\ lost \subseteq lost'
    BY <1>1 DEF ClaimInv, InFile
  <1>3. MapsClaim(n)'
    <2>1. Claims(NoEntries, Known(n)')
      BY DEF Claims, NoEntries
    <2>2. ASSUME NEW img \in file[n]
          PROVE  Claims(img.syncState, ToSet(img.messages) \cup Known(n)')
      <3>1. InFile(n) = ToSet(img.messages)
        BY FileIs
      <3>2. ToSet(img.messages) \cup Known(n) \subseteq ToSet(img.messages) \cup Known(n)'
        BY <1>1, <3>1 DEF Known
      <3> QED
        BY <1>2, <3>2, ClaimsMore DEF ClaimsOf, MapsClaim
    <2> QED
      BY <1>1, <2>1, <2>2 DEF MapsClaim
  <1>4. LogsHaveNoGaps(n)'
    BY <1>1, <1>2, GapsInNothing, GapsMore DEF ClaimsOf, LogsHaveNoGaps
  <1>5. PassedIsKnown(n)'
    BY <1>1 DEF PassedIsKnown
  <1>6. OwnIsSomewhere(n)'
    BY <1>1, <1>2 DEF ClaimsOf, OwnIsSomewhere
  <1>7. \A k \in Node \ {n} : /\ phase'[k] = phase[k] /\ messages'[k] = messages[k]
                              /\ syncState'[k] = syncState[k] /\ push'[k] = push[k]
                              /\ image'[k] = image[k]
    BY DEF Stop, TypeOK
  <1>8. \A k \in Node \ {n} : ClaimsOf(k)'
    BY <1>1, <1>2, <1>7, ClaimsStay DEF ClaimInv
  <1> QED
    BY <1>3, <1>4, <1>5, <1>6, <1>8 DEF ClaimInv, ClaimsOf

LEMMA ClaimLoadData ==
  ASSUME TypeInv, SaveInv, ClaimInv, NEW n \in Node, loadData(n)
  PROVE  ClaimInv'
  <1> USE DEF TypeInv
  <1>1. /\ phase[n] = "starting" /\ push[n] = {} /\ Held(n) = {}
        /\ UNCHANGED <<push, clock, file, image, lost>>
        /\ InFile(n)' = InFile(n)
    BY ToSetEmpty DEF loadData, saveVars, histVars, SaveInv, DownIsEmpty, Held, InFile
  <1>2. ClaimsOf(n)
    BY DEF ClaimInv
  <1>3. ASSUME phase'[n] = "gone", UNCHANGED <<messages, syncState>>
        PROVE  ClaimsOf(n)'
    <2>1. Held(n)' = Held(n) /\ Known(n)' = Known(n)
      BY <1>1, <1>3 DEF Held, Known
    <2>2. MapsClaim(n)' /\ LogsHaveNoGaps(n)'
      BY <1>1, <1>2, <1>3, <2>1 DEF ClaimsOf, MapsClaim, LogsHaveNoGaps
    <2>3. PassedIsKnown(n)' /\ OwnIsSomewhere(n)'
      BY <1>1, <1>2, <1>3, <2>1 DEF ClaimsOf, PassedIsKnown, OwnIsSomewhere
    <2> QED
      BY <2>2, <2>3 DEF ClaimsOf
  <1>4. ASSUME NEW img \in file[n], phase'[n] = "up",
               messages'[n] = img.messages, syncState'[n] = img.syncState
        PROVE  ClaimsOf(n)'
    <2>1. file[n] = {img} /\ InFile(n) = ToSet(img.messages)
      BY FileIs
    <2>2. Held(n)' = InFile(n) /\ Known(n)' = InFile(n) \cup lost /\ Known(n) = lost
      BY <1>1, <1>4, <2>1 DEF Held, Known
    <2>3. Claims(img.syncState, InFile(n) \cup lost)
      BY <1>2, <2>1, <2>2 DEF ClaimsOf, MapsClaim
    <2>4. ToSet(img.messages) \cup Known(n)' = InFile(n) \cup lost
      BY <2>1, <2>2
    <2>5. MapsClaim(n)'
      BY <1>1, <1>4, <2>1, <2>2, <2>3, <2>4 DEF MapsClaim
    <2>6. LogsHaveNoGaps(n)'
      BY <1>1, <1>2, <1>4, <2>1 DEF ClaimsOf, LogsHaveNoGaps
    <2>7. PassedIsKnown(n)' /\ OwnIsSomewhere(n)'
      BY <1>1, <1>2, <1>4, <2>2 DEF ClaimsOf, PassedIsKnown, OwnIsSomewhere
    <2> QED
      BY <2>5, <2>6, <2>7 DEF ClaimsOf
  <1>5. ClaimsOf(n)'
    <2>1. CASE phase' = [phase EXCEPT ![n] = "gone"] /\ UNCHANGED <<messages, syncState>>
      BY <1>3, <2>1 DEF TypeOK
    <2>2. ASSUME NEW img \in file[n],
                 phase' = [phase EXCEPT ![n] = "up"],
                 messages' = [messages EXCEPT ![n] = img.messages],
                 syncState' = [syncState EXCEPT ![n] = img.syncState]
          PROVE  ClaimsOf(n)'
      BY <1>4, <2>2 DEF TypeOK
    <2> QED
      BY <2>1, <2>2 DEF loadData
  <1>6. \A k \in Node \ {n} : /\ phase'[k] = phase[k] /\ messages'[k] = messages[k]
                              /\ syncState'[k] = syncState[k]
    BY DEF loadData, TypeOK
  <1>7. \A k \in Node \ {n} : ClaimsOf(k)'
    BY <1>1, <1>6, ClaimsStay DEF ClaimInv
  <1> QED
    BY <1>5, <1>7 DEF ClaimInv

LEMMA ClaimStep == TypeInv /\ SaveInv /\ ClaimInv /\ [Next]_vars => ClaimInv'
  <1> SUFFICES ASSUME TypeInv, SaveInv, ClaimInv, [Next]_vars PROVE ClaimInv'
    OBVIOUS
  <1>1. CASE UNCHANGED vars
    BY <1>1, ClaimsStay DEF vars, roomVars, saveVars, histVars, ClaimInv
  <1>2. CASE \E n, p \in Node : Sync(n, p)
    BY <1>2, ClaimSync
  <1>3. CASE \E n \in Node : \E exit \in BOOLEAN : BeginSave(n, exit)
    BY <1>3, ClaimBeginSave
  <1>4. CASE \E n \in Node : ExitEarly(n)
    BY <1>4, ClaimsStay DEF ExitEarly, roomVars, saveVars, histVars, ClaimInv
  <1>5. CASE \E n \in Node :
              \/ SendMessage(n) \/ PushNext(n) \/ StoreSyncState(n) \/ FinishSave(n)
              \/ Stop(n) \/ loadData(n)
    BY <1>5, ClaimSendMessage, ClaimPushNext, ClaimStoreSyncState, ClaimFinishSave,
       ClaimStop, ClaimLoadData
  <1> QED
    BY <1>1, <1>2, <1>3, <1>4, <1>5, NextSteps

(* The gaps that crashes and torn saves make are confined to what was      *)
(* lost at a stop: whatever else a SyncState claims is in the room.        *)
THEOREM ClaimsAreHonest == Spec => []ClaimsAreHeldOrLost
  <1>1. Spec => []ClaimInv
    BY SaveCorrect, ClaimInit, ClaimStep, PTL DEF Spec
  <1>2. ClaimInv => ClaimsAreHeldOrLost
    BY DEF ClaimInv, ClaimsOf, MapsClaim, Claims, At, Known, Held, ClaimsAreHeldOrLost
  <1> QED
    BY <1>1, <1>2, PTL

------------------------------------------------------------------------------
(* Clocks go on while daemons fall back                                    *)

LEMMA InTimeMore ==
  ASSUME NEW c \in [Node -> Int], NEW d \in [Node -> Int], \A n \in Node : c[n] <= d[n]
  PROVE  /\ \A map \in SyncMap : MapInTime(map, c) => MapInTime(map, d)
         /\ \A L \in Seq(Message) : LogInTime(L, c) => LogInTime(L, d)
  <1>1. \A map \in SyncMap : MapInTime(map, c) => MapInTime(map, d)
    <2> SUFFICES ASSUME NEW map \in SyncMap, MapInTime(map, c), NEW s \in Node
                 PROVE  map[s] <= d[s]
      BY DEF MapInTime
    <2>1. map[s] \in Int /\ map[s] <= c[s] /\ c[s] <= d[s] /\ c[s] \in Int /\ d[s] \in Int
      BY ConstantsAssumption DEF SyncMap, MapInTime
    <2> QED
      BY <2>1
  <1>2. \A L \in Seq(Message) : LogInTime(L, c) => LogInTime(L, d)
    <2> SUFFICES ASSUME NEW L \in Seq(Message), LogInTime(L, c), NEW i \in DOMAIN L
                 PROVE  L[i].time <= d[L[i].sender]
      BY DEF LogInTime
    <2>1. L[i] \in Message
      OBVIOUS
    <2>2. /\ L[i].sender \in Node /\ L[i].time \in Int
          /\ L[i].time <= c[L[i].sender] /\ c[L[i].sender] <= d[L[i].sender]
      BY <2>1, ConstantsAssumption DEF Message, LogInTime
    <2> QED
      BY <2>2
  <1> QED
    BY <1>1, <1>2

LEMMA ClockGrows ==
  ASSUME TypeInv, [Next]_vars
  PROVE  /\ clock \in [Node -> Int] /\ clock' \in [Node -> Int]
         /\ \A n \in Node : clock[n] <= clock'[n]
  <1>1. clock \in [Node -> Int] /\ clock' \in [Node -> Int]
    BY TypeStep, ConstantsAssumption DEF TypeInv, TypeOK
  <1>2. clock' = clock \/ \E n \in Node : clock' = [clock EXCEPT ![n] = @ + 1]
    <2>1. CASE UNCHANGED vars
      BY <2>1 DEF vars, roomVars
    <2>2. CASE \E n, p \in Node : Sync(n, p)
      BY <2>2 DEF Sync
    <2>3. CASE \E n \in Node : \E exit \in BOOLEAN : BeginSave(n, exit)
      BY <2>3 DEF BeginSave, roomVars
    <2>4. CASE \E n \in Node :
                \/ SendMessage(n) \/ PushNext(n) \/ StoreSyncState(n) \/ FinishSave(n)
                \/ Stop(n) \/ ExitEarly(n) \/ loadData(n)
      BY <2>4 DEF SendMessage, PushNext, StoreSyncState, FinishSave, Saved, Stop,
                  ExitEarly, loadData, roomVars
    <2> QED
      BY <2>1, <2>2, <2>3, <2>4, NextSteps
  <1> QED
    BY <1>1, <1>2

LEMMA StillInTime ==
  ASSUME TypeInv, ClockInv, [Next]_vars, NEW n \in Node
  PROVE  InTime(n, clock')
  <1>1. /\ syncState[n] \in SyncMap /\ messages[n] \in Seq(Message) /\ image[n] \in Seq(Message)
        /\ \A p \in push[n] : p.newSyncState \in SyncMap /\ p.batch \in Seq(Message)
        /\ \A img \in file[n] : img.syncState \in SyncMap /\ img.messages \in Seq(Message)
    BY DEF TypeInv, TypeOK, Push, Image
  <1>2. /\ \A map \in SyncMap : MapInTime(map, clock) => MapInTime(map, clock')
        /\ \A L \in Seq(Message) : LogInTime(L, clock) => LogInTime(L, clock')
    BY ClockGrows, InTimeMore
  <1> QED
    BY <1>1, <1>2 DEF ClockInv, InTime

LEMMA InTimeStays ==
  ASSUME NEW k \in Node, InTime(k, clock'),
         messages'[k] = messages[k], syncState'[k] = syncState[k], push'[k] = push[k],
         file'[k] = file[k], image'[k] = image[k]
  PROVE  InTime(k, clock)'
  BY DEF InTime

LEMMA EmptyInTime ==
  ASSUME NEW c \in [Node -> Nat]
  PROVE  MapInTime(NoEntries, c) /\ LogInTime(<<>>, c)
  BY DEF MapInTime, LogInTime, NoEntries

LEMMA ClockInit == Init => ClockInv
  <1> SUFFICES ASSUME Init, NEW n \in Node PROVE InTime(n, clock)
    BY DEF ClockInv
  <1>1. clock \in [Node -> Nat]
    BY DEF Init
  <1>2. MapInTime(NoEntries, clock) /\ LogInTime(<<>>, clock)
    BY <1>1, EmptyInTime
  <1>3. /\ syncState[n] = NoEntries /\ messages[n] = <<>> /\ image[n] = <<>> /\ push[n] = {}
        /\ file[n] = {Empty}
    BY DEF Init
  <1>4. Empty.messages = <<>> /\ Empty.syncState = NoEntries
    BY DEF Empty
  <1> QED
    BY <1>2, <1>3, <1>4 DEF InTime

LEMMA ClockSendMessage ==
  ASSUME TypeInv, NEW n \in Node, SendMessage(n), \A k \in Node : InTime(k, clock')
  PROVE  ClockInv'
  <1> USE DEF TypeInv
  <1> DEFINE m == [sender |-> n, time |-> clock[n] + 1]
             p == [batch |-> <<m>>, next |-> 1, newSyncState |-> syncState[n]]
  <1>1. /\ push' = [push EXCEPT ![n] = {p}] /\ clock'[n] = clock[n] + 1 /\ clock[n] \in Int
        /\ UNCHANGED <<messages, syncState, file, image>>
    BY ConstantsAssumption DEF SendMessage, BeginPush, TypeOK, saveVars
  <1>2. p.batch = <<m>> /\ p.newSyncState = syncState[n] /\ m.sender = n /\ m.time = clock[n] + 1
    OBVIOUS
  <1> HIDE DEF m, p
  <1>3. push'[n] = {p} /\ \A k \in Node \ {n} : push'[k] = push[k]
    BY <1>1 DEF TypeOK
  <1>4. LogInTime(<<m>>, clock')
    BY <1>1, <1>2 DEF LogInTime
  <1>5. InTime(n, clock)'
    BY <1>1, <1>2, <1>3, <1>4 DEF InTime
  <1>6. \A k \in Node \ {n} : InTime(k, clock)'
    BY <1>1, <1>3, InTimeStays
  <1> QED
    BY <1>5, <1>6 DEF ClockInv

LEMMA ClockSync ==
  ASSUME TypeInv, NEW k \in Node, NEW n \in Node, Sync(k, n), \A i \in Node : InTime(i, clock')
  PROVE  ClockInv'
  <1> USE DEF TypeInv
  <1> DEFINE p == [batch |-> messages[k], next |-> 1, newSyncState |-> syncState[n]]
  <1>1. /\ push' = [push EXCEPT ![n] = {p}]
        /\ UNCHANGED <<messages, syncState, file, image>>
    BY DEF Sync, BeginPush, findMessagesToSync, saveVars
  <1>2. p.batch = messages[k] /\ p.newSyncState = syncState[n]
    OBVIOUS
  <1> HIDE DEF p
  <1>3. push'[n] = {p} /\ \A i \in Node \ {n} : push'[i] = push[i]
    BY <1>1 DEF TypeOK
  <1>4. InTime(n, clock)'
    BY <1>1, <1>2, <1>3 DEF InTime
  <1>5. \A i \in Node \ {n} : InTime(i, clock)'
    BY <1>1, <1>3, InTimeStays
  <1> QED
    BY <1>4, <1>5 DEF ClockInv

LEMMA ClockPushNext ==
  ASSUME TypeInv, NEW n \in Node, PushNext(n), \A k \in Node : InTime(k, clock')
  PROVE  ClockInv'
  <1> USE DEF TypeInv
  <1>1. PICK p \in Push, i \in Nat \ {0}, m \in Message, q \in Push : Pushes(n, p, i, m, q)
    BY PushNextStep
  <1>2. /\ push[n] = {p} /\ i \in DOMAIN p.batch /\ m = p.batch[i] /\ q.batch = p.batch
        /\ q.newSyncState = [p.newSyncState EXCEPT ![m.sender] = m.time]
    BY <1>1 DEF Pushes
  <1>3. /\ push'[n] = {q} /\ messages'[n] = Append(messages[n], m)
        /\ \A k \in Node \ {n} : push'[k] = push[k] /\ messages'[k] = messages[k]
    BY <1>1 DEF Pushes, TypeOK
  <1>4. UNCHANGED <<syncState, file, image>>
    BY DEF PushNext, saveVars
  <1>5. messages[n] \in Seq(Message) /\ p.newSyncState \in SyncMap /\ m.sender \in Node
    BY DEF TypeOK, Push, Message
  <1>6. m.time <= clock'[m.sender]
    BY <1>2 DEF InTime, LogInTime
  <1>7. LogInTime(Append(messages[n], m), clock')
    <2> DEFINE L == messages[n]
               K == Append(L, m)
    <2>1. /\ DOMAIN K = 1..(Len(L) + 1) /\ DOMAIN L = 1..Len(L) /\ Len(L) \in Nat
          /\ K[Len(L) + 1] = m /\ \A j \in DOMAIN L : K[j] = L[j]
      BY <1>5
    <2>2. LogInTime(L, clock')
      BY DEF InTime
    <2> HIDE DEF K, L
    <2>3. \A j \in DOMAIN K : j \in DOMAIN L \/ j = Len(L) + 1
      BY <2>1
    <2>4. LogInTime(K, clock')
      BY <1>6, <2>1, <2>2, <2>3 DEF LogInTime
    <2> QED
      BY <2>4 DEF K, L
  <1>8. MapInTime(q.newSyncState, clock')
    <2>1. \A s \in Node : q.newSyncState[s] = IF s = m.sender THEN m.time ELSE p.newSyncState[s]
      BY <1>2, <1>5 DEF SyncMap
    <2>2. MapInTime(p.newSyncState, clock')
      BY <1>2 DEF InTime
    <2> QED
      BY <1>6, <2>1, <2>2 DEF MapInTime
  <1>9. LogInTime(q.batch, clock')
    BY <1>2 DEF InTime
  <1>10. InTime(n, clock)'
    BY <1>3, <1>4, <1>7, <1>8, <1>9 DEF InTime
  <1>11. \A k \in Node \ {n} : InTime(k, clock)'
    BY <1>3, <1>4, InTimeStays
  <1> QED
    BY <1>10, <1>11 DEF ClockInv

LEMMA ClockStoreSyncState ==
  ASSUME TypeInv, NEW n \in Node, StoreSyncState(n), \A k \in Node : InTime(k, clock')
  PROVE  ClockInv'
  <1> USE DEF TypeInv
  <1>1. /\ \E p \in push[n] : syncState'[n] = p.newSyncState
        /\ push'[n] = {} /\ UNCHANGED <<messages, file, image>>
    BY DEF StoreSyncState, TypeOK, saveVars
  <1>2. \A k \in Node \ {n} : syncState'[k] = syncState[k] /\ push'[k] = push[k]
    BY DEF StoreSyncState, TypeOK
  <1>3. InTime(n, clock)'
    BY <1>1 DEF InTime
  <1>4. \A k \in Node \ {n} : InTime(k, clock)'
    BY <1>1, <1>2, InTimeStays
  <1> QED
    BY <1>3, <1>4 DEF ClockInv

(* BeginSave and FinishSave.                                               *)
LEMMA ClockSave ==
  ASSUME TypeInv, NEW n \in Node, FinishSave(n) \/ \E exit \in BOOLEAN : BeginSave(n, exit),
         \A k \in Node : InTime(k, clock')
  PROVE  ClockInv'
  <1> USE DEF TypeInv
  <1>1. /\ UNCHANGED <<messages, syncState, push>>
        /\ \A k \in Node \ {n} : file'[k] = file[k] /\ image'[k] = image[k]
    BY DEF FinishSave, Saved, BeginSave, roomVars, TypeOK
  <1>2. InTime(n, clock)'
    <2>1. CASE \E exit \in BOOLEAN : BeginSave(n, exit)
      <3>1. file'[n] = {} /\ image'[n] = messages[n]
        BY <2>1 DEF BeginSave, TypeOK
      <3> QED
        BY <1>1, <3>1 DEF InTime
    <2>2. CASE FinishSave(n)
      <3> DEFINE img == [messages |-> image[n], syncState |-> syncState[n]]
      <3>1. file'[n] = {img} /\ image'[n] = <<>>
        BY <2>2 DEF FinishSave, Saved, Truncated, TypeOK
      <3>2. img.messages = image[n] /\ img.syncState = syncState[n]
        OBVIOUS
      <3>3. LogInTime(<<>>, clock')
        BY DEF LogInTime
      <3> HIDE DEF img
      <3> QED
        BY <1>1, <3>1, <3>2, <3>3 DEF InTime
    <2> QED
      BY <2>1, <2>2
  <1>3. \A k \in Node \ {n} : InTime(k, clock)'
    BY <1>1, InTimeStays
  <1> QED
    BY <1>2, <1>3 DEF ClockInv

LEMMA ClockStop ==
  ASSUME TypeInv, NEW n \in Node, Stop(n), \A k \in Node : InTime(k, clock')
  PROVE  ClockInv'
  <1> USE DEF TypeInv
  <1>1. /\ messages'[n] = <<>> /\ syncState'[n] = NoEntries /\ push'[n] = {}
        /\ image'[n] = <<>> /\ UNCHANGED <<clock, file>>
    BY DEF Stop, TypeOK
  <1>2. \A k \in Node \ {n} : /\ messages'[k] = messages[k] /\ syncState'[k] = syncState[k]
                              /\ push'[k] = push[k] /\ image'[k] = image[k]
    BY DEF Stop, TypeOK
  <1>3. MapInTime(NoEntries, clock') /\ LogInTime(<<>>, clock')
    <2>1. clock' \in [Node -> Nat]
      BY <1>1, ConstantsAssumption DEF TypeOK
    <2> QED
      BY <2>1, EmptyInTime
  <1>4. InTime(n, clock)'
    BY <1>1, <1>3 DEF InTime
  <1>5. \A k \in Node \ {n} : InTime(k, clock)'
    BY <1>1, <1>2, InTimeStays
  <1> QED
    BY <1>4, <1>5 DEF ClockInv

LEMMA ClockLoadData ==
  ASSUME TypeInv, NEW n \in Node, loadData(n), \A k \in Node : InTime(k, clock')
  PROVE  ClockInv'
  <1> USE DEF TypeInv
  <1>1. UNCHANGED <<push, file, image>>
    BY DEF loadData, saveVars
  <1>2. \A k \in Node \ {n} : messages'[k] = messages[k] /\ syncState'[k] = syncState[k]
    BY DEF loadData, TypeOK
  <1>3. InTime(n, clock)'
    <2>1. CASE UNCHANGED <<messages, syncState>>
      BY <1>1, <2>1, InTimeStays
    <2>2. ASSUME NEW img \in file[n],
                 messages' = [messages EXCEPT ![n] = img.messages],
                 syncState' = [syncState EXCEPT ![n] = img.syncState]
          PROVE  InTime(n, clock)'
      <3>1. messages'[n] = img.messages /\ syncState'[n] = img.syncState
        BY <2>2 DEF TypeOK
      <3> QED
        BY <1>1, <3>1 DEF InTime
    <2> QED
      BY <2>1, <2>2 DEF loadData
  <1>4. \A k \in Node \ {n} : InTime(k, clock)'
    BY <1>1, <1>2, InTimeStays
  <1> QED
    BY <1>3, <1>4 DEF ClockInv

LEMMA ClockStep == TypeInv /\ ClockInv /\ [Next]_vars => ClockInv'
  <1> SUFFICES ASSUME TypeInv, ClockInv, [Next]_vars PROVE ClockInv'
    OBVIOUS
  <1>0. \A k \in Node : InTime(k, clock')
    BY StillInTime
  <1>1. CASE UNCHANGED vars
    BY <1>0, <1>1, InTimeStays DEF vars, roomVars, saveVars, ClockInv
  <1>2. CASE \E n, p \in Node : Sync(n, p)
    BY <1>0, <1>2, ClockSync
  <1>3. CASE \E n \in Node : FinishSave(n) \/ \E exit \in BOOLEAN : BeginSave(n, exit)
    BY <1>0, <1>3, ClockSave
  <1>4. CASE \E n \in Node : ExitEarly(n)
    BY <1>0, <1>4, InTimeStays DEF ExitEarly, roomVars, saveVars, ClockInv
  <1>5. CASE \E n \in Node :
              \/ SendMessage(n) \/ PushNext(n) \/ StoreSyncState(n) \/ Stop(n) \/ loadData(n)
    BY <1>0, <1>5, ClockSendMessage, ClockPushNext, ClockStoreSyncState, ClockStop,
       ClockLoadData
  <1> QED
    BY <1>1, <1>2, <1>3, <1>4, <1>5, NextSteps

(* A member never drops a message of its own, whatever it and the others   *)
(* have forgotten: no SyncState is ahead of its clock.                     *)
THEOREM OwnMessagesAreNew == Spec => OwnMessageIsNew
  <1>1. Spec => [](TypeInv /\ ClockInv)
    BY TypeInit, TypeStep, ClockInit, ClockStep, PTL DEF Spec
  <1>2. TypeInv /\ ClockInv /\ [Next]_vars =>
          [\A n \in Node : SendMessage(n) => syncState[n][n] < clock'[n]]_vars
    <2> SUFFICES ASSUME TypeInv, ClockInv, NEW n \in Node, SendMessage(n)
                 PROVE  syncState[n][n] < clock'[n]
      OBVIOUS
    <2>1. syncState[n][n] <= clock[n]
      BY DEF ClockInv, InTime, MapInTime
    <2>2. clock'[n] = clock[n] + 1 /\ clock[n] \in Int /\ syncState[n][n] \in Int
      BY ConstantsAssumption DEF SendMessage, TypeInv, TypeOK, SyncMap
    <2> QED
      BY <2>1, <2>2
  <1> QED
    BY <1>1, <1>2, PTL DEF Spec, OwnMessageIsNew

==============================================================================
