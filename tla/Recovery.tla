------------------------------- MODULE Recovery ------------------------------
(***************************************************************************)
(* One room whose members' daemons are saved, exit, crash and start again. *)
(*                                                                         *)
(* Messages and SyncState are only in memory until saveData writes the     *)
(* data file: at an exit, or when somebody asks the console for it.  It    *)
(* truncates the file, marshals the room field by field without its mutex, *)
(* and writes.  After a stop a daemon goes on with what the file holds,    *)
(* while the other members have gone ahead.                                *)
(*                                                                         *)
(* A push is one step for each message and one for SyncState, and other    *)
(* pushes wait; how pushes race with each other is RoomSync's subject, and *)
(* so is the test whether a queue has something to send: here it may dial  *)
(* at any time.                                                            *)
(***************************************************************************)
EXTENDS Integers, SequencesExt

CONSTANTS
  Node,     \* the members of the room
  Link,     \* the queues: who dials whom
  Sender,   \* the members that send messages
  MaxTime,  \* bound on the messages of a member
  MaxSave,  \* bound on the saves, and
  MaxStop   \* bound on the stops of all daemons

ASSUME ConstantsAssumption ==
  /\ Link \subseteq Node \X Node
  /\ Sender \subseteq Node
  /\ MaxTime \in Nat /\ MaxSave \in Nat /\ MaxStop \in Nat

VARIABLES
  phase,      \* before loadData, after it, or without its room
  messages,   \* Room.Messages
  syncState,  \* Room.SyncState
  push,       \* {} or the local variables of PushMessages
  clock,      \* the last reading of time.Now: it goes on while a daemon is down
  file,       \* what is in the data file, {} while it is truncated
  save,       \* how far saveData is ...
  exiting,    \* ... and whether exitDaemon has called it
  image,      \* the Messages it has marshalled
  stops, saves,
  (* history *)
  late,       \* the messages pushed while the data was being saved
  saved,      \* the messages that were in the file once it was written
  lost        \* the messages that a daemon had when it stopped, and its file not

roomVars == <<messages, syncState, push, clock>>
saveVars == <<save, exiting, image>>
histVars == <<late, saved, lost>>
vars == <<phase, roomVars, file, saveVars, stops, saves, histVars>>

Message == [sender : Node, time : 1..MaxTime]
SyncMap == [Node -> 0..MaxTime]
Image == [messages : Seq(Message), syncState : SyncMap]
Push == [batch : Seq(Message), next : Nat \ {0}, newSyncState : SyncMap]

NoEntries == [n \in Node |-> 0]
Empty == [messages |-> <<>>, syncState |-> NoEntries]

(* The own messages in a push, and the messages in the data file.          *)
OwnInPush(n) == {m \in UNION {ToSet(p.batch) : p \in push[n]} : m.sender = n}
InFile(n) == UNION {ToSet(img.messages) : img \in file[n]}

TypeOK ==
  /\ phase \in [Node -> {"starting", "up", "gone"}]
  /\ messages \in [Node -> Seq(Message)]
  /\ syncState \in [Node -> SyncMap]
  /\ push \in [Node -> SUBSET Push] /\ \A n \in Node : \A p, q \in push[n] : p = q
  /\ clock \in [Node -> 0..MaxTime]
  /\ file \in [Node -> SUBSET Image] /\ \A n \in Node : \A i, j \in file[n] : i = j
  /\ save \in [Node -> {"no", "half", "written"}]
  /\ exiting \in [Node -> BOOLEAN]
  /\ image \in [Node -> Seq(Message)]
  /\ stops \in 0..MaxStop /\ saves \in 0..MaxSave
  /\ late \in [Node -> SUBSET Message]
  /\ saved \in [Node -> SUBSET Message]
  /\ lost \subseteq Message

(* Everybody has joined and has been saved since.                          *)
Init ==
  /\ phase = [n \in Node |-> "up"]
  /\ messages = [n \in Node |-> <<>>]
  /\ syncState = [n \in Node |-> NoEntries]
  /\ push = [n \in Node |-> {}]
  /\ clock = [n \in Node |-> 0]
  /\ file = [n \in Node |-> {Empty}]
  /\ save = [n \in Node |-> "no"]
  /\ exiting = [n \in Node |-> FALSE]
  /\ image = [n \in Node |-> <<>>]
  /\ stops = 0 /\ saves = 0
  /\ late = [n \in Node |-> {}]
  /\ saved = [n \in Node |-> {}]
  /\ lost = {}

------------------------------------------------------------------------------
(* The room                                                                *)

IsNewer(m, map) == m.time > map[m.sender]

(* PushMessages takes the lock ...                                         *)
BeginPush(n, batch) ==
  /\ push[n] = {}
  /\ push' = [push EXCEPT ![n] = {[batch |-> batch, next |-> 1, newSyncState |-> syncState[n]]}]

Skipped(n, p, until) == \A j \in p.next..until : ~IsNewer(p.batch[j], syncState[n])

(* ... appends the next message that is new ...                            *)
PushNext(n) ==
  /\ \E p \in push[n] : \E i \in p.next..Len(p.batch) :
       LET m == p.batch[i]
       IN  /\ Skipped(n, p, i - 1) /\ IsNewer(m, syncState[n])
           /\ messages' = [messages EXCEPT ![n] = Append(@, m)]
           /\ push' = [push EXCEPT ![n] =
                          {[batch |-> p.batch, next |-> i + 1,
                            newSyncState |-> [p.newSyncState EXCEPT ![m.sender] = m.time]]}]
           /\ late' = [late EXCEPT ![n] = IF save[n] = "no" THEN @ ELSE @ \cup {m}]
  /\ UNCHANGED <<phase, syncState, clock, file, saveVars, stops, saves, saved, lost>>

(* ... and at the end stores SyncState.                                    *)
StoreSyncState(n) ==
  /\ \E p \in push[n] :
       /\ Skipped(n, p, Len(p.batch))
       /\ syncState' = [syncState EXCEPT ![n] = p.newSyncState]
  /\ push' = [push EXCEPT ![n] = {}]
  /\ UNCHANGED <<phase, messages, clock, file, saveVars, stops, saves, histVars>>

(* The API answers until the process ends.                                 *)
SendMessage(n) ==
  /\ n \in Sender /\ phase[n] = "up"
  /\ clock[n] < MaxTime
  /\ clock' = [clock EXCEPT ![n] = @ + 1]
  /\ BeginPush(n, <<[sender |-> n, time |-> clock[n] + 1]>>)
  /\ UNCHANGED <<phase, messages, syncState, file, saveVars, stops, saves, histVars>>

(* Mutation of findMessagesToSync: only the newest message is sent.        *)
findNewest(n) == IF messages[n] = <<>> THEN <<>> ELSE <<Last(messages[n])>>

(* The test of a message against the SyncState that the receiver offers is *)
(* made in PushNext: no other push comes between, so it is the same one.   *)
findMessagesToSync(n) == messages[n]

(* A queue of n brings p what p's SyncState lacks.  exitDaemon stops Tor   *)
(* before it saves, but a handler that has its batch still pushes it.      *)
Sync(n, p) ==
  /\ phase[n] = "up" /\ phase[p] = "up"
  /\ \E i \in DOMAIN messages[n] : IsNewer(messages[n][i], syncState[p])
  /\ BeginPush(p, findMessagesToSync(n))
  /\ UNCHANGED <<phase, messages, syncState, clock, file, saveVars, stops, saves, histVars>>

------------------------------------------------------------------------------
(* saveData and SaveDataCompressed                                         *)

(* Mutation of BeginSave: the file is not truncated.                       *)
BeginSaveAppends(n, exit) ==
  /\ phase[n] = "up" /\ save[n] = "no"
  /\ saves < MaxSave
  /\ saves' = saves + 1
  /\ save' = [save EXCEPT ![n] = "half"]
  /\ exiting' = [exiting EXCEPT ![n] = exit]
  /\ image' = [image EXCEPT ![n] = messages[n]]
  /\ UNCHANGED <<phase, roomVars, file, stops, histVars>>

(* exitDaemon, or "save" at the console: the file is opened with O_TRUNC,  *)
(* and json.Marshal comes to Messages ...                                  *)
BeginSave(n, exit) ==
  /\ phase[n] = "up" /\ save[n] = "no"
  /\ saves < MaxSave
  /\ saves' = saves + 1
  /\ save' = [save EXCEPT ![n] = "half"]
  /\ exiting' = [exiting EXCEPT ![n] = exit]
  /\ file' = [file EXCEPT ![n] = {}]
  /\ image' = [image EXCEPT ![n] = messages[n]]
  /\ UNCHANGED <<phase, roomVars, stops, histVars>>

Saved(n) ==
  /\ save[n] = "half"
  /\ save' = [save EXCEPT ![n] = IF exiting[n] THEN "written" ELSE "no"]
  /\ image' = [image EXCEPT ![n] = <<>>]
  /\ saved' = [saved EXCEPT ![n] = @ \cup ToSet(image[n])]
  /\ late' = [late EXCEPT ![n] = IF exiting[n] THEN @ ELSE {}]
  /\ UNCHANGED <<phase, roomVars, exiting, stops, saves, lost>>

(* Mutation of FinishSave: only what came in since the start is written.   *)
FinishSaveSuffix(n) ==
  /\ Saved(n)
  /\ file' = [file EXCEPT ![n] = {[messages |-> SelectSeq(image[n], LAMBDA m : m \notin saved[n]),
                                  syncState |-> syncState[n]]}]

(* ... and then to SyncState; the file is written.                         *)
FinishSave(n) ==
  /\ Saved(n)
  /\ file' = [file EXCEPT ![n] = @ \cup {[messages |-> image[n], syncState |-> syncState[n]]}]

------------------------------------------------------------------------------
(* Stops and starts                                                        *)

(* The process ends, and with it everything that is not in the file.       *)
Stop(n) ==
  /\ phase[n] = "up"
  /\ stops < MaxStop
  /\ stops' = stops + 1
  /\ phase' = [phase EXCEPT ![n] = "starting"]
  /\ messages' = [messages EXCEPT ![n] = <<>>]
  /\ syncState' = [syncState EXCEPT ![n] = NoEntries]
  /\ push' = [push EXCEPT ![n] = {}]
  /\ save' = [save EXCEPT ![n] = "no"]
  /\ exiting' = [exiting EXCEPT ![n] = FALSE]
  /\ image' = [image EXCEPT ![n] = <<>>]
  /\ late' = [late EXCEPT ![n] = {}]
  /\ lost' = lost \cup ((ToSet(messages[n]) \cup OwnInPush(n)) \ InFile(n))
  /\ UNCHANGED <<clock, file, saves, saved>>

Crash(n) == save[n] # "written" /\ Stop(n)

(* os.Exit after saveData, whatever other goroutines are doing.            *)
Exit(n) == save[n] = "written" /\ Stop(n)

(* Mutation of ExitEarly: data is saved although it has not been loaded.   *)
ExitEarlySaves(n) ==
  /\ phase[n] = "starting"
  /\ stops < MaxStop
  /\ stops' = stops + 1
  /\ file' = [file EXCEPT ![n] = {Empty}]
  /\ UNCHANGED <<phase, roomVars, saveVars, saves, histVars>>

(* A signal before loadData has set loadFuse: nothing is saved.            *)
ExitEarly(n) ==
  /\ phase[n] = "starting"
  /\ stops < MaxStop
  /\ stops' = stops + 1
  /\ UNCHANGED <<phase, roomVars, file, saveVars, saves, histVars>>

(* Mutation of loadData: the clock of the messages starts again.           *)
loadDataAndClock(n) ==
  /\ phase[n] = "starting"
  /\ \E img \in file[n] :
       /\ phase' = [phase EXCEPT ![n] = "up"]
       /\ messages' = [messages EXCEPT ![n] = img.messages]
       /\ syncState' = [syncState EXCEPT ![n] = img.syncState]
       /\ clock' = [clock EXCEPT ![n] = 0]
  /\ UNCHANGED <<push, file, saveVars, stops, saves, histVars>>

(* Nobody looks at the errors of zstd and json: from a truncated file the  *)
(* daemon takes that it has no rooms, and no identities.                   *)
loadData(n) ==
  /\ phase[n] = "starting"
  /\ \/ /\ file[n] = {}
        /\ phase' = [phase EXCEPT ![n] = "gone"]
        /\ UNCHANGED <<messages, syncState>>
     \/ \E img \in file[n] :
          /\ phase' = [phase EXCEPT ![n] = "up"]
          /\ messages' = [messages EXCEPT ![n] = img.messages]
          /\ syncState' = [syncState EXCEPT ![n] = img.syncState]
  /\ UNCHANGED <<push, clock, file, saveVars, stops, saves, histVars>>

------------------------------------------------------------------------------
Next ==
  \/ \E n \in Node :
       \/ SendMessage(n) \/ PushNext(n) \/ StoreSyncState(n)
       \/ (\E exit \in BOOLEAN : BeginSave(n, exit)) \/ FinishSave(n)
       \/ Crash(n) \/ Exit(n) \/ ExitEarly(n) \/ loadData(n)
  \/ \E l \in Link : Sync(l[1], l[2])

Spec == Init /\ [][Next]_vars

------------------------------------------------------------------------------
(* What the runs establish                                                 *)

(* A member that claims in its SyncState to have a message has it, unless  *)
(* a daemon that held it has stopped without having saved it: crashes and  *)
(* saves that race with a push make gaps, but only of the messages they    *)
(* hit, and these do not spread to other messages.                         *)
ClaimsAreHeldOrLost ==
  \A n, s \in Node : \A t \in 1..syncState[n][s] :
    [sender |-> s, time |-> t] \in ToSet(messages[n]) \cup lost

(* A clean exit loses no message that was there when it began to save.     *)
ExitKeeps ==
  [][\A n \in Node : Exit(n) =>
       ToSet(messages[n]) \subseteq InFile(n) \cup late[n]]_vars

(* What has been written once is in every later file: a signal that comes  *)
(* before the data is loaded does not overwrite it, and no restart leaves  *)
(* anything out.                                                           *)
SavedIsKept ==
  \A n \in Node : file[n] # {} => saved[n] \subseteq InFile(n)

(* The own message of a member is always new to it, although after a crash *)
(* its room is older than what the others have and send back to it.        *)
OwnMessageIsNew ==
  [][\A n \in Node : SendMessage(n) => syncState[n][n] < clock'[n]]_vars

==============================================================================
