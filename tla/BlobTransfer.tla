---------------------------- MODULE BlobTransfer -----------------------------
(***************************************************************************)
(* The attachments of a room: sendBlobs and readBlobs inside syncMsgs and  *)
(* convClientHandler, the files of blobmngr they work on, and the upload   *)
(* of an attachment through the API.                                       *)
(*                                                                         *)
(* A blob is a file named by its ID.  FileFromID opens it for appending    *)
(* and creates it if need be, RemoveBlob unlinks the name.  So the model   *)
(* tells names from files: a goroutine whose file has been unlinked goes   *)
(* on writing where nobody will look.                                      *)
(*                                                                         *)
(* Only messages that carry a blob are modelled, and a message is named by *)
(* its blob.  Rooms are sets, for RoomSync shows that they have no gaps.   *)
(***************************************************************************)
EXTENDS Integers, Sequences, FiniteSetsExt

CONSTANTS
  Node,      \* the members of the room
  Conn,      \* connection slots; each serves one connection at a time
  Src, Dst,  \* the dialling and the serving member of a slot
  Blob,      \* the blobs, numbered in the order of their messages
  Author,    \* the member that uploads a blob
  MaxSize,   \* bound on the blocks of an upload
  MaxFail,   \* bound on the number of failing connections and writes
  MaxStop    \* bound on the number of crashes and clean exits

ASSUME ConstantsAssumption ==
  /\ Src \in [Conn -> Node] /\ Dst \in [Conn -> Node]
  /\ \A c \in Conn : Src[c] # Dst[c]
  /\ Blob \subseteq Nat
  /\ Author \in [Blob -> Node]
  /\ MaxSize \in Nat /\ MaxFail \in Nat /\ MaxStop \in Nat

VARIABLES
  room,       \* the messages of a member's room
  lastSync,   \* MessagingPeer.LastSyncState, for each queue
  saved,      \* room and lastSync as last written by saveData
  published,  \* the blobs that have been uploaded
  size,       \* how many blocks the uploaded blob has
  name,       \* the file a member's blob directory has for a blob, 0 for none
  file,       \* the contents of the files, named or not
  client,     \* where syncMsgs is, for each connection
  handler,    \* where convClientHandler is
  link,       \* whether the connection is up
  have,       \* the SyncState that the handler has sent
  batch,      \* the messages chosen by it
  todo,       \* the blobs of the batch that are still to be transferred
  count,      \* the number of blocks the client has announced
  pos,        \* how many of them have been acknowledged
  from, to,   \* the files that the client reads and the handler appends to
  fails, stops

storeVars == <<name, file>>
roomVars == <<room, lastSync, saved, published, size>>
stepVars == <<client, handler, link>>
batchVars == <<have, batch, todo>>
copyVars == <<count, pos, from, to>>
vars == <<storeVars, roomVars, stepVars, batchVars, copyVars, fails, stops>>

Queue == {<<Src[c], Dst[c]>> : c \in Conn}
QueueOf(c) == <<Src[c], Dst[c]>>

(* The n-th block of any blob is the number n.                             *)
Upload(k) == [i \in 1..k |-> i]

(* The blob whose turn it is.                                              *)
Current(c) == Min(todo[c])

TypeOK ==
  /\ room \in [Node -> SUBSET Blob]
  /\ lastSync \in [Queue -> SUBSET Blob]
  /\ saved \in [room : [Node -> SUBSET Blob], lastSync : [Queue -> SUBSET Blob]]
  /\ published \in SUBSET Blob
  /\ size \in [Blob -> 0..MaxSize]
  /\ file \in Seq(Seq(1..MaxSize))
  /\ name \in [Node -> [Blob -> 0..Len(file)]]
  /\ client \in [Conn -> {"idle", "dialed", "stat", "open", "send", "done"}]
  /\ handler \in [Conn -> {"idle", "offered", "count", "blocks", "push", "reply"}]
  /\ link \in [Conn -> BOOLEAN]
  /\ have \in [Conn -> SUBSET Blob]
  /\ batch \in [Conn -> SUBSET Blob]
  /\ todo \in [Conn -> SUBSET Blob]
  /\ count \in [Conn -> Nat]
  /\ pos \in [Conn -> Nat]
  /\ from \in [Conn -> 0..Len(file)]
  /\ to \in [Conn -> 0..Len(file)]
  /\ fails \in 0..MaxFail
  /\ stops \in 0..MaxStop

Init ==
  /\ room = [n \in Node |-> {}]
  /\ lastSync = [q \in Queue |-> {}]
  /\ saved = [room |-> room, lastSync |-> lastSync]
  /\ published = {}
  /\ size = [b \in Blob |-> 0]
  /\ name = [n \in Node |-> [b \in Blob |-> 0]]
  /\ file = <<>>
  /\ client = [c \in Conn |-> "idle"]
  /\ handler = [c \in Conn |-> "idle"]
  /\ link = [c \in Conn |-> FALSE]
  /\ have = [c \in Conn |-> {}]
  /\ batch = [c \in Conn |-> {}]
  /\ todo = [c \in Conn |-> {}]
  /\ count = [c \in Conn |-> 0]
  /\ pos = [c \in Conn |-> 0]
  /\ from = [c \in Conn |-> 0]
  /\ to = [c \in Conn |-> 0]
  /\ fails = 0
  /\ stops = 0

------------------------------------------------------------------------------
(* blobmngr                                                                *)

(* The blob directory of n gets a new file.                                *)
Create(n, b, content) ==
  /\ file' = Append(file, content)
  /\ name' = [name EXCEPT ![n][b] = Len(file) + 1]

(* Mutation of FileFromID: without O_CREATE.                               *)
FileFromIDAsIs(n, b) == UNCHANGED storeVars

(* FileFromID: O_CREATE|O_APPEND.                                          *)
FileFromID(n, b) ==
  IF name[n][b] = 0 THEN Create(n, b, <<>>) ELSE UNCHANGED storeVars

FileID(n, b) == IF name[n][b] = 0 THEN Len(file) + 1 ELSE name[n][b]

(* RemoveBlob unlinks whatever file has the name now.                      *)
RemoveBlob(n, b) ==
  /\ name' = [name EXCEPT ![n][b] = 0]
  /\ UNCHANGED file

(* RouteRoomSendFile: the file is complete before its message makes the ID *)
(* known.  WriteIntoFile takes any read error for the end of the upload.   *)
SendFile(b) ==
  LET n == Author[b]
  IN
  /\ b \notin published
  /\ \A k \in Blob : k < b => k \in published
  /\ \E k \in 0..MaxSize :
       /\ Create(n, b, Upload(k))
       /\ size' = [size EXCEPT ![b] = k]
  /\ published' = published \cup {b}
  /\ room' = [room EXCEPT ![n] = @ \cup {b}]
  /\ UNCHANGED <<lastSync, saved, stepVars, batchVars, copyVars, fails, stops>>

------------------------------------------------------------------------------
(* syncMsgs and sendBlobs                                                  *)

Dial(c) ==
  /\ client[c] = "idle" /\ handler[c] = "idle"
  /\ \A d \in Conn : QueueOf(d) = QueueOf(c) => client[d] = "idle"
  /\ ~(room[Src[c]] \subseteq lastSync[QueueOf(c)])
  /\ client' = [client EXCEPT ![c] = "dialed"]
  /\ link' = [link EXCEPT ![c] = TRUE]
  /\ UNCHANGED <<storeVars, roomVars, handler, batchVars, copyVars, fails, stops>>

(* The messages that the peer lacks; their blobs follow.                   *)
SendBatch(c) ==
  LET new == room[Src[c]] \ have[c]
  IN
  /\ link[c] /\ client[c] = "dialed" /\ handler[c] = "offered"
  /\ batch' = [batch EXCEPT ![c] = new]
  /\ todo' = [todo EXCEPT ![c] = new]
  /\ client' = [client EXCEPT ![c] = IF new = {} THEN "done" ELSE "stat"]
  /\ handler' = [handler EXCEPT ![c] = IF new = {} THEN "push" ELSE "count"]
  /\ UNCHANGED <<storeVars, roomVars, link, have, copyVars, fails, stops>>

(* Mutation of Stat: the last, partial block is not counted.               *)
StatRoundsDown(c) ==
  /\ client[c] = "stat"
  /\ name[Src[c]][Current(c)] # 0
  /\ count' = [count EXCEPT ![c] = Max({0, Len(file[name[Src[c]][Current(c)]]) - 1})]
  /\ pos' = [pos EXCEPT ![c] = 0]
  /\ client' = [client EXCEPT ![c] = "open"]
  /\ UNCHANGED <<storeVars, roomVars, handler, link, batchVars, from, to, fails, stops>>

(* StatFromID: announce as many blocks as the file has now.                *)
Stat(c) ==
  /\ client[c] = "stat"
  /\ name[Src[c]][Current(c)] # 0
  /\ count' = [count EXCEPT ![c] = Len(file[name[Src[c]][Current(c)]])]
  /\ pos' = [pos EXCEPT ![c] = 0]
  /\ client' = [client EXCEPT ![c] = "open"]
  /\ UNCHANGED <<storeVars, roomVars, handler, link, batchVars, from, to, fails, stops>>

(* The blob is gone: the client gives up.                                  *)
StatFails(c) ==
  /\ client[c] = "stat"
  /\ name[Src[c]][Current(c)] = 0
  /\ client' = [client EXCEPT ![c] = "idle"]
  /\ link' = [link EXCEPT ![c] = FALSE]
  /\ UNCHANGED <<storeVars, roomVars, handler, batchVars, copyVars, fails, stops>>

(* A blob removed since Stat is created again, empty.                      *)
Open(c) ==
  /\ client[c] = "open"
  /\ FileFromID(Src[c], Current(c))
  /\ from' = [from EXCEPT ![c] = FileID(Src[c], Current(c))]
  /\ client' = [client EXCEPT ![c] = "send"]
  /\ UNCHANGED <<roomVars, handler, link, batchVars, count, pos, to, fails, stops>>

(* file.Read returns an error at the end of the file.                      *)
ReadFails(c) ==
  /\ link[c] /\ client[c] = "send"
  /\ pos[c] < count[c]
  /\ pos[c] >= Len(file[from[c]])
  /\ client' = [client EXCEPT ![c] = "idle"]
  /\ link' = [link EXCEPT ![c] = FALSE]
  /\ UNCHANGED <<storeVars, roomVars, handler, batchVars, copyVars, fails, stops>>

(* sync_ok has arrived.                                                    *)
SyncDone(c) ==
  /\ link[c] /\ client[c] = "done" /\ handler[c] = "reply"
  /\ lastSync' = [lastSync EXCEPT ![QueueOf(c)] = room[Src[c]]]
  /\ client' = [client EXCEPT ![c] = "idle"]
  /\ handler' = [handler EXCEPT ![c] = "idle"]
  /\ link' = [link EXCEPT ![c] = FALSE]
  /\ UNCHANGED <<storeVars, room, saved, published, size, batchVars, copyVars, fails, stops>>

(* A read or an expected response fails: no LastSyncState, a retry later.  *)
SyncError(c) ==
  /\ ~link[c] /\ client[c] \in {"dialed", "send", "done"}
  /\ client' = [client EXCEPT ![c] = "idle"]
  /\ UNCHANGED <<storeVars, roomVars, handler, link, batchVars, copyVars, fails, stops>>

------------------------------------------------------------------------------
(* convClientHandler and readBlobs                                         *)

(* Mutation of Offer: the SyncState of a room that was never loaded.       *)
OfferNothing(c) ==
  /\ link[c] /\ client[c] = "dialed" /\ handler[c] = "idle"
  /\ have' = [have EXCEPT ![c] = {}]
  /\ batch' = [batch EXCEPT ![c] = {}]
  /\ handler' = [handler EXCEPT ![c] = "offered"]
  /\ UNCHANGED <<storeVars, roomVars, client, link, todo, copyVars, fails, stops>>

(* The peer has authenticated itself: send it auth_ok and SyncState.       *)
Offer(c) ==
  /\ link[c] /\ client[c] = "dialed" /\ handler[c] = "idle"
  /\ have' = [have EXCEPT ![c] = room[Dst[c]]]
  /\ batch' = [batch EXCEPT ![c] = {}]
  /\ handler' = [handler EXCEPT ![c] = "offered"]
  /\ UNCHANGED <<storeVars, roomVars, client, link, todo, copyVars, fails, stops>>

(* The number of blocks has arrived: open the blob.                        *)
RecvCount(c) ==
  /\ link[c] /\ handler[c] = "count" /\ client[c] \in {"open", "send"}
  /\ FileFromID(Dst[c], Current(c))
  /\ to' = [to EXCEPT ![c] = FileID(Dst[c], Current(c))]
  /\ handler' = [handler EXCEPT ![c] = "blocks"]
  /\ UNCHANGED <<roomVars, client, link, batchVars, count, pos, from, fails, stops>>

(* One block is read, appended and acknowledged by block_ok.               *)
Block(c) ==
  /\ link[c] /\ client[c] = "send" /\ handler[c] = "blocks"
  /\ pos[c] < count[c]
  /\ pos[c] < Len(file[from[c]])
  /\ file' = [file EXCEPT ![to[c]] = Append(@, file[from[c]][pos[c] + 1])]
  /\ pos' = [pos EXCEPT ![c] = @ + 1]
  /\ UNCHANGED <<name, roomVars, stepVars, batchVars, count, from, to, fails, stops>>

(* blob_ok: both sides turn to the next blob, if there is one.             *)
BlobOk(c) ==
  LET rest == todo[c] \ {Current(c)}
  IN
  /\ link[c] /\ client[c] = "send" /\ handler[c] = "blocks"
  /\ pos[c] = count[c]
  /\ todo' = [todo EXCEPT ![c] = rest]
  /\ client' = [client EXCEPT ![c] = IF rest = {} THEN "done" ELSE "stat"]
  /\ handler' = [handler EXCEPT ![c] = IF rest = {} THEN "push" ELSE "count"]
  /\ UNCHANGED <<storeVars, roomVars, link, have, batch, copyVars, fails, stops>>

(* Mutation of CleanUp: a partial blob is kept for the next attempt.       *)
CleanUpNever(c) == UNCHANGED storeVars

(* What readBlobs does when it returns early: the deferred function        *)
(* removes the blob unless it is complete.                                 *)
CleanUp(c) ==
  IF handler[c] = "blocks" /\ pos[c] < count[c]
  THEN RemoveBlob(Dst[c], Current(c))
  ELSE UNCHANGED storeVars

(* Mutation of RecvFails: the handler gives up like the client.            *)
RecvFailsReturns(c) ==
  /\ ~link[c] /\ handler[c] \in {"offered", "count", "blocks"}
  /\ CleanUp(c)
  /\ handler' = [handler EXCEPT ![c] = "idle"]
  /\ UNCHANGED <<roomVars, client, link, batchVars, copyVars, fails, stops>>

(* A read fails.  The handler logs it and pushes the messages all the same.*)
RecvFails(c) ==
  /\ ~link[c] /\ handler[c] \in {"offered", "count", "blocks"}
  /\ CleanUp(c)
  /\ handler' = [handler EXCEPT ![c] = "push"]
  /\ UNCHANGED <<roomVars, client, link, batchVars, copyVars, fails, stops>>

(* The block cannot be written.  The client finds sync_ok where it expects *)
(* block_ok and gives up as it does when the connection fails.             *)
WriteFails(c) ==
  /\ link[c] /\ client[c] = "send" /\ handler[c] = "blocks"
  /\ pos[c] < count[c]
  /\ fails < MaxFail
  /\ fails' = fails + 1
  /\ CleanUp(c)
  /\ handler' = [handler EXCEPT ![c] = "push"]
  /\ link' = [link EXCEPT ![c] = FALSE]
  /\ UNCHANGED <<roomVars, client, batchVars, copyVars, stops>>

Push(c) ==
  /\ handler[c] = "push"
  /\ room' = [room EXCEPT ![Dst[c]] = @ \cup batch[c]]
  /\ handler' = [handler EXCEPT ![c] = "reply"]
  /\ UNCHANGED <<storeVars, lastSync, saved, published, size, client, link,
                 batchVars, copyVars, fails, stops>>

(* sync_ok cannot be delivered any more.                                   *)
ReplyLost(c) ==
  /\ ~link[c] /\ handler[c] = "reply"
  /\ handler' = [handler EXCEPT ![c] = "idle"]
  /\ UNCHANGED <<storeVars, roomVars, client, link, batchVars, copyVars, fails, stops>>

------------------------------------------------------------------------------
Break(c) ==
  /\ link[c]
  /\ fails < MaxFail
  /\ fails' = fails + 1
  /\ link' = [link EXCEPT ![c] = FALSE]
  /\ UNCHANGED <<storeVars, roomVars, client, handler, batchVars, copyVars, stops>>

(* The goroutines of n end; the other ends notice that the connection is   *)
(* gone.  Nothing touches the files.                                       *)
Kill(n) ==
  /\ stops < MaxStop
  /\ stops' = stops + 1
  /\ client' = [c \in Conn |-> IF Src[c] = n THEN "idle" ELSE client[c]]
  /\ handler' = [c \in Conn |-> IF Dst[c] = n THEN "idle" ELSE handler[c]]
  /\ link' = [c \in Conn |-> link[c] /\ n \notin {Src[c], Dst[c]}]
  /\ UNCHANGED <<storeVars, published, size, batchVars, copyVars, fails>>

(* The daemon dies and starts again with what it last saved.               *)
Crash(n) ==
  /\ Kill(n)
  /\ room' = [room EXCEPT ![n] = saved.room[n]]
  /\ lastSync' = [q \in Queue |-> IF q[1] = n THEN saved.lastSync[q] ELSE lastSync[q]]
  /\ UNCHANGED saved

(* exitDaemon saves, and the daemon is started again.                      *)
Exit(n) ==
  /\ Kill(n)
  /\ saved' = [room |-> [saved.room EXCEPT ![n] = room[n]],
               lastSync |-> [q \in Queue |-> IF q[1] = n THEN lastSync[q]
                                                         ELSE saved.lastSync[q]]]
  /\ UNCHANGED <<room, lastSync>>

ConnNext(c) ==
  \/ Dial(c) \/ SendBatch(c) \/ Stat(c) \/ StatFails(c) \/ Open(c) \/ ReadFails(c)
  \/ SyncDone(c) \/ SyncError(c) \/ Offer(c) \/ RecvCount(c) \/ Block(c) \/ BlobOk(c)
  \/ RecvFails(c) \/ WriteFails(c) \/ Push(c) \/ ReplyLost(c) \/ Break(c)

Next ==
  \/ \E b \in Blob : SendFile(b)
  \/ \E c \in Conn : ConnNext(c)
  \/ \E n \in Node : Crash(n) \/ Exit(n)

Spec == Init /\ [][Next]_vars

(* Goroutines run and connections that do not fail answer.                 *)
Fairness ==
  /\ \A q \in Queue : WF_vars(\E c \in Conn : QueueOf(c) = q /\ Dial(c))
  /\ \A c \in Conn :
       /\ WF_vars(SendBatch(c)) /\ WF_vars(Stat(c)) /\ WF_vars(StatFails(c))
       /\ WF_vars(Open(c)) /\ WF_vars(ReadFails(c)) /\ WF_vars(SyncDone(c))
       /\ WF_vars(SyncError(c)) /\ WF_vars(Offer(c)) /\ WF_vars(RecvCount(c))
       /\ WF_vars(Block(c)) /\ WF_vars(BlobOk(c)) /\ WF_vars(RecvFails(c))
       /\ WF_vars(Push(c)) /\ WF_vars(ReplyLost(c))

FairSpec == Spec /\ Fairness

------------------------------------------------------------------------------
(* What the runs and the proofs establish                                  *)

Whole(b) == Upload(size[b])
Exists(n, b) == name[n][b] # 0
Content(n, b) == file[name[n][b]]

(* Nothing in the code keeps two transfers of a blob to one member apart,  *)
(* or a transfer from what the room has got since the SyncState was sent.  *)
(* Both append to a file that is there already.  In what follows           *)
(* TransfersApart says that this has not happened: the offer names all     *)
(* that both ends have, and no two busy handlers of a member have been     *)
(* promised the same blob.                                                 *)
Transferring(c) == handler[c] \in {"count", "blocks", "push"}

TransfersApart ==
  /\ \A c \in Conn : link[c] /\ handler[c] = "offered" =>
       room[Src[c]] \cap room[Dst[c]] \subseteq have[c]
  /\ \A c, d \in Conn :
       c # d /\ Dst[c] = Dst[d] /\ Transferring(c) /\ Transferring(d) =>
         batch[c] \cap batch[d] = {}

(* As long as transfers keep apart, one that failed leaves no part of a    *)
(* blob behind: while no daemon goes down, what a message of the room      *)
(* names is whole or missing, never cut short.                             *)
WholeOrMissing ==
  stops = 0 =>
    \A n \in Node : \A b \in room[n] : Exists(n, b) => Content(n, b) = Whole(b)

(* As long as transfers keep apart, a dialling member that gets to the end *)
(* of sendBlobs may rely on the peer having the blobs of the batch, as far *)
(* as no daemon has gone down.                                             *)
AckMeansWhole ==
  \A c \in Conn : stops = 0 /\ link[c] /\ client[c] = "done" =>
    \A b \in batch[c] : Exists(Dst[c], b) /\ Content(Dst[c], b) = Whole(b)

(* As long as transfers keep apart, a blob that a message of the room      *)
(* names is left alone, also after the daemon has come back with an older  *)
(* room.  Where they do not, it is appended to.                            *)
ListedBlobNeverChanges ==
  [][\A n \in Node : \A b \in room[n] :
       Exists(n, b) => Exists(n, b)' /\ Content(n, b)' = Content(n, b)]_vars

(* A missing or broken blob never holds up the messages, its own included. *)
MessagesGetThrough ==
  \A c \in Conn : \A b \in Blob :
    (b \in room[Src[c]] /\ stops = 0) ~> (b \in room[Dst[c]] \/ stops # 0)

==============================================================================
