# onionmsg: specifications

onionmsg is a peer-to-peer messenger over Tor hidden services.  Every user runs
a daemon (`cmd/onionmsgd`); a room is replicated at the daemons of its members,
which push messages to each other directly.  There is no server: whatever order
messages, membership and attachments have is the product of goroutines, mutexes
and connections that fail.  The modules in this directory specify those parts in
TLA+, check them with TLC on small instances and prove the central properties
with TLAPS for instances of every size.

To repeat a check: `tlc -config RoomSyncRelay.cfg MCRoomSync.tla`; to repeat the
proofs: `tlapm RoomSyncProofs.tla`, `tlapm RoomSyncSingleProofs.tla`,
`tlapm RecoveryProofs.tla`, `tlapm MembershipProofs.tla`,
`tlapm BlobTransferProofs.tla`, `tlapm RegistryProofs.tla`,
`tlapm RegistryServiceProofs.tla`, `tlapm DataConnProofs.tla`.

## The system

| component | code | state | operations | modelled |
|---|---|---|---|---|
| message synchronisation | `internal/types/{room,messaging_peer,util,message}.go`, `internal/daemon/conversation_handler.go` | `Room.Messages`, `Room.SyncState`, `msgUpdateMutex`; per peer `LastSyncState`, contexts, the goroutine of its queue; per connection the local variables of both ends | `RunMessageQueue`, `syncMsgs`, `convClientHandler`, `PushMessages`, `SendMessageToAllPeers`, `StopQueues` | `RoomSync` |
| blob transfer and store | `pkg/blobmngr/manager.go`, `sendBlobs`, `readBlobs`, `RouteRoomSendFile` | the files of the blob directory, the open files of both ends, the block counters | upload, `StatFromID`, `FileFromID`, `RemoveBlob`, block transfer and its cleanup | `BlobTransfer` |
| membership and commands | `internal/types/{room,command_handler,identity}.go` | `Room.Peers`, `IdentityMeta` (admin, nick), `Room.Name` | `AddPeers`, `syncPeerLists`, `invite`, `promote`, `remove_peer`, `name_room`, `nick` | `Membership` |
| contact handshake | `internal/daemon/contact_handler.go`, `createPeerViaContactID` | `data.Requests` | request, answer with a fresh identity, signature | `Membership` (inviter), `Registry` (contact), `DataConn` (frames) |
| registry of the daemon | `internal/daemon/{util,room_util,contact_util}.go` | `data.Rooms`, `data.Requests`, `data.ContactIdentities`, the onion services | create, accept, delete; register and deregister | `Registry` |
| lifecycle and persistence | `internal/daemon/daemon.go`, `pkg/sio/file.go`, `cmd/onionmsgd` | the data file, `loadFuse` | start, load, signal, save, exit | `Recovery`; the lists in `Registry`, the files in `BlobTransfer` |
| data connections | `pkg/sio/connection`, challenge functions | buffers, frames | read and write frames, flush, challenge | `DataConn` |
| API server, notifications | `internal/api` | the list of websocket observers | the routes; `NotifyObservers` | the calls that change rooms, as inputs |
| local servers | `pkg/sio/simple_server.go` | | one goroutine per accepted connection | as concurrency |
| Tor | `pkg/tor` | an external process | add and remove an onion service, dial | services in `Registry`, dials as success or failure |
| console | `internal/daemon/interactive.go` | | prompts over `util.go` | as a frontend of `Registry`, `Recovery` and `RoomSync` |

*Interactions.*  A daemon serves two local ports behind onion services: the
contact port (`contClientHandler`) and the conversation port
(`convClientHandler`), one goroutine per connection.  The API server and the
console call the functions of `internal/daemon/util.go`, each from a goroutine
of its own.  Every peer of a room has a goroutine that dials the peer's
conversation port.  All of them share the `Room` object: `Messages` and
`SyncState` are written under `msgUpdateMutex` and read without it, `Peers` is
written under it by commands and without it by `AddPeers`.  Commands are
messages, executed by `PushMessages` at every member.  Blobs travel on the
connection of the messages that name them.

*What is hard.*  Read-modify-write across the mutex; a state vector that may
only say "everything up to this time"; handlers that outlive their clients;
files that are appended to by whoever has them open; membership that changes in
the order in which messages happen to arrive; state that is saved at a clean
exit only.

*What makes each component correct.*
Synchronisation: no gaps, no loss of what was acknowledged, no duplicates,
delivery, stopping.  Blobs: what a message names is whole or missing, never
changes, never blocks the messages.  Membership: one list of members, one view
of who is admin, one nickname per member.  Registry: a room is served by one
identity, a request is answered once, nothing runs that is not registered.
Persistence: a restart continues a state the others can build on.  Connections:
a frame that is sent is read whole or both ends learn of it.

The hazards behind these properties, each with its line, are listed in
`PROJECT.json`.

## Plan

1. `RoomLog`, `RoomSync` and their proofs; `BlobTransfer`; `Membership`;
   `Registry`; `Recovery` and its proofs; `DataConn`: done.
2. `QueueLifecycle`: `Stop`, `BumpQueue` and the start of the goroutine as
   steps; `Notifier`: the list of observers.
3. Theorems: `RoomSync`, `Recovery`, `Membership`, `BlobTransfer`, `Registry`
   and `DataConn`: done.

## Modules

| module | models | composes |
|---|---|---|
| `RoomLog` | what the message synchronisation promises: members publish in order and learn each other's messages without gaps | |
| `RoomSync` | `RunMessageQueue`, `syncMsgs`, `convClientHandler`, `PushMessages`, `SendMessageToAllPeers` and `StopQueues` of one room | implements `RoomLog` |
| `MCRoomSync` | the instances TLC checks | `RoomSync` |
| `RoomSyncProofs` | type invariant, inductive invariant, five safety invariants, the refinement | `RoomSync` |
| `RoomSyncSingleProofs` | no duplicates while pushes into a room do not overlap | `RoomSyncProofs` |
| `BlobTransfer` | uploads, `sendBlobs`, `readBlobs`, the blob directory, crash and exit | uses what `RoomSync` shows of rooms |
| `MCBlobTransfer` | the instances TLC checks | `BlobTransfer` |
| `BlobTransferProofs` | types; listed blobs stay, whole or missing, acknowledged blobs, while transfers keep apart | `BlobTransfer` |
| `Membership` | `AddPeers`, the contact handshake, `syncPeerLists`, the room commands | uses what `RoomSync` shows of delivery |
| `MCMembership` | the instances TLC checks | `Membership` |
| `MembershipProofs` | types, causal order, distinct peers, known admins, agreement on members and nicknames at rest | `Membership` |
| `Registry` | contacts, rooms, requests, their onion services and queues at one daemon | the room of the others is one object here |
| `MCRegistry` | the instances TLC checks | `Registry` |
| `RegistryProofs` | types; promised identities stay | `Registry` |
| `RegistryServiceProofs` | services, identities and queues of a daemon at rest | `RegistryProofs` |
| `Recovery` | a room whose daemons save, exit, crash and load | uses what `RoomSync` shows of racing pushes |
| `MCRecovery` | the instances TLC checks | `Recovery` |
| `RecoveryProofs` | the five properties of `Recovery` | `Recovery` |
| `DataConn` | frames over buffers and a connection, the sync and the contact handshake | the sessions of `RoomSync` and `BlobTransfer` byte by byte |
| `MCDataConn` | the instances TLC checks | `DataConn` |
| `DataConnProofs` | types; where no length is torn, frames arrive in order and success is mutual | `DataConn` |

### RoomSync

*State.*  `messages`, `syncState`, `msgUpdateMutex`, `stopped` are the fields of
`types.Room` at each member; `lastSyncState` and `queue` belong to the
`MessagingPeer` of each ordered pair of members and its `RunMessageQueue`
goroutine.  A connection slot `c` of `Conn` joins the queue of `Src[c]` for
`Dst[c]` to the `convClientHandler` goroutine at `Dst[c]`: `client[c]` is where
`syncMsgs` is, `pc[c]` where the handler is, `link[c]` whether the connection is
up.  Several slots with the same ends are several connections: after a failure
the client dials again while the old handler may still be pushing.  A thread of
`Api` is a goroutine that serves a local `SendMessageToAllPeers`.

*Grain.*  One action is one stretch of code between two places where another
goroutine or another daemon can interfere: reading SyncState in the handler
(`Offer`), choosing the batch (`SendBatch`), the signature loop (`RecvBatch`,
`RejectBatch`), and in `PushMessages` the copy before the lock (`PushCopy`), the
lock, every turn of the loop (`PushNext`: `Messages` grows turn by turn and
`findMessagesToSync` reads it without the mutex), the assignment with the unlock.

*Data.*  A message is its sender, its time and whether other members accept its
signature; content is left out here.  A batch is kept as the log it was chosen
from and the SyncMap that chose it (`batchLog`, `remoteSyncTimes`).  Times are
small numbers; a member's clock is strictly increasing (nanosecond readings with
an Ed25519 signature between them), so steps of the wall clock are not modelled.
`SigOk` contains FALSE where a message may be one that its own daemon stores but
that every other daemon rejects: `sendMessage` takes `ReplyTo` from a request
header without verifying it, while `SigIsValid` (message.go:68) verifies it.

*What is left out.*  The set of members is fixed.  A slice header read while
`append` writes it (`findMessagesToSync` and `listMessages` read `Messages`
without the mutex) is not torn.  The challenge that authenticates the client
(`fingerprintChallenge`, `readFingerprintWithChallenge`) always succeeds; its
refusals are in `DataConn`.

### What the runs of RoomSync show

| run | configuration | result |
|---|---|---|
| `relay` | three members, direct path and relay, two API goroutines at the sender, 2 messages, 1 failure, bad signatures | `TypeOK`, `PrefixClosed`, `SyncStateBacked`, `AckMeansStored`, `FreshMessageStored`, `ForeignMessagesAreSigned`, refinement of `RoomLog` |
| `live` | one connection at a time, 3 messages of which 2 fit into a frame, bad signatures, 2 failures, stop, fairness | `NoDuplicates`, `PendingIsDelivered`, `QueuesGoOn` |
| `duplicates` | two connections a→b | `NoDuplicates` is violated |
| `missed` | two messages, no failure | `EventuallyDelivered` is violated |

*Bounds.*  `MaxTime` bounds the messages of a member, `MaxBreak` the failures,
`MaxBatch` is the abstract `maxMsgSize`.  Two messages suffice for a batch with
an inner order, a message that overtakes another and a push between offer and
batch; one failure suffices for a handler that outlives its client (its slot
stays busy while the other slot dials); two slots are the smallest number that
lets two handlers of one peer meet in `PushMessages` (`duplicates`; in `relay`
the handlers of two peers meet there).  Three members are the
smallest number with a relay.  The theorems remove all of these bounds.

*Deadlock* is not checked: when every queue has been stopped, or the clocks have
reached `MaxTime` and a stuck session waits, the system really stops.

*Fairness.*  Weak fairness of the steps of a goroutine that nothing blocks: the
Go scheduler runs every runnable goroutine, and a connection that does not fail
delivers what was flushed.  Strong fairness of `PushLock`, because `sync.Mutex`
hands over to a waiter in its starvation mode.  No fairness of `NewMessage`,
`StopQueues`, `Break`, `DialFails`: nobody must send or stop, nothing must fail.
`MaxBreak` makes failures finite, which is the weakest assumption under which
delivery can be promised at all.

### The findings of RoomSync

1. `PushMessages` copies `SyncState` before it takes the mutex (room.go:203-205).
   Two pushes into one room lose an update of SyncState; the room then asks for
   and appends messages it already has.  `SyncStateBacked` shows what survives:
   the state falls back, it never runs ahead, so nothing is lost in transit.
2. `LastSyncState` is taken when a sync ends (messaging_peer.go:69).  A message
   pushed while the sync was running waits until *another* message changes
   SyncState.  `PendingIsDelivered` is the guarantee that remains.

Three more cases in which the code does less than one might expect are not runs
of their own.  They happen in the passing runs, and the properties name them:

* *Overlapping sends* (`relay`, two API goroutines at `a`).  The time of a message
  is read before the mutex, so the one with the earlier time may come second, fail
  the `After` test of room.go:210 and vanish although the call is answered with
  success.  `FreshMessageStored` says that this is the only way to lose it: a later
  message of the same member is there.  In this instance the other
  properties hold as well.  In general `PrefixClosed`, `AckMeansStored` and the
  refinement need sends in turn (`SendsInTurn`): a message that was overtaken is
  dropped, but its push puts SyncState back, and then another overtaken one comes in
  behind the message that has overtaken both.  With three API goroutines at `a` and
  `MaxTime = 3` TLC finds the gap that this makes at `b`.
* *A batch above `maxMsgSize`* (`live`, three messages, two to a frame) is never
  sent, the error is dropped, and client and handler wait for each other for ever,
  past `StopQueues`, although room.go:195 says that it cancels all message queues.
  `Stuck` is that state; `QueuesGoOn` and `PendingIsDelivered` except it and nothing
  else of the kind.
* *A message nobody accepts* (`live`, `SigOk` has FALSE) makes the handler refuse
  every batch that it is in.  `HeldUp` is a room with one; `PendingIsDelivered`
  promises nothing for it, while `QueuesGoOn` still does.

### What is proved about RoomSync

`RoomSyncProofs`, for arbitrary finite or infinite `Node`, `Conn`, `Api` and all
bounds:

* `TypeCorrect`: `Spec => []TypeOK`, from `ConstantsAssumption` alone.
* `SyncStateBacked`, `ForeignMessagesAreSigned` and `FreshMessageStored`, likewise
  from `ConstantsAssumption` alone: however API calls, handlers and queues overlap.
* `PrefixClosed`, `AckMeansStored` and `RoomLogImplemented` for every behaviour in
  which no member sends two messages at once: `Spec /\ []SendsInTurn => ...`.  This
  is a condition on what frontends do, not on the instance: `net/http` serves every
  request in a goroutine of its own, and a frontend that waits for the answer to one
  message before it sends the next one meets it.  `Api` may have any number of
  goroutines at every member, and handlers overlap with them as they like.

None of these is inductive.  `SafeInv` is, with `TypeOK`, and needs no condition.
Its parts are named after what they carry through a race: `MapsBacked` (every
SyncMap anywhere, in a room, in a peer, in flight or in a local variable, names
messages its room already holds: rooms only grow, so a stale copy stays true),
`LogsSent` and `SentTimes` (copies are of messages that their sender holds, and
identified by sender and time), `PendingSends` (a message being pushed locally has
a time of its own), `SendsAccounted` (the loop that has passed over it has met a
later one), `SignaturesChecked` (a batch past the signature loop is valid).
`MapsBacked` is the heart: it is what makes the unlocked copy harmless for safety
against gaps, while saying nothing against duplicates.

`OrderInv` is kept by the steps between states of `SendsInTurn`: `LogsOrdered` (every
log lists each sender's messages so that a prefix has no gap), `PendingNewest` (a
message being pushed locally is newer than all of its sender's) and `PassedIsHeld`
(the part of a batch the loop has passed is in the room).  Each action has one
lemma; the refinement follows from the same lemmas, because the only step that
changes `Msgs` is `PushNext`, which publishes or learns one message.

`RoomSyncSingleProofs` proves `Spec /\ []PushesInTurn => []NoDuplicates`: as long as
no two goroutines are between the copy of a room's SyncState and its replacement, no
message is added twice, at any number of members that all send and receive.  It is
what a copy under the mutex would give, so the race of finding 1 is the only cause of
duplicates: the repeated batch after a lost `sync_ok`, several handlers and relays
are none.

Only model-checked: the liveness properties (`PendingIsDelivered`, `QueuesGoOn`),
which are outside the reach of TLAPS.

### BlobTransfer

*State.*  `name[n][b]` is the directory entry of a blob at a member, `file` the
contents of all files ever made, named or not: `RemoveBlob` unlinks a name while
a goroutine that has the file open goes on writing to it.  `from[c]` and `to[c]`
are the open files of `sendBlobs` and `readBlobs`, `count` and `pos` the block
counters, `todo` the rest of the list of IDs.  `room`, `lastSync` and `batch`
are the parts of the synchronisation that decide when a blob is offered; a
message is named by its blob, and rooms are sets, because `PrefixClosed` says
that they have no gaps.  `saved` is the data file.

*Actions.*  `SendFile` is the upload with its message.  The client does `Dial`,
`SendBatch`, then for each blob `Stat` (or `StatFails`), `Open` and the blocks
(or `ReadFails`), at last `SyncDone` or `SyncError`; the handler does `Offer`,
`RecvCount`, `Block`, `BlobOk`, and `RecvFails` or `WriteFails` with the cleanup
of `readBlobs`; the messages are pushed in either case (`Push`).  A block
exchange is one action of both ends: the client waits for `block_ok`.  `Crash`
goes back to `saved`; `Exit` is a signal: it saves and does not wait for
handlers.  Neither touches the blob directory.

| run | configuration | result |
|---|---|---|
| `blob_safe` | a→b→c, one slot each, 2 blobs of up to 1 block, 1 failure, 1 crash or exit | `TypeOK`, `WholeOrMissing`, `AckMeansWhole`, `ListedBlobNeverChanges` |
| `blob_fair` | two slots a→b, b→c, 2 failures, fairness | `MessagesGetThrough` |
| `blob_changes` | a→b and b→a, 2 blobs, no failure | `ListedBlobNeverChanges` is violated |

*Bounds.*  One block tells a partial blob (an empty file) from a whole one, and
an upload may also be empty; two blobs let a batch fail between its blobs; one
failure or one restart leaves what the next transfer meets.  In `blob_fair` the
second failure lets the cleanup of one transfer race the retry.  One member
behind the relay is enough to see what the relay hands on.

*Deadlock* is not checked: once everything has been delivered nothing is left to
do.  *Fairness* is weak fairness of every step of client and handler, as in
`RoomSync`; nobody has to upload, fail, crash or exit.

*Finding.*  `readBlobs` appends to whatever file the ID names.  A handler sends
its SyncState first; if its member uploads a file and syncs it to the dialling
peer before that peer chooses its batch, the peer sends the blob back, and the
author's own upload is doubled.  No failure is needed and the message itself is
dropped as known.  The same happens with a direct path and a relay into one
member.  `blob_safe` has one connection between two members and none back, where
neither happens; the theorems below say when in general.  A failing transfer of this
kind even removes the author's file, because the cleanup goes by name.

A crash or an exit in the middle of a transfer leaves a partial file, to which
the repeated transfer is appended.  `WholeOrMissing` and `AckMeansWhole` speak of
the time before (`stops = 0`); `ListedBlobNeverChanges` holds across restarts.

*What is proved.*  `BlobTransferProofs`: `TypeCorrect` needs no assumption but
`ConstantsAssumption`.  The other three properties of `blob_safe` are false in
general (the finding), so their theorems are about the behaviours in which transfers
keep apart, `Spec /\ []TransfersApart => ...`.  `TransfersApart` is a condition on the
states that are reached, not on the instance: when a batch is chosen, the offer names
all that both ends have by then, and no two handlers of a member that are busy have
been promised the same blob.  Members, connections in both directions, any number of
them between two members, blobs, authors, sizes, failures and stops are arbitrary: a
client may dial again while the old handler is still busy, as long as what that one
has been promised is not promised again.  In `blob_safe` the condition holds by
itself, as TLC confirms when `TransfersApart` is made an invariant; with two
connections a→b and one back, and the condition as a CONSTRAINT, TLC finds all
three properties to hold too.  Each half is needed: `blob_changes` breaks the first,
and two transfers of one blob to one member break the second, because the cleanup of
one removes what the other has brought.

* `ListedBlobsStay` rests on `RoomInv`: both ends are at matching steps
  (`StepsMatch`), what is chosen or listed was uploaded (`OnlyPublished`), what
  is being transferred is not in the receiver's room (`BatchIsNew`), and no two
  names share a file (`FilesAreNamed`).  A handler thus writes and removes only
  what its room does not list yet; an upload takes a new name.  It holds across
  crashes and exits, because a room falls back together with what it lists.
* `BlobsAreWholeOrMissing` and `AcknowledgedBlobsAreWhole` add `CopyInv` for
  the time before the first stop: a file is listed by its room or is one that a
  transfer has brought (`FilesAreListed`) and whole unless a handler is writing
  it (`FilesAreWhole`); so that handler has begun with an empty file and has
  written the first `pos` blocks (`WritesInOrder`) of a whole blob
  (`ReadsWhole`), and what the client has passed is there (`AckedExists`).

*What is left out.*  Bytes within a block; uploads that break off
(`writeIntoFile` takes an error for the end); the transfer of messages without
blobs.  A read of the list of IDs that fails ends the sync like a failure before
the first block.  `StreamTo` of a blob that is missing: `fileFromID` opens with
`O_CREATE`, so that a frontend that asks for it leaves an empty file of its name.

### Membership

*State.*  `room[n]` is what commands change: `peers` in the order of
`Room.Peers`, the admin flags and nicknames of the identities, the name.  `log`
is `Room.Messages` restricted to commands.  `newPeers` and `roster` are the
progress of an `AddPeers` call: the peers that handshakes have returned, and what
the loop of `syncPeerLists` has still to announce.  `header` holds the slice that
`append` has read at a member of `Racy`, where `AddPeers` may be overtaken (see
below); elsewhere the append is one step.  `asAdmin` in a message records,
for the properties, whether its sender was an admin in its own eyes.

*Actions.*  `Handshake` joins `createPeerViaContactID` and `contClientHandler`;
`HandshakeFails` loses the answer after the request was stored.  `AppendPeers`
and `AnnouncePeer` are the rest of `AddPeers`, `Accept` is `acceptRoomRequest`,
`SendCommand` an API call, `Deliver` a queue that brings the next missing
message.  Every message runs `HandleCommand` in the step that adds it, as in
`PushMessages`.

*The loop of `syncPeerLists`.*  It ranges over the slice that `r.Peers` was when the
loop began, but `removePeer` shifts the peers inside the same array, and an `append`
that finds room there writes behind them.  `shared` is the length of the loop's slice
as long as both have one array.  `Rewritten` gives what the loop finds from then on:
a peer that moves in front of it is skipped, and the last one comes twice.  `UpdateLoop`
chooses whether a command is executed before or after the loop has read its next
peer, and `MayMove` says when an `append` may give `r.Peers` another array.

*Open connections.*  `convClientHandler` looks for its peer once, when it has read the
room's ID; a batch that is on its way at a removal is still pushed as a whole.
`KeepOpen` notes, at a removal, the pairs of members between which such a batch may be
under way and how much of the room it brings, and `Deliver` may complete it.

| run | configuration | result |
|---|---|---|
| `members_invite` | 4 identities, 2 `AddPeers` each, 1 failing handshake | `TypeOK`, `PeersDistinct`, `PeerListsAgree` |
| `members_roles` | 3 identities, 2 commands of any kind, a racy creator | `CausalOrder`, `AdminsAreKnown`, `NicksAgree` |

*Bounds.*  Four identities are needed for two members that invite different
contacts at the same time and a creator that adds another; three for a relay
that is not the inviter.  Two commands are a promotion and what the promoted
member then does, a nickname that meets a removal, or two removals that cross.
Invited identities are symmetric; the creator is not.

*Fairness* is not needed: the properties are invariants, two of them about
states in which nothing is left to deliver (`Quiescent`).  Deadlock is not
checked for that reason.

*The race in `AddPeers`.*  It extends `r.Peers` without the mutex; an invite
command that is executed meanwhile is overwritten and, its message being in the
room already, never executed again.  `members_roles` includes the race
(`Racy = {a}`) and shows what holds in spite of it.  A racy member may lose a
peer for good, and with it that the peer is an admin; it then refuses the peer's
nicknames too, and still does not have them when it learns of the peer again.
So `AdminsAreKnown`, `PeerListsAgree` and `NicksAgree` speak of the other
members, who agree in spite of it.  TLC finds the lost peer with four members
and `Racy = {b}`; the missing nickname needs five, and was found when the proof
of a `NicksAgree` without the exception failed.

*What the properties leave open, because the code does.*  With `remove_peer`
peer lists need not agree: a removed peer is invited again by a member that had
its invitation under way.  So `PeerListsAgree` requires that nobody has seen a
removal, and `NicksAgree` that the member in question has seen none.  A member takes its inviter for an admin
(contact_handler.go:36), so `AdminsAreKnown` speaks of the creator's guests.
`Disputed` and `Refused` name the promotions and nicknames that reach somebody
before the invitation of the identity they are about: these are dropped there
for good.  A removal during `AddPeers` makes `syncPeerLists` announce the wrong
peers; no property says what the lists are then.

*What is proved.*  `MembershipProofs`, for any members, names, commands and
bounds, any `Racy` members, removals and failing handshakes included:

* `TypeCorrect`, with what the arguments of each command are (`ArgsFit`).
* `CausalOrderIsKept`.  The property is inductive with types alone, because
  `Deliver` brings the first message that the receiver lacks: what stands before
  it at the giver is at the receiver already, and by the property what stood
  before it at its sender is at the giver.
* `PeersAreDistinct`.  `ListsAreSafe` says for every place where a list is kept
  or under way (`peers`, `newPeers`, `header`, `roster`) that it has no
  duplicates and not its owner.  The hard case is `AppendPeers`: the identities
  that answered must not be in the list already, although invitations travel.
  `NewcomersAreCutOff` gives the reason: an identity that has answered `n`, and
  whoever it has invited since, form a set that nobody outside has heard of,
  because the only member it could tell is `n`, and `n` takes no message from an
  identity that is not in its list yet.
* `AdminsAreRecognised`.  `RolesAreSafe` follows the promotions through the
  logs: an admin in a member's own eyes was promoted by a message of its log
  (`AdminsArePromoted`), a message sent as an admin is behind the promotion it
  rests on (`PromotionsGoFirst`, from causal order), and a guest of the creator
  that is not racy has in its list and among its admins whoever its log has
  invited and promoted (`RolesAreFollowed`).

* `ListsAgree` and `NicknamesAgree`, from `AgreementInv`.  Neither property says
  anything before all calls are over, so what carries them has to speak of members
  half-way: who is known to whom, and from whom.

  The shape of a room is `MembersFormCircles`: everybody is in the *circle* of a
  head, either the creator or an identity that its inviter does not list, because
  `AddPeers` has not come so far or the answer of the handshake was lost.  The
  others are in the circle of their inviter.  Nobody has word of anybody in another
  circle, but of the inviter of the head; the inviter has no word of them.  So
  members that are connected are in one circle (`SameCircle`).  A handshake makes a
  circle, `AppendPeers` joins two, and everything else leaves them as they are.
  That the inviters lead up to the creator is `AllDescend`: a set that has the
  inviter of each of its elements has the creator.  Stated of sets, it is an
  invariant like any other and takes the place of an induction over the order of
  invitations.

  A list is then determined.  `NobodyForgets`: a member that has seen no removal
  has its inviter on its list and keeps its guests there, whatever overtakes
  `AddPeers`; it has nobody else but those that its log announces or that it is
  about to announce; and if it has guests, it has announced its own inviter to them
  or is about to.  At rest nothing is about to happen and the logs of connected
  members have the same messages.  What remains is the inviter and the member
  itself: `InviterAtRest` and `HeadAtRest` show that the others have heard of them.

  For nicknames, `ShowsLast` says that a member shows the last nickname in its
  log that was not refused, `NumbersRise` that a sender's messages stand in its
  order everywhere, so that the last one is the same for both (`SameLast`).

*What is left out.*  Messages that carry no command and `accept`, for which no
callback is registered; duplicates and lost sends, which `RoomSync` has; the
deletion of rooms; crashes; two `AddPeers` calls of one member at once.  The opposite outcome of the race, in which the
invite command overwrites the peer of `AddPeers`, is not a step of its own.

### Registry

*State.*  `contacts`, `rooms`, `requests` are the slices of `data`, `services` the
onion services Tor has, `running` the rooms whose queues run, `ctx` the contexts
they run under.  Identities are numbered as they are made; an object is an
identity and a copy: a request and its room are one object in memory, and two
after a restart has read them from the file.  `image` is what `saveData` has
marshalled, `header` the version of a slice that a goroutine is about to change.
The order matters in `rooms` only, where `GetRoom` takes the first of its ID.

*Actions.*  `Invited` and `PushRequest` are `contClientHandler`, then `Accept` and
the steps after it if requests are accepted automatically.  `Accept`, `Serve`,
`AppendRoom`, `RunQueues`, `DropRequest` are `acceptRoomRequest`; `CreateRoom`
joins `registerRoom` at `Serve`; `DeleteRoom`, `Unserve`, `StopQueues`,
`RemoveRoom` are `deregisterRoom`, and the contacts have the same three steps.
`ReadHeader` is the read of a slice at a goroutine of `Racy`: the write that
follows starts from this version, so entries get lost or come back.
`SaveRooms` is `json.Marshal` up to the field `rooms`, `Restart` the rest of it,
the end of the process and the next start.

| run | configuration | result |
|---|---|---|
| `registry` | a contact handler, a racy frontend that makes every call, and another frontend that deletes rooms, with and without auto-accept, 1 room ID, 3 identities, 1 failing call of Tor, 1 exit | `TypeOK`, `IdentitiesDistinct`, `ServicesMatch`, `QueuesMatch`, `PromisedIsKept` |

*Bounds.*  Three identities are a contact, and a request and a room or two requests
for one room; one room ID makes `GetRoom` choose between them; one failure leaves any
call half-way, and it can be made again; one exit meets every step.  Three goroutines
let one call overlap with two that follow each other or with two others: an accepted
request with two deletions, a deletion with an accept and a second deletion.

*What the properties except.*  The slices have no lock, and the properties name
what this can reach: `hit` are the entries that a stale write, or the exit
between the fields `rooms` and `requests`, drops or brings back, and the identity of
which a deletion finds that its entry is deleted already (`FoundNothing`): two calls
that overlap delete one room or contact, the first one finishes, a request of the same
identity is accepted, and the second one takes away the service that was just
registered.  `leaked` are
the rooms of `createRoom` whose queues run on when Tor has failed
(room.go:55, util.go:119).  `doubled` are requests that two calls accept at once:
if a third call deletes the room in between, the second one appends it again
with a cancelled context, and no queue ever runs.  Everything else is as it
should be when no call is under way, however calls overlap.  A room
that is in the file twice would make `initRooms` fail and `StartDaemon` panic at
every start; `IdentitiesDistinct` shows when that can be saved.

*What is proved.*  `RegistryProofs`, for any goroutines and any calls they may be
made for, `Racy` goroutines, failures of Tor and exits included:

* `TypeCorrect`, with what a goroutine has read (`HeaderTyped`) and what is being
  saved (`ImageTyped`).
* `PromisesAreKept`.  Two parts are added to `PromisedIsKept`: who is about to drop
  a request has its room in the list, or the user has refused it
  (`DropsWhatIsThere`); who removes a room was told to (`RemovesWhatWasGiven`).
  A stale write is accounted for by `hit`: whatever the two versions of the slice
  do not have in common is hit.

`RegistryServiceProofs`, likewise for any goroutines and any calls, with races,
failures and exits, from `ConstantsAssumption` alone:

* `ServicesAreListed` and `IdentitiesAreDistinct`.  The heart is a count
  (`ServicesCount`): an identity has as many entries, listed or in the hands of a
  goroutine that is about to append one, as it has services, there or just taken
  away.  That Tor refuses a second service makes the right side at most one,
  unless `deregisterRoom` is half-way; hence `IdentitiesDistinct`.  At rest
  nobody appends and nothing is half-way, hence `ServicesMatch`.  The count needs
  that entries are of their kind (`KindsMatch`) and that a contact in the making is
  known to nobody else (`ContactIsNew`).  A deletion that comes second is the only
  step that would take from one side alone; it puts the identity into `hit`.
* `QueuesAreListed`.  `QueueInv` follows a room: known to one goroutine that makes
  it (`NewIsAlone`), accepted by one that finds it neither listed nor cancelled
  (`AcceptsOnce`, which needs that a request whose room is there is about to be
  dropped, and `GoneStaysGone` for the drop that starts from an old slice), then
  listed once and running, or cancelled by a call that removes it
  (`ListedRuns`); a room that `createRoom` has abandoned comes into no list
  (`LeakedIsLost`).

TLC checked these invariants before they were proved.

*What is left out.*  The contents of rooms; `Restart` is only taken from an image
it can start with, as the panic ends the behaviour; crashes (see `Recovery`:
all of `data` is then what was saved last).

*Fairness* is not needed, and deadlock is not checked: all identities may have
been used.

### Recovery

*State.*  Per member the room (`messages`, `syncState`), the local variables of
the `PushMessages` that is running (`push`), the clock, the data file (`{}` while
it is truncated), and where `saveData` is (`save`, `image`).  `late`, `saved`,
`lost` are history.

*Actions.*  `SendMessage` and `Sync` begin a push, `PushNext` is the turn of its
loop that finds the next new message, `StoreSyncState` the assignment at the end:
a save, a crash or an exit may come between any two of them.
`BeginSave` truncates the file and marshals `Messages`, `FinishSave` marshals
`SyncState`, which comes later in the struct, and writes.  After it an exiting
daemon ends (`Exit`) whatever its handlers do; `Crash` ends it anywhere, also with
the truncated file.  `ExitEarly` is a signal before `loadFuse` is set.  `loadData`
takes a file that it cannot decode for an empty one, because
`LoadCompressedData` drops the errors: the member is `gone`.

| run | configuration | result |
|---|---|---|
| `recovery` | a↔b→c, a sends 2 messages, 2 saves, 2 stops | `TypeOK`, `ClaimsAreHeldOrLost`, `SavedIsKept`, `ExitKeeps`, `OwnMessageIsNew` |

*Bounds.*  The first save gives a stop something to fall back to, the second one
races with the pushes after it; a second stop meets what the first has left.
Two messages are one that is lost and one that is not.  b gives a its own
messages back, c shows what a relay makes of a gap.

*What it shows.*  A SyncState may claim a message that the room does not have:
after a crash of a sender, or at a receiver that saved `Messages` before and
`SyncState` after a push and then exited.  `ClaimsAreHeldOrLost` says that this is
confined to messages that some daemon had at the moment it stopped and its file
had not.  A member whose room has fallen back still accepts its own new
messages, because its clock has not (`OwnMessageIsNew`).  The other tear, a file
with a message that its SyncState does not know yet, makes the restarted room
take that message a second time and run its command again; it is a duplicate,
as in `RoomSync`, and no property here forbids it.

*What is left out.*  When queues dial: `Sync` may be taken at any time, while
after a fall-back the peers' `LastSyncState` says that there is nothing to send
until another message comes (`RoomSync`, finding 2).  Two goroutines that save at
once.

*What is proved.*  All five properties, from `ConstantsAssumption` alone
(`RecoveryProofs`): `TypeCorrect`, `SavedStays`, `ExitLosesNothing`,
`ClaimsAreHonest`, `OwnMessagesAreNew`.  Three invariants are added to
`TypeInv`, which knows besides `TypeOK` that a file being saved is empty:

* `SaveInv`: what was saved once is in the room (`SavedIsHeld`), so each later
  image has it too; what an image lacks of the room is `late` (`LateIsMissed`).
* `ClaimInv`, member by member: every SyncState, in the room, in a push or in a
  file, claims only what is in the room, in that file or lost (`MapsClaim`); in
  every log, batch and image the earlier messages of a sender come first, unless
  they are lost or in the room (`LogsHaveNoGaps`); a push has stored what it has
  passed (`PassedIsKnown`); whatever a member has ever sent is in its room, its
  push, its file or lost (`OwnIsSomewhere`).  The last part is why a member whose
  room fell back still makes no gap that is not accounted for: its next message
  is ahead of the lost ones.
* `ClockInv`: no copy of a time is ahead of the clock of its sender.

Known messages shrink only at a stop, and `Stop` moves what is not in the file to
`lost`: so all of `ClaimInv` survives it, which is the point of the proof.

### DataConn

*State.*  Per end its script and how far it is, `wbuf` and `rbuf` of bufio, the
bytes `wire` on their way to it, and the local variables of `ReadBytes`
(`frame`).  A byte is below `Base`, a length has two of them instead of four.

*Actions.*  A script is the sequence of `WriteBytes`, `Flush` and `ReadBytes`
calls of a function and of its calls on files, composed as the functions are: `syncMsgs` is
`fingerprintChallenge`, then the room's ID, and so on.  `convClientHandler` is a
set of scripts, one for each place where it may refuse.  A read names what
`expectResponse` expects, and what the code does after an error: return, go on,
or give up the blobs and answer.  A call on a file (`Local`, `UseFile`) may fail at
either end: `sendBlobs` returns, `readBlobs` stops and the handler says `sync_ok` on
a connection that is up.  `Fill` is the one `Read` of the connection
that bufio makes; it returns as many bytes as it likes.

| run | configuration | result |
|---|---|---|
| `frames` | the handshake, and syncs with no blob, with 0 and 2 blocks, with 3 and 1, with messages that fit into a frame and that do not; buffers of 8 bytes, frames of up to 20; a connection and files that may fail | `TypeOK`, `FramesArrive`, `SuccessIsMutual`, `DialoguesEnd` |

*Bounds.*  Frames are shorter than a buffer, fill it, cross its end and are too
large; payloads are below the threshold of compression, above it and
incompressible, and compressed.

*Fairness.*  Both goroutines run, and what has been flushed arrives or the
connection fails.

*What it shows.*  Frames arrive in order and whole; the dialling end never takes a
refusal or a failure for success, although the handler goes on after errors and
then says `sync_ok`: the dialling end is waiting for `block_ok` or `blob_ok` when it
comes.  A sync or handshake ends, because whatever somebody waits for has been
flushed or the other end closes, unless `WriteBytes` has refused the batch (`Refused`):
messaging_peer.go:122 drops that error, and both ends wait for ever.  The refusals (`auth_failed`, `malformed_uuid`,
`message_sig_invalid`) are written without a flush: `Close` drops them, or cuts
them off where they are larger than the buffer, so no peer ever reads why.
With `SplitHeaders = TRUE` `FramesArrive` is violated: data_conn.go:96 and 107
ignore how many bytes `Read` has returned, so a piece that ends inside the length
turns the rest of the stream into garbage.

*What is proved* (`DataConnProofs`, for any blobs, sizes of buffers and frames):
`TypeCorrect`, and under the assumption `SplitHeaders = FALSE` `FramesInOrder`, which
is `FramesArrive`, and `BothSucceed`, which is `SuccessIsMutual`.  With torn lengths
`FramesArrive` is false.

`TypeInv` is inductive.  It adds to `TypeOK` that a script consists of reads,
writes, flushes and calls on files with payloads of bytes, that one which gives up the blobs has
an answer to go on with, and that what has been read of a body is not longer than
the body.  That the dialogues are such scripts, for batches of any length, needs a
fact about `FlattenSeq`: its recursion has a solution, found by taking the least
length at which there would be none.

`StreamInv` is inductive with it.  For each end, the bytes in the reader's buffer,
on the wire and, while the connection is there, in the writer's buffer are the
frames `Due`: those of the payloads written and not yet read, one behind the other,
without the `Taken` bytes that `ReadBytes` has of the first (`Laid`).  If the
connection has ended, a tail of it may be missing.  `FrameHeld` says that the local
variables of `ReadBytes` are what that first frame says, `CutBehind` that the buffer
never ends inside a length: from both follows that the length, the flag and the
body are read for what they are, and that the payload that comes out is the one
that went in.  After an error that the handler ignores the stream has `Ended`, and
nothing comes from it.

`MutualInv` rests on both.  It has a parameter F, the last word of the dialogue
(`SyncOK`, `ContactResponse`), and says of the pair of scripts (`Dialogue`, proved for
the handshake and for syncs with any blobs and messages): the dialling end finishes by reading F and returns on
every error; the accepting end writes F only right before its last flush, behind as
many reads as the dialling end has writes (counted by `Passed`, the calls in front of a
place; for batches by the same argument of the least counterexample), and a read that
fails brings it there at most.  What remains is the case the code makes hard: an
accepting end whose read fails goes on all the same and says F.  `Lost` is that it has
read less often than it has come past reads; `Silent` that a call on a file has made
it pass over a write, so that the dialling end has a read left when F comes.  A read fails only if the connection is
broken or the dialling end gone (`Excused`); from then on something is missing behind
the bytes on their way to a dialling end that still reads (`Short`: appended to them, a
`y` makes up what is due), and if F has been written after a loss, `y` is not empty.
So a dialling end that has heard F (`Heard`), which is the last thing said (`Said`),
has nothing due, `y` is empty, nothing was lost, and the accepting end has read as
often as it has been written to; `FramesArrive` says that it has read the same.

`DialoguesEnd` is liveness and stays with TLC.

*What is left out.*  What is in a payload; dialling; signatures, which are a
choice of the handler's script.

## Only model-checked, not modelled

Every safety property of a passing run has a theorem, some of them for the
behaviours that the theorem names (`SendsInTurn`, `PushesInTurn`, `TransfersApart`)
or without torn lengths.  Liveness stays with TLC.
The cryptography of challenges and signatures is a Boolean.

Not modelled: the start of the Tor process and its control connection, the
parsing of the API and its reading routes, the prompt of the console, ports and
directories, which have no state that a room depends on; the observers, which
only read (2); two goroutines that call `exitDaemon` at once.
