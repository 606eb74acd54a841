------------------------------- MODULE Registry ------------------------------
(***************************************************************************)
(* What one daemon serves: data.ContactIdentities, data.Rooms and          *)
(* data.Requests, the onion services that make them reachable, the queues  *)
(* of the rooms, and what of it a clean exit carries over to the next      *)
(* start.                                                                  *)
(*                                                                         *)
(* Handlers and API calls are goroutines that change the three slices      *)
(* without a lock.  A step is a call of Tor or one access to a slice; at a *)
(* goroutine of Racy, append and the deletions read the slice in one step  *)
(* and store it in another.                                                *)
(*                                                                         *)
(* Every room and every contact has an identity of its own, which numbers  *)
(* it here.  <<i, k>> is a Room in memory: a request and the room that it  *)
(* becomes are the same object, until a restart reads both from the file.  *)
(***************************************************************************)
EXTENDS Integers, SequencesExt

CONSTANTS
  Thread,    \* the goroutines
  Ops,       \* what each of them may be called for
  Racy,      \* those that may be overtaken while they change a slice
  RoomID,    \* room IDs, as inviters choose them
  NoRoom,    \* of an identity that is a contact
  AutoAccept,\* the values that Config.AutoAccept may have
  MaxId,     \* bound on the identities that are made
  MaxFail,   \* bound on the calls of Tor that fail
  MaxExit    \* bound on the restarts

Op == {"invited", "accept", "refuse", "create", "delete", "add_contact", "rm_contact"}

ASSUME ConstantsAssumption ==
  /\ IsFiniteSet(Thread)
  /\ Ops \in [Thread -> SUBSET Op]
  /\ Racy \subseteq Thread
  /\ NoRoom \notin RoomID
  /\ AutoAccept \subseteq BOOLEAN
  /\ MaxId \in Nat /\ MaxFail \in Nat /\ MaxExit \in Nat

Id == 1..MaxId
Obj == Id \X {0, 1}
NoObj == <<0, 0>>
Twin(o) == <<o[1], 1 - o[2]>>
Ids(objs) == {o[1] : o \in objs}

VARIABLES
  contacts, rooms, requests,  \* the three slices of data
  roomID,    \* Room.ID, for each identity
  ctx,       \* Room.Ctx of each object
  running,   \* the objects whose queues run
  services,  \* the identities for which Tor has an onion service
  pc, obj,   \* where a goroutine is, and its room or contact
  header,    \* {} or the slice it is about to change
  auto,      \* autoAcceptRequests
  image,     \* {} or what saveData has marshalled so far
  last, fails, exits,
  (* history *)
  promised,  \* identities that contClientHandler has given to an inviter
  given,     \* identities that the user has deleted
  hit,       \* identities that a stale write or an exit has dropped or brought back,
             \* or whose entry a deletion has found deleted
  leaked,    \* rooms that createRoom has abandoned
  doubled    \* requests that two calls have accepted at once

dataVars == <<contacts, rooms, requests>>
roomVars == <<roomID, ctx, running>>
countVars == <<last, fails, exits>>
histVars == <<promised, given, hit, leaked, doubled>>
vars == <<dataVars, roomVars, services, pc, obj, header, auto, image, countVars, histVars>>

TypeOK ==
  /\ contacts \subseteq Obj /\ rooms \in Seq(Obj) /\ requests \subseteq Obj
  /\ roomID \in [Id -> RoomID \cup {NoRoom}]
  /\ ctx \in [Obj -> {"none", "live", "cancelled"}]
  /\ running \subseteq Obj
  /\ services \subseteq Id
  /\ pc \in [Thread -> {"idle", "push", "find", "serve", "append", "run", "drop",
                        "serve_new", "append_new", "unserve", "stop", "remove",
                        "serve_contact", "append_contact", "unserve_contact", "remove_contact"}]
  /\ obj \in [Thread -> Obj \cup {NoObj}]
  /\ \A t \in Thread : pc[t] # "idle" => obj[t] \in Obj
  /\ DOMAIN header = Thread
  /\ auto \in AutoAccept
  /\ last \in 0..MaxId /\ fails \in 0..MaxFail /\ exits \in 0..MaxExit
  /\ promised \subseteq Id /\ given \subseteq Id /\ hit \subseteq Id
  /\ leaked \subseteq Obj /\ doubled \subseteq Obj

Init ==
  /\ contacts = {} /\ rooms = <<>> /\ requests = {}
  /\ roomID = [i \in Id |-> NoRoom]
  /\ ctx = [o \in Obj |-> "none"]
  /\ running = {}
  /\ services = {}
  /\ pc = [t \in Thread |-> "idle"]
  /\ obj = [t \in Thread |-> NoObj]
  /\ header = [t \in Thread |-> {}]
  /\ auto \in AutoAccept
  /\ image = {}
  /\ last = 0 /\ fails = 0 /\ exits = 0
  /\ promised = {} /\ given = {} /\ hit = {} /\ leaked = {} /\ doubled = {}

------------------------------------------------------------------------------
(* A call begins, goes on, returns                                         *)

Begin(t, op, p, o) ==
  /\ pc[t] = "idle" /\ op \in Ops[t]
  /\ pc' = [pc EXCEPT ![t] = p]
  /\ obj' = [obj EXCEPT ![t] = o]

GoOn(t, p, q) ==
  /\ pc[t] = p
  /\ pc' = [pc EXCEPT ![t] = q]
  /\ obj' = [obj EXCEPT ![t] = IF q = "idle" THEN NoObj ELSE @]

(* NewIdentity: a key that nobody has had before.                          *)
NewIdentity(r) ==
  /\ last < MaxId
  /\ last' = last + 1
  /\ roomID' = [roomID EXCEPT ![last + 1] = r]
Fresh == <<last + 1, 0>>

(* The slice that a goroutine changes next.                                *)
Target(t) ==
  CASE pc[t] \in {"push", "drop"} -> requests
    [] pc[t] \in {"append", "append_new", "remove"} -> rooms
    [] pc[t] \in {"append_contact", "remove_contact"} -> contacts

ReadHeader(t) ==
  /\ t \in Racy /\ header[t] = {}
  /\ pc[t] \in {"push", "drop", "append", "append_new", "remove", "append_contact", "remove_contact"}
  /\ header' = [header EXCEPT ![t] = {Target(t)}]
  /\ UNCHANGED <<dataVars, roomVars, services, pc, obj, auto, image, countVars, histVars>>

Seen(t) == IF t \in Racy THEN header[t] ELSE {Target(t)}

(* Where two versions of a slice differ: what one of them has more often.  *)
SetDiff(old, now) == (old \ now) \cup (now \ old)
Occurrences(s, o) == Cardinality({j \in DOMAIN s : s[j] = o})
SeqDiff(old, now) ==
  {o \in ToSet(old) \cup ToSet(now) : Occurrences(old, o) # Occurrences(now, o)}

(* A write that starts from a stale version hits what differs, and what it *)
(* writes.                                                                 *)
Stored(t, stale, diff) ==
  /\ hit' = IF stale THEN hit \cup Ids(diff \cup {obj[t]}) ELSE hit
  /\ header' = [header EXCEPT ![t] = {}]

(* A deletion that comes second has taken a service away for nothing.      *)
FoundNothing(t) ==
  /\ hit' = hit \cup {obj[t][1]}
  /\ header' = [header EXCEPT ![t] = {}]

(* Mutation of RegisterService: that the service is there is no error.     *)
RegisterServiceAgain(t, p, q, failed) ==
  /\ services' = services \cup {obj[t][1]}
  /\ GoOn(t, p, q)
  /\ UNCHANGED <<fails, leaked>>

(* AddOnion fails when the service is there, or when Tor fails.            *)
RegisterService(t, p, q, failed) ==
  \/ /\ obj[t][1] \notin services
     /\ services' = services \cup {obj[t][1]}
     /\ GoOn(t, p, q)
     /\ UNCHANGED <<fails, leaked>>
  \/ /\ obj[t][1] \in services \/ fails < MaxFail
     /\ fails' = IF obj[t][1] \in services THEN fails ELSE fails + 1
     /\ GoOn(t, p, "idle")
     /\ leaked' = leaked \cup failed
     /\ UNCHANGED services

(* Mutation of DeregisterService: its error does not end the call.         *)
DeregisterServiceAnyway(t, p, q) ==
  /\ GoOn(t, p, q)
  /\ \/ services' = services \ {obj[t][1]} /\ UNCHANGED fails
     \/ fails < MaxFail /\ fails' = fails + 1 /\ UNCHANGED services

(* DeleteOnion fails when there is no such service, or when Tor fails.     *)
DeregisterService(t, p, q) ==
  \/ /\ obj[t][1] \in services
     /\ services' = services \ {obj[t][1]}
     /\ GoOn(t, p, q)
     /\ UNCHANGED fails
  \/ /\ obj[t][1] \notin services \/ fails < MaxFail
     /\ fails' = IF obj[t][1] \in services THEN fails + 1 ELSE fails
     /\ GoOn(t, p, "idle")
     /\ UNCHANGED services

------------------------------------------------------------------------------
(* contClientHandler                                                       *)

(* The contact is known and the answer, with a fresh identity, is written. *)
Invited(t, r) ==
  /\ contacts # {}
  /\ Begin(t, "invited", "push", Fresh)
  /\ NewIdentity(r)
  /\ promised' = promised \cup {last + 1}
  /\ UNCHANGED <<dataVars, ctx, running, services, header, auto, image, fails, exits,
                 given, hit, leaked, doubled>>

PushRequest(t) ==
  /\ GoOn(t, "push", IF auto THEN "find" ELSE "idle")
  /\ \E old \in Seen(t) :
       /\ requests' = old \cup {obj[t]}
       /\ Stored(t, old # requests, SetDiff(old, requests))
  /\ UNCHANGED <<contacts, rooms, roomVars, services, auto, image, countVars,
                 promised, given, leaked, doubled>>

------------------------------------------------------------------------------
(* acceptRoomRequest and deleteRoomRequest                                 *)

SetContext(o) == ctx' = [ctx EXCEPT ![o] = IF @ = "none" THEN "live" ELSE @]

Accepting(t) == pc[t] \in {"serve", "append", "run", "drop"}

(* Mutation of Accept: the request is dropped before the room is there.    *)
AcceptAndDrop(t, o) ==
  /\ o \in requests
  /\ \/ Begin(t, "accept", "serve", o)
     \/ obj[t] = o /\ GoOn(t, "find", "serve")
  /\ SetContext(o)
  /\ requests' = requests \ {o}
  /\ UNCHANGED <<contacts, rooms, roomID, running, services, header, auto, image, countVars,
                 histVars>>

(* SetContext fails for a second call; nobody looks at the error.          *)
Accept(t, o) ==
  /\ o \in requests
  /\ \/ Begin(t, "accept", "serve", o)
     \/ obj[t] = o /\ GoOn(t, "find", "serve")
  /\ SetContext(o)
  /\ doubled' = doubled \cup {obj[u] : u \in {v \in Thread : Accepting(v) /\ obj[v] = o}}
  /\ UNCHANGED <<dataVars, roomID, running, services, header, auto, image, countVars,
                 promised, given, hit, leaked>>

(* The request that the handler has just stored is gone.                   *)
NotFound(t) ==
  /\ obj[t] \notin requests
  /\ GoOn(t, "find", "idle")
  /\ UNCHANGED <<dataVars, roomVars, services, header, auto, image, countVars, histVars>>

(* registerRoom: the onion service, then data.Rooms.                       *)
Serve(t) ==
  /\ \/ RegisterService(t, "serve", "append", {})
     \/ RegisterService(t, "serve_new", "append_new", {obj[t]})
  /\ UNCHANGED <<dataVars, roomVars, header, auto, image, last, exits,
                 promised, given, hit, doubled>>

AppendRoom(t) ==
  /\ GoOn(t, "append", "run") \/ GoOn(t, "append_new", "idle")
  /\ \E old \in Seen(t) :
       /\ rooms' = Append(old, obj[t])
       /\ Stored(t, old # rooms, SeqDiff(old, rooms))
  /\ UNCHANGED <<contacts, requests, roomVars, services, auto, image, countVars,
                 promised, given, leaked, doubled>>

(* A queue whose context is cancelled ends at once.                        *)
RunQueues(t) ==
  /\ GoOn(t, "run", "drop")
  /\ running' = running \cup {o \in {obj[t]} : ctx[o] = "live"}
  /\ UNCHANGED <<dataVars, roomID, ctx, services, header, auto, image, countVars, histVars>>

DropRequest(t) ==
  /\ GoOn(t, "drop", "idle")
  /\ \E old \in Seen(t) :
       IF obj[t] \in old
       THEN requests' = old \ {obj[t]} /\ Stored(t, old # requests, SetDiff(old, requests))
       ELSE header' = [header EXCEPT ![t] = {}] /\ UNCHANGED <<requests, hit>>
  /\ UNCHANGED <<contacts, rooms, roomVars, services, auto, image, countVars,
                 promised, given, leaked, doubled>>

Refuse(t, o) ==
  /\ o \in requests
  /\ Begin(t, "refuse", "drop", o)
  /\ given' = given \cup {o[1]}
  /\ UNCHANGED <<dataVars, roomVars, services, header, auto, image, countVars,
                 promised, hit, leaked, doubled>>

------------------------------------------------------------------------------
(* createRoom and deleteRoom                                               *)

(* NewRoom has made its handshakes: the queues run before registerRoom.    *)
CreateRoom(t, r) ==
  /\ r \notin {roomID[i] : i \in Id}
  /\ Begin(t, "create", "serve_new", Fresh)
  /\ NewIdentity(r)
  /\ SetContext(Fresh)
  /\ running' = running \cup {Fresh}
  /\ UNCHANGED <<dataVars, services, header, auto, image, fails, exits, histVars>>

(* The first room with this ID, if any.                                    *)
GetRoom(r) ==
  {rooms[j] : j \in {i \in DOMAIN rooms : /\ roomID[rooms[i][1]] = r
                                          /\ \A k \in 1..(i - 1) : roomID[rooms[k][1]] # r}}

DeleteRoom(t, r) ==
  /\ \E o \in GetRoom(r) :
       /\ Begin(t, "delete", "unserve", o)
       /\ given' = given \cup {o[1]}
  /\ UNCHANGED <<dataVars, roomVars, services, header, auto, image, countVars,
                 promised, hit, leaked, doubled>>

Unserve(t) ==
  /\ \/ DeregisterService(t, "unserve", "stop")
     \/ DeregisterService(t, "unserve_contact", "remove_contact")
  /\ UNCHANGED <<dataVars, roomVars, header, auto, image, last, exits, histVars>>

(* Mutation of StopQueues: the context is left as it is.                   *)
StopQueuesNot(t) ==
  /\ GoOn(t, "stop", "remove")
  /\ UNCHANGED <<dataVars, roomVars, services, header, auto, image, countVars, histVars>>

StopQueues(t) ==
  /\ GoOn(t, "stop", "remove")
  /\ ctx' = [ctx EXCEPT ![obj[t]] = "cancelled"]
  /\ running' = running \ {obj[t]}
  /\ UNCHANGED <<dataVars, roomID, services, header, auto, image, countVars, histVars>>

(* Mutation of deleteFromSlice: the slice is not cut.                      *)
deleteLeavesNil(s, o) ==
  LET j == CHOOSE i \in DOMAIN s : s[i] = o /\ \A k \in 1..(i - 1) : s[k] # o
  IN  [s EXCEPT ![j] = NoObj]

(* The last element takes the place of the deleted one.                    *)
deleteFromSlice(s, o) ==
  LET j == CHOOSE i \in DOMAIN s : s[i] = o /\ \A k \in 1..(i - 1) : s[k] # o
  IN  Front([s EXCEPT ![j] = Last(s)])

RemoveRoom(t) ==
  /\ GoOn(t, "remove", "idle")
  /\ \E old \in Seen(t) :
       IF obj[t] \in ToSet(old)
       THEN rooms' = deleteFromSlice(old, obj[t]) /\ Stored(t, old # rooms, SeqDiff(old, rooms))
       ELSE FoundNothing(t) /\ UNCHANGED rooms
  /\ UNCHANGED <<contacts, requests, roomVars, services, auto, image, countVars,
                 promised, given, leaked, doubled>>

------------------------------------------------------------------------------
(* createContactID and DeleteContactID                                     *)

CreateContact(t) ==
  /\ Begin(t, "add_contact", "serve_contact", Fresh)
  /\ NewIdentity(NoRoom)
  /\ UNCHANGED <<dataVars, ctx, running, services, header, auto, image, fails, exits, histVars>>

ServeContact(t) ==
  /\ RegisterService(t, "serve_contact", "append_contact", {})
  /\ UNCHANGED <<dataVars, roomVars, header, auto, image, last, exits,
                 promised, given, hit, doubled>>

AppendContact(t) ==
  /\ GoOn(t, "append_contact", "idle")
  /\ \E old \in Seen(t) :
       /\ contacts' = old \cup {obj[t]}
       /\ Stored(t, old # contacts, SetDiff(old, contacts))
  /\ UNCHANGED <<rooms, requests, roomVars, services, auto, image, countVars,
                 promised, given, leaked, doubled>>

DeleteContact(t, o) ==
  /\ o \in contacts
  /\ Begin(t, "rm_contact", "unserve_contact", o)
  /\ UNCHANGED <<dataVars, roomVars, services, header, auto, image, countVars, histVars>>

RemoveContact(t) ==
  /\ GoOn(t, "remove_contact", "idle")
  /\ \E old \in Seen(t) :
       IF obj[t] \in old
       THEN contacts' = old \ {obj[t]} /\ Stored(t, old # contacts, SetDiff(old, contacts))
       ELSE FoundNothing(t) /\ UNCHANGED contacts
  /\ UNCHANGED <<rooms, requests, roomVars, services, auto, image, countVars,
                 promised, given, leaked, doubled>>

------------------------------------------------------------------------------
(* exitDaemon and the next start                                           *)

(* saveData marshals the fields of data in their order.                    *)
SaveRooms ==
  /\ image = {} /\ exits < MaxExit
  /\ image' = {[contacts |-> contacts, rooms |-> rooms]}
  /\ exits' = exits + 1
  /\ UNCHANGED <<dataVars, roomVars, services, pc, obj, header, auto, last, fails, histVars>>

Served(c, s) == Ids(c \cup ToSet(s))

(* It marshals the requests and the process ends.  The next one loads what *)
(* was written and serves it; a second room with an identity would make    *)
(* initRooms panic.                                                        *)
Restart ==
  /\ \E img \in image :
       /\ \A i, j \in DOMAIN img.rooms : img.rooms[i][1] = img.rooms[j][1] => i = j
       /\ contacts' = img.contacts
       /\ rooms' = img.rooms
       /\ requests' = {IF o \in ToSet(img.rooms) THEN Twin(o) ELSE o : o \in requests}
       /\ services' = Served(img.contacts, img.rooms)
       /\ running' = ToSet(img.rooms)
       /\ ctx' = [o \in Obj |-> IF o \in ToSet(img.rooms) THEN "live" ELSE "none"]
       /\ hit' = hit \cup (Ids(ToSet(rooms)) \ (Ids(requests) \cup Ids(ToSet(img.rooms))))
                     \cup {obj[t][1] : t \in {u \in Thread : pc[u] = "push"}}
  /\ pc' = [t \in Thread |-> "idle"]
  /\ obj' = [t \in Thread |-> NoObj]
  /\ header' = [t \in Thread |-> {}]
  /\ image' = {}
  /\ leaked' = {}
  /\ UNCHANGED <<roomID, auto, countVars, promised, given, doubled>>

------------------------------------------------------------------------------
ThreadNext(t) ==
  \/ \E r \in RoomID : Invited(t, r) \/ CreateRoom(t, r) \/ DeleteRoom(t, r)
  \/ \E o \in requests : Accept(t, o) \/ Refuse(t, o)
  \/ \E o \in contacts : DeleteContact(t, o)
  \/ ReadHeader(t) \/ PushRequest(t) \/ NotFound(t)
  \/ Serve(t) \/ AppendRoom(t) \/ RunQueues(t) \/ DropRequest(t)
  \/ Unserve(t) \/ StopQueues(t) \/ RemoveRoom(t)
  \/ CreateContact(t) \/ ServeContact(t) \/ AppendContact(t) \/ RemoveContact(t)

Next == (\E t \in Thread : ThreadNext(t)) \/ SaveRooms \/ Restart

Spec == Init /\ [][Next]_vars

------------------------------------------------------------------------------
(* What the runs establish                                                 *)

Quiescent == \A t \in Thread : pc[t] = "idle"
Listed == ToSet(rooms)

(* data.Rooms holds two rooms with one identity only while a deregisterRoom *)
(* has taken the service from one of them and has not removed it yet, or   *)
(* after what hit names: a stale write, or a deletion that came second.    *)
(* What else is saved, the next start does not panic in initRooms.         *)
IdentitiesDistinct ==
  \A i, j \in DOMAIN rooms :
    rooms[i][1] = rooms[j][1] /\ i # j /\ rooms[i][1] \notin hit =>
      \E t \in Thread : pc[t] \in {"stop", "remove"} /\ obj[t][1] = rooms[i][1]

(* When no call is under way, the onion services are those of the listed   *)
(* contacts and rooms, whatever calls have failed half-way or overlapped,  *)
(* several deletions of one room among them.  The exceptions are those of  *)
(* hit: entries that a stale write of a slice has hit, and the room whose  *)
(* service was taken by a deletion that found its own room deleted.        *)
ServicesMatch ==
  Quiescent => services \ hit = Served(contacts, rooms) \ hit

(* Likewise queues run for the listed rooms and for no others, but for     *)
(* what hit names and for the rooms that createRoom has left behind when   *)
(* Tor failed.  A request that two calls accept may come back as a room    *)
(* with a cancelled context.                                               *)
QueuesMatch ==
  Quiescent =>
    {o \in running \ (leaked \cup doubled) : o[1] \notin hit}
      = {o \in Listed \ doubled : o[1] \notin hit}

(* An identity that was promised to an inviter stays a request or a room,  *)
(* through accept calls that fail and through restarts, until the user     *)
(* deletes it; only stale writes and an exit at the wrong moment lose it.  *)
PromisedIsKept ==
  \A i \in promised \ (given \cup hit) :
    \/ i \in Ids(requests \cup Listed)
    \/ \E t \in Thread : pc[t] = "push" /\ obj[t][1] = i

==============================================================================
