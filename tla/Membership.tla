------------------------------ MODULE Membership -----------------------------
(***************************************************************************)
(* Who belongs to a room: AddPeers with its contact handshake and          *)
(* syncPeerLists, the room commands, and how they spread.                  *)
(*                                                                         *)
(* Every member keeps a list of peers and executes the commands in the     *)
(* order in which they reach it, its own included.  There is no other      *)
(* agreement on who is in the room or who is its admin.                    *)
(*                                                                         *)
(* Messages spread as RoomSync shows they do: a member gets from a peer,   *)
(* in the order of the peer's room, what it lacks.  Messages that change   *)
(* nothing here (texts, files, the accept command) are left out.           *)
(***************************************************************************)
EXTENDS Integers, SequencesExt, Functions

CONSTANTS
  Node,     \* conversation identities
  Creator,  \* the one that creates the room
  Name,     \* names for a room or a member
  Cmd,      \* the commands given through the API
  NoName,   \* the empty name
  Racy,     \* members whose AddPeers may be overtaken inside append
  MaxAdd,   \* bound on the AddPeers calls of a member
  MaxCmd,   \* bound on the commands
  MaxFail   \* bound on the failing handshakes

ASSUME ConstantsAssumption ==
  /\ Creator \in Node
  /\ NoName \notin Name
  /\ Cmd \subseteq {"promote", "remove_peer", "name_room", "nick"}
  /\ Racy \subseteq Node
  /\ MaxAdd \in Nat /\ MaxCmd \in Nat /\ MaxFail \in Nat

VARIABLES
  status,    \* what the daemon of an identity knows of the room
  inviter,   \* who asked it to join
  room,      \* its Room: peers, admin flags, name, nicknames
  log,       \* Room.Messages
  newPeers,  \* the local variable of AddPeers
  header,    \* {} or the slice that append is about to extend
  roster,    \* what the loop of syncPeerLists has still to send
  shared,    \* the length of its slice while r.Peers has the same array, or 0
  open,      \* how much of a room a batch brings that outlives a removal
  adds, cmds, fails

callVars == <<newPeers, header, roster, shared>>
countVars == <<adds, cmds, fails>>
vars == <<status, inviter, room, log, callVars, open, countVars>>

(* asAdmin, whether the sender was an admin in its own eyes, is history:   *)
(* the code neither sends it nor asks for it.                              *)
Message == [sender : Node, num : Nat \ {0}, asAdmin : BOOLEAN,
            cmd : Cmd \cup {"invite"}, arg : Node \cup Name]

Room == [peers : Seq(Node), admins : SUBSET Node,
         name : Name \cup {NoName}, nick : [Node -> Name \cup {NoName}]]

NewRoom(peers, admins) ==
  [peers |-> peers, admins |-> admins, name |-> NoName, nick |-> [n \in Node |-> NoName]]

TypeOK ==
  /\ status \in [Node -> {"out", "creating", "requested", "joined", "failed"}]
  /\ inviter \in [Node -> Node]
  /\ room \in [Node -> Room]
  /\ log \in [Node -> Seq(Message)]
  /\ newPeers \in [Node -> Seq(Node)]
  /\ header \in [Node -> SUBSET Seq(Node)]
  /\ \A n \in Node : \A s, t \in header[n] : s = t
  /\ roster \in [Node -> Seq(Node)] /\ shared \in [Node -> Nat]
  /\ open \subseteq Node \X Node \X Nat
  /\ adds \in [Node -> 0..MaxAdd]
  /\ cmds \in 0..MaxCmd
  /\ fails \in 0..MaxFail

Init ==
  /\ status = [n \in Node |-> IF n = Creator THEN "creating" ELSE "out"]
  /\ inviter = [n \in Node |-> n]
  /\ room = [n \in Node |-> NewRoom(<<>>, {n} \cap {Creator})]
  /\ log = [n \in Node |-> <<>>]
  /\ newPeers = [n \in Node |-> <<>>]
  /\ header = [n \in Node |-> {}]
  /\ roster = [n \in Node |-> <<>>]
  /\ shared = [n \in Node |-> 0]
  /\ open = {}
  /\ adds = [n \in Node |-> 0]
  /\ cmds = 0
  /\ fails = 0

------------------------------------------------------------------------------
(* The commands, as member n executes message m in its room r              *)

Peers(r) == Range(r.peers)
Known(n, r) == Peers(r) \cup {n}

(* getSender with shouldBeAdmin.                                           *)
IsAdmin(n, r, s) == s \in Known(n, r) /\ s \in r.admins

(* A peer object is made anew or dropped, with its IdentityMeta.           *)
ForgetMeta(r, p) == [r EXCEPT !.admins = @ \ {p}, !.nick = [@ EXCEPT ![p] = NoName]]

(* Mutation of Invite: the test for peers that are already there is gone.  *)
InviteAlways(n, r, m) == [ForgetMeta(r, m.arg) EXCEPT !.peers = Append(@, m.arg)]

(* Anybody may invite.                                                     *)
Invite(n, r, m) ==
  IF m.arg \in Known(n, r) THEN r
  ELSE [ForgetMeta(r, m.arg) EXCEPT !.peers = Append(@, m.arg)]

Promote(n, r, m) ==
  IF IsAdmin(n, r, m.sender) /\ m.arg \in Known(n, r)
  THEN [r EXCEPT !.admins = @ \cup {m.arg}]
  ELSE r

(* Nobody is its own peer: the removed member itself executes nothing.     *)
RemovePeer(n, r, m) ==
  IF IsAdmin(n, r, m.sender) /\ m.arg \in Peers(r)
  THEN [ForgetMeta(r, m.arg) EXCEPT !.peers = RemoveFirst(@, m.arg)]
  ELSE r

NameRoom(n, r, m) == [r EXCEPT !.name = m.arg]

Nick(n, r, m) ==
  IF m.sender \in Known(n, r) THEN [r EXCEPT !.nick[m.sender] = m.arg] ELSE r

(* A command that fails changes nothing; its message is kept all the same. *)
HandleCommand(n, r, m) ==
  CASE m.cmd = "invite"      -> Invite(n, r, m)
    [] m.cmd = "promote"     -> Promote(n, r, m)
    [] m.cmd = "remove_peer" -> RemovePeer(n, r, m)
    [] m.cmd = "name_room"   -> NameRoom(n, r, m)
    [] m.cmd = "nick"        -> Nick(n, r, m)

(* Both ends must know each other: the dialling one runs a queue for the   *)
(* peer, the serving one has the room and finds it in PeerByFingerprint.   *)
(* The queues of NewRoom run before the room is registered.                *)
Connected(m, n) ==
  /\ status[m] \in {"creating", "joined"} /\ status[n] = "joined"
  /\ m \in Peers(room[n]) /\ n \in Peers(room[m])

(* The places in the room of m of the messages that n lacks.               *)
Missing(m, n) == {i \in DOMAIN log[m] : log[m][i] \notin Range(log[n])}

(* The loop of syncPeerLists ranges over the array in which removePeer     *)
(* shifts the peers and append adds one, unless that has moved r.Peers:    *)
(* it finds what is written to the places that it has not read.            *)
Rewritten(n, rest, new, read) ==
  LET old == room[n].peers
  IN  [k \in DOMAIN rest |->
         LET i == shared[n] - Len(rest) + k
         IN  IF k > read /\ i \in DOMAIN new /\ (i \in DOMAIN old => old[i] # new[i])
             THEN new[i]
             ELSE rest[k]]

(* An append moves the peers if the array has no room left.                *)
MayMove(n, new) == Len(new) > Len(room[n].peers) /\ Len(new) > shared[n]

(* At a message of somebody else the loop may have read its next peer.     *)
UpdateLoop(n, rest, new) ==
  \/ /\ shared[n] = 0 \/ rest = <<>> \/ MayMove(n, new)
     /\ roster' = [roster EXCEPT ![n] = rest]
     /\ shared' = [shared EXCEPT ![n] = 0]
  \/ /\ shared[n] # 0 /\ rest # <<>>
     /\ \E read \in IF rest = roster[n] THEN {0, 1} ELSE {0} :
          roster' = [roster EXCEPT ![n] = Rewritten(n, rest, new, read)]
     /\ UNCHANGED shared

(* A handler looks for its peer once, and a queue that is stopped ends its *)
(* dialogue first: a batch that is on its way at a removal comes as a      *)
(* whole.                                                                  *)
KeepOpen(n, new) ==
  LET gone == Peers(room[n]) \ Range(new)
      cut  == {e \in {n} \X gone \cup gone \X {n} :
                 Connected(e[1], e[2]) /\ Missing(e[1], e[2]) # {}}
  IN  open' = open \cup {<<e[1], e[2], Len(log[e[1]])>> : e \in cut}

(* PushMessages for one message, while rest is left of the loop.           *)
PushMessage(n, m, rest) ==
  LET new == HandleCommand(n, room[n], m)
  IN  /\ log' = [log EXCEPT ![n] = Append(@, m)]
      /\ room' = [room EXCEPT ![n] = new]
      /\ UpdateLoop(n, rest, new.peers)
      /\ KeepOpen(n, new.peers)

(* Mutation of SendMessage: the first message has the number 0.            *)
SendMessageFrom0(n, cmd, arg, rest) ==
  PushMessage(n, [sender |-> n,
                  num |-> Len(log[n]),
                  asAdmin |-> n \in room[n].admins,
                  cmd |-> cmd, arg |-> arg], rest)

(* num stands for the time of a message, by which it is told from the      *)
(* others of its sender.                                                   *)
SendMessage(n, cmd, arg, rest) ==
  PushMessage(n, [sender |-> n,
                  num |-> Len(log[n]) + 1,
                  asAdmin |-> n \in room[n].admins,
                  cmd |-> cmd, arg |-> arg], rest)

------------------------------------------------------------------------------
(* AddPeers                                                                *)

(* Whether an AddPeers of n is past its handshakes.                        *)
Idle(n) == newPeers[n] = <<>> /\ roster[n] = <<>>

(* Whether n is about to call a contact: the next one of NewRoom, or the   *)
(* only one of a new AddPeers.  append follows when all have answered.     *)
MayCall(n) ==
  /\ status[n] = "creating" \/ (status[n] = "joined" /\ newPeers[n] = <<>>)
  /\ header[n] = {} /\ roster[n] = <<>>

(* createPeerViaContactID with contClientHandler at the other end: p makes *)
(* an identity for this room and takes the inviter for an admin.  NewRoom  *)
(* adds several contacts in one call, addPeerToRoom one.                   *)
Handshake(n, p) ==
  /\ MayCall(n)
  /\ adds[n] < MaxAdd
  /\ status[p] = "out"
  /\ status' = [status EXCEPT ![p] = "requested"]
  /\ inviter' = [inviter EXCEPT ![p] = n]
  /\ room' = [room EXCEPT ![p] = NewRoom(<<n>>, {n})]
  /\ newPeers' = [newPeers EXCEPT ![n] = Append(@, p)]
  /\ UNCHANGED <<log, header, roster, shared, open, countVars>>

(* The answer of p is lost: AddPeers returns the error, p keeps its        *)
(* request.  NewRoom drops the room.                                       *)
HandshakeFails(n, p) ==
  /\ MayCall(n)
  /\ fails < MaxFail
  /\ status[p] = "out"
  /\ fails' = fails + 1
  /\ status' = [status EXCEPT ![p] = "requested",
                              ![n] = IF @ = "creating" THEN "failed" ELSE @]
  /\ inviter' = [inviter EXCEPT ![p] = n]
  /\ room' = [room EXCEPT ![p] = NewRoom(<<n>>, {n})]
  /\ newPeers' = [newPeers EXCEPT ![n] = <<>>]
  /\ UNCHANGED <<log, header, roster, shared, open, adds, cmds>>

(* append reads and copies r.Peers, which no mutex protects here.          *)
ReadHeader(n) ==
  /\ n \in Racy
  /\ newPeers[n] # <<>> /\ header[n] = {}
  /\ header' = [header EXCEPT ![n] = {room[n].peers}]
  /\ UNCHANGED <<status, inviter, room, log, newPeers, roster, shared, open, countVars>>

(* Mutation of AppendPeers: only the new peers are announced.              *)
AppendNewPeers(n) ==
  /\ newPeers[n] # <<>>
  /\ room' = [room EXCEPT ![n].peers = @ \o newPeers[n]]
  /\ roster' = [roster EXCEPT ![n] = newPeers[n]]
  /\ shared' = [shared EXCEPT ![n] = 0]
  /\ newPeers' = [newPeers EXCEPT ![n] = <<>>]
  /\ header' = [header EXCEPT ![n] = {}]
  /\ adds' = [adds EXCEPT ![n] = @ + 1]
  /\ UNCHANGED <<status, inviter, log, open, cmds, fails>>

(* r.Peers = append(r.Peers, newPeers...); syncPeerLists ranges over it.   *)
AppendPeers(n) ==
  /\ newPeers[n] # <<>>
  /\ n \in Racy => header[n] # {}
  /\ \E s \in IF n \in Racy THEN header[n] ELSE {room[n].peers} :
       /\ room' = [room EXCEPT ![n].peers = s \o newPeers[n]]
       /\ roster' = [roster EXCEPT ![n] = s \o newPeers[n]]
       /\ shared' = [shared EXCEPT ![n] = Len(s \o newPeers[n])]
  /\ newPeers' = [newPeers EXCEPT ![n] = <<>>]
  /\ header' = [header EXCEPT ![n] = {}]
  /\ adds' = [adds EXCEPT ![n] = @ + 1]
  /\ UNCHANGED <<status, inviter, log, open, cmds, fails>>

(* One turn of the loop in syncPeerLists; registerRoom follows NewRoom.    *)
AnnouncePeer(n) ==
  /\ roster[n] # <<>>
  /\ SendMessage(n, "invite", Head(roster[n]), Tail(roster[n]))
  /\ status' = [status EXCEPT ![n] =
                  IF @ = "creating" /\ Len(roster[n]) = 1 THEN "joined" ELSE @]
  /\ UNCHANGED <<inviter, newPeers, header, countVars>>

(* acceptRoomRequest.                                                      *)
Accept(n) ==
  /\ status[n] = "requested"
  /\ status' = [status EXCEPT ![n] = "joined"]
  /\ UNCHANGED <<inviter, room, log, callVars, open, countVars>>

(* An API call sends a command about a member that RoomInfo shows, without *)
(* asking who is an admin.                                                 *)
SendCommand(n) ==
  /\ status[n] = "joined"
  /\ cmds < MaxCmd
  /\ cmds' = cmds + 1
  /\ \E cmd \in Cmd :
       \E arg \in IF cmd \in {"name_room", "nick"} THEN Name ELSE Known(n, room[n]) :
         SendMessage(n, cmd, arg, roster[n])
  /\ UNCHANGED <<status, inviter, newPeers, header, adds, fails>>

------------------------------------------------------------------------------
(* The synchronisation of messages                                         *)

(* Mutation of NextMissing: the newest message is sent first.              *)
NewestMissing(m, n) == log[m][Max(Missing(m, n))]

NextMissing(m, n) == log[m][Min(Missing(m, n))]

(* A queue of m brings n one message further, or the batch does that was   *)
(* on its way when one of them removed the other.                          *)
Deliver(m, n) ==
  /\ Missing(m, n) # {}
  /\ Connected(m, n) \/ \E b \in open : b[1] = m /\ b[2] = n /\ Min(Missing(m, n)) <= b[3]
  /\ PushMessage(n, NextMissing(m, n), roster[n])
  /\ UNCHANGED <<status, inviter, newPeers, header, countVars>>

Next ==
  \/ \E n, p \in Node : Handshake(n, p) \/ HandshakeFails(n, p)
  \/ \E n \in Node : \/ ReadHeader(n) \/ AppendPeers(n) \/ AnnouncePeer(n)
                     \/ Accept(n) \/ SendCommand(n)
  \/ \E m, n \in Node : Deliver(m, n)

Spec == Init /\ [][Next]_vars

------------------------------------------------------------------------------
(* What the runs and the proofs establish                                  *)

(* No member is listed twice or as its own peer: AddPeers does not look    *)
(* whether somebody else has invited the new peer in the meantime.         *)
PeersDistinct ==
  \A n \in Node : IsInjective(room[n].peers) /\ n \notin Peers(room[n])

(* A member executes a command only after everything that its sender had   *)
(* executed before, whichever way the messages came.                       *)
CausalOrder ==
  \A n \in Node : \A i \in DOMAIN log[n] :
    LET s == log[n][i].sender
    IN  \E j \in DOMAIN log[s] :
          /\ log[s][j] = log[n][i]
          /\ \A k \in 1..(j - 1) : \E l \in 1..(i - 1) : log[n][l] = log[s][k]

(* n has a promotion that was sent by somebody who was no admin in its own *)
(* eyes, or before the invitation: AddPeers makes a peer known to its own  *)
(* daemon before it sends the invitation.                                  *)
Disputed(n) ==
  \E i \in DOMAIN log[n] :
    /\ log[n][i].cmd = "promote"
    /\ \/ ~log[n][i].asAdmin
       \/ \A j \in 1..(i - 1) : ~(log[n][j].cmd = "invite" /\ log[n][j].arg = log[n][i].arg)

HasRemoval(n) == \E i \in DOMAIN log[n] : log[n][i].cmd = "remove_peer"

(* As long as it has seen no removal and no disputed promotion, a member   *)
(* that the creator has invited takes a sender for an admin that sends as  *)
(* one, through however many promotions it became one.  An overtaken       *)
(* AddPeers may lose the member's own peers, but does no harm to others.   *)
AdminsAreKnown ==
  \A n \in Node \ Racy :
    /\ n = Creator \/ (status[n] = "joined" /\ inviter[n] = Creator)
    /\ ~HasRemoval(n) /\ ~Disputed(n)
    => \A i \in DOMAIN log[n] : log[n][i].asAdmin => log[n][i].sender \in room[n].admins

(* No call is under way and connected members have the same messages.      *)
Quiescent ==
  /\ \A n \in Node : Idle(n)
  /\ \A m, n \in Node : Connected(m, n) => Missing(m, n) = {}

(* Once everything has been delivered, and as long as nobody has removed   *)
(* anybody, members that are connected have the same list of members.  A   *)
(* member whose AddPeers was overtaken may have lost somebody; it does not *)
(* keep the others from agreeing.                                          *)
PeerListsAgree ==
  Quiescent /\ (\A k \in Node : ~HasRemoval(k)) => \A m, n \in Node \ Racy :
    Connected(m, n) => Known(m, room[m]) = Known(n, room[n])

(* A nickname of s has come to n before n knew s, so that it was refused.  *)
Refused(n, s) ==
  /\ n # s /\ inviter[n] # s /\ inviter[s] # n
  /\ \E i \in DOMAIN log[n] :
       /\ log[n][i].cmd = "nick" /\ log[n][i].sender = s
       /\ \A j \in 1..(i - 1) : ~(log[n][j].cmd = "invite" /\ log[n][j].arg = s)

(* Once everything has been delivered, connected members show the same     *)
(* nickname for everybody that both know, unless one of them got it before *)
(* the invitation of its bearer and has refused it for good, or has seen a *)
(* removal.  A member whose AddPeers was overtaken may have lost a peer    *)
(* whose nickname it then refuses.                                         *)
NicksAgree ==
  Quiescent => \A m, n \in Node \ Racy :
    Connected(m, n) /\ ~HasRemoval(m) => \A s \in Known(m, room[m]) \cap Known(n, room[n]) :
      Refused(m, s) \/ Refused(n, s) \/ room[m].nick[s] = room[n].nick[s]

==============================================================================
