-------------------------- MODULE MembershipProofs --------------------------
(***************************************************************************)
(* Proofs about Membership, for any identities, names and bounds, with and *)
(* without removals and overtaken calls of AddPeers.                       *)
(*                                                                         *)
(* PeersDistinct: a contact that is being called is cut off, together with *)
(* all whom it has invited itself: nobody else has heard of any of them,   *)
(* so no invitation can bring the contact into the list that AddPeers is   *)
(* about to extend.                                                        *)
(*                                                                         *)
(* CausalOrder is inductive: a delivery takes the first message that is    *)
(* missing, so that everything before it has arrived.                      *)
(*                                                                         *)
(* AdminsAreKnown: whoever is an admin in its own eyes, the creator apart, *)
(* has executed its promotion before; by the order of deliveries everybody *)
(* who hears from it has the promotion, and by induction over the log has  *)
(* accepted it.                                                            *)
(*                                                                         *)
(* PeerListsAgree and NicksAgree: the members are in circles, each with a  *)
(* head, and hear of nobody in another circle but the inviter of the head. *)
(* Members that talk are therefore in one circle, and whom a member has    *)
(* invited is on its list before it hears of it from others.  So a list is *)
(* the inviter and those announced; at rest the guests of the inviters     *)
(* have announced the inviters too.  A member shows the last nickname that *)
(* it has got of each it knows, and the messages of a sender come to all   *)
(* in the same order.                                                      *)
(***************************************************************************)
EXTENDS Membership, SequenceTheorems, WellFoundedInduction, TLAPS

------------------------------------------------------------------------------
(* The inductive invariants                                                *)

(* A name goes with the commands that set one, a member with the others.   *)
Fits(m) == IF m.cmd \in {"name_room", "nick"} THEN m.arg \in Name ELSE m.arg \in Node

ArgsFit == \A n \in Node : \A i \in DOMAIN log[n] : Fits(log[n][i])

CallsAreCounted == \A n \in Node : newPeers[n] # <<>> => adds[n] < MaxAdd

Typed == TypeOK /\ ArgsFit /\ CallsAreCounted

(* As long as nobody was removed, the slice of the loop ends within the    *)
(* list, so that what is appended to the array lies behind it.             *)
LoopsFit ==
  \A n \in Node : /\ status[n] = "out" => shared[n] = 0 /\ newPeers[n] = <<>>
                  /\ ~HasRemoval(n) => shared[n] <= Len(room[n].peers)

BatchesFit ==
  \A b \in open : status[b[1]] \in {"creating", "joined", "failed"} /\ status[b[2]] = "joined"

TypeInv == Typed /\ LoopsFit /\ BatchesFit

(* n has heard of p, unless its own AddPeers is about to add p; the batch  *)
(* that outlives a removal is between members that have known each other.  *)
HasHeardOf(n, p) ==
  \/ p \in Peers(room[n]) \/ p \in Range(roster[n])
  \/ \E s \in header[n] : p \in Range(s)
  \/ \E i \in DOMAIN log[n] : log[n][i].cmd = "invite" /\ log[n][i].arg = p
  \/ \E b \in open : (b[1] = n /\ b[2] = p) \/ (b[1] = p /\ b[2] = n)

OutsidersAreUnheard ==
  \A p \in Node : status[p] = "out" =>
    \A n \in Node : ~HasHeardOf(n, p) /\ p \notin Range(newPeers[n])

(* C is cut off: nobody else knows any of C, but n that p is a new peer.   *)
CutOff(C, n, p) ==
  /\ p \in C /\ n \notin C
  /\ \A k \in C : status[k] # "out"
  /\ \A y \in Node \ C : \A k \in C :
       /\ ~HasHeardOf(y, k)
       /\ k \in Range(newPeers[y]) => y = n /\ k = p

(* Until AddPeers appends it a new peer, and whom it has invited in the    *)
(* meantime, is cut off.                                                   *)
NewcomersAreCutOff ==
  \A n \in Node : \A p \in Range(newPeers[n]) : \E C \in SUBSET Node : CutOff(C, n, p)

Listing(n) ==
  /\ IsInjective(newPeers[n])
  /\ newPeers[n] # <<>> => status[n] # "out"
  /\ \A s \in header[n] : IsInjective(s) /\ n \notin Range(s)

ListsAreSafe ==
  /\ \A n \in Node : Listing(n)
  /\ OutsidersAreUnheard
  /\ NewcomersAreCutOff
  /\ PeersDistinct

(* n has executed a promotion of s.                                        *)
Promoted(l, s) == \E i \in DOMAIN l : l[i].cmd = "promote" /\ l[i].arg = s

(* Whoever takes itself for an admin has created the room or was promoted. *)
AdminsArePromoted ==
  \A s \in Node : s \in room[s].admins => s = Creator \/ Promoted(log[s], s)

(* Who has heard an admin has heard its promotion before.                  *)
PromotionsGoFirst ==
  \A n \in Node : \A i \in DOMAIN log[n] : log[n][i].asAdmin =>
    \/ log[n][i].sender = Creator
    \/ \E j \in 1..(i - 1) : log[n][j].cmd = "promote" /\ log[n][j].arg = log[n][i].sender

(* What AdminsAreKnown needs to be kept: such a member knows everybody who *)
(* was invited and takes everybody for an admin who was promoted.          *)
FollowsCreator(n) ==
  /\ n = Creator \/ (status[n] # "out" /\ inviter[n] = Creator)
  /\ ~HasRemoval(n) /\ ~Disputed(n)

RolesAreFollowed ==
  \A n \in Node \ Racy : FollowsCreator(n) =>
    /\ Creator \in room[n].admins
    /\ room[n].admins \subseteq Known(n, room[n])
    /\ \A i \in DOMAIN log[n] :
         /\ log[n][i].cmd = "invite" => log[n][i].arg \in Known(n, room[n])
         /\ log[n][i].cmd = "promote" => log[n][i].arg \in room[n].admins
         /\ log[n][i].asAdmin => log[n][i].sender \in room[n].admins

OutsidersHaveNothing ==
  \A n \in Node : status[n] = "out" =>
     log[n] = <<>> /\ roster[n] = <<>> /\ header[n] = {} /\ newPeers[n] = <<>>

RolesAreSafe ==
  /\ AdminsArePromoted /\ PromotionsGoFirst /\ RolesAreFollowed
  /\ OutsidersHaveNothing
  /\ status[Creator] # "out"

(* n has heard of p or has a message of p.                                 *)
HasWordOf(n, p) == HasHeardOf(n, p) \/ \E i \in DOMAIN log[n] : log[n][i].sender = p

InvitersAreIn ==
  /\ inviter[Creator] = Creator
  /\ \A p \in Node : status[p] # "out" => status[inviter[p]] \in {"creating", "joined", "failed"}

(* From inviter to inviter one comes to the creator: only with the creator *)
(* in it is a set closed under inviter.                                    *)
AllDescend ==
  \A T \in SUBSET Node :
    T # {} /\ (\A p \in T : status[p] # "out" /\ inviter[p] \in T) => Creator \in T

(* The inviter of p has p on its list, unless it has seen a removal.        *)
Kept(p) == HasRemoval(inviter[p]) \/ p \in Peers(room[inviter[p]])

(* h gives the head of everybody's circle: the creator, and whoever its    *)
(* inviter does not list.  The others are in the circle of their inviter.  *)
(* Nobody has word of anybody outside, the inviter of the head apart.      *)
Circles(h) ==
  /\ h[Creator] = Creator
  /\ \A p \in Node : /\ h[p] # p => h[p] = h[inviter[p]] /\ Kept(p)
                     /\ status[p] = "out" => h[p] = p
                     /\ status[p] # "out" => status[h[p]] # "out"
  /\ \A n, p \in Node : HasWordOf(n, p) => h[p] = h[n] \/ p = inviter[h[n]]
  /\ \A n \in Node : \A p \in Range(newPeers[n]) : inviter[p] = n /\ h[p] = p /\ status[p] # "out"

MembersFormCircles == \E h \in [Node -> Node] : Circles(h)

(* Everybody whose invitation n has got.                                   *)
Announced(n) == {m.arg : m \in {k \in Range(log[n]) : k.cmd = "invite"}}

(* n knows its inviter, whom it has invited and who was announced, and     *)
(* nobody else; an AddPeers, overtaken or not, loses none of the former.   *)
Keeps(n) ==
  /\ inviter[n] \in Known(n, room[n])
  /\ Peers(room[n]) \subseteq {inviter[n]} \cup Announced(n) \cup Range(roster[n])
  /\ \A s \in header[n] : inviter[n] \in Range(s) \cup {n}
  /\ \A p \in Peers(room[n]) : inviter[p] = n =>
       /\ n = Creator \/ inviter[n] \in Announced(n) \cup Range(roster[n])
       /\ \A s \in header[n] : p \in Range(s)

NobodyForgets == \A n \in Node : ~HasRemoval(n) => Keeps(n)

LinesAreSafe == InvitersAreIn /\ AllDescend /\ MembersFormCircles

(* The messages of a member are numbered by their places in its own room,  *)
(* and have come to everybody else in this order.                          *)
NumbersRise ==
  \A n \in Node : \A i \in DOMAIN log[n] :
    /\ log[n][i].sender = n => log[n][i].num = i
    /\ \A j \in 1..(i - 1) :
         log[n][j].sender = log[n][i].sender => log[n][j].num < log[n][i].num

(* A room in the making is empty until its peers are being announced.      *)
RoomsInTheMaking ==
  \A n \in Node :
    /\ status[n] = "creating" /\ roster[n] = <<>> => room[n].peers = <<>>
    /\ status[n] = "failed" => room[n].peers = <<>> /\ roster[n] = <<>> /\ newPeers[n] = <<>>

(* The message at the place i in the room of n sets the nickname of s.     *)
NickOf(n, i, s) == log[n][i].cmd = "nick" /\ log[n][i].sender = s

(* The nickname of s at n is the last one that n has got from it.          *)
ShowsLast(n, s) ==
  \/ room[n].nick[s] = NoName /\ \A i \in DOMAIN log[n] : ~NickOf(n, i, s)
  \/ \E i \in DOMAIN log[n] : /\ NickOf(n, i, s) /\ room[n].nick[s] = log[n][i].arg
                              /\ \A j \in DOMAIN log[n] : NickOf(n, j, s) => j <= i

(* n knows whoever was invited, and shows of those it knows the nicknames  *)
(* that it has not refused.                                                *)
Follows(n) ==
  /\ \A i \in DOMAIN log[n] : log[n][i].cmd = "invite" => log[n][i].arg \in Known(n, room[n])
  /\ \A s \in Node \ Known(n, room[n]) : room[n].nick[s] = NoName
  /\ \A s \in Known(n, room[n]) : Refused(n, s) \/ ShowsLast(n, s)

NicksAreFollowed == \A n \in Node \ Racy : ~HasRemoval(n) => Follows(n)

------------------------------------------------------------------------------
(* Sequences                                                               *)

(* A nonempty set of places has a first one, which Min finds.              *)
LEMMA MinIsFirst ==
  ASSUME NEW S, S \subseteq Nat, S # {}
  PROVE  Min(S) \in S /\ \A i \in S : Min(S) <= i
<1> DEFINE R == OpToRel(<, Nat)
<1>0. \A i, j \in Nat : i < j => <<i, j>> \in R
  BY DEF OpToRel
<1>1. PICK k \in S : \A y \in S : ~(<<y, k>> \in R)
  <2>1. IsWellFoundedOn(R, Nat)
    BY NatLessThanWellFounded
  <2> HIDE DEF R
  <2> QED
    BY <2>1, WFMin
<1> HIDE DEF R
<1>2. ASSUME NEW y \in S PROVE k <= y
  <2>1. y \in Nat /\ k \in Nat
    OBVIOUS
  <2>2. ~(y < k)
    BY <1>0, <1>1, <2>1, Zenon
  <2> QED
    BY <2>1, <2>2
<1> QED
  BY <1>2 DEF Min

LEMMA RangeOfAppend ==
  ASSUME NEW S, NEW s \in Seq(S), NEW e
  PROVE  Range(Append(s, e)) = Range(s) \cup {e}
<1> DEFINE u == Append(s, e)
<1>1. /\ DOMAIN u = 1..(Len(s) + 1) /\ u[Len(s) + 1] = e
      /\ \A i \in 1..Len(s) : u[i] = s[i]
  OBVIOUS
<1> HIDE DEF u
<1>2. Range(u) = {u[i] : i \in 1..Len(s)} \cup {u[Len(s) + 1]}
  BY <1>1 DEF Range
<1>3. Range(s) = {u[i] : i \in 1..Len(s)}
  BY <1>1 DEF Range
<1> QED
  BY <1>1, <1>2, <1>3 DEF u

LEMMA RangeOfConcat ==
  ASSUME NEW S, NEW s \in Seq(S), NEW t \in Seq(S)
  PROVE  /\ s \o t \in Seq(S)
         /\ Range(s \o t) = Range(s) \cup Range(t)
         /\ IsInjective(s) /\ IsInjective(t) /\ Range(s) \cap Range(t) = {}
              => IsInjective(s \o t)
<1>1. /\ s \o t \in Seq(S)
      /\ Len(s \o t) = Len(s) + Len(t)
      /\ \A i \in 1..(Len(s) + Len(t)) :
           (s \o t)[i] = IF i <= Len(s) THEN s[i] ELSE t[i - Len(s)]
  BY ConcatProperties
<1> DEFINE u == s \o t
<1>2. /\ u \in Seq(S) /\ DOMAIN u = 1..(Len(s) + Len(t))
      /\ \A i \in 1..Len(s) : u[i] = s[i]
      /\ \A i \in 1..Len(t) : u[Len(s) + i] = t[i]
      /\ \A i \in (Len(s) + 1)..(Len(s) + Len(t)) : i - Len(s) \in 1..Len(t) /\ u[i] = t[i - Len(s)]
  BY <1>1
<1> HIDE DEF u
<1>3. Range(u) = Range(s) \cup Range(t)
  <2>1. ASSUME NEW i \in DOMAIN u PROVE u[i] \in Range(s) \cup Range(t)
    <3>1. CASE i \in 1..Len(s)
      BY <1>2, <3>1 DEF Range
    <3>2. CASE i \in (Len(s) + 1)..(Len(s) + Len(t))
      <4>1. i - Len(s) \in DOMAIN t /\ u[i] = t[i - Len(s)]
        BY <1>2, <3>2
      <4> QED
        BY <4>1 DEF Range
    <3> QED
      BY <1>2, <3>1, <3>2
  <2>2. ASSUME NEW i \in 1..Len(s) PROVE s[i] \in Range(u)
    <3>1. i \in DOMAIN u /\ u[i] = s[i]
      BY <1>2
    <3> QED
      BY <3>1 DEF Range
  <2>3. ASSUME NEW i \in 1..Len(t) PROVE t[i] \in Range(u)
    <3>1. Len(s) + i \in DOMAIN u /\ u[Len(s) + i] = t[i]
      BY <1>2
    <3> QED
      BY <3>1 DEF Range
  <2> QED
    BY <2>1, <2>2, <2>3 DEF Range
<1>4. ASSUME IsInjective(s), IsInjective(t), Range(s) \cap Range(t) = {}
      PROVE  IsInjective(u)
  <2> SUFFICES ASSUME NEW i \in DOMAIN u, NEW j \in DOMAIN u, u[i] = u[j]
               PROVE  i = j
    BY DEF IsInjective
  <2> DEFINE A == 1..Len(s)
             B == (Len(s) + 1)..(Len(s) + Len(t))
  <2>1. CASE i \in A /\ j \in A
    BY <1>2, <1>4, <2>1 DEF IsInjective
  <2>2. CASE i \in B /\ j \in B
    <3>1. i - Len(s) = j - Len(s)
      <4>1. /\ i - Len(s) \in DOMAIN t /\ u[i] = t[i - Len(s)]
            /\ j - Len(s) \in DOMAIN t /\ u[j] = t[j - Len(s)]
        BY <1>2, <2>2
      <4> QED
        BY <4>1, <1>4 DEF IsInjective
    <3> QED
      BY <3>1, <2>2
  <2>3. ASSUME NEW k \in A, NEW l \in B PROVE u[k] # u[l]
    <3>1. /\ k \in DOMAIN s /\ u[k] = s[k]
          /\ l - Len(s) \in DOMAIN t /\ u[l] = t[l - Len(s)]
      BY <1>2
    <3>2. u[k] \in Range(s) /\ u[l] \in Range(t)
      BY <3>1 DEF Range
    <3> QED
      BY <3>2, <1>4
  <2> QED
    BY <1>2, <2>1, <2>2, <2>3
<1> QED
  BY <1>2, <1>3, <1>4 DEF u

(* What RemoveFirst does to the list of peers.                             *)
LEMMA WithoutFirst ==
  ASSUME NEW S, NEW s \in Seq(S), NEW e
  PROVE  /\ RemoveFirst(s, e) \in Seq(S)
         /\ Range(RemoveFirst(s, e)) \subseteq Range(s)
         /\ Range(s) \ {e} \subseteq Range(RemoveFirst(s, e))
         /\ IsInjective(s) => IsInjective(RemoveFirst(s, e))
<1>1. CASE ~\E i \in 1..Len(s) : s[i] = e
  BY <1>1 DEF RemoveFirst
<1>2. CASE \E i \in 1..Len(s) : s[i] = e
  <2> DEFINE I == {i \in 1..Len(s) : s[i] = e}
             k == Min(I)
  <2>1. I \subseteq Nat /\ I # {}
    BY <1>2
  <2>2. k \in 1..Len(s) /\ s[k] = e
    BY <2>1, MinIsFirst
  <2>3. RemoveFirst(s, e) = SubSeq(s, 1, k - 1) \o SubSeq(s, k + 1, Len(s))
    BY <1>2, <2>1 DEF RemoveFirst, RemoveAt, SelectInSeq
  <2> HIDE DEF k
  <2> DEFINE a == SubSeq(s, 1, k - 1)
             b == SubSeq(s, k + 1, Len(s))
  <2>4. /\ a \in Seq(S) /\ Len(a) = k - 1
        /\ \A i \in 1..(k - 1) : a[i] = s[i]
    <3>1. \A i \in 1..(k - 1) : s[i] \in S
      BY <2>2
    <3> QED
      BY <3>1, <2>2, SubSeqProperties
  <2>5. /\ b \in Seq(S) /\ Len(b) = Len(s) - k
        /\ \A i \in 1..(Len(s) - k) : b[i] = s[k + i]
    <3>1. \A i \in (k + 1)..Len(s) : s[i] \in S
      BY <2>2
    <3>2. /\ b \in Seq(S)
          /\ Len(b) = IF k + 1 <= Len(s) THEN Len(s) - (k + 1) + 1 ELSE 0
          /\ \A i \in 1..(Len(s) - (k + 1) + 1) : b[i] = s[k + 1 + i - 1]
      BY <3>1, <2>2, SubSeqProperties
    <3> QED
      BY <3>2, <2>2
  <2> HIDE DEF a, b
  <2>6. /\ DOMAIN a = 1..(k - 1) /\ DOMAIN b = 1..(Len(s) - k) /\ DOMAIN s = 1..Len(s)
    BY <2>4, <2>5
  <2>7. Range(a) \subseteq Range(s) /\ Range(b) \subseteq Range(s)
    <3>1. ASSUME NEW i \in 1..(k - 1) PROVE a[i] \in Range(s)
      BY <2>2, <2>4 DEF Range
    <3>2. ASSUME NEW i \in 1..(Len(s) - k) PROVE b[i] \in Range(s)
      <4>1. k + i \in 1..Len(s) /\ b[i] = s[k + i]
        BY <2>2, <2>5
      <4> QED
        BY <4>1 DEF Range
    <3> QED
      BY <2>6, <3>1, <3>2 DEF Range
  <2>8. Range(s) \ {e} \subseteq Range(a) \cup Range(b)
    <3> SUFFICES ASSUME NEW i \in 1..Len(s), s[i] # e
                 PROVE  s[i] \in Range(a) \cup Range(b)
      BY DEF Range
    <3>1. CASE i < k
      BY <3>1, <2>2, <2>4, <2>6 DEF Range
    <3>2. CASE i > k
      <4>1. i - k \in 1..(Len(s) - k) /\ b[i - k] = s[i]
        BY <3>2, <2>2, <2>5
      <4> QED
        BY <4>1, <2>6 DEF Range
    <3> QED
      BY <3>1, <3>2, <2>2
  <2>9. IsInjective(s) => IsInjective(a) /\ IsInjective(b) /\ Range(a) \cap Range(b) = {}
    <3> SUFFICES ASSUME IsInjective(s)
                 PROVE  IsInjective(a) /\ IsInjective(b) /\ Range(a) \cap Range(b) = {}
      OBVIOUS
    <3>1. \A i, j \in 1..Len(s) : s[i] = s[j] => i = j
      BY DEF IsInjective
    <3>2. IsInjective(a)
      BY <2>2, <2>4, <2>6, <3>1 DEF IsInjective
    <3>3. IsInjective(b)
      <4> SUFFICES ASSUME NEW i \in 1..(Len(s) - k), NEW j \in 1..(Len(s) - k), b[i] = b[j]
                   PROVE  i = j
        BY <2>6 DEF IsInjective
      <4>1. k + i \in 1..Len(s) /\ k + j \in 1..Len(s) /\ s[k + i] = s[k + j]
        BY <2>2, <2>5
      <4>2. k + i = k + j
        BY <4>1, <3>1
      <4> QED
        BY <4>2, <2>2
    <3>4. ASSUME NEW i \in 1..(k - 1), NEW j \in 1..(Len(s) - k) PROVE a[i] # b[j]
      <4>1. i \in 1..Len(s) /\ k + j \in 1..Len(s) /\ i # k + j
        BY <2>2
      <4>2. s[i] # s[k + j]
        BY <4>1, <3>1
      <4> QED
        BY <4>2, <2>4, <2>5
    <3> QED
      BY <2>6, <3>2, <3>3, <3>4 DEF Range
  <2>10. RemoveFirst(s, e) = a \o b
    BY <2>3 DEF a, b
  <2>11. /\ a \o b \in Seq(S)
         /\ Range(a \o b) = Range(a) \cup Range(b)
         /\ IsInjective(a) /\ IsInjective(b) /\ Range(a) \cap Range(b) = {} => IsInjective(a \o b)
    BY <2>4, <2>5, RangeOfConcat
  <2> QED
    BY <2>7, <2>8, <2>9, <2>10, <2>11
<1> QED
  BY <1>1, <1>2

------------------------------------------------------------------------------
(* Commands                                                                *)

LEMMA ForgottenMeta ==
  ASSUME NEW r \in Room, NEW p \in Node
  PROVE  /\ ForgetMeta(r, p) \in Room
         /\ ForgetMeta(r, p).peers = r.peers
         /\ ForgetMeta(r, p).admins = r.admins \ {p}
         /\ ForgetMeta(r, p).nick = [r.nick EXCEPT ![p] = NoName]
<1>1. /\ r.peers \in Seq(Node) /\ r.admins \in SUBSET Node /\ r.name \in Name \cup {NoName}
      /\ r.nick \in [Node -> Name \cup {NoName}]
      /\ r = [peers |-> r.peers, admins |-> r.admins, name |-> r.name, nick |-> r.nick]
  BY DEF Room
<1> DEFINE A == r.admins \ {p}
           k == [r.nick EXCEPT ![p] = NoName]
<1>2. A \in SUBSET Node /\ k \in [Node -> Name \cup {NoName}]
  BY <1>1
<1>3. ForgetMeta(r, p) = [r EXCEPT !.admins = A, !.nick = k]
  BY DEF ForgetMeta
<1> HIDE DEF k
<1>4. /\ [r EXCEPT !.admins = A, !.nick = k] \in Room
      /\ [r EXCEPT !.admins = A, !.nick = k].peers = r.peers
      /\ [r EXCEPT !.admins = A, !.nick = k].admins = A
      /\ [r EXCEPT !.admins = A, !.nick = k].nick = k
  BY <1>2 DEF Room
<1> QED
  BY <1>3, <1>4 DEF k

(* What a command leaves of the room in which it is executed.              *)
LEMMA CommandEffect ==
  ASSUME NEW n \in Node, NEW r \in Room, NEW m \in Message, Fits(m)
  PROVE  /\ HandleCommand(n, r, m) \in Room
         /\ \/ HandleCommand(n, r, m).peers = r.peers
            \/ m.cmd = "invite" /\ m.arg \notin Known(n, r)
                 /\ HandleCommand(n, r, m).peers = Append(r.peers, m.arg)
            \/ m.cmd = "remove_peer" /\ HandleCommand(n, r, m).peers = RemoveFirst(r.peers, m.arg)
         /\ \/ HandleCommand(n, r, m).admins = r.admins
            \/ m.cmd = "promote" /\ m.arg \in Known(n, r)
                 /\ HandleCommand(n, r, m).admins = r.admins \cup {m.arg}
            \/ m.cmd = "invite" /\ m.arg \notin Known(n, r)
                 /\ HandleCommand(n, r, m).admins = r.admins \ {m.arg}
            \/ m.cmd = "remove_peer" /\ m.arg \in Peers(r)
                 /\ HandleCommand(n, r, m).admins = r.admins \ {m.arg}
<1> DEFINE h == HandleCommand(n, r, m)
<1>1. m.cmd \in {"invite", "promote", "remove_peer", "name_room", "nick"}
  BY ConstantsAssumption DEF Message
<1>2. /\ r.peers \in Seq(Node) /\ r.admins \in SUBSET Node /\ r.name \in Name \cup {NoName}
      /\ r.nick \in [Node -> Name \cup {NoName}]
      /\ r = [peers |-> r.peers, admins |-> r.admins, name |-> r.name, nick |-> r.nick]
  BY DEF Room
<1>3. CASE m.cmd = "invite"
  <2>1. m.arg \in Node
    BY <1>3 DEF Fits
  <2>2. h = Invite(n, r, m)
    BY <1>3 DEF HandleCommand
  <2>3. CASE m.arg \in Known(n, r)
    BY <2>2, <2>3 DEF Invite
  <2>4. CASE m.arg \notin Known(n, r)
    <3> DEFINE f == ForgetMeta(r, m.arg)
    <3>1. f \in Room /\ f.peers = r.peers /\ f.admins = r.admins \ {m.arg}
      BY <2>1, ForgottenMeta
    <3>2. h = [f EXCEPT !.peers = Append(@, m.arg)]
      BY <2>2, <2>4 DEF Invite
    <3> HIDE DEF f, h
    <3>3. Append(f.peers, m.arg) \in Seq(Node)
      BY <3>1, <1>2, <2>1
    <3>4. h \in Room /\ h.peers = Append(r.peers, m.arg) /\ h.admins = f.admins
      BY <3>1, <3>2, <3>3 DEF Room
    <3> QED
      BY <1>3, <2>4, <3>1, <3>4 DEF h
  <2> QED
    BY <2>3, <2>4
<1>4. CASE m.cmd = "promote"
  <2>1. m.arg \in Node
    BY <1>4 DEF Fits
  <2>2. h = Promote(n, r, m)
    BY <1>4 DEF HandleCommand
  <2>3. CASE h = r
    BY <2>3
  <2>4. CASE m.arg \in Known(n, r) /\ h = [r EXCEPT !.admins = @ \cup {m.arg}]
    <3>1. h \in Room /\ h.peers = r.peers /\ h.admins = r.admins \cup {m.arg}
      BY <1>2, <2>1, <2>4 DEF Room
    <3> QED
      BY <1>4, <2>4, <3>1
  <2> QED
    BY <2>2, <2>3, <2>4 DEF Promote
<1>5. CASE m.cmd = "remove_peer"
  <2>1. m.arg \in Node
    BY <1>5 DEF Fits
  <2>2. h = RemovePeer(n, r, m)
    BY <1>5 DEF HandleCommand
  <2>3. CASE h = r
    BY <2>3
  <2> DEFINE f == ForgetMeta(r, m.arg)
  <2>4. CASE m.arg \in Peers(r) /\ h = [f EXCEPT !.peers = RemoveFirst(@, m.arg)]
    <3>1. f \in Room /\ f.peers = r.peers /\ f.admins = r.admins \ {m.arg}
      BY <2>1, ForgottenMeta
    <3>2. h = [f EXCEPT !.peers = RemoveFirst(@, m.arg)]
      BY <2>4
    <3> HIDE DEF f, h
    <3>3. RemoveFirst(f.peers, m.arg) \in Seq(Node)
      BY <3>1, <1>2, WithoutFirst
    <3>4. h \in Room /\ h.peers = RemoveFirst(r.peers, m.arg) /\ h.admins = f.admins
      BY <3>1, <3>2, <3>3 DEF Room
    <3> QED
      BY <1>5, <2>4, <3>1, <3>4 DEF h
  <2> QED
    BY <2>2, <2>3, <2>4 DEF RemovePeer
<1>6. CASE m.cmd = "name_room"
  <2>1. m.arg \in Name
    BY <1>6 DEF Fits
  <2>2. h = [r EXCEPT !.name = m.arg]
    BY <1>6 DEF HandleCommand, NameRoom
  <2> QED
    BY <1>2, <2>1, <2>2 DEF Room
<1>7. CASE m.cmd = "nick"
  <2>1. m.arg \in Name
    BY <1>7 DEF Fits
  <2>2. h = Nick(n, r, m)
    BY <1>7 DEF HandleCommand
  <2>3. CASE h = r
    BY <2>3
  <2>4. CASE h = [r EXCEPT !.nick[m.sender] = m.arg]
    <3>1. h = [peers |-> r.peers, admins |-> r.admins, name |-> r.name,
               nick |-> [r.nick EXCEPT ![m.sender] = m.arg]]
      BY <1>2, <2>4
    <3>2. [r.nick EXCEPT ![m.sender] = m.arg] \in [Node -> Name \cup {NoName}]
      BY <1>2, <2>1
    <3>3. h \in Room /\ h.peers = r.peers /\ h.admins = r.admins
      BY <1>2, <3>1, <3>2 DEF Room
    <3> QED
      BY <3>3
  <2> QED
    BY <2>2, <2>3, <2>4 DEF Nick
<1> QED
  BY <1>1, <1>3, <1>4, <1>5, <1>6, <1>7

LEMMA PeersAfter ==
  ASSUME NEW n \in Node, NEW r \in Room, NEW m \in Message, Fits(m)
  PROVE  \/ HandleCommand(n, r, m).peers = r.peers
         \/ m.cmd = "invite" /\ m.arg \notin Known(n, r)
              /\ HandleCommand(n, r, m).peers = Append(r.peers, m.arg)
         \/ HandleCommand(n, r, m).peers = RemoveFirst(r.peers, m.arg)
BY CommandEffect

------------------------------------------------------------------------------
(* Messages: what the three actions that push one have in common           *)

Named(m) == IF m.cmd = "invite" THEN {m.arg} ELSE {}

(* What is left of the loop while m is executed.                           *)
Left(n, m, q) ==
  /\ q \in Seq(Node)
  /\ Range(q) \subseteq Range(roster[n]) \cup Peers(HandleCommand(n, room[n], m))
  /\ m.cmd # "remove_peer" /\ ~HasRemoval(n) =>
       Range(roster[n]) \subseteq Range(q) \cup Named(m)

(* n takes m into its room and executes it.                                *)
Executes(n, m) ==
  /\ log' = [log EXCEPT ![n] = Append(log[n], m)]
  /\ room' = [room EXCEPT ![n] = HandleCommand(n, room[n], m)]
  /\ \E q \in Seq(Node) : Left(n, m, q) /\ roster' = [roster EXCEPT ![n] = q]
  /\ shared' \in {shared, [shared EXCEPT ![n] = 0]}
  /\ open \subseteq open'
  /\ \A b \in open' : b \in open \/ (b \in Node \X Node \X Nat /\ Connected(b[1], b[2]))

(* m is a new message of n itself.                                         *)
Own(n, m) ==
  /\ m \in Message /\ Fits(m)
  /\ m.sender = n /\ m.num = Len(log[n]) + 1
  /\ m.asAdmin => n \in room[n].admins

(* The place i in the room of k has the first message that n lacks.        *)
FirstMissing(k, n, i) ==
  /\ i \in DOMAIN log[k] /\ log[k][i] \notin Range(log[n])
  /\ \A j \in 1..(i - 1) : log[k][j] \in Range(log[n])

LEMMA TypeFacts ==
  ASSUME TypeInv, NEW n \in Node
  PROVE  /\ room[n] \in Room /\ room[n].peers \in Seq(Node) /\ room[n].admins \subseteq Node
         /\ log[n] \in Seq(Message) /\ DOMAIN log[n] = 1..Len(log[n]) /\ Len(log[n]) \in Nat
         /\ \A i \in DOMAIN log[n] : log[n][i] \in Message /\ log[n][i].sender \in Node
         /\ newPeers[n] \in Seq(Node) /\ roster[n] \in Seq(Node)
         /\ \A s \in header[n] : s \in Seq(Node)
<1>1. /\ room \in [Node -> Room] /\ log \in [Node -> Seq(Message)]
      /\ newPeers \in [Node -> Seq(Node)] /\ roster \in [Node -> Seq(Node)]
      /\ header \in [Node -> SUBSET Seq(Node)]
  BY DEF TypeInv, Typed, TypeOK
<1>2. room[n] \in Room /\ log[n] \in Seq(Message) /\ newPeers[n] \in Seq(Node) /\ roster[n] \in Seq(Node)
  BY <1>1
<1>3. room[n].peers \in Seq(Node) /\ room[n].admins \subseteq Node
  BY <1>2 DEF Room
<1>4. /\ DOMAIN log[n] = 1..Len(log[n]) /\ Len(log[n]) \in Nat
      /\ \A i \in DOMAIN log[n] : log[n][i] \in Message
  BY <1>2
<1>5. \A m \in Message : m.sender \in Node
  BY DEF Message
<1> QED
  BY <1>1, <1>2, <1>3, <1>4, <1>5

(* The loop finds its own peers or those that the room has now; without a  *)
(* removal it finds its own.                                               *)
LEMMA LoopLeft ==
  ASSUME TypeInv, NEW n \in Node, NEW m \in Message, Fits(m), NEW rest \in Seq(Node),
         NEW read \in {0, 1}
  PROVE  LET s == Rewritten(n, rest, HandleCommand(n, room[n], m).peers, read)
         IN  /\ s \in Seq(Node) /\ Len(s) = Len(rest)
             /\ Range(s) \subseteq Range(rest) \cup Peers(HandleCommand(n, room[n], m))
             /\ m.cmd # "remove_peer" /\ ~HasRemoval(n) => s = rest
<1>1. PICK old : old = room[n].peers
  OBVIOUS
<1>2. PICK new : new = HandleCommand(n, room[n], m).peers
  OBVIOUS
<1>3. /\ room[n] \in Room /\ old \in Seq(Node)
      /\ shared[n] \in Nat /\ (~HasRemoval(n) => shared[n] <= Len(old))
  BY <1>1, TypeFacts DEF TypeInv, Typed, TypeOK, LoopsFit
<1>4. HandleCommand(n, room[n], m) \in Room
  BY <1>3, CommandEffect
<1>5. new \in Seq(Node)
  BY <1>2, <1>4 DEF Room
<1>6. m.cmd # "remove_peer" => new = old \/ new = Append(old, m.arg)
  BY <1>1, <1>2, <1>3, CommandEffect
<1>7. PICK s : s = Rewritten(n, rest, new, read)
  OBVIOUS
<1>8. /\ s = [k \in DOMAIN rest |->
                LET i == shared[n] - Len(rest) + k
                IN  IF k > read /\ i \in DOMAIN new /\ (i \in DOMAIN old => old[i] # new[i])
                    THEN new[i]
                    ELSE rest[k]]
  BY <1>1, <1>7 DEF Rewritten
<1>9. DOMAIN rest = 1..Len(rest) /\ Len(rest) \in Nat
  OBVIOUS
<1>10. DOMAIN s = 1..Len(rest) /\ \A k \in DOMAIN s : s[k] = rest[k] \/ s[k] \in Range(new)
  BY <1>8, <1>9 DEF Range
<1>11. \A k \in DOMAIN s : s[k] \in Node
  BY <1>5, <1>9, <1>10 DEF Range
<1>12. s \in [1..Len(rest) -> Node]
  BY <1>8, <1>9, <1>11
<1>13. s \in Seq(Node) /\ Len(s) = Len(rest)
  BY <1>9, <1>12
<1>14. Range(s) \subseteq Range(rest) \cup Range(new)
  BY <1>9, <1>10 DEF Range
<1>15. ASSUME m.cmd # "remove_peer", ~HasRemoval(n) PROVE s = rest
  <2>1. ASSUME NEW k \in 1..Len(rest) PROVE s[k] = rest[k]
    <3>1. PICK i : i = shared[n] - Len(rest) + k
      OBVIOUS
    <3>2. i \in Int /\ i <= Len(old)
      BY <1>3, <1>9, <1>15, <3>1
    <3>3. i \in DOMAIN new => i \in DOMAIN old /\ old[i] = new[i]
      <4>1. CASE new = old
        BY <4>1
      <4>2. CASE new = Append(old, m.arg)
        BY <1>3, <3>2, <4>2
      <4> QED
        BY <1>6, <1>15, <4>1, <4>2
    <3> QED
      BY <1>8, <1>9, <3>1, <3>3
  <2> QED
    BY <1>9, <1>12, <2>1
<1> QED
  BY <1>2, <1>7, <1>13, <1>14, <1>15 DEF Peers

(* What UpdateLoop leaves of the loop.                                     *)
LEMMA LoopUpdated ==
  ASSUME TypeInv, NEW n \in Node, NEW m \in Message, Fits(m), NEW rest \in Seq(Node),
         UpdateLoop(n, rest, HandleCommand(n, room[n], m).peers)
  PROVE  /\ shared' \in {shared, [shared EXCEPT ![n] = 0]}
         /\ \E s \in Seq(Node) :
              /\ roster' = [roster EXCEPT ![n] = s] /\ Len(s) = Len(rest)
              /\ Range(s) \subseteq Range(rest) \cup Peers(HandleCommand(n, room[n], m))
              /\ m.cmd # "remove_peer" /\ ~HasRemoval(n) => s = rest
<1>1. CASE roster' = [roster EXCEPT ![n] = rest] /\ shared' = [shared EXCEPT ![n] = 0]
  BY <1>1
<1>2. CASE \E read \in {0, 1} :
             /\ roster' = [roster EXCEPT ![n] =
                             Rewritten(n, rest, HandleCommand(n, room[n], m).peers, read)]
             /\ UNCHANGED shared
  <2>1. PICK read \in {0, 1} :
             /\ roster' = [roster EXCEPT ![n] =
                             Rewritten(n, rest, HandleCommand(n, room[n], m).peers, read)]
             /\ UNCHANGED shared
    BY <1>2
  <2>2. PICK s : s = Rewritten(n, rest, HandleCommand(n, room[n], m).peers, read)
    OBVIOUS
  <2>3. /\ s \in Seq(Node) /\ Len(s) = Len(rest)
        /\ Range(s) \subseteq Range(rest) \cup Peers(HandleCommand(n, room[n], m))
        /\ m.cmd # "remove_peer" /\ ~HasRemoval(n) => s = rest
    BY <2>2, LoopLeft
  <2> QED
    BY <2>1, <2>2, <2>3
<1> QED
  BY <1>1, <1>2 DEF UpdateLoop

LEMMA PushExecutes ==
  ASSUME TypeInv, NEW n \in Node, NEW m \in Message, Fits(m), NEW rest \in Seq(Node),
         Range(rest) \subseteq Range(roster[n]),
         Range(roster[n]) \subseteq Range(rest) \cup Named(m), PushMessage(n, m, rest)
  PROVE  Executes(n, m)
<1>1. /\ log' = [log EXCEPT ![n] = Append(log[n], m)]
      /\ room' = [room EXCEPT ![n] = HandleCommand(n, room[n], m)]
      /\ UpdateLoop(n, rest, HandleCommand(n, room[n], m).peers)
      /\ KeepOpen(n, HandleCommand(n, room[n], m).peers)
  BY DEF PushMessage
<1>2. PICK s \in Seq(Node) :
        /\ roster' = [roster EXCEPT ![n] = s]
        /\ Range(s) \subseteq Range(rest) \cup Peers(HandleCommand(n, room[n], m))
        /\ m.cmd # "remove_peer" /\ ~HasRemoval(n) => s = rest
  BY <1>1, LoopUpdated
<1>3. Left(n, m, s)
  BY <1>2 DEF Left
<1>4. shared' \in {shared, [shared EXCEPT ![n] = 0]}
  BY <1>1, LoopUpdated
<1>6. open \subseteq open'
  BY <1>1 DEF KeepOpen
<1>5. ASSUME NEW b \in open', b \notin open
      PROVE  b \in Node \X Node \X Nat /\ Connected(b[1], b[2])
  <2> DEFINE gone == Peers(room[n]) \ Range(HandleCommand(n, room[n], m).peers)
             cut  == {e \in {n} \X gone \cup gone \X {n} :
                        Connected(e[1], e[2]) /\ Missing(e[1], e[2]) # {}}
  <2>1. open' = open \cup {<<e[1], e[2], Len(log[e[1]])>> : e \in cut}
    BY <1>1 DEF KeepOpen
  <2>2. PICK e \in cut : b = <<e[1], e[2], Len(log[e[1]])>>
    BY <1>5, <2>1
  <2>3. gone \subseteq Node
    BY TypeFacts DEF Peers, Range
  <2>4. e[1] \in Node /\ e[2] \in Node /\ Connected(e[1], e[2])
    BY <2>3
  <2>5. Len(log[e[1]]) \in Nat
    BY <2>4, TypeFacts
  <2> HIDE DEF gone, cut
  <2> QED
    BY <2>2, <2>4, <2>5
<1> QED
  BY <1>1, <1>2, <1>3, <1>4, <1>5, <1>6 DEF Executes

LEMMA SendExecutes ==
  ASSUME TypeInv, NEW n \in Node, NEW cmd \in Cmd \cup {"invite"}, NEW arg,
         IF cmd \in {"name_room", "nick"} THEN arg \in Name ELSE arg \in Node,
         NEW rest \in Seq(Node), Range(rest) \subseteq Range(roster[n]),
         Range(roster[n]) \subseteq Range(rest) \cup (IF cmd = "invite" THEN {arg} ELSE {}),
         SendMessage(n, cmd, arg, rest)
  PROVE  \E m \in Message : Own(n, m) /\ m.cmd = cmd /\ m.arg = arg /\ Executes(n, m)
<1> DEFINE b == n \in room[n].admins
           m == [sender |-> n, num |-> Len(log[n]) + 1, asAdmin |-> b, cmd |-> cmd, arg |-> arg]
<1>1. Len(log[n]) + 1 \in Nat \ {0}
  BY TypeFacts
<1>2. /\ m.sender = n /\ m.cmd = cmd /\ m.arg = arg
      /\ m.asAdmin = b /\ m.num = Len(log[n]) + 1
  OBVIOUS
<1>3. PushMessage(n, m, rest)
  BY DEF SendMessage
<1>5. b \in BOOLEAN /\ (b => n \in room[n].admins)
  OBVIOUS
<1> HIDE DEF b
<1>6. arg \in Node \cup Name
  OBVIOUS
<1>7. m \in Message
  BY <1>1, <1>5, <1>6 DEF Message
<1> HIDE DEF m
<1>4. Fits(m) /\ Range(roster[n]) \subseteq Range(rest) \cup Named(m)
  BY <1>2 DEF Fits, Named
<1> QED
  BY <1>2, <1>3, <1>4, <1>5, <1>7, PushExecutes DEF Own

(* One turn of the loop in syncPeerLists.                                  *)
LEMMA AnnounceExecutes ==
  ASSUME TypeInv, NEW n \in Node, AnnouncePeer(n)
  PROVE  \E m \in Message : /\ Own(n, m) /\ Executes(n, m)
                            /\ m.cmd = "invite" /\ m.arg \in Range(roster[n])
<1>1. roster[n] \in Seq(Node) /\ roster[n] # <<>>
  BY TypeFacts DEF AnnouncePeer
<1>2. /\ Head(roster[n]) \in Node /\ Tail(roster[n]) \in Seq(Node)
      /\ Head(roster[n]) \in Range(roster[n])
      /\ Range(Tail(roster[n])) \subseteq Range(roster[n])
      /\ Range(roster[n]) \subseteq Range(Tail(roster[n])) \cup {Head(roster[n])}
  <2> DEFINE q == roster[n]
             t == Tail(q)
  <2>1. /\ 1 \in DOMAIN q /\ Head(q) = q[1] /\ q[1] \in Node
        /\ t \in Seq(Node) /\ DOMAIN t = 1..(Len(q) - 1) /\ DOMAIN q = 1..Len(q) /\ Len(q) \in Nat
        /\ \A i \in DOMAIN t : t[i] = q[i + 1]
    BY <1>1
  <2> HIDE DEF q, t
  <2>2. \A i \in DOMAIN t : i + 1 \in DOMAIN q
    BY <2>1
  <2>3. Head(q) \in Range(q) /\ Range(t) \subseteq Range(q)
    BY <2>1, <2>2 DEF Range
  <2>4. ASSUME NEW i \in DOMAIN q PROVE q[i] \in Range(t) \cup {Head(q)}
    <3>1. CASE i = 1
      BY <2>1, <3>1
    <3>2. CASE i # 1
      <4>1. i - 1 \in DOMAIN t /\ t[i - 1] = q[i]
        BY <2>1, <3>2
      <4> QED
        BY <4>1 DEF Range
    <3> QED
      BY <3>1, <3>2
  <2>5. Range(q) \subseteq Range(t) \cup {Head(q)}
    BY <2>4 DEF Range
  <2> QED
    BY <2>1, <2>3, <2>5 DEF q, t
<1>3. SendMessage(n, "invite", Head(roster[n]), Tail(roster[n]))
  BY DEF AnnouncePeer
<1>4. "invite" \in Cmd \cup {"invite"} /\ "invite" \notin {"name_room", "nick"}
  OBVIOUS
<1>5. \E m \in Message : /\ Own(n, m) /\ m.cmd = "invite" /\ m.arg = Head(roster[n])
                         /\ Executes(n, m)
  BY <1>2, <1>3, <1>4, SendExecutes
<1> QED
  BY <1>2, <1>5

(* A command given through the API.                                        *)
LEMMA CommandExecutes ==
  ASSUME TypeInv, NEW n \in Node, SendCommand(n)
  PROVE  \E m \in Message : /\ Own(n, m) /\ Executes(n, m) /\ m.cmd \in Cmd
<1>0. PICK cmd \in Cmd :
        \E arg \in IF cmd \in {"name_room", "nick"} THEN Name ELSE Known(n, room[n]) :
          SendMessage(n, cmd, arg, roster[n])
  BY DEF SendCommand
<1>1. PICK arg \in IF cmd \in {"name_room", "nick"} THEN Name ELSE Known(n, room[n]) :
        SendMessage(n, cmd, arg, roster[n])
  BY <1>0
<1>2. Known(n, room[n]) \subseteq Node
  BY TypeFacts DEF Known, Peers, Range
<1>3. IF cmd \in {"name_room", "nick"} THEN arg \in Name ELSE arg \in Node
  BY <1>1, <1>2
<1>4. roster[n] \in Seq(Node)
  BY TypeFacts
<1> QED
  BY <1>1, <1>3, <1>4, SendExecutes

(* A delivery, which takes the first message that n lacks.                 *)
LEMMA DeliverExecutes ==
  ASSUME TypeInv, NEW k \in Node, NEW n \in Node, Deliver(k, n)
  PROVE  \E i \in DOMAIN log[k] : /\ FirstMissing(k, n, i) /\ Executes(n, log[k][i])
                                  /\ log[k][i] \in Message /\ Fits(log[k][i])
<1> DEFINE i == Min(Missing(k, n))
<1>1. DOMAIN log[k] = 1..Len(log[k]) /\ Len(log[k]) \in Nat
  BY TypeFacts
<1>2. Missing(k, n) \subseteq Nat /\ Missing(k, n) # {}
  BY <1>1 DEF Missing, Deliver
<1>3. i \in Missing(k, n) /\ \A j \in Missing(k, n) : i <= j
  BY <1>2, MinIsFirst
<1>4. PushMessage(n, log[k][i], roster[n])
  BY DEF Deliver, NextMissing
<1> HIDE DEF i
<1>5. i \in DOMAIN log[k] /\ log[k][i] \notin Range(log[n])
  BY <1>3 DEF Missing
<1>6. ASSUME NEW j \in 1..(i - 1) PROVE log[k][j] \in Range(log[n])
  <2>1. j \in DOMAIN log[k] /\ ~(i <= j)
    BY <1>1, <1>5
  <2> QED
    BY <1>3, <2>1 DEF Missing
<1>8. log[k][i] \in Message /\ Fits(log[k][i])
  BY <1>5, TypeFacts DEF TypeInv, Typed, ArgsFit
<1>7. Executes(n, log[k][i])
  BY <1>4, <1>8, TypeFacts, PushExecutes
<1> QED
  BY <1>5, <1>6, <1>7, <1>8 DEF FirstMissing

------------------------------------------------------------------------------
(* Type correctness                                                        *)

LEMMA ExecutesKeepsTypes ==
  ASSUME TypeInv, NEW n \in Node, NEW m \in Message, Fits(m), Executes(n, m)
  PROVE  /\ room' \in [Node -> Room] /\ log' \in [Node -> Seq(Message)]
         /\ roster' \in [Node -> Seq(Node)]
         /\ shared' \in [Node -> Nat] /\ open' \subseteq Node \X Node \X Nat
         /\ ArgsFit'
<1>1. room \in [Node -> Room] /\ log \in [Node -> Seq(Message)] /\ roster \in [Node -> Seq(Node)]
  BY DEF TypeInv, Typed, TypeOK
<1>2. HandleCommand(n, room[n], m) \in Room
  BY <1>1, CommandEffect
<1>3. Append(log[n], m) \in Seq(Message)
  BY <1>1
<1>4. room' \in [Node -> Room]
  BY <1>1, <1>2 DEF Executes
<1>5. log' \in [Node -> Seq(Message)]
  BY <1>1, <1>3 DEF Executes
<1>6. roster' \in [Node -> Seq(Node)]
  BY <1>1 DEF Executes
<1>7. ArgsFit'
  <2> SUFFICES ASSUME NEW y \in Node, NEW i \in DOMAIN log'[y] PROVE Fits(log'[y][i])
    BY DEF ArgsFit, Fits
  <2>1. CASE y = n
    <3>1. log'[n] = Append(log[n], m)
      BY <1>1 DEF Executes
    <3>2. DOMAIN log'[n] = 1..(Len(log[n]) + 1) /\ DOMAIN log[n] = 1..Len(log[n]) /\ Len(log[n]) \in Nat
      BY <1>1, <3>1
    <3>3. CASE i = Len(log[n]) + 1
      BY <1>1, <2>1, <3>1, <3>3
    <3>4. CASE i \in DOMAIN log[n]
      <4>1. log'[y][i] = log[n][i]
        BY <1>1, <2>1, <3>1, <3>4
      <4> QED
        BY <3>4, <4>1 DEF TypeInv, Typed, ArgsFit
    <3> QED
      BY <2>1, <3>2, <3>3, <3>4
  <2>2. CASE y # n
    <3>1. log'[y] = log[y]
      BY <1>1, <2>2 DEF Executes
    <3> QED
      BY <3>1 DEF TypeInv, Typed, ArgsFit
  <2> QED
    BY <2>1, <2>2
<1>8. shared' \in [Node -> Nat]
  <2>1. shared \in [Node -> Nat]
    BY DEF TypeInv, Typed, TypeOK
  <2>2. shared' = shared \/ shared' = [shared EXCEPT ![n] = 0]
    BY DEF Executes
  <2> QED
    BY <2>1, <2>2
<1>9. open' \subseteq Node \X Node \X Nat
  <2>1. open \subseteq Node \X Node \X Nat
    BY DEF TypeInv, Typed, TypeOK
  <2>2. \A b \in open' : b \in open \/ b \in Node \X Node \X Nat
    BY DEF Executes
  <2> QED
    BY <2>1, <2>2
<1> QED
  BY <1>4, <1>5, <1>6, <1>7, <1>8, <1>9

LEMMA NewRoomTyped ==
  ASSUME NEW n \in Node
  PROVE  /\ NewRoom(<<n>>, {n}) \in Room
         /\ NewRoom(<<n>>, {n}).peers = <<n>> /\ NewRoom(<<n>>, {n}).admins = {n}
<1>1. <<n>> \in Seq(Node) /\ {n} \in SUBSET Node /\ [k \in Node |-> NoName] \in [Node -> Name \cup {NoName}]
  OBVIOUS
<1> QED
  BY <1>1 DEF NewRoom, Room

LEMMA TypeInit ==
  ASSUME Init PROVE TypeInv
<1>1. ASSUME NEW n \in Node PROVE NewRoom(<<>>, {n} \cap {Creator}) \in Room
  <2>1. /\ <<>> \in Seq(Node) /\ {n} \cap {Creator} \in SUBSET Node
        /\ [k \in Node |-> NoName] \in [Node -> Name \cup {NoName}]
    OBVIOUS
  <2> QED
    BY <2>1 DEF NewRoom, Room
<1>2. room \in [Node -> Room]
  BY <1>1 DEF Init
<1>3. /\ status \in [Node -> {"out", "creating", "requested", "joined", "failed"}]
      /\ inviter \in [Node -> Node]
      /\ log \in [Node -> Seq(Message)] /\ newPeers \in [Node -> Seq(Node)]
      /\ header \in [Node -> SUBSET Seq(Node)] /\ \A n \in Node : header[n] = {}
      /\ roster \in [Node -> Seq(Node)] /\ shared \in [Node -> Nat] /\ open = {}
      /\ adds \in [Node -> 0..MaxAdd] /\ cmds \in 0..MaxCmd /\ fails \in 0..MaxFail
  BY ConstantsAssumption DEF Init
<1>4. \A n \in Node : DOMAIN log[n] = {} /\ newPeers[n] = <<>> /\ shared[n] = 0
  BY DEF Init
<1>5. LoopsFit
  <2>1. \A n \in Node : Len(room[n].peers) \in Nat
    BY <1>2 DEF Room
  <2> QED
    BY <1>4, <2>1 DEF LoopsFit
<1> QED
  BY <1>2, <1>3, <1>4, <1>5 DEF TypeInv, Typed, TypeOK, ArgsFit, CallsAreCounted, BatchesFit

LEMMA TypeHandshake ==
  ASSUME TypeInv, NEW n \in Node, NEW p \in Node, Handshake(n, p) PROVE Typed'
<1> USE DEF TypeInv, Typed, TypeOK
<1>1. room' \in [Node -> Room]
  BY NewRoomTyped DEF Handshake
<1>2. newPeers' \in [Node -> Seq(Node)]
  <2>1. Append(newPeers[n], p) \in Seq(Node)
    OBVIOUS
  <2> QED
    BY <2>1 DEF Handshake
<1>3. status' \in [Node -> {"out", "creating", "requested", "joined", "failed"}]
      /\ inviter' \in [Node -> Node]
  BY DEF Handshake
<1>4. UNCHANGED <<log, header, roster, shared, open, adds, cmds, fails>>
  BY DEF Handshake, countVars
<1>5. ArgsFit'
  BY <1>4 DEF ArgsFit, Fits
<1>6. CallsAreCounted'
  <2> SUFFICES ASSUME NEW y \in Node, newPeers'[y] # <<>> PROVE adds[y] < MaxAdd
    BY <1>4 DEF CallsAreCounted
  <2>1. CASE y = n
    BY <2>1, <1>4 DEF Handshake
  <2>2. CASE y # n
    BY <2>2, <1>4 DEF Handshake, CallsAreCounted
  <2> QED
    BY <2>1, <2>2
<1> QED
  BY <1>1, <1>2, <1>3, <1>4, <1>5, <1>6

LEMMA TypeHandshakeFails ==
  ASSUME TypeInv, NEW n \in Node, NEW p \in Node, HandshakeFails(n, p) PROVE Typed'
<1> USE DEF TypeInv, Typed, TypeOK
<1>1. room' \in [Node -> Room]
  BY NewRoomTyped DEF HandshakeFails
<1>2. newPeers' \in [Node -> Seq(Node)]
  BY DEF HandshakeFails
<1>3. status' \in [Node -> {"out", "creating", "requested", "joined", "failed"}]
      /\ inviter' \in [Node -> Node]
  BY DEF HandshakeFails
<1>4. UNCHANGED <<log, header, roster, shared, open, adds, cmds>>
  BY DEF HandshakeFails
<1>5. ArgsFit'
  BY <1>4 DEF ArgsFit, Fits
<1>6. CallsAreCounted'
  BY <1>4 DEF CallsAreCounted, HandshakeFails
<1>7. fails' \in 0..MaxFail
  BY ConstantsAssumption DEF HandshakeFails
<1> QED
  BY <1>1, <1>2, <1>3, <1>4, <1>5, <1>6, <1>7

LEMMA TypeReadHeader ==
  ASSUME TypeInv, NEW n \in Node, ReadHeader(n) PROVE Typed'
<1> USE DEF TypeInv, Typed, TypeOK
<1>1. UNCHANGED <<status, inviter, room, log, newPeers, roster, shared, open, adds, cmds, fails>>
  BY DEF ReadHeader, countVars
<1>2. header' \in [Node -> SUBSET Seq(Node)] /\ \A y \in Node : \A s, t \in header'[y] : s = t
  <2>1. header' = [header EXCEPT ![n] = {room[n].peers}]
    BY DEF ReadHeader
  <2>2. room[n].peers \in Seq(Node)
    BY TypeFacts
  <2> QED
    BY <2>1, <2>2
<1>3. ArgsFit' /\ CallsAreCounted'
  BY <1>1 DEF ArgsFit, Fits, CallsAreCounted
<1> QED
  BY <1>1, <1>2, <1>3

(* The slice that append extends.                                          *)
LEMMA AppendedSlice ==
  ASSUME TypeInv, NEW n \in Node, AppendPeers(n)
  PROVE  \E s \in header[n] \cup {room[n].peers} :
           /\ s \in Seq(Node) /\ s \o newPeers[n] \in Seq(Node)
           /\ n \notin Racy => s = room[n].peers
           /\ room' = [room EXCEPT ![n] = [room[n] EXCEPT !.peers = s \o newPeers[n]]]
           /\ roster' = [roster EXCEPT ![n] = s \o newPeers[n]]
           /\ shared' = [shared EXCEPT ![n] = Len(s \o newPeers[n])]
<1>1. PICK s \in IF n \in Racy THEN header[n] ELSE {room[n].peers} :
        /\ room' = [room EXCEPT ![n].peers = s \o newPeers[n]]
        /\ roster' = [roster EXCEPT ![n] = s \o newPeers[n]]
        /\ shared' = [shared EXCEPT ![n] = Len(s \o newPeers[n])]
  BY DEF AppendPeers
<1>2. /\ s \in header[n] \cup {room[n].peers}
      /\ n \notin Racy => s = room[n].peers
  BY <1>1
<1>3. s \in Seq(Node) /\ newPeers[n] \in Seq(Node)
  BY <1>2, TypeFacts
<1>4. s \o newPeers[n] \in Seq(Node)
  BY <1>3
<1>5. room' = [room EXCEPT ![n] = [room[n] EXCEPT !.peers = s \o newPeers[n]]]
  BY <1>1
<1> QED
  BY <1>1, <1>2, <1>3, <1>4, <1>5

LEMMA TypeAppendPeers ==
  ASSUME TypeInv, NEW n \in Node, AppendPeers(n) PROVE Typed'
<1>1. PICK s \in header[n] \cup {room[n].peers} :
           /\ s \o newPeers[n] \in Seq(Node)
           /\ room' = [room EXCEPT ![n] = [room[n] EXCEPT !.peers = s \o newPeers[n]]]
           /\ roster' = [roster EXCEPT ![n] = s \o newPeers[n]]
           /\ shared' = [shared EXCEPT ![n] = Len(s \o newPeers[n])]
  BY AppendedSlice
<1> USE DEF TypeInv, Typed, TypeOK
<1>2. [room[n] EXCEPT !.peers = s \o newPeers[n]] \in Room
  <2>1. room[n] \in Room
    BY TypeFacts
  <2> QED
    BY <1>1, <2>1 DEF Room
<1>3. room' \in [Node -> Room]
  BY <1>1, <1>2
<1>4. roster' \in [Node -> Seq(Node)] /\ shared' \in [Node -> Nat]
  BY <1>1
<1>5. /\ UNCHANGED <<status, inviter, log, open, cmds, fails>>
      /\ newPeers' = [newPeers EXCEPT ![n] = <<>>]
      /\ header' = [header EXCEPT ![n] = {}]
      /\ adds' = [adds EXCEPT ![n] = adds[n] + 1] /\ newPeers[n] # <<>>
  BY DEF AppendPeers
<1>6. newPeers' \in [Node -> Seq(Node)]
  BY <1>5
<1>7. header' \in [Node -> SUBSET Seq(Node)] /\ \A y \in Node : \A t, u \in header'[y] : t = u
  BY <1>5
<1>8. adds' \in [Node -> 0..MaxAdd]
  <2>1. adds[n] < MaxAdd
    BY <1>5 DEF CallsAreCounted
  <2>2. adds \in [Node -> 0..MaxAdd] /\ adds[n] \in 0..MaxAdd /\ MaxAdd \in Nat
    BY ConstantsAssumption
  <2>3. adds[n] + 1 \in 0..MaxAdd
    BY <2>1, <2>2
  <2> QED
    BY <1>5, <2>2, <2>3
<1>9. ArgsFit'
  BY <1>5 DEF ArgsFit, Fits
<1>10. CallsAreCounted'
  <2> SUFFICES ASSUME NEW y \in Node, newPeers'[y] # <<>> PROVE adds'[y] < MaxAdd
    BY DEF CallsAreCounted
  <2>1. y # n /\ newPeers[y] # <<>> /\ adds'[y] = adds[y]
    BY <1>5
  <2> QED
    BY <2>1 DEF CallsAreCounted
<1> QED
  BY <1>3, <1>4, <1>5, <1>6, <1>7, <1>8, <1>9, <1>10

LEMMA TypeAnnouncePeer ==
  ASSUME TypeInv, NEW n \in Node, AnnouncePeer(n) PROVE Typed'
<1>1. PICK m \in Message : Own(n, m) /\ Executes(n, m)
  BY AnnounceExecutes
<1>2. /\ room' \in [Node -> Room] /\ log' \in [Node -> Seq(Message)] /\ roster' \in [Node -> Seq(Node)]
      /\ shared' \in [Node -> Nat] /\ open' \subseteq Node \X Node \X Nat
      /\ ArgsFit'
  BY <1>1, ExecutesKeepsTypes DEF Own
<1>3. UNCHANGED <<inviter, newPeers, header, adds, cmds, fails>>
  BY DEF AnnouncePeer, countVars
<1>4. status' \in [Node -> {"out", "creating", "requested", "joined", "failed"}]
  BY DEF AnnouncePeer, TypeInv, Typed, TypeOK
<1> QED
  BY <1>2, <1>3, <1>4 DEF TypeInv, Typed, TypeOK, CallsAreCounted

LEMMA TypeAccept ==
  ASSUME TypeInv, NEW n \in Node, Accept(n) PROVE Typed'
BY DEF TypeInv, Typed, TypeOK, ArgsFit, Fits, CallsAreCounted, Accept, callVars, countVars

LEMMA TypeSendCommand ==
  ASSUME TypeInv, NEW n \in Node, SendCommand(n) PROVE Typed'
<1>1. PICK m \in Message : Own(n, m) /\ Executes(n, m)
  BY CommandExecutes
<1>2. /\ room' \in [Node -> Room] /\ log' \in [Node -> Seq(Message)] /\ roster' \in [Node -> Seq(Node)]
      /\ shared' \in [Node -> Nat] /\ open' \subseteq Node \X Node \X Nat
      /\ ArgsFit'
  BY <1>1, ExecutesKeepsTypes DEF Own
<1>3. UNCHANGED <<status, inviter, newPeers, header, adds, fails>>
  BY DEF SendCommand
<1>4. cmds' \in 0..MaxCmd
  BY ConstantsAssumption DEF SendCommand, TypeInv, Typed, TypeOK
<1> QED
  BY <1>2, <1>3, <1>4 DEF TypeInv, Typed, TypeOK, CallsAreCounted

LEMMA TypeDeliver ==
  ASSUME TypeInv, NEW k \in Node, NEW n \in Node, Deliver(k, n) PROVE Typed'
<1>1. PICK i \in DOMAIN log[k] : Executes(n, log[k][i]) /\ log[k][i] \in Message /\ Fits(log[k][i])
  BY DeliverExecutes
<1>2. /\ room' \in [Node -> Room] /\ log' \in [Node -> Seq(Message)] /\ roster' \in [Node -> Seq(Node)]
      /\ shared' \in [Node -> Nat] /\ open' \subseteq Node \X Node \X Nat
      /\ ArgsFit'
  BY <1>1, ExecutesKeepsTypes
<1>3. UNCHANGED <<status, inviter, newPeers, header, adds, cmds, fails>>
  BY DEF Deliver, countVars
<1> QED
  BY <1>2, <1>3 DEF TypeInv, Typed, TypeOK, CallsAreCounted

LEMMA NextSteps ==
  ASSUME Next
  PROVE  \/ \E n, p \in Node : Handshake(n, p)
         \/ \E n, p \in Node : HandshakeFails(n, p)
         \/ \E n \in Node : ReadHeader(n)
         \/ \E n \in Node : AppendPeers(n)
         \/ \E n \in Node : AnnouncePeer(n)
         \/ \E n \in Node : Accept(n)
         \/ \E n \in Node : SendCommand(n)
         \/ \E k, n \in Node : Deliver(k, n)
BY Zenon DEF Next

(* What a call of p by n changes, whether or not its answer is lost.       *)
Calls(n, p) ==
  /\ status[p] = "out" /\ status[n] \in {"creating", "joined"} /\ p # n
  /\ status'[p] = "requested" /\ status'[n] \in {"creating", "joined", "failed"}
  /\ \A y \in Node \ {n, p} : status'[y] = status[y]
  /\ room'[p] = NewRoom(<<n>>, {n}) /\ inviter'[p] = n
  /\ \A y \in Node \ {p} : room'[y] = room[y] /\ inviter'[y] = inviter[y]
  /\ \A y \in Node \ {n} : newPeers'[y] = newPeers[y]
  /\ newPeers'[n] = Append(newPeers[n], p) \/ newPeers'[n] = <<>>
  /\ UNCHANGED <<log, header, roster, open>>

LEMMA CallEffect ==
  ASSUME TypeInv, NEW n \in Node, NEW p \in Node, Handshake(n, p) \/ HandshakeFails(n, p)
  PROVE  Calls(n, p)
<1>1. /\ status \in [Node -> {"out", "creating", "requested", "joined", "failed"}]
      /\ room \in [Node -> Room] /\ inviter \in [Node -> Node] /\ newPeers \in [Node -> Seq(Node)]
  BY DEF TypeInv, Typed, TypeOK
<1>2. /\ status[p] = "out" /\ status[n] \in {"creating", "joined"} /\ p # n
      /\ UNCHANGED <<log, header, roster, open>>
  BY DEF Handshake, HandshakeFails, MayCall
<1>3. /\ inviter' = [inviter EXCEPT ![p] = n]
      /\ room' = [room EXCEPT ![p] = NewRoom(<<n>>, {n})]
      /\ \/ newPeers' = [newPeers EXCEPT ![n] = Append(newPeers[n], p)]
         \/ newPeers' = [newPeers EXCEPT ![n] = <<>>]
  BY DEF Handshake, HandshakeFails
<1>4. /\ status'[p] = "requested" /\ status'[n] \in {"creating", "joined", "failed"}
      /\ \A y \in Node \ {n, p} : status'[y] = status[y]
  <2>1. CASE Handshake(n, p)
    BY <1>1, <1>2, <2>1 DEF Handshake
  <2>2. CASE HandshakeFails(n, p)
    <3>1. status' = [status EXCEPT ![p] = "requested",
                                   ![n] = IF @ = "creating" THEN "failed" ELSE @]
      BY <2>2 DEF HandshakeFails
    <3> QED
      BY <1>1, <1>2, <3>1
  <2> QED
    BY <2>1, <2>2
<1>5. /\ room'[p] = NewRoom(<<n>>, {n}) /\ inviter'[p] = n
      /\ \A y \in Node \ {p} : room'[y] = room[y] /\ inviter'[y] = inviter[y]
  BY <1>1, <1>3
<1>6. /\ \A y \in Node \ {n} : newPeers'[y] = newPeers[y]
      /\ newPeers'[n] = Append(newPeers[n], p) \/ newPeers'[n] = <<>>
  BY <1>1, <1>3
<1> QED
  BY <1>2, <1>4, <1>5, <1>6 DEF Calls

LEMMA LogsGrow ==
  ASSUME TypeInv, NEW n \in Node, NEW m \in Message, Executes(n, m)
  PROVE  /\ \A y \in Node : /\ DOMAIN log[y] \subseteq DOMAIN log'[y]
                            /\ \A i \in DOMAIN log[y] : log'[y][i] = log[y][i]
         /\ \A y \in Node \ {n} : log'[y] = log[y]
         /\ DOMAIN log'[n] = DOMAIN log[n] \cup {Len(log[n]) + 1}
         /\ log'[n][Len(log[n]) + 1] = m
         /\ Range(log'[n]) = Range(log[n]) \cup {m}
<1>1. log \in [Node -> Seq(Message)] /\ log[n] \in Seq(Message)
  BY DEF TypeInv, Typed, TypeOK
<1>2. /\ log'[n] = Append(log[n], m)
      /\ \A y \in Node \ {n} : log'[y] = log[y]
  BY <1>1 DEF Executes
<1> DEFINE u == Append(log[n], m)
<1>3. /\ DOMAIN log[n] = 1..Len(log[n]) /\ Len(log[n]) \in Nat
      /\ DOMAIN u = 1..(Len(log[n]) + 1) /\ u[Len(log[n]) + 1] = m
      /\ \A i \in 1..Len(log[n]) : u[i] = log[n][i]
  BY <1>1
<1>4. Range(u) = Range(log[n]) \cup {m}
  BY <1>1, RangeOfAppend
<1> HIDE DEF u
<1>5. log'[n] = u
  BY <1>2 DEF u
<1> QED
  BY <1>2, <1>3, <1>4, <1>5

(* Nobody leaves, but for a room in the making that fails.                 *)
LEMMA StatusesRise ==
  ASSUME TypeInv, [Next]_vars, NEW p \in Node
  PROVE  /\ status'[p] = "out" => status[p] = "out"
         /\ status[p] = "joined" => status'[p] = "joined"
         /\ status[p] \in {"creating", "joined", "failed"} =>
              status'[p] \in {"creating", "joined", "failed"}
<1>1. status \in [Node -> {"out", "creating", "requested", "joined", "failed"}]
  BY DEF TypeInv, Typed, TypeOK
<1>2. CASE UNCHANGED status
  BY <1>2
<1>3. ASSUME NEW n \in Node, NEW q \in Node, Handshake(n, q) \/ HandshakeFails(n, q)
      PROVE  /\ status[q] = "out" /\ status[n] \in {"creating", "joined"}
             /\ \/ status' = [status EXCEPT ![q] = "requested"]
                \/ status' = [status EXCEPT ![q] = "requested",
                                            ![n] = IF @ = "creating" THEN "failed" ELSE @]
  BY <1>3 DEF Handshake, HandshakeFails, MayCall
<1>4. CASE \E n, q \in Node : Handshake(n, q) \/ HandshakeFails(n, q)
  BY <1>1, <1>3, <1>4
<1>5. CASE \E n \in Node : AnnouncePeer(n)
  BY <1>1, <1>5 DEF AnnouncePeer
<1>6. CASE \E n \in Node : Accept(n)
  BY <1>1, <1>6 DEF Accept
<1> QED
  BY <1>2, <1>4, <1>5, <1>6, NextSteps DEF vars, ReadHeader, AppendPeers, SendCommand, Deliver

LEMMA LoopsNext ==
  ASSUME TypeInv, [Next]_vars PROVE LoopsFit'
<1>1. /\ status \in [Node -> {"out", "creating", "requested", "joined", "failed"}]
      /\ room \in [Node -> Room] /\ newPeers \in [Node -> Seq(Node)]
      /\ shared \in [Node -> Nat]
  BY DEF TypeInv, Typed, TypeOK
<1>2. ASSUME NEW n \in Node, NEW m \in Message, Fits(m), Executes(n, m), UNCHANGED newPeers
      PROVE  LoopsFit'
  <2> SUFFICES ASSUME NEW y \in Node
               PROVE  /\ status'[y] = "out" => shared'[y] = 0 /\ newPeers'[y] = <<>>
                      /\ ~HasRemoval(y)' => shared'[y] <= Len(room'[y].peers)
    BY DEF LoopsFit, HasRemoval
  <2>1. shared'[y] = shared[y] \/ shared'[y] = 0
    BY <1>1, <1>2 DEF Executes
  <2>2. status'[y] = "out" => status[y] = "out"
    BY StatusesRise
  <2>3. CASE y # n
    <3>1. log'[y] = log[y] /\ room'[y] = room[y]
      BY <1>1, <1>2, <2>3, LogsGrow DEF Executes
    <3>2. room[y].peers \in Seq(Node)
      BY TypeFacts
    <3>3. HasRemoval(y)' <=> HasRemoval(y)
      BY <3>1 DEF HasRemoval
    <3> QED
      BY <1>1, <1>2, <2>1, <2>2, <3>1, <3>2, <3>3 DEF TypeInv, LoopsFit
  <2>4. CASE y = n
    <3>1. ~HasRemoval(n)' => ~HasRemoval(n) /\ m.cmd # "remove_peer"
      <4>1. /\ DOMAIN log'[n] = DOMAIN log[n] \cup {Len(log[n]) + 1}
            /\ \A i \in DOMAIN log[n] : log'[n][i] = log[n][i]
            /\ log'[n][Len(log[n]) + 1] = m
        BY <1>2, LogsGrow
      <4> QED
        BY <4>1 DEF HasRemoval
    <3>2. room[n] \in Room /\ room[n].peers \in Seq(Node) /\ room'[n] = HandleCommand(n, room[n], m)
      BY <1>1, <1>2, TypeFacts DEF Executes
    <3>3. m.cmd # "remove_peer" =>
            \/ room'[n].peers = room[n].peers
            \/ room'[n].peers = Append(room[n].peers, m.arg)
      <4>1. \/ HandleCommand(n, room[n], m).peers = room[n].peers
            \/ HandleCommand(n, room[n], m).peers = Append(room[n].peers, m.arg)
            \/ m.cmd = "remove_peer"
        BY <1>2, <3>2, CommandEffect
      <4> QED
        BY <3>2, <4>1
    <3>4. m.cmd # "remove_peer" => Len(room'[n].peers) >= Len(room[n].peers) /\ Len(room'[n].peers) \in Nat
      BY <3>2, <3>3
    <3>5. /\ ~HasRemoval(n) => shared[n] <= Len(room[n].peers)
          /\ status[n] = "out" => shared[n] = 0 /\ newPeers[n] = <<>>
          /\ shared[n] \in Nat /\ Len(room[n].peers) \in Nat
      BY <1>1, <3>2 DEF TypeInv, LoopsFit
    <3> QED
      BY <1>2, <2>1, <2>2, <2>4, <3>1, <3>4, <3>5 DEF HasRemoval
  <2> QED
    BY <2>3, <2>4
<1>3. ASSUME NEW n \in Node, NEW p \in Node, Calls(n, p), UNCHANGED shared PROVE LoopsFit'
  <2> SUFFICES ASSUME NEW y \in Node
               PROVE  /\ status'[y] = "out" => shared'[y] = 0 /\ newPeers'[y] = <<>>
                      /\ ~HasRemoval(y)' => shared'[y] <= Len(room'[y].peers)
    BY DEF LoopsFit, HasRemoval
  <2>1. HasRemoval(y)' <=> HasRemoval(y)
    BY <1>3 DEF HasRemoval, Calls
  <2>2. CASE y = p
    <3>1. room'[p].peers = <<n>> /\ Len(<<n>>) = 1
      BY <1>3, NewRoomTyped DEF Calls
    <3> QED
      BY <1>3, <2>2, <3>1 DEF Calls, TypeInv, LoopsFit
  <2>3. CASE y # p
    <3>1. room'[y] = room[y] /\ (status'[y] = "out" => y # n)
      BY <1>3, <2>3 DEF Calls
    <3> QED
      BY <1>3, <2>1, <2>3, <3>1 DEF Calls, TypeInv, LoopsFit
  <2> QED
    BY <2>2, <2>3
<1>4. ASSUME NEW n \in Node, AppendPeers(n) PROVE LoopsFit'
  <2>1. PICK s \in header[n] \cup {room[n].peers} :
           /\ s \o newPeers[n] \in Seq(Node)
           /\ room' = [room EXCEPT ![n] = [room[n] EXCEPT !.peers = s \o newPeers[n]]]
           /\ shared' = [shared EXCEPT ![n] = Len(s \o newPeers[n])]
    BY <1>4, AppendedSlice
  <2>2. /\ newPeers[n] # <<>> /\ newPeers' = [newPeers EXCEPT ![n] = <<>>]
        /\ UNCHANGED <<status, log>>
    BY <1>4 DEF AppendPeers
  <2>3. PICK u \in Seq(Node) : u = s \o newPeers[n]
    BY <2>1
  <2>4. room'[n].peers = u /\ shared'[n] = Len(u)
    <3>1. room'[n] = [room[n] EXCEPT !.peers = u]
      BY <1>1, <2>1, <2>3
    <3>2. room[n] \in Room
      BY <1>1
    <3> QED
      BY <1>1, <2>1, <2>3, <3>1, <3>2 DEF Room
  <2>5. \A y \in Node \ {n} : /\ room'[y] = room[y] /\ shared'[y] = shared[y]
                              /\ newPeers'[y] = newPeers[y]
    BY <1>1, <2>1, <2>2
  <2>6. status[n] # "out" /\ Len(u) <= Len(u)
    BY <2>2 DEF TypeInv, LoopsFit
  <2> SUFFICES ASSUME NEW y \in Node
               PROVE  /\ status'[y] = "out" => shared'[y] = 0 /\ newPeers'[y] = <<>>
                      /\ ~HasRemoval(y)' => shared'[y] <= Len(room'[y].peers)
    BY DEF LoopsFit, HasRemoval
  <2>7. HasRemoval(y)' <=> HasRemoval(y)
    BY <2>2 DEF HasRemoval
  <2>8. CASE y = n
    BY <2>2, <2>4, <2>6, <2>8
  <2>9. CASE y # n
    BY <2>2, <2>5, <2>7, <2>9 DEF TypeInv, LoopsFit
  <2> QED
    BY <2>8, <2>9
<1>5. ASSUME UNCHANGED <<room, log, newPeers, shared>> PROVE LoopsFit'
  BY <1>5, StatusesRise DEF TypeInv, LoopsFit, HasRemoval
<1>6. ASSUME NEW n \in Node, AnnouncePeer(n) PROVE LoopsFit'
  BY <1>2, <1>6, AnnounceExecutes DEF Own, AnnouncePeer
<1>7. ASSUME NEW n \in Node, SendCommand(n) PROVE LoopsFit'
  BY <1>2, <1>7, CommandExecutes DEF Own, SendCommand
<1>8. ASSUME NEW k \in Node, NEW n \in Node, Deliver(k, n) PROVE LoopsFit'
  BY <1>2, <1>8, DeliverExecutes DEF Deliver
<1>9. ASSUME NEW n \in Node, NEW p \in Node, Handshake(n, p) \/ HandshakeFails(n, p) PROVE LoopsFit'
  BY <1>3, <1>9, CallEffect DEF Handshake, HandshakeFails
<1>10. CASE UNCHANGED vars
  BY <1>5, <1>10 DEF vars, callVars
<1>11. CASE Next
  BY <1>4, <1>5, <1>6, <1>7, <1>8, <1>9, <1>11, NextSteps DEF ReadHeader, Accept, callVars
<1> QED
  BY <1>10, <1>11

LEMMA BatchesNext ==
  ASSUME TypeInv, [Next]_vars PROVE BatchesFit'
<1>0. open \subseteq Node \X Node \X Nat
  BY DEF TypeInv, Typed, TypeOK
<1>1. ASSUME NEW b \in open'
      PROVE  /\ b \in Node \X Node \X Nat
             /\ status[b[1]] \in {"creating", "joined", "failed"} /\ status[b[2]] = "joined"
  <2>1. CASE b \in open
    BY <1>0, <2>1 DEF TypeInv, BatchesFit
  <2>2. ASSUME NEW n \in Node, NEW m, Executes(n, m), b \notin open
        PROVE  b \in Node \X Node \X Nat /\ Connected(b[1], b[2])
    BY <2>2 DEF Executes
  <2>3. ASSUME b \in Node \X Node \X Nat, Connected(b[1], b[2])
        PROVE  status[b[1]] \in {"creating", "joined", "failed"} /\ status[b[2]] = "joined"
    BY <2>3 DEF Connected
  <2>4. \/ UNCHANGED open
        \/ \E n \in Node : AnnouncePeer(n)
        \/ \E n \in Node : SendCommand(n)
        \/ \E k, n \in Node : Deliver(k, n)
    BY NextSteps DEF vars, Handshake, HandshakeFails, ReadHeader, AppendPeers, Accept
  <2>5. CASE \E n \in Node : AnnouncePeer(n)
    BY <2>1, <2>2, <2>3, <2>5, AnnounceExecutes
  <2>6. CASE \E n \in Node : SendCommand(n)
    BY <2>1, <2>2, <2>3, <2>6, CommandExecutes
  <2>7. CASE \E k, n \in Node : Deliver(k, n)
    BY <2>1, <2>2, <2>3, <2>7, DeliverExecutes
  <2> QED
    BY <2>1, <2>4, <2>5, <2>6, <2>7
<1>2. ASSUME NEW b \in open'
      PROVE  status'[b[1]] \in {"creating", "joined", "failed"} /\ status'[b[2]] = "joined"
  <2>1. b[1] \in Node /\ b[2] \in Node
    BY <1>1
  <2> QED
    BY <1>1, <2>1, StatusesRise
<1> QED
  BY <1>2 DEF BatchesFit

LEMMA TypeNext ==
  ASSUME TypeInv, [Next]_vars PROVE TypeInv'
<1>1. Typed'
  <2>1. CASE UNCHANGED vars
    BY <2>1 DEF vars, callVars, countVars, TypeInv, Typed, TypeOK, ArgsFit, Fits, CallsAreCounted
  <2>2. CASE Next
    BY <2>2, NextSteps, TypeHandshake, TypeHandshakeFails, TypeReadHeader, TypeAppendPeers,
       TypeAnnouncePeer, TypeAccept, TypeSendCommand, TypeDeliver
  <2> QED
    BY <2>1, <2>2
<1> QED
  BY <1>1, LoopsNext, BatchesNext DEF TypeInv

(* Whom n gets a message from is a peer, or has been one.                  *)
LEMMA DeliverBetween ==
  ASSUME TypeInv, NEW k \in Node, NEW n \in Node, Deliver(k, n)
  PROVE  /\ status[n] = "joined" /\ status[k] # "out"
         /\ HasHeardOf(n, k) /\ HasHeardOf(k, n)
         /\ UNCHANGED <<status, inviter, newPeers, header>>
<1>1. CASE Connected(k, n)
  BY <1>1 DEF Connected, HasHeardOf, Deliver
<1>2. CASE \E b \in open : b[1] = k /\ b[2] = n
  BY <1>2 DEF HasHeardOf, Deliver, TypeInv, BatchesFit
<1> QED
  BY <1>1, <1>2 DEF Deliver

LEMMA TypeInvariant == Spec => []TypeInv
BY TypeInit, TypeNext, PTL DEF Spec

(* Every variable stays in its type and every counter within its bound,    *)
(* although AppendPeers counts a call without looking at the bound.        *)
THEOREM TypeCorrect == Spec => []TypeOK
<1>1. TypeInv => TypeOK
  BY DEF TypeInv, Typed
<1> QED
  BY <1>1, TypeInvariant, PTL

------------------------------------------------------------------------------
(* Causal order                                                            *)

(* m is new, or comes from a member that has got everything before it.     *)
LEMMA CausalExecutes ==
  ASSUME TypeInv, CausalOrder, NEW n \in Node, NEW m \in Message, Executes(n, m),
         \/ m.sender = n
         \/ \E k \in Node : \E i \in DOMAIN log[k] : FirstMissing(k, n, i) /\ m = log[k][i]
  PROVE  CausalOrder'
<1> DEFINE new == Len(log[n]) + 1
<1>1. /\ \A y \in Node : /\ DOMAIN log[y] \subseteq DOMAIN log'[y]
                         /\ \A i \in DOMAIN log[y] : log'[y][i] = log[y][i]
      /\ \A y \in Node \ {n} : log'[y] = log[y]
      /\ DOMAIN log'[n] = DOMAIN log[n] \cup {new}
      /\ log'[n][new] = m
  BY LogsGrow
<1>2. \A y \in Node : DOMAIN log[y] = 1..Len(log[y]) /\ Len(log[y]) \in Nat
  BY TypeFacts
<1>3. \A y \in Node : \A i \in DOMAIN log[y] : log[y][i].sender \in Node
  BY TypeFacts
<1> SUFFICES ASSUME NEW y \in Node, NEW i \in DOMAIN log'[y]
             PROVE  \E j \in DOMAIN log'[log'[y][i].sender] :
                      /\ log'[log'[y][i].sender][j] = log'[y][i]
                      /\ \A x \in 1..(j - 1) : \E l \in 1..(i - 1) :
                           log'[y][l] = log'[log'[y][i].sender][x]
  BY DEF CausalOrder
<1>4. CASE i \in DOMAIN log[y]
  <2> DEFINE s == log[y][i].sender
  <2>1. s \in Node /\ log'[y][i] = log[y][i]
    BY <1>1, <1>3, <1>4
  <2>2. PICK j \in DOMAIN log[s] :
          /\ log[s][j] = log[y][i]
          /\ \A x \in 1..(j - 1) : \E l \in 1..(i - 1) : log[y][l] = log[s][x]
    BY <1>4 DEF CausalOrder
  <2> HIDE DEF s
  <2>3. j \in DOMAIN log'[s] /\ log'[s][j] = log'[y][i]
    BY <1>1, <2>1, <2>2
  <2>4. ASSUME NEW x \in 1..(j - 1) PROVE \E l \in 1..(i - 1) : log'[y][l] = log'[s][x]
    <3>1. PICK l \in 1..(i - 1) : log[y][l] = log[s][x]
      BY <2>2
    <3>2. x \in DOMAIN log[s] /\ l \in DOMAIN log[y]
      BY <1>2, <1>4, <2>1, <2>2
    <3>3. log'[s][x] = log[s][x] /\ log'[y][l] = log[y][l]
      BY <1>1, <2>1, <3>2
    <3> QED
      BY <3>1, <3>3
  <2>5. log'[y][i].sender = s
    BY <2>1 DEF s
  <2> QED
    BY <2>3, <2>4, <2>5
<1>5. CASE y = n /\ i = new
  <2>1. log'[y][i] = m /\ m.sender \in Node
    BY <1>1, <1>5 DEF Message
  <2>2. CASE m.sender = n
    <3>1. i \in DOMAIN log'[n] /\ \A x \in 1..(i - 1) : log'[y][x] = log'[n][x]
      BY <1>5
    <3> QED
      BY <2>1, <2>2, <3>1, <1>5
  <2>3. CASE \E k \in Node : \E p \in DOMAIN log[k] : FirstMissing(k, n, p) /\ m = log[k][p]
    <3>1. PICK k \in Node, p \in Nat : p \in DOMAIN log[k] /\ FirstMissing(k, n, p) /\ m = log[k][p]
      BY <2>3, <1>2
    <3> DEFINE s == log[k][p].sender
    <3>2. PICK j \in DOMAIN log[s] :
            /\ log[s][j] = log[k][p]
            /\ \A x \in 1..(j - 1) : \E l \in 1..(p - 1) : log[k][l] = log[s][x]
      BY <3>1 DEF CausalOrder
    <3>3. s \in Node /\ m.sender = s
      BY <2>1, <3>1
    <3> HIDE DEF s
    <3>4. j \in DOMAIN log'[s] /\ log'[s][j] = m
      BY <1>1, <3>1, <3>2, <3>3
    <3>5. ASSUME NEW x \in 1..(j - 1) PROVE \E l \in 1..(i - 1) : log'[y][l] = log'[s][x]
      <4>1. PICK q \in 1..(p - 1) : log[k][q] = log[s][x]
        BY <3>2
      <4>2. log[s][x] \in Range(log[n])
        BY <3>1, <4>1 DEF FirstMissing
      <4>3. PICK l \in DOMAIN log[n] : log[n][l] = log[s][x]
        BY <4>2 DEF Range
      <4>4. x \in DOMAIN log[s]
        BY <1>2, <3>2, <3>3
      <4>5. log'[s][x] = log[s][x] /\ log'[y][l] = log[n][l] /\ l \in 1..(i - 1)
        BY <1>1, <1>2, <1>5, <3>3, <4>3, <4>4
      <4> QED
        BY <4>3, <4>5
    <3> QED
      BY <2>1, <3>3, <3>4, <3>5
  <2> QED
    BY <2>2, <2>3
<1> QED
  BY <1>1, <1>4, <1>5

LEMMA CausalNext ==
  ASSUME TypeInv, CausalOrder, [Next]_vars PROVE CausalOrder'
<1>1. ASSUME NEW n \in Node, AnnouncePeer(n) PROVE CausalOrder'
  BY <1>1, AnnounceExecutes, CausalExecutes DEF Own
<1>2. ASSUME NEW n \in Node, SendCommand(n) PROVE CausalOrder'
  BY <1>2, CommandExecutes, CausalExecutes DEF Own
<1>3. ASSUME NEW k \in Node, NEW n \in Node, Deliver(k, n) PROVE CausalOrder'
  BY <1>3, DeliverExecutes, CausalExecutes
<1>4. ASSUME UNCHANGED log PROVE CausalOrder'
  BY <1>4 DEF CausalOrder
<1>5. CASE UNCHANGED vars
  BY <1>4, <1>5 DEF vars
<1>6. CASE Next
  BY <1>1, <1>2, <1>3, <1>4, <1>6, NextSteps
     DEF Handshake, HandshakeFails, ReadHeader, AppendPeers, Accept
<1> QED
  BY <1>5, <1>6

(* A member executes a command only after everything that its sender had   *)
(* executed before, through however many relays either has come.           *)
THEOREM CausalOrderIsKept == Spec => []CausalOrder
<1>1. Init => CausalOrder
  BY DEF Init, CausalOrder
<1>2. TypeInv /\ CausalOrder /\ [Next]_vars => CausalOrder'
  BY CausalNext
<1> QED
  BY <1>1, <1>2, TypeInvariant, PTL DEF Spec

------------------------------------------------------------------------------
(* The lists of peers                                                      *)

(* A member hears of others by what it executes alone.                     *)
LEMMA HeardGrows ==
  ASSUME TypeInv, NEW n \in Node, NEW m \in Message, Fits(m), Executes(n, m), UNCHANGED header
  PROVE  /\ \A y \in Node \ {n} : \A x : HasHeardOf(y, x)' <=> HasHeardOf(y, x)
         /\ \A x : HasHeardOf(n, x)' => HasHeardOf(n, x) \/ (m.cmd = "invite" /\ x = m.arg)
<1>1. room \in [Node -> Room] /\ log \in [Node -> Seq(Message)] /\ roster \in [Node -> Seq(Node)]
  BY DEF TypeInv, Typed, TypeOK
<1>0. ASSUME NEW b \in open', b \notin open, NEW y, NEW x,
             (b[1] = y /\ b[2] = x) \/ (b[1] = x /\ b[2] = y)
      PROVE  x \in Peers(room[y])
  BY <1>0 DEF Executes, Connected
<1>4. open \subseteq open'
  BY DEF Executes
<1>2. ASSUME NEW y \in Node \ {n}, NEW x PROVE HasHeardOf(y, x)' <=> HasHeardOf(y, x)
  <2>1. room'[y] = room[y] /\ log'[y] = log[y] /\ roster'[y] = roster[y]
    BY <1>1 DEF Executes
  <2>2. (\E b \in open' : (b[1] = y /\ b[2] = x) \/ (b[1] = x /\ b[2] = y)) => HasHeardOf(y, x)
    BY <1>0 DEF HasHeardOf
  <2>3. HasHeardOf(y, x)' => HasHeardOf(y, x)
    BY <2>1, <2>2 DEF HasHeardOf, Peers
  <2>4. HasHeardOf(y, x) => HasHeardOf(y, x)'
    BY <1>4, <2>1 DEF HasHeardOf, Peers
  <2> QED
    BY <2>3, <2>4
<1>3. ASSUME NEW x, HasHeardOf(n, x)'
      PROVE  HasHeardOf(n, x) \/ (m.cmd = "invite" /\ x = m.arg)
  <2>1. room'[n] = HandleCommand(n, room[n], m)
    BY <1>1 DEF Executes
  <2>2. room[n].peers \in Seq(Node) /\ room[n] \in Room
    BY TypeFacts
  <2>3. x \in Peers(room'[n]) => x \in Peers(room[n]) \/ (m.cmd = "invite" /\ x = m.arg)
    <3>1. CASE room'[n].peers = room[n].peers
      BY <3>1 DEF Peers
    <3>2. CASE m.cmd = "invite" /\ room'[n].peers = Append(room[n].peers, m.arg)
      BY <2>2, <3>2, RangeOfAppend DEF Peers
    <3>3. CASE room'[n].peers = RemoveFirst(room[n].peers, m.arg)
      BY <2>2, <3>3, WithoutFirst DEF Peers
    <3> QED
      BY <2>1, <2>2, <3>1, <3>2, <3>3, PeersAfter
  <2>4. Range(roster'[n]) \subseteq Range(roster[n]) \cup Peers(room'[n])
    BY <1>1, <2>1 DEF Executes, Left
  <2>6. (\E b \in open' : (b[1] = n /\ b[2] = x) \/ (b[1] = x /\ b[2] = n)) => HasHeardOf(n, x)
    BY <1>0 DEF HasHeardOf
  <2>5. ASSUME NEW i \in DOMAIN log'[n], log'[n][i].cmd = "invite", log'[n][i].arg = x
        PROVE  HasHeardOf(n, x) \/ (m.cmd = "invite" /\ x = m.arg)
    <3>1. \/ i \in DOMAIN log[n] /\ log'[n][i] = log[n][i]
          \/ log'[n][i] = m
      BY LogsGrow
    <3> QED
      BY <2>5, <3>1 DEF HasHeardOf
  <2> QED
    BY <1>3, <2>3, <2>4, <2>5, <2>6 DEF HasHeardOf
<1> QED
  BY <1>2, <1>3

LEMMA DistinctExecutes ==
  ASSUME TypeInv, PeersDistinct, NEW n \in Node, NEW m \in Message, Fits(m), Executes(n, m)
  PROVE  PeersDistinct'
<1>1. room \in [Node -> Room]
  BY DEF TypeInv, Typed, TypeOK
<1>2. \A y \in Node \ {n} : room'[y] = room[y]
  BY <1>1 DEF Executes
<1>3. room'[n] = HandleCommand(n, room[n], m)
  BY <1>1 DEF Executes
<1>4. room[n].peers \in Seq(Node) /\ room[n] \in Room
  BY TypeFacts
<1>5. IsInjective(room[n].peers) /\ n \notin Range(room[n].peers)
  BY DEF PeersDistinct, Peers
<1>6. IsInjective(room'[n].peers) /\ n \notin Range(room'[n].peers)
  <2>1. CASE room'[n].peers = room[n].peers
    BY <1>5, <2>1
  <2>2. CASE m.arg \notin Known(n, room[n]) /\ room'[n].peers = Append(room[n].peers, m.arg)
    <3> DEFINE s == room[n].peers
               u == Append(s, m.arg)
    <3>1. m.arg # n /\ m.arg \notin Range(s)
      BY <2>2 DEF Known, Peers
    <3>2. /\ DOMAIN s = 1..Len(s) /\ Len(s) \in Nat
          /\ DOMAIN u = 1..(Len(s) + 1) /\ u[Len(s) + 1] = m.arg
          /\ \A i \in 1..Len(s) : u[i] = s[i]
      BY <1>4
    <3>3. n \notin Range(u)
      BY <1>4, <1>5, <3>1, RangeOfAppend
    <3> HIDE DEF s, u
    <3>4. IsInjective(u)
      <4>1. \A i \in DOMAIN s : s[i] # m.arg
        BY <3>1 DEF Range
      <4>2. \A i, j \in DOMAIN s : s[i] = s[j] => i = j
        BY <1>5 DEF IsInjective, s
      <4> QED
        BY <3>2, <4>1, <4>2 DEF IsInjective
    <3> QED
      BY <2>2, <3>3, <3>4 DEF s, u
  <2>3. CASE room'[n].peers = RemoveFirst(room[n].peers, m.arg)
    BY <1>4, <1>5, <2>3, WithoutFirst
  <2> QED
    BY <1>3, <1>4, <2>1, <2>2, <2>3, PeersAfter
<1> QED
  BY <1>2, <1>6 DEF PeersDistinct, Peers

(* A command names whom n, or somebody n has heard of, has heard of.       *)
LEMMA SafeExecutes ==
  ASSUME TypeInv, ListsAreSafe, NEW n \in Node, NEW m \in Message, Fits(m), Executes(n, m),
         UNCHANGED <<newPeers, header>>,
         \A p \in Node : status'[p] = "out" <=> status[p] = "out",
         m.cmd = "invite" => \E k \in Node : (k = n \/ HasHeardOf(n, k)) /\ HasHeardOf(k, m.arg)
  PROVE  ListsAreSafe'
<1>1. /\ \A y \in Node \ {n} : \A x : HasHeardOf(y, x)' <=> HasHeardOf(y, x)
      /\ \A x : HasHeardOf(n, x)' => HasHeardOf(n, x) \/ (m.cmd = "invite" /\ x = m.arg)
  BY HeardGrows
<1>2. PeersDistinct'
  BY DistinctExecutes DEF ListsAreSafe
<1>3. ASSUME NEW y \in Node PROVE Listing(y)'
  BY DEF ListsAreSafe, Listing
<1>4. OutsidersAreUnheard'
  <2> SUFFICES ASSUME NEW p \in Node, status'[p] = "out", NEW y \in Node
               PROVE  ~HasHeardOf(y, p)' /\ p \notin Range(newPeers'[y])
    BY DEF OutsidersAreUnheard
  <2>1. \A z \in Node : ~HasHeardOf(z, p) /\ p \notin Range(newPeers[z])
    BY DEF ListsAreSafe, OutsidersAreUnheard
  <2> QED
    BY <1>1, <2>1
<1>5. NewcomersAreCutOff'
  <2> SUFFICES ASSUME NEW a \in Node, NEW p \in Range(newPeers'[a])
               PROVE  \E C \in SUBSET Node : CutOff(C, a, p)'
    BY DEF NewcomersAreCutOff
  <2>1. PICK C \in SUBSET Node : CutOff(C, a, p)
    BY DEF ListsAreSafe, NewcomersAreCutOff
  <2>2. ASSUME NEW y \in Node \ C, NEW k \in C PROVE ~HasHeardOf(y, k)'
    <3>1. \A z \in Node \ C : ~HasHeardOf(z, k)
      BY <2>1, <2>2 DEF CutOff
    <3>2. CASE y = n
      <4>1. \A z \in Node : z = n \/ HasHeardOf(n, z) => z \notin C
        BY <2>1, <2>2, <3>2 DEF CutOff
      <4>2. m.cmd = "invite" => m.arg # k
        BY <2>2, <3>1, <4>1
      <4> QED
        BY <1>1, <3>1, <3>2, <4>2
    <3> QED
      BY <1>1, <3>1, <3>2
  <2>3. CutOff(C, a, p)'
    BY <2>1, <2>2 DEF CutOff
  <2> QED
    BY <2>3
<1> QED
  BY <1>2, <1>3, <1>4, <1>5 DEF ListsAreSafe

LEMMA SafeAnnouncePeer ==
  ASSUME TypeInv, ListsAreSafe, NEW n \in Node, AnnouncePeer(n)
  PROVE  ListsAreSafe'
<1>1. PICK m \in Message : /\ Own(n, m) /\ Executes(n, m)
                           /\ m.cmd = "invite" /\ m.arg \in Range(roster[n])
  BY AnnounceExecutes
<1>2. HasHeardOf(n, m.arg)
  BY <1>1 DEF HasHeardOf
<1>3. UNCHANGED <<newPeers, header>>
  BY DEF AnnouncePeer
<1>4. \A p \in Node : status'[p] = "out" <=> status[p] = "out"
  BY DEF AnnouncePeer, TypeInv, Typed, TypeOK
<1> QED
  BY <1>1, <1>2, <1>3, <1>4, SafeExecutes DEF Own

LEMMA SafeSendCommand ==
  ASSUME TypeInv, ListsAreSafe, NEW n \in Node, SendCommand(n)
  PROVE  ListsAreSafe'
<1>1. PICK m \in Message : Own(n, m) /\ Executes(n, m) /\ m.cmd \in Cmd
  BY CommandExecutes
<1>2. m.cmd # "invite"
  BY <1>1, ConstantsAssumption
<1>3. UNCHANGED <<status, newPeers, header>>
  BY DEF SendCommand
<1> QED
  BY <1>1, <1>2, <1>3, SafeExecutes DEF Own

LEMMA SafeDeliver ==
  ASSUME TypeInv, ListsAreSafe, NEW k \in Node, NEW n \in Node, Deliver(k, n)
  PROVE  ListsAreSafe'
<1>1. PICK i \in DOMAIN log[k] : /\ Executes(n, log[k][i])
                                 /\ log[k][i] \in Message /\ Fits(log[k][i])
  BY DeliverExecutes
<1>2. HasHeardOf(n, k) /\ UNCHANGED <<status, newPeers, header>>
  BY DeliverBetween
<1>3. log[k][i].cmd = "invite" => HasHeardOf(k, log[k][i].arg)
  BY <1>1 DEF HasHeardOf
<1> QED
  BY <1>1, <1>2, <1>3, SafeExecutes

(* p, of whom nobody had heard, makes its room.                            *)
LEMMA SafeCall ==
  ASSUME TypeInv, ListsAreSafe, NEW n \in Node, NEW p \in Node,
         status[p] = "out", status[n] # "out",
         status'[p] # "out",
         \A y \in Node \ {p} : status'[y] = "out" <=> status[y] = "out",
         room' = [room EXCEPT ![p] = NewRoom(<<n>>, {n})],
         UNCHANGED <<log, header, roster, open>>,
         \/ newPeers' = [newPeers EXCEPT ![n] = Append(newPeers[n], p)]
         \/ newPeers' = [newPeers EXCEPT ![n] = <<>>]
  PROVE  ListsAreSafe'
<1>1. room \in [Node -> Room] /\ newPeers \in [Node -> Seq(Node)] /\ newPeers[n] \in Seq(Node)
  BY DEF TypeInv, Typed, TypeOK
<1>2. /\ \A y \in Node \ {p} : room'[y] = room[y]
      /\ room'[p].peers = <<n>> /\ Peers(room'[p]) = {n}
  <2>1. room'[p].peers = <<n>>
    BY <1>1, NewRoomTyped
  <2>2. Range(<<n>>) = {n}
    BY DEF Range
  <2> QED
    BY <1>1, <2>1, <2>2 DEF Peers
<1>3. /\ \A y \in Node \ {p} : \A x : HasHeardOf(y, x)' <=> HasHeardOf(y, x)
      /\ \A x : HasHeardOf(p, x)' => HasHeardOf(p, x) \/ x = n
  BY <1>2 DEF HasHeardOf
<1>4. /\ \A y \in Node : ~HasHeardOf(y, p) /\ p \notin Range(newPeers[y])
      /\ p # n
  BY DEF ListsAreSafe, OutsidersAreUnheard
<1>5. \A y \in Node \ {n} : newPeers'[y] = newPeers[y]
  BY <1>1
<1>6. /\ \A x \in Range(newPeers'[n]) : x \in Range(newPeers[n]) \/ x = p
      /\ IsInjective(newPeers'[n])
  <2>1. IsInjective(newPeers[n])
    BY DEF ListsAreSafe, Listing
  <2>2. CASE newPeers'[n] = <<>>
    BY <2>2 DEF Range, IsInjective
  <2>3. CASE newPeers'[n] = Append(newPeers[n], p)
    <3> DEFINE s == newPeers[n]
               u == Append(s, p)
    <3>1. /\ DOMAIN s = 1..Len(s) /\ Len(s) \in Nat
          /\ DOMAIN u = 1..(Len(s) + 1) /\ u[Len(s) + 1] = p
          /\ \A i \in 1..Len(s) : u[i] = s[i]
      BY <1>1
    <3>2. Range(u) = Range(s) \cup {p}
      BY <1>1, RangeOfAppend
    <3>3. \A i \in DOMAIN s : s[i] # p
      BY <1>4 DEF Range
    <3>4. \A i, j \in DOMAIN s : s[i] = s[j] => i = j
      BY <2>1 DEF IsInjective
    <3> HIDE DEF s, u
    <3>5. IsInjective(u)
      BY <3>1, <3>3, <3>4 DEF IsInjective
    <3> QED
      BY <2>3, <3>2, <3>5 DEF s, u
  <2> QED
    BY <1>1, <2>2, <2>3
<1>7. ASSUME NEW y \in Node PROVE Listing(y)'
  <2>1. IsInjective(newPeers'[y])
    BY <1>5, <1>6 DEF ListsAreSafe, Listing
  <2>2. newPeers'[y] # <<>> => status'[y] # "out"
    BY <1>5 DEF ListsAreSafe, Listing
  <2>3. \A s \in header'[y] : IsInjective(s) /\ y \notin Range(s)
    BY DEF ListsAreSafe, Listing
  <2> QED
    BY <2>1, <2>2, <2>3 DEF Listing
<1>8. OutsidersAreUnheard'
  <2> SUFFICES ASSUME NEW q \in Node, status'[q] = "out", NEW y \in Node
               PROVE  ~HasHeardOf(y, q)' /\ q \notin Range(newPeers'[y])
    BY DEF OutsidersAreUnheard
  <2>1. q # p /\ q # n /\ status[q] = "out"
    OBVIOUS
  <2>2. ~HasHeardOf(y, q) /\ q \notin Range(newPeers[y])
    BY <2>1 DEF ListsAreSafe, OutsidersAreUnheard
  <2>3. ~HasHeardOf(y, q)'
    BY <1>3, <2>1, <2>2
  <2>4. q \notin Range(newPeers'[y])
    BY <1>5, <1>6, <2>1, <2>2
  <2> QED
    BY <2>3, <2>4
<1>9. NewcomersAreCutOff'
  <2> SUFFICES ASSUME NEW a \in Node, NEW b \in Range(newPeers'[a])
               PROVE  \E C \in SUBSET Node : CutOff(C, a, b)'
    BY DEF NewcomersAreCutOff
  <2>1. CASE a = n /\ b = p
    <3> DEFINE C == {p}
    <3>1. ASSUME NEW y \in Node \ C
          PROVE  ~HasHeardOf(y, p)' /\ (p \in Range(newPeers'[y]) => y = n)
      <4>1. ~HasHeardOf(y, p)'
        BY <1>3, <1>4
      <4>2. p \in Range(newPeers'[y]) => y = n
        BY <1>4, <1>5
      <4> QED
        BY <4>1, <4>2
    <3>2. CutOff(C, a, b)'
      BY <1>4, <2>1, <3>1 DEF CutOff
    <3> QED
      BY <3>2
  <2>2. CASE b \in Range(newPeers[a])
    <3>1. PICK C \in SUBSET Node : CutOff(C, a, b)
      BY <2>2 DEF ListsAreSafe, NewcomersAreCutOff
    <3>2. a # p
      <4>1. newPeers[a] # <<>>
        BY <2>2 DEF Range
      <4> QED
        BY <4>1 DEF ListsAreSafe, Listing
    <3>3. p \notin C
      BY <3>1 DEF CutOff
    <3>4. CASE n \in C
      <4> DEFINE D == C \cup {p}
      <4>1. \A k \in D : status'[k] # "out"
        BY <3>1, <3>3 DEF CutOff
      <4>2. ASSUME NEW y \in Node \ D, NEW k \in D
            PROVE  ~HasHeardOf(y, k)' /\ (k \in Range(newPeers'[y]) => y = a /\ k = b)
        <5>1. newPeers'[y] = newPeers[y] /\ (HasHeardOf(y, k)' <=> HasHeardOf(y, k))
          BY <1>3, <1>5, <3>4
        <5>2. CASE k = p
          BY <1>4, <5>1, <5>2
        <5>3. CASE k \in C
          BY <3>1, <5>1, <5>3 DEF CutOff
        <5> QED
          BY <5>2, <5>3
      <4>3. CutOff(D, a, b)'
        BY <3>1, <3>2, <4>1, <4>2 DEF CutOff
      <4> QED
        BY <4>3
    <3>5. CASE n \notin C
      <4>1. \A k \in C : status'[k] # "out"
        BY <3>1, <3>3 DEF CutOff
      <4>2. ASSUME NEW y \in Node \ C, NEW k \in C
            PROVE  ~HasHeardOf(y, k)' /\ (k \in Range(newPeers'[y]) => y = a /\ k = b)
        <5>1. ~HasHeardOf(y, k) /\ (k \in Range(newPeers[y]) => y = a /\ k = b)
          BY <3>1 DEF CutOff
        <5>2. k # n /\ k # p
          BY <3>3, <3>5
        <5>3. ~HasHeardOf(y, k)'
          BY <1>3, <5>1, <5>2
        <5>4. k \in Range(newPeers'[y]) => k \in Range(newPeers[y])
          BY <1>5, <1>6, <5>2
        <5> QED
          BY <5>1, <5>3, <5>4
      <4>3. CutOff(C, a, b)'
        BY <3>1, <4>1, <4>2 DEF CutOff
      <4> QED
        BY <4>3
    <3> QED
      BY <3>4, <3>5
  <2> QED
    BY <1>5, <1>6, <2>1, <2>2
<1>10. PeersDistinct'
  <2> SUFFICES ASSUME NEW y \in Node
               PROVE  IsInjective(room'[y].peers) /\ y \notin Peers(room'[y])
    BY DEF PeersDistinct
  <2>1. CASE y = p
    <3>1. IsInjective(<<n>>)
      BY DEF IsInjective
    <3> QED
      BY <1>2, <1>4, <2>1, <3>1
  <2>2. CASE y # p
    BY <1>2, <2>2 DEF ListsAreSafe, PeersDistinct, Peers
  <2> QED
    BY <2>1, <2>2
<1> QED
  BY <1>7, <1>8, <1>9, <1>10 DEF ListsAreSafe

LEMMA SafeHandshake ==
  ASSUME TypeInv, ListsAreSafe, NEW n \in Node, NEW p \in Node,
         Handshake(n, p) \/ HandshakeFails(n, p)
  PROVE  ListsAreSafe'
<1>c. Calls(n, p)
  BY CallEffect
<1>1. /\ status[p] = "out" /\ status[n] # "out" /\ status'[p] # "out"
      /\ \A y \in Node \ {p} : status'[y] = "out" <=> status[y] = "out"
  BY <1>c DEF Calls
<1>2. /\ room' = [room EXCEPT ![p] = NewRoom(<<n>>, {n})]
      /\ UNCHANGED <<log, header, roster, open>>
  BY DEF Handshake, HandshakeFails
<1>3. \/ newPeers' = [newPeers EXCEPT ![n] = Append(newPeers[n], p)]
      \/ newPeers' = [newPeers EXCEPT ![n] = <<>>]
  BY DEF Handshake, HandshakeFails
<1> QED
  BY <1>1, <1>2, <1>3, SafeCall

LEMMA SafeReadHeader ==
  ASSUME TypeInv, ListsAreSafe, NEW n \in Node, ReadHeader(n)
  PROVE  ListsAreSafe'
<1>1. UNCHANGED <<status, room, log, newPeers, roster, open>>
  BY DEF ReadHeader
<1>2. \A y \in Node : \A s \in header'[y] : s \in header[y] \/ (y = n /\ s = room[n].peers)
  BY DEF ReadHeader, TypeInv, Typed, TypeOK
<1>3. \A y \in Node : \A x : HasHeardOf(y, x)' => HasHeardOf(y, x)
  BY <1>1, <1>2 DEF HasHeardOf, Peers
<1>4. \A y \in Node : Listing(y)'
  BY <1>1, <1>2 DEF ListsAreSafe, Listing, PeersDistinct, Peers
<1>5. OutsidersAreUnheard'
  BY <1>1, <1>3 DEF ListsAreSafe, OutsidersAreUnheard
<1>6. NewcomersAreCutOff'
  <2> SUFFICES ASSUME NEW a \in Node, NEW b \in Range(newPeers[a])
               PROVE  \E C \in SUBSET Node : CutOff(C, a, b)'
    BY <1>1 DEF NewcomersAreCutOff
  <2>1. PICK C \in SUBSET Node : CutOff(C, a, b)
    BY DEF ListsAreSafe, NewcomersAreCutOff
  <2>2. CutOff(C, a, b)'
    BY <1>1, <1>3, <2>1 DEF CutOff
  <2> QED
    BY <2>2
<1>7. PeersDistinct'
  BY <1>1 DEF ListsAreSafe, PeersDistinct
<1> QED
  BY <1>4, <1>5, <1>6, <1>7 DEF ListsAreSafe

LEMMA SafeAppendPeers ==
  ASSUME TypeInv, ListsAreSafe, NEW n \in Node, AppendPeers(n)
  PROVE  ListsAreSafe'
<1>1. PICK s \in header[n] \cup {room[n].peers} :
           /\ s \in Seq(Node) /\ s \o newPeers[n] \in Seq(Node)
           /\ room' = [room EXCEPT ![n] = [room[n] EXCEPT !.peers = s \o newPeers[n]]]
           /\ roster' = [roster EXCEPT ![n] = s \o newPeers[n]]
  BY AppendedSlice
<1> DEFINE u == s \o newPeers[n]
<1>2. /\ room \in [Node -> Room] /\ newPeers \in [Node -> Seq(Node)] /\ newPeers[n] \in Seq(Node)
      /\ room[n] \in Room
      /\ header \in [Node -> SUBSET Seq(Node)] /\ roster \in [Node -> Seq(Node)]
  BY DEF TypeInv, Typed, TypeOK
<1>3. /\ UNCHANGED <<status, log, open>>
      /\ newPeers' = [newPeers EXCEPT ![n] = <<>>]
      /\ header' = [header EXCEPT ![n] = {}]
  BY DEF AppendPeers
<1>4. /\ room'[n].peers = u /\ roster'[n] = u /\ newPeers'[n] = <<>> /\ header'[n] = {}
      /\ \A y \in Node \ {n} : /\ room'[y] = room[y] /\ roster'[y] = roster[y]
                               /\ newPeers'[y] = newPeers[y] /\ header'[y] = header[y]
  <2>1. room'[n] = [room[n] EXCEPT !.peers = u]
    BY <1>1, <1>2
  <2>2. room'[n].peers = u
    BY <1>2, <2>1 DEF Room
  <2> QED
    BY <1>1, <1>2, <1>3, <2>2
<1>5. Range(u) = Range(s) \cup Range(newPeers[n])
  BY <1>1, <1>2, RangeOfConcat
<1>6. \A x \in Range(s) : HasHeardOf(n, x)
  BY <1>1 DEF HasHeardOf, Peers
<1>7. IsInjective(s) /\ n \notin Range(s)
  BY <1>1 DEF ListsAreSafe, Listing, PeersDistinct, Peers
<1>8. ASSUME NEW x \in Range(newPeers[n]) PROVE x # n /\ x \notin Range(s)
  <2>1. PICK C \in SUBSET Node : CutOff(C, n, x)
    BY DEF ListsAreSafe, NewcomersAreCutOff
  <2> QED
    BY <1>6, <2>1 DEF CutOff
<1>9. IsInjective(u) /\ n \notin Range(u)
  <2>1. IsInjective(newPeers[n])
    BY DEF ListsAreSafe, Listing
  <2>2. Range(s) \cap Range(newPeers[n]) = {}
    BY <1>8
  <2>3. IsInjective(u)
    BY <1>1, <1>2, <1>7, <2>1, <2>2, RangeOfConcat
  <2> QED
    BY <1>5, <1>7, <1>8, <2>3
<1> HIDE DEF u
<1>10. /\ \A y \in Node \ {n} : \A x : HasHeardOf(y, x)' <=> HasHeardOf(y, x)
       /\ \A x : HasHeardOf(n, x)' => HasHeardOf(n, x) \/ x \in Range(newPeers[n])
  <2>1. \A y \in Node \ {n} : \A x : HasHeardOf(y, x)' <=> HasHeardOf(y, x)
    BY <1>3, <1>4 DEF HasHeardOf
  <2>2. ASSUME NEW x, HasHeardOf(n, x)' PROVE HasHeardOf(n, x) \/ x \in Range(newPeers[n])
    <3>1. x \in Range(u) => HasHeardOf(n, x) \/ x \in Range(newPeers[n])
      BY <1>5, <1>6
    <3>2. \/ x \in Range(u)
          \/ \E i \in DOMAIN log[n] : log[n][i].cmd = "invite" /\ log[n][i].arg = x
          \/ \E b \in open : (b[1] = n /\ b[2] = x) \/ (b[1] = x /\ b[2] = n)
      BY <1>3, <1>4, <2>2 DEF HasHeardOf, Peers
    <3> QED
      BY <3>1, <3>2 DEF HasHeardOf
  <2> QED
    BY <2>1, <2>2
<1>11. \A y \in Node : Listing(y)'
  <2> SUFFICES ASSUME NEW y \in Node PROVE Listing(y)'
    OBVIOUS
  <2>1. CASE y = n
    BY <1>4, <2>1 DEF Listing, IsInjective
  <2>2. CASE y # n
    BY <1>3, <1>4, <2>2 DEF ListsAreSafe, Listing
  <2> QED
    BY <2>1, <2>2
<1>12. \A y \in Node : \A x \in Range(newPeers'[y]) : y # n /\ x \in Range(newPeers[y])
  BY <1>4 DEF Range
<1>13. OutsidersAreUnheard'
  <2> SUFFICES ASSUME NEW p \in Node, status'[p] = "out", NEW y \in Node
               PROVE  ~HasHeardOf(y, p)' /\ p \notin Range(newPeers'[y])
    BY DEF OutsidersAreUnheard
  <2>1. \A z \in Node : ~HasHeardOf(z, p) /\ p \notin Range(newPeers[z])
    BY <1>3 DEF ListsAreSafe, OutsidersAreUnheard
  <2> QED
    BY <1>10, <1>12, <2>1
<1>14. NewcomersAreCutOff'
  <2> SUFFICES ASSUME NEW a \in Node, NEW b \in Range(newPeers'[a])
               PROVE  \E C \in SUBSET Node : CutOff(C, a, b)'
    BY DEF NewcomersAreCutOff
  <2>1. a # n /\ b \in Range(newPeers[a])
    BY <1>12
  <2>2. PICK C \in SUBSET Node : CutOff(C, a, b)
    BY <2>1 DEF ListsAreSafe, NewcomersAreCutOff
  <2>3. ASSUME NEW y \in Node \ C, NEW k \in C
        PROVE  ~HasHeardOf(y, k)' /\ (k \in Range(newPeers'[y]) => y = a /\ k = b)
    <3>1. ~HasHeardOf(y, k) /\ (k \in Range(newPeers[y]) => y = a /\ k = b)
      BY <2>2 DEF CutOff
    <3> QED
      BY <1>10, <1>12, <2>1, <3>1
  <2>4. CutOff(C, a, b)'
    BY <1>3, <2>2, <2>3 DEF CutOff
  <2> QED
    BY <2>4
<1>15. PeersDistinct'
  <2> SUFFICES ASSUME NEW y \in Node
               PROVE  IsInjective(room'[y].peers) /\ y \notin Range(room'[y].peers)
    BY DEF PeersDistinct, Peers
  <2>1. CASE y = n
    BY <1>4, <1>9, <2>1
  <2>2. CASE y # n
    BY <1>4, <2>2 DEF ListsAreSafe, PeersDistinct, Peers
  <2> QED
    BY <2>1, <2>2
<1> QED
  BY <1>11, <1>13, <1>14, <1>15 DEF ListsAreSafe

LEMMA SafeUnchanged ==
  ASSUME ListsAreSafe, UNCHANGED <<room, log, newPeers, header, roster, open>>,
         \A p \in Node : status'[p] = "out" <=> status[p] = "out"
  PROVE  ListsAreSafe'
<1>1. \A y \in Node : \A x : HasHeardOf(y, x)' <=> HasHeardOf(y, x)
  BY DEF HasHeardOf
<1>2. \A C : \A a, b \in Node : CutOff(C, a, b) /\ C \subseteq Node => CutOff(C, a, b)'
  BY <1>1 DEF CutOff
<1>3. NewcomersAreCutOff'
  <2> SUFFICES ASSUME NEW a \in Node, NEW b \in Range(newPeers[a])
               PROVE  \E C \in SUBSET Node : CutOff(C, a, b)'
    BY DEF NewcomersAreCutOff
  <2>1. PICK C \in SUBSET Node : CutOff(C, a, b)
    BY DEF ListsAreSafe, NewcomersAreCutOff
  <2>2. b \in Node
    BY <2>1 DEF CutOff
  <2> QED
    BY <1>2, <2>1, <2>2
<1>4. OutsidersAreUnheard'
  BY <1>1 DEF ListsAreSafe, OutsidersAreUnheard
<1>5. (\A y \in Node : Listing(y)') /\ PeersDistinct'
  BY DEF ListsAreSafe, Listing, PeersDistinct
<1> QED
  BY <1>3, <1>4, <1>5 DEF ListsAreSafe

LEMMA SafeInit ==
  ASSUME Init PROVE ListsAreSafe
<1>1. ASSUME NEW n \in Node
      PROVE  /\ room[n].peers = <<>> /\ log[n] = <<>> /\ newPeers[n] = <<>>
             /\ header[n] = {} /\ roster[n] = <<>> /\ open = {}
  BY DEF Init, NewRoom
<1>2. Range(<<>>) = {} /\ IsInjective(<<>>)
  BY DEF Range, IsInjective
<1>3. \A n \in Node : \A p : ~HasHeardOf(n, p) /\ p \notin Range(newPeers[n])
  BY <1>1, <1>2 DEF HasHeardOf, Peers
<1> QED
  BY <1>1, <1>2, <1>3
     DEF ListsAreSafe, Listing, OutsidersAreUnheard, NewcomersAreCutOff, PeersDistinct, Peers

LEMMA SafeNext ==
  ASSUME TypeInv, ListsAreSafe, [Next]_vars PROVE ListsAreSafe'
<1>1. CASE UNCHANGED vars
  BY <1>1, SafeUnchanged DEF vars, callVars
<1>2. ASSUME NEW n \in Node, Accept(n) PROVE ListsAreSafe'
  <2>1. \A p \in Node : status'[p] = "out" <=> status[p] = "out"
    BY <1>2 DEF Accept, TypeInv, Typed, TypeOK
  <2> QED
    BY <1>2, <2>1, SafeUnchanged DEF Accept, callVars
<1>3. CASE Next
  BY <1>2, <1>3, NextSteps, SafeHandshake, SafeReadHeader, SafeAppendPeers,
     SafeAnnouncePeer, SafeSendCommand, SafeDeliver
<1> QED
  BY <1>1, <1>3

(* However many members add peers at the same time, and whatever AddPeers  *)
(* overtakes: nobody is listed twice, or as its own peer.                  *)
THEOREM PeersAreDistinct == Spec => []PeersDistinct
<1>1. Init => ListsAreSafe
  BY SafeInit
<1>2. TypeInv /\ ListsAreSafe /\ [Next]_vars => ListsAreSafe'
  BY SafeNext
<1>3. ListsAreSafe => PeersDistinct
  BY DEF ListsAreSafe
<1> QED
  BY <1>1, <1>2, <1>3, TypeInvariant, PTL DEF Spec

------------------------------------------------------------------------------
(* Admins                                                                  *)

LEMMA PromotedExecutes ==
  ASSUME TypeInv, AdminsArePromoted, NEW n \in Node, NEW m \in Message, Fits(m), Executes(n, m)
  PROVE  AdminsArePromoted'
<1> SUFFICES ASSUME NEW s \in Node, s \in room'[s].admins, s # Creator
             PROVE  \E i \in DOMAIN log'[s] : log'[s][i].cmd = "promote" /\ log'[s][i].arg = s
  BY DEF AdminsArePromoted, Promoted
<1>1. room \in [Node -> Room]
  BY DEF TypeInv, Typed, TypeOK
<1>2. CASE s \in room[s].admins
  <2>1. PICK i \in DOMAIN log[s] : log[s][i].cmd = "promote" /\ log[s][i].arg = s
    BY <1>2 DEF AdminsArePromoted, Promoted
  <2> QED
    BY <2>1, LogsGrow
<1>3. CASE s \notin room[s].admins
  <2>1. s = n /\ s \in HandleCommand(n, room[n], m).admins
    BY <1>1, <1>3 DEF Executes
  <2>2. m.cmd = "promote" /\ m.arg = s
    BY <1>1, <1>3, <2>1, CommandEffect
  <2> QED
    BY <2>1, <2>2, LogsGrow
<1> QED
  BY <1>2, <1>3

LEMMA FirstExecutes ==
  ASSUME TypeInv, AdminsArePromoted, PromotionsGoFirst,
         NEW n \in Node, NEW m \in Message, Executes(n, m),
         \/ m.sender = n /\ (m.asAdmin => n \in room[n].admins)
         \/ \E k \in Node : \E i \in DOMAIN log[k] : FirstMissing(k, n, i) /\ m = log[k][i]
  PROVE  PromotionsGoFirst'
<1> DEFINE new == Len(log[n]) + 1
<1>1. /\ \A y \in Node : /\ DOMAIN log[y] \subseteq DOMAIN log'[y]
                         /\ \A i \in DOMAIN log[y] : log'[y][i] = log[y][i]
      /\ \A y \in Node \ {n} : log'[y] = log[y]
      /\ DOMAIN log'[n] = DOMAIN log[n] \cup {new}
      /\ log'[n][new] = m
  BY LogsGrow
<1>2. \A y \in Node : DOMAIN log[y] = 1..Len(log[y]) /\ Len(log[y]) \in Nat
  BY TypeFacts
<1> SUFFICES ASSUME NEW y \in Node, NEW i \in DOMAIN log'[y], log'[y][i].asAdmin,
                    log'[y][i].sender # Creator
             PROVE  \E j \in 1..(i - 1) :
                      log'[y][j].cmd = "promote" /\ log'[y][j].arg = log'[y][i].sender
  BY DEF PromotionsGoFirst
<1>3. CASE i \in DOMAIN log[y]
  <2>1. log'[y][i] = log[y][i]
    BY <1>1, <1>3
  <2>2. PICK j \in 1..(i - 1) : log[y][j].cmd = "promote" /\ log[y][j].arg = log[y][i].sender
    BY <1>3, <2>1 DEF PromotionsGoFirst
  <2>3. j \in DOMAIN log[y]
    BY <1>2, <1>3
  <2>4. log'[y][j] = log[y][j]
    BY <1>1, <2>3
  <2> QED
    BY <2>1, <2>2, <2>4
<1>4. CASE y = n /\ i = new
  <2>1. log'[y][i] = m
    BY <1>1, <1>4
  <2>2. \E j \in DOMAIN log[n] : log[n][j].cmd = "promote" /\ log[n][j].arg = m.sender
    <3>1. CASE m.sender = n /\ (m.asAdmin => n \in room[n].admins)
      BY <2>1, <3>1 DEF AdminsArePromoted, Promoted
    <3>2. CASE \E k \in Node : \E p \in DOMAIN log[k] : FirstMissing(k, n, p) /\ m = log[k][p]
      <4>1. PICK k \in Node, p \in Nat : p \in DOMAIN log[k] /\ FirstMissing(k, n, p) /\ m = log[k][p]
        BY <1>2, <3>2
      <4>2. PICK j \in 1..(p - 1) : log[k][j].cmd = "promote" /\ log[k][j].arg = m.sender
        BY <2>1, <4>1 DEF PromotionsGoFirst
      <4>3. log[k][j] \in Range(log[n])
        BY <4>1 DEF FirstMissing
      <4> QED
        BY <4>2, <4>3 DEF Range
    <3> QED
      BY <3>1, <3>2
  <2>3. PICK j \in DOMAIN log[n] : log[n][j].cmd = "promote" /\ log[n][j].arg = m.sender
    BY <2>2
  <2>4. j \in 1..(i - 1) /\ log'[y][j] = log[n][j]
    BY <1>1, <1>2, <1>4
  <2> QED
    BY <2>1, <2>3, <2>4
<1> QED
  BY <1>1, <1>3, <1>4

(* What a member that follows the creator makes of a command.              *)
LEMMA FollowedCommand ==
  ASSUME NEW n \in Node, NEW r \in Room, NEW m \in Message, Fits(m),
         r.admins \subseteq Known(n, r), m.cmd # "remove_peer"
  PROVE  /\ Known(n, r) \subseteq Known(n, HandleCommand(n, r, m))
         /\ r.admins \subseteq HandleCommand(n, r, m).admins
         /\ HandleCommand(n, r, m).admins \subseteq Known(n, HandleCommand(n, r, m))
         /\ m.cmd = "invite" => m.arg \in Known(n, HandleCommand(n, r, m))
         /\ m.cmd = "promote" /\ m.sender \in r.admins /\ m.arg \in Known(n, r)
              => m.arg \in HandleCommand(n, r, m).admins
<1> DEFINE h == HandleCommand(n, r, m)
<1>1. r.peers \in Seq(Node) /\ r.admins \subseteq Node
  BY DEF Room
<1>2. Known(n, r) \subseteq Known(n, h)
  <2>1. CASE h.peers = r.peers
    BY <2>1 DEF Known, Peers
  <2>2. CASE h.peers = Append(r.peers, m.arg)
    BY <1>1, <2>2, RangeOfAppend DEF Known, Peers
  <2> HIDE DEF h
  <2>3. h.peers = r.peers \/ h.peers = Append(r.peers, m.arg)
    BY CommandEffect DEF h
  <2> QED
    BY <2>1, <2>2, <2>3
<1>3. r.admins \subseteq h.admins
  <2> HIDE DEF h
  <2>1. h.admins = r.admins \/ h.admins = r.admins \cup {m.arg}
          \/ (m.arg \notin Known(n, r) /\ h.admins = r.admins \ {m.arg})
    BY CommandEffect DEF h
  <2> QED
    BY <2>1
<1>4. h.admins \subseteq Known(n, r)
  <2> HIDE DEF h
  <2>1. h.admins = r.admins \/ (m.arg \in Known(n, r) /\ h.admins = r.admins \cup {m.arg})
          \/ h.admins = r.admins \ {m.arg}
    BY CommandEffect DEF h
  <2> QED
    BY <2>1
<1>5. ASSUME m.cmd = "invite" PROVE m.arg \in Known(n, h)
  <2>1. CASE m.arg \in Known(n, r)
    BY <1>2, <2>1
  <2>2. CASE m.arg \notin Known(n, r)
    <3> DEFINE f == ForgetMeta(r, m.arg)
    <3>1. m.arg \in Node
      BY <1>5 DEF Fits
    <3>2. f \in Room /\ f.peers = r.peers
      BY <3>1, ForgottenMeta
    <3>3. h = [f EXCEPT !.peers = Append(@, m.arg)]
      BY <1>5, <2>2 DEF HandleCommand, Invite
    <3> HIDE DEF f, h
    <3>4. h.peers = Append(r.peers, m.arg)
      BY <3>2, <3>3 DEF Room
    <3>5. m.arg \in Peers(h)
      BY <1>1, <3>4, RangeOfAppend DEF Peers
    <3> QED
      BY <3>5 DEF Known
  <2> QED
    BY <2>1, <2>2
<1>6. ASSUME m.cmd = "promote", m.sender \in r.admins, m.arg \in Known(n, r)
      PROVE  m.arg \in h.admins
  <2>1. IsAdmin(n, r, m.sender)
    BY <1>6 DEF IsAdmin
  <2>2. h = [r EXCEPT !.admins = @ \cup {m.arg}]
    BY <1>6, <2>1 DEF HandleCommand, Promote
  <2> QED
    BY <2>2 DEF Room
<1> QED
  BY <1>2, <1>3, <1>4, <1>5, <1>6

LEMMA FollowedExecutes ==
  ASSUME TypeInv, RolesAreFollowed, PromotionsGoFirst',
         NEW n \in Node, NEW m \in Message, Fits(m), Executes(n, m),
         \A p \in Node : status'[p] = "out" <=> status[p] = "out", UNCHANGED inviter
  PROVE  RolesAreFollowed'
<1> DEFINE new == Len(log[n]) + 1
<1>1. /\ \A y \in Node : /\ DOMAIN log[y] \subseteq DOMAIN log'[y]
                         /\ \A i \in DOMAIN log[y] : log'[y][i] = log[y][i]
      /\ \A y \in Node \ {n} : log'[y] = log[y]
      /\ DOMAIN log'[n] = DOMAIN log[n] \cup {new}
      /\ log'[n][new] = m
  BY LogsGrow
<1>2. \A y \in Node : DOMAIN log[y] = 1..Len(log[y]) /\ Len(log[y]) \in Nat
  BY TypeFacts
<1>3. /\ room'[n] = HandleCommand(n, room[n], m)
      /\ \A y \in Node \ {n} : room'[y] = room[y]
      /\ room[n] \in Room
  BY DEF TypeInv, Typed, TypeOK, Executes
<1> SUFFICES ASSUME NEW y \in Node \ Racy, FollowsCreator(y)'
             PROVE  /\ Creator \in room'[y].admins
                    /\ room'[y].admins \subseteq Known(y, room'[y])
                    /\ \A i \in DOMAIN log'[y] :
                         /\ log'[y][i].cmd = "invite" => log'[y][i].arg \in Known(y, room'[y])
                         /\ log'[y][i].cmd = "promote" => log'[y][i].arg \in room'[y].admins
                         /\ log'[y][i].asAdmin => log'[y][i].sender \in room'[y].admins
  BY DEF RolesAreFollowed, Known, Peers
<1>4. FollowsCreator(y)
  <2>1. y = Creator \/ (status[y] # "out" /\ inviter[y] = Creator)
    BY DEF FollowsCreator
  <2>2. ~HasRemoval(y)
    BY <1>1 DEF FollowsCreator, HasRemoval
  <2>3. ~Disputed(y)
    <3>1. ASSUME NEW i \in DOMAIN log[y], log[y][i].cmd = "promote"
          PROVE  /\ log[y][i].asAdmin
                 /\ \E j \in 1..(i - 1) : log[y][j].cmd = "invite" /\ log[y][j].arg = log[y][i].arg
      <4>1. i \in DOMAIN log'[y] /\ log'[y][i] = log[y][i]
        BY <1>1
      <4>2. /\ log'[y][i].asAdmin
            /\ \E j \in 1..(i - 1) : log'[y][j].cmd = "invite" /\ log'[y][j].arg = log'[y][i].arg
        BY <3>1, <4>1 DEF FollowsCreator, Disputed
      <4>3. \A j \in 1..(i - 1) : log'[y][j] = log[y][j]
        BY <1>1, <1>2
      <4> QED
        BY <4>1, <4>2, <4>3
    <3> QED
      BY <3>1 DEF Disputed
  <2> QED
    BY <2>1, <2>2, <2>3 DEF FollowsCreator
<1>5. /\ Creator \in room[y].admins
      /\ room[y].admins \subseteq Known(y, room[y])
      /\ \A i \in DOMAIN log[y] :
           /\ log[y][i].cmd = "invite" => log[y][i].arg \in Known(y, room[y])
           /\ log[y][i].cmd = "promote" => log[y][i].arg \in room[y].admins
           /\ log[y][i].asAdmin => log[y][i].sender \in room[y].admins
  BY <1>4 DEF RolesAreFollowed
<1>6. CASE y # n
  BY <1>1, <1>3, <1>5, <1>6
<1>7. CASE y = n
  <2>1. m.cmd # "remove_peer"
    BY <1>1, <1>7 DEF FollowsCreator, HasRemoval
  <2>2. /\ Known(n, room[n]) \subseteq Known(n, room'[n])
        /\ room[n].admins \subseteq room'[n].admins
        /\ room'[n].admins \subseteq Known(n, room'[n])
        /\ m.cmd = "invite" => m.arg \in Known(n, room'[n])
        /\ m.cmd = "promote" /\ m.sender \in room[n].admins /\ m.arg \in Known(n, room[n])
             => m.arg \in room'[n].admins
    BY <1>3, <1>5, <1>7, <2>1, FollowedCommand
  <2>3. m.asAdmin => m.sender \in room[n].admins
    <3> SUFFICES ASSUME m.asAdmin, m.sender # Creator PROVE m.sender \in room[n].admins
      BY <1>5, <1>7
    <3>1. PICK j \in 1..(new - 1) : log'[n][j].cmd = "promote" /\ log'[n][j].arg = m.sender
      BY <1>1 DEF PromotionsGoFirst
    <3>2. j \in DOMAIN log[n] /\ log'[n][j] = log[n][j]
      BY <1>1, <1>2
    <3> QED
      BY <1>5, <1>7, <3>1, <3>2
  <2>4. m.cmd = "promote" => m.arg \in room'[n].admins
    <3> SUFFICES ASSUME m.cmd = "promote" PROVE m.arg \in room'[n].admins
      OBVIOUS
    <3>1. /\ m.asAdmin
          /\ \E j \in 1..(new - 1) : log'[n][j].cmd = "invite" /\ log'[n][j].arg = m.arg
      BY <1>1, <1>7 DEF FollowsCreator, Disputed
    <3>2. PICK j \in 1..(new - 1) : log'[n][j].cmd = "invite" /\ log'[n][j].arg = m.arg
      BY <3>1
    <3>3. j \in DOMAIN log[n] /\ log'[n][j] = log[n][j]
      BY <1>1, <1>2
    <3>4. m.arg \in Known(n, room[n])
      BY <1>5, <1>7, <3>2, <3>3
    <3> QED
      BY <2>2, <2>3, <3>1, <3>4
  <2>5. ASSUME NEW i \in DOMAIN log'[n]
        PROVE  /\ log'[n][i].cmd = "invite" => log'[n][i].arg \in Known(n, room'[n])
               /\ log'[n][i].cmd = "promote" => log'[n][i].arg \in room'[n].admins
               /\ log'[n][i].asAdmin => log'[n][i].sender \in room'[n].admins
    <3>1. CASE i \in DOMAIN log[n]
      <4>1. log'[n][i] = log[n][i]
        BY <1>1, <3>1
      <4> QED
        BY <1>5, <1>7, <2>2, <3>1, <4>1
    <3>2. CASE i = new
      BY <1>1, <2>2, <2>3, <2>4, <3>2
    <3> QED
      BY <1>1, <3>1, <3>2
  <2> QED
    BY <1>5, <1>7, <2>2, <2>5
<1> QED
  BY <1>6, <1>7

LEMMA RolesExecute ==
  ASSUME TypeInv, RolesAreSafe, NEW n \in Node, NEW m \in Message, Fits(m), Executes(n, m),
         \/ m.sender = n /\ (m.asAdmin => n \in room[n].admins)
         \/ \E k \in Node : \E i \in DOMAIN log[k] : FirstMissing(k, n, i) /\ m = log[k][i],
         status[n] # "out", \A p \in Node : status'[p] = "out" <=> status[p] = "out",
         UNCHANGED <<inviter, newPeers, header>>
  PROVE  RolesAreSafe'
<1>1. AdminsArePromoted'
  BY PromotedExecutes DEF RolesAreSafe
<1>2. PromotionsGoFirst'
  BY FirstExecutes DEF RolesAreSafe
<1>3. RolesAreFollowed'
  BY <1>2, FollowedExecutes DEF RolesAreSafe
<1>4. OutsidersHaveNothing'
  <2>1. \A y \in Node \ {n} : log'[y] = log[y] /\ roster'[y] = roster[y]
    BY DEF TypeInv, Typed, TypeOK, Executes
  <2> QED
    BY <2>1 DEF RolesAreSafe, OutsidersHaveNothing
<1> QED
  BY <1>1, <1>2, <1>3, <1>4, ConstantsAssumption DEF RolesAreSafe

LEMMA RolesAnnouncePeer ==
  ASSUME TypeInv, RolesAreSafe, NEW n \in Node, AnnouncePeer(n)
  PROVE  RolesAreSafe'
<1>1. PICK m \in Message : Own(n, m) /\ Executes(n, m)
  BY AnnounceExecutes
<1>2. status[n] # "out" /\ UNCHANGED <<inviter, newPeers, header>>
  BY DEF AnnouncePeer, RolesAreSafe, OutsidersHaveNothing
<1>3. \A p \in Node : status'[p] = "out" <=> status[p] = "out"
  BY DEF AnnouncePeer, TypeInv, Typed, TypeOK
<1> QED
  BY <1>1, <1>2, <1>3, RolesExecute DEF Own

LEMMA RolesSendCommand ==
  ASSUME TypeInv, RolesAreSafe, NEW n \in Node, SendCommand(n)
  PROVE  RolesAreSafe'
<1>1. PICK m \in Message : Own(n, m) /\ Executes(n, m)
  BY CommandExecutes
<1>2. status[n] # "out" /\ UNCHANGED <<status, inviter, newPeers, header>>
  BY DEF SendCommand
<1> QED
  BY <1>1, <1>2, RolesExecute DEF Own

LEMMA RolesDeliver ==
  ASSUME TypeInv, RolesAreSafe, NEW k \in Node, NEW n \in Node, Deliver(k, n)
  PROVE  RolesAreSafe'
<1>1. PICK i \in DOMAIN log[k] : /\ FirstMissing(k, n, i) /\ Executes(n, log[k][i])
                                 /\ log[k][i] \in Message /\ Fits(log[k][i])
  BY DeliverExecutes
<1>2. status[n] # "out" /\ UNCHANGED <<status, inviter, newPeers, header>>
  BY DeliverBetween
<1> QED
  BY <1>1, <1>2, RolesExecute

(* Whoever the creator calls starts with the creator as its admin.         *)
LEMMA RolesHandshake ==
  ASSUME TypeInv, RolesAreSafe, NEW n \in Node, NEW p \in Node,
         Handshake(n, p) \/ HandshakeFails(n, p)
  PROVE  RolesAreSafe'
<1>c. Calls(n, p)
  BY CallEffect
<1>1. /\ status[p] = "out" /\ status[n] # "out" /\ status'[p] # "out"
      /\ \A y \in Node \ {p} : status'[y] = "out" <=> status[y] = "out"
  BY <1>c DEF Calls
<1>2. /\ room'[p] = NewRoom(<<n>>, {n}) /\ inviter'[p] = n
      /\ \A y \in Node \ {p} : room'[y] = room[y] /\ inviter'[y] = inviter[y]
      /\ \A y \in Node \ {n} : newPeers'[y] = newPeers[y]
      /\ UNCHANGED <<log, header, roster>>
  BY <1>c DEF Calls
<1>3. p # n /\ p # Creator /\ log[p] = <<>>
  BY <1>1 DEF RolesAreSafe, OutsidersHaveNothing
<1>4. room'[p].admins = {n} /\ Peers(room'[p]) = {n}
  <2>1. Range(<<n>>) = {n}
    BY DEF Range
  <2> QED
    BY <1>2, <2>1, NewRoomTyped DEF Peers
<1>5. AdminsArePromoted'
  BY <1>2, <1>3, <1>4 DEF RolesAreSafe, AdminsArePromoted, Promoted
<1>6. PromotionsGoFirst'
  BY <1>2 DEF RolesAreSafe, PromotionsGoFirst
<1>7. RolesAreFollowed'
  <2> SUFFICES ASSUME NEW y \in Node \ Racy, FollowsCreator(y)'
               PROVE  /\ Creator \in room'[y].admins
                      /\ room'[y].admins \subseteq Known(y, room'[y])
                      /\ \A i \in DOMAIN log'[y] :
                           /\ log'[y][i].cmd = "invite" => log'[y][i].arg \in Known(y, room'[y])
                           /\ log'[y][i].cmd = "promote" => log'[y][i].arg \in room'[y].admins
                           /\ log'[y][i].asAdmin => log'[y][i].sender \in room'[y].admins
    BY DEF RolesAreFollowed, Known, Peers
  <2>1. CASE y = p
    <3>1. n = Creator
      BY <1>2, <1>3, <2>1 DEF FollowsCreator
    <3>2. DOMAIN log'[p] = {}
      BY <1>2, <1>3
    <3> QED
      BY <1>4, <2>1, <3>1, <3>2 DEF Known
  <2>2. CASE y # p
    <3>1. FollowsCreator(y)
      BY <1>1, <1>2, <2>2 DEF FollowsCreator, HasRemoval, Disputed
    <3> QED
      BY <1>2, <2>2, <3>1 DEF RolesAreSafe, RolesAreFollowed
  <2> QED
    BY <2>1, <2>2
<1>8. OutsidersHaveNothing'
  BY <1>1, <1>2 DEF RolesAreSafe, OutsidersHaveNothing
<1> QED
  BY <1>1, <1>3, <1>5, <1>6, <1>7, <1>8, ConstantsAssumption DEF RolesAreSafe

LEMMA RolesAppendPeers ==
  ASSUME TypeInv, RolesAreSafe, NEW n \in Node, AppendPeers(n)
  PROVE  RolesAreSafe'
<1>1. PICK s \in header[n] \cup {room[n].peers} :
           /\ s \in Seq(Node)
           /\ n \notin Racy => s = room[n].peers
           /\ room' = [room EXCEPT ![n] = [room[n] EXCEPT !.peers = s \o newPeers[n]]]
           /\ roster' = [roster EXCEPT ![n] = s \o newPeers[n]]
  BY AppendedSlice
<1>2. /\ room \in [Node -> Room] /\ newPeers[n] \in Seq(Node) /\ room[n] \in Room
      /\ header \in [Node -> SUBSET Seq(Node)] /\ roster \in [Node -> Seq(Node)]
      /\ newPeers \in [Node -> Seq(Node)]
  BY DEF TypeInv, Typed, TypeOK
<1>3. /\ UNCHANGED <<status, inviter, log>> /\ newPeers[n] # <<>>
      /\ newPeers' = [newPeers EXCEPT ![n] = <<>>]
      /\ header' = [header EXCEPT ![n] = {}]
  BY DEF AppendPeers
<1>4. /\ \A y \in Node \ {n} : /\ room'[y] = room[y] /\ roster'[y] = roster[y]
                               /\ newPeers'[y] = newPeers[y] /\ header'[y] = header[y]
      /\ room'[n] = [room[n] EXCEPT !.peers = s \o newPeers[n]]
  BY <1>1, <1>2, <1>3
<1>5. room'[n].admins = room[n].admins /\ room'[n].peers = s \o newPeers[n]
  BY <1>2, <1>4 DEF Room
<1>6. n \notin Racy => Known(n, room[n]) \subseteq Known(n, room'[n])
  <2>1. Range(s \o newPeers[n]) = Range(s) \cup Range(newPeers[n])
    BY <1>1, <1>2, RangeOfConcat
  <2> QED
    BY <1>1, <1>5, <2>1 DEF Known, Peers
<1>7. AdminsArePromoted'
  <2>1. \A y \in Node : room'[y].admins = room[y].admins
    BY <1>4, <1>5
  <2> QED
    BY <1>3, <2>1 DEF RolesAreSafe, AdminsArePromoted
<1>8. PromotionsGoFirst'
  BY <1>3 DEF RolesAreSafe, PromotionsGoFirst
<1>9. RolesAreFollowed'
  <2> SUFFICES ASSUME NEW y \in Node \ Racy, FollowsCreator(y)'
               PROVE  /\ Creator \in room'[y].admins
                      /\ room'[y].admins \subseteq Known(y, room'[y])
                      /\ \A i \in DOMAIN log'[y] :
                           /\ log'[y][i].cmd = "invite" => log'[y][i].arg \in Known(y, room'[y])
                           /\ log'[y][i].cmd = "promote" => log'[y][i].arg \in room'[y].admins
                           /\ log'[y][i].asAdmin => log'[y][i].sender \in room'[y].admins
    BY DEF RolesAreFollowed, Known, Peers
  <2>1. FollowsCreator(y)
    BY <1>3 DEF FollowsCreator, HasRemoval, Disputed
  <2>2. Known(y, room[y]) \subseteq Known(y, room'[y]) /\ room'[y].admins = room[y].admins
    BY <1>4, <1>5, <1>6
  <2> QED
    BY <1>3, <2>1, <2>2 DEF RolesAreSafe, RolesAreFollowed
<1>10. OutsidersHaveNothing'
  <2>1. status[n] # "out"
    BY <1>3 DEF RolesAreSafe, OutsidersHaveNothing
  <2> QED
    BY <1>3, <1>4, <2>1 DEF RolesAreSafe, OutsidersHaveNothing
<1> QED
  BY <1>3, <1>7, <1>8, <1>9, <1>10 DEF RolesAreSafe

LEMMA RolesUnchanged ==
  ASSUME RolesAreSafe, UNCHANGED <<room, inviter, log>>,
         \A p \in Node : status'[p] = "out" <=> status[p] = "out",
         OutsidersHaveNothing'
  PROVE  RolesAreSafe'
<1>1. AdminsArePromoted' /\ PromotionsGoFirst'
  BY DEF RolesAreSafe, AdminsArePromoted, Promoted, PromotionsGoFirst
<1>2. \A y \in Node : FollowsCreator(y)' => FollowsCreator(y)
  BY DEF FollowsCreator, HasRemoval, Disputed
<1>3. RolesAreFollowed'
  BY <1>2 DEF RolesAreSafe, RolesAreFollowed
<1> QED
  BY <1>1, <1>3, ConstantsAssumption DEF RolesAreSafe

LEMMA RolesInit ==
  ASSUME Init PROVE RolesAreSafe
<1>1. ASSUME NEW n \in Node
      PROVE  /\ room[n].peers = <<>> /\ room[n].admins = {n} \cap {Creator} /\ log[n] = <<>>
             /\ newPeers[n] = <<>> /\ header[n] = {} /\ roster[n] = <<>> /\ inviter[n] = n
             /\ status[n] = IF n = Creator THEN "creating" ELSE "out"
  BY DEF Init, NewRoom
<1>2. \A n \in Node : DOMAIN log[n] = {}
  BY <1>1
<1>3. AdminsArePromoted /\ PromotionsGoFirst /\ OutsidersHaveNothing
  BY <1>1, <1>2 DEF AdminsArePromoted, PromotionsGoFirst, OutsidersHaveNothing
<1>4. \A n \in Node : FollowsCreator(n) => n = Creator
  BY <1>1 DEF FollowsCreator
<1>5. RolesAreFollowed
  BY <1>1, <1>2, <1>4 DEF RolesAreFollowed, Known
<1> QED
  BY <1>1, <1>3, <1>5, ConstantsAssumption DEF RolesAreSafe

LEMMA RolesNext ==
  ASSUME TypeInv, RolesAreSafe, [Next]_vars PROVE RolesAreSafe'
<1>1. CASE UNCHANGED vars
  <2>1. OutsidersHaveNothing'
    BY <1>1 DEF vars, callVars, RolesAreSafe, OutsidersHaveNothing
  <2> QED
    BY <1>1, <2>1, RolesUnchanged DEF vars, callVars
<1>2. ASSUME NEW n \in Node, Accept(n) PROVE RolesAreSafe'
  <2>1. \A p \in Node : status'[p] = "out" <=> status[p] = "out"
    BY <1>2 DEF Accept, TypeInv, Typed, TypeOK
  <2>2. OutsidersHaveNothing'
    BY <1>2, <2>1 DEF Accept, callVars, RolesAreSafe, OutsidersHaveNothing
  <2> QED
    BY <1>2, <2>1, <2>2, RolesUnchanged DEF Accept
<1>3. ASSUME NEW n \in Node, ReadHeader(n) PROVE RolesAreSafe'
  <2>1. \A y \in Node : status[y] = "out" => y # n
    BY <1>3 DEF ReadHeader, RolesAreSafe, OutsidersHaveNothing
  <2>2. \A y \in Node \ {n} : header'[y] = header[y]
    BY <1>3 DEF ReadHeader, TypeInv, Typed, TypeOK
  <2>3. OutsidersHaveNothing'
    BY <1>3, <2>1, <2>2 DEF ReadHeader, RolesAreSafe, OutsidersHaveNothing
  <2> QED
    BY <1>3, <2>3, RolesUnchanged DEF ReadHeader
<1>4. CASE Next
  BY <1>2, <1>3, <1>4, NextSteps, RolesHandshake, RolesAppendPeers,
     RolesAnnouncePeer, RolesSendCommand, RolesDeliver
<1> QED
  BY <1>1, <1>4

(* Every chain of promotions that starts at the creator is followed by all *)
(* whom the creator has invited, as long as nobody was removed and no      *)
(* promotion was disputed.                                                 *)
THEOREM AdminsAreRecognised == Spec => []AdminsAreKnown
<1>1. Init => RolesAreSafe
  BY RolesInit
<1>2. TypeInv /\ RolesAreSafe /\ [Next]_vars => RolesAreSafe'
  BY RolesNext
<1>3. RolesAreSafe => AdminsAreKnown
  <2> SUFFICES ASSUME RolesAreSafe, NEW n \in Node \ Racy,
                      n = Creator \/ (status[n] = "joined" /\ inviter[n] = Creator),
                      ~HasRemoval(n), ~Disputed(n)
               PROVE  \A i \in DOMAIN log[n] : log[n][i].asAdmin => log[n][i].sender \in room[n].admins
    BY DEF AdminsAreKnown
  <2>1. FollowsCreator(n)
    BY DEF FollowsCreator
  <2> QED
    BY <2>1 DEF RolesAreSafe, RolesAreFollowed
<1> QED
  BY <1>1, <1>2, <1>3, TypeInvariant, PTL DEF Spec

------------------------------------------------------------------------------
(* Circles                                                                 *)

(* Whoever talk to each other are in one circle: else each would have      *)
(* invited the head of the other's circle.                                 *)
LEMMA SameCircle ==
  ASSUME TypeInv, InvitersAreIn, AllDescend, NEW h \in [Node -> Node], Circles(h),
         NEW k \in Node, NEW n \in Node, status[k] # "out", status[n] # "out",
         HasWordOf(k, n), HasWordOf(n, k)
  PROVE  h[k] = h[n]
<1> SUFFICES ASSUME h[k] # h[n] PROVE FALSE
  OBVIOUS
<1>1. k = inviter[h[n]] /\ n = inviter[h[k]]
  BY DEF Circles
<1>0. inviter \in [Node -> Node]
  BY DEF TypeInv, Typed, TypeOK
<1> DEFINE T == {x \in Node : h[x] \in {h[n], h[k]}}
<1>2. n \in T /\ T \in SUBSET Node
  OBVIOUS
<1>3. \A x \in T : status[x] # "out"
  BY DEF Circles
<1>4. ASSUME NEW x \in T PROVE inviter[x] \in T
  <2>1. CASE h[x] # x
    <3>1. h[x] = h[inviter[x]] /\ inviter[x] \in Node
      BY <1>0, <2>1 DEF Circles
    <3> QED
      BY <3>1
  <2>2. CASE h[x] = x
    BY <1>1, <2>2
  <2> QED
    BY <2>1, <2>2
<1>5. Creator \in T
  BY <1>2, <1>3, <1>4 DEF AllDescend
<1>6. h[Creator] = Creator /\ inviter[Creator] = Creator
  BY DEF Circles, InvitersAreIn
<1> QED
  BY <1>1, <1>5, <1>6

(* Whom n has invited is in its circle as soon as it has word of it.       *)
LEMMA GuestsAreInside ==
  ASSUME TypeInv, InvitersAreIn, AllDescend, NEW h \in [Node -> Node], Circles(h),
         NEW n \in Node, NEW p \in Node, status[n] # "out", status[p] # "out",
         inviter[p] = n, p # n,
         h[p] = h[n] \/ p = inviter[h[n]]
  PROVE  h[p] # p
<1> SUFFICES ASSUME h[p] = p PROVE FALSE
  OBVIOUS
<1> DEFINE T == {x \in Node : h[x] = h[n]} \cup {p}
<1>1. n \in T /\ T \in SUBSET Node
  OBVIOUS
<1>0. inviter \in [Node -> Node]
  BY DEF TypeInv, Typed, TypeOK
<1>2. \A x \in T : status[x] # "out"
  BY DEF Circles
<1>3. ASSUME NEW x \in T PROVE inviter[x] \in T
  <2>1. CASE x = p
    BY <1>1, <2>1
  <2>2. CASE h[x] # x /\ h[x] = h[n]
    <3>1. h[x] = h[inviter[x]] /\ inviter[x] \in Node
      BY <1>0, <2>2 DEF Circles
    <3> QED
      BY <2>2, <3>1 
  <2>3. CASE x = h[n] /\ h[x] = x
    BY <2>3, <1>1
  <2> QED
    BY <2>1, <2>2, <2>3
<1>4. Creator \in T
  BY <1>1, <1>2, <1>3 DEF AllDescend
<1>5. h[Creator] = Creator /\ inviter[Creator] = Creator
  BY DEF Circles, InvitersAreIn
<1> QED
  BY <1>4, <1>5

(* Who executes a command has word of its sender and of whom it invites.   *)
LEMMA WordGrows ==
  ASSUME TypeInv, NEW n \in Node, NEW m \in Message, Fits(m), Executes(n, m), UNCHANGED header
  PROVE  /\ \A y \in Node \ {n} : \A x : HasWordOf(y, x)' <=> HasWordOf(y, x)
         /\ \A x : HasWordOf(n, x)' =>
              HasWordOf(n, x) \/ x = m.sender \/ (m.cmd = "invite" /\ x = m.arg)
<1>1. /\ \A y \in Node \ {n} : \A x : HasHeardOf(y, x)' <=> HasHeardOf(y, x)
      /\ \A x : HasHeardOf(n, x)' => HasHeardOf(n, x) \/ (m.cmd = "invite" /\ x = m.arg)
  BY HeardGrows
<1>2. /\ \A y \in Node \ {n} : log'[y] = log[y]
      /\ DOMAIN log'[n] = DOMAIN log[n] \cup {Len(log[n]) + 1}
      /\ \A i \in DOMAIN log[n] : log'[n][i] = log[n][i]
      /\ log'[n][Len(log[n]) + 1] = m
  BY LogsGrow
<1>3. ASSUME NEW y \in Node \ {n}, NEW x PROVE HasWordOf(y, x)' <=> HasWordOf(y, x)
  BY <1>1, <1>2 DEF HasWordOf
<1>4. ASSUME NEW x, HasWordOf(n, x)'
      PROVE  HasWordOf(n, x) \/ x = m.sender \/ (m.cmd = "invite" /\ x = m.arg)
  <2>1. CASE HasHeardOf(n, x)'
    BY <1>1, <2>1 DEF HasWordOf
  <2>2. CASE \E i \in DOMAIN log'[n] : log'[n][i].sender = x
    <3>1. PICK i \in DOMAIN log'[n] : log'[n][i].sender = x
      BY <2>2
    <3>2. CASE i \in DOMAIN log[n]
      BY <1>2, <3>1, <3>2 DEF HasWordOf
    <3>3. CASE i = Len(log[n]) + 1
      BY <1>2, <3>1, <3>3
    <3> QED
      BY <1>2, <3>2, <3>3
  <2> QED
    BY <1>4, <2>1, <2>2 DEF HasWordOf
<1> QED
  BY <1>3, <1>4

(* Only a removal takes somebody off a list.                               *)
LEMMA PeersStay ==
  ASSUME NEW n \in Node, NEW r \in Room, NEW m \in Message, Fits(m), m.cmd # "remove_peer"
  PROVE  \/ Peers(HandleCommand(n, r, m)) = Peers(r)
         \/ /\ m.cmd = "invite" /\ m.arg \in Node \ Known(n, r)
            /\ Peers(HandleCommand(n, r, m)) = Peers(r) \cup {m.arg}
<1> DEFINE h == HandleCommand(n, r, m)
<1>1. r.peers \in Seq(Node)
  BY DEF Room
<1>2. \/ h.peers = r.peers
      \/ m.cmd = "invite" /\ m.arg \notin Known(n, r) /\ h.peers = Append(r.peers, m.arg)
  BY CommandEffect
<1> HIDE DEF h
<1>3. CASE h.peers = r.peers
  BY <1>3 DEF Peers, h
<1>4. CASE m.cmd = "invite" /\ m.arg \notin Known(n, r) /\ h.peers = Append(r.peers, m.arg)
  <2>1. m.arg \in Node
    BY <1>4 DEF Fits
  <2>2. Peers(h) = Peers(r) \cup {m.arg}
    BY <1>1, <1>4, RangeOfAppend DEF Peers
  <2> QED
    BY <1>4, <2>1, <2>2 DEF h
<1> QED
  BY <1>2, <1>3, <1>4

(* n executes a command that is its own or comes from k: all that it names *)
(* is in the circle of k, which is the circle of n.                        *)
LEMMA LinesExecute ==
  ASSUME TypeInv, LinesAreSafe, NEW n \in Node, NEW m \in Message, Fits(m), Executes(n, m),
         UNCHANGED <<inviter, newPeers, header>>, status[n] # "out",
         \A p \in Node : status'[p] = "out" <=> status[p] = "out",
         \A p \in Node : status[p] \in {"creating", "joined", "failed"} =>
                           status'[p] \in {"creating", "joined", "failed"},
         NEW k \in Node,
         k = n \/ (status[k] # "out" /\ HasHeardOf(k, n) /\ HasHeardOf(n, k)),
         m.sender = n \/ HasWordOf(k, m.sender),
         m.cmd = "invite" => HasWordOf(k, m.arg)
  PROVE  LinesAreSafe'
<1>0. PICK h \in [Node -> Node] : Circles(h)
  BY DEF LinesAreSafe, MembersFormCircles
<1>1. h[k] = h[n]
  <2>1. CASE k # n
    <3>1. HasWordOf(k, n) /\ HasWordOf(n, k)
      BY <2>1 DEF HasWordOf
    <3> QED
      BY <1>0, <2>1, <3>1, SameCircle DEF LinesAreSafe
  <2> QED
    BY <2>1
<1>2. /\ \A y \in Node \ {n} : \A x : HasWordOf(y, x)' <=> HasWordOf(y, x)
      /\ \A x : HasWordOf(n, x)' =>
           HasWordOf(n, x) \/ x = m.sender \/ (m.cmd = "invite" /\ x = m.arg)
  BY WordGrows
<1>3. /\ \A y \in Node \ {n} : room'[y] = room[y] /\ log'[y] = log[y]
      /\ room'[n] = HandleCommand(n, room[n], m)
      /\ room[n] \in Room
  BY DEF TypeInv, Typed, TypeOK, Executes
<1>4. InvitersAreIn' /\ AllDescend'
  <2>1. \A p \in Node : inviter[p] \in Node
    BY DEF TypeInv, Typed, TypeOK
  <2> QED
    BY <2>1 DEF LinesAreSafe, InvitersAreIn, AllDescend
<1>5. ASSUME NEW p \in Node, Kept(p) PROVE Kept(p)'
  <2>1. CASE inviter[p] # n
    <3>1. inviter[p] \in Node
      BY DEF TypeInv, Typed, TypeOK
    <3> QED
      BY <1>3, <1>5, <2>1, <3>1 DEF Kept, HasRemoval
  <2>2. CASE inviter[p] = n
    <3>1. /\ DOMAIN log'[n] = DOMAIN log[n] \cup {Len(log[n]) + 1}
          /\ \A i \in DOMAIN log[n] : log'[n][i] = log[n][i]
          /\ log'[n][Len(log[n]) + 1] = m
      BY LogsGrow
    <3>2. HasRemoval(n) => HasRemoval(n)'
      BY <3>1 DEF HasRemoval
    <3>3. m.cmd = "remove_peer" => HasRemoval(n)'
      BY <3>1 DEF HasRemoval
    <3>4. m.cmd # "remove_peer" => Peers(room[n]) \subseteq Peers(room'[n])
      <4>1. room[n] \in Room /\ room'[n] = HandleCommand(n, room[n], m)
        BY <1>3
      <4> QED
        BY <4>1, PeersStay
    <3>5. HasRemoval(n)' \/ p \in Peers(room'[n])
      BY <1>5, <2>2, <3>2, <3>3, <3>4 DEF Kept
    <3> QED
      BY <2>2, <3>5 DEF Kept, Peers, HasRemoval
  <2> QED
    BY <2>1, <2>2
<1>6. ASSUME NEW y \in Node, NEW x \in Node, HasWordOf(y, x)'
      PROVE  h[x] = h[y] \/ x = inviter[h[y]]
  <2>1. CASE HasWordOf(y, x)
    BY <1>0, <2>1 DEF Circles
  <2>2. CASE y = n /\ x = n
    BY <2>2
  <2>3. CASE y = n /\ HasWordOf(k, x)
    <3>1. h[x] = h[k] \/ x = inviter[h[k]]
      BY <1>0, <2>3 DEF Circles
    <3> QED
      BY <1>1, <2>3, <3>1
  <2> QED
    BY <1>2, <1>6, <2>1, <2>2, <2>3
<1>7. Circles(h)'
  <2>1. \A p \in Node : /\ h[p] # p => h[p] = h[inviter[p]] /\ Kept(p)'
                        /\ status'[p] = "out" => h[p] = p
                        /\ status'[p] # "out" => status'[h[p]] # "out"
    BY <1>0, <1>5 DEF Circles
  <2>2. h[Creator] = Creator
    BY <1>0 DEF Circles
  <2>3. \A y \in Node : \A p \in Range(newPeers[y]) : inviter[p] = y /\ h[p] = p /\ status'[p] # "out"
    <3> SUFFICES ASSUME NEW y \in Node, NEW p \in Range(newPeers[y])
                 PROVE  inviter[p] = y /\ h[p] = p /\ status'[p] # "out"
      OBVIOUS
    <3>1. p \in Node
      BY TypeFacts DEF Range
    <3> QED
      BY <1>0, <3>1 DEF Circles
  <2> QED
    BY <1>6, <2>1, <2>2, <2>3 DEF Circles
<1> QED
  BY <1>4, <1>7 DEF LinesAreSafe, MembersFormCircles

LEMMA LinesAnnouncePeer ==
  ASSUME TypeInv, OutsidersHaveNothing, LinesAreSafe, NEW n \in Node, AnnouncePeer(n)
  PROVE  LinesAreSafe'
<1>1. PICK m \in Message : /\ Own(n, m) /\ Executes(n, m)
                           /\ m.cmd = "invite" /\ m.arg \in Range(roster[n])
  BY AnnounceExecutes
<1>2. HasWordOf(n, m.arg)
  BY <1>1 DEF HasWordOf, HasHeardOf
<1>3. status[n] # "out" /\ UNCHANGED <<inviter, newPeers, header>>
  BY DEF AnnouncePeer, OutsidersHaveNothing
<1>4. \A p \in Node : /\ status'[p] = "out" <=> status[p] = "out"
                      /\ status[p] \in {"creating", "joined", "failed"} =>
                           status'[p] \in {"creating", "joined", "failed"}
  BY DEF AnnouncePeer, TypeInv, Typed, TypeOK
<1> QED
  BY <1>1, <1>2, <1>3, <1>4, LinesExecute DEF Own

LEMMA LinesSendCommand ==
  ASSUME TypeInv, LinesAreSafe, NEW n \in Node, SendCommand(n)
  PROVE  LinesAreSafe'
<1>1. PICK m \in Message : Own(n, m) /\ Executes(n, m) /\ m.cmd \in Cmd
  BY CommandExecutes
<1>2. m.cmd # "invite"
  BY <1>1, ConstantsAssumption
<1>3. status[n] # "out" /\ UNCHANGED <<status, inviter, newPeers, header>>
  BY DEF SendCommand
<1> QED
  BY <1>1, <1>2, <1>3, LinesExecute DEF Own

LEMMA LinesDeliver ==
  ASSUME TypeInv, LinesAreSafe, NEW k \in Node, NEW n \in Node, Deliver(k, n)
  PROVE  LinesAreSafe'
<1>1. PICK i \in DOMAIN log[k] : /\ Executes(n, log[k][i])
                                 /\ log[k][i] \in Message /\ Fits(log[k][i])
  BY DeliverExecutes
<1>2. /\ HasHeardOf(n, k) /\ HasHeardOf(k, n) /\ status[k] # "out" /\ status[n] # "out"
      /\ UNCHANGED <<status, inviter, newPeers, header>>
  BY DeliverBetween
<1>3. /\ HasWordOf(k, log[k][i].sender)
      /\ log[k][i].cmd = "invite" => HasWordOf(k, log[k][i].arg)
  BY <1>1 DEF HasWordOf, HasHeardOf
<1> QED
  BY <1>1, <1>2, <1>3, LinesExecute

(* Nobody has word of an outsider, who has sent nothing.                   *)
LEMMA OutsidersAreUnknown ==
  ASSUME TypeInv, ListsAreSafe, OutsidersHaveNothing, CausalOrder,
         NEW p \in Node, status[p] = "out", NEW n \in Node
  PROVE  ~HasWordOf(n, p)
<1>1. ~HasHeardOf(n, p)
  BY DEF ListsAreSafe, OutsidersAreUnheard
<1>2. ASSUME NEW i \in DOMAIN log[n], log[n][i].sender = p PROVE FALSE
  <2>1. \E j \in DOMAIN log[p] : log[p][j] = log[n][i]
    BY <1>2 DEF CausalOrder
  <2>2. DOMAIN log[p] = {}
    BY DEF OutsidersHaveNothing
  <2> QED
    BY <2>1, <2>2
<1> QED
  BY <1>1, <1>2 DEF HasWordOf

(* p is the head of a new circle, in which n does not find it.             *)
LEMMA LinesHandshake ==
  ASSUME TypeInv, ListsAreSafe, RolesAreSafe, CausalOrder, LinesAreSafe,
         NEW n \in Node, NEW p \in Node, Handshake(n, p) \/ HandshakeFails(n, p)
  PROVE  LinesAreSafe'
<1>c. Calls(n, p)
  BY CallEffect
<1>0. PICK h \in [Node -> Node] : Circles(h)
  BY DEF LinesAreSafe, MembersFormCircles
<1>1. /\ status[p] = "out" /\ status[n] \in {"creating", "joined"} /\ status'[p] = "requested"
      /\ status'[n] \in {"creating", "joined", "failed"}
      /\ \A y \in Node \ {n, p} : status'[y] = status[y]
  BY <1>c DEF Calls
<1>2. /\ room'[p] = NewRoom(<<n>>, {n}) /\ inviter'[p] = n
      /\ \A y \in Node \ {p} : room'[y] = room[y] /\ inviter'[y] = inviter[y]
      /\ \A y \in Node \ {n} : newPeers'[y] = newPeers[y]
      /\ newPeers'[n] = Append(newPeers[n], p) \/ newPeers'[n] = <<>>
      /\ UNCHANGED <<log, header, roster, open>>
      /\ inviter \in [Node -> Node] /\ newPeers[n] \in Seq(Node)
  BY <1>c, TypeFacts DEF Calls, TypeInv, Typed, TypeOK
<1>3. p # n /\ p # Creator /\ log[p] = <<>> /\ header[p] = {} /\ roster[p] = <<>>
  BY <1>1 DEF RolesAreSafe, OutsidersHaveNothing
<1>4. Peers(room'[p]) = {n}
  <2>1. Range(<<n>>) = {n}
    BY DEF Range
  <2> QED
    BY <1>2, <2>1, NewRoomTyped DEF Peers
<1>5. \A x \in Node : status[x] # "out" => inviter[x] \in Node \ {p}
  BY <1>1, <1>2 DEF LinesAreSafe, InvitersAreIn
<1>6. InvitersAreIn'
  <2>1. inviter'[Creator] = Creator
    BY <1>2, <1>3, ConstantsAssumption DEF LinesAreSafe, InvitersAreIn
  <2>2. ASSUME NEW x \in Node, status'[x] # "out"
        PROVE  status'[inviter'[x]] \in {"creating", "joined", "failed"}
    <3>1. CASE x = p
      BY <1>1, <1>2, <3>1
    <3>2. CASE x # p
      <4>1. status[x] # "out" /\ inviter'[x] = inviter[x]
        BY <1>1, <1>2, <2>2, <3>2
      <4>2. inviter[x] \in Node \ {p} /\ status[inviter[x]] \in {"creating", "joined", "failed"}
        BY <1>5, <4>1 DEF LinesAreSafe, InvitersAreIn
      <4> QED
        BY <1>1, <4>1, <4>2
    <3> QED
      BY <3>1, <3>2
  <2> QED
    BY <2>1, <2>2 DEF InvitersAreIn
<1>7. AllDescend'
  <2> SUFFICES ASSUME NEW T \in SUBSET Node, T # {},
                      \A x \in T : status'[x] # "out" /\ inviter'[x] \in T
               PROVE  Creator \in T
    BY DEF AllDescend
  <2> DEFINE S == T \ {p}
  <2>1. S # {}
    <3>1. CASE p \in T
      BY <1>2, <1>3, <3>1
    <3> QED
      BY <3>1
  <2>2. ASSUME NEW x \in S PROVE status[x] # "out" /\ inviter[x] \in S
    <3>1. status[x] # "out"
      BY <1>1
    <3> QED
      BY <1>2, <1>5, <3>1
  <2>3. S \in SUBSET Node
    OBVIOUS
  <2> HIDE DEF S
  <2>4. Creator \in S
    BY <2>1, <2>2, <2>3 DEF LinesAreSafe, AllDescend
  <2> QED
    BY <2>4 DEF S
<1>8. /\ \A y \in Node \ {p} : \A x : HasWordOf(y, x)' <=> HasWordOf(y, x)
      /\ \A x : HasWordOf(p, x)' => x = n
  <2>1. DOMAIN log[p] = {} /\ Range(roster[p]) = {}
    BY <1>3 DEF Range
  <2>2. \A b \in open : b[1] # p /\ b[2] # p
    BY <1>1 DEF TypeInv, BatchesFit
  <2> QED
    BY <1>2, <1>3, <1>4, <2>1, <2>2 DEF HasWordOf, HasHeardOf
<1>9. h[p] = p
  BY <1>0, <1>1 DEF Circles
<1>10. \A y \in Node \ {p} : h[y] # p
  BY <1>0, <1>1 DEF Circles
<1>11. ASSUME NEW x \in Node
       PROVE  /\ h[x] # x => h[x] = h[inviter'[x]] /\ Kept(x)'
              /\ status'[x] = "out" => h[x] = x
              /\ status'[x] # "out" => status'[h[x]] # "out"
  <2>1. CASE x = p
    BY <1>1, <1>9, <2>1
  <2>2. CASE x # p
    <3>1. status'[x] = "out" <=> status[x] = "out"
      BY <1>1, <2>2
    <3>2. h[x] # x => status[x] # "out" /\ h[x] = h[inviter[x]] /\ Kept(x)
      BY <1>0 DEF Circles
    <3>3. ASSUME status[x] # "out", Kept(x) PROVE Kept(x)'
      <4>1. inviter'[x] = inviter[x] /\ room'[inviter[x]] = room[inviter[x]]
        BY <1>2, <1>5, <2>2, <3>3
      <4> QED
        BY <1>2, <3>3, <4>1 DEF Kept, HasRemoval, Peers
    <3>4. inviter'[x] = inviter[x]
      BY <1>2, <2>2
    <3>5. /\ status[x] = "out" => h[x] = x
          /\ status[x] # "out" => status[h[x]] # "out"
      BY <1>0 DEF Circles
    <3>6. h[x] \in Node \ {p}
      BY <1>10, <2>2
    <3> QED
      BY <1>1, <3>1, <3>2, <3>3, <3>4, <3>5, <3>6
  <2> QED
    BY <2>1, <2>2
<1>12. ASSUME NEW y \in Node, NEW x \in Node, HasWordOf(y, x)'
       PROVE  h[x] = h[y] \/ x = inviter'[h[y]]
  <2>1. CASE y = p
    BY <1>2, <1>8, <1>9, <1>12, <2>1
  <2>2. CASE y # p
    <3>1. h[x] = h[y] \/ x = inviter[h[y]]
      BY <1>0, <1>8, <1>12, <2>2 DEF Circles
    <3>2. h[y] \in Node \ {p}
      BY <1>10, <2>2
    <3> QED
      BY <1>2, <3>1, <3>2
  <2> QED
    BY <2>1, <2>2
<1>13. ASSUME NEW y \in Node, NEW x \in Range(newPeers'[y])
       PROVE  inviter'[x] = y /\ h[x] = x /\ status'[x] # "out"
  <2>1. Range(Append(newPeers[n], p)) = Range(newPeers[n]) \cup {p}
    BY <1>2, RangeOfAppend
  <2>2. Range(<<>>) = {}
    BY DEF Range
  <2>3. x \in Range(newPeers[y]) \/ (y = n /\ x = p)
    <3>1. CASE y = n
      BY <1>2, <1>13, <2>1, <2>2, <3>1
    <3>2. CASE y # n
      BY <1>2, <1>13, <3>2
    <3> QED
      BY <3>1, <3>2
  <2>4. CASE y = n /\ x = p
    BY <1>1, <1>2, <1>9, <2>4
  <2>5. CASE x \in Range(newPeers[y])
    <3>1. x \in Node
      BY <2>5, TypeFacts DEF Range
    <3>2. inviter[x] = y /\ h[x] = x /\ status[x] # "out"
      BY <1>0, <2>5 DEF Circles
    <3>3. x # p
      BY <1>1, <3>2
    <3> QED
      BY <1>1, <1>2, <3>1, <3>2, <3>3
  <2> QED
    BY <2>3, <2>4, <2>5
<1>14. Circles(h)'
  BY <1>0, <1>11, <1>12, <1>13 DEF Circles
<1> QED
  BY <1>6, <1>7, <1>14 DEF LinesAreSafe, MembersFormCircles

(* The circles of the new peers become part of the circle of n.            *)
LEMMA LinesAppendPeers ==
  ASSUME TypeInv, ListsAreSafe, OutsidersHaveNothing, LinesAreSafe, NobodyForgets,
         NEW n \in Node, AppendPeers(n)
  PROVE  LinesAreSafe'
<1>0. PICK h \in [Node -> Node] : Circles(h)
  BY DEF LinesAreSafe, MembersFormCircles
<1>1. PICK s \in header[n] \cup {room[n].peers} :
        /\ s \in Seq(Node)
        /\ n \notin Racy => s = room[n].peers
        /\ room' = [room EXCEPT ![n] = [room[n] EXCEPT !.peers = s \o newPeers[n]]]
        /\ roster' = [roster EXCEPT ![n] = s \o newPeers[n]]
  BY AppendedSlice
<1> DEFINE Q == Range(newPeers[n])
           u == s \o newPeers[n]
<1>2. /\ room \in [Node -> Room] /\ newPeers \in [Node -> Seq(Node)] /\ room[n] \in Room
      /\ newPeers[n] \in Seq(Node) /\ inviter \in [Node -> Node]
      /\ header \in [Node -> SUBSET Seq(Node)] /\ roster \in [Node -> Seq(Node)]
  BY DEF TypeInv, Typed, TypeOK
<1>3. /\ UNCHANGED <<status, inviter, log, open>> /\ newPeers[n] # <<>>
      /\ newPeers' = [newPeers EXCEPT ![n] = <<>>]
      /\ header' = [header EXCEPT ![n] = {}]
  BY DEF AppendPeers
<1>4. Range(u) = Range(s) \cup Q /\ Q \subseteq Node
  <2>1. Range(u) = Range(s) \cup Q
    BY <1>1, <1>2, RangeOfConcat
  <2>2. Q \subseteq Node
    BY <1>2 DEF Range
  <2> QED
    BY <2>1, <2>2
<1>5. /\ room'[n].peers = u /\ roster'[n] = u /\ newPeers'[n] = <<>> /\ header'[n] = {}
      /\ \A y \in Node \ {n} : /\ room'[y] = room[y] /\ roster'[y] = roster[y]
                               /\ newPeers'[y] = newPeers[y] /\ header'[y] = header[y]
  <2>1. room'[n] = [room[n] EXCEPT !.peers = u]
    BY <1>1, <1>2
  <2>2. room'[n].peers = u
    BY <1>2, <2>1 DEF Room
  <2> QED
    BY <1>1, <1>2, <1>3, <2>2
<1> HIDE DEF u
<1>6. \A q \in Q : inviter[q] = n /\ h[q] = q /\ status[q] # "out"
  BY <1>0 DEF Circles
<1>7. status[n] # "out"
  BY <1>3 DEF OutsidersHaveNothing
<1>8. n \notin Q /\ h[n] \notin Q
  <2>1. n \notin Q
    BY DEF ListsAreSafe, NewcomersAreCutOff, CutOff
  <2>2. ASSUME h[n] \in Q PROVE FALSE
    <3> DEFINE q == h[n]
    <3>1. /\ q \in Node /\ inviter[q] = n /\ h[q] = q /\ status[q] # "out" /\ q # n
      BY <1>4, <1>6, <2>1, <2>2
    <3> HIDE DEF q
    <3>2. h[q] = h[n]
      BY <3>1 DEF q
    <3> QED
      BY <1>0, <1>7, <3>1, <3>2, GuestsAreInside DEF LinesAreSafe
  <2> QED
    BY <2>1, <2>2
<1>9. Creator \notin Q
  <2>1. inviter[Creator] = Creator
    BY DEF LinesAreSafe, InvitersAreIn
  <2> QED
    BY <1>6, <1>8, <2>1
<1>10. PICK g \in [Node -> Node] : \A x \in Node : g[x] = IF h[x] \in Q THEN h[n] ELSE h[x]
  <2>1. [x \in Node |-> IF h[x] \in Q THEN h[n] ELSE h[x]] \in [Node -> Node]
    OBVIOUS
  <2> QED
    BY <2>1
<1> HIDE DEF Q
<1>11. InvitersAreIn' /\ AllDescend'
  BY <1>3 DEF LinesAreSafe, InvitersAreIn, AllDescend
<1>12. ASSUME NEW y \in Node, NEW x \in Node, HasWordOf(y, x)'
       PROVE  HasWordOf(y, x) \/ (y = n /\ x \in Q)
  <2>1. CASE y # n
    BY <1>3, <1>5, <1>12, <2>1 DEF HasWordOf, HasHeardOf, Peers
  <2>2. CASE y = n
    <3>1. x \in Range(s) => HasHeardOf(n, x)
      BY <1>1 DEF HasHeardOf, Peers
    <3>2. \/ x \in Range(u)
          \/ \E i \in DOMAIN log[n] : log[n][i].cmd = "invite" /\ log[n][i].arg = x
          \/ \E i \in DOMAIN log[n] : log[n][i].sender = x
          \/ \E b \in open : (b[1] = n /\ b[2] = x) \/ (b[1] = x /\ b[2] = n)
      BY <1>3, <1>5, <1>12, <2>2 DEF HasWordOf, HasHeardOf, Peers
    <3> QED
      BY <1>4, <2>2, <3>1, <3>2 DEF HasWordOf, HasHeardOf
  <2> QED
    BY <2>1, <2>2
<1>13. ASSUME NEW y \in Node, NEW x \in Node, HasWordOf(y, x)'
       PROVE  g[x] = g[y] \/ x = inviter[g[y]]
  <2>1. CASE y = n /\ x \in Q
    BY <1>6, <1>8, <1>10, <2>1
  <2>2. CASE HasWordOf(y, x)
    <3>1. h[x] = h[y] \/ x = inviter[h[y]]
      BY <1>0, <2>2 DEF Circles
    <3>2. CASE h[x] = h[y]
      BY <1>10, <3>2
    <3>3. CASE x = inviter[h[y]] /\ h[y] \in Q
      BY <1>6, <1>8, <1>10, <3>3
    <3>4. CASE x = inviter[h[y]] /\ h[y] \notin Q
      BY <1>10, <3>4
    <3> QED
      BY <3>1, <3>2, <3>3, <3>4
  <2> QED
    BY <1>12, <1>13, <2>1, <2>2
<1>14. ASSUME NEW x \in Node, Kept(x) \/ x \in Q PROVE Kept(x)'
  <2>1. CASE inviter[x] # n
    <3>1. inviter[x] \in Node /\ Kept(x)
      BY <1>2, <1>6, <1>14, <2>1
    <3> QED
      BY <1>3, <1>5, <2>1, <3>1 DEF Kept, HasRemoval, Peers
  <2>2. CASE inviter[x] = n
    <3>1. x \in Q => x \in Range(u)
      BY <1>4
    <3>2. HasRemoval(n) \/ x \in Range(room[n].peers) \/ x \in Q
      BY <1>14, <2>2 DEF Kept, Peers
    <3>3. x \in Range(room[n].peers) /\ ~HasRemoval(n) => x \in Range(s)
      BY <1>1, <2>2 DEF NobodyForgets, Keeps, Peers
    <3>4. HasRemoval(n) \/ x \in Range(u)
      BY <1>4, <3>1, <3>2, <3>3
    <3> QED
      BY <1>3, <1>5, <2>2, <3>4 DEF Kept, HasRemoval, Peers
  <2> QED
    BY <2>1, <2>2
<1>15. ASSUME NEW x \in Node
       PROVE  /\ g[x] # x => g[x] = g[inviter[x]] /\ Kept(x)'
              /\ status[x] = "out" => g[x] = x
              /\ status[x] # "out" => status[g[x]] # "out"
  <2>1. inviter[x] \in Node
    BY <1>2
  <2>2. CASE x \in Q
    <3>1. g[x] = h[n] /\ g[inviter[x]] = h[n]
      BY <1>6, <1>8, <1>10, <2>2
    <3>2. status[h[n]] # "out"
      BY <1>0, <1>7 DEF Circles
    <3> QED
      BY <1>6, <1>14, <2>2, <3>1, <3>2
  <2>3. CASE h[x] # x
    <3>1. h[x] = h[inviter[x]] /\ Kept(x) /\ status[x] # "out"
      BY <1>0, <2>3 DEF Circles
    <3>2. g[x] = g[inviter[x]]
      BY <1>10, <2>1, <3>1
    <3>3. status[h[x]] # "out" /\ status[h[n]] # "out"
      BY <1>0, <1>7, <3>1 DEF Circles
    <3> QED
      BY <1>10, <1>14, <3>1, <3>2, <3>3
  <2>4. CASE h[x] = x /\ x \notin Q
    <3>1. g[x] = x
      BY <1>10, <2>4
    <3> QED
      BY <3>1
  <2> QED
    BY <2>2, <2>3, <2>4
<1>16. g[Creator] = Creator
  BY <1>0, <1>9, <1>10, ConstantsAssumption DEF Circles
<1>17. ASSUME NEW y \in Node, NEW x \in Range(newPeers'[y])
       PROVE  inviter[x] = y /\ g[x] = x /\ status[x] # "out"
  <2>1. y # n /\ x \in Range(newPeers[y])
    BY <1>5, <1>17 DEF Range
  <2>2. inviter[x] = y /\ h[x] = x /\ status[x] # "out"
    BY <1>0, <2>1 DEF Circles
  <2>3. x \in Node
    BY <2>1, TypeFacts DEF Range
  <2> QED
    BY <1>6, <1>10, <2>1, <2>2, <2>3
<1>18. Circles(g)'
  BY <1>3, <1>13, <1>15, <1>16, <1>17 DEF Circles
<1> QED
  BY <1>10, <1>11, <1>18 DEF LinesAreSafe, MembersFormCircles

LEMMA LinesReadHeader ==
  ASSUME TypeInv, LinesAreSafe, NEW n \in Node, ReadHeader(n)
  PROVE  LinesAreSafe'
<1>0. PICK h \in [Node -> Node] : Circles(h)
  BY DEF LinesAreSafe, MembersFormCircles
<1>1. UNCHANGED <<status, inviter, room, log, newPeers, roster, open>>
  BY DEF ReadHeader
<1>2. \A y \in Node : \A s \in header'[y] : s \in header[y] \/ (y = n /\ s = room[n].peers)
  BY DEF ReadHeader, TypeInv, Typed, TypeOK
<1>3. \A y \in Node : \A x : HasWordOf(y, x)' => HasWordOf(y, x)
  BY <1>1, <1>2 DEF HasWordOf, HasHeardOf, Peers
<1>4. Circles(h)'
  BY <1>0, <1>1, <1>3 DEF Circles, Kept, HasRemoval, Peers
<1> QED
  BY <1>1, <1>4 DEF LinesAreSafe, InvitersAreIn, AllDescend, MembersFormCircles

LEMMA LinesAccept ==
  ASSUME TypeInv, LinesAreSafe, NEW n \in Node, Accept(n)
  PROVE  LinesAreSafe'
<1>0. PICK h \in [Node -> Node] : Circles(h)
  BY DEF LinesAreSafe, MembersFormCircles
<1>1. UNCHANGED <<inviter, room, log, newPeers, header, roster, open>>
  BY DEF Accept, callVars
<1>2. \A p \in Node : /\ status'[p] = "out" <=> status[p] = "out"
                      /\ status[p] \in {"creating", "joined", "failed"} =>
                           status'[p] \in {"creating", "joined", "failed"}
  BY DEF Accept, TypeInv, Typed, TypeOK
<1>3. inviter \in [Node -> Node]
  BY DEF TypeInv, Typed, TypeOK
<1>4. \A y \in Node : \A x : HasWordOf(y, x)' <=> HasWordOf(y, x)
  BY <1>1 DEF HasWordOf, HasHeardOf, Peers
<1>5. \A p \in Node : Kept(p)' <=> Kept(p)
  BY <1>1 DEF Kept, HasRemoval, Peers
<1>6. ASSUME NEW y \in Node, NEW p \in Range(newPeers[y])
      PROVE  inviter[p] = y /\ h[p] = p /\ status'[p] # "out"
  <2>1. p \in Node
    BY TypeFacts DEF Range
  <2> QED
    BY <1>0, <1>2, <2>1 DEF Circles
<1>7. Circles(h)'
  BY <1>0, <1>1, <1>2, <1>4, <1>5, <1>6 DEF Circles
<1>8. InvitersAreIn' /\ AllDescend'
  BY <1>1, <1>2, <1>3 DEF LinesAreSafe, InvitersAreIn, AllDescend
<1> QED
  BY <1>7, <1>8 DEF LinesAreSafe, MembersFormCircles

LEMMA LinesInit ==
  ASSUME Init PROVE LinesAreSafe
<1>1. ASSUME NEW n \in Node
      PROVE  /\ room[n].peers = <<>> /\ log[n] = <<>> /\ newPeers[n] = <<>>
             /\ header[n] = {} /\ roster[n] = <<>> /\ inviter[n] = n /\ open = {}
             /\ status[n] = IF n = Creator THEN "creating" ELSE "out"
  BY DEF Init, NewRoom
<1>2. Range(<<>>) = {} /\ DOMAIN <<>> = {}
  BY DEF Range
<1> DEFINE h == [n \in Node |-> n]
<1>3. \A n, p \in Node : ~HasWordOf(n, p)
  BY <1>1, <1>2 DEF HasWordOf, HasHeardOf, Peers
<1>4. Circles(h)
  <2>1. \A p \in Node : h[p] = p
    OBVIOUS
  <2> HIDE DEF h
  <2> QED
    BY <1>1, <1>2, <1>3, <2>1, ConstantsAssumption DEF Circles
<1>5. InvitersAreIn /\ AllDescend
  BY <1>1, ConstantsAssumption DEF InvitersAreIn, AllDescend
<1>6. h \in [Node -> Node]
  OBVIOUS
<1> QED
  BY <1>4, <1>5, <1>6 DEF LinesAreSafe, MembersFormCircles

LEMMA LinesNext ==
  ASSUME TypeInv, ListsAreSafe, RolesAreSafe, CausalOrder, LinesAreSafe, NobodyForgets,
         [Next]_vars
  PROVE  LinesAreSafe'
<1>1. CASE UNCHANGED vars
  <2>1. UNCHANGED <<status, inviter, room, log, newPeers, header, roster, open>>
    BY <1>1 DEF vars, callVars
  <2>2. PICK h \in [Node -> Node] : Circles(h)
    BY DEF LinesAreSafe, MembersFormCircles
  <2>3. \A y \in Node : \A x : HasWordOf(y, x)' <=> HasWordOf(y, x)
    BY <2>1 DEF HasWordOf, HasHeardOf, Peers
  <2>4. \A p \in Node : Kept(p)' <=> Kept(p)
    BY <2>1 DEF Kept, HasRemoval, Peers
  <2>5. Circles(h)'
    BY <2>1, <2>2, <2>3, <2>4 DEF Circles
  <2> QED
    BY <2>1, <2>5 DEF LinesAreSafe, InvitersAreIn, AllDescend, MembersFormCircles
<1>2. CASE Next
  BY <1>2, NextSteps, LinesHandshake, LinesReadHeader, LinesAppendPeers, LinesAccept,
     LinesAnnouncePeer, LinesSendCommand, LinesDeliver DEF RolesAreSafe
<1> QED
  BY <1>1, <1>2

------------------------------------------------------------------------------
(* Who is in a list                                                        *)

(* Whom n has invited is in its list as soon as n, or a member that n      *)
(* talks to, has word of it.                                               *)
LEMMA GuestsAreListed ==
  ASSUME TypeInv, ListsAreSafe, OutsidersHaveNothing, CausalOrder, LinesAreSafe,
         NEW n \in Node, ~HasRemoval(n), status[n] # "out", NEW k \in Node,
         k = n \/ (status[k] # "out" /\ HasHeardOf(k, n) /\ HasHeardOf(n, k)),
         NEW s \in Node, s # n, inviter[s] = n, HasWordOf(k, s)
  PROVE  s \in Peers(room[n])
<1>1. PICK h \in [Node -> Node] : Circles(h)
  BY DEF LinesAreSafe, MembersFormCircles
<1>2. h[k] = h[n]
  <2>1. CASE k # n
    <3>1. HasWordOf(k, n) /\ HasWordOf(n, k)
      BY <2>1 DEF HasWordOf
    <3> QED
      BY <1>1, <2>1, <3>1, SameCircle DEF LinesAreSafe
  <2> QED
    BY <2>1
<1>3. status[s] # "out"
  BY OutsidersAreUnknown
<1>4. h[s] = h[n] \/ s = inviter[h[n]]
  BY <1>1, <1>2 DEF Circles
<1>5. h[s] # s
  BY <1>1, <1>3, <1>4, GuestsAreInside DEF LinesAreSafe
<1> QED
  BY <1>1, <1>5 DEF Circles, Kept

(* A command that invites a guest of n, its own or one of k, finds the     *)
(* guest on the list of n.                                                 *)
LEMMA KeepsExecute ==
  ASSUME TypeInv, ListsAreSafe, OutsidersHaveNothing, CausalOrder, LinesAreSafe, NobodyForgets,
         NEW n \in Node, NEW m \in Message, Fits(m), Executes(n, m),
         status[n] # "out", UNCHANGED <<inviter, header>>, NEW k \in Node,
         k = n \/ (status[k] # "out" /\ HasHeardOf(k, n) /\ HasHeardOf(n, k)),
         m.cmd = "invite" => HasWordOf(k, m.arg)
  PROVE  NobodyForgets'
<1>0. PICK new \in Nat : new = Len(log[n]) + 1
  BY TypeFacts
<1>1. /\ \A y \in Node \ {n} : log'[y] = log[y] /\ room'[y] = room[y] /\ roster'[y] = roster[y]
      /\ DOMAIN log'[n] = DOMAIN log[n] \cup {new}
      /\ \A i \in DOMAIN log[n] : log'[n][i] = log[n][i]
      /\ log'[n][new] = m /\ Range(log'[n]) = Range(log[n]) \cup {m}
      /\ room'[n] = HandleCommand(n, room[n], m) /\ room[n] \in Room
      /\ Left(n, m, roster'[n])
  <2>1. /\ \A y \in Node \ {n} : log'[y] = log[y]
        /\ DOMAIN log'[n] = DOMAIN log[n] \cup {new}
        /\ \A i \in DOMAIN log[n] : log'[n][i] = log[n][i]
        /\ log'[n][new] = m /\ Range(log'[n]) = Range(log[n]) \cup {m}
    BY <1>0, LogsGrow
  <2>2. room \in [Node -> Room] /\ roster \in [Node -> Seq(Node)]
    BY DEF TypeInv, Typed, TypeOK
  <2>3. PICK q \in Seq(Node) : Left(n, m, q) /\ roster' = [roster EXCEPT ![n] = q]
    BY DEF Executes
  <2>4. roster'[n] = q /\ \A y \in Node \ {n} : roster'[y] = roster[y]
    BY <2>2, <2>3
  <2>5. /\ \A y \in Node \ {n} : room'[y] = room[y]
        /\ room'[n] = HandleCommand(n, room[n], m)
    BY <2>2 DEF Executes
  <2> QED
    BY <2>1, <2>2, <2>3, <2>4, <2>5
<1> SUFFICES ASSUME NEW y \in Node, ~HasRemoval(y)' PROVE Keeps(y)'
  BY DEF NobodyForgets
<1>2. CASE y # n
  <2>1. /\ log'[y] = log[y] /\ room'[y] = room[y] /\ roster'[y] = roster[y]
        /\ UNCHANGED <<inviter, header>>
    BY <1>1, <1>2
  <2>2. Keeps(y)
    BY <2>1 DEF NobodyForgets, HasRemoval
  <2> QED
    BY <2>1, <2>2 DEF Keeps, Announced, Known, Peers
<1>3. CASE y = n
  <2>1. ~HasRemoval(n) /\ m.cmd # "remove_peer"
    BY <1>1, <1>3 DEF HasRemoval
  <2>2. Keeps(n)
    BY <2>1 DEF NobodyForgets
  <2>3. Announced(n)' = Announced(n) \cup Named(m)
    <3>1. ASSUME NEW x PROVE x \in Announced(n)' <=> x \in Announced(n) \cup Named(m)
      BY <1>1 DEF Announced, Named
    <3> QED
      BY <3>1
  <2>4. Range(roster[n]) \subseteq Range(roster'[n]) \cup Named(m)
    BY <1>1, <2>1 DEF Left
  <2>5. \/ Peers(room[n])' = Peers(room[n])
        \/ /\ m.cmd = "invite" /\ m.arg \in Node \ Known(n, room[n])
           /\ Peers(room[n])' = Peers(room[n]) \cup {m.arg}
    <3>1. room[n] \in Room /\ Peers(room[n])' = Peers(HandleCommand(n, room[n], m))
      BY <1>1 DEF Peers
    <3> QED
      BY <2>1, <3>1, PeersStay
  <2>6. ASSUME NEW p \in Peers(room[n])', inviter[p] = n PROVE p \in Peers(room[n])
    <3> SUFFICES ASSUME m.cmd = "invite", p = m.arg, p \in Node \ Known(n, room[n])
                 PROVE  p \in Peers(room[n])
      BY <2>5
    <3>1. p \in Node /\ p # n /\ HasWordOf(k, p)
      BY DEF Known
    <3> QED
      BY <2>1, <2>6, <3>1, GuestsAreListed
  <2>7. inviter'[n] \in Known(n, room[n])'
    BY <2>2, <2>5 DEF Keeps, Known
  <2>8. Peers(room[n])' \subseteq {inviter'[n]} \cup Announced(n)' \cup Range(roster'[n])
    BY <2>2, <2>3, <2>4, <2>5 DEF Keeps, Named
  <2>9. \A s \in header'[n] : inviter'[n] \in Range(s) \cup {n}
    BY <2>2 DEF Keeps
  <2>10. ASSUME NEW p \in Peers(room[n])', inviter'[p] = n
         PROVE  /\ n = Creator \/ inviter'[n] \in Announced(n)' \cup Range(roster'[n])
                /\ \A s \in header'[n] : p \in Range(s)
    <3>1. p \in Peers(room[n]) /\ inviter[p] = n
      BY <2>6, <2>10
    <3>2. /\ n = Creator \/ inviter[n] \in Announced(n) \cup Range(roster[n])
          /\ \A s \in header[n] : p \in Range(s)
      BY <2>2, <3>1 DEF Keeps
    <3> QED
      BY <2>3, <2>4, <3>2
  <2> QED
    BY <1>3, <2>7, <2>8, <2>9, <2>10 DEF Keeps
<1> QED
  BY <1>2, <1>3

LEMMA KeepsAnnouncePeer ==
  ASSUME TypeInv, ListsAreSafe, OutsidersHaveNothing, CausalOrder, LinesAreSafe, NobodyForgets,
         NEW n \in Node, AnnouncePeer(n)
  PROVE  NobodyForgets'
<1>1. PICK m \in Message : /\ Own(n, m) /\ Executes(n, m)
                           /\ m.cmd = "invite" /\ m.arg \in Range(roster[n])
  BY AnnounceExecutes
<1>2. HasWordOf(n, m.arg)
  BY <1>1 DEF HasWordOf, HasHeardOf
<1>3. status[n] # "out" /\ UNCHANGED <<inviter, header>>
  BY DEF AnnouncePeer, OutsidersHaveNothing
<1> QED
  BY <1>1, <1>2, <1>3, KeepsExecute DEF Own

LEMMA KeepsSendCommand ==
  ASSUME TypeInv, ListsAreSafe, OutsidersHaveNothing, CausalOrder, LinesAreSafe, NobodyForgets,
         NEW n \in Node, SendCommand(n)
  PROVE  NobodyForgets'
<1>1. PICK m \in Message : Own(n, m) /\ Executes(n, m) /\ m.cmd \in Cmd
  BY CommandExecutes
<1>2. m.cmd # "invite"
  BY <1>1, ConstantsAssumption
<1>3. status[n] # "out" /\ UNCHANGED <<inviter, header>>
  BY DEF SendCommand
<1> QED
  BY <1>1, <1>2, <1>3, KeepsExecute DEF Own

LEMMA KeepsDeliver ==
  ASSUME TypeInv, ListsAreSafe, OutsidersHaveNothing, CausalOrder, LinesAreSafe, NobodyForgets,
         NEW k \in Node, NEW n \in Node, Deliver(k, n)
  PROVE  NobodyForgets'
<1>1. PICK i \in DOMAIN log[k] : /\ Executes(n, log[k][i])
                                 /\ log[k][i] \in Message /\ Fits(log[k][i])
  BY DeliverExecutes
<1>2. /\ HasHeardOf(n, k) /\ HasHeardOf(k, n) /\ status[k] # "out" /\ status[n] # "out"
      /\ UNCHANGED <<inviter, header>>
  BY DeliverBetween
<1>3. log[k][i].cmd = "invite" => HasWordOf(k, log[k][i].arg)
  BY <1>1 DEF HasWordOf, HasHeardOf
<1> QED
  BY <1>1, <1>2, <1>3, KeepsExecute

LEMMA KeepsHandshake ==
  ASSUME TypeInv, ListsAreSafe, OutsidersHaveNothing, LinesAreSafe, NobodyForgets,
         NEW n \in Node, NEW p \in Node, Handshake(n, p) \/ HandshakeFails(n, p)
  PROVE  NobodyForgets'
<1>c. Calls(n, p)
  BY CallEffect
<1>1. status[p] = "out" /\ header[p] = {} /\ status[n] # "out"
  BY <1>c DEF Calls, OutsidersHaveNothing
<1>2. /\ room'[p] = NewRoom(<<n>>, {n}) /\ inviter'[p] = n
      /\ \A y \in Node \ {p} : room'[y] = room[y] /\ inviter'[y] = inviter[y]
      /\ UNCHANGED <<log, header, roster>>
  BY <1>c DEF Calls
<1> SUFFICES ASSUME NEW y \in Node, ~HasRemoval(y)' PROVE Keeps(y)'
  BY DEF NobodyForgets
<1>3. CASE y = p
  <2>1. Peers(room'[p]) = {n}
    <3>1. Range(<<n>>) = {n}
      BY DEF Range
    <3> QED
      BY <1>2, <3>1, NewRoomTyped DEF Peers
  <2>2. p # n /\ inviter'[n] # p
    <3>1. p # n /\ inviter'[n] = inviter[n]
      BY <1>1, <1>2
    <3>2. status[inviter[n]] # "out"
      BY <1>1 DEF LinesAreSafe, InvitersAreIn
    <3> QED
      BY <1>1, <3>1, <3>2
  <2> QED
    BY <1>1, <1>2, <1>3, <2>1, <2>2 DEF Keeps, Known, Peers
<1>4. CASE y # p
  <2>1. /\ room'[y] = room[y] /\ log'[y] = log[y] /\ inviter'[y] = inviter[y]
        /\ header'[y] = header[y] /\ roster'[y] = roster[y]
    BY <1>2, <1>4
  <2>2. Keeps(y)
    BY <2>1 DEF NobodyForgets, HasRemoval
  <2>3. p \notin Peers(room[y])
    BY <1>1 DEF ListsAreSafe, OutsidersAreUnheard, HasHeardOf
  <2>4. Peers(room[y]) \subseteq Node
    BY TypeFacts DEF Peers, Range
  <2>5. \A q \in Peers(room[y]) : inviter'[q] = inviter[q]
    BY <1>2, <2>3, <2>4
  <2>6. Announced(y)' = Announced(y) /\ Peers(room[y])' = Peers(room[y])
    BY <2>1 DEF Announced, Peers
  <2> QED
    BY <2>1, <2>2, <2>5, <2>6 DEF Keeps, Known
<1> QED
  BY <1>3, <1>4

LEMMA KeepsReadHeader ==
  ASSUME TypeInv, NobodyForgets, NEW n \in Node, ReadHeader(n)
  PROVE  NobodyForgets'
<1>1. /\ UNCHANGED <<inviter, room, log, roster>>
      /\ header'[n] = {room[n].peers}
      /\ \A y \in Node \ {n} : header'[y] = header[y]
  BY DEF ReadHeader, TypeInv, Typed, TypeOK
<1> SUFFICES ASSUME NEW y \in Node, ~HasRemoval(y)' PROVE Keeps(y)'
  BY DEF NobodyForgets
<1>2. Keeps(y)
  BY <1>1 DEF NobodyForgets, HasRemoval
<1>3. Announced(y)' = Announced(y) /\ Peers(room[y])' = Peers(room[y])
  BY <1>1 DEF Announced, Peers
<1>4. \A s \in header'[y] : s \in header[y] \/ Range(s) = Peers(room[y])
  BY <1>1 DEF Peers
<1> QED
  BY <1>1, <1>2, <1>3, <1>4 DEF Keeps, Known

LEMMA KeepsAppendPeers ==
  ASSUME TypeInv, OutsidersHaveNothing, LinesAreSafe, NobodyForgets,
         NEW n \in Node, AppendPeers(n)
  PROVE  NobodyForgets'
<1>1. PICK s \in header[n] \cup {room[n].peers} :
        /\ s \in Seq(Node)
        /\ room' = [room EXCEPT ![n] = [room[n] EXCEPT !.peers = s \o newPeers[n]]]
        /\ roster' = [roster EXCEPT ![n] = s \o newPeers[n]]
  BY AppendedSlice
<1> DEFINE u == s \o newPeers[n]
<1>2. /\ room \in [Node -> Room] /\ room[n] \in Room /\ newPeers[n] \in Seq(Node)
      /\ header \in [Node -> SUBSET Seq(Node)] /\ roster \in [Node -> Seq(Node)]
      /\ inviter \in [Node -> Node]
  BY DEF TypeInv, Typed, TypeOK
<1>3. /\ UNCHANGED <<inviter, log>> /\ newPeers[n] # <<>> /\ header' = [header EXCEPT ![n] = {}]
  BY DEF AppendPeers
<1>4. Range(s) \subseteq Range(u)
  BY <1>1, <1>2, RangeOfConcat
<1>5. /\ \A y \in Node \ {n} : /\ room'[y] = room[y] /\ roster'[y] = roster[y]
                               /\ header'[y] = header[y]
      /\ room'[n].peers = u /\ roster'[n] = u /\ header'[n] = {}
  <2>1. room'[n] = [room[n] EXCEPT !.peers = u]
    BY <1>1, <1>2
  <2>2. room'[n].peers = u
    BY <1>2, <2>1 DEF Room
  <2> QED
    BY <1>1, <1>2, <1>3, <2>2
<1> HIDE DEF u
<1> SUFFICES ASSUME NEW y \in Node, ~HasRemoval(y)' PROVE Keeps(y)'
  BY DEF NobodyForgets
<1>6. Keeps(y)
  BY <1>3 DEF NobodyForgets, HasRemoval
<1>7. Announced(y)' = Announced(y)
  BY <1>3 DEF Announced
<1>8. CASE y # n
  BY <1>3, <1>5, <1>6, <1>7, <1>8 DEF Keeps, Known, Peers
<1>9. CASE y = n
  <2>1. inviter[n] \in Range(s) \cup {n}
    BY <1>1, <1>6, <1>9 DEF Keeps, Known, Peers
  <2>2. n = Creator \/ inviter[n] # n
    <3>1. status[n] # "out"
      BY <1>3 DEF OutsidersHaveNothing
    <3>2. inviter[n] = n => Creator \in {n}
      BY <3>1 DEF LinesAreSafe, AllDescend
    <3> QED
      BY <3>2
  <2>3. Peers(room'[n]) = Range(u)
    BY <1>5 DEF Peers
  <2> QED
    BY <1>3, <1>4, <1>5, <1>7, <1>9, <2>1, <2>2, <2>3 DEF Keeps, Known, Peers
<1> QED
  BY <1>8, <1>9

LEMMA KeepsUnchanged ==
  ASSUME NobodyForgets, UNCHANGED <<inviter, room, log, header, roster>> PROVE NobodyForgets'
BY DEF NobodyForgets, HasRemoval, Keeps, Announced, Known, Peers

LEMMA KeepsInit ==
  ASSUME Init PROVE NobodyForgets
<1>1. ASSUME NEW n \in Node
      PROVE  /\ room[n].peers = <<>> /\ inviter[n] = n /\ header[n] = {}
  BY DEF Init, NewRoom
<1>2. Range(<<>>) = {}
  BY DEF Range
<1> QED
  BY <1>1, <1>2 DEF NobodyForgets, Keeps, Known, Peers

LEMMA KeepsNext ==
  ASSUME TypeInv, ListsAreSafe, RolesAreSafe, CausalOrder, LinesAreSafe, NobodyForgets,
         [Next]_vars
  PROVE  NobodyForgets'
<1>1. CASE UNCHANGED vars
  BY <1>1, KeepsUnchanged DEF vars, callVars
<1>2. CASE Next
  BY <1>2, NextSteps, KeepsHandshake, KeepsReadHeader, KeepsAppendPeers, KeepsAnnouncePeer,
     KeepsSendCommand, KeepsDeliver, KeepsUnchanged DEF RolesAreSafe, Accept, callVars
<1> QED
  BY <1>1, <1>2

------------------------------------------------------------------------------
(* Numbers                                                                 *)

(* A message comes after those that its sender sent before.                *)
LEMMA NumbersExecute ==
  ASSUME TypeInv, CausalOrder, NumbersRise, NEW n \in Node, NEW m \in Message, Executes(n, m),
         \/ m.sender = n /\ m.num = Len(log[n]) + 1
         \/ \E k \in Node : \E i \in DOMAIN log[k] : FirstMissing(k, n, i) /\ m = log[k][i]
  PROVE  NumbersRise'
<1> DEFINE new == Len(log[n]) + 1
<1>1. /\ \A y \in Node : /\ DOMAIN log[y] \subseteq DOMAIN log'[y]
                         /\ \A i \in DOMAIN log[y] : log'[y][i] = log[y][i]
      /\ \A y \in Node \ {n} : log'[y] = log[y]
      /\ DOMAIN log'[n] = DOMAIN log[n] \cup {new}
      /\ log'[n][new] = m
  BY LogsGrow
<1>2. \A y \in Node : DOMAIN log[y] = 1..Len(log[y]) /\ Len(log[y]) \in Nat
  BY TypeFacts
<1>3. /\ m.sender = n => m.num = new
      /\ \A j \in DOMAIN log[n] : log[n][j].sender = m.sender => log[n][j].num < m.num
  <2>1. CASE m.sender = n /\ m.num = new
    BY <1>2, <2>1 DEF NumbersRise
  <2>2. CASE \E k \in Node : \E i \in DOMAIN log[k] : FirstMissing(k, n, i) /\ m = log[k][i]
    <3>1. PICK k \in Node : \E i \in DOMAIN log[k] : FirstMissing(k, n, i) /\ m = log[k][i]
      BY <2>2
    <3>2. PICK i \in DOMAIN log[k] : m = log[k][i] /\ m \notin Range(log[n])
      BY <3>1 DEF FirstMissing
    <3> DEFINE s == m.sender
    <3>3. s \in Node
      BY DEF Message
    <3>4. PICK b \in DOMAIN log[s] : log[s][b] = m
      BY <3>2 DEF CausalOrder
    <3>5. s # n
      BY <3>2, <3>4 DEF Range
    <3>6. ASSUME NEW j \in DOMAIN log[n], log[n][j].sender = s PROVE log[n][j].num < m.num
      <4>1. PICK a \in DOMAIN log[s] :
              /\ log[s][a] = log[n][j]
              /\ \A c \in 1..(a - 1) : \E l \in 1..(j - 1) : log[n][l] = log[s][c]
        BY <3>6 DEF CausalOrder
      <4>2. a # b
        BY <3>2, <3>4, <4>1 DEF Range
      <4>3. ~(b < a)
        <5> SUFFICES ASSUME b < a PROVE FALSE
          OBVIOUS
        <5>1. b \in 1..(a - 1)
          BY <1>2, <3>3, <3>4, <4>1
        <5>2. PICK l \in 1..(j - 1) : log[n][l] = log[s][b]
          BY <4>1, <5>1
        <5>3. l \in DOMAIN log[n]
          BY <1>2, <3>6, <5>2
        <5> QED
          BY <3>2, <3>4, <5>2, <5>3 DEF Range
      <4>4. a < b
        BY <1>2, <3>3, <3>4, <4>1, <4>2, <4>3
      <4>5. log[s][a].num = a /\ log[s][b].num = b
        BY <3>3, <3>4, <3>6, <4>1 DEF NumbersRise
      <4> QED
        BY <3>4, <4>1, <4>4, <4>5
    <3> QED
      BY <3>5, <3>6
  <2> QED
    BY <2>1, <2>2
<1> SUFFICES ASSUME NEW y \in Node, NEW i \in DOMAIN log'[y]
             PROVE  /\ log'[y][i].sender = y => log'[y][i].num = i
                    /\ \A j \in 1..(i - 1) :
                         log'[y][j].sender = log'[y][i].sender => log'[y][j].num < log'[y][i].num
  BY DEF NumbersRise
<1>4. CASE i \in DOMAIN log[y]
  <2>1. \A j \in 1..(i - 1) : j \in DOMAIN log[y] /\ log'[y][j] = log[y][j]
    BY <1>1, <1>2, <1>4
  <2>2. log'[y][i] = log[y][i]
    BY <1>1, <1>4
  <2> QED
    BY <1>4, <2>1, <2>2 DEF NumbersRise
<1>5. CASE y = n /\ i = new
  <2>1. \A j \in 1..(i - 1) : j \in DOMAIN log[n] /\ log'[n][j] = log[n][j]
    BY <1>1, <1>2, <1>5
  <2> QED
    BY <1>1, <1>3, <1>5, <2>1
<1> QED
  BY <1>1, <1>4, <1>5

LEMMA NumbersNext ==
  ASSUME TypeInv, CausalOrder, NumbersRise, [Next]_vars PROVE NumbersRise'
<1>1. ASSUME NEW n \in Node, AnnouncePeer(n) PROVE NumbersRise'
  BY <1>1, AnnounceExecutes, NumbersExecute DEF Own
<1>2. ASSUME NEW n \in Node, SendCommand(n) PROVE NumbersRise'
  BY <1>2, CommandExecutes, NumbersExecute DEF Own
<1>3. ASSUME NEW k \in Node, NEW n \in Node, Deliver(k, n) PROVE NumbersRise'
  BY <1>3, DeliverExecutes, NumbersExecute
<1>4. ASSUME UNCHANGED log PROVE NumbersRise'
  BY <1>4 DEF NumbersRise
<1>5. CASE UNCHANGED vars
  BY <1>4, <1>5 DEF vars
<1>6. CASE Next
  BY <1>1, <1>2, <1>3, <1>4, <1>6, NextSteps
     DEF Handshake, HandshakeFails, ReadHeader, AppendPeers, Accept
<1> QED
  BY <1>5, <1>6

------------------------------------------------------------------------------
(* Rooms in the making                                                     *)

(* One turn of the loop takes its first peer.                              *)
LEMMA RosterShrinks ==
  ASSUME TypeInv, NEW n \in Node, AnnouncePeer(n)
  PROVE  /\ Len(roster'[n]) = Len(roster[n]) - 1 /\ roster'[n] \in Seq(Node)
         /\ \A y \in Node \ {n} : roster'[y] = roster[y] /\ room'[y] = room[y]
<1> DEFINE b == n \in room[n].admins
           m == [sender |-> n, num |-> Len(log[n]) + 1, asAdmin |-> b,
                 cmd |-> "invite", arg |-> Head(roster[n])]
<1>1. PushMessage(n, m, Tail(roster[n]))
  BY DEF AnnouncePeer, SendMessage
<1>2. roster[n] \in Seq(Node) /\ roster[n] # <<>> /\ Len(log[n]) + 1 \in Nat \ {0}
  BY TypeFacts DEF AnnouncePeer
<1>3. /\ Head(roster[n]) \in Node /\ Tail(roster[n]) \in Seq(Node)
      /\ Len(Tail(roster[n])) = Len(roster[n]) - 1
  BY <1>2, HeadTailProperties
<1>4. b \in BOOLEAN
  OBVIOUS
<1> HIDE DEF b
<1>5. m \in Message /\ m.cmd = "invite" /\ m.arg = Head(roster[n])
  BY <1>2, <1>3, <1>4 DEF Message
<1> HIDE DEF m
<1>6. Fits(m)
  BY <1>3, <1>5 DEF Fits
<1>7. /\ UpdateLoop(n, Tail(roster[n]), HandleCommand(n, room[n], m).peers)
      /\ room' = [room EXCEPT ![n] = HandleCommand(n, room[n], m)]
  BY <1>1 DEF PushMessage
<1>10. m \in Message /\ Tail(roster[n]) \in Seq(Node)
  BY <1>3, <1>5
<1>8. PICK s \in Seq(Node) : /\ roster' = [roster EXCEPT ![n] = s]
                            /\ Len(s) = Len(Tail(roster[n]))
  <2>1. PICK q : q = Tail(roster[n])
    OBVIOUS
  <2>2. q \in Seq(Node) /\ UpdateLoop(n, q, HandleCommand(n, room[n], m).peers)
    BY <1>7, <1>10, <2>1
  <2>3. \E s \in Seq(Node) :
              /\ roster' = [roster EXCEPT ![n] = s] /\ Len(s) = Len(q)
              /\ Range(s) \subseteq Range(q) \cup Peers(HandleCommand(n, room[n], m))
              /\ m.cmd # "remove_peer" /\ ~HasRemoval(n) => s = q
    BY <1>6, <1>10, <2>2, LoopUpdated
  <2> QED
    BY <2>1, <2>3
<1>9. roster \in [Node -> Seq(Node)] /\ room \in [Node -> Room]
  BY DEF TypeInv, Typed, TypeOK
<1> QED
  BY <1>3, <1>7, <1>8, <1>9

LEMMA MakingNext ==
  ASSUME TypeInv, RoomsInTheMaking, [Next]_vars PROVE RoomsInTheMaking'
<1>0. /\ status \in [Node -> {"out", "creating", "requested", "joined", "failed"}]
      /\ room \in [Node -> Room] /\ newPeers \in [Node -> Seq(Node)]
      /\ roster \in [Node -> Seq(Node)]
  BY DEF TypeInv, Typed, TypeOK
<1>1. ASSUME NEW n \in Node, NEW p \in Node, Handshake(n, p) PROVE RoomsInTheMaking'
  <2>1. /\ status' = [status EXCEPT ![p] = "requested"] /\ status[n] \in {"creating", "joined"}
        /\ \A y \in Node \ {p} : room'[y] = room[y]
        /\ \A y \in Node \ {n} : newPeers'[y] = newPeers[y]
        /\ UNCHANGED roster
    BY <1>0, <1>1 DEF Handshake, MayCall
  <2> QED
    BY <1>0, <2>1 DEF RoomsInTheMaking
<1>2. ASSUME NEW n \in Node, NEW p \in Node, HandshakeFails(n, p) PROVE RoomsInTheMaking'
  <2>1. /\ status'[p] = "requested" \/ p = n
        /\ status[p] = "out" /\ status[n] \in {"creating", "joined"} /\ roster[n] = <<>>
        /\ status'[n] = IF status[n] = "creating" THEN "failed" ELSE status[n]
        /\ \A y \in Node \ {n, p} : status'[y] = status[y]
        /\ \A y \in Node \ {p} : room'[y] = room[y]
        /\ \A y \in Node \ {n} : newPeers'[y] = newPeers[y]
        /\ newPeers'[n] = <<>>
        /\ UNCHANGED roster
    BY <1>0, <1>2 DEF HandshakeFails, MayCall
  <2> SUFFICES ASSUME NEW y \in Node
               PROVE  /\ status'[y] = "creating" /\ roster'[y] = <<>> => room'[y].peers = <<>>
                      /\ status'[y] = "failed" => /\ room'[y].peers = <<>> /\ roster'[y] = <<>>
                                                  /\ newPeers'[y] = <<>>
    BY DEF RoomsInTheMaking
  <2>2. CASE y = n
    BY <2>1, <2>2 DEF RoomsInTheMaking
  <2>3. CASE y = p
    BY <2>1, <2>3
  <2>4. CASE y # n /\ y # p
    BY <2>1, <2>4 DEF RoomsInTheMaking
  <2> QED
    BY <2>2, <2>3, <2>4
<1>3. ASSUME NEW n \in Node, AppendPeers(n) PROVE RoomsInTheMaking'
  <2>1. PICK s \in header[n] \cup {room[n].peers} :
          /\ s \in Seq(Node)
          /\ room' = [room EXCEPT ![n] = [room[n] EXCEPT !.peers = s \o newPeers[n]]]
          /\ roster' = [roster EXCEPT ![n] = s \o newPeers[n]]
    BY <1>3, AppendedSlice
  <2>2. newPeers[n] # <<>> /\ newPeers' = [newPeers EXCEPT ![n] = <<>>] /\ UNCHANGED status
    BY <1>3 DEF AppendPeers
  <2>3. s \o newPeers[n] # <<>>
    BY <1>0, <2>1, <2>2
  <2>4. /\ roster'[n] # <<>> /\ status[n] # "failed"
        /\ \A y \in Node \ {n} : /\ roster'[y] = roster[y] /\ room'[y] = room[y]
                                 /\ newPeers'[y] = newPeers[y]
    BY <1>0, <2>1, <2>2, <2>3 DEF RoomsInTheMaking
  <2> SUFFICES ASSUME NEW y \in Node
               PROVE  /\ status'[y] = "creating" /\ roster'[y] = <<>> => room'[y].peers = <<>>
                      /\ status'[y] = "failed" => /\ room'[y].peers = <<>> /\ roster'[y] = <<>>
                                                  /\ newPeers'[y] = <<>>
    BY DEF RoomsInTheMaking
  <2>5. CASE y = n
    BY <2>2, <2>4, <2>5
  <2>6. CASE y # n
    BY <2>2, <2>4, <2>6 DEF RoomsInTheMaking
  <2> QED
    BY <2>5, <2>6
<1>4. ASSUME NEW n \in Node, AnnouncePeer(n) PROVE RoomsInTheMaking'
  <2>1. /\ Len(roster'[n]) = Len(roster[n]) - 1
        /\ \A y \in Node \ {n} : roster'[y] = roster[y] /\ room'[y] = room[y]
    BY <1>4, RosterShrinks
  <2>2. /\ roster[n] # <<>> /\ UNCHANGED newPeers
        /\ status'[n] = IF status[n] = "creating" /\ Len(roster[n]) = 1 THEN "joined" ELSE status[n]
        /\ \A y \in Node \ {n} : status'[y] = status[y]
    BY <1>0, <1>4 DEF AnnouncePeer
  <2>3. roster'[n] = <<>> => Len(roster[n]) = 1
    <3>1. Len(roster[n]) \in Nat
      BY <1>0
    <3>2. roster'[n] = <<>> => Len(roster'[n]) = Len(<<>>)
      BY Zenon
    <3>3. Len(<<>>) = 0
      OBVIOUS
    <3> QED
      BY <2>1, <3>1, <3>2, <3>3
  <2>4. status'[n] # "failed" /\ (status'[n] = "creating" => roster'[n] # <<>>)
    BY <2>2, <2>3 DEF RoomsInTheMaking
  <2> QED
    BY <2>1, <2>2, <2>4 DEF RoomsInTheMaking
<1>5. ASSUME NEW n \in Node, NEW m, Executes(n, m), status[n] = "joined", UNCHANGED <<status, newPeers>>
      PROVE  RoomsInTheMaking'
  <2>1. \A y \in Node \ {n} : room'[y] = room[y] /\ roster'[y] = roster[y]
    BY <1>0, <1>5 DEF Executes
  <2> QED
    BY <1>5, <2>1 DEF RoomsInTheMaking
<1>6. ASSUME NEW n \in Node, SendCommand(n) PROVE RoomsInTheMaking'
  <2>1. status[n] = "joined" /\ UNCHANGED <<status, newPeers>>
    BY <1>6 DEF SendCommand
  <2> QED
    BY <1>5, <1>6, <2>1, CommandExecutes
<1>7. ASSUME NEW k \in Node, NEW n \in Node, Deliver(k, n) PROVE RoomsInTheMaking'
  <2>1. status[n] = "joined" /\ UNCHANGED <<status, newPeers>>
    BY <1>7, DeliverBetween
  <2> QED
    BY <1>5, <1>7, <2>1, DeliverExecutes
<1>8. ASSUME NEW n \in Node, Accept(n) PROVE RoomsInTheMaking'
  <2>1. status' = [status EXCEPT ![n] = "joined"] /\ UNCHANGED <<room, roster, newPeers>>
    BY <1>8 DEF Accept, callVars
  <2> QED
    BY <1>0, <2>1 DEF RoomsInTheMaking
<1>9. ASSUME UNCHANGED <<status, room, roster, newPeers>> PROVE RoomsInTheMaking'
  BY <1>9 DEF RoomsInTheMaking
<1>10. CASE UNCHANGED vars
  BY <1>9, <1>10 DEF vars, callVars
<1>11. CASE Next
  BY <1>1, <1>2, <1>3, <1>4, <1>6, <1>7, <1>8, <1>9, <1>11, NextSteps DEF ReadHeader
<1> QED
  BY <1>10, <1>11

LEMMA NumbersInit ==
  ASSUME Init PROVE NumbersRise /\ RoomsInTheMaking
BY DEF Init, NumbersRise, RoomsInTheMaking, NewRoom

------------------------------------------------------------------------------
(* Nicknames                                                               *)

(* What a command that removes nobody does to the nicknames.               *)
LEMMA NickEffect ==
  ASSUME NEW n \in Node, NEW r \in Room, NEW m \in Message, Fits(m), m.cmd # "remove_peer"
  PROVE  \/ /\ m.cmd = "nick" /\ m.sender \in Known(n, r)
            /\ HandleCommand(n, r, m).nick = [r.nick EXCEPT ![m.sender] = m.arg]
            /\ HandleCommand(n, r, m).peers = r.peers
         \/ /\ m.cmd = "invite" /\ m.arg \notin Known(n, r) /\ m.arg \in Node
            /\ HandleCommand(n, r, m).nick = [r.nick EXCEPT ![m.arg] = NoName]
            /\ HandleCommand(n, r, m).peers = Append(r.peers, m.arg)
         \/ /\ m.cmd = "nick" => m.sender \notin Known(n, r)
            /\ m.cmd = "invite" => m.arg \in Known(n, r)
            /\ HandleCommand(n, r, m).nick = r.nick
            /\ HandleCommand(n, r, m).peers = r.peers
<1> DEFINE h == HandleCommand(n, r, m)
<1>1. m.cmd \in {"invite", "promote", "name_room", "nick"}
  BY ConstantsAssumption DEF Message
<1>2. /\ r.peers \in Seq(Node) /\ r.admins \in SUBSET Node /\ r.name \in Name \cup {NoName}
      /\ r.nick \in [Node -> Name \cup {NoName}]
      /\ r = [peers |-> r.peers, admins |-> r.admins, name |-> r.name, nick |-> r.nick]
  BY DEF Room
<1>3. CASE m.cmd = "invite"
  <2>1. m.arg \in Node
    BY <1>3 DEF Fits
  <2>2. h = Invite(n, r, m)
    BY <1>3 DEF HandleCommand
  <2>3. CASE m.arg \in Known(n, r)
    BY <1>3, <2>2, <2>3 DEF Invite
  <2>4. CASE m.arg \notin Known(n, r)
    <3> DEFINE f == ForgetMeta(r, m.arg)
    <3>1. f \in Room /\ f.peers = r.peers /\ f.nick = [r.nick EXCEPT ![m.arg] = NoName]
      BY <2>1, ForgottenMeta
    <3>2. h = [f EXCEPT !.peers = Append(@, m.arg)]
      BY <2>2, <2>4 DEF Invite
    <3> HIDE DEF f, h
    <3>3. h.peers = Append(r.peers, m.arg) /\ h.nick = f.nick
      BY <3>1, <3>2 DEF Room
    <3> QED
      BY <1>3, <2>1, <2>4, <3>1, <3>3 DEF h
  <2> QED
    BY <2>3, <2>4
<1>4. CASE m.cmd = "promote"
  <2>1. h = Promote(n, r, m)
    BY <1>4 DEF HandleCommand
  <2>2. h.nick = r.nick /\ h.peers = r.peers
    BY <1>2, <2>1 DEF Promote
  <2> QED
    BY <1>4, <2>2
<1>5. CASE m.cmd = "name_room"
  <2>1. h = NameRoom(n, r, m)
    BY <1>5 DEF HandleCommand
  <2>2. h.nick = r.nick /\ h.peers = r.peers
    BY <1>2, <2>1 DEF NameRoom
  <2> QED
    BY <1>5, <2>2
<1>6. CASE m.cmd = "nick"
  <2>1. h = Nick(n, r, m)
    BY <1>6 DEF HandleCommand
  <2>2. CASE m.sender \in Known(n, r)
    <3> DEFINE k == [r.nick EXCEPT ![m.sender] = m.arg]
    <3>1. h = [peers |-> r.peers, admins |-> r.admins, name |-> r.name, nick |-> k]
      BY <1>2, <2>1, <2>2 DEF Nick
    <3> HIDE DEF h, k
    <3>2. h.nick = k /\ h.peers = r.peers
      BY <3>1
    <3> QED
      BY <1>6, <2>2, <3>2 DEF h, k
  <2>3. CASE m.sender \notin Known(n, r)
    BY <1>6, <2>1, <2>3 DEF Nick
  <2> QED
    BY <2>2, <2>3
<1> QED
  BY <1>1, <1>3, <1>4, <1>5, <1>6

(* A nickname is refused for good.                                         *)
LEMMA RefusedStays ==
  ASSUME TypeInv, NEW n \in Node, NEW m \in Message, Executes(n, m), UNCHANGED inviter,
         NEW y \in Node, NEW s, Refused(y, s)
  PROVE  Refused(y, s)'
<1>1. PICK i \in DOMAIN log[y] :
        /\ log[y][i].cmd = "nick" /\ log[y][i].sender = s
        /\ \A j \in 1..(i - 1) : ~(log[y][j].cmd = "invite" /\ log[y][j].arg = s)
  BY DEF Refused
<1>2. DOMAIN log[y] = 1..Len(log[y]) /\ Len(log[y]) \in Nat
  BY TypeFacts
<1>4. /\ DOMAIN log[y] \subseteq DOMAIN log'[y]
      /\ \A j \in DOMAIN log[y] : log'[y][j] = log[y][j]
  BY LogsGrow
<1>5. \A j \in 1..(i - 1) : j \in DOMAIN log[y]
  BY <1>1, <1>2
<1>3. \A j \in 1..(i - 1) : log'[y][j] = log[y][j]
  BY <1>4, <1>5
<1> QED
  BY <1>1, <1>3, <1>4 DEF Refused

(* A nickname takes the place of the last one; who is invited has none yet *)
(* or has had it refused.                                                  *)
LEMMA NicksExecute ==
  ASSUME TypeInv, ListsAreSafe, OutsidersHaveNothing, CausalOrder, LinesAreSafe,
         NobodyForgets, NicksAreFollowed,
         NEW n \in Node, NEW m \in Message, Fits(m), Executes(n, m),
         status[n] # "out", UNCHANGED inviter
  PROVE  NicksAreFollowed'
<1> DEFINE r == room[n]
           h == HandleCommand(n, r, m)
<1>0. PICK new \in Nat : new = Len(log[n]) + 1
  BY TypeFacts
<1>1. /\ \A y \in Node \ {n} : log'[y] = log[y] /\ room'[y] = room[y]
      /\ DOMAIN log'[n] = DOMAIN log[n] \cup {new}
      /\ \A i \in DOMAIN log[n] : log'[n][i] = log[n][i]
      /\ log'[n][new] = m
      /\ room'[n] = h /\ r \in Room
  BY <1>0, LogsGrow DEF TypeInv, Typed, TypeOK, Executes
<1>2. DOMAIN log[n] = 1..Len(log[n]) /\ Len(log[n]) \in Nat
  BY TypeFacts
<1> SUFFICES ASSUME NEW y \in Node \ Racy, ~HasRemoval(y)' PROVE Follows(y)'
  BY DEF NicksAreFollowed
<1>3. CASE y # n
  <2>1. log'[y] = log[y] /\ room'[y] = room[y]
    BY <1>1, <1>3
  <2>2. Follows(y)
    BY <2>1 DEF NicksAreFollowed, HasRemoval
  <2> QED
    BY <2>1, <2>2 DEF Follows, Refused, ShowsLast, NickOf, Known, Peers
<1>4. CASE y = n
  <2>1. ~HasRemoval(n) /\ m.cmd # "remove_peer"
    BY <1>1, <1>4 DEF HasRemoval
  <2>2. Follows(n)
    BY <1>4, <2>1 DEF NicksAreFollowed
  <2>3. \/ m.cmd = "nick" /\ m.sender \in Known(n, r) /\ h.peers = r.peers
             /\ h.nick = [r.nick EXCEPT ![m.sender] = m.arg]
        \/ m.cmd = "invite" /\ m.arg \notin Known(n, r) /\ m.arg \in Node
             /\ h.peers = Append(r.peers, m.arg) /\ h.nick = [r.nick EXCEPT ![m.arg] = NoName]
        \/ /\ m.cmd = "nick" => m.sender \notin Known(n, r)
           /\ m.cmd = "invite" => m.arg \in Known(n, r)
           /\ h.peers = r.peers /\ h.nick = r.nick
    <3>1. r \in Room /\ m.cmd # "remove_peer"
      BY <1>1, <2>1
    <3> HIDE DEF r
    <3> QED
      BY <3>1, NickEffect
  <2>4. r.nick \in [Node -> Name \cup {NoName}] /\ r.peers \in Seq(Node)
    BY <1>1 DEF Room
  <2>5. Known(n, h) = Known(n, r) \cup (IF m.cmd = "invite" THEN {m.arg} ELSE {})
    <3>1. Range(Append(r.peers, m.arg)) = Range(r.peers) \cup {m.arg}
      BY <2>4, RangeOfAppend
    <3> HIDE DEF h, r
    <3>2. CASE h.peers = r.peers /\ (m.cmd = "invite" => m.arg \in Known(n, r))
      BY <3>2 DEF Known, Peers
    <3>3. CASE h.peers = Append(r.peers, m.arg) /\ m.cmd = "invite"
      BY <3>1, <3>3 DEF Known, Peers
    <3> QED
      BY <2>3, <3>2, <3>3
  <2>6. Known(n, r) \subseteq Node
    BY <2>4 DEF Known, Peers, Range
  <2> HIDE DEF h, r
  <2>7. ASSUME NEW s \in Known(n, r), s \in Node PROVE Refused(n, s)' \/ ShowsLast(n, s)'
    <3>1. CASE Refused(n, s)
      BY <3>1, RefusedStays
    <3>2. CASE m.cmd = "nick" /\ m.sender = s
      <4>1. h.nick[s] = m.arg
        BY <2>3, <2>4, <2>7, <3>2
      <4>2. \A j \in DOMAIN log'[n] : j <= new
        BY <1>0, <1>1, <1>2
      <4>3. ShowsLast(n, s)'
        BY <1>1, <3>2, <4>1, <4>2 DEF ShowsLast, NickOf
      <4> QED
        BY <4>3
    <3>3. CASE ~(m.cmd = "nick" /\ m.sender = s) /\ ShowsLast(n, s)
      <4>1. h.nick[s] = r.nick[s]
        BY <2>3, <2>4, <2>7, <3>3
      <4>2. \A i \in DOMAIN log[n] : NickOf(n, i, s)' <=> NickOf(n, i, s)
        BY <1>1 DEF NickOf
      <4>3. ~NickOf(n, new, s)'
        BY <1>1, <3>3 DEF NickOf
      <4>4. CASE r.nick[s] = NoName /\ \A i \in DOMAIN log[n] : ~NickOf(n, i, s)
        BY <1>1, <4>1, <4>2, <4>3, <4>4 DEF ShowsLast, NickOf
      <4>5. CASE \E i \in DOMAIN log[n] : /\ NickOf(n, i, s) /\ r.nick[s] = log[n][i].arg
                                          /\ \A j \in DOMAIN log[n] : NickOf(n, j, s) => j <= i
        <5>1. PICK i \in DOMAIN log[n] : /\ NickOf(n, i, s) /\ r.nick[s] = log[n][i].arg
                                         /\ \A j \in DOMAIN log[n] : NickOf(n, j, s) => j <= i
          BY <4>5
        <5>2. NickOf(n, i, s)' /\ room'[n].nick[s] = log'[n][i].arg /\ i \in DOMAIN log'[n]
          BY <1>1, <4>1, <4>2, <5>1
        <5>3. \A j \in DOMAIN log'[n] : NickOf(n, j, s)' => j <= i
          BY <1>1, <4>2, <4>3, <5>1
        <5> QED
          BY <5>2, <5>3 DEF ShowsLast, NickOf
      <4> QED
        BY <3>3, <4>4, <4>5 DEF ShowsLast, r
    <3> QED
      BY <2>2, <2>7, <3>1, <3>2, <3>3 DEF Follows, r
  <2>8. ASSUME NEW s \in Known(n, h), s \notin Known(n, r) PROVE Refused(n, s)' \/ ShowsLast(n, s)'
    <3>1. m.cmd = "invite" /\ s = m.arg /\ s \in Node /\ h.nick[s] = NoName
      BY <2>3, <2>4, <2>5, <2>8
    <3>2. ~NickOf(n, new, s)'
      BY <1>1, <3>1 DEF NickOf
    <3>3. \A i \in DOMAIN log[n] : NickOf(n, i, s)' <=> NickOf(n, i, s)
      BY <1>1 DEF NickOf
    <3>4. CASE \A i \in DOMAIN log[n] : ~NickOf(n, i, s)
      BY <1>1, <3>1, <3>2, <3>3, <3>4 DEF ShowsLast, NickOf
    <3>5. CASE \E i \in DOMAIN log[n] : NickOf(n, i, s)
      <4>1. PICK i \in DOMAIN log[n] : NickOf(n, i, s)
        BY <3>5
      <4>2. n # s /\ inviter[n] # s
        BY <1>4, <2>1, <2>8 DEF NobodyForgets, Keeps, Known, r
      <4>3. inviter[s] # n
        <5>1. HasWordOf(n, s)
          BY <4>1 DEF HasWordOf, NickOf
        <5>2. s \notin Peers(room[n])
          BY <2>8 DEF Known, r
        <5> QED
          BY <1>4, <2>1, <3>1, <4>2, <5>1, <5>2, GuestsAreListed
      <4>4. \A j \in 1..(i - 1) : ~(log[n][j].cmd = "invite" /\ log[n][j].arg = s)
        <5>1. \A j \in 1..(i - 1) : j \in DOMAIN log[n]
          BY <1>2, <4>1
        <5> QED
          BY <2>2, <2>8, <5>1 DEF Follows, r
      <4>5. Refused(n, s)
        BY <4>1, <4>2, <4>3, <4>4 DEF Refused, NickOf
      <4> QED
        BY <4>5, RefusedStays
    <3> QED
      BY <3>4, <3>5
  <2>10. ASSUME NEW i \in DOMAIN log'[n], log'[n][i].cmd = "invite"
         PROVE  log'[n][i].arg \in Known(n, h)
    <3>1. CASE i \in DOMAIN log[n]
      BY <1>1, <2>2, <2>5, <2>10, <3>1 DEF Follows, r
    <3>2. CASE i = new
      BY <1>1, <2>5, <2>10, <3>2
    <3> QED
      BY <1>1, <3>1, <3>2
  <2>11. ASSUME NEW s \in Node \ Known(n, h) PROVE h.nick[s] = NoName
    <3>1. s \notin Known(n, r) /\ r.nick[s] = NoName
      BY <2>2, <2>5, <2>11 DEF Follows, r
    <3> QED
      BY <2>3, <2>4, <3>1
  <2>12. \A s \in Known(n, h) : Refused(n, s)' \/ ShowsLast(n, s)'
    BY <2>6, <2>7, <2>8
  <2>13. Known(n, room[n])' = Known(n, h)
    BY <1>1 DEF Known, Peers
  <2> QED
    BY <1>1, <1>4, <2>10, <2>11, <2>12, <2>13 DEF Follows
<1> QED
  BY <1>3, <1>4

LEMMA NicksHandshake ==
  ASSUME TypeInv, ListsAreSafe, OutsidersHaveNothing, CausalOrder, NicksAreFollowed,
         NEW n \in Node, NEW p \in Node, Handshake(n, p) \/ HandshakeFails(n, p)
  PROVE  NicksAreFollowed'
<1>c. Calls(n, p)
  BY CallEffect
<1>1. status[p] = "out" /\ log[p] = <<>>
  BY <1>c DEF Calls, OutsidersHaveNothing
<1>2. /\ room'[p] = NewRoom(<<n>>, {n}) /\ inviter'[p] = n
      /\ \A y \in Node \ {p} : room'[y] = room[y] /\ inviter'[y] = inviter[y]
      /\ UNCHANGED log
  BY <1>c DEF Calls
<1> SUFFICES ASSUME NEW y \in Node \ Racy, ~HasRemoval(y)' PROVE Follows(y)'
  BY DEF NicksAreFollowed
<1>3. CASE y = p
  <2>1. room'[p].peers = <<n>> /\ \A s \in Node : room'[p].nick[s] = NoName
    BY <1>2 DEF NewRoom
  <2>2. Range(<<n>>) = {n}
    BY DEF Range
  <2>3. Known(p, room'[p]) = {n, p}
    BY <2>1, <2>2 DEF Known, Peers
  <2>4. DOMAIN log'[p] = {}
    BY <1>1, <1>2
  <2>5. \A s \in {n, p} : ShowsLast(p, s)'
    BY <2>1, <2>4 DEF ShowsLast
  <2> QED
    BY <1>3, <2>1, <2>3, <2>4, <2>5 DEF Follows, Known, Peers
<1>4. CASE y # p
  <2>1. room'[y] = room[y] /\ log'[y] = log[y] /\ inviter'[y] = inviter[y]
    BY <1>2, <1>4
  <2>2. Follows(y)
    BY <2>1 DEF NicksAreFollowed, HasRemoval
  <2>3. ~HasWordOf(y, p)
    BY <1>1, OutsidersAreUnknown
  <2>4. p \notin Known(y, room[y])
    BY <1>4, <2>3 DEF HasWordOf, HasHeardOf, Known
  <2>5. Known(y, room[y]) \subseteq Node
    BY TypeFacts DEF Known, Peers, Range
  <2>6. \A s \in Known(y, room[y]) : s \in Node \ {p} /\ inviter'[s] = inviter[s]
    BY <1>2, <2>4, <2>5
  <2>7. ASSUME NEW s \in Known(y, room[y]) PROVE Refused(y, s)' \/ ShowsLast(y, s)'
    <3>1. Refused(y, s) \/ ShowsLast(y, s)
      BY <2>2 DEF Follows
    <3>2. Refused(y, s) => Refused(y, s)'
      BY <2>1, <2>6 DEF Refused
    <3>3. ShowsLast(y, s) => ShowsLast(y, s)'
      BY <2>1 DEF ShowsLast, NickOf
    <3> QED
      BY <3>1, <3>2, <3>3
  <2>8. Known(y, room[y])' = Known(y, room[y])
    BY <2>1 DEF Known, Peers
  <2> QED
    BY <2>1, <2>2, <2>7, <2>8 DEF Follows
<1> QED
  BY <1>3, <1>4

(* The new peers have sent nothing that n has got.                         *)
LEMMA NicksAppendPeers ==
  ASSUME TypeInv, ListsAreSafe, OutsidersHaveNothing, LinesAreSafe, NicksAreFollowed,
         NEW n \in Node, AppendPeers(n)
  PROVE  NicksAreFollowed'
<1>1. PICK s \in header[n] \cup {room[n].peers} :
        /\ s \in Seq(Node)
        /\ n \notin Racy => s = room[n].peers
        /\ room' = [room EXCEPT ![n] = [room[n] EXCEPT !.peers = s \o newPeers[n]]]
  BY AppendedSlice
<1>2. room \in [Node -> Room] /\ room[n] \in Room /\ newPeers[n] \in Seq(Node)
  BY DEF TypeInv, Typed, TypeOK
<1>3. UNCHANGED <<inviter, log>> /\ newPeers[n] # <<>>
  BY DEF AppendPeers
<1>4. /\ \A y \in Node \ {n} : room'[y] = room[y]
      /\ room'[n] = [room[n] EXCEPT !.peers = s \o newPeers[n]]
  BY <1>1, <1>2
<1>5. room'[n].peers = s \o newPeers[n] /\ room'[n].nick = room[n].nick
  BY <1>2, <1>4 DEF Room
<1>6. Range(s \o newPeers[n]) = Range(s) \cup Range(newPeers[n])
  BY <1>1, <1>2, RangeOfConcat
<1> SUFFICES ASSUME NEW y \in Node \ Racy, ~HasRemoval(y)' PROVE Follows(y)'
  BY DEF NicksAreFollowed
<1>7. Follows(y)
  BY <1>3 DEF NicksAreFollowed, HasRemoval
<1>8. CASE y # n
  BY <1>3, <1>4, <1>7, <1>8 DEF Follows, Refused, ShowsLast, NickOf, Known, Peers
<1>9. CASE y = n
  <2>1. Known(n, room[n])' = Known(n, room[n]) \cup Range(newPeers[n])
    BY <1>1, <1>5, <1>6, <1>9 DEF Known, Peers
  <2>2. \A x : (Refused(n, x)' <=> Refused(n, x)) /\ (ShowsLast(n, x)' <=> ShowsLast(n, x))
    BY <1>3, <1>5 DEF Refused, ShowsLast, NickOf
  <2>3. ASSUME NEW q \in Range(newPeers[n]), q \notin Known(n, room[n]) PROVE ShowsLast(n, q)
    <3>1. PICK h \in [Node -> Node] : Circles(h)
      BY DEF LinesAreSafe, MembersFormCircles
    <3>2. q \in Node
      BY <1>2 DEF Range
    <3>3. inviter[q] = n /\ h[q] = q /\ status[q] # "out"
      BY <3>1 DEF Circles
    <3>4. q # n /\ status[n] # "out"
      BY <1>3, <2>3 DEF Known, OutsidersHaveNothing
    <3>5. ~HasWordOf(n, q)
      BY <3>1, <3>2, <3>3, <3>4, GuestsAreInside DEF LinesAreSafe, Circles
    <3>6. \A i \in DOMAIN log[n] : ~NickOf(n, i, q)
      BY <3>5 DEF HasWordOf, NickOf
    <3>7. room[n].nick[q] = NoName
      BY <1>7, <1>9, <2>3, <3>2 DEF Follows
    <3> QED
      BY <3>6, <3>7 DEF ShowsLast
  <2>4. \A x \in Known(n, room[n])' : Refused(n, x)' \/ ShowsLast(n, x)'
    BY <1>7, <1>9, <2>1, <2>2, <2>3 DEF Follows
  <2>5. \A x \in Node \ Known(n, room[n])' : room'[n].nick[x] = NoName
    BY <1>5, <1>7, <1>9, <2>1 DEF Follows
  <2>6. \A i \in DOMAIN log'[n] : log'[n][i].cmd = "invite" => log'[n][i].arg \in Known(n, room[n])'
    BY <1>3, <1>7, <1>9, <2>1 DEF Follows
  <2> QED
    BY <1>9, <2>4, <2>5, <2>6 DEF Follows
<1> QED
  BY <1>8, <1>9

LEMMA NicksUnchanged ==
  ASSUME NicksAreFollowed, UNCHANGED <<inviter, room, log>> PROVE NicksAreFollowed'
BY DEF NicksAreFollowed, HasRemoval, Follows, Refused, ShowsLast, NickOf, Known, Peers

LEMMA NicksInit ==
  ASSUME Init PROVE NicksAreFollowed
<1>1. ASSUME NEW n \in Node
      PROVE  /\ room[n].peers = <<>> /\ log[n] = <<>> /\ inviter[n] = n
             /\ \A s \in Node : room[n].nick[s] = NoName
  BY DEF Init, NewRoom
<1>2. Range(<<>>) = {} /\ DOMAIN <<>> = {}
  BY DEF Range
<1>3. ASSUME NEW n \in Node PROVE Follows(n)
  <2>1. Known(n, room[n]) = {n}
    BY <1>1, <1>2 DEF Known, Peers
  <2>2. ShowsLast(n, n)
    BY <1>1, <1>2 DEF ShowsLast
  <2> QED
    BY <1>1, <1>2, <2>1, <2>2 DEF Follows
<1> QED
  BY <1>3 DEF NicksAreFollowed

LEMMA NicksNext ==
  ASSUME TypeInv, ListsAreSafe, RolesAreSafe, CausalOrder, LinesAreSafe, NobodyForgets,
         NicksAreFollowed, [Next]_vars
  PROVE  NicksAreFollowed'
<1>0. OutsidersHaveNothing
  BY DEF RolesAreSafe
<1>1. ASSUME NEW n \in Node, AnnouncePeer(n) PROVE NicksAreFollowed'
  <2>1. status[n] # "out" /\ UNCHANGED inviter
    BY <1>0, <1>1 DEF AnnouncePeer, OutsidersHaveNothing
  <2> QED
    BY <1>0, <1>1, <2>1, AnnounceExecutes, NicksExecute DEF Own
<1>2. ASSUME NEW n \in Node, SendCommand(n) PROVE NicksAreFollowed'
  <2>1. status[n] # "out" /\ UNCHANGED inviter
    BY <1>2 DEF SendCommand
  <2> QED
    BY <1>0, <1>2, <2>1, CommandExecutes, NicksExecute DEF Own
<1>3. ASSUME NEW k \in Node, NEW n \in Node, Deliver(k, n) PROVE NicksAreFollowed'
  <2>1. status[n] # "out" /\ UNCHANGED inviter
    BY <1>3, DeliverBetween
  <2> QED
    BY <1>0, <1>3, <2>1, DeliverExecutes, NicksExecute
<1>4. CASE UNCHANGED vars
  BY <1>4, NicksUnchanged DEF vars
<1>5. CASE Next
  BY <1>0, <1>1, <1>2, <1>3, <1>5, NextSteps, NicksHandshake, NicksAppendPeers, NicksUnchanged
     DEF ReadHeader, Accept
<1> QED
  BY <1>4, <1>5

------------------------------------------------------------------------------
(* Members at rest                                                         *)

(* What the agreement of members at rest follows from.                     *)
AgreementInv ==
  /\ TypeInv /\ ListsAreSafe /\ RolesAreSafe /\ CausalOrder
  /\ LinesAreSafe /\ NobodyForgets /\ NumbersRise /\ RoomsInTheMaking /\ NicksAreFollowed

LEMMA AgreementInvIsKept == Spec => []AgreementInv
<1>1. Init => AgreementInv
  <2>1. Init => CausalOrder
    BY DEF Init, CausalOrder
  <2> QED
    BY <2>1, TypeInit, SafeInit, RolesInit, LinesInit, KeepsInit, NumbersInit, NicksInit DEF AgreementInv
<1>2. AgreementInv /\ [Next]_vars => AgreementInv'
  <2> SUFFICES ASSUME AgreementInv, [Next]_vars PROVE AgreementInv'
    OBVIOUS
  <2>1. TypeInv' /\ ListsAreSafe' /\ RolesAreSafe' /\ CausalOrder'
    BY TypeNext, SafeNext, RolesNext, CausalNext DEF AgreementInv
  <2>2. LinesAreSafe' /\ NobodyForgets' /\ NumbersRise' /\ RoomsInTheMaking'
    BY LinesNext, KeepsNext, NumbersNext, MakingNext DEF AgreementInv
  <2>3. NicksAreFollowed'
    BY NicksNext DEF AgreementInv
  <2> QED
    BY <2>1, <2>2, <2>3 DEF AgreementInv
<1> QED
  BY <1>1, <1>2, PTL DEF Spec

(* At rest connected members have got each other's messages.               *)
LEMMA RestingMembers ==
  ASSUME TypeInv, RoomsInTheMaking, Quiescent,
         NEW m \in Node, NEW n \in Node, Connected(m, n)
  PROVE  status[m] = "joined" /\ Connected(n, m) /\ Range(log[m]) = Range(log[n])
<1>1. Idle(m) /\ n \in Peers(room[m]) /\ m \in Peers(room[n])
  BY DEF Quiescent, Connected
<1>2. Range(<<>>) = {}
  BY DEF Range
<1>3. status[m] = "joined"
  <2>1. CASE status[m] = "creating"
    <3>1. room[m].peers = <<>>
      BY <1>1, <2>1 DEF RoomsInTheMaking, Idle
    <3> QED
      BY <1>1, <1>2, <3>1 DEF Peers
  <2> QED
    BY <2>1 DEF Connected
<1>4. Connected(n, m)
  BY <1>1, <1>3 DEF Connected
<1>5. Missing(m, n) = {} /\ Missing(n, m) = {}
  BY <1>4 DEF Quiescent
<1> QED
  BY <1>3, <1>4, <1>5 DEF Missing, Range

(* The nickname that both show is the one with the highest number.         *)
LEMMA SameLast ==
  ASSUME TypeInv, NumbersRise, NEW m \in Node, NEW n \in Node, Range(log[m]) = Range(log[n]),
         NEW s \in Node, ShowsLast(m, s), ShowsLast(n, s)
  PROVE  room[m].nick[s] = room[n].nick[s]
<1> DEFINE L(x, i) == /\ NickOf(x, i, s) /\ room[x].nick[s] = log[x][i].arg
                      /\ \A j \in DOMAIN log[x] : NickOf(x, j, s) => j <= i
<1>1. /\ \A i \in DOMAIN log[m] : \E j \in DOMAIN log[n] : log[n][j] = log[m][i]
      /\ \A i \in DOMAIN log[n] : \E j \in DOMAIN log[m] : log[m][j] = log[n][i]
  BY DEF Range
<1>2. CASE \A i \in DOMAIN log[m] : ~NickOf(m, i, s)
  <2>1. \A i \in DOMAIN log[n] : ~NickOf(n, i, s)
    BY <1>1, <1>2 DEF NickOf
  <2> QED
    BY <1>2, <2>1 DEF ShowsLast
<1>3. CASE \A i \in DOMAIN log[n] : ~NickOf(n, i, s)
  <2>1. \A i \in DOMAIN log[m] : ~NickOf(m, i, s)
    BY <1>1, <1>3 DEF NickOf
  <2> QED
    BY <1>3, <2>1 DEF ShowsLast
<1>4. CASE (\E i \in DOMAIN log[m] : L(m, i)) /\ (\E j \in DOMAIN log[n] : L(n, j))
  <2>1. PICK i \in DOMAIN log[m] : L(m, i)
    BY <1>4
  <2>2. PICK j \in DOMAIN log[n] : L(n, j)
    BY <1>4
  <2>3. PICK k \in DOMAIN log[n] : log[n][k] = log[m][i]
    BY <1>1
  <2>4. PICK l \in DOMAIN log[m] : log[m][l] = log[n][j]
    BY <1>1
  <2>5. k <= j /\ l <= i
    BY <2>1, <2>2, <2>3, <2>4 DEF NickOf
  <2>6. /\ i \in Nat /\ j \in Nat /\ k \in 1..Len(log[n]) /\ l \in 1..Len(log[m])
        /\ log[m][i].num \in Nat /\ log[n][j].num \in Nat
    <3>1. /\ DOMAIN log[m] = 1..Len(log[m]) /\ Len(log[m]) \in Nat
          /\ DOMAIN log[n] = 1..Len(log[n]) /\ Len(log[n]) \in Nat
          /\ log[m][i] \in Message /\ log[n][j] \in Message
      BY TypeFacts
    <3>2. \A c \in Message : c.num \in Nat
      BY DEF Message
    <3> QED
      BY <3>1, <3>2
  <2>7. ASSUME k < j, l < i PROVE FALSE
    <3>1. k \in 1..(j - 1) /\ l \in 1..(i - 1)
      BY <2>6, <2>7
    <3>2. log[n][k].num < log[n][j].num
      BY <2>1, <2>2, <2>3, <3>1 DEF NumbersRise, NickOf
    <3>3. log[m][l].num < log[m][i].num
      BY <2>1, <2>2, <2>4, <3>1 DEF NumbersRise, NickOf
    <3> QED
      BY <2>3, <2>4, <2>6, <3>2, <3>3
  <2>8. k = j \/ l = i
    BY <2>5, <2>6, <2>7
  <2> QED
    BY <2>1, <2>2, <2>3, <2>4, <2>8
<1> QED
  BY <1>2, <1>3, <1>4 DEF ShowsLast

(* Once everything has been delivered, connected members that have seen no *)
(* removal show the same nickname for everybody that both know, those      *)
(* apart that one of them has refused.                                     *)
THEOREM NicknamesAgree == Spec => []NicksAgree
<1>1. AgreementInv => NicksAgree
  <2> SUFFICES ASSUME AgreementInv, Quiescent, NEW m \in Node \ Racy, NEW n \in Node \ Racy,
                      Connected(m, n), ~HasRemoval(m),
                      NEW s \in Known(m, room[m]) \cap Known(n, room[n]),
                      ~Refused(m, s), ~Refused(n, s)
               PROVE  room[m].nick[s] = room[n].nick[s]
    BY DEF NicksAgree
  <2>1. Range(log[m]) = Range(log[n])
    BY RestingMembers DEF AgreementInv
  <2>2. ~HasRemoval(n)
    BY <2>1 DEF HasRemoval, Range
  <2>3. Follows(m) /\ Follows(n)
    BY <2>2 DEF AgreementInv, NicksAreFollowed
  <2>4. ShowsLast(m, s) /\ ShowsLast(n, s)
    BY <2>3 DEF Follows
  <2>5. s \in Node
    BY TypeFacts DEF AgreementInv, Known, Peers, Range
  <2> QED
    BY <2>1, <2>4, <2>5, SameLast DEF AgreementInv
<1> QED
  BY <1>1, AgreementInvIsKept, PTL

------------------------------------------------------------------------------
(* Lists at rest                                                           *)

NobodyWasRemoved == \A k \in Node : ~HasRemoval(k)

(* A member that is no head is connected to its inviter, which has         *)
(* announced it and, on that occasion, its own inviter.                    *)
LEMMA InviterAtRest ==
  ASSUME AgreementInv, Quiescent, NobodyWasRemoved,
         NEW h \in [Node -> Node], Circles(h),
         NEW x \in Node, status[x] = "joined", h[x] # x, NEW y \in Node, y = inviter[x]
  PROVE  /\ status[y] = "joined" /\ Range(log[y]) = Range(log[x])
         /\ x \in Announced(x)
         /\ y = Creator \/ inviter[y] \in Announced(x)
<1>1. /\ TypeInv /\ InvitersAreIn /\ AllDescend /\ RoomsInTheMaking /\ Keeps(x) /\ Keeps(y)
      /\ ~HasRemoval(y) /\ Idle(y) /\ inviter \in [Node -> Node]
  BY DEF AgreementInv, LinesAreSafe, NobodyForgets, NobodyWasRemoved, Quiescent, TypeInv, Typed, TypeOK
<1>2. x # Creator /\ inviter[Creator] = Creator
  BY <1>1 DEF Circles, InvitersAreIn
<1>3. y # x
  <2>1. inviter[x] = x => Creator \in {x}
    BY <1>1 DEF AllDescend
  <2> QED
    BY <1>2, <2>1
<1>4. x \in Peers(room[y]) /\ y \in Peers(room[x])
  BY <1>1, <1>3 DEF Circles, Kept, Keeps, Known
<1>5. status[y] = "joined"
  <2>1. status[y] \in {"creating", "joined", "failed"}
    BY <1>1 DEF InvitersAreIn
  <2>2. room[y].peers # <<>>
    <3>1. Range(<<>>) = {}
      BY DEF Range
    <3> QED
      BY <1>4, <3>1 DEF Peers
  <2> QED
    BY <1>1, <2>1, <2>2 DEF RoomsInTheMaking, Idle
<1>6. Range(log[y]) = Range(log[x]) /\ Announced(y) = Announced(x)
  <2>1. Connected(y, x)
    BY <1>4, <1>5 DEF Connected
  <2> QED
    BY <1>1, <2>1, RestingMembers DEF Announced
<1>7. Range(roster[y]) = {}
  BY <1>1 DEF Idle, Range
<1>8. inviter[y] # x
  <2>1. inviter[y] = x => Creator \in {x, y}
    BY <1>1, <1>5 DEF AllDescend
  <2> QED
    BY <1>2, <1>3, <2>1
<1>9. x \in Announced(y)
  BY <1>1, <1>4, <1>7, <1>8 DEF Keeps
<1>10. y = Creator \/ inviter[y] \in Announced(y)
  BY <1>1, <1>4, <1>7 DEF Keeps
<1> QED
  BY <1>5, <1>6, <1>9, <1>10

(* Whoever is not the head r of its circle has, at rest, heard of r and of *)
(* the inviter of r: r has guests in the circle, which r has announced     *)
(* with its inviter, and unless the member is such a guest itself, one of  *)
(* them has guests, which it has announced with r.                         *)
LEMMA HeadAtRest ==
  ASSUME AgreementInv, Quiescent, NobodyWasRemoved,
         NEW h \in [Node -> Node], Circles(h),
         NEW n \in Node, status[n] = "joined", NEW r \in Node, r = h[n], r # n
  PROVE  /\ r \in {inviter[n]} \cup Announced(n)
         /\ r = Creator \/ inviter[r] \in Announced(n)
<1>1. AllDescend /\ h[Creator] = Creator /\ inviter \in [Node -> Node]
  BY DEF AgreementInv, LinesAreSafe, Circles, TypeInv, Typed, TypeOK
<1> DEFINE T == {x \in Node : /\ status[x] = "joined" /\ Range(log[x]) = Range(log[n])
                              /\ h[x] = r /\ x # r}
<1>2. n \in T /\ Creator \notin T /\ T \in SUBSET Node
  BY <1>1
<1>3. ASSUME NEW x \in T
      PROVE  /\ status[x] # "out"
             /\ inviter[x] \in T \/ inviter[x] = r
             /\ inviter[x] = Creator \/ inviter[inviter[x]] \in Announced(n)
  <2>1. PICK y \in Node : y = inviter[x]
    BY <1>1
  <2>2. x \in Node /\ status[x] = "joined" /\ h[x] # x
    OBVIOUS
  <2>3. /\ status[y] = "joined" /\ Range(log[y]) = Range(log[x])
        /\ y = Creator \/ inviter[y] \in Announced(x)
    BY <2>1, <2>2, InviterAtRest
  <2>4. h[y] = r
    BY <2>1, <2>2 DEF Circles
  <2>5. Announced(x) = Announced(n)
    BY DEF Announced
  <2> QED
    BY <2>1, <2>2, <2>3, <2>4, <2>5
<1> HIDE DEF T
<1>4. \A x \in T : status[x] # "out"
  BY <1>3
<1>5. PICK x \in T : inviter[x] = r
  <2>1. \E x \in T : inviter[x] \notin T
    BY <1>1, <1>2, <1>4 DEF AllDescend
  <2> QED
    BY <1>3, <2>1
<1>6. r = Creator \/ inviter[r] \in Announced(n)
  BY <1>3, <1>5
<1>7. CASE inviter[n] # r
  <2> DEFINE U == {z \in T : inviter[z] # r}
  <2>1. U # {} /\ Creator \notin U /\ U \in SUBSET Node /\ \A z \in U : status[z] # "out"
    BY <1>2, <1>4, <1>7
  <2>2. PICK z \in U : inviter[z] \notin U
    <3> HIDE DEF U
    <3> QED
      BY <1>1, <2>1 DEF AllDescend
  <2>3. inviter[z] \in T /\ inviter[inviter[z]] = r
    BY <1>3, <2>2
  <2>4. r \in Announced(n)
    BY <1>2, <1>3, <2>2, <2>3
  <2> QED
    BY <1>6, <2>4
<1> QED
  BY <1>6, <1>7

(* m knows itself, its inviter and those announced; n knows them too.      *)
LEMMA ListsAtRest ==
  ASSUME AgreementInv, Quiescent, NobodyWasRemoved,
         NEW m \in Node, NEW n \in Node \ Racy, Connected(m, n)
  PROVE  Known(m, room[m]) \subseteq Known(n, room[n])
<1>1. PICK h \in [Node -> Node] : Circles(h)
  BY DEF AgreementInv, LinesAreSafe, MembersFormCircles
<1>2. /\ TypeInv /\ InvitersAreIn /\ AllDescend /\ RoomsInTheMaking /\ Keeps(m) /\ Keeps(n)
      /\ Follows(n) /\ Idle(m) /\ inviter \in [Node -> Node]
  BY DEF AgreementInv, LinesAreSafe, NobodyForgets, NicksAreFollowed, NobodyWasRemoved,
         Quiescent, TypeInv, Typed, TypeOK
<1>3. /\ status[m] = "joined" /\ status[n] = "joined" /\ Announced(m) = Announced(n)
      /\ m \in Peers(room[n]) /\ n \in Peers(room[m])
  BY <1>2, RestingMembers DEF Connected, Announced
<1>4. h[m] = h[n]
  <2>1. HasWordOf(m, n) /\ HasWordOf(n, m)
    BY <1>3 DEF HasWordOf, HasHeardOf
  <2> QED
    BY <1>1, <1>2, <1>3, <2>1, SameCircle
<1>5. Announced(n) \subseteq Known(n, room[n])
  BY <1>2 DEF Follows, Announced, Range
<1>6. Known(m, room[m]) \subseteq {m, inviter[m]} \cup Announced(n)
  <2>1. Range(roster[m]) = {}
    BY <1>2 DEF Idle, Range
  <2> QED
    BY <1>2, <1>3, <2>1 DEF Keeps, Known
<1>7. inviter[n] \in Known(n, room[n]) /\ m \in Known(n, room[n])
  BY <1>2, <1>3 DEF Keeps, Known
<1>8. PICK i \in Node : i = inviter[m]
  BY <1>2
<1>9. m # n
  BY <1>3 DEF AgreementInv, ListsAreSafe, PeersDistinct
<1>10. h[n] # n => /\ h[n] \in {inviter[n]} \cup Announced(n)
                   /\ h[n] = Creator \/ inviter[h[n]] \in Announced(n)
  BY <1>1, <1>3, HeadAtRest
<1>11. i \in Known(n, room[n])
  <2>1. CASE h[m] = m
    <3>1. m = Creator \/ inviter[m] \in Announced(n)
      BY <1>4, <1>9, <1>10, <2>1
    <3> QED
      BY <1>2, <1>5, <1>7, <1>8, <3>1 DEF InvitersAreIn
  <2>2. CASE h[m] # m
    <3>1. status[i] = "joined" /\ Range(log[i]) = Range(log[m])
      BY <1>1, <1>3, <1>8, <2>2, InviterAtRest
    <3>2. h[i] = h[m]
      BY <1>1, <1>8, <2>2 DEF Circles
    <3>3. CASE h[i] # i
      <4>1. PICK j \in Node : j = inviter[i]
        BY <1>2
      <4>2. i \in Announced(i)
        BY <1>1, <3>1, <3>3, <4>1, InviterAtRest
      <4>3. Announced(i) = Announced(n)
        BY <1>3, <3>1 DEF Announced
      <4> QED
        BY <1>5, <4>2, <4>3
    <3>4. CASE h[i] = i /\ i # n
      BY <1>4, <1>5, <1>7, <1>10, <3>2, <3>4
    <3>5. CASE i = n
      BY <3>5 DEF Known
    <3> QED
      BY <3>3, <3>4, <3>5
  <2> QED
    BY <2>1, <2>2
<1> QED
  BY <1>5, <1>6, <1>7, <1>8, <1>11

(* Once everything has been delivered and as long as nobody has removed    *)
(* anybody, connected members list the same members, whoever invited whom  *)
(* and however many calls of AddPeers ran at the same time or failed.      *)
THEOREM ListsAgree == Spec => []PeerListsAgree
<1>1. AgreementInv => PeerListsAgree
  <2> SUFFICES ASSUME AgreementInv, Quiescent, NobodyWasRemoved,
                      NEW m \in Node \ Racy, NEW n \in Node \ Racy, Connected(m, n)
               PROVE  Known(m, room[m]) = Known(n, room[n])
    BY DEF PeerListsAgree, NobodyWasRemoved
  <2>1. Connected(n, m)
    BY RestingMembers DEF AgreementInv
  <2>2. Known(m, room[m]) \subseteq Known(n, room[n])
    BY ListsAtRest
  <2>3. Known(n, room[n]) \subseteq Known(m, room[m])
    BY <2>1, ListsAtRest
  <2> QED
    BY <2>2, <2>3
<1> QED
  BY <1>1, AgreementInvIsKept, PTL

=============================================================================
