------------------------ MODULE RegistryServiceProofs ------------------------
(***************************************************************************)
(* Theorems about Registry: for any goroutines, calls, races, failures of  *)
(* Tor and restarts, the onion services and the queues are those of the    *)
(* lists, but for what hit, leaked and doubled name.                       *)
(*                                                                         *)
(* An identity has one service, and one entry that it belongs to: in a     *)
(* list, or in the hands of the goroutine that is about to append it.      *)
(* While deregisterRoom has taken the service away and not yet removed the *)
(* room, the identity may be served again for a second entry, and that one *)
(* may be deleted while the first deletion is still on its way.            *)
(*                                                                         *)
(* A room is known to one goroutine that makes it, then listed and run by  *)
(* the only one that accepts it, then cancelled by those that remove it; a *)
(* room that createRoom has abandoned comes into no list.                  *)
(***************************************************************************)
EXTENDS RegistryProofs

------------------------------------------------------------------------------
(* The inductive invariants                                                *)

One(b) == IF b THEN 1 ELSE 0
Count(s, i) == Occurrences(s, <<i, 0>>) + Occurrences(s, <<i, 1>>)

(* The service of an identity is there and its entry is not yet, or the    *)
(* other way round.                                                        *)
Appending(t) == pc[t] \in {"append", "append_new", "append_contact"}
Unserved(t) == pc[t] \in {"stop", "remove", "remove_contact"}
ForContact(t) ==
  pc[t] \in {"serve_contact", "append_contact", "unserve_contact", "remove_contact"}

IsRoom(o) == o[1] <= last /\ roomID[o[1]] \in RoomID
IsContact(o) == o[1] <= last /\ roomID[o[1]] = NoRoom /\ o[2] = 0

(* Entries are of their kind and have identities that were made.           *)
KindsMatch ==
  /\ \A o \in Listed \cup requests : o[1] \in hit \/ IsRoom(o)
  /\ \A o \in contacts : o[1] \in hit \/ IsContact(o)
  /\ \A img \in image :
       /\ \A o \in ToSet(img.rooms) : o[1] \in hit \/ IsRoom(o)
       /\ \A o \in img.contacts : o[1] \in hit \/ IsContact(o)
  /\ \A t \in Thread : pc[t] # "idle" =>
       \/ obj[t][1] \in hit
       \/ ForContact(t) /\ IsContact(obj[t])
       \/ ~ForContact(t) /\ IsRoom(obj[t])

(* A contact that is being made is known to nobody else.                   *)
MakesContact(t) == pc[t] \in {"serve_contact", "append_contact"}

ContactIsNew ==
  \A t \in Thread : MakesContact(t) /\ obj[t][1] \notin hit =>
    /\ obj[t] \notin contacts
    /\ \A u \in Thread : pc[u] # "idle" /\ obj[u] = obj[t] => u = t

Appenders(i) == {t \in Thread : Appending(t) /\ obj[t][1] = i}
Removers(i) == {t \in Thread : Unserved(t) /\ obj[t][1] = i}

(* An identity has as many entries, listed or about to be, as it has       *)
(* services, there or just taken away.                                     *)
ServicesCount ==
  \A i \in Id \ hit :
    Count(rooms, i) + One(i \in Ids(contacts)) + Cardinality(Appenders(i))
      = One(i \in services) + Cardinality(Removers(i))

ServiceInv == KindsMatch /\ ContactIsNew /\ ServicesCount

(* Objects that the queues' invariants speak of.                           *)
Clear(o) == o \notin doubled /\ o[1] \notin hit

(* Objects that nobody else knows yet.                                     *)
NewIsAlone ==
  /\ \A o \in Obj : o[1] > last /\ o[1] \notin hit => ctx[o] = "none"
  /\ \A t \in Thread :
       pc[t] \in {"push", "serve_new", "append_new"} /\ obj[t][1] \notin hit =>
         /\ obj[t] \notin requests /\ obj[t] \notin Listed
         /\ \A u \in Thread : pc[u] # "idle" /\ obj[u] = obj[t] => u = t
         /\ IF pc[t] = "push" THEN ctx[obj[t]] = "none"
            ELSE ctx[obj[t]] = "live" /\ obj[t] \in running

(* Acceptors, where no two have met.                                       *)
AcceptsOnce ==
  /\ \A t \in Thread : Clear(obj[t]) =>
       /\ pc[t] \in {"serve", "append"} => ctx[obj[t]] = "live" /\ obj[t] \notin Listed
       /\ pc[t] = "run" => \/ ctx[obj[t]] = "live" /\ obj[t] \in Listed
                           \/ ctx[obj[t]] = "cancelled"
  /\ \A t, u \in Thread :
       /\ pc[t] \in {"serve", "append", "run"} /\ pc[u] \in {"serve", "append", "run"}
       /\ obj[t] = obj[u] /\ Clear(obj[t])
       => t = u
  /\ \A o \in requests : Clear(o) /\ (o \in Listed \/ ctx[o] = "cancelled") =>
       \E t \in Thread : pc[t] \in {"run", "drop"} /\ obj[t] = o

(* A request that was gone when a goroutine looked has not come back.      *)
GoneStaysGone ==
  \A t \in Thread : pc[t] = "drop" /\ obj[t][1] \notin hit =>
    \A old \in header[t] : obj[t] \in requests => obj[t] \in old

Removes(t, o) == pc[t] = "remove" /\ obj[t] = o
Removing(o) == \E t \in Thread : Removes(t, o)
Leaving(t) == pc[t] \in {"unserve", "stop"}

(* Cancelled rooms are on their way out; the others run, or soon will.     *)
ListedRuns ==
  \A o \in Obj : Clear(o) =>
    /\ Occurrences(rooms, o) <= 1
    /\ Removing(o) => ctx[o] = "cancelled" /\ o \notin running
    /\ ctx[o] = "cancelled" /\ o \in Listed => Removing(o)
    /\ \A t \in Thread : Leaving(t) /\ obj[t] = o => o \in Listed \/ ctx[o] = "cancelled"
    /\ o \in Listed =>
         o \in running \/ Removing(o) \/ \E t \in Thread : pc[t] = "run" /\ obj[t] = o
    /\ o \in running =>
         o \in Listed \/ o \in leaked
           \/ \E t \in Thread : pc[t] \in {"serve_new", "append_new"} /\ obj[t] = o

(* Nobody gets hold of a room that createRoom has abandoned.               *)
LeakedIsLost ==
  \A o \in leaked : o[1] \notin hit =>
    /\ IsRoom(o) /\ o \notin requests /\ o \notin Listed
    /\ ~\E t \in Thread : pc[t] # "idle" /\ obj[t] = o

QueueInv == NewIsAlone /\ AcceptsOnce /\ GoneStaysGone /\ ListedRuns /\ LeakedIsLost

------------------------------------------------------------------------------
(* Occurrences                                                             *)

Places(s, o) == {j \in DOMAIN s : s[j] = o}

LEMMA PlacesFinite ==
  ASSUME NEW S, NEW s \in Seq(S), NEW o
  PROVE  IsFiniteSet(Places(s, o)) /\ Occurrences(s, o) = Cardinality(Places(s, o))
<1>1. DOMAIN s = 1..Len(s) /\ Len(s) \in Nat
  BY LenProperties
<1>2. IsFiniteSet(1..Len(s))
  BY <1>1, FS_Interval
<1>3. IsFiniteSet(Places(s, o))
  BY <1>1, <1>2, FS_Subset DEF Places
<1> QED
  BY <1>3 DEF Occurrences, Places

LEMMA OccurrencesTyped ==
  ASSUME NEW S, NEW s \in Seq(S), NEW o
  PROVE  Occurrences(s, o) \in Nat /\ (Occurrences(s, o) # 0 <=> o \in ToSet(s))
<1>1. Occurrences(s, o) \in Nat
  BY PlacesFinite, FS_CardinalityType
<1>2. Occurrences(s, o) = 0 <=> Places(s, o) = {}
  BY PlacesFinite, FS_EmptySet
<1>3. Places(s, o) = {} <=> o \notin ToSet(s)
  BY DEF Places, ToSet
<1> QED
  BY <1>1, <1>2, <1>3

LEMMA OccurrencesOfAppend ==
  ASSUME NEW S, NEW s \in Seq(S), NEW e \in S, NEW o
  PROVE  Occurrences(Append(s, e), o) = Occurrences(s, o) + One(o = e)
<1> DEFINE u == Append(s, e)
<1>1. /\ u \in Seq(S) /\ DOMAIN u = 1..(Len(s) + 1) /\ u[Len(s) + 1] = e
      /\ \A k \in 1..Len(s) : u[k] = s[k]
      /\ DOMAIN s = 1..Len(s) /\ Len(s) \in Nat
  BY AppendProperties, LenProperties
<1>2. 1..(Len(s) + 1) = 1..Len(s) \cup {Len(s) + 1} /\ Len(s) + 1 \notin 1..Len(s)
  BY <1>1
<1>3. /\ Occurrences(u, o) = Cardinality(Places(u, o))
      /\ Occurrences(s, o) = Cardinality(Places(s, o)) /\ IsFiniteSet(Places(s, o))
      /\ Cardinality(Places(s, o)) \in Nat
  BY <1>1, PlacesFinite, FS_CardinalityType
<1> HIDE DEF u
<1>4. CASE o = e
  <2>1. Places(u, o) = Places(s, o) \cup {Len(s) + 1} /\ Len(s) + 1 \notin Places(s, o)
    BY <1>1, <1>2, <1>4 DEF Places
  <2>2. Cardinality(Places(u, o)) = Cardinality(Places(s, o)) + 1
    BY <1>3, <2>1, FS_AddElement
  <2> QED
    BY <1>3, <1>4, <2>2 DEF One, u
<1>5. CASE o # e
  <2>1. Places(u, o) = Places(s, o)
    BY <1>1, <1>2, <1>5 DEF Places
  <2> QED
    BY <1>3, <1>5, <2>1 DEF One, u
<1> QED
  BY <1>4, <1>5

(* One occurrence of what is deleted goes, and nothing else.               *)
LEMMA OccurrencesOfDelete ==
  ASSUME NEW S, NEW s \in Seq(S), NEW e \in ToSet(s), NEW o
  PROVE  Occurrences(deleteFromSlice(s, e), o) = Occurrences(s, o) - One(o = e)
<1> DEFINE First(j) == s[j] = e /\ \A k \in 1..(j - 1) : s[k] # e
           first == CHOOSE j \in DOMAIN s : First(j)
           moved == [s EXCEPT ![first] = Last(s)]
           u == deleteFromSlice(s, e)
           n == Len(s)
<1>1. first \in DOMAIN s /\ s[first] = e
  <2>1. \E j \in DOMAIN s : First(j)
    BY FirstOccurrence
  <2> QED
    BY <2>1
<1>2. u = SubSeq(moved, 1, Len(moved) - 1)
  BY DEF deleteFromSlice, Front
<1> HIDE DEF first
<1>3. DOMAIN s = 1..n /\ n \in Nat /\ n > 0 /\ Last(s) = s[n] /\ Last(s) \in S
  BY <1>1, LenProperties, ElementOfSeq DEF Last
<1>4. moved \in Seq(S) /\ Len(moved) = n
  BY <1>1, <1>3, ExceptSeq
<1>5. u \in Seq(S) /\ DOMAIN u = 1..(n - 1) /\ \A k \in 1..(n - 1) : u[k] = moved[k]
  <2> HIDE DEF moved
  <2>1. /\ SubSeq(moved, 1, Len(moved) - 1) \in Seq(S)
        /\ Len(SubSeq(moved, 1, Len(moved) - 1)) = n - 1
        /\ \A k \in 1..(n - 1) : SubSeq(moved, 1, Len(moved) - 1)[k] = moved[k]
    BY <1>3, <1>4, SubSeqProperties
  <2> QED
    BY <1>2, <2>1, LenProperties
<1>6. \A k \in 1..(n - 1) : u[k] = IF k = first THEN s[n] ELSE s[k]
  BY <1>1, <1>3, <1>5
<1>7. 1..n = 1..(n - 1) \cup {n} /\ n \notin 1..(n - 1) /\ first \in 1..n
  BY <1>1, <1>3
<1> HIDE DEF u, n, moved
<1>8. /\ Occurrences(u, o) = Cardinality(Places(u, o))
      /\ Occurrences(s, o) = Cardinality(Places(s, o)) /\ IsFiniteSet(Places(s, o))
      /\ Cardinality(Places(s, o)) \in Nat
  BY <1>5, PlacesFinite, FS_CardinalityType
<1>9. CASE o = e
  <2> DEFINE gone == IF s[n] = e THEN n ELSE first
  <2>1. Places(u, o) = Places(s, o) \ {gone} /\ gone \in Places(s, o)
    BY <1>1, <1>3, <1>5, <1>6, <1>7, <1>9 DEF Places
  <2> HIDE DEF gone
  <2>2. Cardinality(Places(u, o)) = Cardinality(Places(s, o)) - 1
    BY <1>8, <2>1, FS_RemoveElement
  <2> QED
    BY <1>8, <1>9, <2>2 DEF One, u
<1>10. CASE o # e /\ (s[n] # o \/ first = n)
  <2>1. Places(u, o) = Places(s, o)
    BY <1>1, <1>3, <1>5, <1>6, <1>7, <1>10 DEF Places
  <2> QED
    BY <1>8, <1>10, <2>1 DEF One, u
<1>11. CASE o # e /\ s[n] = o /\ first # n
  <2> DEFINE rest == Places(s, o) \ {n}
  <2>1. Places(u, o) = rest \cup {first} /\ first \notin rest /\ n \in Places(s, o)
    BY <1>1, <1>3, <1>5, <1>6, <1>7, <1>11 DEF Places
  <2>2. IsFiniteSet(rest) /\ Cardinality(rest) = Cardinality(Places(s, o)) - 1
    BY <1>8, <2>1, FS_RemoveElement
  <2> HIDE DEF rest
  <2>3. Cardinality(Places(u, o)) = Cardinality(rest) + 1
    BY <2>1, <2>2, FS_AddElement
  <2> QED
    BY <1>8, <1>11, <2>2, <2>3 DEF One, u
<1> QED
  BY <1>9, <1>10, <1>11

(* Two rooms with one identity count twice, and only they do.              *)
LEMMA CountTyped ==
  ASSUME NEW s \in Seq(Obj), NEW i \in Id
  PROVE  /\ Count(s, i) \in Nat
         /\ Count(s, i) # 0 <=> i \in Ids(ToSet(s))
<1>1. <<i, 0>> \in Obj /\ <<i, 1>> \in Obj
  BY DEF Obj
<1>2. \A o \in Obj : o[1] = i => o = <<i, 0>> \/ o = <<i, 1>>
  BY DEF Obj
<1>3. /\ Occurrences(s, <<i, 0>>) \in Nat
      /\ Occurrences(s, <<i, 0>>) # 0 <=> <<i, 0>> \in ToSet(s)
      /\ Occurrences(s, <<i, 1>>) \in Nat
      /\ Occurrences(s, <<i, 1>>) # 0 <=> <<i, 1>> \in ToSet(s)
  BY OccurrencesTyped
<1>4. i \in Ids(ToSet(s)) <=> <<i, 0>> \in ToSet(s) \/ <<i, 1>> \in ToSet(s)
  <2>1. ASSUME <<i, 0>> \in ToSet(s) \/ <<i, 1>> \in ToSet(s) PROVE i \in Ids(ToSet(s))
    BY <2>1 DEF Ids
  <2>2. ASSUME i \in Ids(ToSet(s)) PROVE <<i, 0>> \in ToSet(s) \/ <<i, 1>> \in ToSet(s)
    BY <1>2, <2>2, ListedTyped DEF Ids
  <2> QED
    BY <2>1, <2>2
<1> QED
  BY <1>3, <1>4 DEF Count

LEMMA TwiceOccurs ==
  ASSUME NEW S, NEW s \in Seq(S), NEW j \in DOMAIN s, NEW k \in DOMAIN s, j # k, s[j] = s[k]
  PROVE  Occurrences(s, s[j]) >= 2
<1> DEFINE rest == Places(s, s[j]) \ {j}
<1>1. /\ IsFiniteSet(Places(s, s[j])) /\ Occurrences(s, s[j]) = Cardinality(Places(s, s[j]))
      /\ j \in Places(s, s[j])
  BY PlacesFinite DEF Places
<1>2. k \in rest
  BY DEF Places
<1>3. IsFiniteSet(rest) /\ Cardinality(rest) = Cardinality(Places(s, s[j])) - 1
  BY <1>1, FS_RemoveElement
<1> HIDE DEF rest
<1>4. Cardinality(rest) # 0 /\ Cardinality(rest) \in Nat /\ Cardinality(Places(s, s[j])) \in Nat
  BY <1>1, <1>2, <1>3, FS_EmptySet, FS_CardinalityType
<1> QED
  BY <1>1, <1>3, <1>4

LEMMA OccursTwice ==
  ASSUME NEW S, NEW s \in Seq(S), NEW o, Occurrences(s, o) > 1
  PROVE  \E j, k \in DOMAIN s : j # k /\ s[j] = o /\ s[k] = o
<1>1. IsFiniteSet(Places(s, o)) /\ Cardinality(Places(s, o)) > 1
  BY PlacesFinite
<1>2. PICK j \in Places(s, o) : TRUE
  BY <1>1, FS_EmptySet
<1>3. Places(s, o) # {j}
  BY <1>1, FS_Singleton
<1>4. PICK k \in Places(s, o) : k # j
  BY <1>2, <1>3
<1> QED
  BY <1>2, <1>4 DEF Places

LEMMA TwoOfOneIdentity ==
  ASSUME NEW s \in Seq(Obj), NEW i \in Id
  PROVE  Count(s, i) > 1 <=> \E j, k \in DOMAIN s : j # k /\ s[j][1] = i /\ s[k][1] = i
<1>1. \A o \in Obj : o[1] = i => o = <<i, 0>> \/ o = <<i, 1>>
  BY DEF Obj
<1>2. /\ Occurrences(s, <<i, 0>>) \in Nat
      /\ Occurrences(s, <<i, 0>>) # 0 <=> <<i, 0>> \in ToSet(s)
      /\ Occurrences(s, <<i, 1>>) \in Nat
      /\ Occurrences(s, <<i, 1>>) # 0 <=> <<i, 1>> \in ToSet(s)
      /\ <<i, 0>> # <<i, 1>> /\ <<i, 0>>[1] = i /\ <<i, 1>>[1] = i
  BY OccurrencesTyped
<1>3. ASSUME NEW j \in DOMAIN s, NEW k \in DOMAIN s, j # k, s[j][1] = i, s[k][1] = i
      PROVE  Count(s, i) > 1
  <2>1. s[j] \in Obj /\ s[k] \in Obj
    BY ElementOfSeq, LenProperties
  <2>2. s[j] \in {<<i, 0>>, <<i, 1>>} /\ s[k] \in {<<i, 0>>, <<i, 1>>}
    BY <1>1, <1>3, <2>1
  <2>3. CASE s[j] = s[k]
    <3>1. Occurrences(s, s[j]) >= 2
      BY <1>3, <2>3, TwiceOccurs
    <3> QED
      BY <1>2, <2>2, <3>1 DEF Count
  <2>4. CASE s[j] # s[k]
    <3>1. <<i, 0>> \in ToSet(s) /\ <<i, 1>> \in ToSet(s)
      BY <2>2, <2>4 DEF ToSet
    <3> QED
      BY <1>2, <3>1 DEF Count
  <2> QED
    BY <2>3, <2>4
<1>4. ASSUME Count(s, i) > 1
      PROVE  \E j, k \in DOMAIN s : j # k /\ s[j][1] = i /\ s[k][1] = i
  <2>1. CASE Occurrences(s, <<i, 0>>) > 1
    BY <1>2, <2>1, OccursTwice
  <2>2. CASE Occurrences(s, <<i, 1>>) > 1
    BY <1>2, <2>2, OccursTwice
  <2>3. CASE <<i, 0>> \in ToSet(s) /\ <<i, 1>> \in ToSet(s)
    <3>1. PICK j \in DOMAIN s : s[j] = <<i, 0>>
      BY <2>3 DEF ToSet
    <3>2. PICK k \in DOMAIN s : s[k] = <<i, 1>>
      BY <2>3 DEF ToSet
    <3> QED
      BY <1>2, <3>1, <3>2
  <2> QED
    BY <1>2, <1>4, <2>1, <2>2, <2>3 DEF Count
<1> QED
  BY <1>3, <1>4

------------------------------------------------------------------------------
(* What a step of a goroutine may change                                   *)

Transitions ==
  {<<"push", "find">>, <<"find", "serve">>, <<"serve", "append">>, <<"append", "run">>,
   <<"run", "drop">>, <<"serve_new", "append_new">>, <<"unserve", "stop">>,
   <<"stop", "remove">>, <<"serve_contact", "append_contact">>,
   <<"unserve_contact", "remove_contact">>}

IsMade(o, kinds) == o = Fresh /\ last' = last + 1 /\ roomID'[last + 1] \in kinds

Begins(t) ==
  \/ pc'[t] \in {"push", "serve_new"} /\ IsMade(obj'[t], RoomID)
  \/ pc'[t] = "serve_contact" /\ IsMade(obj'[t], {NoRoom})
  \/ pc'[t] \in {"serve", "drop"} /\ obj'[t] \in requests
  \/ pc'[t] = "unserve" /\ obj'[t] \in Listed
  \/ pc'[t] = "unserve_contact" /\ obj'[t] \in contacts

Moves(t) ==
  /\ OthersStay(t)
  /\ \/ pc'[t] = pc[t] /\ obj'[t] = obj[t]
     \/ pc[t] \notin {"idle", "append", "run", "stop"} /\ pc'[t] = "idle"
     \/ <<pc[t], pc'[t]>> \in Transitions /\ obj'[t] = obj[t]
     \/ pc[t] = "idle" /\ Begins(t)

IdsGrow ==
  /\ last' \in Nat /\ last' >= last
  /\ \A i \in 1..last : roomID'[i] = roomID[i]

LEMMA BeginMoves ==
  ASSUME TypeInv, NEW t \in Thread, NEW r \in RoomID,
         Invited(t, r) \/ CreateRoom(t, r) \/ DeleteRoom(t, r)
  PROVE  Moves(t) /\ IdsGrow
<1>1. last \in Nat /\ last + 1 \notin 1..last
  BY ConstantsAssumption DEF TypeInv, TypeOK
<1>2. CASE Invited(t, r) \/ CreateRoom(t, r)
  <2>1. NewIdentity(r)
    BY <1>2 DEF Invited, CreateRoom
  <2>2. IdsGrow /\ last' = last + 1
    BY <1>1, <2>1, FreshTyped DEF NewIdentity, IdsGrow, TypeInv, TypeOK
  <2>3. IsMade(Fresh, RoomID)
    BY <2>1, FreshTyped DEF NewIdentity, IsMade, TypeInv, TypeOK
  <2> QED
    BY <1>2, <2>2, <2>3 DEF Invited, CreateRoom, Begin, Moves, Begins,
       OthersStay, TypeInv, TypeOK
<1>3. CASE DeleteRoom(t, r)
  <2>1. PICK o \in GetRoom(r) : Begin(t, "delete", "unserve", o)
    BY <1>3 DEF DeleteRoom
  <2>2. o \in Listed
    BY DEF GetRoom, Listed, ToSet
  <2>3. IdsGrow
    BY <1>1, <1>3 DEF DeleteRoom, IdsGrow, roomVars, countVars
  <2> QED
    BY <2>1, <2>2, <2>3 DEF Begin, Moves, Begins, OthersStay, TypeInv, TypeOK
<1> QED
  BY <1>2, <1>3

LEMMA CallMoves ==
  ASSUME TypeInv, NEW t \in Thread, NEW o, o \in requests \cup contacts,
         Accept(t, o) \/ Refuse(t, o) \/ DeleteContact(t, o)
  PROVE  Moves(t) /\ IdsGrow
<1>1. IdsGrow
  BY ConstantsAssumption DEF TypeInv, TypeOK, Accept, Refuse, DeleteContact, IdsGrow,
     roomVars, countVars
<1> QED
  BY <1>1 DEF Accept, Refuse, DeleteContact, Begin, GoOn, Moves, Begins, OthersStay,
     Transitions, TypeInv, TypeOK

LEMMA GoOnMoves ==
  ASSUME TypeInv, NEW t \in Thread,
         \/ ReadHeader(t) \/ PushRequest(t) \/ NotFound(t)
         \/ Serve(t) \/ AppendRoom(t) \/ RunQueues(t) \/ DropRequest(t)
         \/ Unserve(t) \/ StopQueues(t) \/ RemoveRoom(t)
         \/ ServeContact(t) \/ AppendContact(t) \/ RemoveContact(t)
  PROVE  Moves(t) /\ IdsGrow
<1>1. IdsGrow
  BY ConstantsAssumption DEF TypeInv, TypeOK, IdsGrow, roomVars, countVars, ReadHeader,
     PushRequest, NotFound, Serve, AppendRoom, RunQueues, DropRequest, Unserve, StopQueues,
     RemoveRoom, ServeContact, AppendContact, RemoveContact
<1>2. CASE ReadHeader(t)
  BY <1>1, <1>2 DEF ReadHeader, Moves, OthersStay
<1>3. CASE PushRequest(t) \/ NotFound(t) \/ AppendRoom(t) \/ RunQueues(t) \/ DropRequest(t)
             \/ StopQueues(t) \/ RemoveRoom(t) \/ AppendContact(t) \/ RemoveContact(t)
  BY <1>1, <1>3 DEF PushRequest, NotFound, AppendRoom, RunQueues, DropRequest, StopQueues,
     RemoveRoom, AppendContact, RemoveContact, GoOn, Moves, OthersStay, Transitions,
     TypeInv, TypeOK
<1>4. CASE Serve(t) \/ ServeContact(t) \/ Unserve(t)
  BY <1>1, <1>4 DEF Serve, ServeContact, Unserve, RegisterService, DeregisterService, GoOn, Moves,
     OthersStay, Transitions, TypeInv, TypeOK
<1> QED
  BY <1>1, <1>2, <1>3, <1>4

LEMMA ThreadMoves ==
  ASSUME TypeInv, NEW t \in Thread, ThreadNext(t)
  PROVE  Moves(t) /\ IdsGrow
<1>1. CASE \E r \in RoomID : Invited(t, r) \/ CreateRoom(t, r) \/ DeleteRoom(t, r)
  BY <1>1, BeginMoves
<1>2. CASE \E o \in requests : Accept(t, o) \/ Refuse(t, o)
  BY <1>2, CallMoves
<1>3. CASE \E o \in contacts : DeleteContact(t, o)
  BY <1>3, CallMoves
<1>4. CASE CreateContact(t)
  <2>1. last \in Nat /\ last + 1 \notin 1..last
    BY ConstantsAssumption DEF TypeInv, TypeOK
  <2>2. IdsGrow /\ IsMade(Fresh, {NoRoom})
    BY <1>4, <2>1, FreshTyped DEF CreateContact, NewIdentity, IdsGrow, IsMade, TypeInv, TypeOK
  <2> QED
    BY <1>4, <2>2 DEF CreateContact, Begin, Moves, Begins, OthersStay, TypeInv, TypeOK
<1> QED
  BY <1>1, <1>2, <1>3, <1>4, GoOnMoves, ThreadSteps

(* A goroutine has done what it does at p with o.                          *)
Does(t, p, o) == pc[t] = p /\ pc'[t] # p /\ obj[t] = o
Appends(t, o) == Does(t, "append", o) \/ Does(t, "append_new", o)

RequestsChange(t) ==
  \A o \in Obj : o[1] \notin hit' =>
    /\ o \in requests' => o \in requests \/ Does(t, "push", o)
    /\ o \in requests => o \in requests' \/ Does(t, "drop", o)

ContactsChange(t) ==
  \A o \in Obj : o[1] \notin hit' =>
    /\ Does(t, "remove_contact", o) => o \in contacts
    /\ o \in contacts'
         <=> Does(t, "append_contact", o) \/ (o \in contacts /\ ~Does(t, "remove_contact", o))

RoomsChange(t) ==
  \A o \in Obj : o[1] \notin hit' =>
    Occurrences(rooms', o) =
      Occurrences(rooms, o) + One(Appends(t, o)) - One(Does(t, "remove", o))

ListsChange(t) ==
  hit \subseteq hit' /\ RequestsChange(t) /\ ContactsChange(t) /\ RoomsChange(t)

LEMMA OccurrencesNat ==
  ASSUME TypeInv, NEW o
  PROVE  Occurrences(rooms, o) \in Nat /\ (Occurrences(rooms, o) # 0 <=> o \in Listed)
BY OccurrencesTyped DEF TypeInv, TypeOK, Listed

LEMMA ListsStay ==
  ASSUME TypeInv, NEW t \in Thread, UNCHANGED <<dataVars, hit>>,
         \/ pc'[t] = pc[t]
         \/ pc[t] \notin {"push", "drop", "append", "append_new", "remove",
                          "append_contact", "remove_contact"}
  PROVE  ListsChange(t)
BY OccurrencesNat DEF ListsChange, RequestsChange, ContactsChange, RoomsChange, Does, Appends,
   One, dataVars

(* Where a stale write does not hit, the slice was as it is now.           *)
LEMMA SetWriteEffect ==
  ASSUME NEW t \in Thread, obj[t] \in Obj, NEW old, NEW now,
         Stored(t, old # now, SetDiff(old, now))
  PROVE  hit \subseteq hit' /\ \A o \in Obj : o[1] \notin hit' => (o \in old <=> o \in now)
BY DEF Stored, SetDiff, Ids

LEMMA RoomsWriteEffect ==
  ASSUME TypeInv, NEW t \in Thread, NEW old \in Seq(Obj),
         Stored(t, old # rooms, SeqDiff(old, rooms))
  PROVE  /\ hit \subseteq hit'
         /\ \A o \in Obj : o[1] \notin hit' => Occurrences(old, o) = Occurrences(rooms, o)
<1>1. hit \subseteq hit'
  BY DEF Stored
<1>2. ASSUME NEW o \in Obj, o[1] \notin hit', old # rooms
      PROVE  Occurrences(old, o) = Occurrences(rooms, o)
  <2>1. o \notin SeqDiff(old, rooms)
    BY <1>2 DEF Stored, Ids
  <2>2. CASE o \in ToSet(old) \cup ToSet(rooms)
    BY <2>1, <2>2 DEF SeqDiff
  <2>3. CASE o \notin ToSet(old) /\ o \notin ToSet(rooms)
    <3>1. Occurrences(old, o) = 0 /\ Occurrences(rooms, o) = 0
      BY <2>3, OccurrencesTyped DEF TypeInv, TypeOK
    <3> QED
      BY <3>1
  <2> QED
    BY <2>2, <2>3
<1> QED
  BY <1>1, <1>2

LEMMA PushRequestLists ==
  ASSUME TypeInv, NEW t \in Thread, PushRequest(t)
  PROVE  ListsChange(t)
<1>1. PICK old \in Seen(t) :
        requests' = old \cup {obj[t]} /\ Stored(t, old # requests, SetDiff(old, requests))
  BY DEF PushRequest
<1>2. pc[t] = "push" /\ pc'[t] # "push" /\ obj[t] \in Obj
  BY DEF PushRequest, GoOn, TypeInv, TypeOK
<1>3. hit \subseteq hit' /\ \A o \in Obj : o[1] \notin hit' => (o \in old <=> o \in requests)
  BY <1>1, <1>2, SetWriteEffect
<1>4. RequestsChange(t)
  BY <1>1, <1>2, <1>3 DEF RequestsChange, Does
<1>5. ContactsChange(t) /\ RoomsChange(t)
  BY <1>2, OccurrencesNat DEF ContactsChange, RoomsChange, Does, Appends, One, PushRequest
<1> QED
  BY <1>3, <1>4, <1>5 DEF ListsChange

LEMMA DropRequestLists ==
  ASSUME TypeInv, NEW t \in Thread, DropRequest(t)
  PROVE  ListsChange(t)
<1>1. PICK old \in Seen(t) :
        IF obj[t] \in old
        THEN requests' = old \ {obj[t]} /\ Stored(t, old # requests, SetDiff(old, requests))
        ELSE header' = [header EXCEPT ![t] = {}] /\ UNCHANGED <<requests, hit>>
  BY DEF DropRequest
<1>2. pc[t] = "drop" /\ pc'[t] # "drop" /\ obj[t] \in Obj
  BY DEF DropRequest, GoOn, TypeInv, TypeOK
<1>3. hit \subseteq hit' /\ RequestsChange(t)
  <2>1. CASE obj[t] \in old
    <3>1. hit \subseteq hit' /\ \A o \in Obj : o[1] \notin hit' => (o \in old <=> o \in requests)
      BY <1>1, <1>2, <2>1, SetWriteEffect
    <3> QED
      BY <1>1, <1>2, <2>1, <3>1 DEF RequestsChange, Does
  <2>2. CASE obj[t] \notin old /\ obj[t] \notin requests
    BY <1>1, <1>2, <2>2 DEF RequestsChange, Does
  <2>3. CASE obj[t] \notin old /\ obj[t] \in requests
    BY <1>1, <1>2, <2>3 DEF RequestsChange, Does
  <2> QED
    BY <2>1, <2>2, <2>3
<1>4. ContactsChange(t) /\ RoomsChange(t)
  BY <1>2, OccurrencesNat DEF ContactsChange, RoomsChange, Does, Appends, One, DropRequest
<1> QED
  BY <1>3, <1>4 DEF ListsChange

LEMMA ContactLists ==
  ASSUME TypeInv, NEW t \in Thread, AppendContact(t) \/ RemoveContact(t)
  PROVE  ListsChange(t)
<1>1. obj[t] \in Obj /\ pc'[t] = "idle"
  BY DEF AppendContact, RemoveContact, GoOn, TypeInv, TypeOK
<1>2. RequestsChange(t) /\ RoomsChange(t)
  BY OccurrencesNat DEF RequestsChange, RoomsChange, Does, Appends, One, GoOn,
     AppendContact, RemoveContact
<1>3. CASE AppendContact(t)
  <2>1. PICK old \in Seen(t) :
          contacts' = old \cup {obj[t]} /\ Stored(t, old # contacts, SetDiff(old, contacts))
    BY <1>3 DEF AppendContact
  <2>2. hit \subseteq hit' /\ \A o \in Obj : o[1] \notin hit' => (o \in old <=> o \in contacts)
    BY <1>1, <2>1, SetWriteEffect
  <2>3. pc[t] = "append_contact"
    BY <1>3 DEF AppendContact, GoOn
  <2>4. ContactsChange(t)
    BY <1>1, <2>1, <2>2, <2>3 DEF ContactsChange, Does
  <2> QED
    BY <1>2, <2>2, <2>4 DEF ListsChange
<1>4. CASE RemoveContact(t)
  <2>1. PICK old \in Seen(t) :
          IF obj[t] \in old
          THEN contacts' = old \ {obj[t]} /\ Stored(t, old # contacts, SetDiff(old, contacts))
          ELSE FoundNothing(t) /\ UNCHANGED contacts
    BY <1>4 DEF RemoveContact
  <2>2. pc[t] = "remove_contact"
    BY <1>4 DEF RemoveContact, GoOn
  <2>3. hit \subseteq hit' /\ (obj[t] \in old \/ obj[t][1] \in hit')
    BY <2>1 DEF FoundNothing, Stored
  <2>4. ContactsChange(t)
    <3>1. CASE obj[t] \in old
      <4>1. \A o \in Obj : o[1] \notin hit' => (o \in old <=> o \in contacts)
        BY <1>1, <2>1, <3>1, SetWriteEffect
      <4> QED
        BY <1>1, <2>1, <2>2, <3>1, <4>1 DEF ContactsChange, Does
    <3>2. CASE obj[t] \notin old
      BY <1>1, <2>1, <2>2, <2>3, <3>2 DEF ContactsChange, Does
    <3> QED
      BY <3>1, <3>2
  <2> QED
    BY <1>2, <2>3, <2>4 DEF ListsChange
<1> QED
  BY <1>3, <1>4

LEMMA AppendRoomLists ==
  ASSUME TypeInv, NEW t \in Thread, AppendRoom(t)
  PROVE  ListsChange(t)
<1>1. PICK old \in Seen(t) :
        rooms' = Append(old, obj[t]) /\ Stored(t, old # rooms, SeqDiff(old, rooms))
  BY DEF AppendRoom
<1>2. /\ pc[t] \in {"append", "append_new"} /\ pc'[t] \in {"run", "idle"}
      /\ obj[t] \in Obj /\ old \in Seq(Obj)
  BY SeenTyped DEF AppendRoom, GoOn, ChangesRooms, TypeInv, TypeOK
<1>3. /\ hit \subseteq hit'
      /\ \A o \in Obj : o[1] \notin hit' => Occurrences(old, o) = Occurrences(rooms, o)
  BY <1>1, <1>2, RoomsWriteEffect
<1>4. \A o \in Obj : Occurrences(rooms', o) = Occurrences(old, o) + One(o = obj[t])
  BY <1>1, <1>2, OccurrencesOfAppend
<1>5. RoomsChange(t)
  BY <1>2, <1>3, <1>4, OccurrencesNat DEF RoomsChange, Does, Appends, One
<1>6. RequestsChange(t) /\ ContactsChange(t)
  BY <1>2 DEF RequestsChange, ContactsChange, Does, AppendRoom
<1> QED
  BY <1>3, <1>5, <1>6 DEF ListsChange

LEMMA RemoveRoomLists ==
  ASSUME TypeInv, NEW t \in Thread, RemoveRoom(t)
  PROVE  ListsChange(t)
<1>1. PICK old \in Seen(t) :
        IF obj[t] \in ToSet(old)
        THEN /\ rooms' = deleteFromSlice(old, obj[t])
             /\ Stored(t, old # rooms, SeqDiff(old, rooms))
        ELSE FoundNothing(t) /\ UNCHANGED rooms
  BY DEF RemoveRoom
<1>2. pc[t] = "remove" /\ pc'[t] = "idle" /\ obj[t] \in Obj /\ old \in Seq(Obj)
  BY SeenTyped DEF RemoveRoom, GoOn, ChangesRooms, TypeInv, TypeOK
<1>3. hit \subseteq hit' /\ (obj[t] \in ToSet(old) \/ obj[t][1] \in hit')
  BY <1>1 DEF FoundNothing, Stored
<1>4. RoomsChange(t)
  <2>1. CASE obj[t] \in ToSet(old)
    <3>1. \A o \in Obj : o[1] \notin hit' => Occurrences(old, o) = Occurrences(rooms, o)
      BY <1>1, <1>2, <2>1, RoomsWriteEffect
    <3>2. \A o \in Obj : Occurrences(rooms', o) = Occurrences(old, o) - One(o = obj[t])
      BY <1>1, <1>2, <2>1, OccurrencesOfDelete
    <3> QED
      BY <1>2, <3>1, <3>2, OccurrencesNat DEF RoomsChange, Does, Appends, One
  <2>2. CASE obj[t] \notin ToSet(old)
    BY <1>1, <1>2, <1>3, <2>2, OccurrencesNat DEF RoomsChange, Does, Appends, One
  <2> QED
    BY <2>1, <2>2
<1>5. RequestsChange(t) /\ ContactsChange(t)
  BY <1>2 DEF RequestsChange, ContactsChange, Does, RemoveRoom
<1> QED
  BY <1>3, <1>4, <1>5 DEF ListsChange

LEMMA ThreadLists ==
  ASSUME TypeInv, NEW t \in Thread, ThreadNext(t)
  PROVE  ListsChange(t)
<1>1. CASE \E r \in RoomID : Invited(t, r) \/ CreateRoom(t, r) \/ DeleteRoom(t, r)
  BY <1>1, ListsStay DEF Invited, CreateRoom, DeleteRoom, Begin, histVars
<1>2. CASE \E o \in requests : Accept(t, o) \/ Refuse(t, o)
  BY <1>2, ListsStay DEF Accept, Refuse, Begin, GoOn
<1>3. CASE \/ \E o \in contacts : DeleteContact(t, o)
           \/ CreateContact(t)
  BY <1>3, ListsStay DEF DeleteContact, CreateContact, Begin, histVars
<1>4. CASE ReadHeader(t) \/ NotFound(t) \/ RunQueues(t) \/ StopQueues(t)
  BY <1>4, ListsStay DEF ReadHeader, NotFound, RunQueues, StopQueues, GoOn, histVars
<1>5. CASE Serve(t) \/ ServeContact(t) \/ Unserve(t)
  BY <1>5, ListsStay DEF Serve, ServeContact, Unserve, RegisterService, DeregisterService, GoOn,
     histVars
<1>6. CASE AppendContact(t) \/ RemoveContact(t) \/ RemoveRoom(t)
  BY <1>6, ContactLists, RemoveRoomLists
<1> QED
  BY <1>1, <1>2, <1>3, <1>4, <1>5, <1>6, PushRequestLists, DropRequestLists, AppendRoomLists,
     ThreadSteps

(* Registering and taking away a service.                                  *)
Serves(t) == pc[t] \in {"serve", "serve_new", "serve_contact"}
Registers(t, i) ==
  Serves(t) /\ pc'[t] \in {"append", "append_new", "append_contact"} /\ obj[t][1] = i
Deregisters(t, i) ==
  /\ pc[t] \in {"unserve", "unserve_contact"} /\ pc'[t] \in {"stop", "remove_contact"}
  /\ obj[t][1] = i

ServicesChange(t) ==
  \A i \in Id :
    /\ Registers(t, i) => i \notin services /\ i \in services'
    /\ Deregisters(t, i) => i \in services /\ i \notin services'
    /\ ~Registers(t, i) /\ ~Deregisters(t, i) => (i \in services' <=> i \in services)

HeadersChange(t) ==
  /\ \A u \in Thread \ {t} : header'[u] = header[u]
  /\ header'[t] = IF pc'[t] = pc[t] THEN {Target(t)} ELSE {}

LEMMA ThreadServices ==
  ASSUME TypeInv, NEW t \in Thread, ThreadNext(t)
  PROVE  ServicesChange(t)
<1>1. CASE \E r \in RoomID : Invited(t, r) \/ CreateRoom(t, r) \/ DeleteRoom(t, r)
  BY <1>1 DEF Invited, CreateRoom, DeleteRoom, Begin, ServicesChange, Registers, Deregisters,
     Serves
<1>2. CASE \E o \in requests : Accept(t, o) \/ Refuse(t, o)
  BY <1>2 DEF Accept, Refuse, Begin, GoOn, ServicesChange, Registers, Deregisters, Serves
<1>3. CASE \/ \E o \in contacts : DeleteContact(t, o)
           \/ CreateContact(t)
  BY <1>3 DEF DeleteContact, CreateContact, Begin, ServicesChange, Registers, Deregisters, Serves
<1>4. CASE ReadHeader(t) \/ NotFound(t) \/ RunQueues(t) \/ StopQueues(t)
  BY <1>4 DEF ReadHeader, NotFound, RunQueues, StopQueues, GoOn, ServicesChange, Registers,
     Deregisters, Serves
<1>5. CASE \/ PushRequest(t) \/ AppendRoom(t) \/ DropRequest(t)
           \/ RemoveRoom(t) \/ AppendContact(t) \/ RemoveContact(t)
  BY <1>5 DEF PushRequest, AppendRoom, DropRequest, RemoveRoom, AppendContact, RemoveContact,
     GoOn, ServicesChange, Registers, Deregisters, Serves
<1>6. CASE Serve(t) \/ ServeContact(t)
  <2>1. PICK p, q, failed :
          /\ RegisterService(t, p, q, failed)
          /\ <<p, q>> \in {<<"serve", "append">>, <<"serve_new", "append_new">>,
                           <<"serve_contact", "append_contact">>}
    BY <1>6 DEF Serve, ServeContact
  <2>2. obj[t] \in Obj /\ obj[t][1] \in Id
    BY <2>1, ObjTyped DEF RegisterService, GoOn, TypeInv, TypeOK
  <2> QED
    BY <2>1, <2>2 DEF RegisterService, GoOn, ServicesChange, Registers, Deregisters, Serves,
       TypeInv, TypeOK
<1>7. CASE Unserve(t)
  <2>1. PICK p, q :
          /\ DeregisterService(t, p, q)
          /\ <<p, q>> \in {<<"unserve", "stop">>, <<"unserve_contact", "remove_contact">>}
    BY <1>7 DEF Unserve
  <2>2. obj[t] \in Obj /\ obj[t][1] \in Id
    BY <2>1, ObjTyped DEF DeregisterService, GoOn, TypeInv, TypeOK
  <2> QED
    BY <2>1, <2>2 DEF DeregisterService, GoOn, ServicesChange, Registers, Deregisters, Serves,
       TypeInv, TypeOK
<1> QED
  BY <1>1, <1>2, <1>3, <1>4, <1>5, <1>6, <1>7, ThreadSteps

LEMMA ThreadHeaders ==
  ASSUME TypeInv, NEW t \in Thread, ThreadNext(t)
  PROVE  HeadersChange(t)
<1>1. header \in [Thread -> SUBSET ((SUBSET Obj) \cup Seq(Obj))]
  BY DEF TypeInv, HeaderTyped
<1>2. pc[t] \notin {"push", "drop", "append", "append_new", "remove", "append_contact",
                    "remove_contact"} => header[t] = {}
  BY DEF TypeInv, HeaderTyped, ChangesSet, ChangesRooms
<1>3. CASE \E r \in RoomID : Invited(t, r) \/ CreateRoom(t, r) \/ DeleteRoom(t, r)
  BY <1>1, <1>2, <1>3 DEF Invited, CreateRoom, DeleteRoom, Begin, HeadersChange, TypeInv, TypeOK
<1>4. CASE \E o \in requests : Accept(t, o) \/ Refuse(t, o)
  BY <1>1, <1>2, <1>4 DEF Accept, Refuse, Begin, GoOn, HeadersChange, TypeInv, TypeOK
<1>5. CASE \/ \E o \in contacts : DeleteContact(t, o)
           \/ CreateContact(t)
  BY <1>1, <1>2, <1>5 DEF DeleteContact, CreateContact, Begin, HeadersChange, TypeInv, TypeOK
<1>6. CASE NotFound(t) \/ RunQueues(t) \/ StopQueues(t)
  BY <1>1, <1>2, <1>6 DEF NotFound, RunQueues, StopQueues, GoOn, HeadersChange, TypeInv, TypeOK
<1>7. CASE \/ PushRequest(t) \/ AppendRoom(t) \/ DropRequest(t)
           \/ RemoveRoom(t) \/ AppendContact(t) \/ RemoveContact(t)
  <2>1. header' = [header EXCEPT ![t] = {}]
    BY <1>7 DEF PushRequest, AppendRoom, DropRequest, RemoveRoom, AppendContact, RemoveContact,
       Stored, FoundNothing
  <2>2. pc'[t] # pc[t]
    BY <1>7 DEF PushRequest, AppendRoom, DropRequest, RemoveRoom, AppendContact, RemoveContact,
       GoOn, TypeInv, TypeOK
  <2> QED
    BY <1>1, <2>1, <2>2 DEF HeadersChange
<1>8. CASE Serve(t) \/ ServeContact(t) \/ Unserve(t)
  BY <1>1, <1>2, <1>8 DEF Serve, ServeContact, Unserve, RegisterService, DeregisterService, GoOn,
     HeadersChange, TypeInv, TypeOK
<1>9. CASE ReadHeader(t)
  BY <1>1, <1>9 DEF ReadHeader, HeadersChange
<1> QED
  BY <1>3, <1>4, <1>5, <1>6, <1>7, <1>8, <1>9, ThreadSteps

------------------------------------------------------------------------------
(* Services                                                                *)

LEMMA ServiceInit == Init => ServiceInv
<1> SUFFICES ASSUME Init PROVE ServiceInv
  OBVIOUS
<1>1. \A i \in Id : Count(rooms, i) = 0
  <2>1. rooms \in Seq(Obj) /\ ToSet(rooms) = {}
    BY EmptySeq DEF Init, ToSet
  <2> QED
    BY <2>1, CountTyped DEF Ids
<1>2. \A i : Appenders(i) = {} /\ Removers(i) = {}
  BY DEF Init, Appenders, Removers, Appending, Unserved
<1>3. ServicesCount
  <2>1. \A i : Cardinality(Appenders(i)) = 0 /\ Cardinality(Removers(i)) = 0
    BY <1>2, FS_EmptySet
  <2>2. \A i : i \notin Ids(contacts) /\ i \notin services
    BY DEF Init, Ids
  <2> QED
    BY <1>1, <2>1, <2>2 DEF ServicesCount, One
<1> QED
  BY <1>3 DEF Init, ServiceInv, KindsMatch, ContactIsNew, MakesContact, Listed, ToSet

(* Kinds never change, and who has an entry keeps it.                      *)
LEMMA KindsStay ==
  ASSUME TypeInv, IdsGrow, NEW o \in Obj
  PROVE  /\ IsRoom(o) => o[1] <= last' /\ roomID'[o[1]] \in RoomID
         /\ IsContact(o) => o[1] <= last' /\ roomID'[o[1]] = NoRoom /\ o[2] = 0
<1>1. last \in Nat /\ last' \in Nat /\ o[1] \in Nat /\ o[1] >= 1
  BY ObjTyped, ConstantsAssumption DEF TypeInv, TypeOK, IdsGrow, Id
<1>2. o[1] <= last => o[1] \in 1..last /\ o[1] <= last'
  BY <1>1 DEF IdsGrow
<1> QED
  BY <1>2 DEF IdsGrow, IsRoom, IsContact

LEMMA ListedOccurs ==
  ASSUME TypeInv, NEW o \in Obj
  PROVE  /\ o \in Listed <=> Occurrences(rooms, o) >= 1
         /\ Occurrences(rooms, o) \in Nat
BY OccurrencesNat

LEMMA ListedEffect ==
  ASSUME TypeInv, TypeInv', NEW t \in Thread, ListsChange(t), NEW o \in Obj, o[1] \notin hit'
  PROVE  /\ o \in Listed' => o \in Listed \/ Appends(t, o)
         /\ o \in Listed => o \in Listed' \/ Does(t, "remove", o)
         /\ Appends(t, o) => o \in Listed'
<1>1. /\ o \in Listed <=> Occurrences(rooms, o) >= 1
      /\ Occurrences(rooms, o) \in Nat
  BY ListedOccurs
<1>2. /\ o \in Listed' <=> Occurrences(rooms', o) >= 1
      /\ Occurrences(rooms', o) \in Nat
  BY OccurrencesTyped DEF TypeInv, TypeOK, Listed
<1>3. Occurrences(rooms', o) =
        Occurrences(rooms, o) + One(Appends(t, o)) - One(Does(t, "remove", o))
  BY DEF ListsChange, RoomsChange
<1>4. ~(Appends(t, o) /\ Does(t, "remove", o))
  BY DEF Appends, Does
<1> QED
  BY <1>1, <1>2, <1>3, <1>4 DEF One

LEMMA KindsNext ==
  ASSUME TypeInv, TypeInv', NEW t \in Thread, KindsMatch, Moves(t), IdsGrow, ListsChange(t),
         UNCHANGED image \/ image' = {[contacts |-> contacts, rooms |-> rooms]}
  PROVE  KindsMatch'
<1> DEFINE Room(o) == o[1] <= last' /\ roomID'[o[1]] \in RoomID
           Contact(o) == o[1] <= last' /\ roomID'[o[1]] = NoRoom /\ o[2] = 0
<1>1. \A o \in Obj : (IsRoom(o) => Room(o)) /\ (IsContact(o) => Contact(o))
  BY KindsStay
<1>2. hit \subseteq hit'
  BY DEF ListsChange
<1>3. ASSUME NEW u \in Thread, pc'[u] # "idle"
      PROVE  \/ obj'[u][1] \in hit'
             \/ ForContact(u)' /\ Contact(obj'[u])
             \/ ~ForContact(u)' /\ Room(obj'[u])
  <2>1. CASE pc[u] # "idle" /\ obj'[u] = obj[u] /\ (ForContact(u)' <=> ForContact(u))
    <3>1. obj[u] \in Obj
      BY <2>1 DEF TypeInv, TypeOK
    <3>2. \/ obj[u][1] \in hit
          \/ ForContact(u) /\ IsContact(obj[u])
          \/ ~ForContact(u) /\ IsRoom(obj[u])
      BY <2>1 DEF KindsMatch
    <3> QED
      BY <1>1, <1>2, <2>1, <3>1, <3>2
  <2>2. CASE u = t /\ pc[t] = "idle" /\ Begins(t)
    <3>1. CASE IsMade(obj'[t], RoomID) /\ ~ForContact(t)'
      <4>1. obj'[t][1] = last + 1 /\ last' = last + 1 /\ last \in Nat
        BY <3>1, ConstantsAssumption DEF IsMade, Fresh, TypeInv, TypeOK
      <4> QED
        BY <2>2, <3>1, <4>1 DEF IsMade
    <3>2. CASE IsMade(obj'[t], {NoRoom}) /\ ForContact(t)'
      <4>1. obj'[t][1] = last + 1 /\ obj'[t][2] = 0 /\ last' = last + 1 /\ last \in Nat
        BY <3>2, ConstantsAssumption DEF IsMade, Fresh, TypeInv, TypeOK
      <4> QED
        BY <2>2, <3>2, <4>1 DEF IsMade
    <3>3. CASE obj'[t] \in requests \cup Listed /\ ~ForContact(t)'
      <4>1. obj'[t] \in Obj
        BY <1>3, <2>2 DEF TypeInv, TypeOK
      <4>2. obj'[t][1] \in hit \/ IsRoom(obj'[t])
        BY <3>3 DEF KindsMatch
      <4> QED
        BY <1>1, <1>2, <2>2, <3>3, <4>1, <4>2
    <3>4. CASE obj'[t] \in contacts /\ ForContact(t)'
      <4>1. obj'[t] \in Obj
        BY <1>3, <2>2 DEF TypeInv, TypeOK
      <4>2. obj'[t][1] \in hit \/ IsContact(obj'[t])
        BY <3>4 DEF KindsMatch
      <4> QED
        BY <1>1, <1>2, <2>2, <3>4, <4>1, <4>2
    <3> QED
      BY <2>2, <3>1, <3>2, <3>3, <3>4 DEF Begins, ForContact
  <2> QED
    BY <1>3, <2>1, <2>2 DEF Moves, OthersStay, Transitions, ForContact
<1>4. ASSUME NEW o \in Listed' \cup requests' PROVE o[1] \in hit' \/ Room(o)
  <2>1. o \in Obj
    BY ListedTyped DEF TypeInv, TypeOK, Listed
  <2>2. CASE o \in Listed \cup requests
    BY <1>1, <1>2, <2>1, <2>2 DEF KindsMatch
  <2>3. CASE Appends(t, o) \/ Does(t, "push", o)
    <3>1. o[1] \in hit \/ IsRoom(o)
      BY <2>3 DEF KindsMatch, Appends, Does, ForContact
    <3> QED
      BY <1>1, <1>2, <2>1, <3>1
  <2> QED
    BY <2>1, <2>2, <2>3, ListedEffect DEF ListsChange, RequestsChange
<1>5. ASSUME NEW o \in contacts' PROVE o[1] \in hit' \/ Contact(o)
  <2>1. o \in Obj
    BY DEF TypeInv, TypeOK
  <2>2. CASE o \in contacts
    BY <1>1, <1>2, <2>1, <2>2 DEF KindsMatch
  <2>3. CASE Does(t, "append_contact", o)
    <3>1. o[1] \in hit \/ IsContact(o)
      BY <2>3 DEF KindsMatch, Does, ForContact
    <3> QED
      BY <1>1, <1>2, <2>1, <3>1
  <2> QED
    BY <2>1, <2>2, <2>3 DEF ListsChange, ContactsChange
<1>6. ASSUME NEW img \in image'
      PROVE  /\ \A o \in ToSet(img.rooms) : o[1] \in hit' \/ Room(o)
             /\ \A o \in img.contacts : o[1] \in hit' \/ Contact(o)
  <2>1. /\ \A o \in ToSet(img.rooms) : o[1] \in hit \/ IsRoom(o)
        /\ \A o \in img.contacts : o[1] \in hit \/ IsContact(o)
    BY <1>6 DEF KindsMatch, Listed
  <2>2. img.contacts \subseteq Obj /\ ToSet(img.rooms) \subseteq Obj
    BY <1>6, ListedTyped DEF TypeInv, ImageTyped
  <2> QED
    BY <1>1, <1>2, <2>1, <2>2
<1> QED
  BY <1>3, <1>4, <1>5, <1>6 DEF KindsMatch, IsRoom, IsContact

LEMMA IdOf ==
  ASSUME TypeInv, NEW t \in Thread, pc[t] # "idle"
  PROVE  obj[t] \in Obj /\ obj[t][1] \in Id
BY ObjTyped DEF TypeInv, TypeOK

(* Nobody else comes to a contact that is being made.                      *)
LEMMA ContactNext ==
  ASSUME TypeInv, TypeInv', NEW t \in Thread, KindsMatch, ContactIsNew, Moves(t),
         ListsChange(t)
  PROVE  ContactIsNew'
<1> SUFFICES ASSUME NEW u \in Thread, MakesContact(u)', obj'[u][1] \notin hit'
             PROVE  /\ obj'[u] \notin contacts'
                    /\ \A v \in Thread : pc'[v] # "idle" /\ obj'[v] = obj'[u] => v = u
  BY DEF ContactIsNew
<1>1. /\ last \in Nat /\ hit \subseteq hit' /\ obj'[u] \in Obj /\ obj'[u][1] \notin hit
      /\ ContactsChange(t)
  BY ConstantsAssumption DEF TypeInv, TypeOK, ListsChange, MakesContact
<1>2. CASE MakesContact(u) /\ obj'[u] = obj[u]
  <2>1. /\ obj[u] \notin contacts /\ IsContact(obj[u]) /\ pc[u] # "idle"
        /\ \A v \in Thread : pc[v] # "idle" /\ obj[v] = obj[u] => v = u
    BY <1>1, <1>2 DEF ContactIsNew, KindsMatch, MakesContact, ForContact
  <2>2. ~Does(t, "append_contact", obj[u])
    BY <1>2, <2>1 DEF Does, MakesContact, Moves, Transitions
  <2>3. obj[u] \notin contacts'
    BY <1>1, <1>2, <2>1, <2>2 DEF ContactsChange
  <2>4. ASSUME NEW v \in Thread, pc'[v] # "idle", obj'[v] = obj[u] PROVE v = u
    <3>1. CASE pc[v] # "idle" /\ obj'[v] = obj[v]
      BY <2>1, <2>4, <3>1
    <3>2. CASE v = t /\ pc[t] = "idle" /\ Begins(t)
      <4>1. obj'[t] # Fresh
        BY <1>1, <2>1, <2>4, <3>2 DEF IsContact, Fresh
      <4>2. obj'[t] \notin requests \cup Listed
        BY <1>1, <1>2, <2>1, <2>4, <3>2, ConstantsAssumption DEF KindsMatch, IsRoom, IsContact
      <4> QED
        BY <2>1, <2>4, <3>2, <4>1, <4>2 DEF Begins, IsMade
    <3> QED
      BY <2>4, <3>1, <3>2 DEF Moves, OthersStay, Transitions
  <2> QED
    BY <1>2, <2>3, <2>4
<1>3. CASE u = t /\ pc[t] = "idle" /\ obj'[t] = Fresh
  <2>1. Fresh[1] = last + 1 /\ Fresh[1] \notin hit
    BY <1>1, <1>3 DEF Fresh
  <2>2. ~IsRoom(Fresh) /\ ~IsContact(Fresh)
    BY <1>1, <2>1 DEF IsRoom, IsContact
  <2>3. Fresh \notin contacts
    BY <2>1, <2>2 DEF KindsMatch
  <2>4. ~Does(t, "append_contact", Fresh)
    BY <1>3 DEF Does
  <2>5. Fresh \notin contacts'
    BY <1>1, <1>3, <2>1, <2>3, <2>4 DEF ContactsChange
  <2>6. ASSUME NEW v \in Thread \ {t}, pc'[v] # "idle" PROVE obj'[v] # Fresh
    BY <2>1, <2>2, <2>6 DEF KindsMatch, Moves, OthersStay
  <2> QED
    BY <1>3, <2>5, <2>6
<1> QED
  BY <1>2, <1>3 DEF Moves, OthersStay, Transitions, Begins, IsMade, MakesContact

LEMMA CountChange ==
  ASSUME TypeInv, TypeInv', NEW t \in Thread, ListsChange(t), NEW i \in Id \ hit'
  PROVE  /\ Count(rooms, i) \in Nat /\ Count(rooms', i) \in Nat
         /\ Count(rooms', i) = Count(rooms, i) + One(Appends(t, obj[t]) /\ obj[t][1] = i)
                                - One(Does(t, "remove", obj[t]) /\ obj[t][1] = i)
<1>1. <<i, 0>> \in Obj /\ <<i, 1>> \in Obj /\ <<i, 0>> # <<i, 1>>
      /\ <<i, 0>>[1] = i /\ <<i, 1>>[1] = i
  BY DEF Obj
<1>2. /\ Occurrences(rooms, <<i, 0>>) \in Nat /\ Occurrences(rooms, <<i, 1>>) \in Nat
      /\ Count(rooms, i) \in Nat /\ Count(rooms', i) \in Nat
  BY <1>1, OccurrencesNat, CountTyped DEF TypeInv, TypeOK
<1>3. /\ Occurrences(rooms', <<i, 0>>) = Occurrences(rooms, <<i, 0>>)
            + One(Appends(t, <<i, 0>>)) - One(Does(t, "remove", <<i, 0>>))
      /\ Occurrences(rooms', <<i, 1>>) = Occurrences(rooms, <<i, 1>>)
            + One(Appends(t, <<i, 1>>)) - One(Does(t, "remove", <<i, 1>>))
  BY <1>1 DEF ListsChange, RoomsChange
<1>4. CASE obj[t] \notin {<<i, 0>>, <<i, 1>>}
  <2>1. obj[t] \in Obj => obj[t][1] # i
    BY <1>4 DEF Obj
  <2>2. Appends(t, obj[t]) \/ Does(t, "remove", obj[t]) => obj[t] \in Obj
    BY DEF Appends, Does, TypeInv, TypeOK
  <2> QED
    BY <1>2, <1>3, <1>4, <2>1, <2>2 DEF One, Count, Appends, Does
<1>5. CASE obj[t] = <<i, 0>>
  BY <1>1, <1>2, <1>3, <1>5 DEF One, Count, Appends, Does
<1>6. CASE obj[t] = <<i, 1>>
  BY <1>1, <1>2, <1>3, <1>6 DEF One, Count, Appends, Does
<1> QED
  BY <1>4, <1>5, <1>6

LEMMA ContactsCount ==
  ASSUME TypeInv, TypeInv', NEW t \in Thread, KindsMatch, ListsChange(t), NEW i \in Id \ hit'
  PROVE  IF obj[t][1] = i
         THEN /\ Does(t, "append_contact", obj[t]) => i \in Ids(contacts')
              /\ Does(t, "remove_contact", obj[t]) => i \in Ids(contacts) /\ i \notin Ids(contacts')
              /\ ~Does(t, "append_contact", obj[t]) /\ ~Does(t, "remove_contact", obj[t])
                   => (i \in Ids(contacts') <=> i \in Ids(contacts))
         ELSE i \in Ids(contacts') <=> i \in Ids(contacts)
<1>1. \A o \in Obj : o[1] = i =>
        /\ Does(t, "remove_contact", o) => o \in contacts
        /\ o \in contacts'
             <=> Does(t, "append_contact", o) \/ (o \in contacts /\ ~Does(t, "remove_contact", o))
  BY DEF ListsChange, ContactsChange
<1>2. contacts \subseteq Obj /\ contacts' \subseteq Obj /\ hit \subseteq hit'
  BY DEF TypeInv, TypeOK, ListsChange
<1>3. CASE obj[t][1] # i
  BY <1>1, <1>2, <1>3 DEF Does, Ids
<1>4. CASE obj[t][1] = i /\ Does(t, "append_contact", obj[t])
  <2>1. obj[t] \in Obj
    BY <1>4 DEF Does, TypeInv, TypeOK
  <2>2. obj[t] \in contacts' /\ ~Does(t, "remove_contact", obj[t])
    BY <1>1, <1>4, <2>1 DEF Does
  <2> QED
    BY <1>4, <2>2 DEF Ids
<1>5. CASE obj[t][1] = i /\ Does(t, "remove_contact", obj[t])
  <2>1. obj[t] \in Obj /\ obj[t] \in contacts /\ IsContact(obj[t])
    BY <1>1, <1>2, <1>5 DEF Does, TypeInv, TypeOK, KindsMatch, ForContact
  <2>2. ASSUME NEW o \in contacts', o[1] = i PROVE FALSE
    <3>1. o \in contacts /\ o \in Obj /\ ~Does(t, "remove_contact", o)
      BY <1>1, <1>2, <1>5, <2>2 DEF Does
    <3>2. IsContact(o)
      BY <1>2, <2>2, <3>1 DEF KindsMatch
    <3>3. o = obj[t]
      BY <1>5, <2>1, <2>2, <3>1, <3>2 DEF IsContact, Obj
    <3> QED
      BY <1>5, <3>1, <3>3
  <2>3. ~Does(t, "append_contact", obj[t])
    BY <1>5 DEF Does
  <2> QED
    BY <1>5, <2>1, <2>2, <2>3 DEF Ids
<1>6. CASE /\ obj[t][1] = i /\ ~Does(t, "append_contact", obj[t])
           /\ ~Does(t, "remove_contact", obj[t])
  BY <1>1, <1>2, <1>6 DEF Does, Ids
<1> QED
  BY <1>3, <1>4, <1>5, <1>6

LEMMA ThreadsCount ==
  ASSUME NEW S, S \subseteq Thread
  PROVE  IsFiniteSet(S) /\ Cardinality(S) \in Nat
BY ConstantsAssumption, FS_Subset, FS_CardinalityType

(* One goroutine joins or leaves a set of goroutines.                      *)
LEMMA OneThreadCounts ==
  ASSUME NEW S, NEW T, S \subseteq Thread, T \subseteq Thread, NEW t, S \ {t} = T \ {t}
  PROVE  /\ Cardinality(S) \in Nat /\ Cardinality(T) \in Nat
         /\ Cardinality(T) = Cardinality(S) + One(t \in T) - One(t \in S)
<1>1. /\ IsFiniteSet(S) /\ Cardinality(S) \in Nat
      /\ IsFiniteSet(T) /\ Cardinality(T) \in Nat
  BY ThreadsCount
<1>2. CASE t \in S /\ t \notin T
  <2>1. T = S \ {t}
    BY <1>2
  <2> QED
    BY <1>1, <1>2, <2>1, FS_RemoveElement DEF One
<1>3. CASE t \in T /\ t \notin S
  <2>1. S = T \ {t}
    BY <1>3
  <2> QED
    BY <1>1, <1>3, <2>1, FS_RemoveElement DEF One
<1>4. CASE t \in S <=> t \in T
  <2>1. S = T
    BY <1>4
  <2> QED
    BY <1>1, <2>1 DEF One
<1> QED
  BY <1>2, <1>3, <1>4

(* The five numbers of ServicesCount, through any step of a goroutine.     *)
LEMMA CountNext ==
  ASSUME TypeInv, TypeInv', ServiceInv, NEW t \in Thread, Moves(t), ListsChange(t),
         ServicesChange(t)
  PROVE  ServicesCount'
<1> SUFFICES ASSUME NEW i \in Id \ hit'
             PROVE  Count(rooms', i) + One(i \in Ids(contacts')) + Cardinality(Appenders(i)')
                      = One(i \in services') + Cardinality(Removers(i)')
  BY DEF ServicesCount
<1>1. /\ Count(rooms, i) + One(i \in Ids(contacts)) + Cardinality(Appenders(i))
           = One(i \in services) + Cardinality(Removers(i))
      /\ i \notin hit
  BY DEF ServiceInv, ServicesCount, ListsChange
<1>2. /\ Count(rooms, i) \in Nat /\ Count(rooms', i) \in Nat
      /\ Count(rooms', i) = Count(rooms, i) + One(Appends(t, obj[t]) /\ obj[t][1] = i)
                             - One(Does(t, "remove", obj[t]) /\ obj[t][1] = i)
  BY CountChange
<1>3. IF obj[t][1] = i
      THEN /\ Does(t, "append_contact", obj[t]) => i \in Ids(contacts')
           /\ Does(t, "remove_contact", obj[t]) => i \in Ids(contacts) /\ i \notin Ids(contacts')
           /\ ~Does(t, "append_contact", obj[t]) /\ ~Does(t, "remove_contact", obj[t])
                => (i \in Ids(contacts') <=> i \in Ids(contacts))
      ELSE i \in Ids(contacts') <=> i \in Ids(contacts)
  BY ContactsCount DEF ServiceInv
<1>4. /\ Cardinality(Appenders(i)) \in Nat /\ Cardinality(Appenders(i)') \in Nat
      /\ Cardinality(Appenders(i)') = Cardinality(Appenders(i))
            + One(Appending(t)' /\ obj'[t][1] = i) - One(Appending(t) /\ obj[t][1] = i)
  <2>1. Appenders(i) \ {t} = Appenders(i)' \ {t}
    BY DEF Appenders, Appending, Moves, OthersStay
  <2>2. /\ Cardinality(Appenders(i)) \in Nat /\ Cardinality(Appenders(i)') \in Nat
        /\ Cardinality(Appenders(i)') = Cardinality(Appenders(i))
              + One(t \in Appenders(i)') - One(t \in Appenders(i))
    <3>1. Appenders(i) \subseteq Thread /\ Appenders(i)' \subseteq Thread
      BY DEF Appenders
    <3> HIDE DEF Appenders
    <3> QED
      BY <2>1, <3>1, OneThreadCounts
  <2> QED
    BY <2>2 DEF Appenders
<1>5. /\ Cardinality(Removers(i)) \in Nat /\ Cardinality(Removers(i)') \in Nat
      /\ Cardinality(Removers(i)') = Cardinality(Removers(i))
            + One(Unserved(t)' /\ obj'[t][1] = i) - One(Unserved(t) /\ obj[t][1] = i)
  <2>1. Removers(i) \ {t} = Removers(i)' \ {t}
    BY DEF Removers, Unserved, Moves, OthersStay
  <2>2. /\ Cardinality(Removers(i)) \in Nat /\ Cardinality(Removers(i)') \in Nat
        /\ Cardinality(Removers(i)') = Cardinality(Removers(i))
              + One(t \in Removers(i)') - One(t \in Removers(i))
    <3>1. Removers(i) \subseteq Thread /\ Removers(i)' \subseteq Thread
      BY DEF Removers
    <3> QED
      BY <2>1, <3>1, OneThreadCounts
  <2> QED
    BY <2>2 DEF Removers
<1>6. CASE obj[t][1] # i \/ pc[t] = "idle"
  <2>1. ~(Appending(t)' /\ obj'[t][1] = i) /\ ~(Appending(t) /\ obj[t][1] = i)
    BY <1>6 DEF Appending, Moves, Transitions, Begins
  <2>2. ~(Unserved(t)' /\ obj'[t][1] = i) /\ ~(Unserved(t) /\ obj[t][1] = i)
    BY <1>6 DEF Unserved, Moves, Transitions, Begins
  <2>3. i \in services' <=> i \in services
    BY <1>6 DEF ServicesChange, Registers, Deregisters, Serves
  <2>4. Count(rooms', i) = Count(rooms, i) /\ (i \in Ids(contacts') <=> i \in Ids(contacts))
    BY <1>2, <1>3, <1>6 DEF One, Appends, Does
  <2> QED
    BY <1>1, <1>4, <1>5, <2>1, <2>2, <2>3, <2>4 DEF One
<1>7. CASE obj[t][1] = i /\ pc'[t] = pc[t] /\ obj'[t] = obj[t]
  <2>1. i \in services' <=> i \in services
    BY <1>7 DEF ServicesChange, Registers, Deregisters, Serves
  <2>2. Count(rooms', i) = Count(rooms, i) /\ (i \in Ids(contacts') <=> i \in Ids(contacts))
    BY <1>2, <1>3, <1>7 DEF One, Appends, Does
  <2>3. (Appending(t)' <=> Appending(t)) /\ (Unserved(t)' <=> Unserved(t))
    BY <1>7 DEF Appending, Unserved
  <2> QED
    BY <1>1, <1>4, <1>5, <1>7, <2>1, <2>2, <2>3 DEF One
<1>8. CASE /\ obj[t][1] = i /\ pc[t] # "idle" /\ pc'[t] # pc[t]
           /\ \/ pc[t] \notin {"append", "run", "stop"} /\ pc'[t] = "idle"
              \/ <<pc[t], pc'[t]>> \in Transitions /\ obj'[t] = obj[t]
  <2>1. CASE \/ pc[t] \in {"push", "find", "run", "drop", "stop"}
             \/ (Serves(t) \/ pc[t] \in {"unserve", "unserve_contact"}) /\ pc'[t] = "idle"
    <3>1. i \in services' <=> i \in services
      BY <2>1 DEF ServicesChange, Registers, Deregisters, Serves
    <3>2. Count(rooms', i) = Count(rooms, i) /\ (i \in Ids(contacts') <=> i \in Ids(contacts))
      BY <1>2, <1>3, <1>8, <2>1 DEF One, Appends, Does, Serves
    <3>3. ~Appending(t)' /\ ~Appending(t)
      BY <1>8, <2>1 DEF Appending, Transitions, Serves
    <3>4. /\ Unserved(t)' <=> Unserved(t)
          /\ Unserved(t) => obj'[t] = obj[t]
      BY <1>8, <2>1 DEF Unserved, Transitions, Serves
    <3> QED
      BY <1>1, <1>4, <1>5, <1>8, <3>1, <3>2, <3>3, <3>4 DEF One
  <2>2. CASE Serves(t) /\ pc'[t] # "idle"
    <3>1. Registers(t, i) /\ Appending(t)' /\ ~Appending(t) /\ ~Unserved(t)' /\ ~Unserved(t)
      BY <1>8, <2>2 DEF Registers, Appending, Unserved, Serves, Transitions
    <3>2. i \notin services /\ i \in services' /\ obj'[t] = obj[t]
      BY <1>8, <2>2, <3>1 DEF ServicesChange
    <3>3. Count(rooms', i) = Count(rooms, i) /\ (i \in Ids(contacts') <=> i \in Ids(contacts))
      BY <1>2, <1>3, <1>8, <2>2 DEF One, Appends, Does, Serves
    <3> QED
      BY <1>1, <1>2, <1>4, <1>5, <1>8, <3>1, <3>2, <3>3 DEF One
  <2>3. CASE pc[t] \in {"unserve", "unserve_contact"} /\ pc'[t] # "idle"
    <3>1. Deregisters(t, i) /\ ~Appending(t)' /\ ~Appending(t) /\ Unserved(t)' /\ ~Unserved(t)
      BY <1>8, <2>3 DEF Deregisters, Appending, Unserved, Transitions
    <3>2. i \in services /\ i \notin services' /\ obj'[t] = obj[t]
      BY <1>8, <2>3, <3>1 DEF ServicesChange
    <3>3. Count(rooms', i) = Count(rooms, i) /\ (i \in Ids(contacts') <=> i \in Ids(contacts))
      BY <1>2, <1>3, <1>8, <2>3 DEF One, Appends, Does
    <3> QED
      BY <1>1, <1>2, <1>4, <1>5, <1>8, <3>1, <3>2, <3>3 DEF One
  <2>4. CASE Appending(t)
    <3>1. ~Appending(t)' /\ ~Unserved(t)' /\ ~Unserved(t)
      BY <1>8, <2>4 DEF Appending, Unserved, Transitions
    <3>2. i \in services' <=> i \in services
      BY <2>4 DEF ServicesChange, Registers, Deregisters, Serves, Appending
    <3>3. CASE pc[t] \in {"append", "append_new"}
      <4>1. /\ Count(rooms', i) = Count(rooms, i) + 1
            /\ i \in Ids(contacts') <=> i \in Ids(contacts)
        BY <1>2, <1>3, <1>8, <3>3 DEF One, Appends, Does
      <4> QED
        BY <1>1, <1>2, <1>4, <1>5, <1>8, <2>4, <3>1, <3>2, <4>1 DEF One
    <3>4. CASE pc[t] = "append_contact"
      <4>1. Count(rooms', i) = Count(rooms, i) /\ i \in Ids(contacts')
        BY <1>2, <1>3, <1>8, <3>4 DEF One, Appends, Does
      <4>2. i \notin Ids(contacts)
        <5>1. obj[t] \notin contacts /\ IsContact(obj[t]) /\ obj[t] \in Obj
          BY <1>1, <1>8, <3>4 DEF ServiceInv, ContactIsNew, KindsMatch, MakesContact, ForContact,
             TypeInv, TypeOK
        <5>2. ASSUME NEW o \in contacts, o[1] = i PROVE FALSE
          <6>1. o \in Obj /\ IsContact(o)
            BY <1>1, <5>2 DEF ServiceInv, KindsMatch, TypeInv, TypeOK
          <6>2. o = obj[t]
            BY <1>8, <5>1, <5>2, <6>1 DEF IsContact, Obj
          <6> QED
            BY <5>1, <5>2, <6>2
        <5> QED
          BY <5>2 DEF Ids
      <4> QED
        BY <1>1, <1>2, <1>4, <1>5, <1>8, <2>4, <3>1, <3>2, <4>1, <4>2 DEF One
    <3> QED
      BY <2>4, <3>3, <3>4 DEF Appending
  <2>5. CASE pc[t] \in {"remove", "remove_contact"}
    <3>1. ~Appending(t)' /\ ~Appending(t) /\ ~Unserved(t)' /\ Unserved(t)
      BY <1>8, <2>5 DEF Appending, Unserved, Transitions
    <3>2. i \in services' <=> i \in services
      BY <2>5 DEF ServicesChange, Registers, Deregisters, Serves
    <3>3. CASE pc[t] = "remove"
      <4>1. /\ Count(rooms', i) = Count(rooms, i) - 1
            /\ i \in Ids(contacts') <=> i \in Ids(contacts)
        BY <1>2, <1>3, <1>8, <3>3 DEF One, Appends, Does
      <4> QED
        BY <1>1, <1>2, <1>4, <1>5, <1>8, <3>1, <3>2, <4>1 DEF One
    <3>4. CASE pc[t] = "remove_contact"
      <4>1. /\ Count(rooms', i) = Count(rooms, i)
            /\ i \in Ids(contacts) /\ i \notin Ids(contacts')
        BY <1>2, <1>3, <1>8, <3>4 DEF One, Appends, Does
      <4> QED
        BY <1>1, <1>2, <1>4, <1>5, <1>8, <3>1, <3>2, <4>1 DEF One
    <3> QED
      BY <2>5, <3>3, <3>4
  <2> QED
    BY <1>8, <2>1, <2>2, <2>3, <2>4, <2>5 DEF TypeInv, TypeOK, Serves, Appending
<1> QED
  BY <1>6, <1>7, <1>8 DEF Moves, Transitions

(* The next start serves what it has loaded.                               *)
LEMMA ServiceRestart ==
  ASSUME TypeInv, TypeInv', ServiceInv, Restart
  PROVE  ServiceInv'
<1>1. PICK img \in image :
        /\ \A i, j \in DOMAIN img.rooms : img.rooms[i][1] = img.rooms[j][1] => i = j
        /\ Loaded(img)
  BY DEF Restart, Loaded
<1>2. img.contacts \subseteq Obj /\ img.rooms \in Seq(Obj) /\ ToSet(img.rooms) \subseteq Obj
  BY ListedTyped DEF TypeInv, ImageTyped
<1>3. /\ \A t \in Thread : pc'[t] = "idle"
      /\ hit \subseteq hit' /\ roomID' = roomID /\ last' = last /\ image' = {}
  BY <1>1 DEF Restart, Loaded, countVars
<1>4. /\ \A o \in ToSet(img.rooms) : o[1] \in hit \/ IsRoom(o)
      /\ \A o \in img.contacts : o[1] \in hit \/ IsContact(o)
      /\ \A o \in requests : o[1] \in hit \/ IsRoom(o)
  BY <1>1 DEF ServiceInv, KindsMatch
<1>5. KindsMatch'
  <2>1. \A o \in requests' : o[1] \in hit' \/ IsRoom(o)
    <3> SUFFICES ASSUME NEW p \in requests
                 PROVE  LET o == IF p \in ToSet(img.rooms) THEN Twin(p) ELSE p
                        IN  o[1] \in hit' \/ IsRoom(o)
      BY <1>1 DEF Loaded
    <3>1. p \in Obj /\ Twin(p)[1] = p[1]
      BY ObjTyped DEF TypeInv, TypeOK
    <3> QED
      BY <1>3, <1>4, <3>1 DEF IsRoom
  <2>2. rooms' = img.rooms /\ contacts' = img.contacts
    BY <1>1 DEF Loaded
  <2> QED
    BY <1>3, <1>4, <2>1, <2>2 DEF KindsMatch, Listed, IsRoom, IsContact
<1>6. ASSUME NEW i \in Id \ hit'
      PROVE  Count(img.rooms, i) + One(i \in Ids(img.contacts)) = One(i \in services')
  <2>1. Count(img.rooms, i) \in Nat /\ (Count(img.rooms, i) # 0 <=> i \in Ids(ToSet(img.rooms)))
    BY <1>2, CountTyped
  <2>2. Count(img.rooms, i) <= 1
    BY <1>1, <1>2, <2>1, TwoOfOneIdentity
  <2>3. ~(i \in Ids(ToSet(img.rooms)) /\ i \in Ids(img.contacts))
    BY <1>3, <1>4, <1>6, ConstantsAssumption DEF Ids, IsRoom, IsContact
  <2>4. i \in services' <=> i \in Ids(ToSet(img.rooms)) \/ i \in Ids(img.contacts)
    BY <1>1 DEF Loaded, Served, Ids
  <2> QED
    BY <2>1, <2>2, <2>3, <2>4 DEF One
<1>7. ServicesCount'
  <2>1. \A i : Appenders(i)' = {} /\ Removers(i)' = {}
    BY <1>3 DEF Appenders, Removers, Appending, Unserved
  <2>2. rooms' = img.rooms /\ contacts' = img.contacts
    BY <1>1 DEF Loaded
  <2>3. ASSUME NEW i \in Id \ hit'
        PROVE  Count(rooms', i) + One(i \in Ids(contacts')) + Cardinality(Appenders(i)')
                 = One(i \in services') + Cardinality(Removers(i)')
    <3>1. Count(img.rooms, i) \in Nat
      BY <1>2, CountTyped
    <3> QED
      BY <1>6, <2>1, <2>2, <3>1, FS_EmptySet DEF One
  <2> QED
    BY <2>3 DEF ServicesCount
<1>8. ContactIsNew'
  BY <1>3 DEF ContactIsNew, MakesContact
<1> QED
  BY <1>5, <1>7, <1>8 DEF ServiceInv

LEMMA ImageSteps ==
  ASSUME NEW t \in Thread, ThreadNext(t)
  PROVE  UNCHANGED image
<1>1. CASE \E r \in RoomID : Invited(t, r) \/ CreateRoom(t, r) \/ DeleteRoom(t, r)
  BY <1>1 DEF Invited, CreateRoom, DeleteRoom
<1>2. CASE \/ \E o \in requests : Accept(t, o) \/ Refuse(t, o)
           \/ \E o \in contacts : DeleteContact(t, o)
  BY <1>2 DEF Accept, Refuse, DeleteContact
<1> QED
  BY <1>1, <1>2, ThreadSteps DEF ReadHeader, PushRequest, NotFound, Serve, AppendRoom, RunQueues,
     DropRequest, Unserve, StopQueues, RemoveRoom, CreateContact, ServeContact, AppendContact,
     RemoveContact

LEMMA ServiceThread ==
  ASSUME TypeInv, TypeInv', ServiceInv, NEW t \in Thread, ThreadNext(t)
  PROVE  ServiceInv'
<1>1. /\ Moves(t) /\ IdsGrow /\ ServicesChange(t) /\ UNCHANGED image
      /\ ListsChange(t)
  BY ThreadMoves, ThreadServices, ThreadLists, ImageSteps
<1>2. KindsMatch'
  BY <1>1, KindsNext DEF ServiceInv
<1>3. ContactIsNew'
  BY <1>1, ContactNext DEF ServiceInv
<1>4. ServicesCount'
  BY <1>1, CountNext
<1> QED
  BY <1>2, <1>3, <1>4 DEF ServiceInv

(* No variable that these invariants read changes.                         *)
LEMMA ServiceStays ==
  ASSUME ServiceInv, KindsMatch', UNCHANGED <<pc, obj, rooms, contacts, services, hit>>
  PROVE  ServiceInv'
<1>1. ContactIsNew'
  BY DEF ServiceInv, ContactIsNew, MakesContact
<1>2. ServicesCount'
  <2> SUFFICES ASSUME NEW i \in Id \ hit'
               PROVE  Count(rooms', i) + One(i \in Ids(contacts')) + Cardinality(Appenders(i)')
                        = One(i \in services') + Cardinality(Removers(i)')
    BY DEF ServicesCount
  <2>1. Count(rooms, i) + One(i \in Ids(contacts)) + Cardinality(Appenders(i))
            = One(i \in services) + Cardinality(Removers(i))
    BY DEF ServiceInv, ServicesCount
  <2>2. Appenders(i)' = Appenders(i) /\ Removers(i)' = Removers(i)
    BY DEF Appenders, Removers, Appending, Unserved
  <2>3. rooms' = rooms /\ contacts' = contacts /\ services' = services
    OBVIOUS
  <2> QED
    BY <2>1, <2>2, <2>3
<1> QED
  BY <1>1, <1>2 DEF ServiceInv

LEMMA ServiceNext ==
  TypeInv /\ ServiceInv /\ [Next]_vars => ServiceInv'
<1> SUFFICES ASSUME TypeInv, ServiceInv, [Next]_vars PROVE ServiceInv'
  OBVIOUS
<1>1. TypeInv'
  BY TypeNext
<1>2. CASE SaveRooms
  <2>1. KindsMatch'
    BY <1>2 DEF ServiceInv, KindsMatch, SaveRooms, dataVars, roomVars, histVars, Listed,
       IsRoom, IsContact, ForContact
  <2> QED
    BY <1>2, <2>1, ServiceStays DEF SaveRooms, dataVars, histVars
<1>3. CASE UNCHANGED vars
  <2>1. KindsMatch'
    BY <1>3 DEF ServiceInv, KindsMatch, vars, dataVars, roomVars, countVars, histVars,
       Listed, IsRoom, IsContact, ForContact
  <2> QED
    BY <1>3, <2>1, ServiceStays DEF vars, dataVars, histVars
<1> QED
  BY <1>1, <1>2, <1>3, ServiceThread, ServiceRestart DEF Next

LEMMA ServiceInvariant == Spec => []ServiceInv
<1>1. Init => ServiceInv
  BY ServiceInit
<1>2. TypeInv /\ ServiceInv /\ [Next]_vars => ServiceInv'
  BY ServiceNext
<1> QED
  BY <1>1, <1>2, TypeInvariant, PTL DEF Spec

(* The onion services of a daemon at rest are those of its contacts and    *)
(* rooms, whatever calls overlapped, failed half-way or were cut off by an *)
(* exit, but for what hit names.                                           *)
THEOREM ServicesAreListed == Spec => []ServicesMatch
<1>1. TypeInv /\ ServiceInv => ServicesMatch
  <2> SUFFICES ASSUME TypeInv, ServiceInv, Quiescent
               PROVE  services \ hit = Served(contacts, rooms) \ hit
    BY DEF ServicesMatch
  <2>1. \A i : Appenders(i) = {} /\ Removers(i) = {}
    BY DEF Quiescent, Appenders, Removers, Appending, Unserved
  <2>2. ASSUME NEW i \in Id \ hit PROVE i \in services <=> i \in Served(contacts, rooms)
    <3>1. Count(rooms, i) \in Nat /\ (Count(rooms, i) # 0 <=> i \in Ids(Listed))
      BY CountTyped DEF TypeInv, TypeOK, Listed
    <3>2. Count(rooms, i) + One(i \in Ids(contacts)) + 0 = One(i \in services) + 0
      BY <2>1, FS_EmptySet DEF ServiceInv, ServicesCount
    <3>3. i \in Served(contacts, rooms) <=> i \in Ids(contacts) \/ i \in Ids(Listed)
      BY DEF Served, Ids, Listed
    <3> QED
      BY <3>1, <3>2, <3>3 DEF One
  <2>3. services \subseteq Id /\ Served(contacts, rooms) \subseteq Id
    BY ObjTyped, ListedTyped DEF TypeInv, TypeOK, Served, Ids
  <2> QED
    BY <2>2, <2>3
<1> QED
  BY <1>1, TypeInvariant, ServiceInvariant, PTL

(* data.Rooms holds an identity twice only while deregisterRoom has taken  *)
(* its service away, or after what hit names: any other exit leaves a file *)
(* that the next start accepts, whatever calls overlapped.                 *)
THEOREM IdentitiesAreDistinct == Spec => []IdentitiesDistinct
<1>1. TypeInv /\ ServiceInv => IdentitiesDistinct
  <2> SUFFICES ASSUME TypeInv, ServiceInv, NEW j \in DOMAIN rooms, NEW k \in DOMAIN rooms,
                      rooms[j][1] = rooms[k][1], j # k, rooms[j][1] \notin hit
               PROVE  \E t \in Thread : pc[t] \in {"stop", "remove"} /\ obj[t][1] = rooms[j][1]
    BY DEF IdentitiesDistinct
  <2> DEFINE i == rooms[j][1]
  <2>1. rooms \in Seq(Obj) /\ rooms[j] \in Obj /\ rooms[j] \in Listed
    BY ElementOfSeq, LenProperties DEF TypeInv, TypeOK, Listed, ToSet
  <2>2. i \in Id /\ i \notin hit
    BY <2>1, ObjTyped
  <2>3. Count(rooms, i) > 1 /\ Count(rooms, i) \in Nat
    BY <2>1, <2>2, TwoOfOneIdentity, CountTyped
  <2>4. PICK t \in Thread : Unserved(t) /\ obj[t][1] = i
    <3>1. /\ Cardinality(Appenders(i)) \in Nat /\ Cardinality(Removers(i)) \in Nat
          /\ Removers(i) = {} => Cardinality(Removers(i)) = 0
      BY ThreadsCount, FS_EmptySet DEF Appenders, Removers
    <3>2. Count(rooms, i) + One(i \in Ids(contacts)) + Cardinality(Appenders(i))
            = One(i \in services) + Cardinality(Removers(i))
      BY <2>2 DEF ServiceInv, ServicesCount
    <3>3. Removers(i) # {}
      BY <2>3, <3>1, <3>2 DEF One
    <3> QED
      BY <3>3 DEF Removers
  <2>5. IsRoom(rooms[j])
    BY <2>1, <2>2 DEF ServiceInv, KindsMatch
  <2>6. pc[t] # "remove_contact"
    BY <2>2, <2>4, <2>5, ConstantsAssumption DEF ServiceInv, KindsMatch, ForContact, IsRoom,
       IsContact
  <2> QED
    BY <2>4, <2>6 DEF Unserved
<1> QED
  BY <1>1, TypeInvariant, ServiceInvariant, PTL

------------------------------------------------------------------------------
(* Queues                                                                  *)

(* SetContext: a call begins to accept a request, or to make a room.       *)
Starts(t, p, o) == pc[t] # p /\ pc'[t] = p /\ obj'[t] = o
LeavesBehind(t, o) == pc[t] = "serve_new" /\ pc'[t] = "idle" /\ obj[t] = o

QueuesChange(t) ==
  \A o \in Obj :
    /\ ctx'[o] = IF Does(t, "stop", o) THEN "cancelled"
                 ELSE IF ctx[o] = "none" /\ (Starts(t, "serve", o) \/ Starts(t, "serve_new", o))
                 THEN "live" ELSE ctx[o]
    /\ o \in running' <=> \/ o \in running /\ ~Does(t, "stop", o)
                          \/ Does(t, "run", o) /\ ctx[o] = "live"
                          \/ Starts(t, "serve_new", o)
    /\ o \in leaked' <=> o \in leaked \/ LeavesBehind(t, o)
    /\ Starts(t, "serve", o) => o \in requests
    /\ \/ o \in doubled
       \/ Starts(t, "serve", o) /\ \E u \in Thread : Accepting(u) /\ obj[u] = o
       => o \in doubled'

LEMMA ThreadQueues ==
  ASSUME TypeInv, NEW t \in Thread, ThreadNext(t)
  PROVE  QueuesChange(t)
<1>1. CASE \E r \in RoomID : Invited(t, r) \/ DeleteRoom(t, r)
  BY <1>1 DEF Invited, DeleteRoom, Begin, roomVars, QueuesChange, Does, Starts, LeavesBehind,
     TypeInv, TypeOK
<1>2. CASE \E r \in RoomID : CreateRoom(t, r)
  <2>1. Begin(t, "create", "serve_new", Fresh) /\ SetContext(Fresh) /\ UNCHANGED histVars
        /\ running' = running \cup {Fresh} /\ UNCHANGED requests
    BY <1>2 DEF CreateRoom, dataVars
  <2>2. pc[t] = "idle" /\ pc'[t] = "serve_new" /\ obj'[t] = Fresh
    BY <2>1 DEF Begin, TypeInv, TypeOK
  <2>3. \A o \in Obj : ctx'[o] = IF ctx[o] = "none" /\ o = Fresh THEN "live" ELSE ctx[o]
    BY <2>1 DEF SetContext, TypeInv, TypeOK
  <2> HIDE DEF Fresh
  <2> QED
    BY <2>1, <2>2, <2>3 DEF histVars, QueuesChange, Does, Starts, LeavesBehind
<1>3. CASE \E o \in requests : Accept(t, o)
  <2>1. PICK q \in requests : Accept(t, q)
    BY <1>3
  <2>2. pc[t] \in {"idle", "find"} /\ pc'[t] = "serve" /\ obj'[t] = q
    BY <2>1 DEF Accept, Begin, GoOn, TypeInv, TypeOK
  <2>3. \A o \in Obj : ctx'[o] = IF ctx[o] = "none" /\ o = q THEN "live" ELSE ctx[o]
    BY <2>1 DEF Accept, SetContext, TypeInv, TypeOK
  <2>4. /\ doubled \subseteq doubled' /\ running' = running /\ leaked' = leaked
        /\ \A u \in Thread : Accepting(u) /\ obj[u] = q => q \in doubled'
    BY <2>1 DEF Accept
  <2> QED
    BY <2>2, <2>3, <2>4 DEF QueuesChange, Does, Starts, LeavesBehind
<1>4. CASE \E o \in requests : Refuse(t, o)
  BY <1>4 DEF Refuse, Begin, roomVars, QueuesChange, Does, Starts, LeavesBehind, TypeInv, TypeOK
<1>5. CASE \/ \E o \in contacts : DeleteContact(t, o)
           \/ CreateContact(t)
  BY <1>5 DEF DeleteContact, CreateContact, Begin, roomVars, histVars, QueuesChange, Does,
     Starts, LeavesBehind, TypeInv, TypeOK
<1>6. CASE ReadHeader(t) \/ NotFound(t) \/ PushRequest(t)
  BY <1>6 DEF ReadHeader, NotFound, PushRequest, GoOn, roomVars, histVars, QueuesChange, Does,
     Starts, LeavesBehind, TypeInv, TypeOK
<1>7. CASE RunQueues(t)
  BY <1>7 DEF RunQueues, GoOn, histVars, QueuesChange, Does, Starts, LeavesBehind, TypeInv,
     TypeOK
<1>8. CASE StopQueues(t)
  BY <1>8 DEF StopQueues, GoOn, histVars, QueuesChange, Does, Starts, LeavesBehind, TypeInv,
     TypeOK
<1>9. CASE AppendRoom(t) \/ DropRequest(t) \/ RemoveRoom(t) \/ AppendContact(t)
             \/ RemoveContact(t)
  BY <1>9 DEF AppendRoom, DropRequest, RemoveRoom, AppendContact, RemoveContact, GoOn,
     roomVars, QueuesChange, Does, Starts, LeavesBehind, TypeInv, TypeOK
<1>10. CASE Serve(t) \/ ServeContact(t) \/ Unserve(t)
  BY <1>10 DEF Serve, ServeContact, Unserve, RegisterService, DeregisterService, GoOn, roomVars,
     histVars, QueuesChange, Does, Starts, LeavesBehind, TypeInv, TypeOK
<1> QED
  BY <1>1, <1>2, <1>3, <1>4, <1>5, <1>6, <1>7, <1>8, <1>9, <1>10, ThreadSteps

(* What the lemmas of this section start from.                             *)
QueueStep(t) ==
  /\ TypeInv /\ ServiceInv /\ QueueInv
  /\ Moves(t) /\ IdsGrow /\ ListsChange(t) /\ HeadersChange(t) /\ QueuesChange(t)
  /\ \A o \in Obj : Does(t, "drop", o) /\ o[1] \notin hit' => o \notin requests'

LEMMA ClearBefore ==
  ASSUME NEW t, QueueStep(t), NEW o \in Obj, Clear(o)'
  PROVE  Clear(o)
BY DEF QueueStep, ListsChange, QueuesChange, Clear

(* The queues that are stopped are those of a listed room, or were stopped *)
(* before.                                                                 *)
LEMMA StopEffect ==
  ASSUME NEW t \in Thread, QueueStep(t), NEW o \in Obj, Clear(o), Does(t, "stop", o)
  PROVE  /\ o \in Listed \/ ctx[o] = "cancelled"
         /\ pc'[t] = "remove" /\ obj'[t] = o
<1>1. pc[t] = "stop" /\ obj[t] = o
  BY DEF Does
<1>2. o \in Listed \/ ctx[o] = "cancelled"
  BY <1>1 DEF QueueStep, QueueInv, ListedRuns, Leaving
<1>3. pc'[t] = "remove" /\ obj'[t] = o
  BY <1>1 DEF QueueStep, Does, Moves, Transitions, Begins
<1> QED
  BY <1>2, <1>3

LEMMA RemoveEffect ==
  ASSUME NEW t \in Thread, QueueStep(t), TypeInv',
         NEW o \in Obj, Clear(o)', Does(t, "remove", o)
  PROVE  o \notin Listed' /\ Removing(o)
<1>1. Removing(o)
  BY DEF Removing, Removes, Does
<1>2. o[1] \notin hit' /\ Occurrences(rooms, o) <= 1 /\ Occurrences(rooms, o) \in Nat
  BY ClearBefore, OccurrencesNat DEF QueueStep, QueueInv, ListedRuns, Clear
<1>3. Occurrences(rooms', o) =
        Occurrences(rooms, o) + One(Appends(t, o)) - One(Does(t, "remove", o))
  BY <1>2 DEF QueueStep, ListsChange, RoomsChange
<1>4. ~Appends(t, o)
  BY DEF Appends, Does
<1>5. Occurrences(rooms', o) \in Nat /\ (Occurrences(rooms', o) # 0 <=> o \in Listed')
  BY OccurrencesTyped DEF TypeInv, TypeOK, Listed
<1>6. Occurrences(rooms', o) = 0
  BY <1>2, <1>3, <1>4, <1>5 DEF One
<1> QED
  BY <1>1, <1>5, <1>6

(* What a call has dropped is no request any more.                         *)
LEMMA DropEffect ==
  ASSUME TypeInv, NEW t \in Thread, DropRequest(t), GoneStaysGone, obj[t][1] \notin hit'
  PROVE  obj[t] \notin requests'
<1>1. PICK old \in Seen(t) :
        IF obj[t] \in old
        THEN requests' = old \ {obj[t]} /\ Stored(t, old # requests, SetDiff(old, requests))
        ELSE header' = [header EXCEPT ![t] = {}] /\ UNCHANGED <<requests, hit>>
  BY DEF DropRequest
<1>2. pc[t] = "drop"
  BY DEF DropRequest, GoOn
<1>3. CASE obj[t] \in old
  BY <1>1, <1>3
<1>4. CASE obj[t] \notin old
  BY <1>1, <1>2, <1>4 DEF GoneStaysGone, Seen, Target
<1> QED
  BY <1>3, <1>4

LEMMA ThreadAtDrop ==
  ASSUME TypeInv, NEW t \in Thread, ThreadNext(t), pc[t] = "drop", pc'[t] # "drop"
  PROVE  DropRequest(t)
<1>1. ~\E r \in RoomID : Invited(t, r) \/ CreateRoom(t, r) \/ DeleteRoom(t, r)
  BY DEF Invited, CreateRoom, DeleteRoom, Begin
<1>2. /\ ~\E o \in requests : Accept(t, o) \/ Refuse(t, o)
      /\ ~\E o \in contacts : DeleteContact(t, o)
  BY DEF Accept, Refuse, DeleteContact, Begin, GoOn
<1> QED
  BY <1>1, <1>2, ThreadSteps DEF ReadHeader, PushRequest, NotFound, Serve, AppendRoom, RunQueues,
     Unserve, StopQueues, RemoveRoom, CreateContact, ServeContact, AppendContact, RemoveContact,
     RegisterService, DeregisterService, Begin, GoOn

IsNew(t) == pc[t] \in {"push", "serve_new", "append_new"}

(* A goroutine that was at an object of its own, or has just made one.     *)
LEMMA NewBefore ==
  ASSUME NEW t \in Thread, QueueStep(t),
         NEW u \in Thread, IsNew(u)'
  PROVE  \/ IsNew(u) /\ obj'[u] = obj[u] /\ (pc'[u] = "push" <=> pc[u] = "push")
         \/ u = t /\ pc[t] = "idle" /\ obj'[t] = Fresh /\ obj'[t][1] = last + 1
BY DEF QueueStep, IsNew, Moves, OthersStay, Transitions, Begins, IsMade, Fresh

(* Nobody has come to an object that a goroutine keeps to itself.          *)
LEMMA NobodyComes ==
  ASSUME NEW t \in Thread, QueueStep(t),
         NEW u \in Thread, NEW v \in Thread, IsNew(u), obj[u][1] \notin hit,
         pc'[v] # "idle", obj'[v] = obj[u]
  PROVE  v = u
<1>1. pc[u] # "idle" /\ obj[u] \in Obj /\ IsRoom(obj[u])
  BY ConstantsAssumption DEF QueueStep, ServiceInv, KindsMatch, IsNew, ForContact, TypeInv, TypeOK
<1>2. obj[u] \notin requests \cup Listed \cup contacts
  <2>1. obj[u] \notin requests \cup Listed
    BY DEF QueueStep, QueueInv, NewIsAlone, IsNew
  <2>2. obj[u] \notin contacts
    BY <1>1, ConstantsAssumption DEF QueueStep, ServiceInv, KindsMatch, IsRoom, IsContact
  <2> QED
    BY <2>1, <2>2
<1>3. CASE pc[v] # "idle" /\ obj'[v] = obj[v]
  BY <1>3 DEF QueueStep, QueueInv, NewIsAlone, IsNew
<1>4. CASE v = t /\ pc[t] = "idle"
  <2>1. obj'[t] # Fresh
    BY <1>1, <1>4, ConstantsAssumption DEF IsRoom, Fresh, QueueStep, TypeInv, TypeOK
  <2> QED
    BY <1>2, <1>4, <2>1 DEF QueueStep, Moves, Transitions, Begins, IsMade
<1> QED
  BY <1>3, <1>4 DEF QueueStep, Moves, OthersStay, Transitions

(* What makes an object makes it for itself.                               *)
LEMMA MadeIsAlone ==
  ASSUME NEW t \in Thread, QueueStep(t), hit \subseteq hit',
         pc[t] = "idle", obj'[t] = Fresh, obj'[t][1] \notin hit', NEW u \in Thread \ {t}
  PROVE  /\ pc'[u] # "idle" => obj'[u] # Fresh
         /\ Fresh \notin requests /\ Fresh \notin Listed
<1>1. last \in Nat /\ Fresh[1] = last + 1 /\ Fresh[1] \notin hit
  BY ConstantsAssumption DEF QueueStep, TypeInv, TypeOK, Fresh
<1>2. ~IsRoom(Fresh) /\ ~IsContact(Fresh)
  BY <1>1 DEF IsRoom, IsContact
<1>3. Fresh \notin requests /\ Fresh \notin Listed
  BY <1>1, <1>2 DEF QueueStep, ServiceInv, KindsMatch
<1>4. ASSUME pc'[u] # "idle" PROVE obj'[u] # Fresh
  <2>1. pc[u] # "idle" /\ obj'[u] = obj[u]
    BY <1>4 DEF QueueStep, Moves, OthersStay
  <2> QED
    BY <1>1, <1>2, <2>1 DEF QueueStep, ServiceInv, KindsMatch
<1> QED
  BY <1>3, <1>4

LEMMA NewNext ==
  ASSUME NEW t \in Thread, QueueStep(t), TypeInv', ServiceInv'
  PROVE  NewIsAlone'
<1> USE DEF QueueInv
<1>1. hit \subseteq hit' /\ last \in Nat /\ last' \in Nat /\ last' >= last
  BY ConstantsAssumption DEF QueueStep, ListsChange, IdsGrow, TypeInv, TypeOK
<1>2. ASSUME NEW o \in Obj, o[1] > last', o[1] \notin hit' PROVE ctx'[o] = "none"
  <2>1. o[1] \in Nat /\ o[1] > last
    BY <1>1, <1>2, ObjTyped DEF Id
  <2>2. ctx[o] = "none"
    BY <1>1, <1>2, <2>1 DEF QueueStep, NewIsAlone
  <2>3. ASSUME NEW u \in Thread, pc'[u] # "idle" PROVE obj'[u] # o
    BY <1>1, <1>2, <2>1, <2>3 DEF ServiceInv, KindsMatch, IsRoom, IsContact
  <2>4. ASSUME NEW u \in Thread, pc[u] # "idle" PROVE obj[u] # o
    BY <1>1, <1>2, <2>1, <2>4 DEF QueueStep, ServiceInv, KindsMatch, IsRoom, IsContact
  <2>5. ~Does(t, "stop", o) /\ ~Starts(t, "serve", o) /\ ~Starts(t, "serve_new", o)
    BY <2>3, <2>4 DEF Does, Starts
  <2> QED
    BY <2>2, <2>5 DEF QueueStep, QueuesChange
<1>3. ASSUME NEW u \in Thread, IsNew(u)', obj'[u][1] \notin hit'
      PROVE  /\ obj'[u] \notin requests' /\ obj'[u] \notin Listed'
             /\ \A v \in Thread : pc'[v] # "idle" /\ obj'[v] = obj'[u] => v = u
             /\ IF pc'[u] = "push" THEN ctx'[obj'[u]] = "none"
                ELSE ctx'[obj'[u]] = "live" /\ obj'[u] \in running'
  <2>1. obj'[u] \in Obj /\ pc'[u] # "idle"
    BY <1>3 DEF IsNew, TypeInv, TypeOK
  <2>2. CASE IsNew(u) /\ obj'[u] = obj[u] /\ (pc'[u] = "push" <=> pc[u] = "push")
    <3>1. /\ pc[u] # "idle" /\ obj[u][1] \notin hit
          /\ obj[u] \notin requests /\ obj[u] \notin Listed
          /\ \A v \in Thread : pc[v] # "idle" /\ obj[v] = obj[u] => v = u
          /\ IF pc[u] = "push" THEN ctx[obj[u]] = "none"
             ELSE ctx[obj[u]] = "live" /\ obj[u] \in running
      BY <1>1, <1>3, <2>2 DEF QueueStep, NewIsAlone, IsNew
    <3>2. \A v \in Thread : pc'[v] # "idle" /\ obj'[v] = obj[u] => v = u
      BY <2>2, <3>1, NobodyComes
    <3>3. /\ ~Does(t, "push", obj[u]) /\ ~Does(t, "stop", obj[u])
          /\ ~Appends(t, obj[u])
      BY <1>3, <2>2, <3>1 DEF Does, Appends, IsNew, QueueStep, Moves, Transitions
    <3>4. ~Starts(t, "serve", obj[u]) /\ ~Starts(t, "serve_new", obj[u])
      BY <1>3, <2>2, <3>1, <3>2 DEF Starts, IsNew, QueueStep, Moves, Transitions
    <3>5. obj[u] \notin requests'
      BY <1>3, <2>1, <2>2, <3>1, <3>3 DEF QueueStep, ListsChange, RequestsChange
    <3>6. obj[u] \notin Listed'
      BY <1>3, <2>1, <2>2, <3>1, <3>3, ListedEffect DEF QueueStep
    <3>7. /\ ctx'[obj[u]] = ctx[obj[u]]
          /\ obj[u] \in running => obj[u] \in running'
      BY <2>1, <2>2, <3>3, <3>4 DEF QueueStep, QueuesChange
    <3> QED
      BY <2>2, <3>1, <3>2, <3>5, <3>6, <3>7
  <2>3. CASE u = t /\ pc[t] = "idle" /\ obj'[t] = Fresh /\ obj'[t][1] = last + 1
    <3>1. /\ \A v \in Thread : pc'[v] # "idle" /\ obj'[v] = obj'[u] => v = u
          /\ Fresh \notin requests /\ Fresh \notin Listed
      <4>1. ASSUME NEW v \in Thread \ {t}
            PROVE  /\ pc'[v] # "idle" => obj'[v] # Fresh
                   /\ Fresh \notin requests /\ Fresh \notin Listed
        BY <1>1, <1>3, <2>3, MadeIsAlone
      <4>2. Fresh \notin requests /\ Fresh \notin Listed
        <5>1. ~IsRoom(Fresh) /\ Fresh[1] \notin hit
          BY <1>1, <1>3, <2>3 DEF IsRoom
        <5> QED
          BY <5>1 DEF QueueStep, ServiceInv, KindsMatch
      <4> QED
        BY <2>3, <4>1, <4>2
    <3>2. ~Does(t, "push", Fresh) /\ ~Does(t, "stop", Fresh) /\ ~Appends(t, Fresh)
      BY <2>3 DEF Does, Appends
    <3>3. obj'[u] \notin requests' /\ obj'[u] \notin Listed'
      BY <1>3, <2>1, <2>3, <3>1, <3>2, ListedEffect DEF QueueStep, ListsChange, RequestsChange
    <3>4. ctx[Fresh] = "none"
      BY <1>1, <1>3, <2>1, <2>3 DEF QueueStep, NewIsAlone
    <3>5. pc'[t] = "push" \/ pc'[t] = "serve_new"
      BY <1>3, <2>3 DEF IsNew, QueueStep, Moves, Transitions, Begins
    <3>6. CASE pc'[t] = "push"
      BY <2>1, <2>3, <3>1, <3>2, <3>3, <3>4, <3>6 DEF QueueStep, QueuesChange, Starts
    <3>7. CASE pc'[t] = "serve_new"
      BY <2>1, <2>3, <3>1, <3>2, <3>3, <3>4, <3>7 DEF QueueStep, QueuesChange, Starts
    <3> QED
      BY <3>5, <3>6, <3>7
  <2> QED
    BY <1>3, <2>2, <2>3, NewBefore
<1> QED
  BY <1>2, <1>3 DEF NewIsAlone, IsNew

AtRoom(t, o) == pc[t] \in {"serve", "append", "run"} /\ obj[t] = o

(* Who begins to accept a clear request is alone with it, and it is        *)
(* neither listed nor cancelled.                                           *)
LEMMA BeginsAlone ==
  ASSUME NEW t \in Thread, QueueStep(t), NEW o \in Obj, Clear(o)', Starts(t, "serve", o)
  PROVE  /\ \A u \in Thread : ~(Accepting(u) /\ obj[u] = o)
         /\ o \notin Listed /\ ctx'[o] = "live"
         /\ pc[t] \in {"idle", "find"}
<1>1. Clear(o)
  BY ClearBefore
<1>2. o \in requests
  BY DEF QueueStep, QueuesChange
<1>3. \A u \in Thread : ~(Accepting(u) /\ obj[u] = o)
  BY DEF QueueStep, QueuesChange, Clear
<1>4. o \notin Listed /\ ctx[o] # "cancelled"
  BY <1>1, <1>2, <1>3 DEF QueueStep, QueueInv, AcceptsOnce, Accepting
<1>5. ctx[o] \in {"none", "live"}
  BY <1>4 DEF QueueStep, TypeInv, TypeOK
<1>6. pc[t] \in {"idle", "find"}
  BY DEF Starts, QueueStep, Moves, Transitions, Begins
<1>7. ctx'[o] = "live"
  BY <1>5, <1>6 DEF QueueStep, QueuesChange, Does
<1> QED
  BY <1>3, <1>4, <1>6, <1>7

(* Nobody else lists a clear room that is being accepted.                  *)
LEMMA AppendsAlone ==
  ASSUME NEW t \in Thread, QueueStep(t), NEW o \in Obj, Clear(o), Appends(t, o)
  PROVE  /\ \A u \in Thread : AtRoom(u, o) => u = t
         /\ o \notin Listed /\ ctx[o] = "live"
<1>1. pc[t] \in {"append", "append_new"} /\ obj[t] = o /\ o[1] \notin hit
  BY DEF Appends, Does, Clear
<1>2. CASE pc[t] = "append"
  BY <1>1, <1>2 DEF QueueStep, QueueInv, AcceptsOnce, AtRoom
<1>3. CASE pc[t] = "append_new"
  BY <1>1, <1>3 DEF QueueStep, QueueInv, NewIsAlone, AtRoom
<1> QED
  BY <1>1, <1>2, <1>3

LEMMA AcceptorBefore ==
  ASSUME NEW t \in Thread, QueueStep(t), NEW u \in Thread, NEW o \in Obj, AtRoom(u, o)'
  PROVE  \/ AtRoom(u, o) /\ pc'[u] = pc[u]
         \/ u = t /\ AtRoom(t, o) /\ pc[t] = "serve" /\ pc'[t] = "append"
         \/ u = t /\ pc[t] = "append" /\ pc'[t] = "run" /\ Appends(t, o)
         \/ u = t /\ pc'[t] = "serve" /\ Starts(t, "serve", o)
BY DEF QueueStep, AtRoom, Moves, OthersStay, Transitions, Begins, Appends, Does, Starts

LEMMA AcceptorsNext ==
  ASSUME NEW t \in Thread, QueueStep(t),
         NEW u \in Thread, NEW v \in Thread, NEW o \in Obj, Clear(o)', AtRoom(u, o)', AtRoom(v, o)'
  PROVE  u = v
<1>1. Clear(o)
  BY ClearBefore
<1>2. ASSUME NEW w \in Thread, AtRoom(w, o)'
      PROVE  AtRoom(w, o) \/ (w = t /\ Starts(t, "serve", o))
  BY <1>2, AcceptorBefore DEF AtRoom, Appends, Does
<1>3. CASE Starts(t, "serve", o)
  <2>1. \A w \in Thread : ~AtRoom(w, o)
    BY <1>3, BeginsAlone DEF AtRoom, Accepting
  <2> QED
    BY <1>2, <2>1
<1>4. CASE ~Starts(t, "serve", o)
  BY <1>1, <1>2, <1>4 DEF QueueStep, QueueInv, AcceptsOnce, AtRoom
<1> QED
  BY <1>3, <1>4

(* A context that is live or cancelled changes only at StopQueues.         *)
LEMMA ContextStays ==
  ASSUME NEW t \in Thread, QueueStep(t), NEW o \in Obj, ctx[o] # "none"
  PROVE  ctx'[o] = IF Does(t, "stop", o) THEN "cancelled" ELSE ctx[o]
BY DEF QueueStep, QueuesChange

LEMMA AcceptorNext ==
  ASSUME NEW t \in Thread, QueueStep(t), TypeInv',
         NEW u \in Thread, NEW o \in Obj, Clear(o)', AtRoom(u, o)'
  PROVE  IF pc'[u] = "run"
         THEN (ctx'[o] = "live" /\ o \in Listed') \/ ctx'[o] = "cancelled"
         ELSE ctx'[o] = "live" /\ o \notin Listed'
<1>1. Clear(o) /\ o[1] \notin hit' /\ o[1] \notin hit
  BY ClearBefore DEF Clear
<1>2. ListsChange(t)
  BY DEF QueueStep
<1>3. QueueStep(t) /\ TypeInv
  BY DEF QueueStep
<1>4. CASE AtRoom(u, o) /\ pc[u] # "run" /\ pc'[u] # "run"
  <2>1. ctx[o] = "live" /\ o \notin Listed
    BY <1>1, <1>4 DEF QueueStep, QueueInv, AcceptsOnce, AtRoom
  <2>2. ~Does(t, "stop", o)
    BY <1>1, <2>1, StopEffect
  <2>3. ASSUME Appends(t, o) PROVE FALSE
    <3>1. u = t
      BY <1>1, <1>4, <2>3, AppendsAlone
    <3>2. pc[t] = "append" /\ pc'[t] # "append" /\ pc'[t] # "run"
      BY <1>4, <2>3, <3>1 DEF Appends, Does, AtRoom
    <3>3. AtRoom(t, o)'
      BY <3>1
    <3> QED
      BY <3>2, <3>3 DEF QueueStep, Moves, Transitions, AtRoom
  <2>4. o \notin Listed'
    BY <1>1, <1>2, <1>3, <2>1, <2>3, ListedEffect
  <2> QED
    BY <1>4, <2>1, <2>2, <2>4, ContextStays
<1>5. CASE AtRoom(u, o) /\ pc[u] = "run" /\ pc'[u] = "run"
  <2>1. (ctx[o] = "live" /\ o \in Listed) \/ ctx[o] = "cancelled"
    BY <1>1, <1>5 DEF QueueStep, QueueInv, AcceptsOnce, AtRoom
  <2>2. CASE ctx[o] = "cancelled"
    BY <1>5, <2>2, ContextStays
  <2>3. CASE ctx[o] = "live" /\ o \in Listed
    <3>1. ~Does(t, "remove", o)
      <4> SUFFICES ASSUME Does(t, "remove", o) PROVE FALSE
        OBVIOUS
      <4>1. Removing(o)
        BY RemoveEffect
      <4> QED
        BY <1>1, <2>3, <4>1 DEF QueueStep, QueueInv, ListedRuns
    <3>2. o \in Listed'
      BY <1>1, <1>2, <1>3, <2>3, <3>1, ListedEffect
    <3> QED
      BY <1>5, <2>3, <3>2, ContextStays
  <2> QED
    BY <2>1, <2>2, <2>3
<1>6. CASE u = t /\ pc[t] = "append" /\ pc'[t] = "run" /\ Appends(t, o)
  <2>1. ctx[o] = "live" /\ ~Does(t, "stop", o)
    BY <1>1, <1>6, AppendsAlone DEF Does
  <2>2. o \in Listed'
    BY <1>1, <1>2, <1>3, <1>6, ListedEffect
  <2> QED
    BY <1>6, <2>1, <2>2, ContextStays
<1>7. CASE u = t /\ pc'[t] = "serve" /\ Starts(t, "serve", o)
  <2>1. o \notin Listed /\ ctx'[o] = "live" /\ pc[t] \in {"idle", "find"}
    BY <1>7, BeginsAlone
  <2>2. ~Appends(t, o)
    BY <2>1 DEF Appends, Does
  <2>3. o \notin Listed'
    BY <1>1, <1>2, <1>3, <2>1, <2>2, ListedEffect
  <2> QED
    BY <1>7, <2>1, <2>3
<1> QED
  BY <1>4, <1>5, <1>6, <1>7, AcceptorBefore DEF AtRoom

(* A request whose room is listed or cancelled is about to be dropped.     *)
LEMMA RequestNext ==
  ASSUME NEW t \in Thread, QueueStep(t), TypeInv',
         NEW o \in requests', o \in Obj, Clear(o)', o \in Listed' \/ ctx'[o] = "cancelled"
  PROVE  \E u \in Thread : pc'[u] \in {"run", "drop"} /\ obj'[u] = o
<1>1. Clear(o) /\ o[1] \notin hit' /\ o[1] \notin hit
  BY ClearBefore DEF Clear
<1>2. ListsChange(t) /\ TypeInv
  BY DEF QueueStep
<1>3. o \in requests
  <2> SUFFICES ASSUME Does(t, "push", o) PROVE FALSE
    BY <1>1, <1>2 DEF ListsChange, RequestsChange
  <2>1. o \notin Listed /\ ctx[o] = "none"
    BY <1>1 DEF QueueStep, QueueInv, NewIsAlone, Does
  <2>2. ~Appends(t, o) /\ ~Does(t, "stop", o)
    BY DEF Does, Appends
  <2>3. o \notin Listed'
    BY <1>1, <1>2, <2>1, <2>2, ListedEffect
  <2>4. ctx'[o] # "cancelled"
    BY <2>1, <2>2 DEF QueueStep, QueuesChange
  <2> QED
    BY <2>3, <2>4
<1>4. CASE o \in Listed \/ ctx[o] = "cancelled"
  <2>1. PICK u \in Thread : pc[u] \in {"run", "drop"} /\ obj[u] = o
    BY <1>1, <1>3, <1>4 DEF QueueStep, QueueInv, AcceptsOnce
  <2>2. ~Does(t, "drop", o)
    BY <1>1 DEF QueueStep
  <2> QED
    BY <2>1, <2>2 DEF QueueStep, Moves, OthersStay, Transitions, Does
<1>5. CASE o \notin Listed /\ ctx[o] # "cancelled"
  <2>1. ~Does(t, "stop", o)
    BY <1>1, <1>5, StopEffect
  <2>2. ctx'[o] # "cancelled"
    BY <1>5, <2>1 DEF QueueStep, QueuesChange
  <2>3. Appends(t, o)
    BY <1>1, <1>2, <1>5, <2>2, ListedEffect
  <2>4. pc[t] # "append_new"
    BY <1>1, <1>3, <2>3 DEF QueueStep, QueueInv, NewIsAlone, Appends, Does
  <2>5. pc'[t] = "run" /\ obj'[t] = o
    BY <2>3, <2>4 DEF Appends, Does, QueueStep, Moves, Transitions
  <2> QED
    BY <2>5
<1> QED
  BY <1>4, <1>5

LEMMA AcceptsNext ==
  ASSUME NEW t \in Thread, QueueStep(t), TypeInv'
  PROVE  AcceptsOnce'
<1>1. \A u \in Thread : pc'[u] # "idle" => obj'[u] \in Obj
  BY DEF TypeInv, TypeOK
<1>2. requests' \subseteq Obj
  BY DEF TypeInv, TypeOK
<1>3. ASSUME NEW u \in Thread, Clear(obj[u])', pc'[u] \in {"serve", "append", "run"}
      PROVE  IF pc'[u] = "run"
             THEN (ctx'[obj'[u]] = "live" /\ obj'[u] \in Listed') \/ ctx'[obj'[u]] = "cancelled"
             ELSE ctx'[obj'[u]] = "live" /\ obj'[u] \notin Listed'
  <2>1. PICK o \in Obj : o = obj'[u]
    BY <1>1, <1>3
  <2>2. AtRoom(u, o)' /\ Clear(o)'
    BY <1>3, <2>1 DEF AtRoom, Clear
  <2>3. IF pc'[u] = "run"
        THEN (ctx'[o] = "live" /\ o \in Listed') \/ ctx'[o] = "cancelled"
        ELSE ctx'[o] = "live" /\ o \notin Listed'
    BY <2>2, AcceptorNext
  <2> QED
    BY <2>1, <2>3
<1>4. ASSUME NEW u \in Thread, NEW v \in Thread,
             pc'[u] \in {"serve", "append", "run"}, pc'[v] \in {"serve", "append", "run"},
             obj'[u] = obj'[v], Clear(obj[u])'
      PROVE  u = v
  <2>1. PICK o \in Obj : o = obj'[u]
    BY <1>1, <1>4
  <2>2. AtRoom(u, o)' /\ AtRoom(v, o)' /\ Clear(o)'
    BY <1>4, <2>1 DEF AtRoom, Clear
  <2> QED
    BY <2>2, AcceptorsNext
<1>5. \A o \in requests' : Clear(o)' /\ (o \in Listed' \/ ctx'[o] = "cancelled") =>
        \E u \in Thread : pc'[u] \in {"run", "drop"} /\ obj'[u] = o
  BY <1>2, RequestNext
<1> QED
  BY <1>3, <1>4, <1>5 DEF AcceptsOnce, Clear

LEMMA GoneNext ==
  ASSUME NEW t \in Thread, QueueStep(t), TypeInv'
  PROVE  GoneStaysGone'
<1> SUFFICES ASSUME NEW u \in Thread, pc'[u] = "drop", obj'[u][1] \notin hit',
                    NEW old \in header'[u], obj'[u] \in requests'
             PROVE  obj'[u] \in old
  BY DEF GoneStaysGone
<1>1. obj'[u] \in Obj /\ obj'[u][1] \notin hit
  BY DEF QueueStep, ListsChange, TypeInv, TypeOK
<1>2. pc[u] = "drop" /\ obj'[u] = obj[u]
  BY DEF QueueStep, Moves, OthersStay, Transitions, Begins, HeadersChange
<1>3. ~Does(t, "push", obj[u])
  BY <1>1, <1>2 DEF QueueStep, QueueInv, NewIsAlone, Does
<1>4. obj[u] \in requests
  BY <1>1, <1>2, <1>3 DEF QueueStep, ListsChange, RequestsChange
<1>5. CASE u # t
  BY <1>1, <1>2, <1>4, <1>5 DEF QueueStep, QueueInv, GoneStaysGone, HeadersChange
<1>6. CASE u = t
  BY <1>2, <1>4, <1>6 DEF QueueStep, HeadersChange, Target
<1> QED
  BY <1>5, <1>6

IsMaking(t, o) == pc[t] \in {"serve_new", "append_new"} /\ obj[t] = o

(* Who makes a room is alone with it, and it runs.                         *)
LEMMA MakerOf ==
  ASSUME NewIsAlone, NEW t \in Thread, NEW o, o[1] \notin hit, IsMaking(t, o)
  PROVE  /\ o \notin Listed /\ ctx[o] = "live" /\ o \in running
         /\ \A u \in Thread : pc[u] # "idle" /\ obj[u] = o => u = t
BY DEF NewIsAlone, IsMaking

LEMMA RemovingNext ==
  ASSUME NEW t \in Thread, QueueStep(t), NewIsAlone',
         NEW o \in Obj, Clear(o)', Removing(o)'
  PROVE  ctx'[o] = "cancelled" /\ o \notin running'
<1>1. Clear(o) /\ o[1] \notin hit'
  BY ClearBefore DEF Clear
<1>2. CASE Removing(o) /\ ~Does(t, "stop", o)
  <2>1. ctx[o] = "cancelled" /\ o \notin running
    BY <1>1, <1>2 DEF QueueStep, QueueInv, ListedRuns
  <2>2. ~Starts(t, "serve_new", o)
    <3> SUFFICES ASSUME Starts(t, "serve_new", o) PROVE FALSE
      OBVIOUS
    <3>1. \A u \in Thread : pc'[u] # "idle" /\ obj'[u] = o => u = t
      BY <1>1 DEF NewIsAlone, Starts
    <3>2. PICK u \in Thread : Removes(u, o)'
      BY DEF Removing
    <3> QED
      BY <3>1, <3>2 DEF Removes, Starts
  <2> QED
    BY <2>1, <2>2, <1>2, ContextStays DEF QueueStep, QueuesChange
<1>3. CASE Does(t, "stop", o)
  <2>1. ~Starts(t, "serve_new", o) /\ ~Does(t, "run", o)
    BY <1>1, <1>3, StopEffect DEF Starts, Does
  <2> QED
    BY <1>3, <2>1 DEF QueueStep, QueuesChange
<1>4. Removing(o) \/ Does(t, "stop", o)
  <2>1. PICK u \in Thread : Removes(u, o)'
    BY DEF Removing
  <2>2. Removes(u, o) \/ (u = t /\ Does(t, "stop", o))
    BY <2>1 DEF Removes, Does, QueueStep, Moves, OthersStay, Transitions, Begins
  <2> QED
    BY <2>2 DEF Removing
<1> QED
  BY <1>2, <1>3, <1>4

(* The room stays on its way out until it is not listed any more.          *)
LEMMA RemovingStays ==
  ASSUME NEW t \in Thread, QueueStep(t), TypeInv',
         NEW o \in Obj, Clear(o)', Removing(o), o \in Listed'
  PROVE  Removing(o)'
<1>1. ~Does(t, "remove", o)
  BY RemoveEffect
<1>2. PICK u \in Thread : Removes(u, o)
  BY DEF Removing
<1>3. Removes(u, o)'
  BY <1>1, <1>2 DEF Removes, Does, QueueStep, Moves, OthersStay, Transitions
<1> QED
  BY <1>3 DEF Removing

(* A room that a goroutine has found listed is listed, or cancelled, until *)
(* that goroutine removes it.                                              *)
LEMMA LeavingNext ==
  ASSUME NEW t \in Thread, QueueStep(t), TypeInv',
         NEW o \in Obj, Clear(o)', NEW u \in Thread, Leaving(u)', obj'[u] = o
  PROVE  o \in Listed' \/ ctx'[o] = "cancelled"
<1>1. Clear(o) /\ o[1] \notin hit' /\ TypeInv /\ ListsChange(t)
  BY ClearBefore DEF Clear, QueueStep
<1>2. (Leaving(u) /\ obj[u] = o) \/ o \in Listed
  BY DEF Leaving, QueueStep, Moves, OthersStay, Transitions, Begins
<1>3. o \in Listed \/ ctx[o] = "cancelled"
  BY <1>1, <1>2 DEF QueueStep, QueueInv, ListedRuns
<1>4. CASE ctx[o] = "cancelled"
  BY <1>4, ContextStays
<1>5. CASE o \in Listed /\ Does(t, "remove", o)
  <2>1. Removing(o)
    BY <1>5, RemoveEffect
  <2>2. ctx[o] = "cancelled"
    BY <1>1, <2>1 DEF QueueStep, QueueInv, ListedRuns
  <2> QED
    BY <2>2, ContextStays
<1>6. CASE o \in Listed /\ ~Does(t, "remove", o)
  BY <1>1, <1>6, ListedEffect
<1> QED
  BY <1>3, <1>4, <1>5, <1>6

LEMMA OccursNext ==
  ASSUME NEW t \in Thread, QueueStep(t), NEW o \in Obj, Clear(o)'
  PROVE  Occurrences(rooms', o) <= 1
<1>1. Clear(o) /\ o[1] \notin hit'
  BY ClearBefore DEF Clear
<1>2. /\ Occurrences(rooms, o) <= 1 /\ Occurrences(rooms, o) \in Nat
      /\ (Occurrences(rooms, o) # 0 <=> o \in Listed)
  BY <1>1, OccurrencesNat DEF QueueStep, QueueInv, ListedRuns
<1>3. Occurrences(rooms', o) =
        Occurrences(rooms, o) + One(Appends(t, o)) - One(Does(t, "remove", o))
  BY <1>1 DEF QueueStep, ListsChange, RoomsChange
<1>4. Appends(t, o) => o \notin Listed
  BY <1>1, AppendsAlone
<1> QED
  BY <1>2, <1>3, <1>4 DEF One

(* A listed room that is cancelled is on its way out.                      *)
LEMMA CancelledNext ==
  ASSUME NEW t \in Thread, QueueStep(t), TypeInv',
         NEW o \in Obj, Clear(o)', ctx'[o] = "cancelled", o \in Listed'
  PROVE  Removing(o)'
<1>1. Clear(o) /\ o[1] \notin hit' /\ o[1] \notin hit /\ TypeInv /\ ListsChange(t)
  BY ClearBefore DEF Clear, QueueStep
<1>2. CASE Does(t, "stop", o)
  BY <1>1, <1>2, StopEffect DEF Removing, Removes
<1>3. CASE ~Does(t, "stop", o)
  <2>1. ctx[o] = "cancelled"
    BY <1>3 DEF QueueStep, QueuesChange
  <2>2. o \in Listed
    BY <1>1, <2>1, ListedEffect, AppendsAlone
  <2>3. Removing(o)
    BY <1>1, <2>1, <2>2 DEF QueueStep, QueueInv, ListedRuns
  <2> QED
    BY <2>3, RemovingStays
<1> QED
  BY <1>2, <1>3

LEMMA ListedNext ==
  ASSUME NEW t \in Thread, QueueStep(t), TypeInv',
         NEW o \in Obj, Clear(o)', o \in Listed'
  PROVE  o \in running' \/ Removing(o)' \/ \E u \in Thread : pc'[u] = "run" /\ obj'[u] = o
<1>1. Clear(o) /\ o[1] \notin hit' /\ o[1] \notin hit /\ TypeInv /\ ListsChange(t)
  BY ClearBefore DEF Clear, QueueStep
<1>2. CASE Appends(t, o)
  <2>1. CASE pc[t] = "append"
    <3>1. pc'[t] = "run" /\ obj'[t] = o
      BY <1>2, <2>1 DEF Appends, Does, QueueStep, Moves, Transitions
    <3> QED
      BY <3>1
  <2>2. CASE pc[t] = "append_new"
    <3>1. o \in running /\ ~Does(t, "stop", o)
      BY <1>1, <1>2, <2>2, MakerOf DEF IsMaking, Appends, Does, QueueStep, QueueInv
    <3> QED
      BY <3>1 DEF QueueStep, QueuesChange
  <2> QED
    BY <1>2, <2>1, <2>2 DEF Appends, Does
<1>3. CASE Does(t, "stop", o)
  BY <1>1, <1>3, StopEffect DEF Removing, Removes
<1>4. CASE ~Appends(t, o) /\ ~Does(t, "stop", o)
  <2>1. o \in Listed
    BY <1>1, <1>4, ListedEffect
  <2>2. CASE o \in running
    BY <1>4, <2>2 DEF QueueStep, QueuesChange
  <2>3. CASE Removing(o)
    BY <2>3, RemovingStays
  <2>4. CASE \E u \in Thread : pc[u] = "run" /\ obj[u] = o
    <3>1. PICK u \in Thread : pc[u] = "run" /\ obj[u] = o
      BY <2>4
    <3>2. CASE Does(t, "run", o)
      <4>1. ctx[o] = "live" \/ ctx[o] = "cancelled"
        BY <1>1, <3>2 DEF QueueStep, QueueInv, AcceptsOnce, Does
      <4>2. CASE ctx[o] = "live"
        BY <3>2, <4>2 DEF QueueStep, QueuesChange
      <4>3. CASE ctx[o] = "cancelled"
        <5>1. Removing(o)
          BY <1>1, <2>1, <4>3 DEF QueueStep, QueueInv, ListedRuns
        <5> QED
          BY <5>1, RemovingStays
      <4> QED
        BY <4>1, <4>2, <4>3
    <3>3. CASE ~Does(t, "run", o)
      <4>1. pc'[u] = "run" /\ obj'[u] = o
        BY <3>1, <3>3 DEF Does, QueueStep, Moves, OthersStay, Transitions
      <4> QED
        BY <4>1
    <3> QED
      BY <3>2, <3>3
  <2> QED
    BY <1>1, <2>1, <2>2, <2>3, <2>4 DEF QueueStep, QueueInv, ListedRuns
<1> QED
  BY <1>2, <1>3, <1>4

LEMMA RunningNext ==
  ASSUME NEW t \in Thread, QueueStep(t), TypeInv',
         NEW o \in Obj, Clear(o)', o \in running'
  PROVE  o \in Listed' \/ o \in leaked' \/ \E u \in Thread : IsMaking(u, o)'
<1>1. Clear(o) /\ o[1] \notin hit' /\ TypeInv /\ ListsChange(t)
  BY ClearBefore DEF Clear, QueueStep
<1>2. CASE o \in running /\ o \in Listed
  <2>1. ~Does(t, "remove", o)
    <3> SUFFICES ASSUME Does(t, "remove", o) PROVE FALSE
      OBVIOUS
    <3>1. Removing(o)
      BY RemoveEffect
    <3> QED
      BY <1>1, <1>2, <3>1 DEF QueueStep, QueueInv, ListedRuns
  <2> QED
    BY <1>1, <1>2, <2>1, ListedEffect
<1>3. CASE o \in leaked
  BY <1>3 DEF QueueStep, QueuesChange
<1>4. CASE \E u \in Thread : IsMaking(u, o)
  <2>1. PICK u \in Thread : IsMaking(u, o)
    BY <1>4
  <2>2. \/ IsMaking(u, o)'
        \/ u = t /\ LeavesBehind(t, o)
        \/ u = t /\ Appends(t, o)
    BY <2>1 DEF IsMaking, LeavesBehind, Appends, Does, QueueStep, Moves, OthersStay, Transitions
  <2> QED
    BY <1>1, <2>2, ListedEffect DEF QueueStep, QueuesChange
<1>5. CASE Does(t, "run", o) /\ ctx[o] = "live"
  <2>1. o \in Listed /\ ~Does(t, "remove", o)
    BY <1>1, <1>5 DEF QueueStep, QueueInv, AcceptsOnce, Does
  <2> QED
    BY <1>1, <2>1, ListedEffect
<1>6. CASE Starts(t, "serve_new", o)
  BY <1>6 DEF Starts, IsMaking
<1>7. \/ o \in running
      \/ Does(t, "run", o) /\ ctx[o] = "live"
      \/ Starts(t, "serve_new", o)
  BY DEF QueueStep, QueuesChange
<1>8. o \in running => o \in Listed \/ o \in leaked \/ \E u \in Thread : IsMaking(u, o)
  BY <1>1 DEF QueueStep, QueueInv, ListedRuns, IsMaking
<1> QED
  BY <1>2, <1>3, <1>4, <1>5, <1>6, <1>7, <1>8

LEMMA RunsNext ==
  ASSUME NEW t \in Thread, QueueStep(t), TypeInv', NewIsAlone'
  PROVE  ListedRuns'
<1> SUFFICES ASSUME NEW o \in Obj, Clear(o)'
             PROVE  /\ Occurrences(rooms', o) <= 1
                    /\ Removing(o)' => ctx'[o] = "cancelled" /\ o \notin running'
                    /\ ctx'[o] = "cancelled" /\ o \in Listed' => Removing(o)'
                    /\ \A u \in Thread : Leaving(u)' /\ obj'[u] = o =>
                         o \in Listed' \/ ctx'[o] = "cancelled"
                    /\ o \in Listed' => \/ o \in running' \/ Removing(o)'
                                        \/ \E u \in Thread : pc'[u] = "run" /\ obj'[u] = o
                    /\ o \in running' => \/ o \in Listed' \/ o \in leaked'
                                         \/ \E u \in Thread : IsMaking(u, o)'
  BY DEF ListedRuns, IsMaking
<1> QED
  BY OccursNext, RemovingNext, CancelledNext, LeavingNext, ListedNext, RunningNext

LEMMA LeakedNext ==
  ASSUME NEW t \in Thread, QueueStep(t), TypeInv'
  PROVE  LeakedIsLost'
<1> SUFFICES ASSUME NEW o \in leaked', o[1] \notin hit'
             PROVE  /\ IsRoom(o)' /\ o \notin requests' /\ o \notin Listed'
                    /\ ~\E u \in Thread : pc'[u] # "idle" /\ obj'[u] = o
  BY DEF LeakedIsLost
<1>1. o \in Obj /\ o[1] \notin hit /\ TypeInv /\ ListsChange(t) /\ IdsGrow
  BY DEF QueueStep, ListsChange, TypeInv, TypeOK
<1>2. /\ IsRoom(o) /\ o \notin requests /\ o \notin Listed
      /\ ~Does(t, "push", o) /\ ~Appends(t, o)
      /\ \A u \in Thread : pc[u] # "idle" /\ obj[u] = o => u = t /\ pc'[t] = "idle"
  <2>1. CASE o \in leaked
    BY <1>1, <2>1 DEF QueueStep, QueueInv, LeakedIsLost, Does, Appends
  <2>2. CASE LeavesBehind(t, o)
    <3>1. IsMaking(t, o) /\ NewIsAlone
      BY <2>2 DEF IsMaking, LeavesBehind, QueueStep, QueueInv
    <3>2. o \notin Listed /\ \A u \in Thread : pc[u] # "idle" /\ obj[u] = o => u = t
      BY <1>1, <3>1, MakerOf
    <3>3. IsRoom(o)
      BY <1>1, <3>1 DEF IsMaking, QueueStep, ServiceInv, KindsMatch, ForContact
    <3>4. o \notin requests
      BY <1>1, <3>1 DEF IsMaking, NewIsAlone
    <3> QED
      BY <2>2, <3>2, <3>3, <3>4 DEF LeavesBehind, Does, Appends
  <2> QED
    BY <1>1, <2>1, <2>2 DEF QueueStep, QueuesChange
<1>3. IsRoom(o)'
  BY <1>1, <1>2, KindsStay DEF IsRoom
<1>4. o \notin requests' /\ o \notin Listed'
  BY <1>1, <1>2, ListedEffect DEF ListsChange, RequestsChange
<1>5. ASSUME NEW u \in Thread, pc'[u] # "idle", obj'[u] = o PROVE FALSE
  <2>1. u = t /\ pc[t] = "idle" /\ Begins(t)
    BY <1>2, <1>5 DEF QueueStep, Moves, OthersStay, Transitions
  <2>2. o # Fresh
    BY <1>2, ConstantsAssumption DEF IsRoom, Fresh, QueueStep, TypeInv, TypeOK
  <2>3. o \notin contacts
    BY <1>1, <1>2, ConstantsAssumption
    DEF QueueStep, ServiceInv, KindsMatch, IsRoom, IsContact
  <2> QED
    BY <1>2, <1>5, <2>1, <2>2, <2>3 DEF Begins, IsMade
<1> QED
  BY <1>3, <1>4, <1>5

LEMMA QueueThread ==
  ASSUME TypeInv, TypeInv', ServiceInv, ServiceInv', QueueInv,
         NEW t \in Thread, ThreadNext(t)
  PROVE  QueueInv'
<1>1. \A o \in Obj : Does(t, "drop", o) /\ o[1] \notin hit' => o \notin requests'
  <2> SUFFICES ASSUME Does(t, "drop", obj[t]), obj[t][1] \notin hit'
               PROVE  obj[t] \notin requests'
    BY DEF Does
  <2>1. DropRequest(t)
    BY ThreadAtDrop DEF Does
  <2> QED
    BY <2>1, DropEffect DEF QueueInv
<1>2. QueueStep(t)
  BY <1>1, ThreadMoves, ThreadLists, ThreadHeaders, ThreadQueues DEF QueueStep
<1>3. NewIsAlone'
  BY <1>2, NewNext
<1> QED
  BY <1>2, <1>3, AcceptsNext, GoneNext, RunsNext, LeakedNext DEF QueueInv

LEMMA QueueInit == ASSUME Init PROVE QueueInv
<1>1. Listed = {} /\ \A o : Occurrences(rooms, o) = 0
  <2>1. rooms \in Seq(Obj) /\ ToSet(rooms) = {}
    BY EmptySeq DEF Init, ToSet
  <2> QED
    BY <2>1, OccurrencesTyped DEF Listed
<1>2. NewIsAlone
  BY DEF Init, NewIsAlone
<1>3. AcceptsOnce /\ GoneStaysGone
  BY DEF Init, AcceptsOnce, GoneStaysGone
<1>4. ~\E o : Removing(o)
  BY DEF Init, Removing, Removes
<1>5. ListedRuns
  BY <1>1, <1>4 DEF Init, ListedRuns, Leaving
<1> QED
  BY <1>2, <1>3, <1>5 DEF QueueInv, Init, LeakedIsLost

(* The next start runs what it has loaded, and a request whose room was    *)
(* saved as well is another object.                                        *)
LEMMA QueueRestart ==
  ASSUME TypeInv, TypeInv', ServiceInv, Restart
  PROVE  QueueInv'
<1>1. PICK img \in image :
        /\ \A i, j \in DOMAIN img.rooms : img.rooms[i][1] = img.rooms[j][1] => i = j
        /\ Loaded(img)
  BY DEF Restart, Loaded
<1>2. img.rooms \in Seq(Obj) /\ ToSet(img.rooms) \subseteq Obj
  BY ListedTyped DEF TypeInv, ImageTyped
<1>3. /\ \A t \in Thread : pc'[t] = "idle"
      /\ hit \subseteq hit' /\ roomID' = roomID /\ last' = last
      /\ Listed' = ToSet(img.rooms) /\ running' = ToSet(img.rooms) /\ rooms' = img.rooms
      /\ \A o \in Obj : ctx'[o] = IF o \in ToSet(img.rooms) THEN "live" ELSE "none"
      /\ requests' = {IF o \in ToSet(img.rooms) THEN Twin(o) ELSE o : o \in requests}
  BY <1>1 DEF Loaded, Restart, countVars, Listed
<1>4. NewIsAlone'
  <2>1. ASSUME NEW o \in Obj, o[1] > last', o[1] \notin hit' PROVE ctx'[o] = "none"
    <3>1. o \notin ToSet(img.rooms)
      BY <1>1, <1>3, <2>1, ObjTyped, ConstantsAssumption
      DEF ServiceInv, KindsMatch, IsRoom, TypeInv, TypeOK, Id
    <3> QED
      BY <1>3, <3>1
  <2> QED
    BY <1>3, <2>1 DEF NewIsAlone
<1>5. AcceptsOnce'
  <2>1. ASSUME NEW o \in requests' PROVE o \notin Listed' /\ ctx'[o] # "cancelled"
    <3>1. PICK p \in requests : o = IF p \in ToSet(img.rooms) THEN Twin(p) ELSE p
      BY <1>3, <2>1
    <3>2. o \in Obj /\ p \in Obj
      BY <2>1, <3>1 DEF TypeInv, TypeOK
    <3>3. CASE p \in ToSet(img.rooms)
      <4>1. Twin(p)[1] = p[1] /\ Twin(p) # p
        BY <3>2 DEF Obj, Twin
      <4>2. o \notin ToSet(img.rooms)
        BY <1>1, <3>1, <3>3, <4>1 DEF ToSet
      <4> QED
        BY <1>3, <3>2, <4>2
    <3>4. CASE p \notin ToSet(img.rooms)
      BY <1>3, <3>1, <3>2, <3>4
    <3> QED
      BY <3>3, <3>4
  <2> QED
    BY <1>3, <2>1 DEF AcceptsOnce
<1>6. GoneStaysGone'
  BY <1>3 DEF GoneStaysGone
<1>7. ListedRuns'
  <2>1. ASSUME NEW o \in Obj PROVE Occurrences(img.rooms, o) <= 1
    BY <1>1, <1>2, OccursTwice, OccurrencesTyped
  <2>2. \A o : ~Removing(o)'
    BY <1>3 DEF Removing, Removes
  <2> QED
    BY <1>3, <2>1, <2>2 DEF ListedRuns, Leaving
<1> QED
  BY <1>4, <1>5, <1>6, <1>7 DEF QueueInv, LeakedIsLost, Restart

(* No variable that these invariants read changes.                         *)
LEMMA QueueStays ==
  ASSUME QueueInv,
         UNCHANGED <<pc, obj, header, rooms, requests, ctx, running, last, roomID>>,
         UNCHANGED <<hit, leaked, doubled>>
  PROVE  QueueInv'
<1>1. NewIsAlone' /\ GoneStaysGone'
  BY DEF QueueInv, NewIsAlone, GoneStaysGone, Listed
<1>2. AcceptsOnce'
  BY DEF QueueInv, AcceptsOnce, Clear, Listed
<1>3. ListedRuns'
  BY DEF QueueInv, ListedRuns, Clear, Removing, Removes, Leaving, Listed
<1>4. LeakedIsLost'
  BY DEF QueueInv, LeakedIsLost, IsRoom, Listed
<1> QED
  BY <1>1, <1>2, <1>3, <1>4 DEF QueueInv

LEMMA QueueNext ==
  TypeInv /\ ServiceInv /\ QueueInv /\ [Next]_vars => QueueInv'
<1> SUFFICES ASSUME TypeInv, ServiceInv, QueueInv, [Next]_vars PROVE QueueInv'
  OBVIOUS
<1>1. TypeInv' /\ ServiceInv'
  BY TypeNext, ServiceNext
<1>2. CASE SaveRooms \/ UNCHANGED vars
  BY <1>2, QueueStays DEF SaveRooms, vars, dataVars, roomVars, countVars, histVars
<1> QED
  BY <1>1, <1>2, QueueThread, QueueRestart DEF Next

(* The queues of a daemon at rest run for the listed rooms and for no      *)
(* others, whatever calls accepted, created and deleted rooms at once,     *)
(* failed half-way or were cut off by an exit, but for what hit names, for *)
(* the rooms that createRoom has abandoned and for those that two calls    *)
(* have accepted at once.                                                  *)
THEOREM QueuesAreListed == Spec => []QueuesMatch
<1>1. Init => QueueInv
  BY QueueInit
<1>2. TypeInv /\ ServiceInv /\ QueueInv /\ [Next]_vars => QueueInv'
  BY QueueNext
<1>3. TypeInv /\ QueueInv => QueuesMatch
  <2> SUFFICES ASSUME TypeInv, QueueInv, Quiescent
               PROVE  {o \in running \ (leaked \cup doubled) : o[1] \notin hit}
                        = {o \in Listed \ doubled : o[1] \notin hit}
    BY DEF QueuesMatch
  <2>1. ASSUME NEW o \in Obj, o \notin doubled, o[1] \notin hit
        PROVE  /\ o \in Listed => o \in running
               /\ o \in running /\ o \notin leaked => o \in Listed
               /\ o \in leaked => o \notin Listed
    BY <2>1 DEF QueueInv, ListedRuns, LeakedIsLost, Clear, Removing, Removes,
       Quiescent
  <2>2. running \subseteq Obj /\ Listed \subseteq Obj
    BY ListedTyped DEF TypeInv, TypeOK, Listed
  <2> QED
    BY <2>1, <2>2
<1> QED
  BY <1>1, <1>2, <1>3, TypeInvariant, ServiceInvariant, PTL DEF Spec

==============================================================================
